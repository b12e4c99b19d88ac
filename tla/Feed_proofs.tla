---------------------------- MODULE Feed_proofs ----------------------------
(***************************************************************************)
(* Proofs about Feed and its exporter: the entries of a store are with the *)
(* consumer, in the pipe and in the batch in one row, whoever dies and     *)
(* whatever requests fail, and its positions stay behind what was handled. *)
(***************************************************************************)
EXTENDS Exporter, SequenceFacts, FiniteSetTheorems

Places == None .. MaxLog
Labels == None .. 2
Record == [id : Stores, at : None .. MaxLog - 1, labels : Labels]
Report == [id : Stores, offset : Places, taken : Places]
Pending == [end : 1 .. MaxLog, chunk : Places]
Tracked == [offset : Places, floor : Places, pending : SUBSET Pending, taken : Places]

------------------------------------------------------------------------------
\* The entries of a store in a sequence of records are those from a to b, in order.
Row(q, s, a, b) ==
    /\ a <= b
    /\ \A i \in 1 .. Len(q) : Of(q[i], s) => a <= q[i].at /\ q[i].at < b
    /\ \A p \in a .. b - 1 : \E i \in 1 .. Len(q) : Of(q[i], s) /\ q[i].at = p
    /\ \A i, j \in 1 .. Len(q) : i < j /\ Of(q[i], s) /\ Of(q[j], s) => q[i].at < q[j].at

LEMMA RecordFields ==
    ASSUME NEW q \in Seq(Record), NEW i \in 1 .. Len(q)
    PROVE  /\ q[i] \in Record /\ q[i].id \in Stores /\ q[i].labels \in Labels
           /\ q[i].at \in Int /\ None <= q[i].at /\ q[i].at < MaxLog
<1>1. q[i] \in Record
  BY ElementOfSeq
<1>2. QED
  BY <1>1, FeedAssumption DEF Record, None

LEMMA RowEmpty ==
    ASSUME NEW s, NEW a \in Int
    PROVE  Row(<<>>, s, a, a)
BY EmptySeq DEF Row

LEMMA RowAppend ==
    ASSUME NEW s, NEW a \in Int, NEW b \in Int, NEW q \in Seq(Record), NEW r \in Record,
           Row(q, s, a, b)
    PROVE  /\ ~Of(r, s) => Row(Append(q, r), s, a, b)
           /\ Of(r, s) /\ r.at = b => Row(Append(q, r), s, a, b + 1)
<1> DEFINE z == Append(q, r)
<1>1. /\ Len(q) \in Nat /\ Len(z) = Len(q) + 1 /\ z[Len(q) + 1] = r
      /\ \A i \in 1 .. Len(q) : z[i] = q[i]
  BY AppendIsSeq
<1>2. \A i \in 1 .. Len(q) : q[i].at \in Int
  BY RecordFields
<1> HIDE DEF z
<1>3. ASSUME ~Of(r, s) PROVE Row(z, s, a, b)
  BY <1>1, <1>3 DEF Row
<1>4. ASSUME Of(r, s), r.at = b PROVE Row(z, s, a, b + 1)
  <2>1. \A i \in 1 .. Len(z) : Of(z[i], s) => a <= z[i].at /\ z[i].at < b + 1
    BY <1>1, <1>2, <1>4 DEF Row
  <2>2. \A p \in a .. b : \E i \in 1 .. Len(z) : Of(z[i], s) /\ z[i].at = p
    <3>1. TAKE p \in a .. b
    <3>2. CASE p = b
      BY <1>1, <1>4, <3>2
    <3>3. CASE p # b
      <4>1. p \in a .. b - 1
        BY <3>3
      <4>2. PICK i \in 1 .. Len(q) : Of(q[i], s) /\ q[i].at = p
        BY <4>1 DEF Row
      <4>3. QED
        BY <1>1, <4>2
    <3>4. QED
      BY <3>2, <3>3
  <2>3. \A i, j \in 1 .. Len(z) : i < j /\ Of(z[i], s) /\ Of(z[j], s) => z[i].at < z[j].at
    BY <1>1, <1>4 DEF Row
  <2>4. QED
    BY <2>1, <2>2, <2>3 DEF Row
<1>5. QED
  BY <1>3, <1>4 DEF z

LEMMA RowTail ==
    ASSUME NEW s, NEW a \in Int, NEW b \in Int, NEW q \in Seq(Record), q # <<>>,
           Row(q, s, a, b)
    PROVE  /\ ~Of(Head(q), s) => Row(Tail(q), s, a, b)
           /\ Of(Head(q), s) => Head(q).at = a /\ a < b /\ Row(Tail(q), s, a + 1, b)
<1> DEFINE z == Tail(q)
<1>1. /\ Len(q) \in Nat \ {0} /\ Len(z) = Len(q) - 1 /\ Head(q) = q[1]
      /\ \A i \in 1 .. Len(q) - 1 : z[i] = q[i + 1]
  BY TailIsSeq, EmptySeq
<1>2. \A i \in 1 .. Len(q) : q[i].at \in Int
  BY RecordFields
<1>3. \A i \in 1 .. Len(z) : i + 1 \in 1 .. Len(q) /\ z[i] = q[i + 1]
  BY <1>1
<1>4. \A i \in 2 .. Len(q) : i - 1 \in 1 .. Len(z) /\ z[i - 1] = q[i]
  BY <1>1
<1> HIDE DEF z
<1>5. ASSUME NEW i \in 1 .. Len(z), NEW j \in 1 .. Len(z), i < j, Of(z[i], s), Of(z[j], s)
      PROVE  z[i].at < z[j].at
  <2>1. /\ i + 1 \in 1 .. Len(q) /\ j + 1 \in 1 .. Len(q) /\ i + 1 < j + 1
        /\ z[i] = q[i + 1] /\ z[j] = q[j + 1]
    BY <1>3, <1>5
  <2>2. QED
    BY <1>5, <2>1 DEF Row
<1>6. ASSUME ~Of(Head(q), s) PROVE Row(z, s, a, b)
  <2>1. \A i \in 1 .. Len(z) : Of(z[i], s) => a <= z[i].at /\ z[i].at < b
    BY <1>3 DEF Row
  <2>2. ASSUME NEW p \in a .. b - 1 PROVE \E i \in 1 .. Len(z) : Of(z[i], s) /\ z[i].at = p
    <3>1. PICK i \in 1 .. Len(q) : Of(q[i], s) /\ q[i].at = p
      BY <2>2 DEF Row
    <3>2. i \in 2 .. Len(q)
      BY <1>1, <1>6, <3>1
    <3>3. QED
      BY <1>4, <3>1, <3>2
  <2>3. QED
    BY <1>5, <2>1, <2>2 DEF Row
<1>7. ASSUME Of(Head(q), s) PROVE q[1].at = a /\ a < b /\ Row(z, s, a + 1, b)
  <2>1. 1 \in 1 .. Len(q) /\ Of(q[1], s) /\ a <= q[1].at /\ q[1].at < b
    BY <1>1, <1>7 DEF Row
  <2>2. a \in a .. b - 1
    BY <1>2, <2>1
  <2>3. PICK m \in 1 .. Len(q) : Of(q[m], s) /\ q[m].at = a
    BY <2>2 DEF Row
  <2>4. \A i \in 2 .. Len(q) : Of(q[i], s) => q[1].at < q[i].at
    BY <2>1 DEF Row
  <2>5. q[1].at = a
    BY <1>2, <2>1, <2>3, <2>4
  <2>6. \A i \in 1 .. Len(z) : Of(z[i], s) => a + 1 <= z[i].at /\ z[i].at < b
    <3>1. TAKE i \in 1 .. Len(z)
    <3>2. i + 1 \in 2 .. Len(q) /\ i + 1 \in 1 .. Len(q) /\ z[i] = q[i + 1]
      BY <1>1, <1>3
    <3>3. QED
      BY <1>2, <2>4, <2>5, <3>2 DEF Row
  <2>7. ASSUME NEW p \in a + 1 .. b - 1 PROVE \E i \in 1 .. Len(z) : Of(z[i], s) /\ z[i].at = p
    <3>1. p \in a .. b - 1
      BY <2>7
    <3>2. PICK i \in 1 .. Len(q) : Of(q[i], s) /\ q[i].at = p
      BY <3>1 DEF Row
    <3>3. i \in 2 .. Len(q)
      BY <2>5, <3>2
    <3>4. QED
      BY <1>4, <3>2, <3>3
  <2>8. a + 1 <= b
    BY <2>2
  <2> HIDE DEF Row
  <2>9. Row(z, s, a + 1, b)
    BY <1>5, <2>6, <2>7, <2>8 DEF Row
  <2>10. QED
    BY <2>2, <2>5, <2>9
<1>8. QED
  BY <1>1, <1>6, <1>7 DEF z

\* Records of others in front are no part of a row.
LEMMA RowBehind ==
    ASSUME NEW s, NEW a \in Int, NEW b \in Int, NEW q \in Seq(Record), NEW p \in Seq(Record),
           Row(q, s, a, b), \A i \in 1 .. Len(p) : ~Of(p[i], s)
    PROVE  Row(p \o q, s, a, b)
<1> DEFINE z == p \o q
<1>1. /\ Len(p) \in Nat /\ Len(q) \in Nat /\ Len(z) = Len(p) + Len(q)
      /\ \A i \in 1 .. Len(p) : z[i] = p[i]
      /\ \A i \in 1 .. Len(q) : z[Len(p) + i] = q[i]
  BY ConcatProperties, LenProperties
<1> HIDE DEF z
<1>2. \A i \in 1 .. Len(z) : Of(z[i], s) =>
         /\ i - Len(p) \in 1 .. Len(q) /\ z[i] = q[i - Len(p)]
  <2>1. TAKE i \in 1 .. Len(z)
  <2>2. CASE i \in 1 .. Len(p)
    BY <1>1, <2>2
  <2>3. CASE i \notin 1 .. Len(p)
    <3>1. i - Len(p) \in 1 .. Len(q) /\ Len(p) + (i - Len(p)) = i
      BY <1>1, <2>3
    <3>2. QED
      BY <1>1, <3>1
  <2>4. QED
    BY <2>2, <2>3
<1>3. \A i \in 1 .. Len(q) : Len(p) + i \in 1 .. Len(z) /\ z[Len(p) + i] = q[i]
  BY <1>1
<1>4. \A i \in 1 .. Len(z) : Of(z[i], s) => a <= z[i].at /\ z[i].at < b
  BY <1>2 DEF Row
<1>5. \A x \in a .. b - 1 : \E i \in 1 .. Len(z) : Of(z[i], s) /\ z[i].at = x
  <2>1. TAKE x \in a .. b - 1
  <2>2. PICK i \in 1 .. Len(q) : Of(q[i], s) /\ q[i].at = x
    BY DEF Row
  <2>3. QED
    BY <1>3, <2>2
<1>6. \A i, j \in 1 .. Len(z) : i < j /\ Of(z[i], s) /\ Of(z[j], s) => z[i].at < z[j].at
  <2>1. TAKE i, j \in 1 .. Len(z)
  <2>2. HAVE i < j /\ Of(z[i], s) /\ Of(z[j], s)
  <2>3. /\ i - Len(p) \in 1 .. Len(q) /\ j - Len(p) \in 1 .. Len(q) /\ i - Len(p) < j - Len(p)
        /\ z[i] = q[i - Len(p)] /\ z[j] = q[j - Len(p)]
    BY <1>1, <1>2, <2>2
  <2>4. QED
    BY <2>2, <2>3 DEF Row
<1>7. QED
  BY <1>4, <1>5, <1>6 DEF Row, z

LEMMA WithinBounds ==
    ASSUME NEW a \in Int, NEW b \in Int, NEW m \in Nat, m <= b - a
    PROVE  a + m \in a .. b
OBVIOUS

\* What is written of a sequence is its front, and so is the row.
LEMMA RowPrefix ==
    ASSUME NEW s, NEW a \in Int, NEW b \in Int, NEW q \in Seq(Record), NEW n \in 0 .. Len(q),
           Row(q, s, a, b)
    PROVE  \E c \in a .. b : Row(SubSeq(q, 1, n), s, a, c)
<1> DEFINE z == SubSeq(q, 1, n)
           T == {p \in Nat : ~ \E i \in 1 .. n : Of(q[i], s) /\ a + p <= q[i].at}
<1>1. /\ Len(q) \in Nat /\ n \in Nat /\ n <= Len(q) /\ Len(z) = n /\ \A i \in 1 .. n : z[i] = q[i]
      /\ \A i \in 1 .. n : i \in 1 .. Len(q)
  BY PrefixIsSeq, LenProperties
<1>2. \A i \in 1 .. Len(q) : q[i].at \in Int
  BY RecordFields
<1>3. b - a \in T
  BY <1>1, <1>2 DEF Row
<1>4. PICK m \in T : \A x \in T : m <= x
  <2>1. T \in SUBSET Nat
    OBVIOUS
  <2> HIDE DEF T
  <2>2. QED
    BY <1>3, <2>1, LeastNumber
<1>5. a + m \in a .. b /\ m \in Nat
  <2>1. m \in Nat
    BY <1>4
  <2> HIDE DEF T
  <2>2. m <= b - a
    BY <1>3, <1>4
  <2>3. QED
    BY <2>1, <2>2, WithinBounds
<1> HIDE DEF z
<1>6. \A i \in 1 .. Len(z) : Of(z[i], s) => a <= z[i].at /\ z[i].at < a + m
  BY <1>1, <1>2, <1>4 DEF Row
<1>7. ASSUME NEW x \in a .. a + m - 1 PROVE \E i \in 1 .. Len(z) : Of(z[i], s) /\ z[i].at = x
  <2>1. m - 1 \in Nat /\ m - 1 \notin T
    <3> HIDE DEF T
    <3>1. QED
      BY <1>4, <1>5, <1>7
  <2>2. PICK l \in 1 .. n : Of(q[l], s) /\ a + (m - 1) <= q[l].at
    BY <2>1
  <2>3. x \in a .. b - 1 /\ x <= q[l].at /\ l \in 1 .. Len(q)
    BY <1>1, <1>2, <1>5, <1>7, <2>2
  <2>4. PICK i \in 1 .. Len(q) : Of(q[i], s) /\ q[i].at = x
    BY <2>3 DEF Row
  <2>5. ~ (l < i)
    BY <1>2, <2>2, <2>3, <2>4 DEF Row
  <2>6. i \in 1 .. n
    BY <1>1, <2>4, <2>5
  <2>7. QED
    BY <1>1, <2>4, <2>6
<1>8. \A i, j \in 1 .. Len(z) : i < j /\ Of(z[i], s) /\ Of(z[j], s) => z[i].at < z[j].at
  BY <1>1 DEF Row
<1>9. Row(z, s, a, a + m)
  <2> HIDE DEF T
  <2>1. QED
    BY <1>5, <1>6, <1>7, <1>8 DEF Row
<1>10. QED
  BY <1>5, <1>9 DEF z

------------------------------------------------------------------------------
\* The stores' records in turn: a row of a store is a row of the whole.
Own(records) ==
    /\ records \in [Stores -> Seq(Record)]
    /\ \A t \in Stores : \A i \in 1 .. Len(records[t]) : records[t][i].id = t

IsTurns(order) ==
    /\ order \in Seq(Stores) /\ order # <<>>
    /\ \A i, j \in 1 .. Len(order) : order[i] = order[j] => i = j
    /\ \A s \in Stores : \E i \in 1 .. Len(order) : order[i] = s

LEMMA RowInFront ==
    ASSUME NEW s, NEW a \in Int, NEW b \in Int, NEW q \in Seq(Record), NEW p \in Seq(Record),
           Row(q, s, a, b), \A i \in 1 .. Len(p) : ~Of(p[i], s)
    PROVE  Row(q \o p, s, a, b)
<1> DEFINE z == q \o p
<1>1. /\ Len(p) \in Nat /\ Len(q) \in Nat /\ Len(z) = Len(q) + Len(p)
      /\ \A i \in 1 .. Len(q) : z[i] = q[i]
      /\ \A i \in 1 .. Len(p) : z[Len(q) + i] = p[i]
  BY ConcatProperties, LenProperties
<1> HIDE DEF z
<1>2. \A i \in 1 .. Len(z) : Of(z[i], s) => i \in 1 .. Len(q)
  <2>1. TAKE i \in 1 .. Len(z)
  <2>2. CASE i \notin 1 .. Len(q)
    <3>1. i - Len(q) \in 1 .. Len(p) /\ Len(q) + (i - Len(q)) = i
      BY <1>1, <2>2
    <3>2. QED
      BY <1>1, <3>1
  <2>3. QED
    BY <2>2
<1>3. \A i \in 1 .. Len(q) : i \in 1 .. Len(z) /\ z[i] = q[i]
  BY <1>1
<1>4. QED
  BY <1>2, <1>3 DEF Row, z

LEMMA NoneBehind ==
    ASSUME NEW s, NEW p \in Seq(Record), NEW q \in Seq(Record),
           \A i \in 1 .. Len(p) : ~Of(p[i], s), \A i \in 1 .. Len(q) : ~Of(q[i], s)
    PROVE  \A i \in 1 .. Len(p \o q) : ~Of((p \o q)[i], s)
<1> DEFINE z == p \o q
<1>1. /\ Len(p) \in Nat /\ Len(q) \in Nat /\ Len(z) = Len(p) + Len(q)
      /\ \A i \in 1 .. Len(p) : z[i] = p[i]
      /\ \A i \in 1 .. Len(q) : z[Len(p) + i] = q[i]
  BY ConcatProperties, LenProperties
<1> HIDE DEF z
<1>2. ASSUME NEW i \in 1 .. Len(z) PROVE ~Of(z[i], s)
  <2>1. CASE i \in 1 .. Len(p)
    BY <1>1, <2>1
  <2>2. CASE i \notin 1 .. Len(p)
    <3>1. i - Len(p) \in 1 .. Len(q) /\ Len(p) + (i - Len(p)) = i
      BY <1>1, <2>2
    <3>2. QED
      BY <1>1, <3>1
  <2>3. QED
    BY <2>1, <2>2
<1>3. QED
  BY <1>2 DEF z

LEMMA InTurnOf ==
    ASSUME NEW order, IsTurns(order), NEW records, Own(records)
    PROVE  /\ InTurn(order, records) \in Seq(Record)
           /\ \A x : x \in Range(InTurn(order, records)) <=>
                       \E s \in Stores : x \in Range(records[s])
           /\ \A s \in Stores : \A a, b \in Int :
                Row(records[s], s, a, b) => Row(InTurn(order, records), s, a, b)
<1> DEFINE n == Len(order)
           L == [i \in 1 .. n |-> records[order[i]]]
<1>1. /\ n \in Nat /\ n # 0 /\ \A i \in 1 .. n : order[i] \in Stores
      /\ \A i, j \in 1 .. n : order[i] = order[j] => i = j
      /\ \A s \in Stores : \E i \in 1 .. n : order[i] = s
  BY SeqElements, EmptySeq DEF IsTurns
<1>2. /\ \A s \in Stores : records[s] \in Seq(Record)
      /\ \A t \in Stores : \A i \in 1 .. Len(records[t]) : records[t][i].id = t
  BY DEF Own
<1>3. L \in [1 .. n -> Seq(Record)] /\ \A i \in 1 .. n : L[i] = records[order[i]]
  BY <1>1, <1>2
<1>4. L \in Seq(Seq(Record)) /\ Len(L) = n
  <2> HIDE DEF L, n
  <2>1. QED
    BY <1>1, <1>3, FunctionIsSeq
<1>5. InTurn(order, records) = FlattenSeq(L)
  BY DEF InTurn
<1> HIDE DEF L, n
<1>6. FlattenSeq(L) \in Seq(Record)
  BY <1>4, FlattenRange
<1>7. ASSUME NEW x
      PROVE  x \in Range(FlattenSeq(L)) <=> \E s \in Stores : x \in Range(records[s])
  <2>1. x \in Range(FlattenSeq(L)) <=> \E i \in 1 .. n : x \in Range(L[i])
    BY <1>4, FlattenRange
  <2>2. ASSUME NEW i \in 1 .. n, x \in Range(L[i]) PROVE \E s \in Stores : x \in Range(records[s])
    <3>1. L[i] = records[order[i]] /\ order[i] \in Stores
      BY <1>1, <1>3
    <3>2. x \in Range(records[order[i]])
      BY <2>2, <3>1
    <3>3. QED
      BY <3>1, <3>2
  <2>3. ASSUME NEW s \in Stores, x \in Range(records[s]) PROVE \E i \in 1 .. n : x \in Range(L[i])
    <3>1. PICK i \in 1 .. n : order[i] = s
      BY <1>1
    <3>2. L[i] = records[s]
      BY <1>3, <3>1
    <3>3. QED
      BY <2>3, <3>2
  <2>4. QED
    BY <2>1, <2>2, <2>3
<1>8. PICK h \in [1 .. n -> Seq(Record)] :
         /\ h[1] = L[1] /\ h[n] = FlattenSeq(L)
         /\ \A i \in 2 .. n : h[i] = h[i - 1] \o L[i]
  <2>1. \E h \in [1 .. Len(L) -> Seq(Record)] :
           /\ h[1] = L[1] /\ h[Len(L)] = FlattenSeq(L)
           /\ \A i \in 2 .. Len(L) : h[i] = h[i - 1] \o L[i]
    <3>1. Len(L) # 0
      BY <1>1, <1>4
    <3>2. QED
      BY <1>4, <3>1, FlattenChain
  <2>2. Len(L) = n
    BY <1>4
  <2>3. QED
    BY <2>1, <2>2
<1>9. ASSUME NEW s \in Stores, NEW a \in Int, NEW b \in Int, Row(records[s], s, a, b)
      PROVE  Row(h[n], s, a, b)
  <2>1. PICK k \in 1 .. n : order[k] = s
    BY <1>1
  <2>2. \A i \in 1 .. n : i # k => \A j \in 1 .. Len(L[i]) : ~Of(L[i][j], s)
    <3>1. SUFFICES ASSUME NEW i \in 1 .. n, i # k, NEW j \in 1 .. Len(L[i]) PROVE ~Of(L[i][j], s)
      OBVIOUS
    <3>2. L[i] = records[order[i]] /\ order[i] \in Stores /\ order[i] # s
      BY <1>1, <1>3, <2>1, <3>1
    <3>3. records[order[i]][j].id = order[i]
      BY <1>2, <3>1, <3>2
    <3>4. QED
      BY <3>2, <3>3 DEF Of
  <2>3. Row(L[k], s, a, b) /\ \A i \in 1 .. n : L[i] \in Seq(Record) /\ h[i] \in Seq(Record)
    BY <1>3, <1>8, <1>9, <2>1
  <2> DEFINE Clear(m) == \A j \in 1 .. Len(h[m]) : ~Of(h[m][j], s)
             T == {m \in Nat : m + 1 <= n => IF m + 1 < k THEN Clear(m + 1) ELSE Row(h[m + 1], s, a, b)}
  <2>4. 0 \in T
    <3>1. SUFFICES IF 1 < k THEN Clear(1) ELSE Row(h[1], s, a, b)
      OBVIOUS
    <3>2. CASE 1 < k
      BY <1>1, <1>8, <2>2, <3>2
    <3>3. CASE k = 1
      BY <1>1, <1>8, <2>3, <3>3
    <3>4. QED
      <4> HIDE DEF Clear
      <4>1. QED
        BY <3>2, <3>3
  <2> HIDE DEF Clear
  <2>5. ASSUME NEW m \in Nat, m \in T PROVE m + 1 \in T
    <3>1. SUFFICES ASSUME m + 1 + 1 <= n
                   PROVE  IF m + 1 + 1 < k THEN Clear(m + 1 + 1) ELSE Row(h[m + 1 + 1], s, a, b)
      OBVIOUS
    <3>2. /\ m + 1 + 1 \in 2 .. n /\ m + 1 + 1 \in 1 .. n /\ m + 1 \in 1 .. n
          /\ (m + 1 + 1) - 1 = m + 1
      BY <1>1, <3>1
    <3>3. h[m + 1 + 1] = h[m + 1] \o L[m + 1 + 1]
      BY <1>8, <3>2
    <3>4. IF m + 1 < k THEN Clear(m + 1) ELSE Row(h[m + 1], s, a, b)
      BY <1>1, <2>5, <3>2
    <3>5. h[m + 1] \in Seq(Record) /\ L[m + 1 + 1] \in Seq(Record)
      BY <2>3, <3>2
    <3>6. CASE m + 1 + 1 < k
      <4>1. Clear(m + 1) /\ \A j \in 1 .. Len(L[m + 1 + 1]) : ~Of(L[m + 1 + 1][j], s)
        BY <2>2, <3>2, <3>4, <3>6
      <4>2. Clear(m + 1 + 1)
        BY <3>3, <3>5, <4>1, NoneBehind DEF Clear
      <4>3. QED
        BY <3>6, <4>2
    <3>7. CASE m + 1 + 1 = k
      <4>1. Clear(m + 1) /\ Row(L[m + 1 + 1], s, a, b)
        BY <2>3, <3>4, <3>7
      <4>2. Row(h[m + 1 + 1], s, a, b)
        BY <3>3, <3>5, <4>1, RowBehind DEF Clear
      <4>3. QED
        BY <3>7, <4>2
    <3>8. CASE m + 1 + 1 > k
      <4>1. Row(h[m + 1], s, a, b) /\ \A j \in 1 .. Len(L[m + 1 + 1]) : ~Of(L[m + 1 + 1][j], s)
        BY <2>2, <3>2, <3>4, <3>8
      <4>2. Row(h[m + 1 + 1], s, a, b)
        BY <3>3, <3>5, <4>1, RowInFront
      <4>3. QED
        BY <3>8, <4>2
    <3>9. QED
      BY <3>6, <3>7, <3>8
  <2>6. Nat \subseteq T
    <3> HIDE DEF T
    <3>1. QED
      BY <2>4, <2>5, SetInduction
  <2>7. n - 1 \in T /\ (n - 1) + 1 = n /\ ~ (n < k)
    <3> HIDE DEF T
    <3>1. QED
      BY <1>1, <2>6
  <2>8. QED
    BY <2>7
<1>10. QED
  BY <1>5, <1>6, <1>7, <1>8, <1>9

LEMMA RotatedTurns ==
    ASSUME NEW id \in Stores \cup {NoStore}
    PROVE  IsTurns(Rotated(id))
<1>1. /\ Order \in Seq(STRING) /\ Order # <<>> /\ NoStore \notin Stores
      /\ \A i, j \in 1 .. Len(Order) : Order[i] = Order[j] => i = j
  BY FeedAssumption
<1>2. /\ Len(Order) \in Nat \ {0} /\ \A i \in 1 .. Len(Order) : Order[i] \in Stores
      /\ Order \in Seq(Stores)
  <2>1. Len(Order) \in Nat /\ Len(Order) # 0 /\ Order \in [1 .. Len(Order) -> STRING]
    BY <1>1, SeqElements, EmptySeq, LenProperties
  <2>2. \A i \in 1 .. Len(Order) : Order[i] \in Stores
    BY DEF Stores
  <2>3. Order \in [1 .. Len(Order) -> Stores]
    BY <2>1, <2>2
  <2>4. QED
    BY <2>1, <2>2, <2>3, FunctionIsSeq
<1>3. \A s \in Stores : \E i \in 1 .. Len(Order) : Order[i] = s
  BY DEF Stores
<1>4. CASE id = NoStore
  BY <1>1, <1>2, <1>3, <1>4 DEF Rotated, IsTurns
<1>5. CASE id # NoStore
  <2> DEFINE k == CHOOSE i \in 1 .. Len(Order) : Order[i] = id
             n == Len(Order)
             p == SubSeq(Order, k + 1, n)
             q == SubSeq(Order, 1, k)
             z == p \o q
  <2>1. k \in 1 .. n /\ n \in Nat
    BY <1>2, <1>3, <1>5
  <2>2. Rotated(id) = z
    BY <1>5 DEF Rotated
  <2> HIDE DEF k
  <2>3. /\ p \in Seq(Stores) /\ Len(p) = n - k
        /\ \A i \in 1 .. n - k : p[i] = Order[k + i]
    BY <1>2, <2>1, SubSeqProperties
  <2>4. /\ q \in Seq(Stores) /\ Len(q) = k /\ \A i \in 1 .. k : q[i] = Order[i]
    BY <1>2, <2>1, PrefixIsSeq
  <2> HIDE DEF p, q
  <2>5. /\ z \in Seq(Stores) /\ Len(z) = n /\ \A i \in 1 .. n - k : z[i] = p[i]
        /\ \A i \in 1 .. k : z[(n - k) + i] = q[i]
    <3>1. /\ z \in Seq(Stores) /\ Len(z) = Len(p) + Len(q) /\ \A i \in 1 .. Len(p) : z[i] = p[i]
          /\ \A i \in 1 .. Len(q) : z[Len(p) + i] = q[i]
      <4>1. p \in Seq(Stores) /\ q \in Seq(Stores)
        BY <2>3, <2>4
      <4>2. QED
        BY <4>1, ConcatProperties
    <3>2. Len(p) = n - k /\ Len(q) = k
      BY <2>3, <2>4
    <3>3. (n - k) + k = n
      <4> HIDE DEF n
      <4>1. QED
        BY <2>1
    <3>4. QED
      BY <3>1, <3>2, <3>3
  <2> HIDE DEF z
  <2> DEFINE from(i) == IF i <= n - k THEN k + i ELSE i - (n - k)
  <2>6. \A i \in 1 .. n : from(i) \in 1 .. n /\ z[i] = Order[from(i)]
    <3>1. TAKE i \in 1 .. n
    <3>2. CASE i <= n - k
      BY <2>1, <2>3, <2>5, <3>2
    <3>3. CASE i > n - k
      <4>1. i - (n - k) \in 1 .. k /\ (n - k) + (i - (n - k)) = i
        BY <2>1, <3>3
      <4>2. QED
        BY <2>1, <2>4, <2>5, <3>3, <4>1
    <3>4. QED
      BY <2>1, <3>2, <3>3
  <2>7. \A i, j \in 1 .. n : from(i) = from(j) => i = j
    BY <2>1
  <2>8. \A m \in 1 .. n : \E i \in 1 .. n : from(i) = m
    <3>1. TAKE m \in 1 .. n
    <3>2. CASE m <= k
      <4>1. (n - k) + m \in 1 .. n /\ from((n - k) + m) = m
        BY <2>1, <3>2
      <4>2. QED
        BY <4>1
    <3>3. CASE m > k
      <4>1. m - k \in 1 .. n /\ from(m - k) = m
        BY <2>1, <3>3
      <4>2. QED
        BY <4>1
    <3>4. QED
      BY <2>1, <3>2, <3>3
  <2> HIDE DEF from
  <2>9. \A i, j \in 1 .. n : z[i] = z[j] => i = j
    BY <1>1, <2>6, <2>7
  <2>10. \A s \in Stores : \E i \in 1 .. n : z[i] = s
    <3>1. TAKE s \in Stores
    <3>2. PICK m \in 1 .. n : Order[m] = s
      BY <1>3
    <3>3. PICK i \in 1 .. n : from(i) = m
      BY <2>8
    <3>4. QED
      BY <2>6, <3>2, <3>3
  <2>11. z # <<>>
    BY <1>2, <2>5, EmptySeq
  <2> HIDE DEF n
  <2>12. QED
    BY <2>2, <2>5, <2>9, <2>10, <2>11 DEF IsTurns
<1>6. QED
  BY <1>4, <1>5

------------------------------------------------------------------------------
\* Under which labels the entries of a store come: those of the last source before.
Carries(l, r, s) == IF r.id = s /\ IsSource(r) THEN r.labels ELSE l

Labelled(q, s, from, to) ==
    \E h \in [0 .. Len(q) -> Labels] :
        /\ h[0] = from /\ h[Len(q)] = to
        /\ \A i \in 1 .. Len(q) : h[i] = Carries(h[i - 1], q[i], s)
        /\ \A i \in 1 .. Len(q) : Of(q[i], s) => q[i].labels = h[i]

LEMMA LabelledEmpty ==
    ASSUME NEW s, NEW l \in Labels
    PROVE  Labelled(<<>>, s, l, l)
<1> DEFINE h == [i \in 0 .. 0 |-> l]
<1>1. Len(<<>>) = 0 /\ h \in [0 .. Len(<<>>) -> Labels] /\ h[0] = l
  BY EmptySeq
<1> HIDE DEF h
<1>2. QED
  BY <1>1 DEF Labelled

LEMMA LabelledAppend ==
    ASSUME NEW s, NEW l \in Labels, NEW m \in Labels, NEW q \in Seq(Record), NEW r \in Record,
           Labelled(q, s, l, m), Of(r, s) => r.labels = m
    PROVE  Labelled(Append(q, r), s, l, Carries(m, r, s)) /\ Carries(m, r, s) \in Labels
<1> DEFINE z == Append(q, r)
           w == Carries(m, r, s)
<1>1. /\ Len(q) \in Nat /\ Len(z) = Len(q) + 1 /\ z[Len(q) + 1] = r
      /\ \A i \in 1 .. Len(q) : z[i] = q[i]
  BY AppendIsSeq
<1>2. w \in Labels /\ (Of(r, s) => w = m)
  BY DEF Carries, Record, Of, IsSource
<1>3. PICK h \in [0 .. Len(q) -> Labels] :
        /\ h[0] = l /\ h[Len(q)] = m
        /\ \A i \in 1 .. Len(q) : h[i] = Carries(h[i - 1], q[i], s)
        /\ \A i \in 1 .. Len(q) : Of(q[i], s) => q[i].labels = h[i]
  BY DEF Labelled
<1> DEFINE g == [i \in 0 .. Len(z) |-> IF i <= Len(q) THEN h[i] ELSE w]
<1>4. g \in [0 .. Len(z) -> Labels] /\ g[0] = l /\ g[Len(z)] = w
  BY <1>1, <1>2, <1>3
<1>5. \A i \in 1 .. Len(q) : g[i] = h[i] /\ g[i - 1] = h[i - 1]
  BY <1>1
<1>6. g[Len(q) + 1] = w /\ g[(Len(q) + 1) - 1] = m
  BY <1>1, <1>3
<1> HIDE DEF z, g
<1>7. \A i \in 1 .. Len(z) : i \in 1 .. Len(q) \/ i = Len(q) + 1
  BY <1>1
<1>8. \A i \in 1 .. Len(z) : g[i] = Carries(g[i - 1], z[i], s)
  BY <1>1, <1>3, <1>5, <1>6, <1>7
<1>9. \A i \in 1 .. Len(z) : Of(z[i], s) => z[i].labels = g[i]
  BY <1>1, <1>2, <1>3, <1>5, <1>6, <1>7
<1>10. QED
  BY <1>2, <1>4, <1>8, <1>9 DEF Labelled, z

LEMMA LabelledTail ==
    ASSUME NEW s, NEW l \in Labels, NEW m \in Labels, NEW q \in Seq(Record), q # <<>>,
           Labelled(q, s, l, m)
    PROVE  /\ Labelled(Tail(q), s, Carries(l, Head(q), s), m)
           /\ Of(Head(q), s) => Head(q).labels = l
           /\ Carries(l, Head(q), s) \in Labels
<1> DEFINE z == Tail(q)
<1>1. /\ Len(q) \in Nat \ {0} /\ Len(z) = Len(q) - 1 /\ Head(q) = q[1]
      /\ \A i \in 1 .. Len(q) - 1 : z[i] = q[i + 1]
  BY TailIsSeq, EmptySeq
<1>2. PICK h \in [0 .. Len(q) -> Labels] :
        /\ h[0] = l /\ h[Len(q)] = m
        /\ \A i \in 1 .. Len(q) : h[i] = Carries(h[i - 1], q[i], s)
        /\ \A i \in 1 .. Len(q) : Of(q[i], s) => q[i].labels = h[i]
  BY DEF Labelled
<1>3. 1 \in 1 .. Len(q) /\ 1 - 1 = 0 /\ 1 \in 0 .. Len(q)
  BY <1>1
<1>4. h[1] = Carries(l, q[1], s) /\ h[1] \in Labels
  BY <1>2, <1>3
<1>5. Of(q[1], s) => q[1].labels = l
  BY <1>2, <1>3, <1>4 DEF Carries, Of
<1> DEFINE g == [i \in 0 .. Len(z) |-> h[i + 1]]
<1>6. g \in [0 .. Len(z) -> Labels] /\ g[0] = h[1] /\ g[Len(z)] = m
  BY <1>1, <1>2
<1>7. \A i \in 1 .. Len(z) : g[i] = h[i + 1] /\ g[i - 1] = h[(i + 1) - 1] /\ i + 1 \in 1 .. Len(q) /\ z[i] = q[i + 1]
  BY <1>1
<1> HIDE DEF z, g
<1>8. \A i \in 1 .. Len(z) : g[i] = Carries(g[i - 1], z[i], s)
  BY <1>2, <1>7
<1>9. \A i \in 1 .. Len(z) : Of(z[i], s) => z[i].labels = g[i]
  BY <1>2, <1>7
<1>10. Labelled(z, s, Carries(l, q[1], s), m)
  BY <1>4, <1>6, <1>8, <1>9 DEF Labelled
<1>11. QED
  BY <1>1, <1>4, <1>5, <1>10 DEF z

\* What a read answers with is under the labels of now, if need be announced before.
LEMMA LabelledFresh ==
    ASSUME NEW s, NEW l \in Labels, NEW m \in Labels, NEW q \in Seq(Record),
           \A i \in 1 .. Len(q) : q[i].id = s => q[i].labels = m,
           \A i \in 1 .. Len(q) : Of(q[i], s) =>
               l = m \/ \E j \in 1 .. i - 1 : q[j].id = s /\ IsSource(q[j])
    PROVE  \E to \in Labels : Labelled(q, s, l, to)
<1> DEFINE Told(i) == \E j \in 1 .. i : q[j].id = s /\ IsSource(q[j])
           h == [i \in 0 .. Len(q) |-> IF Told(i) THEN m ELSE l]
<1>1. Len(q) \in Nat /\ h \in [0 .. Len(q) -> Labels] /\ h[Len(q)] \in Labels
  BY LenProperties
<1>2. h[0] = l
  BY <1>1
<1>3. ASSUME NEW i \in 1 .. Len(q)
      PROVE  /\ h[i] = Carries(h[i - 1], q[i], s)
             /\ Of(q[i], s) => q[i].labels = h[i]
  <2>1. /\ h[i] = (IF Told(i) THEN m ELSE l) /\ h[i - 1] = (IF Told(i - 1) THEN m ELSE l)
        /\ i \in Int
    BY <1>1
  <2>2. Told(i) <=> Told(i - 1) \/ (q[i].id = s /\ IsSource(q[i]))
    <3>1. \A j \in Int : j \in 1 .. i <=> j \in 1 .. i - 1 \/ j = i
      BY <1>1
    <3>2. QED
      BY <2>1, <3>1
  <2>3. Of(q[i], s) => l = m \/ Told(i - 1)
    OBVIOUS
  <2> HIDE DEF h, Told
  <2>4. q[i].id = s => q[i].labels = m
    OBVIOUS
  <2>5. CASE q[i].id = s /\ IsSource(q[i])
    BY <2>1, <2>2, <2>4, <2>5 DEF Carries, Of
  <2>6. CASE ~ (q[i].id = s /\ IsSource(q[i]))
    BY <2>1, <2>2, <2>3, <2>4, <2>6 DEF Carries, Of
  <2>7. QED
    BY <2>5, <2>6
<1> HIDE DEF h
<1>4. QED
  BY <1>1, <1>2, <1>3 DEF Labelled

------------------------------------------------------------------------------
\* The types of what the model keeps.
LogTypes ==
    /\ logEnd \in [Stores -> 0 .. MaxLog] /\ flushed \in [Stores -> 0 .. MaxLog]
    /\ head \in [Stores -> 0 .. MaxLog] /\ labels \in [Stores -> 1 .. 2]

LoopTypes ==
    /\ saved \in [Stores -> [offset : Places, floor : Places]]
    /\ book \in [Stores -> Tracked] /\ announced \in [Stores -> Labels]
    /\ batch \in Seq(Record) /\ stoppedIn \in Stores \cup {NoStore}
    /\ startedAt \in [Stores -> Places]

LinkTypes ==
    /\ pipe \in Seq(Record) /\ reports \in Seq(Report)
    /\ readTo \in [Stores -> Places] /\ said \in [Stores -> Places \X Places]
    /\ handled \in [Stores -> 0 .. MaxLog]

ExporterTypes ==
    /\ inbox \in Seq(Record) /\ reporting \in SUBSET Stores
    /\ known \in [Stores -> [labels : Labels, pending : Seq(Record), end : Places]]

Types == feedEnv \in FeedEnvironments /\ LogTypes /\ LoopTypes /\ LinkTypes /\ ExporterTypes

------------------------------------------------------------------------------
\* Of a store, its entries before a are with the consumer, those from a to n in the
\* pipe and those from b to c in the batch; n is where the last one written ends, and is
\* None when none was.  With an exporter, those from lo to k are gathered and those from
\* k to a are with its reader.
Marks(s) ==
    /\ head[s] <= flushed[s] /\ flushed[s] <= logEnd[s] /\ handled[s] <= logEnd[s]
    /\ ~Mayhap("append") => logEnd[s] - flushed[s] < ChunkLen

Sendings(s, a, n) ==
    /\ (a = None) <=> (n = None)
    /\ Row(pipe, s, a, n) /\ n <= logEnd[s]
    /\ readTo[s] = a \/ (readTo[s] = None /\ a < n)

ChunkOK(p) == p.chunk = None \/ (0 <= p.chunk /\ p.chunk * ChunkLen <= p.end)

\* What is tracked: something is in flight, or the position is where the last entry
\* written ends.
TrackedTo(b, n) ==
    /\ IsFiniteSet(b.pending)
    /\ \A p \in b.pending : b.offset < p.end /\ p.end <= n /\ ChunkOK(p)
    /\ IF b.pending = {} THEN n \in {None, b.offset} ELSE \E p \in b.pending : p.end = n

Tracking(s, a, n) ==
    /\ n # None => book[s].offset <= a
    /\ book[s].taken <= readTo[s] /\ TrackedTo(book[s], n)

Reading(s, n, b, c) ==
    /\ Row(batch, s, b, c)
    /\ b < c => /\ c <= logEnd[s] /\ startedAt[s] # None
                /\ b = IF n = None THEN MaxOf(book[s].offset, 0) ELSE n

Reporting(s) ==
    /\ \A i \in ReportsOn(s, reports) :
         /\ 0 <= reports[i].offset /\ book[s].offset <= reports[i].offset
         /\ reports[i].offset <= readTo[s] /\ reports[i].offset <= handled[s]
         /\ reports[i].taken <= readTo[s]
    /\ \A i, j \in ReportsOn(s, reports) : i < j => reports[i].offset <= reports[j].offset

FloorOK(x) == x.floor # None => 0 <= x.floor /\ x.floor * ChunkLen <= x.offset

\* Positions grow and are of a chunk that is not behind them; what retention took is
\* behind the recorded one.
Positions(s, n) ==
    /\ FloorOK(saved[s]) /\ FloorOK(book[s])
    /\ IF fpc = "start" THEN book[s] = Fresh /\ n = None ELSE saved[s].offset <= book[s].offset
    /\ head[s] <= MaxOf(saved[s].offset, 0)
    /\ n # None => startedAt[s] # None
    /\ startedAt[s] = None => saved[s].offset = None /\ book[s].offset = None
    /\ startedAt[s] = None /\ handled[s] > 0 => fpc = "start" /\ feedEnv.claims
    /\ s \notin feedEnv.young /\ (n # None \/ batch # <<>>) => book[s].offset # None

Core(s, a, n, b, c) ==
    /\ Marks(s) /\ Sendings(s, a, n) /\ Tracking(s, a, n) /\ Reading(s, n, b, c)
    /\ Reporting(s) /\ Positions(s, n)

------------------------------------------------------------------------------
\* A follower that dies picks its stores up where it did before: none of them lacks a
\* position after the first poll, or nothing has come in since.
Picked(e) == "die" \in e.happens => e.young = Stores \/ "append" \notin e.happens

Claimed(s) == MaxOf(startedAt[s], handled[s])

Steady(s) ==
    /\ saved[s].offset <= Claimed(s) /\ book[s].offset <= Claimed(s)
    /\ s \notin feedEnv.young /\ startedAt[s] # None =>
         /\ ~Mayhap("die") => fpc # "start" /\ book[s].offset # None
         /\ Mayhap("die") /\ saved[s].offset = None => startedAt[s] = flushed[s]

------------------------------------------------------------------------------
\* What an exporter has gathered, is asking the receiver to take and has yet to report.
Gathering(s, lo, k) ==
    /\ \A i \in 1 .. Len(known[s].pending) :
         Of(known[s].pending[i], s) /\ known[s].pending[i].labels = known[s].labels
    /\ Row(known[s].pending, s, lo, k)
    /\ s \in reporting => known[s].pending # <<>> /\ known[s].end <= handled[s]

Shipping(s, lo, k, a, n) ==
    /\ Gathering(s, lo, k) /\ Row(inbox, s, k, a)
    /\ (lo = None) <=> (n = None)
    /\ IF known[s].end = None
       THEN known[s].pending = <<>> /\ ReportsOn(s, reports) = {}
            /\ (n # None => k = MaxOf(book[s].offset, 0))
       ELSE known[s].end = k /\ book[s].offset <= lo
            /\ \A i \in ReportsOn(s, reports) : reports[i].offset <= lo
    /\ readTo[s] = None => known[s].end = None /\ k = a

Labelling(s) ==
    \E l1, l2 \in Labels :
        /\ Labelled(inbox, s, known[s].labels, l1) /\ Labelled(pipe, s, l1, announced[s])
        /\ Labelled(batch, s, announced[s], l2)

\* What the receiver has of a store, from where it was picked up.
HasAll(all, s, from, to) ==
    from # None => \A p \in from .. to - 1 : \E e \in all : e.id = s /\ e.at = p

HasTo(s, n) == HasAll(shipped, s, startedAt[s], n)

Shipped(s, lo, k) ==
    /\ HasTo(s, saved[s].offset) /\ HasTo(s, book[s].offset) /\ HasTo(s, handled[s])
    /\ HasTo(s, lo) /\ (s \in reporting => HasTo(s, k))

------------------------------------------------------------------------------
StoreHolds(s, a, n, b, c, lo, k) ==
    /\ Core(s, a, n, b, c)
    /\ Picked(feedEnv) => Steady(s)
    /\ IsExporter => Shipping(s, lo, k, a, n) /\ Labelling(s)
    /\ IsExporter /\ Picked(feedEnv) => Shipped(s, lo, k)

StoreInv(s) == \E a, n, b, c, lo, k \in Places : StoreHolds(s, a, n, b, c, lo, k)

Calm ==
    /\ fpc # "write" => batch = <<>>
    /\ reporting # {} => xpc = "report"
    /\ ~IsExporter => \A q \in {pipe, batch} : \A i \in 1 .. Len(q) : ~IsSource(q[i])
    /\ Len(pipe) <= PipeRoom
    /\ \A e \in shipped : e.as = e.fed

FeedInv == Types /\ Calm /\ \A s \in Stores : StoreInv(s)

LEMMA PlaceFacts ==
    /\ None = -1 /\ None \in Places /\ None \in Labels /\ None \in Int
    /\ MaxLog \in Nat \ {0} /\ ChunkLen \in Nat \ {0} /\ PipeRoom \in Nat \ {0} /\ Hold \in Nat
    /\ \A p \in Places : p \in Int /\ -1 <= p /\ p <= MaxLog
    /\ \A p \in Int : p \in Places <=> -1 <= p /\ p <= MaxLog
BY FeedAssumption DEF Places, Labels, None

LEMMA StoreTypes ==
    ASSUME Types, NEW s \in Stores
    PROVE  /\ logEnd[s] \in Nat /\ logEnd[s] <= MaxLog /\ flushed[s] \in Nat /\ flushed[s] <= MaxLog
           /\ head[s] \in Nat /\ handled[s] \in Nat /\ handled[s] <= MaxLog
           /\ labels[s] \in Labels /\ announced[s] \in Labels
           /\ saved[s].offset \in Places /\ saved[s].floor \in Places
           /\ book[s] \in Tracked /\ book[s].offset \in Places /\ book[s].floor \in Places
           /\ book[s].taken \in Places /\ book[s].pending \in SUBSET Pending
           /\ startedAt[s] \in Places /\ readTo[s] \in Places
           /\ known[s].pending \in Seq(Record) /\ known[s].end \in Places /\ known[s].labels \in Labels
<1>1. logEnd[s] \in 0 .. MaxLog /\ flushed[s] \in 0 .. MaxLog /\ head[s] \in 0 .. MaxLog /\ labels[s] \in 1 .. 2
  BY DEF Types, LogTypes
<1>2. handled[s] \in 0 .. MaxLog /\ readTo[s] \in Places
  BY DEF Types, LinkTypes
<1>3. saved[s] \in [offset : Places, floor : Places] /\ book[s] \in Tracked /\ announced[s] \in Labels /\ startedAt[s] \in Places
  BY DEF Types, LoopTypes
<1>4. known[s] \in [labels : Labels, pending : Seq(Record), end : Places]
  BY DEF Types, ExporterTypes
<1>5. labels[s] \in Labels
  BY <1>1 DEF Labels, None
<1>6. QED
  BY <1>1, <1>2, <1>3, <1>4, <1>5, PlaceFacts DEF Tracked

LEMMA StoreInts ==
    ASSUME Types, NEW s \in Stores
    PROVE  /\ logEnd[s] \in Int /\ 0 <= logEnd[s] /\ logEnd[s] <= MaxLog
           /\ flushed[s] \in Int /\ 0 <= flushed[s] /\ flushed[s] <= MaxLog
           /\ head[s] \in Int /\ 0 <= head[s] /\ handled[s] \in Int /\ 0 <= handled[s] /\ handled[s] <= MaxLog
           /\ saved[s].offset \in Int /\ -1 <= saved[s].offset /\ saved[s].offset <= MaxLog
           /\ saved[s].floor \in Int /\ -1 <= saved[s].floor
           /\ book[s].offset \in Int /\ -1 <= book[s].offset /\ book[s].offset <= MaxLog
           /\ book[s].floor \in Int /\ -1 <= book[s].floor
           /\ book[s].taken \in Int /\ -1 <= book[s].taken /\ book[s].taken <= MaxLog
           /\ startedAt[s] \in Int /\ -1 <= startedAt[s] /\ startedAt[s] <= MaxLog
           /\ readTo[s] \in Int /\ -1 <= readTo[s] /\ readTo[s] <= MaxLog
           /\ known[s].end \in Int /\ -1 <= known[s].end /\ known[s].end <= MaxLog
           /\ None = -1 /\ MaxLog \in Int /\ 1 <= MaxLog /\ ChunkLen \in Int /\ 1 <= ChunkLen
<1>1. \A p \in Places : p \in Int /\ -1 <= p /\ p <= MaxLog
  BY PlaceFacts
<1>2. /\ saved[s].offset \in Places /\ saved[s].floor \in Places
      /\ book[s].offset \in Places /\ book[s].floor \in Places /\ book[s].taken \in Places
      /\ startedAt[s] \in Places /\ readTo[s] \in Places /\ known[s].end \in Places
  BY StoreTypes
<1>3. MaxLog \in Nat \ {0} /\ ChunkLen \in Nat \ {0} /\ None = -1
  BY PlaceFacts
<1>4. /\ logEnd[s] \in Nat /\ logEnd[s] <= MaxLog /\ flushed[s] \in Nat /\ flushed[s] <= MaxLog
      /\ head[s] \in Nat /\ handled[s] \in Nat /\ handled[s] <= MaxLog
  BY StoreTypes
<1>5. QED
  BY <1>1, <1>2, <1>3, <1>4

LEMMA SequenceTypes ==
    ASSUME Types
    PROVE  pipe \in Seq(Record) /\ batch \in Seq(Record) /\ inbox \in Seq(Record) /\ reports \in Seq(Report)
BY DEF Types, LoopTypes, LinkTypes, ExporterTypes

LEMMA ReportFields ==
    ASSUME NEW rs \in Seq(Report), NEW i \in 1 .. Len(rs)
    PROVE  rs[i] \in Report /\ rs[i].id \in Stores /\ rs[i].offset \in Places /\ rs[i].taken \in Places
<1>1. rs[i] \in Report
  BY ElementOfSeq
<1>2. QED
  BY <1>1 DEF Report

------------------------------------------------------------------------------
\* Arithmetic, and the greatest of some places.
LEMMA GreatestPlace ==
    ASSUME NEW S \in SUBSET Places, S # {}
    PROVE  Max(S) \in S /\ \A x \in S : x <= Max(S)
<1> DEFINE T == {x \in Nat : MaxLog - x \in S}
<1>1. T \in SUBSET Nat
  OBVIOUS
<1>2. T # {}
  <2>1. PICK x \in S : TRUE
    OBVIOUS
  <2>2. MaxLog - x \in Nat /\ MaxLog - (MaxLog - x) = x
    BY <2>1, PlaceFacts
  <2>3. MaxLog - x \in T
    BY <2>1, <2>2
  <2>4. QED
    BY <2>3
<1>3. PICK m \in T : \A x \in T : m <= x
  <2> HIDE DEF T
  <2>1. QED
    BY <1>1, <1>2, LeastNumber
<1>4. MaxLog - m \in S /\ \A x \in S : x <= MaxLog - m
  <2>1. MaxLog - m \in S /\ m \in Nat
    BY <1>3
  <2>2. ASSUME NEW x \in S PROVE x <= MaxLog - m
    <3>1. MaxLog - x \in Nat /\ MaxLog - (MaxLog - x) = x /\ x \in Int
      BY <2>2, PlaceFacts
    <3>2. MaxLog - x \in T
      BY <2>2, <3>1
    <3>3. m <= MaxLog - x
      BY <1>3, <3>2
    <3>4. QED
      BY <2>1, <3>1, <3>3, PlaceFacts
  <2>3. QED
    BY <2>1, <2>2
<1>5. QED
  BY <1>4 DEF Max

LEMMA DivBound ==
    ASSUME NEW x \in Nat
    PROVE  /\ x \div ChunkLen \in Nat /\ (x \div ChunkLen) * ChunkLen <= x
           /\ x - (x \div ChunkLen) * ChunkLen < ChunkLen /\ x \div ChunkLen <= x
<1> DEFINE d == x \div ChunkLen
<1>1. ChunkLen \in Nat \ {0}
  BY FeedAssumption
<1>2. /\ d \in Nat /\ d * ChunkLen + (x % ChunkLen) = x
      /\ x % ChunkLen \in Nat /\ x % ChunkLen < ChunkLen
  BY <1>1
<1> HIDE DEF d
<1>3. d <= d * ChunkLen
  BY <1>1, <1>2
<1>4. QED
  BY <1>1, <1>2, <1>3 DEF d

\* What the steps of each party leave alone, variable by variable.
ExporterStill == UNCHANGED <<inbox, known, reporting, shipped, xpc>>
ReaderStill == UNCHANGED <<readTo, said, handled>>
LogsStill == UNCHANGED <<logEnd, flushed, head, labels>>

LEMMA WriterStill ==
    ASSUME WriterMoves, UNCHANGED exporterVars
    PROVE  /\ UNCHANGED <<saved, fpc, book, announced, batch, stoppedIn, startedAt, pipe, reports, feedEnv>>
           /\ ExporterStill /\ ReaderStill
           /\ \E s \in Stores : AppendLog(s) \/ FlushLog(s) \/ Retain(s) \/ Relabel(s)
BY DEF WriterMoves, BesideWriters, feedVars, consumerVars, feedHistory, exporterVars,
       ExporterStill, ReaderStill

LEMMA LoopStill ==
    ASSUME LoopMoves, UNCHANGED exporterVars
    PROVE  /\ LogsStill /\ ExporterStill /\ UNCHANGED <<readTo, said, feedEnv>>
           /\ FeedSteps \/ SilenceLasts
BY DEF LoopMoves, BesideLoop, logVars, consumerVars, exporterVars, LogsStill, ExporterStill

LEMMA ConsumerStill ==
    ASSUME UNCHANGED BesideConsumer
    PROVE  /\ LogsStill
           /\ UNCHANGED <<saved, fpc, book, announced, batch, stoppedIn, startedAt, feedEnv>>
BY DEF BesideConsumer, feedVars, logVars, LogsStill

------------------------------------------------------------------------------
\* Every step keeps the types.
LEMMA AdvanceTypes ==
    ASSUME NEW t \in Tracked, NEW o \in Places, NEW f \in Places
    PROVE  Advance(t, o, f) \in Tracked
<1>1. MaxOf(t.floor, f) \in Places
  BY DEF MaxOf, Tracked
<1>2. QED
  BY <1>1 DEF Advance, Tracked

LEMMA FreshTypes ==
    Fresh \in Tracked
BY PlaceFacts DEF Fresh, Tracked

LEMMA TypesOfWriters ==
    ASSUME Types, WriterMoves, UNCHANGED exporterVars
    PROVE  Types'
<1>1. /\ UNCHANGED <<saved, fpc, book, announced, batch, stoppedIn, startedAt, pipe, reports, feedEnv>>
      /\ ExporterStill /\ ReaderStill
  BY WriterStill
<1>2. PICK s \in Stores : AppendLog(s) \/ FlushLog(s) \/ Retain(s) \/ Relabel(s)
  BY WriterStill
<1>3. feedEnv' \in FeedEnvironments /\ LoopTypes' /\ LinkTypes' /\ ExporterTypes'
  BY <1>1 DEF Types, LoopTypes, LinkTypes, ExporterTypes, ExporterStill, ReaderStill
<1>4. LogTypes
  BY DEF Types
<1>5. ASSUME AppendLog(s) PROVE LogTypes'
  <2>1. logEnd[s] + 1 \in 0 .. MaxLog
    BY <1>4, <1>5, PlaceFacts DEF AppendLog, LogTypes
  <2>2. QED
    BY <1>4, <1>5, <2>1 DEF AppendLog, LogTypes
<1>6. ASSUME FlushLog(s) PROVE LogTypes'
  <2>1. flushed[s] + ChunkLen \in 0 .. MaxLog
    BY <1>4, <1>6, PlaceFacts DEF FlushLog, LogTypes
  <2>2. QED
    BY <1>4, <1>6, <2>1 DEF FlushLog, LogTypes
<1>7. ASSUME Retain(s) PROVE LogTypes'
  <2> DEFINE keep == saved[s].floor * ChunkLen
  <2>1. keep \in Int /\ keep > head[s] /\ keep <= flushed[s] /\ head' = [head EXCEPT ![s] = keep]
    <3>1. saved[s].floor \in Int
      BY StoreTypes, PlaceFacts
    <3>2. QED
      BY <1>7, <3>1, PlaceFacts DEF Retain, ConsumedPrefix
  <2>2. keep \in 0 .. MaxLog
    <3> HIDE DEF keep
    <3>1. QED
      BY <2>1, StoreTypes, PlaceFacts
  <2>3. QED
    BY <1>4, <1>7, <2>1, <2>2 DEF Retain, LogTypes
<1>8. ASSUME Relabel(s) PROVE LogTypes'
  BY <1>4, <1>8 DEF Relabel, LogTypes
<1>9. LogTypes'
  BY <1>2, <1>5, <1>6, <1>7, <1>8
<1>10. QED
  BY <1>3, <1>9 DEF Types

LEMMA PersistedTypes ==
    ASSUME NEW books \in [Stores -> Tracked]
    PROVE  Persisted(books) \in [Stores -> [offset : Places, floor : Places]]
BY DEF Persisted, Recorded, Tracked

LEMMA TypesOfHello ==
    ASSUME Types, Hello, LogsStill, ExporterStill, UNCHANGED <<readTo, said, feedEnv>>
    PROVE  Types'
<1>1. LoopTypes /\ LinkTypes
  BY DEF Types
<1>2. book' \in [Stores -> Tracked]
  <2> DEFINE B(s) == [Fresh EXCEPT !.offset = saved[s].offset, !.floor = saved[s].floor]
             N(s) == IF feedEnv.claims /\ handled[s] > 0 /\ B(s).offset = None
                     THEN Advance(B(s), handled[s], None) ELSE B(s)
  <2>1. book' = [s \in Stores |-> N(s)]
    BY DEF Hello
  <2>2. ASSUME NEW s \in Stores PROVE N(s) \in Tracked
    <3>1. B(s) \in Tracked
      BY StoreTypes, PlaceFacts DEF Fresh, Tracked
    <3>2. handled[s] \in Places
      BY StoreTypes, PlaceFacts
    <3> HIDE DEF B
    <3>3. QED
      BY <3>1, <3>2, AdvanceTypes, PlaceFacts
  <2> HIDE DEF N
  <2>3. QED
    BY <2>1, <2>2
<1>3. saved' \in [Stores -> [offset : Places, floor : Places]]
  <2>1. saved' = Persisted(book')
    BY DEF Hello
  <2>2. QED
    BY <1>2, <2>1, PersistedTypes
<1>4. startedAt' \in [Stores -> Places]
  <2>1. \A s \in Stores : book'[s].offset \in Places /\ startedAt[s] \in Places
    BY <1>2, StoreTypes DEF Tracked
  <2>2. startedAt' = [s \in Stores |-> IF startedAt[s] = None THEN book'[s].offset ELSE startedAt[s]]
    BY DEF Hello
  <2>3. QED
    BY <2>1, <2>2
<1>5. LoopTypes'
  BY <1>1, <1>2, <1>3, <1>4 DEF Hello, LoopTypes
<1>6. feedEnv' \in FeedEnvironments /\ LogTypes' /\ LinkTypes' /\ ExporterTypes'
  BY DEF Hello, Types, LogTypes, LinkTypes, ExporterTypes, LogsStill, ExporterStill
<1>7. QED
  BY <1>5, <1>6 DEF Types

------------------------------------------------------------------------------
\* A read: what it picks up, and what it finds of each store.
PicksUp == [t \in Stores |-> PickedUp(t)]
Finds == [t \in Stores |-> IF Asked(t, PickedUp(t)) THEN Unread(PickedUp(t), t) ELSE <<>>]
News == [t \in Stores |-> IF Asked(t, PickedUp(t)) THEN Announce(t) ELSE <<>>]
AllFound == InTurn(Rotated(stoppedIn), Finds)
OutLen == IF Len(AllFound) < feedEnv.cap THEN Len(AllFound) ELSE feedEnv.cap
Out == SubSeq(AllFound, 1, OutLen)

LEMMA PickedTypes ==
    ASSUME Types, NEW s \in Stores
    PROVE  /\ PickedUp(s) \in Tracked
           /\ PickedUp(s).pending = book[s].pending /\ PickedUp(s).taken = book[s].taken
           /\ PickedUp(s).floor = book[s].floor
           /\ IF book[s].offset # None \/ s \in feedEnv.young THEN PickedUp(s) = book[s]
              ELSE PickedUp(s).offset = flushed[s]
<1>1. book[s] \in Tracked /\ flushed[s] \in Places /\ None \in Places
  BY StoreTypes, PlaceFacts
<1>2. MaxOf(book[s].floor, None) = book[s].floor
  <2>1. book[s].floor \in Int /\ -1 <= book[s].floor /\ None = -1
    BY StoreTypes, PlaceFacts
  <2>2. QED
    BY <2>1 DEF MaxOf
<1>3. Advance(book[s], flushed[s], None) \in Tracked
  BY <1>1, AdvanceTypes
<1>4. QED
  BY <1>1, <1>2, <1>3 DEF PickedUp, Advance, Tracked

Begins(s) == ReadFrom(PickedUp(s), s)
Sees(s) == ReadTo(PickedUp(s), s)
Many(s) == MaxOf(0, Sees(s) - Begins(s))
Seen(s) == Unread(PickedUp(s), s)

LEMMA UnreadTypes ==
    ASSUME Types, NEW s \in Stores
    PROVE  /\ Many(s) \in Nat /\ Begins(s) \in Nat /\ Seen(s) \in Seq(Record) /\ Len(Seen(s)) = Many(s)
           /\ \A i \in 1 .. Many(s) : Seen(s)[i] = [id |-> s, at |-> Begins(s) + i - 1, labels |-> labels[s]]
           /\ Many(s) > 0 => Begins(s) + Many(s) = Sees(s)
           /\ Sees(s) \in {logEnd[s], flushed[s]} /\ Sees(s) \in 0 .. MaxLog
           /\ Begins(s) = MaxOf(MaxOf(PickedUp(s).offset, PickedUp(s).taken), head[s])
           /\ Sees(s) = IF MaxOf(PickedUp(s).offset, PickedUp(s).taken) # None /\ head[s] = 0
                        THEN logEnd[s] ELSE flushed[s]
<1> DEFINE from == Begins(s)
           to == Sees(s)
           m == Many(s)
           u == Seen(s)
<1>1. /\ PickedUp(s).offset \in Int /\ PickedUp(s).taken \in Int /\ head[s] \in Nat
      /\ logEnd[s] \in 0 .. MaxLog /\ flushed[s] \in 0 .. MaxLog /\ labels[s] \in Labels
  <2>1. PickedUp(s) \in Tracked
    BY PickedTypes
  <2>2. PickedUp(s).offset \in Places /\ PickedUp(s).taken \in Places
    BY <2>1 DEF Tracked
  <2>3. PickedUp(s).offset \in Int /\ PickedUp(s).taken \in Int
    BY <2>2, PlaceFacts
  <2>4. logEnd[s] \in 0 .. MaxLog /\ flushed[s] \in 0 .. MaxLog
    BY DEF Types, LogTypes
  <2>5. head[s] \in Nat /\ labels[s] \in Labels
    BY StoreTypes
  <2>6. QED
    BY <2>3, <2>4, <2>5
<1>2. /\ from = MaxOf(MaxOf(PickedUp(s).offset, PickedUp(s).taken), head[s])
      /\ from \in Nat /\ to \in {logEnd[s], flushed[s]} /\ to \in 0 .. MaxLog
  BY <1>1 DEF ReadFrom, ReadTo, MaxOf, Begins, Sees
<1>3. m \in Nat /\ (m > 0 => from + m = to)
  BY <1>2 DEF MaxOf, Many
<1>4. u = [i \in 1 .. m |-> [id |-> s, at |-> from + i - 1, labels |-> labels[s]]]
  BY DEF Unread, Many, Begins, Sees, Seen
<1> HIDE DEF from, to, m, u
<1>5. \A i \in 1 .. m : [id |-> s, at |-> from + i - 1, labels |-> labels[s]] \in Record
  <2>1. \A i \in 1 .. m : from + i - 1 \in None .. MaxLog - 1
    BY <1>2, <1>3, PlaceFacts
  <2>2. QED
    BY <1>1, <2>1 DEF Record
<1>6. u \in [1 .. m -> Record] /\ \A i \in 1 .. m : u[i] = [id |-> s, at |-> from + i - 1, labels |-> labels[s]]
  BY <1>4, <1>5
<1>7. u \in Seq(Record) /\ Len(u) = m
  BY <1>3, <1>6, FunctionIsSeq
<1>8. Sees(s) = IF MaxOf(PickedUp(s).offset, PickedUp(s).taken) # None /\ head[s] = 0
                THEN logEnd[s] ELSE flushed[s]
  BY DEF Sees, ReadTo
<1>9. QED
  BY <1>2, <1>3, <1>6, <1>7, <1>8 DEF from, to, m, u

LEMMA OwnSequences ==
    ASSUME Types
    PROVE  /\ Own(Finds) /\ Own(News)
           /\ \A s \in Stores : News[s] = <<>> \/ (News[s] = <<Source(s)>> /\ IsExporter)
<1>1. ASSUME NEW s \in Stores
      PROVE  /\ Finds[s] \in Seq(Record) /\ \A i \in 1 .. Len(Finds[s]) : Finds[s][i].id = s
  <2>1. CASE Asked(s, PickedUp(s))
    <3>1. Finds[s] = Seen(s)
      BY <2>1 DEF Finds, Seen
    <3>2. \A i \in 1 .. Many(s) : Seen(s)[i] = [id |-> s, at |-> Begins(s) + i - 1, labels |-> labels[s]]
      BY UnreadTypes
    <3>3. \A i \in 1 .. Many(s) : Seen(s)[i].id = s
      <4>1. TAKE i \in 1 .. Many(s)
      <4> DEFINE x == Begins(s) + i - 1
      <4>2. Seen(s)[i] = [id |-> s, at |-> x, labels |-> labels[s]]
        BY <3>2
      <4> HIDE DEF x
      <4>3. QED
        BY <4>2
    <3>4. Seen(s) \in Seq(Record) /\ Len(Seen(s)) = Many(s)
      BY UnreadTypes
    <3>5. Seen(s) \in Seq(Record) /\ \A i \in 1 .. Len(Seen(s)) : Seen(s)[i].id = s
      BY <3>3, <3>4
    <3>6. QED
      BY <3>1, <3>5
  <2>2. CASE ~Asked(s, PickedUp(s))
    BY <2>2, EmptySeq DEF Finds
  <2>3. QED
    BY <2>1, <2>2
<1>2. ASSUME NEW s \in Stores
      PROVE  /\ News[s] \in Seq(Record) /\ \A i \in 1 .. Len(News[s]) : News[s][i].id = s
             /\ News[s] = <<>> \/ (News[s] = <<Source(s)>> /\ IsExporter)
  <2>1. News[s] = <<>> \/ (News[s] = <<Source(s)>> /\ IsExporter)
    BY DEF News, Announce, IsExporter
  <2>2. Source(s) \in Record /\ Source(s).id = s
    BY StoreTypes, PlaceFacts DEF Source, Record
  <2>3. CASE News[s] = <<>>
    BY <2>3, <2>1, EmptySeq
  <2>4. CASE News[s] = <<Source(s)>> /\ IsExporter
    BY <2>2, <2>4
  <2>5. QED
    BY <2>1, <2>3, <2>4
<1>3. Finds \in [Stores -> Seq(Record)]
  BY <1>1 DEF Finds
<1>4. News \in [Stores -> Seq(Record)]
  BY <1>2 DEF News
<1>5. QED
  BY <1>1, <1>2, <1>3, <1>4 DEF Own

LEMMA OutIsFront ==
    ASSUME Types
    PROVE  /\ AllFound \in Seq(Record) /\ OutLen \in 0 .. Len(AllFound) /\ Out \in Seq(Record)
           /\ InTurn(Rotated(stoppedIn), News) \in Seq(Record)
           /\ IsTurns(Rotated(stoppedIn))
           /\ Len(Out) = OutLen /\ \A i \in 1 .. OutLen : Out[i] = AllFound[i]
           /\ feedEnv.cap \in Nat \ {0}
<1>1. IsTurns(Rotated(stoppedIn))
  BY RotatedTurns DEF Types, LoopTypes
<1>2. AllFound \in Seq(Record) /\ InTurn(Rotated(stoppedIn), News) \in Seq(Record)
  BY <1>1, OwnSequences, InTurnOf DEF AllFound
<1>3. feedEnv.cap \in Nat \ {0}
  BY FeedAssumption DEF Types, FeedEnvironment
<1>4. OutLen \in 0 .. Len(AllFound)
  BY <1>2, <1>3, LenProperties DEF OutLen
<1>5. QED
  BY <1>1, <1>2, <1>3, <1>4, PrefixIsSeq DEF Out

LEMMA PollParts ==
    ASSUME Types, Poll
    PROVE  /\ fpc = "poll" /\ fpc' = "write" /\ book' = PicksUp
           /\ batch' = InTurn(Rotated(stoppedIn), News) \o Out
           /\ stoppedIn' = IF Len(AllFound) > feedEnv.cap THEN Last(Out).id ELSE NoStore
           /\ startedAt' = [t \in Stores |->
                IF startedAt[t] # None THEN startedAt[t]
                ELSE IF PickedUp(t).offset # None THEN PickedUp(t).offset
                ELSE IF t \in {Out[i].id : i \in 1 .. Len(Out)} THEN head[t] ELSE None]
           /\ UNCHANGED <<saved, announced, pipe, reports, handled>>
<1>1. \A t \in Stores : PicksUp[t] = PickedUp(t)
  BY DEF PicksUp
<1>2. Finds = [t \in Stores |-> IF Asked(t, PicksUp[t]) THEN Unread(PicksUp[t], t) ELSE <<>>]
  BY <1>1 DEF Finds
<1>3. News = [t \in Stores |-> IF Asked(t, PicksUp[t]) THEN Announce(t) ELSE <<>>]
  BY <1>1 DEF News
<1>4. startedAt' = [t \in Stores |->
                IF startedAt[t] # None THEN startedAt[t]
                ELSE IF PicksUp[t].offset # None THEN PicksUp[t].offset
                ELSE IF t \in {Out[i].id : i \in 1 .. Len(Out)} THEN head[t] ELSE None]
  BY <1>2 DEF Poll, PicksUp, Out, OutLen, AllFound
<1>5. QED
  BY <1>1, <1>2, <1>3, <1>4 DEF Poll, PicksUp, Out, OutLen, AllFound

LEMMA TypesOfPoll ==
    ASSUME Types, Poll, LogsStill, ExporterStill, UNCHANGED <<readTo, said, feedEnv>>
    PROVE  Types'
<1>1. book' \in [Stores -> Tracked]
  BY PollParts, PickedTypes DEF PicksUp
<1>2. batch' \in Seq(Record)
  <2>1. Out \in Seq(Record) /\ InTurn(Rotated(stoppedIn), News) \in Seq(Record)
    BY OutIsFront
  <2>2. InTurn(Rotated(stoppedIn), News) \o Out \in Seq(Record)
    BY <2>1, ConcatProperties
  <2>3. QED
    BY <2>2, PollParts
<1>3. startedAt' \in [Stores -> Places]
  <2>1. \A t \in Stores : startedAt[t] \in Places /\ PickedUp(t).offset \in Places /\ head[t] \in Places /\ None \in Places
    <3>1. TAKE t \in Stores
    <3>2. head[t] \in 0 .. MaxLog
      BY DEF Types, LogTypes
    <3>3. QED
      BY <3>2, StoreTypes, PickedTypes, PlaceFacts DEF Tracked
  <2>2. QED
    BY <2>1, PollParts
<1>4. stoppedIn' \in Stores \cup {NoStore}
  <2>1. CASE Len(AllFound) > feedEnv.cap
    <3>1. Len(Out) = feedEnv.cap /\ Len(Out) \in 1 .. Len(Out)
      BY <2>1, OutIsFront, LenProperties DEF OutLen
    <3>2. Out[Len(Out)].id \in Stores
      BY <3>1, OutIsFront, RecordFields
    <3>3. QED
      BY <2>1, <3>2, PollParts DEF Last
  <2>2. QED
    BY <2>1, PollParts
<1>5. LoopTypes'
  BY <1>1, <1>2, <1>3, <1>4, PollParts DEF Types, LoopTypes
<1>6. feedEnv' \in FeedEnvironments /\ LogTypes' /\ LinkTypes' /\ ExporterTypes'
  BY PollParts DEF Types, LogTypes, LinkTypes, ExporterTypes, LogsStill, ExporterStill
<1>7. QED
  BY <1>5, <1>6 DEF Types

LEMMA TypesOfWrite ==
    ASSUME Types, WriteEntry, LogsStill, ExporterStill, UNCHANGED <<readTo, said, feedEnv>>
    PROVE  Types'
<1> DEFINE e == Head(batch)
<1>1. /\ batch \in Seq(Record) /\ pipe \in Seq(Record) /\ batch # <<>>
      /\ batch' = Tail(batch) /\ pipe' = Append(pipe, e)
  BY SequenceTypes DEF WriteEntry
<1>2. /\ batch' \in Seq(Record) /\ pipe' \in Seq(Record) /\ e \in Record
  <2>1. e \in Record /\ Tail(batch) \in Seq(Record)
    BY <1>1, HeadTailProperties
  <2>2. QED
    BY <1>1, <2>1, AppendProperties
<1> HIDE DEF e
<1>3. book' \in [Stores -> Tracked] /\ announced' \in [Stores -> Labels]
  <2>1. book \in [Stores -> Tracked] /\ announced \in [Stores -> Labels] /\ e.id \in Stores /\ e.labels \in Labels
    BY <1>2 DEF Types, LoopTypes, Record
  <2>2. CASE IsSource(e)
    <3>1. announced' = [announced EXCEPT ![e.id] = e.labels] /\ book' = book
      BY <2>2 DEF WriteEntry, e
    <3>2. QED
      BY <2>1, <3>1
  <2>3. CASE ~IsSource(e)
    <3> DEFINE p == [end |-> e.at + 1, chunk |-> ChunkOf(e.id, e.at)]
    <3>1. announced' = announced /\ book' = [book EXCEPT ![e.id].pending = @ \cup {p}]
      BY <2>3 DEF WriteEntry, e
    <3>2. e.at \in Nat /\ e.at < MaxLog
      BY <1>2, <2>3, PlaceFacts DEF Record, IsSource
    <3>3. ChunkOf(e.id, e.at) \in Places
      <4>1. e.at \div ChunkLen \in Nat /\ e.at \div ChunkLen <= e.at
        BY <3>2, DivBound
      <4>2. QED
        BY <3>2, <4>1, PlaceFacts DEF ChunkOf
    <3>4. p \in Pending
      BY <3>2, <3>3, PlaceFacts DEF Pending
    <3> HIDE DEF p
    <3>5. book[e.id].pending \cup {p} \in SUBSET Pending
      BY <2>1, <3>4 DEF Tracked
    <3>6. [book[e.id] EXCEPT !.pending = @ \cup {p}] \in Tracked
      BY <2>1, <3>5 DEF Tracked
    <3>7. QED
      BY <2>1, <3>1, <3>6
  <2>4. QED
    BY <2>2, <2>3
<1>4. LoopTypes'
  BY <1>2, <1>3 DEF WriteEntry, Types, LoopTypes, feedHistory
<1>5. feedEnv' \in FeedEnvironments /\ LogTypes' /\ LinkTypes' /\ ExporterTypes'
  BY <1>2 DEF WriteEntry, Types, LogTypes, LinkTypes, ExporterTypes, LogsStill, ExporterStill, feedHistory
<1>6. QED
  BY <1>4, <1>5 DEF Types

------------------------------------------------------------------------------
\* A drain.
Drained == TakeAll(book, reports)
Drains ==
    /\ book' = Drained /\ reports' = <<>>
    /\ saved' = Persisted(book') \/ (saved' = saved /\ reports = <<>>)
    /\ fpc # "start" /\ fpc' # "start" /\ fpc' # "write" /\ batch' = batch
    /\ UNCHANGED <<announced, stoppedIn, pipe, handled, startedAt>>

LEMMA DrainSteps ==
    ASSUME DrainNow \/ WaitReport \/ DrainToEnd
    PROVE  Drains /\ (fpc = "write" => batch = <<>>)
<1>1. CASE DrainNow
  <2>1. fpc' \in {"poll", "wait", "close"}
    BY <1>1 DEF DrainNow, AfterDrain
  <2>2. QED
    BY <1>1, <2>1 DEF DrainNow, Drains, Drained
<1>2. CASE WaitReport
  BY <1>2 DEF WaitReport, Drains, Drained
<1>3. CASE DrainToEnd
  BY <1>3 DEF DrainToEnd, Drains, Drained, feedHistory
<1>4. QED
  BY <1>1, <1>2, <1>3

\* Of the reports on a store the last one counts, and all that ends before one is done.
Done(s) == {p \in book[s].pending : \E i \in ReportsOn(s, reports) : p.end <= reports[i].offset}
LastOf(s) == Max(ReportsOn(s, reports))

LEMMA DrainedParts ==
    ASSUME Types, NEW s \in Stores
    PROVE  /\ ReportsOn(s, reports) = {} => Drained[s] = book[s]
           /\ ReportsOn(s, reports) # {} =>
                /\ LastOf(s) \in ReportsOn(s, reports) /\ LastOf(s) \in 1 .. Len(reports)
                /\ \A i \in ReportsOn(s, reports) : i <= LastOf(s)
                /\ Drained[s].pending = book[s].pending \ Done(s)
                /\ Drained[s].offset = reports[LastOf(s)].offset
                /\ Drained[s].taken = LastTaken(book[s], reports, ReportsOn(s, reports))
                /\ Drained[s].floor = MaxOf(book[s].floor, LastChunk(Done(s)))
                /\ Drained[s].taken \in {book[s].taken} \cup {reports[i].taken : i \in ReportsOn(s, reports)}
                /\ LastChunk(Done(s)) \in {None} \cup {p.chunk : p \in Done(s)}
           /\ Drained[s] \in Tracked
<1> DEFINE mine == ReportsOn(s, reports)
<1>1. /\ book[s] \in Tracked /\ reports \in Seq(Report) /\ Len(reports) \in Nat
      /\ mine \subseteq 1 .. Len(reports)
  BY StoreTypes, SequenceTypes, LenProperties DEF ReportsOn
<1>2. Drained[s] = IF mine = {} THEN book[s] ELSE Taken(book[s], reports, mine)
  BY DEF Drained, TakeAll
<1>3. ASSUME mine # {}
      PROVE  LastOf(s) \in mine /\ LastOf(s) \in 1 .. Len(reports) /\ \A i \in mine : i <= LastOf(s)
  <2> HIDE DEF mine
  <2>1. Max(mine) \in mine /\ \A i \in mine : i <= Max(mine)
    <3>1. \E x \in mine : \A y \in mine : x >= y
      BY <1>1, <1>3, GreatestOf
    <3>2. QED
      BY <3>1 DEF Max
  <2>2. LastOf(s) = Max(mine)
    BY DEF LastOf, mine
  <2>3. QED
    BY <1>1, <2>1, <2>2
<1>4. Done(s) \subseteq book[s].pending /\ \A p \in book[s].pending : p.chunk \in Places
  BY <1>1 DEF Done, Tracked, Pending
<1>5. LastChunk(Done(s)) \in {None} \cup {p.chunk : p \in Done(s)} /\ LastChunk(Done(s)) \in Places
  <2> DEFINE C == {None} \cup {p.chunk : p \in Done(s)}
  <2>1. C \in SUBSET Places /\ C # {}
    BY <1>4, PlaceFacts
  <2>2. LastChunk(Done(s)) = Max(C)
    BY DEF LastChunk
  <2> HIDE DEF C
  <2>3. Max(C) \in C /\ Max(C) \in Places
    BY <2>1, GreatestPlace
  <2>4. QED
    BY <2>2, <2>3 DEF C
<1>6. /\ LastTaken(book[s], reports, mine) \in {book[s].taken} \cup {reports[i].taken : i \in mine}
      /\ LastTaken(book[s], reports, mine) \in Places
  <2> DEFINE C == {book[s].taken} \cup {reports[i].taken : i \in mine}
  <2>1. C \in SUBSET Places /\ C # {}
    <3>1. \A i \in mine : reports[i].taken \in Places
      BY <1>1, ReportFields
    <3>2. book[s].taken \in Places
      BY <1>1 DEF Tracked
    <3> HIDE DEF mine
    <3>3. QED
      BY <3>1, <3>2
  <2>2. LastTaken(book[s], reports, mine) = Max(C)
    BY DEF LastTaken
  <2> HIDE DEF C
  <2>3. Max(C) \in C /\ Max(C) \in Places
    BY <2>1, GreatestPlace
  <2>4. QED
    BY <2>2, <2>3 DEF C
<1> DEFINE t == LastTaken(book[s], reports, mine)
<1>7. ASSUME mine # {}
      PROVE  /\ Drained[s].pending = book[s].pending \ Done(s)
             /\ Drained[s].offset = reports[LastOf(s)].offset
             /\ Drained[s].taken = t
             /\ Drained[s].floor = MaxOf(book[s].floor, LastChunk(Done(s)))
             /\ Drained[s] \in Tracked
  <2>1. Taken(book[s], reports, mine) =
           Advance([book[s] EXCEPT !.pending = @ \ Done(s), !.taken = t],
                   reports[LastOf(s)].offset, LastChunk(Done(s)))
    BY DEF Taken, Done, LastOf
  <2>2. reports[LastOf(s)].offset \in Places
    BY <1>1, <1>3, <1>7, ReportFields
  <2> DEFINE u == [book[s] EXCEPT !.pending = @ \ Done(s), !.taken = t]
  <2> HIDE DEF t
  <2>3. /\ u \in Tracked /\ u.pending = book[s].pending \ Done(s) /\ u.taken = t
        /\ u.floor = book[s].floor
    BY <1>1, <1>6 DEF Tracked, t
  <2>4. Drained[s] = Advance(u, reports[LastOf(s)].offset, LastChunk(Done(s)))
    BY <1>2, <1>7, <2>1
  <2> HIDE DEF u
  <2> DEFINE f == LastChunk(Done(s))
             o == reports[LastOf(s)].offset
  <2>5. f \in Places /\ o \in Places /\ Drained[s] = Advance(u, o, f)
    BY <1>5, <2>2, <2>4
  <2> HIDE DEF f, o
  <2>6. Drained[s] \in Tracked
    BY <2>3, <2>5, AdvanceTypes
  <2>7. /\ Drained[s].pending = u.pending /\ Drained[s].offset = o /\ Drained[s].taken = u.taken
        /\ Drained[s].floor = MaxOf(u.floor, f)
    BY <2>3, <2>5 DEF Advance, Tracked
  <2>8. QED
    BY <2>3, <2>6, <2>7 DEF f, o
<1>8. QED
  BY <1>1, <1>2, <1>3, <1>5, <1>6, <1>7

LEMMA TypesOfDrain ==
    ASSUME Types, Drains, LogsStill, ExporterStill, UNCHANGED <<readTo, said, feedEnv>>
    PROVE  Types'
<1>1. book' \in [Stores -> Tracked]
  <2>1. Drained = [s \in Stores |-> Drained[s]]
    BY DEF Drained, TakeAll
  <2>2. \A s \in Stores : Drained[s] \in Tracked
    BY DrainedParts
  <2>3. QED
    BY <2>1, <2>2 DEF Drains
<1>2. saved' \in [Stores -> [offset : Places, floor : Places]]
  BY <1>1, PersistedTypes DEF Drains, Types, LoopTypes
<1>3. reports' \in Seq(Report)
  BY EmptySeq DEF Drains
<1>4. LoopTypes'
  BY <1>1, <1>2 DEF Drains, Types, LoopTypes
<1>5. feedEnv' \in FeedEnvironments /\ LogTypes' /\ LinkTypes' /\ ExporterTypes'
  BY <1>3 DEF Drains, Types, LogTypes, LinkTypes, ExporterTypes, LogsStill, ExporterStill
<1>6. QED
  BY <1>4, <1>5 DEF Types

\* A step that moves nothing the invariant is about.
Quiet ==
    /\ LogsStill \/ (\E s \in Stores : Relabel(s))
    /\ UNCHANGED <<saved, book, announced, batch, stoppedIn, startedAt, pipe, reports, readTo, said,
                   handled, feedEnv, inbox, known, reporting, shipped>>
    /\ (fpc' = "start") <=> (fpc = "start")
    /\ fpc' # "write" => fpc # "write" \/ batch = <<>>
    /\ reporting # {} => xpc' = "report"

\* The steps of the consumer's end that move entries.
LoopHolds ==
    /\ LogsStill
    /\ UNCHANGED <<saved, fpc, book, announced, batch, stoppedIn, startedAt, feedEnv>>

\* The receiver settles what a request holds.
Settles ==
    /\ LoopHolds /\ Settled /\ reporting = {} /\ reporting' \in {Waiting, {}}
    /\ reporting' # {} => xpc' = "report"
    /\ UNCHANGED <<pipe, reports, readTo, said, inbox, known>>

Reads == LoopHolds /\ ReadRecord
Consumes == LoopHolds /\ ConsumeEntry /\ ExporterStill /\ ~IsExporter
Says(s) == LoopHolds /\ Say(s) /\ ExporterStill /\ ~IsExporter
TakesSource == LoopHolds /\ TakeSource /\ known' = Adopts(Head(inbox)) /\ ~MustFlushFirst(Head(inbox))
TakesEntry == LoopHolds /\ TakeEntry
Reported == LoopHolds /\ Progress

LEMMA TryPostSteps ==
    ASSUME LoopHolds, TryPost, reporting # {} => xpc = "report"
    PROVE  Quiet \/ Settles
<1>1. reporting = {} /\ xpc \in {"post", "again"} /\ UNCHANGED <<pipe, reports, readTo, said, inbox, known>>
  BY DEF TryPost
<1>2. CASE Failed
  <2>1. xpc' # "report" /\ reporting' = {}
    BY <1>2 DEF Failed, AfterFailure
  <2>2. Settled \/ UNCHANGED <<shipped, handled>>
    BY <1>2 DEF Failed
  <2>3. QED
    BY <1>1, <2>1, <2>2 DEF Quiet, Settles, LoopHolds
<1>3. ASSUME NEW status \in Answers, Answered(status) PROVE Quiet \/ Settles
  BY <1>1, <1>3 DEF Answered, Quiet, Settles, LoopHolds
<1>4. QED
  BY <1>2, <1>3 DEF TryPost

LEMMA Steps ==
    ASSUME ExportNext, Calm
    PROVE  \/ WriterMoves /\ UNCHANGED exporterVars /\ \E s \in Stores : AppendLog(s) \/ FlushLog(s) \/ Retain(s)
           \/ Quiet
           \/ LogsStill /\ ExporterStill /\ UNCHANGED <<readTo, said, feedEnv>> /\ (Hello \/ Poll \/ WriteEntry)
           \/ LogsStill /\ ExporterStill /\ UNCHANGED <<readTo, said, feedEnv>> /\ Drains
              /\ (fpc = "write" => batch = <<>>)
           \/ Consumes \/ (\E s \in Stores : Says(s))
           \/ IsExporter /\ (Reads \/ TakesSource \/ TakesEntry \/ Settles \/ Reported)
           \/ ExporterDies
<1> USE DEF Calm
<1>1. ASSUME WriterMoves, UNCHANGED exporterVars
      PROVE  Quiet \/ \E s \in Stores : AppendLog(s) \/ FlushLog(s) \/ Retain(s)
  BY <1>1, WriterStill DEF Quiet, ExporterStill, ReaderStill
<1>2. ASSUME LoopMoves, UNCHANGED exporterVars
      PROVE  \/ Quiet
             \/ LogsStill /\ ExporterStill /\ UNCHANGED <<readTo, said, feedEnv>> /\ (Hello \/ Poll \/ WriteEntry)
             \/ LogsStill /\ ExporterStill /\ UNCHANGED <<readTo, said, feedEnv>> /\ Drains
                /\ (fpc = "write" => batch = <<>>)
  <2>1. LogsStill /\ ExporterStill /\ UNCHANGED <<readTo, said, feedEnv>> /\ (FeedSteps \/ SilenceLasts)
    BY <1>2, LoopStill
  <2>2. CASE Hello \/ Poll \/ WriteEntry
    BY <2>1, <2>2
  <2>3. CASE DrainNow \/ WaitReport \/ DrainToEnd
    BY <2>1, <2>3, DrainSteps
  <2>4. CASE WaitTimeout
    BY <2>1, <2>4 DEF WaitTimeout, Quiet, ExporterStill
  <2>5. CASE CloseStream
    BY <2>1, <2>5 DEF CloseStream, Quiet, ExporterStill, feedHistory
  <2>6. CASE SilenceLasts
    BY <2>1, <2>6 DEF SilenceLasts, Quiet, ExporterStill, feedHistory
  <2>7. QED
    BY <2>1, <2>2, <2>3, <2>4, <2>5, <2>6 DEF FeedSteps
<1>3. ASSUME ~IsExporter, ConsumerMoves, UNCHANGED exporterVars
      PROVE  Quiet \/ Consumes \/ \E s \in Stores : Says(s)
  <2>1. LoopHolds /\ ExporterStill
    BY <1>3, ConsumerStill DEF ConsumerMoves, LoopHolds, exporterVars, ExporterStill
  <2>2. CASE ConsumeEntry
    BY <1>3, <2>1, <2>2 DEF Consumes
  <2>3. CASE \E s \in Stores : Say(s)
    BY <1>3, <2>1, <2>3 DEF Says
  <2>4. CASE Leave
    BY <2>1, <2>4 DEF Leave, Quiet, LoopHolds, ExporterStill
  <2>5. CASE FallSilent
    BY <2>1, <2>5 DEF FallSilent, Quiet, LoopHolds, ExporterStill
  <2>6. QED
    BY <1>3, <2>2, <2>3, <2>4, <2>5 DEF ConsumerMoves, ConsumerSteps
<1>4. ASSUME ExporterMoves
      PROVE  Quiet \/ (IsExporter /\ (Reads \/ TakesSource \/ TakesEntry \/ Settles \/ Reported))
  <2>1. LoopHolds /\ IsExporter
    BY <1>4, ConsumerStill DEF ExporterMoves, LoopHolds
  <2>2. CASE ReadRecord
    BY <2>1, <2>2 DEF Reads
  <2>3. CASE TakeSource
    <3>1. CASE MustFlushFirst(Head(inbox))
      BY <2>1, <2>3, <3>1 DEF TakeSource, Quiet, LoopHolds
    <3>2. CASE ~MustFlushFirst(Head(inbox))
      BY <2>1, <2>3, <3>2 DEF TakeSource, TakesSource
    <3>3. QED
      BY <3>1, <3>2
  <2>4. CASE TakeEntry
    BY <2>1, <2>4 DEF TakesEntry
  <2>5. CASE FlushRest
    BY <2>1, <2>5 DEF FlushRest, Quiet, LoopHolds
  <2>6. CASE TryPost
    BY <2>1, <2>6, TryPostSteps
  <2>7. CASE BackOff
    BY <2>1, <2>7 DEF BackOff, Quiet, LoopHolds
  <2>8. CASE Progress
    BY <2>1, <2>8 DEF Reported
  <2>9. CASE LeaveExported
    BY <2>1, <2>9 DEF LeaveExported, Quiet, LoopHolds, exporterVars
  <2>10. QED
    BY <1>4, <2>2, <2>3, <2>4, <2>5, <2>6, <2>7, <2>8, <2>9 DEF ExporterMoves, ExporterSteps
<1>5. QED
  BY <1>1, <1>2, <1>3, <1>4 DEF ExportNext

------------------------------------------------------------------------------
LEMMA TypesOfQuiet ==
    ASSUME Types, Quiet
    PROVE  Types'
<1>1. feedEnv' \in FeedEnvironments /\ LoopTypes' /\ LinkTypes' /\ ExporterTypes'
  BY DEF Types, LoopTypes, LinkTypes, ExporterTypes, Quiet
<1>2. LogTypes'
  BY DEF Types, LogTypes, Quiet, LogsStill, Relabel
<1>3. QED
  BY <1>1, <1>2 DEF Types

LEMMA TypesOfConsume ==
    ASSUME Types, Consumes, Calm
    PROVE  Types'
<1> DEFINE e == Head(pipe)
<1>1. pipe \in Seq(Record) /\ pipe # <<>>
  BY SequenceTypes DEF Consumes, ConsumeEntry
<1>2. e \in Record /\ pipe' \in Seq(Record)
  BY <1>1, HeadTailProperties DEF Consumes, ConsumeEntry
<1>3. readTo' = [readTo EXCEPT ![e.id] = e.at + 1] /\ UNCHANGED <<reports, said, handled>>
  BY DEF Consumes, ConsumeEntry
<1>4. e.at + 1 \in Places
  BY <1>2, PlaceFacts DEF Record
<1> HIDE DEF e
<1>5. LinkTypes'
  BY <1>2, <1>3, <1>4 DEF Types, LinkTypes
<1>6. feedEnv' \in FeedEnvironments /\ LogTypes' /\ LoopTypes' /\ ExporterTypes'
  BY DEF Types, LogTypes, LoopTypes, ExporterTypes, LogsStill, ExporterStill, Consumes, LoopHolds
<1>7. QED
  BY <1>5, <1>6 DEF Types

LEMMA HandlesBounds ==
    ASSUME Types, NEW s \in Stores
    PROVE  /\ Handles(s) \in Places /\ Handles(s) <= readTo[s]
           /\ \/ Handles(s) = readTo[s]
              \/ Handles(s) = MaxOf(readTo[s] - Hold, MaxOf(handled[s], book[s].offset))
<1> DEFINE r == readTo[s]
           m == MaxOf(r - Hold, MaxOf(handled[s], book[s].offset))
<1>1. /\ r \in Int /\ -1 <= r /\ r <= MaxLog /\ handled[s] \in Nat /\ book[s].offset \in Int
      /\ Hold \in Nat /\ handled[s] <= MaxLog /\ book[s].offset <= MaxLog
  <2>1. r \in Places /\ book[s].offset \in Places /\ handled[s] \in Nat /\ handled[s] <= MaxLog
    BY StoreTypes
  <2> HIDE DEF r
  <2>2. QED
    BY <2>1, PlaceFacts
<1>2. m \in Int /\ -1 <= m /\ m <= MaxLog
  <2> DEFINE x == MaxOf(handled[s], book[s].offset)
  <2>1. x \in Int /\ 0 <= x /\ x <= MaxLog
    BY <1>1 DEF MaxOf
  <2>2. m = MaxOf(r - Hold, x) /\ MaxLog \in Int
    BY PlaceFacts
  <2> HIDE DEF x, r, m
  <2>3. QED
    BY <1>1, <2>1, <2>2 DEF MaxOf
<1> HIDE DEF r, m
<1>3. Min({r, m}) \in {r, m} /\ Min({r, m}) <= r
  <2>1. \E x \in {r, m} : \A y \in {r, m} : x <= y
    BY <1>1, <1>2
  <2>2. QED
    BY <2>1 DEF Min
<1>4. Handles(s) \in {r, m} /\ Handles(s) <= r
  BY <1>1, <1>3 DEF Handles, r, m
<1>5. QED
  BY <1>1, <1>2, <1>4, PlaceFacts DEF r, m

LEMMA TypesOfSay ==
    ASSUME Types, NEW s \in Stores, Says(s)
    PROVE  Types'
<1> DEFINE r == [id |-> s, offset |-> Handles(s),
                 taken |-> IF feedEnv.consumer = "holding" THEN readTo[s] ELSE None]
<1>1. r \in Report
  BY HandlesBounds, StoreTypes, PlaceFacts DEF Report
<1>2. /\ reports' = Append(reports, r) /\ said' = [said EXCEPT ![s] = <<r.offset, readTo[s]>>]
      /\ handled' = [handled EXCEPT ![s] = MaxOf(@, r.offset)] /\ UNCHANGED <<pipe, readTo>>
  BY DEF Says, Say
<1>3. r.offset \in Places /\ readTo[s] \in Places
  BY <1>1, StoreTypes DEF Report
<1> HIDE DEF r
<1>4. reports' \in Seq(Report)
  BY <1>1, <1>2, AppendProperties, SequenceTypes
<1>5. MaxOf(handled[s], r.offset) \in 0 .. MaxLog
  <2>1. r.offset \in Int /\ r.offset <= MaxLog
    BY <1>3, PlaceFacts
  <2>2. handled[s] \in Int /\ 0 <= handled[s] /\ handled[s] <= MaxLog /\ MaxLog \in Int
    BY StoreInts
  <2>3. QED
    BY <2>1, <2>2 DEF MaxOf
<1>6. LinkTypes'
  BY <1>2, <1>3, <1>4, <1>5 DEF Types, LinkTypes
<1>7. feedEnv' \in FeedEnvironments /\ LogTypes' /\ LoopTypes' /\ ExporterTypes'
  BY DEF Types, LogTypes, LoopTypes, ExporterTypes, LogsStill, ExporterStill, Says, LoopHolds
<1>8. QED
  BY <1>6, <1>7 DEF Types

LEMMA TypesOfRead ==
    ASSUME Types, Reads
    PROVE  Types'
<1> DEFINE e == Head(pipe)
<1>1. pipe \in Seq(Record) /\ pipe # <<>> /\ inbox \in Seq(Record)
  BY SequenceTypes DEF Reads, ReadRecord
<1>2. e \in Record /\ pipe' \in Seq(Record)
  BY <1>1, HeadTailProperties DEF Reads, ReadRecord
<1>3. inbox' \in Seq(Record)
  BY <1>1, <1>2, AppendProperties DEF Reads, ReadRecord
<1>4. /\ readTo' = IF IsSource(e) THEN readTo ELSE [readTo EXCEPT ![e.id] = e.at + 1]
      /\ UNCHANGED <<reports, said, handled, known, reporting>>
  BY DEF Reads, ReadRecord
<1>5. e.at + 1 \in Places
  BY <1>2, PlaceFacts DEF Record
<1> HIDE DEF e
<1>6. LinkTypes' /\ ExporterTypes'
  BY <1>2, <1>3, <1>4, <1>5 DEF Types, LinkTypes, ExporterTypes
<1>7. feedEnv' \in FeedEnvironments /\ LogTypes' /\ LoopTypes'
  BY DEF Types, LogTypes, LoopTypes, LogsStill, Reads, LoopHolds
<1>8. QED
  BY <1>6, <1>7 DEF Types

LEMMA TypesOfTakeSource ==
    ASSUME Types, TakesSource
    PROVE  Types'
<1> DEFINE e == Head(inbox)
<1>1. inbox \in Seq(Record) /\ inbox # <<>>
  BY SequenceTypes DEF TakesSource, TakeSource
<1>2. e \in Record /\ Tail(inbox) \in Seq(Record)
  BY <1>1, HeadTailProperties
<1>3. /\ known' = [known EXCEPT ![e.id].labels = e.labels] /\ inbox' = Tail(inbox)
      /\ UNCHANGED <<pipe, reports, readTo, said, handled, reporting>>
  BY DEF TakesSource, TakeSource, Adopts
<1> HIDE DEF e
<1>4. known' \in [Stores -> [labels : Labels, pending : Seq(Record), end : Places]]
  BY <1>2, <1>3 DEF Types, ExporterTypes, Record
<1>5. LinkTypes' /\ ExporterTypes'
  BY <1>2, <1>3, <1>4 DEF Types, LinkTypes, ExporterTypes
<1>6. feedEnv' \in FeedEnvironments /\ LogTypes' /\ LoopTypes'
  BY DEF Types, LogTypes, LoopTypes, LogsStill, TakesSource, LoopHolds
<1>7. QED
  BY <1>5, <1>6 DEF Types

LEMMA TypesOfTakeEntry ==
    ASSUME Types, TakesEntry
    PROVE  Types'
<1> DEFINE e == Head(inbox)
           kn == [known[e.id] EXCEPT !.pending = Append(@, e), !.end = e.at + 1]
<1>1. inbox \in Seq(Record) /\ inbox # <<>>
  BY SequenceTypes DEF TakesEntry, TakeEntry
<1>2. e \in Record /\ Tail(inbox) \in Seq(Record)
  BY <1>1, HeadTailProperties
<1>3. /\ known' = [known EXCEPT ![e.id].pending = Append(@, e), ![e.id].end = e.at + 1]
      /\ inbox' = Tail(inbox)
      /\ UNCHANGED <<pipe, reports, readTo, said, handled, reporting>>
  BY DEF TakesEntry, TakeEntry
<1> HIDE DEF e
<1>4. known \in [Stores -> [labels : Labels, pending : Seq(Record), end : Places]] /\ e.id \in Stores
  BY <1>2 DEF Types, ExporterTypes, Record
<1>5. Append(known[e.id].pending, e) \in Seq(Record) /\ e.at + 1 \in Places
  BY <1>2, <1>4, StoreTypes, AppendProperties, PlaceFacts DEF Record
<1>6. known' = [known EXCEPT ![e.id] = kn]
  BY <1>3, <1>4
<1>7. kn \in [labels : Labels, pending : Seq(Record), end : Places]
  BY <1>4, <1>5
<1> HIDE DEF kn
<1>8. known' \in [Stores -> [labels : Labels, pending : Seq(Record), end : Places]]
  BY <1>4, <1>6, <1>7
<1>9. LinkTypes' /\ ExporterTypes'
  BY <1>2, <1>3, <1>8 DEF Types, LinkTypes, ExporterTypes
<1>10. feedEnv' \in FeedEnvironments /\ LogTypes' /\ LoopTypes'
  BY DEF Types, LogTypes, LoopTypes, LogsStill, TakesEntry, LoopHolds
<1>11. QED
  BY <1>9, <1>10 DEF Types

LEMMA TypesOfSettle ==
    ASSUME Types, Settles
    PROVE  Types'
<1>1. handled' \in [Stores -> 0 .. MaxLog]
  <2>1. \A s \in Stores : handled[s] \in 0 .. MaxLog /\ MaxOf(handled[s], known[s].end) \in 0 .. MaxLog
    <3>1. TAKE s \in Stores
    <3>2. /\ handled[s] \in Nat /\ handled[s] <= MaxLog /\ known[s].end \in Int /\ known[s].end <= MaxLog
          /\ MaxLog \in Nat
      BY StoreTypes, PlaceFacts
    <3>3. QED
      BY <3>2 DEF MaxOf
  <2>2. handled' = [s \in Stores |-> IF s \in Waiting THEN MaxOf(handled[s], known[s].end) ELSE handled[s]]
    BY DEF Settles, Settled
  <2>3. QED
    BY <2>1, <2>2
<1>2. LinkTypes' /\ ExporterTypes'
  BY <1>1 DEF Settles, Types, LinkTypes, ExporterTypes, Waiting
<1>3. feedEnv' \in FeedEnvironments /\ LogTypes' /\ LoopTypes'
  BY DEF Types, LogTypes, LoopTypes, LogsStill, Settles, LoopHolds
<1>4. QED
  BY <1>2, <1>3 DEF Types

LEMMA NextReported ==
    ASSUME Types, reporting # {}
    PROVE  NextToReport \in reporting /\ NextToReport \in Stores
<1> DEFINE I == {i \in 1 .. Len(Order) : Order[i] \in reporting}
<1>1. reporting \subseteq Stores /\ Len(Order) \in Nat
  BY FeedAssumption, LenProperties DEF Types, ExporterTypes
<1>2. I \in SUBSET Nat /\ I # {}
  <2>1. PICK s \in reporting : TRUE
    OBVIOUS
  <2>2. PICK i \in 1 .. Len(Order) : Order[i] = s
    BY <1>1, <2>1 DEF Stores
  <2>3. QED
    BY <1>1, <2>2
<1>3. Min(I) \in I
  <2> HIDE DEF I
  <2>1. \E x \in I : \A y \in I : x <= y
    BY <1>2, LeastNumber
  <2>2. QED
    BY <2>1 DEF Min
<1>4. QED
  BY <1>1, <1>3 DEF NextToReport

LEMMA TypesOfReport ==
    ASSUME Types, Reported
    PROVE  Types'
<1> DEFINE s == NextToReport
<1>1. s \in Stores /\ s \in reporting
  BY NextReported DEF Reported, Progress
<1>2. /\ reports' = Append(reports, Watermark(s)) /\ known' = [known EXCEPT ![s].pending = <<>>]
      /\ reporting' = reporting \ {s} /\ said' = [said EXCEPT ![s] = <<known[s].end, readTo[s]>>]
      /\ UNCHANGED <<pipe, readTo, handled, inbox>>
  BY DEF Reported, Progress
<1> HIDE DEF s
<1>3. Watermark(s) \in Report
  BY <1>1, StoreTypes, PlaceFacts DEF Watermark, Report
<1>4. reports' \in Seq(Report)
  BY <1>2, <1>3, AppendProperties, SequenceTypes
<1>5. known' \in [Stores -> [labels : Labels, pending : Seq(Record), end : Places]]
  BY <1>1, <1>2, EmptySeq DEF Types, ExporterTypes
<1>6. said' \in [Stores -> Places \X Places]
  BY <1>1, <1>2, StoreTypes DEF Types, LinkTypes
<1>7. LinkTypes' /\ ExporterTypes'
  BY <1>2, <1>4, <1>5, <1>6 DEF Types, LinkTypes, ExporterTypes
<1>8. feedEnv' \in FeedEnvironments /\ LogTypes' /\ LoopTypes'
  BY DEF Types, LogTypes, LoopTypes, LogsStill, Reported, LoopHolds
<1>9. QED
  BY <1>7, <1>8 DEF Types

LEMMA TypesOfDeath ==
    ASSUME Types, ExporterDies
    PROVE  Types'
<1>1. LogTypes'
  BY DEF Types, LogTypes, ExporterDies, DieAndRestart, logVars
<1>2. feedEnv' \in FeedEnvironments
  BY DEF Types, ExporterDies, DieAndRestart
<1>3. LoopTypes'
  BY FreshTypes, PlaceFacts, EmptySeq DEF Types, LoopTypes, ExporterDies, DieAndRestart, Asleep
<1>4. LinkTypes'
  BY PlaceFacts, EmptySeq DEF Types, LinkTypes, ExporterDies, DieAndRestart, Asleep, SaidNothing
<1>5. ExporterTypes'
  BY PlaceFacts, EmptySeq DEF Types, ExporterTypes, ExporterDies, Unheard
<1>6. QED
  BY <1>1, <1>2, <1>3, <1>4, <1>5 DEF Types

LEMMA StoreWitness ==
    ASSUME NEW s \in Stores, NEW a \in Places, NEW n \in Places, NEW b \in Places, NEW c \in Places,
           NEW lo \in Places, NEW k \in Places, StoreHolds(s, a, n, b, c, lo, k)'
    PROVE  StoreInv(s)'
BY DEF StoreInv

\* Small facts of rows, of reports and of what the receiver has.
LEMMA RowNone ==
    ASSUME NEW s, NEW a \in Int, NEW b \in Int, NEW q \in Seq(Record), Row(q, s, a, b), b <= a
    PROVE  a = b /\ \A p \in Int : Row(q, s, p, p)
<1>1. a = b
  BY DEF Row
<1>2. \A i \in 1 .. Len(q) : ~Of(q[i], s)
  <2>1. TAKE i \in 1 .. Len(q)
  <2>2. ASSUME Of(q[i], s) PROVE FALSE
    BY <1>1, <2>2, RecordFields DEF Row
  <2>3. QED
    BY <2>2
<1>3. ASSUME NEW p \in Int PROVE Row(q, s, p, p)
  BY <1>2 DEF Row
<1>4. QED
  BY <1>1, <1>3

LEMMA RowSome ==
    ASSUME NEW s, NEW a \in Int, NEW b \in Int, NEW q \in Seq(Record), Row(q, s, a, b), q # <<>>,
           \A i \in 1 .. Len(q) : Of(q[i], s)
    PROVE  a < b
<1>1. 1 \in 1 .. Len(q)
  BY LenProperties, EmptySeq
<1>2. a <= q[1].at /\ q[1].at < b /\ q[1].at \in Int
  BY <1>1, RecordFields DEF Row
<1>3. QED
  BY <1>2

LEMMA RowBounds ==
    ASSUME NEW s, NEW a, NEW b, NEW q, Row(q, s, a, b)
    PROVE  a <= b
BY DEF Row

LEMMA RowOfNothing ==
    ASSUME NEW s, NEW a \in Int, NEW b \in Int, Row(<<>>, s, a, b)
    PROVE  a = b
<1>1. ~(a < b)
  <2>1. ASSUME a < b PROVE FALSE
    <3>1. a \in a .. b - 1
      BY <2>1
    <3>2. \E i \in 1 .. Len(<<>>) : TRUE
      BY <3>1 DEF Row
    <3>3. QED
      BY <3>2, EmptySeq
  <2>2. QED
    BY <2>1
<1>2. QED
  BY <1>1, RowBounds

Grown(rs, r) == Append(rs, r)

LEMMA ReportsAppend ==
    ASSUME NEW s \in Stores, NEW rs \in Seq(Report), NEW r \in Report
    PROVE  /\ Len(rs) \in Nat
           /\ \A i \in ReportsOn(s, rs) : Grown(rs, r)[i] = rs[i] /\ i <= Len(rs) /\ i \in Int
           /\ Grown(rs, r)[Len(rs) + 1] = r
           /\ ReportsOn(s, Grown(rs, r)) =
                IF r.id = s THEN ReportsOn(s, rs) \cup {Len(rs) + 1} ELSE ReportsOn(s, rs)
<1> DEFINE z == Grown(rs, r)
<1>1. /\ Len(rs) \in Nat /\ Len(z) = Len(rs) + 1 /\ z[Len(rs) + 1] = r
      /\ \A i \in 1 .. Len(rs) : z[i] = rs[i]
  BY AppendIsSeq DEF Grown
<1> HIDE DEF z
<1>2. \A i : i \in 1 .. Len(z) <=> i \in 1 .. Len(rs) \/ i = Len(rs) + 1
  BY <1>1
<1>3. ReportsOn(s, z) = IF r.id = s THEN ReportsOn(s, rs) \cup {Len(rs) + 1} ELSE ReportsOn(s, rs)
  BY <1>1, <1>2 DEF ReportsOn
<1>4. \A i \in ReportsOn(s, rs) : i \in 1 .. Len(rs)
  BY DEF ReportsOn
<1>5. QED
  BY <1>1, <1>3, <1>4 DEF z

LEMMA ReportsOfNothing ==
    ASSUME NEW s
    PROVE  ReportsOn(s, <<>>) = {}
BY EmptySeq DEF ReportsOn

LEMMA HasLess ==
    ASSUME NEW all, NEW s, NEW from \in Int, NEW to \in Int, NEW m \in Int,
           HasAll(all, s, from, to), m <= to
    PROVE  HasAll(all, s, from, m)
BY DEF HasAll

LEMMA HasNothing ==
    ASSUME NEW all, NEW s, NEW from \in Int, NEW to \in Int, from = None \/ to <= from
    PROVE  HasAll(all, s, from, to)
BY DEF HasAll

LEMMA HasMore ==
    ASSUME NEW all, NEW bigger, all \subseteq bigger, NEW s, NEW from \in Int, NEW to \in Int,
           HasAll(all, s, from, to)
    PROVE  HasAll(bigger, s, from, to)
BY DEF HasAll

LEMMA FloorNone ==
    ASSUME NEW x, x.floor \in Int, x.offset = -1, FloorOK(x)
    PROVE  x.floor = None
<1>1. ASSUME x.floor # None PROVE FALSE
  <2>1. 0 <= x.floor /\ x.floor * ChunkLen <= -1
    BY <1>1 DEF FloorOK
  <2>2. ChunkLen \in Nat
    BY FeedAssumption
  <2>3. x.floor * ChunkLen >= 0
    BY <2>1, <2>2
  <2>4. x.floor * ChunkLen \in Int
    BY <2>2
  <2>5. QED
    BY <2>1, <2>3, <2>4
<1>2. QED
  BY <1>1

\* What a store that nothing was written of is like.
LEMMA Unwritten ==
    ASSUME Types, NEW s \in Stores, NEW a \in Places, NEW n \in Places, NEW b \in Places, NEW c \in Places,
           NEW lo \in Places, NEW k \in Places, StoreHolds(s, a, n, b, c, lo, k), n = None
    PROVE  /\ a = None /\ readTo[s] = None /\ ReportsOn(s, reports) = {} /\ book[s].pending = {}
           /\ book[s].taken = None
           /\ IsExporter => k = None /\ lo = None /\ known[s].end = None /\ s \notin reporting
<1>1. a = None /\ readTo[s] = None
  BY PlaceFacts DEF StoreHolds, Core, Sendings
<1>2. ReportsOn(s, reports) = {}
  <2>1. ASSUME NEW i \in ReportsOn(s, reports) PROVE FALSE
    <3>1. i \in 1 .. Len(reports)
      BY <2>1 DEF ReportsOn
    <3>2. reports[i].offset \in Int
      BY <3>1, SequenceTypes, ReportFields, PlaceFacts
    <3>3. 0 <= reports[i].offset /\ reports[i].offset <= readTo[s]
      BY <2>1 DEF StoreHolds, Core, Reporting
    <3>4. QED
      BY <1>1, <3>2, <3>3, PlaceFacts
  <2>2. QED
    BY <2>1
<1>3. book[s].pending = {}
  <2>1. ASSUME NEW p \in book[s].pending PROVE FALSE
    <3>1. p.end \in 1 .. MaxLog
      BY <2>1, StoreTypes DEF Pending
    <3>2. p.end <= n
      BY <2>1 DEF StoreHolds, Core, Tracking, TrackedTo
    <3>3. QED
      BY <3>1, <3>2, PlaceFacts
  <2>2. QED
    BY <2>1
<1>4. book[s].taken = None
  <2>1. book[s].taken <= readTo[s]
    BY DEF StoreHolds, Core, Tracking
  <2>2. QED
    BY <1>1, <2>1, StoreInts
<1>5. ASSUME IsExporter PROVE k = None /\ lo = None /\ known[s].end = None /\ s \notin reporting
  <2>1. Shipping(s, lo, k, a, n)
    BY <1>5 DEF StoreHolds
  <2>2. k <= a /\ lo = None
    BY <2>1, RowBounds DEF Shipping
  <2>3. k = None
    BY <1>1, <2>2, PlaceFacts
  <2>4. known[s].end = None /\ s \notin reporting
    BY <2>1, <2>3 DEF Shipping, Gathering
  <2>5. QED
    BY <2>2, <2>3, <2>4
<1>6. QED
  BY <1>1, <1>2, <1>3, <1>4, <1>5

------------------------------------------------------------------------------
LEMMA InvOfQuiet ==
    ASSUME Types, Quiet, NEW s \in Stores, StoreInv(s)
    PROVE  StoreInv(s)'
<1>1. PICK a \in Places, n \in Places, b \in Places, c \in Places, lo \in Places, k \in Places :
           StoreHolds(s, a, n, b, c, lo, k)
  BY DEF StoreInv
<1>2. /\ logEnd' = logEnd /\ flushed' = flushed /\ head' = head
      /\ UNCHANGED <<saved, book, announced, batch, startedAt, pipe, reports, readTo,
                     handled, feedEnv, inbox, known, reporting, shipped>>
      /\ (fpc' = "start") <=> (fpc = "start")
  BY DEF Quiet, LogsStill, Relabel
<1>3. Marks(s)' /\ Sendings(s, a, n)' /\ Tracking(s, a, n)' /\ Reading(s, n, b, c)' /\ Reporting(s)'
  BY <1>1, <1>2 DEF StoreHolds, Core, Marks, Sendings, Tracking, Reading, Reporting, Mayhap
<1>4. Positions(s, n)'
  BY <1>1, <1>2 DEF StoreHolds, Core, Positions
<1>5. (Picked(feedEnv) => Steady(s))'
  BY <1>1, <1>2 DEF StoreHolds, Steady, Claimed, Mayhap
<1>6. (IsExporter => Shipping(s, lo, k, a, n) /\ Labelling(s))'
  BY <1>1, <1>2 DEF StoreHolds, IsExporter, Shipping, Gathering, Labelling
<1>7. (IsExporter /\ Picked(feedEnv) => Shipped(s, lo, k))'
  BY <1>1, <1>2 DEF StoreHolds, IsExporter, Shipped, HasTo
<1>8. StoreHolds(s, a, n, b, c, lo, k)'
  BY <1>3, <1>4, <1>5, <1>6, <1>7 DEF StoreHolds, Core
<1>9. QED
  BY <1>8, StoreWitness

\* The store's own writer, which moves the log under everything else.
OnlyLogs == UNCHANGED <<saved, fpc, book, announced, batch, startedAt, pipe, reports, readTo,
                        handled, feedEnv, inbox, known, reporting, shipped>>

LEMMA InvOfWriters ==
    ASSUME Types, OnlyLogs, NEW s \in Stores, StoreInv(s),
           NEW t \in Stores, AppendLog(t) \/ FlushLog(t) \/ Retain(t)
    PROVE  StoreInv(s)'
<1>1. PICK a \in Places, n \in Places, b \in Places, c \in Places, lo \in Places, k \in Places :
           StoreHolds(s, a, n, b, c, lo, k)
  BY DEF StoreInv
<1>2. /\ logEnd[s] \in Int /\ flushed[s] \in Int /\ head[s] \in Int /\ n \in Int /\ c \in Int
      /\ logEnd \in [Stores -> 0 .. MaxLog] /\ flushed \in [Stores -> 0 .. MaxLog] /\ head \in [Stores -> 0 .. MaxLog]
      /\ ChunkLen \in Int /\ 1 <= ChunkLen /\ startedAt[s] \in Int /\ handled[s] \in Int /\ 0 <= head[s]
  BY StoreInts, PlaceFacts DEF Types, LogTypes
<1>3. /\ logEnd'[s] \in Int /\ logEnd[s] <= logEnd'[s]
      /\ Marks(s)'
      /\ head'[s] <= MaxOf(saved[s].offset, 0)
      /\ flushed'[s] # flushed[s] => Mayhap("append")
  <2>1. Marks(s) /\ head[s] <= MaxOf(saved[s].offset, 0) /\ FloorOK(saved[s])
    BY <1>1 DEF StoreHolds, Core, Positions
  <2>2. CASE AppendLog(t)
    <3>1. /\ Mayhap("append") /\ logEnd' = [logEnd EXCEPT ![t] = @ + 1] /\ UNCHANGED <<flushed, head, handled, feedEnv>>
      BY <2>2 DEF AppendLog, OnlyLogs
    <3>2. logEnd'[s] \in Int /\ logEnd[s] <= logEnd'[s]
      BY <1>2, <3>1
    <3>3. QED
      BY <1>2, <2>1, <3>1, <3>2 DEF Marks, Mayhap
  <2>3. CASE FlushLog(t)
    <3>1. /\ logEnd[t] - flushed[t] >= ChunkLen /\ flushed' = [flushed EXCEPT ![t] = @ + ChunkLen]
          /\ UNCHANGED <<logEnd, head, handled, feedEnv>>
      BY <2>3 DEF FlushLog, OnlyLogs
    <3>2. CASE s = t
      <4>1. flushed'[s] = flushed[s] + ChunkLen /\ logEnd[s] - flushed[s] >= ChunkLen
        BY <1>2, <3>1, <3>2
      <4>2. Mayhap("append")
        BY <1>2, <2>1, <4>1 DEF Marks
      <4>3. QED
        BY <1>2, <2>1, <3>1, <4>1, <4>2 DEF Marks, Mayhap
    <3>3. CASE s # t
      <4>1. flushed'[s] = flushed[s]
        BY <1>2, <3>1, <3>3
      <4>2. QED
        BY <1>2, <2>1, <3>1, <4>1 DEF Marks, Mayhap
    <3>4. QED
      BY <3>2, <3>3
  <2>4. CASE Retain(t)
    <3> DEFINE keep == saved[t].floor * ChunkLen
    <3>1. /\ saved[t].floor # None /\ keep > head[t] /\ keep <= flushed[t]
          /\ head' = [head EXCEPT ![t] = keep] /\ UNCHANGED <<logEnd, flushed, handled, feedEnv>>
      BY <2>4 DEF Retain, OnlyLogs, ConsumedPrefix
    <3>2. keep \in Int
      BY StoreInts
    <3>3. s = t => keep <= saved[s].offset
      BY <2>1, <3>1 DEF FloorOK
    <3> HIDE DEF keep
    <3>4. CASE s = t
      <4>1. head'[s] = keep /\ saved[s].offset \in Int
        BY <1>2, <3>1, <3>4, StoreInts
      <4>2. head'[s] <= MaxOf(saved[s].offset, 0) /\ head'[s] <= flushed[s]
        BY <3>1, <3>2, <3>3, <3>4, <4>1 DEF MaxOf
      <4>3. QED
        BY <1>2, <2>1, <3>1, <4>2 DEF Marks, Mayhap
    <3>5. CASE s # t
      <4>1. head'[s] = head[s]
        BY <1>2, <3>1, <3>5
      <4>2. QED
        BY <1>2, <2>1, <3>1, <4>1 DEF Marks, Mayhap
    <3>6. QED
      BY <3>4, <3>5
  <2>5. QED
    BY <2>2, <2>3, <2>4
<1>4. OnlyLogs
  OBVIOUS
<1>5. Sendings(s, a, n)'
  BY <1>1, <1>2, <1>3, <1>4 DEF StoreHolds, Core, Sendings, OnlyLogs
<1>6. Tracking(s, a, n)' /\ Reporting(s)'
  BY <1>1, <1>4 DEF StoreHolds, Core, Tracking, Reporting, OnlyLogs
<1>7. Reading(s, n, b, c)'
  BY <1>1, <1>2, <1>3, <1>4 DEF StoreHolds, Core, Reading, OnlyLogs
<1>8. Positions(s, n)'
  BY <1>1, <1>3, <1>4 DEF StoreHolds, Core, Positions, OnlyLogs
<1>9. (Picked(feedEnv) => Steady(s))'
  <2>1. ASSUME Picked(feedEnv) PROVE Steady(s)'
    <3>1. Steady(s)
      BY <1>1, <2>1 DEF StoreHolds
    <3>2. CASE flushed'[s] = flushed[s]
      BY <1>4, <3>1, <3>2 DEF Steady, Claimed, Mayhap, OnlyLogs
    <3>3. CASE flushed'[s] # flushed[s]
      <4>1. s \notin feedEnv.young => ~Mayhap("die")
        BY <1>3, <2>1, <3>3 DEF Picked, Mayhap
      <4>2. QED
        BY <1>4, <3>1, <4>1 DEF Steady, Claimed, Mayhap, OnlyLogs
    <3>4. QED
      BY <3>2, <3>3
  <2>2. QED
    BY <1>4, <2>1 DEF OnlyLogs
<1>10. (IsExporter => Shipping(s, lo, k, a, n) /\ Labelling(s))'
  BY <1>1, <1>4 DEF StoreHolds, IsExporter, Shipping, Gathering, Labelling, OnlyLogs
<1>11. (IsExporter /\ Picked(feedEnv) => Shipped(s, lo, k))'
  BY <1>1, <1>4 DEF StoreHolds, IsExporter, Shipped, HasTo, OnlyLogs
<1>12. StoreHolds(s, a, n, b, c, lo, k)'
  BY <1>3, <1>5, <1>6, <1>7, <1>8, <1>9, <1>10, <1>11 DEF StoreHolds, Core
<1>13. QED
  BY <1>12, StoreWitness

\* The steps of the loop: the consumer's side stays as it is.
LoopAlone == LogsStill /\ ExporterStill /\ UNCHANGED <<readTo, said, feedEnv>>

LEMMA InvOfHello ==
    ASSUME Types, Types', Calm, Hello, LoopAlone, NEW s \in Stores, StoreInv(s)
    PROVE  StoreInv(s)'
<1>1. PICK a \in Places, n \in Places, b \in Places, c \in Places, lo \in Places, k \in Places :
           StoreHolds(s, a, n, b, c, lo, k)
  BY DEF StoreInv
<1>2. /\ fpc = "start" /\ fpc' = "poll" /\ batch = <<>>
      /\ UNCHANGED <<announced, batch, pipe, reports, handled>>
      /\ UNCHANGED <<logEnd, flushed, head, readTo, feedEnv, inbox, known, reporting, shipped>>
  BY DEF Hello, LoopAlone, LogsStill, ExporterStill, Calm
<1>3. n = None /\ book[s] = Fresh /\ Positions(s, n)
  BY <1>1, <1>2 DEF StoreHolds, Core, Positions
<1>4. /\ a = None /\ readTo[s] = None /\ ReportsOn(s, reports) = {} /\ book[s].pending = {}
      /\ book[s].taken = None
      /\ IsExporter => k = None /\ lo = None /\ known[s].end = None /\ s \notin reporting
  BY <1>1, <1>3, Unwritten
<1> DEFINE claim == feedEnv.claims /\ handled[s] > 0 /\ saved[s].offset = None
<1>5. /\ book'[s].offset = (IF claim THEN handled[s] ELSE saved[s].offset)
      /\ book'[s].floor = saved[s].floor
      /\ book'[s].pending = {} /\ book'[s].taken = None
      /\ saved'[s].offset = book'[s].offset /\ saved'[s].floor = book'[s].floor
      /\ startedAt'[s] = (IF startedAt[s] = None THEN book'[s].offset ELSE startedAt[s])
  <2> DEFINE B == [Fresh EXCEPT !.offset = saved[s].offset, !.floor = saved[s].floor]
  <2>1. book'[s] = IF feedEnv.claims /\ handled[s] > 0 /\ B.offset = None
                   THEN Advance(B, handled[s], None) ELSE B
    <3> DEFINE C(t) == [Fresh EXCEPT !.offset = saved[t].offset, !.floor = saved[t].floor]
               N(t) == IF feedEnv.claims /\ handled[t] > 0 /\ C(t).offset = None
                       THEN Advance(C(t), handled[t], None) ELSE C(t)
    <3>1. book' = [t \in Stores |-> N(t)]
      BY DEF Hello
    <3>2. book'[s] = N(s)
      <4> HIDE DEF N
      <4>1. QED
        BY <3>1
    <3>3. QED
      BY <3>2
  <2>2. /\ B.offset = saved[s].offset /\ B.floor = saved[s].floor /\ B.pending = {} /\ B.taken = None
        /\ B \in [offset : {saved[s].offset}, floor : {saved[s].floor}, pending : {{}}, taken : {None}]
    <3> DEFINE x == saved[s].offset
               y == saved[s].floor
    <3> HIDE DEF x, y
    <3>1. [Fresh EXCEPT !.offset = x, !.floor = y]
             \in [offset : {x}, floor : {y}, pending : {{}}, taken : {None}]
      BY DEF Fresh
    <3>2. B \in [offset : {x}, floor : {y}, pending : {{}}, taken : {None}]
      BY <3>1 DEF x, y
    <3> HIDE DEF B
    <3>3. B.offset = x /\ B.floor = y /\ B.pending = {} /\ B.taken = None
      BY <3>2
    <3>4. QED
      BY <3>2, <3>3 DEF x, y
  <2>3. MaxOf(saved[s].floor, None) = saved[s].floor
    BY StoreInts DEF MaxOf
  <2>4. /\ Advance(B, handled[s], None).offset = handled[s]
        /\ Advance(B, handled[s], None).floor = saved[s].floor
        /\ Advance(B, handled[s], None).pending = {} /\ Advance(B, handled[s], None).taken = None
    <3> HIDE DEF B
    <3>1. QED
      BY <2>2, <2>3 DEF Advance
  <2> HIDE DEF B
  <2>5. saved'[s] = Recorded(book'[s]) /\ startedAt'[s] = (IF startedAt[s] = None THEN book'[s].offset ELSE startedAt[s])
    BY DEF Hello, Persisted
  <2>6. QED
    BY <2>1, <2>2, <2>4, <2>5 DEF Recorded
<1>6. /\ saved[s].offset \in Int /\ -1 <= saved[s].offset /\ saved[s].floor \in Int
      /\ handled[s] \in Int /\ 0 <= handled[s] /\ startedAt[s] \in Int /\ -1 <= startedAt[s]
      /\ head[s] \in Int /\ 0 <= head[s] /\ None = -1
      /\ book'[s].offset \in Int /\ startedAt'[s] \in Int /\ saved'[s].offset \in Int
  <2>1. book'[s].offset \in Int
    BY <1>5, StoreInts
  <2>2. QED
    BY <1>5, <2>1, StoreInts
<1>7. FloorOK(saved[s]) /\ (saved[s].offset = None => saved[s].floor = None)
  BY <1>3, <1>6, FloorNone DEF Positions
<1>8. FloorOK(saved'[s]) /\ FloorOK(book'[s])
  <2>1. CASE claim
    BY <1>5, <1>7, <2>1 DEF FloorOK
  <2>2. CASE ~claim
    BY <1>5, <1>7, <2>2 DEF FloorOK
  <2>3. QED
    BY <2>1, <2>2
<1>9. saved[s].offset <= book'[s].offset
  BY <1>5, <1>6
<1>10. Marks(s)' /\ Sendings(s, a, n)'
  BY <1>1, <1>2 DEF StoreHolds, Core, Marks, Sendings, Mayhap
<1>11. Tracking(s, a, n)'
  BY <1>2, <1>3, <1>4, <1>5, <1>6, FS_EmptySet DEF Tracking, TrackedTo
<1>12. b = c /\ Row(batch', s, b, c)
  BY <1>1, <1>2, RowOfNothing, PlaceFacts DEF StoreHolds, Core, Reading
<1>13. Reading(s, n, b, c)' /\ Reporting(s)'
  <2>1. ~(b < c)
    BY <1>12, PlaceFacts
  <2>2. Reading(s, n, b, c)'
    BY <1>12, <2>1 DEF Reading
  <2>3. ReportsOn(s, reports') = {}
    BY <1>2, <1>4
  <2>4. QED
    BY <2>2, <2>3 DEF Reporting
<1>14. Positions(s, n)'
  <2>1. head'[s] <= MaxOf(saved'[s].offset, 0)
    BY <1>2, <1>3, <1>5, <1>6, <1>9 DEF Positions, MaxOf
  <2>2. startedAt'[s] = None => saved'[s].offset = None /\ book'[s].offset = None
    BY <1>3, <1>5, <1>6, <1>9 DEF Positions
  <2>3. ~ (startedAt'[s] = None /\ handled[s] > 0)
    BY <1>3, <1>5, <1>6, <2>2 DEF Positions
  <2>4. saved'[s].offset <= book'[s].offset
    BY <1>5, <1>6
  <2>5. QED
    BY <1>2, <1>3, <1>8, <2>1, <2>2, <2>3, <2>4 DEF Positions
<1>15. (Picked(feedEnv) => Steady(s))'
  <2>1. ASSUME Picked(feedEnv) PROVE Steady(s)'
    <3>1. Steady(s)
      BY <1>1, <2>1 DEF StoreHolds
    <3>2. startedAt[s] <= startedAt'[s]
      BY <1>3, <1>5, <1>6 DEF Positions
    <3>3. book'[s].offset <= MaxOf(startedAt'[s], handled[s])
      BY <1>5, <1>6, <3>1, <3>2 DEF Steady, Claimed, MaxOf
    <3>4. ASSUME s \notin feedEnv.young, startedAt'[s] # None
          PROVE  /\ ~Mayhap("die") => book'[s].offset # None
                 /\ Mayhap("die") /\ saved'[s].offset = None => startedAt'[s] = flushed[s]
      <4>1. CASE startedAt[s] = None
        BY <1>5, <3>4, <4>1
      <4>2. CASE startedAt[s] # None
        <5>1. /\ Mayhap("die") /\ (saved[s].offset = None => startedAt[s] = flushed[s])
              /\ startedAt'[s] = startedAt[s]
          BY <1>2, <1>5, <3>1, <3>4, <4>2 DEF Steady
        <5>2. saved'[s].offset = None => saved[s].offset = None
          BY <1>5, <1>6, <1>9
        <5>3. QED
          BY <5>1, <5>2
      <4>3. QED
        BY <4>1, <4>2
    <3>5. QED
      BY <1>2, <1>5, <3>3, <3>4 DEF Steady, Claimed, Mayhap
  <2>2. QED
    BY <1>2, <2>1
<1>16. (IsExporter => Shipping(s, lo, k, a, n) /\ Labelling(s))'
  <2>1. ASSUME IsExporter PROVE Shipping(s, lo, k, a, n)' /\ Labelling(s)'
    <3>1. Shipping(s, lo, k, a, n) /\ Labelling(s)
      BY <1>1, <2>1 DEF StoreHolds
    <3>2. QED
      BY <1>2, <1>3, <1>4, <2>1, <3>1 DEF Shipping, Gathering, Labelling
  <2>2. QED
    BY <1>2, <2>1 DEF IsExporter
<1>17. (IsExporter /\ Picked(feedEnv) => Shipped(s, lo, k))'
  <2>1. ASSUME IsExporter, Picked(feedEnv) PROVE Shipped(s, lo, k)'
    <3>1. Shipped(s, lo, k)
      BY <1>1, <2>1 DEF StoreHolds
    <3>2. lo = None /\ s \notin reporting' /\ lo \in Int
      BY <1>2, <1>4, <1>6, <2>1
    <3>3. CASE startedAt[s] = None
      <4>1. startedAt'[s] = book'[s].offset
        BY <1>5, <3>3
      <4>2. handled'[s] <= book'[s].offset \/ startedAt'[s] = None
        BY <1>2, <1>3, <1>5, <1>6, <3>3 DEF Positions
      <4>3. startedAt'[s] = None \/ (saved'[s].offset <= startedAt'[s] /\ book'[s].offset <= startedAt'[s]
                 /\ handled'[s] <= startedAt'[s] /\ lo <= startedAt'[s])
        BY <1>5, <1>6, <3>2, <4>1, <4>2
      <4>4. QED
        BY <1>2, <1>6, <3>2, <4>3, HasNothing DEF Shipped, HasTo
    <3>4. CASE startedAt[s] # None
      <4>1. startedAt'[s] = startedAt[s] /\ shipped' = shipped /\ handled' = handled
        BY <1>2, <1>5, <3>4
      <4>2. HasAll(shipped, s, startedAt[s], handled[s]) /\ HasAll(shipped, s, startedAt[s], saved[s].offset)
            /\ HasAll(shipped, s, startedAt[s], lo)
        BY <3>1 DEF Shipped, HasTo
      <4>3. HasAll(shipped, s, startedAt[s], book'[s].offset)
        BY <1>5, <4>2
      <4>4. QED
        BY <1>5, <3>2, <4>1, <4>2, <4>3 DEF Shipped, HasTo
    <3>5. QED
      BY <3>3, <3>4
  <2>2. QED
    BY <1>2, <2>1 DEF IsExporter
<1>18. StoreHolds(s, a, n, b, c, lo, k)'
  BY <1>10, <1>11, <1>13, <1>14, <1>15, <1>16, <1>17 DEF StoreHolds, Core
<1>19. QED
  BY <1>18, StoreWitness

NewsInTurn == InTurn(Rotated(stoppedIn), News)

\* What a read puts into the batch: sources of stores it asked, and entries of theirs.
LEMMA ElementsOfPoll ==
    ASSUME Types
    PROVE  /\ NewsInTurn \in Seq(Record) /\ Out \in Seq(Record)
           /\ \A i \in 1 .. Len(NewsInTurn) : \E t \in Stores : NewsInTurn[i] = Source(t) /\ IsExporter
           /\ \A i \in 1 .. Len(Out) : \E t \in Stores :
                /\ Asked(t, PickedUp(t)) /\ Out[i].id = t /\ Out[i].at # None
                /\ Out[i].labels = labels[t]
           /\ \A t \in Stores : News[t] = <<Source(t)>> =>
                \E j \in 1 .. Len(NewsInTurn) : NewsInTurn[j] = Source(t)
<1>1. /\ NewsInTurn \in Seq(Record) /\ Out \in Seq(Record) /\ AllFound \in Seq(Record)
      /\ IsTurns(Rotated(stoppedIn)) /\ Own(News) /\ Own(Finds)
      /\ Len(Out) \in 0 .. Len(AllFound) /\ \A i \in 1 .. Len(Out) : Out[i] = AllFound[i]
  BY OutIsFront, OwnSequences DEF NewsInTurn
<1>2. /\ \A x : x \in Range(NewsInTurn) <=> \E t \in Stores : x \in Range(News[t])
      /\ \A x : x \in Range(AllFound) <=> \E t \in Stores : x \in Range(Finds[t])
  BY <1>1, InTurnOf DEF NewsInTurn, AllFound
<1>3. /\ \A i \in 1 .. Len(NewsInTurn) : NewsInTurn[i] \in Range(NewsInTurn)
      /\ \A i \in 1 .. Len(Out) : Out[i] \in Range(AllFound)
      /\ DOMAIN NewsInTurn = 1 .. Len(NewsInTurn) /\ DOMAIN AllFound = 1 .. Len(AllFound)
      /\ Len(AllFound) \in Nat
  <2>1. DOMAIN NewsInTurn = 1 .. Len(NewsInTurn) /\ DOMAIN AllFound = 1 .. Len(AllFound) /\ Len(AllFound) \in Nat
    BY <1>1, SeqElements
  <2>2. \A i \in 1 .. Len(Out) : i \in 1 .. Len(AllFound)
    BY <1>1, <2>1
  <2>3. QED
    BY <1>1, <2>1, <2>2 DEF Range
<1>4. ASSUME NEW i \in 1 .. Len(NewsInTurn)
      PROVE  \E t \in Stores : NewsInTurn[i] = Source(t) /\ IsExporter
  <2>1. PICK t \in Stores : NewsInTurn[i] \in Range(News[t])
    BY <1>2, <1>3
  <2>2. News[t] = <<>> \/ (News[t] = <<Source(t)>> /\ IsExporter)
    BY OwnSequences
  <2>3. Range(<<>>) = {} /\ Range(<<Source(t)>>) = {Source(t)}
    BY EmptySeq DEF Range
  <2>4. QED
    BY <2>1, <2>2, <2>3
<1>5. ASSUME NEW i \in 1 .. Len(Out)
      PROVE  \E t \in Stores : /\ Asked(t, PickedUp(t)) /\ Out[i].id = t /\ Out[i].at # None
                               /\ Out[i].labels = labels[t]
  <2>1. PICK t \in Stores : Out[i] \in Range(Finds[t])
    BY <1>2, <1>3
  <2>2. Finds[t] # <<>>
    BY <2>1, EmptySeq DEF Range
  <2>3. Asked(t, PickedUp(t)) /\ Finds[t] = Seen(t)
    BY <2>2 DEF Finds, Seen
  <2>4. /\ Many(t) \in Nat /\ Begins(t) \in Nat /\ Seen(t) \in Seq(Record) /\ Len(Seen(t)) = Many(t)
        /\ \A j \in 1 .. Many(t) : Seen(t)[j] = [id |-> t, at |-> Begins(t) + j - 1, labels |-> labels[t]]
    BY UnreadTypes
  <2>5. PICK j \in 1 .. Many(t) : Out[i] = Seen(t)[j]
    <3>1. DOMAIN Seen(t) = 1 .. Many(t)
      BY <2>4, SeqElements
    <3>2. QED
      BY <2>1, <2>3, <3>1 DEF Range
  <2>6. Out[i].id = t /\ Out[i].at = Begins(t) + j - 1 /\ Out[i].labels = labels[t]
    BY <2>4, <2>5
  <2>7. Out[i].at # None
    BY <2>4, <2>6, PlaceFacts
  <2>8. QED
    BY <2>3, <2>6, <2>7
<1>6. ASSUME NEW t \in Stores, News[t] = <<Source(t)>>
      PROVE  \E j \in 1 .. Len(NewsInTurn) : NewsInTurn[j] = Source(t)
  <2>1. Source(t) \in Range(News[t])
    BY <1>6 DEF Range
  <2>2. Source(t) \in Range(NewsInTurn)
    BY <1>2, <2>1
  <2>3. QED
    BY <1>3, <2>2 DEF Range
<1>7. QED
  BY <1>1, <1>4, <1>5, <1>6

\* Of a store the batch is then a row from where its read began, or nothing.
LEMMA RowOfPoll ==
    ASSUME Types, Poll, NEW s \in Stores
    PROVE  \E b, c \in Places :
             /\ Row(batch', s, b, c)
             /\ b < c => /\ Asked(s, PickedUp(s)) /\ b = Begins(s) /\ c <= Sees(s)
                         /\ s \in {Out[i].id : i \in 1 .. Len(Out)}
<1>1. /\ NewsInTurn \in Seq(Record) /\ Out \in Seq(Record)
      /\ \A i \in 1 .. Len(NewsInTurn) : \E t \in Stores : NewsInTurn[i] = Source(t)
  BY ElementsOfPoll
<1>2. \A i \in 1 .. Len(NewsInTurn) : ~Of(NewsInTurn[i], s)
  <2>1. \A t \in Stores : Source(t).at = None
    BY DEF Source
  <2>2. \A t \in Stores : ~Of(Source(t), s)
    BY <2>1 DEF Of, IsSource
  <2>3. QED
    BY <1>1, <2>2
<1>3. batch' = NewsInTurn \o Out
  BY PollParts DEF NewsInTurn
<1>4. \A b, c \in Places : b < c /\ Row(Out, s, b, c) => s \in {Out[i].id : i \in 1 .. Len(Out)}
  <2>1. TAKE b \in Places, c \in Places
  <2>2. ASSUME b < c, Row(Out, s, b, c) PROVE s \in {Out[i].id : i \in 1 .. Len(Out)}
    <3>1. b \in b .. c - 1
      BY <2>2, PlaceFacts
    <3>2. PICK i \in 1 .. Len(Out) : Of(Out[i], s)
      BY <2>2, <3>1 DEF Row
    <3>3. QED
      BY <3>2 DEF Of
  <2>3. QED
    BY <2>2
<1>5. AllFound \in Seq(Record) /\ OutLen \in 0 .. Len(AllFound) /\ Out = SubSeq(AllFound, 1, OutLen)
  BY OutIsFront DEF Out
<1>6. \A a, b \in Int : Row(Finds[s], s, a, b) => \E c \in a .. b : Row(Out, s, a, c)
  <2>1. TAKE a \in Int, b \in Int
  <2>2. ASSUME Row(Finds[s], s, a, b) PROVE \E c \in a .. b : Row(Out, s, a, c)
    <3>1. Row(AllFound, s, a, b)
      BY <2>2, OutIsFront, OwnSequences, InTurnOf DEF AllFound
    <3>2. QED
      BY <1>5, <3>1, RowPrefix
  <2>3. QED
    BY <2>2
<1>7. CASE Asked(s, PickedUp(s))
  <2>1. Finds[s] = Seen(s)
    BY <1>7 DEF Finds, Seen
  <2> DEFINE m == Many(s)
             b == Begins(s)
  <2>2. /\ m \in Nat /\ b \in Nat /\ Seen(s) \in Seq(Record) /\ Len(Seen(s)) = m
        /\ \A i \in 1 .. m : Seen(s)[i] = [id |-> s, at |-> b + i - 1, labels |-> labels[s]]
        /\ (m > 0 => b + m = Sees(s)) /\ Sees(s) \in 0 .. MaxLog
        /\ b = MaxOf(MaxOf(PickedUp(s).offset, PickedUp(s).taken), head[s])
    BY UnreadTypes
  <2>3. b <= MaxLog
    <3>1. PickedUp(s) \in Tracked /\ head[s] \in 0 .. MaxLog
      BY PickedTypes DEF Types, LogTypes
    <3>2. PickedUp(s).offset \in Places /\ PickedUp(s).taken \in Places /\ head[s] \in Places
      BY <3>1, PlaceFacts DEF Tracked
    <3>3. b \in Places
      BY <2>2, <3>2 DEF MaxOf
    <3>4. QED
      BY <3>3, PlaceFacts
  <2> HIDE DEF m, b
  <2>4. Row(Seen(s), s, b, b + m)
    <3>1. \A i \in 1 .. m : Of(Seen(s)[i], s) /\ Seen(s)[i].at = b + i - 1
      <4>1. TAKE i \in 1 .. m
      <4> DEFINE x == b + i - 1
      <4>2. Seen(s)[i] = [id |-> s, at |-> x, labels |-> labels[s]] /\ x \in Int /\ 0 <= x
        BY <2>2
      <4> HIDE DEF x
      <4>3. Of(Seen(s)[i], s) /\ Seen(s)[i].at = x
        BY <4>2, PlaceFacts DEF Of, IsSource
      <4>4. QED
        BY <4>3 DEF x
    <3>2. \A p \in b .. (b + m) - 1 : \E i \in 1 .. m : Seen(s)[i].at = p
      <4>1. TAKE p \in b .. (b + m) - 1
      <4>2. p - b + 1 \in 1 .. m /\ b + (p - b + 1) - 1 = p
        BY <2>2
      <4>3. QED
        BY <3>1, <4>2
    <3>3. QED
      BY <2>2, <3>1, <3>2 DEF Row
  <2>5. PICK c \in b .. b + m : Row(Out, s, b, c)
    BY <1>6, <2>1, <2>2, <2>4
  <2>6. c \in Places /\ b \in Places /\ (b < c => c <= Sees(s))
    <3>1. c \in Int /\ 0 <= c /\ b <= c /\ c <= b + m /\ b \in Int /\ m \in Int /\ 0 <= m /\ Sees(s) \in Int
          /\ Sees(s) <= MaxLog
      BY <2>2, PlaceFacts
    <3>2. b < c => c <= Sees(s)
      BY <2>2, <3>1
    <3>3. -1 <= b /\ -1 <= c /\ c <= MaxLog
      BY <2>2, <2>3, <3>1, <3>2, PlaceFacts
    <3>4. QED
      BY <2>3, <3>1, <3>2, <3>3, PlaceFacts
  <2>7. Row(batch', s, b, c)
    BY <1>1, <1>2, <1>3, <2>5, <2>6, RowBehind, PlaceFacts
  <2>8. b < c => s \in {Out[i].id : i \in 1 .. Len(Out)}
    BY <1>4, <2>5, <2>6
  <2>9. b = Begins(s)
    BY DEF b
  <2>10. QED
    BY <1>7, <2>6, <2>7, <2>8, <2>9
<1>8. CASE ~Asked(s, PickedUp(s))
  <2>1. Finds[s] = <<>>
    BY <1>8 DEF Finds
  <2>2. Row(Finds[s], s, 0, 0)
    BY <2>1, RowEmpty
  <2>3. PICK c \in 0 .. 0 : Row(Out, s, 0, c)
    BY <1>6, <2>2
  <2>4. Row(Out, s, 0, 0) /\ 0 \in Places
    BY <2>3, PlaceFacts
  <2>5. Row(batch', s, 0, 0)
    BY <1>1, <1>2, <1>3, <2>4, RowBehind
  <2>6. ~(0 < 0)
    OBVIOUS
  <2>7. QED
    BY <2>4, <2>5, <2>6
<1>9. QED
  BY <1>7, <1>8

\* And an entry comes behind a source with its labels, where the consumer had not been
\* told them.
LEMMA LabelsOfPoll ==
    ASSUME Types, Poll, IsExporter, NEW s \in Stores
    PROVE  \E l \in Labels : Labelled(batch', s, announced[s], l)
<1> DEFINE q == NewsInTurn \o Out
           k == Len(NewsInTurn)
<1>1. /\ NewsInTurn \in Seq(Record) /\ Out \in Seq(Record)
      /\ \A i \in 1 .. Len(NewsInTurn) : \E t \in Stores : NewsInTurn[i] = Source(t)
      /\ \A i \in 1 .. Len(Out) : \E t \in Stores :
           Asked(t, PickedUp(t)) /\ Out[i].id = t /\ Out[i].at # None /\ Out[i].labels = labels[t]
      /\ \A t \in Stores : News[t] = <<Source(t)>> => \E j \in 1 .. Len(NewsInTurn) : NewsInTurn[j] = Source(t)
  BY ElementsOfPoll
<1>2. /\ q \in Seq(Record) /\ k \in Nat /\ Len(Out) \in Nat /\ Len(q) = k + Len(Out)
      /\ \A i \in 1 .. k : q[i] = NewsInTurn[i]
      /\ \A i \in 1 .. Len(Out) : q[k + i] = Out[i]
  BY <1>1, ConcatProperties, LenProperties
<1>3. batch' = q
  BY PollParts DEF NewsInTurn
<1> HIDE DEF q
<1>4. ASSUME NEW i \in 1 .. Len(q), q[i].id = s
      PROVE  /\ q[i].labels = labels[s]
             /\ Of(q[i], s) => i > k /\ Asked(s, PickedUp(s))
  <2>1. CASE i <= k
    <3>1. i \in 1 .. Len(NewsInTurn) /\ q[i] = NewsInTurn[i]
      BY <1>2, <2>1
    <3>2. PICK t \in Stores : q[i] = Source(t)
      BY <1>1, <3>1
    <3>3. QED
      BY <1>4, <3>2 DEF Source, Of, IsSource
  <2>2. CASE i > k
    <3>1. i - k \in 1 .. Len(Out) /\ k + (i - k) = i
      BY <1>2, <2>2
    <3>2. q[i] = Out[i - k]
      BY <1>2, <3>1
    <3>3. QED
      BY <1>1, <1>4, <2>2, <3>1, <3>2
  <2>3. QED
    BY <1>2, <2>1, <2>2
<1>5. ASSUME NEW i \in 1 .. Len(q), Of(q[i], s)
      PROVE  announced[s] = labels[s] \/ \E j \in 1 .. i - 1 : q[j].id = s /\ IsSource(q[j])
  <2>1. i > k /\ Asked(s, PickedUp(s))
    BY <1>4, <1>5 DEF Of
  <2>2. CASE announced[s] # labels[s]
    <3>1. News[s] = <<Source(s)>>
      BY <2>1, <2>2 DEF News, Announce, IsExporter
    <3>2. PICK j \in 1 .. k : NewsInTurn[j] = Source(s)
      BY <1>1, <3>1
    <3>3. q[j].id = s /\ IsSource(q[j])
      BY <1>2, <3>2 DEF Source, IsSource
    <3>4. j \in 1 .. i - 1
      BY <1>2, <2>1
    <3>5. QED
      BY <3>3, <3>4
  <2>3. QED
    BY <2>2
<1>6. announced[s] \in Labels /\ labels[s] \in Labels
  BY StoreTypes
<1>7. \E l \in Labels : Labelled(q, s, announced[s], l)
  <2>1. \A i \in 1 .. Len(q) : q[i].id = s => q[i].labels = labels[s]
    BY <1>4
  <2>2. \A i \in 1 .. Len(q) : Of(q[i], s) =>
          announced[s] = labels[s] \/ \E j \in 1 .. i - 1 : q[j].id = s /\ IsSource(q[j])
    BY <1>5
  <2>3. q \in Seq(Record)
    BY <1>2
  <2>4. QED
    BY <1>6, <2>1, <2>2, <2>3, LabelledFresh
<1>8. QED
  BY <1>3, <1>7

LEMMA GreaterOf ==
    ASSUME NEW x \in Int, NEW y \in Int
    PROVE  MaxOf(x, y) \in {x, y} /\ MaxOf(x, y) \in Int /\ x <= MaxOf(x, y) /\ y <= MaxOf(x, y)
BY DEF MaxOf

LEMMA NotParked ==
    ASSUME NEW s \in Stores, ~Parked(s), IsFiniteSet(book[s].pending)
    PROVE  \A p \in book[s].pending : ~(p.end > book[s].taken)
<1> DEFINE F == {p \in book[s].pending : p.end > book[s].taken}
<1>1. IsFiniteSet(F)
  BY FS_Subset
<1>2. Cardinality(F) \in Nat /\ (Cardinality(F) = 0 => F = {})
  BY <1>1, FS_CardinalityType, FS_EmptySet
<1>3. ~(Cardinality(F) > 0)
  BY DEF Parked, InFlight
<1>4. F = {}
  BY <1>2, <1>3
<1>5. QED
  BY <1>4

\* What a poll does to the position of a store, and where it reads from.
LEMMA PollOfStore ==
    ASSUME Types, Calm, Poll, NEW s \in Stores, NEW a \in Places, NEW n \in Places, NEW b \in Places,
           NEW c \in Places, NEW lo \in Places, NEW k \in Places, StoreHolds(s, a, n, b, c, lo, k)
    PROVE  /\ book'[s].pending = book[s].pending /\ book'[s].taken = book[s].taken
           /\ book'[s].floor = book[s].floor
           /\ book'[s].offset = (IF book[s].offset # None \/ s \in feedEnv.young THEN book[s].offset
                                 ELSE flushed[s])
           /\ n # None => book'[s].offset = book[s].offset
           /\ book[s].offset <= book'[s].offset /\ book'[s].offset \in Int
           /\ ~Parked(s) => Begins(s) = IF n = None THEN MaxOf(book'[s].offset, 0) ELSE n
<1>1. book'[s] = PickedUp(s)
  BY PollParts DEF PicksUp
<1>2. /\ book'[s].pending = book[s].pending /\ book'[s].taken = book[s].taken
      /\ book'[s].floor = book[s].floor
      /\ book'[s].offset = (IF book[s].offset # None \/ s \in feedEnv.young THEN book[s].offset
                            ELSE flushed[s])
  BY <1>1, PickedTypes
<1>3. Positions(s, n) /\ Tracking(s, a, n) /\ Sendings(s, a, n)
  BY DEF StoreHolds, Core
<1>4. n # None => book'[s].offset = book[s].offset
  BY <1>2, <1>3 DEF Positions
<1>5. book[s].offset <= book'[s].offset /\ book'[s].offset \in Int
  BY <1>2, StoreInts
<1>6. /\ fpc = "poll" /\ saved[s].offset <= book[s].offset /\ head[s] <= MaxOf(saved[s].offset, 0)
  <2>1. fpc = "poll"
    BY PollParts
  <2>2. QED
    BY <1>3, <2>1 DEF Positions
<1>7. /\ saved[s].offset \in Int /\ book[s].offset \in Int /\ head[s] \in Int /\ 0 <= head[s]
      /\ book[s].taken \in Int /\ -1 <= book[s].taken /\ None = -1 /\ readTo[s] \in Int
      /\ a \in Int /\ n \in Int /\ -1 <= a /\ -1 <= n
  BY StoreInts, PlaceFacts
<1>8. head[s] <= MaxOf(book[s].offset, 0)
  BY <1>6, <1>7 DEF MaxOf
<1>9. Begins(s) = MaxOf(MaxOf(book'[s].offset, book[s].taken), head[s])
  <2>1. Begins(s) = MaxOf(MaxOf(PickedUp(s).offset, PickedUp(s).taken), head[s])
    BY UnreadTypes
  <2>2. QED
    BY <1>1, <1>2, <2>1
<1>10. ASSUME ~Parked(s) PROVE Begins(s) = IF n = None THEN MaxOf(book'[s].offset, 0) ELSE n
  <2>1. CASE n = None
    <3>1. book[s].taken = None
      BY <2>1, Unwritten
    <3>2. QED
      BY <1>5, <1>7, <1>8, <1>9, <2>1, <3>1 DEF MaxOf
  <2>2. CASE n # None
    <3>1. book'[s].offset = book[s].offset /\ book[s].offset <= a /\ a <= n
      BY <1>3, <1>4, <2>2, RowBounds DEF Tracking, Sendings
    <3>2. book[s].taken <= n
      <4>1. book[s].taken <= readTo[s] /\ (readTo[s] = a \/ readTo[s] = None)
        BY <1>3 DEF Tracking, Sendings
      <4>2. QED
        BY <1>7, <3>1, <4>1
    <3>3. book[s].taken = n \/ book[s].offset = n
      <4>1. TrackedTo(book[s], n)
        BY <1>3 DEF Tracking
      <4>2. CASE book[s].pending = {}
        BY <2>2, <4>1, <4>2 DEF TrackedTo
      <4>3. CASE book[s].pending # {}
        <5>1. PICK p \in book[s].pending : p.end = n
          BY <4>1, <4>3 DEF TrackedTo
        <5>2. ~(p.end > book[s].taken)
          BY <1>10, <4>1, NotParked DEF TrackedTo
        <5>3. QED
          BY <1>7, <3>2, <5>1, <5>2
      <4>4. QED
        BY <4>2, <4>3
    <3>4. QED
      BY <1>7, <1>8, <1>9, <2>2, <3>1, <3>2, <3>3 DEF MaxOf
  <2>3. QED
    BY <2>1, <2>2
<1>11. QED
  BY <1>2, <1>4, <1>5, <1>10

LEMMA InvOfPoll ==
    ASSUME Types, Types', Calm, Poll, LoopAlone, NEW s \in Stores, StoreInv(s)
    PROVE  StoreInv(s)'
<1>1. PICK a \in Places, n \in Places, b0 \in Places, c0 \in Places, lo \in Places, k \in Places :
           StoreHolds(s, a, n, b0, c0, lo, k)
  BY DEF StoreInv
<1>2. /\ fpc = "poll" /\ fpc' = "write"
      /\ UNCHANGED <<saved, announced, pipe, reports, handled>>
      /\ UNCHANGED <<logEnd, flushed, head, readTo, feedEnv, inbox, known, reporting, shipped>>
  BY PollParts DEF LoopAlone, LogsStill, ExporterStill
<1>3. /\ book'[s].pending = book[s].pending /\ book'[s].taken = book[s].taken
      /\ book'[s].floor = book[s].floor
      /\ book'[s].offset = (IF book[s].offset # None \/ s \in feedEnv.young THEN book[s].offset
                            ELSE flushed[s])
      /\ n # None => book'[s].offset = book[s].offset
      /\ book[s].offset <= book'[s].offset
      /\ ~Parked(s) => Begins(s) = IF n = None THEN MaxOf(book'[s].offset, 0) ELSE n
  BY <1>1, PollOfStore
<1>4. PICK b \in Places, c \in Places :
        /\ Row(batch', s, b, c)
        /\ b < c => /\ Asked(s, PickedUp(s)) /\ b = Begins(s) /\ c <= Sees(s)
                    /\ s \in {Out[i].id : i \in 1 .. Len(Out)}
  BY RowOfPoll
<1>5. startedAt'[s] = IF startedAt[s] # None THEN startedAt[s]
                      ELSE IF book'[s].offset # None THEN book'[s].offset
                      ELSE IF s \in {Out[i].id : i \in 1 .. Len(Out)} THEN head[s] ELSE None
  <2>1. book'[s] = PickedUp(s)
    BY PollParts DEF PicksUp
  <2>2. QED
    BY <2>1, PollParts
<1>6. /\ saved[s].offset \in Int /\ -1 <= saved[s].offset /\ saved[s].floor \in Int
      /\ handled[s] \in Int /\ 0 <= handled[s] /\ startedAt[s] \in Int /\ -1 <= startedAt[s]
      /\ head[s] \in Int /\ 0 <= head[s] /\ None = -1 /\ book[s].offset \in Int /\ -1 <= book[s].offset
      /\ book'[s].offset \in Int /\ startedAt'[s] \in Int /\ flushed[s] \in Int /\ 0 <= flushed[s]
      /\ logEnd[s] \in Int /\ b \in Int /\ c \in Int /\ a \in Int /\ n \in Int /\ -1 <= b /\ -1 <= n
      /\ book[s].floor \in Int /\ ChunkLen \in Int /\ readTo[s] \in Int
  <2>1. book'[s].offset \in Int
    BY <1>1, PollOfStore
  <2>2. startedAt'[s] \in Int
    BY <1>5, <2>1, StoreInts
  <2>3. QED
    BY <2>1, <2>2, StoreInts, PlaceFacts
<1>7. Positions(s, n) /\ Marks(s) /\ Tracking(s, a, n) /\ Reporting(s)
  BY <1>1 DEF StoreHolds, Core
<1>8. startedAt[s] # None => startedAt'[s] = startedAt[s]
  BY <1>5
<1>9. Marks(s)' /\ Sendings(s, a, n)'
  BY <1>1, <1>2 DEF StoreHolds, Core, Marks, Sendings, Mayhap
<1>10. n = None => /\ a = None /\ readTo[s] = None /\ ReportsOn(s, reports) = {} /\ book[s].pending = {}
                   /\ book[s].taken = None
                   /\ IsExporter => k = None /\ lo = None /\ known[s].end = None /\ s \notin reporting
  BY <1>1, Unwritten
<1>11. Tracking(s, a, n)'
  <2>1. TrackedTo(book'[s], n)
    <3>1. TrackedTo(book[s], n)
      BY <1>7 DEF Tracking
    <3>2. CASE n = None
      BY <1>3, <1>10, <3>1, <3>2, FS_EmptySet DEF TrackedTo
    <3>3. CASE n # None
      BY <1>3, <3>1, <3>3 DEF TrackedTo
    <3>4. QED
      BY <3>2, <3>3
  <2>2. QED
    BY <1>2, <1>3, <1>7, <2>1 DEF Tracking
<1>12. Reading(s, n, b, c)'
  <2>1. ASSUME b < c
        PROVE  /\ c <= logEnd[s] /\ startedAt'[s] # None
               /\ b = IF n = None THEN MaxOf(book'[s].offset, 0) ELSE n
    <3>1. ~Parked(s)
      BY <1>4, <2>1 DEF Asked
    <3>2. Sees(s) \in {logEnd[s], flushed[s]}
      BY UnreadTypes
    <3>3. c <= logEnd[s]
      BY <1>4, <1>6, <1>7, <2>1, <3>2 DEF Marks
    <3>4. startedAt'[s] # None
      BY <1>4, <1>5, <1>6, <2>1
    <3>5. QED
      BY <1>3, <1>4, <2>1, <3>1, <3>3, <3>4
  <2>2. QED
    BY <1>2, <1>4, <2>1 DEF Reading
<1>13. Reporting(s)'
  <2>1. CASE n = None
    <3>1. ReportsOn(s, reports') = {}
      BY <1>2, <1>10, <2>1
    <3>2. QED
      BY <3>1 DEF Reporting
  <2>2. CASE n # None
    BY <1>2, <1>3, <1>7, <2>2 DEF Reporting
  <2>3. QED
    BY <2>1, <2>2
<1>14. Positions(s, n)'
  <2>1. FloorOK(book'[s])
    <3>1. FloorOK(book[s])
      BY <1>7 DEF Positions
    <3> DEFINE x == book[s].floor * ChunkLen
    <3>2. book[s].floor # None => 0 <= book[s].floor /\ x <= book[s].offset
      BY <3>1 DEF FloorOK
    <3>3. x \in Int
      BY <1>6
    <3> HIDE DEF x
    <3>4. book[s].floor # None => 0 <= book[s].floor /\ x <= book'[s].offset
      BY <1>3, <1>6, <3>2, <3>3
    <3>5. QED
      BY <1>3, <3>4 DEF FloorOK, x
  <2>2. FloorOK(saved'[s])
    BY <1>2, <1>7 DEF Positions
  <2>3. saved'[s].offset <= book'[s].offset
    BY <1>2, <1>3, <1>6, <1>7 DEF Positions
  <2>4. head'[s] <= MaxOf(saved'[s].offset, 0) /\ (n # None => startedAt'[s] # None)
    BY <1>2, <1>7, <1>8 DEF Positions
  <2>5. startedAt'[s] = None => saved'[s].offset = None /\ book'[s].offset = None
    BY <1>2, <1>5, <1>7 DEF Positions
  <2>6. ~(startedAt'[s] = None /\ handled'[s] > 0)
    BY <1>2, <1>5, <1>7 DEF Positions
  <2>7. s \notin feedEnv.young => book'[s].offset # None
    BY <1>3, <1>6
  <2>8. QED
    BY <1>2, <2>1, <2>2, <2>3, <2>4, <2>5, <2>6, <2>7 DEF Positions
<1>15. startedAt[s] # None /\ Picked(feedEnv) /\ book'[s].offset # book[s].offset =>
           startedAt[s] = flushed[s] /\ book'[s].offset = flushed[s]
  <2>1. ASSUME startedAt[s] # None, Picked(feedEnv), book'[s].offset # book[s].offset
        PROVE  startedAt[s] = flushed[s] /\ book'[s].offset = flushed[s]
    <3>1. book[s].offset = None /\ s \notin feedEnv.young /\ book'[s].offset = flushed[s]
      BY <1>3, <2>1
    <3>2. saved[s].offset = None
      BY <1>2, <1>6, <1>7, <3>1 DEF Positions
    <3>3. Steady(s)
      BY <1>1, <2>1 DEF StoreHolds
    <3>4. QED
      BY <2>1, <3>1, <3>2, <3>3 DEF Steady
  <2>2. QED
    BY <2>1
<1>16. (Picked(feedEnv) => Steady(s))'
  <2>1. ASSUME Picked(feedEnv) PROVE Steady(s)'
    <3>1. Steady(s)
      BY <1>1, <2>1 DEF StoreHolds
    <3>2. startedAt[s] <= startedAt'[s]
      <4>1. startedAt'[s] \in Places
        BY DEF Types, LoopTypes
      <4>2. -1 <= startedAt'[s]
        BY <4>1, PlaceFacts
      <4>3. QED
        BY <1>6, <1>8, <4>2
    <3> DEFINE old == MaxOf(startedAt[s], handled[s])
               new == MaxOf(startedAt'[s], handled[s])
    <3>10. /\ old \in {startedAt[s], handled[s]} /\ old \in Int
          /\ new \in Int /\ startedAt'[s] <= new /\ handled[s] <= new
      BY <1>6, GreaterOf
    <3>11. saved[s].offset <= old /\ book[s].offset <= old
      BY <3>1 DEF Steady, Claimed
    <3> HIDE DEF old, new
    <3>12. old <= new
      BY <1>6, <3>2, <3>10
    <3>3. saved[s].offset <= new
      BY <1>6, <3>10, <3>11, <3>12
    <3>4. book'[s].offset <= new
      <4>1. CASE startedAt[s] = None
        <5>1. startedAt'[s] = book'[s].offset \/ book'[s].offset = None
          BY <1>5, <4>1
        <5>2. QED
          BY <1>6, <3>10, <5>1
      <4>2. CASE startedAt[s] # None
        <5>1. book'[s].offset = book[s].offset \/ book'[s].offset = startedAt'[s]
          BY <1>8, <1>15, <2>1, <4>2
        <5>2. QED
          BY <1>6, <3>10, <3>11, <3>12, <5>1
      <4>3. QED
        BY <4>1, <4>2
    <3>5. ASSUME s \notin feedEnv.young
          PROVE  /\ book'[s].offset # None
                 /\ Mayhap("die") /\ saved[s].offset = None => startedAt'[s] = flushed[s]
      <4>1. book'[s].offset # None
        BY <1>3, <1>6, <3>5
      <4>2. CASE startedAt[s] = None
        <5>1. book[s].offset = None
          BY <1>7, <4>2 DEF Positions
        <5>2. QED
          BY <1>3, <1>5, <3>5, <4>1, <4>2, <5>1
      <4>3. CASE startedAt[s] # None
        BY <1>8, <3>1, <3>5, <4>1, <4>3 DEF Steady
      <4>4. QED
        BY <4>2, <4>3
    <3>6. QED
      BY <1>2, <3>3, <3>4, <3>5 DEF Steady, Claimed, Mayhap, new
  <2>2. QED
    BY <1>2, <2>1
<1>17. (IsExporter => Shipping(s, lo, k, a, n) /\ Labelling(s))'
  <2>1. ASSUME IsExporter PROVE Shipping(s, lo, k, a, n)' /\ Labelling(s)'
    <3>1. Shipping(s, lo, k, a, n) /\ Labelling(s)
      BY <1>1, <2>1 DEF StoreHolds
    <3>2. known[s].end # None => n # None
      BY <1>10, <2>1
    <3>3. Shipping(s, lo, k, a, n)'
      <4>1. Gathering(s, lo, k)'
        BY <1>2, <3>1 DEF Shipping, Gathering
      <4>2. CASE n = None
        BY <1>2, <3>1, <3>2, <4>1, <4>2 DEF Shipping
      <4>3. CASE n # None
        BY <1>2, <1>3, <3>1, <4>1, <4>3 DEF Shipping
      <4>4. QED
        BY <4>2, <4>3
    <3>4. PICK l \in Labels : Labelled(batch', s, announced[s], l)
      BY <2>1, LabelsOfPoll
    <3>5. Labelling(s)'
      BY <1>2, <3>1, <3>4 DEF Labelling
    <3>6. QED
      BY <3>3, <3>5
  <2>2. QED
    BY <1>2, <2>1 DEF IsExporter
<1>18. (IsExporter /\ Picked(feedEnv) => Shipped(s, lo, k))'
  <2>1. ASSUME IsExporter, Picked(feedEnv) PROVE Shipped(s, lo, k)'
    <3>1. Shipped(s, lo, k)
      BY <1>1, <2>1 DEF StoreHolds
    <3>2. CASE startedAt[s] = None
      <4>1. n = None /\ lo = None /\ s \notin reporting' /\ lo \in Int
        BY <1>2, <1>6, <1>7, <1>10, <2>1, <3>2 DEF Positions
      <4>2. ~(handled[s] > 0) /\ saved[s].offset = None /\ book[s].offset = None
        BY <1>2, <1>7, <3>2 DEF Positions
      <4>3. startedAt'[s] = None \/ (saved'[s].offset <= startedAt'[s] /\ book'[s].offset <= startedAt'[s]
                 /\ handled'[s] <= startedAt'[s] /\ lo <= startedAt'[s])
        <5>1. saved'[s].offset = -1 /\ handled'[s] = 0 /\ lo = -1 /\ None = -1
          BY <1>2, <1>6, <4>1, <4>2
        <5>2. CASE book'[s].offset # None
          <6>1. startedAt'[s] = book'[s].offset /\ book'[s].offset = flushed[s]
            BY <1>3, <1>5, <3>2, <4>2, <5>2
          <6>2. QED
            BY <1>6, <5>1, <6>1
        <5>3. CASE book'[s].offset = None
          <6>1. startedAt'[s] \in {head[s], None}
            BY <1>5, <3>2, <5>3
          <6>2. QED
            BY <1>6, <5>1, <5>3, <6>1
        <5>4. QED
          BY <5>2, <5>3
      <4>4. QED
        BY <1>2, <1>6, <4>1, <4>3, HasNothing DEF Shipped, HasTo
    <3>3. CASE startedAt[s] # None
      <4>1. startedAt'[s] = startedAt[s] /\ UNCHANGED <<shipped, handled, saved, reporting>>
        BY <1>2, <1>8, <3>3
      <4>2. HasAll(shipped, s, startedAt[s], book'[s].offset)
        <5>1. CASE book'[s].offset = book[s].offset
          BY <3>1, <5>1 DEF Shipped, HasTo
        <5>2. CASE book'[s].offset # book[s].offset
          <6>1. book'[s].offset <= startedAt[s]
            BY <1>6, <1>15, <2>1, <3>3, <5>2
          <6>2. QED
            BY <1>6, <6>1, HasNothing
        <5>3. QED
          BY <5>1, <5>2
      <4>3. QED
        BY <3>1, <4>1, <4>2 DEF Shipped, HasTo
    <3>4. QED
      BY <3>2, <3>3
  <2>2. QED
    BY <1>2, <2>1 DEF IsExporter
<1>19. StoreHolds(s, a, n, b, c, lo, k)'
  BY <1>9, <1>11, <1>12, <1>13, <1>14, <1>16, <1>17, <1>18 DEF StoreHolds, Core
<1>20. QED
  BY <1>19, StoreWitness

LEMMA PlacesAreInts ==
    \A p \in Places : p \in Int /\ -1 <= p /\ p <= MaxLog
BY PlaceFacts

LEMMA PendingInts ==
    ASSUME NEW p \in Pending
    PROVE  p.end \in Int /\ p.chunk \in Int
<1>1. p.end \in 1 .. MaxLog /\ p.chunk \in Places
  BY DEF Pending
<1>2. QED
  BY <1>1, PlacesAreInts

\* The values after a step.
LEMMA LaterInts ==
    ASSUME Types', NEW s \in Stores
    PROVE  /\ book'[s].offset \in Int /\ -1 <= book'[s].offset
           /\ book'[s].floor \in Int /\ -1 <= book'[s].floor /\ book'[s].taken \in Int
           /\ saved'[s].offset \in Int /\ -1 <= saved'[s].offset /\ saved'[s].floor \in Int
           /\ startedAt'[s] \in Int /\ -1 <= startedAt'[s]
           /\ readTo'[s] \in Int /\ -1 <= readTo'[s] /\ handled'[s] \in Int /\ 0 <= handled'[s]
           /\ known'[s].end \in Int /\ -1 <= known'[s].end
<1>1. \A p \in Places : p \in Int /\ -1 <= p
  BY PlaceFacts
<1>2. saved'[s] \in [offset : Places, floor : Places] /\ book'[s] \in Tracked /\ startedAt'[s] \in Places
  BY DEF Types, LoopTypes
<1>3. handled'[s] \in 0 .. MaxLog /\ readTo'[s] \in Places
  BY DEF Types, LinkTypes
<1>4. known'[s] \in [labels : Labels, pending : Seq(Record), end : Places]
  BY DEF Types, ExporterTypes
<1>5. /\ saved'[s].offset \in Places /\ saved'[s].floor \in Places /\ known'[s].end \in Places
      /\ book'[s].offset \in Places /\ book'[s].floor \in Places /\ book'[s].taken \in Places
  BY <1>2, <1>4 DEF Tracked
<1>6. QED
  BY <1>1, <1>2, <1>3, <1>5

LEMMA WriteOfStore ==
    ASSUME Types, WriteEntry, LoopAlone, NEW s \in Stores
    PROVE  /\ batch \in Seq(Record) /\ batch # <<>> /\ pipe \in Seq(Record) /\ Head(batch) \in Record
           /\ batch' = Tail(batch) /\ pipe' = Append(pipe, Head(batch)) /\ fpc = "write"
           /\ announced'[s] = Carries(announced[s], Head(batch), s)
           /\ ~Of(Head(batch), s) => book'[s] = book[s]
           /\ Of(Head(batch), s) =>
                /\ book'[s].offset = book[s].offset /\ book'[s].floor = book[s].floor
                /\ book'[s].taken = book[s].taken
                /\ book'[s].pending = book[s].pending \cup
                     {[end |-> Head(batch).at + 1, chunk |-> ChunkOf(s, Head(batch).at)]}
           /\ UNCHANGED <<saved, fpc, reports, handled, startedAt>>
           /\ UNCHANGED <<logEnd, flushed, head, readTo, feedEnv, inbox, known, reporting, shipped>>
<1> DEFINE e == Head(batch)
<1>1. batch \in Seq(Record) /\ batch # <<>> /\ pipe \in Seq(Record)
  BY SequenceTypes DEF WriteEntry
<1>2. e \in Record
  BY <1>1, HeadTailProperties
<1>3. /\ batch' = Tail(batch) /\ pipe' = Append(pipe, e) /\ fpc = "write"
      /\ UNCHANGED <<saved, fpc, reports, handled, startedAt>>
      /\ UNCHANGED <<logEnd, flushed, head, readTo, feedEnv, inbox, known, reporting, shipped>>
  BY DEF WriteEntry, feedHistory, LoopAlone, LogsStill, ExporterStill
<1>4. book \in [Stores -> Tracked] /\ announced \in [Stores -> Labels] /\ e.id \in Stores
  BY <1>2 DEF Types, LoopTypes, Record
<1> DEFINE p == [end |-> e.at + 1, chunk |-> ChunkOf(e.id, e.at)]
<1>5. IF IsSource(e) THEN announced' = [announced EXCEPT ![e.id] = e.labels] /\ book' = book
      ELSE book' = [book EXCEPT ![e.id].pending = @ \cup {p}] /\ announced' = announced
  BY DEF WriteEntry
<1> HIDE DEF e, p
<1>6. announced'[s] = Carries(announced[s], e, s)
  BY <1>4, <1>5 DEF Carries
<1>7. ASSUME ~Of(e, s) PROVE book'[s] = book[s]
  <2>1. CASE IsSource(e)
    BY <1>5, <2>1
  <2>2. CASE ~IsSource(e)
    <3>1. e.id # s /\ book' = [book EXCEPT ![e.id].pending = @ \cup {p}]
      BY <1>5, <1>7, <2>2 DEF Of
    <3>2. QED
      BY <1>4, <3>1
  <2>3. QED
    BY <2>1, <2>2
<1>8. ASSUME Of(e, s)
      PROVE  /\ book'[s].offset = book[s].offset /\ book'[s].floor = book[s].floor
             /\ book'[s].taken = book[s].taken /\ book'[s].pending = book[s].pending \cup {p} /\ e.id = s
  <2>1. ~IsSource(e) /\ e.id = s
    BY <1>8 DEF Of
  <2>2. book' = [book EXCEPT ![s].pending = @ \cup {p}]
    BY <1>5, <2>1
  <2>3. book[s] \in [offset : Places, floor : Places, pending : SUBSET Pending, taken : Places]
    BY <1>4 DEF Tracked
  <2>4. book'[s] = [book[s] EXCEPT !.pending = @ \cup {p}]
    BY <1>4, <2>2
  <2>5. QED
    BY <2>1, <2>3, <2>4
<1>9. p = [end |-> e.at + 1, chunk |-> ChunkOf(e.id, e.at)]
  BY DEF p
<1>10. QED
  BY <1>1, <1>2, <1>3, <1>6, <1>7, <1>8, <1>9 DEF e

\* A record that is none of the store's entries.
LEMMA InvOfOthersWritten ==
    ASSUME Types, Types', Calm, WriteEntry, LoopAlone, NEW s \in Stores, StoreInv(s), ~Of(Head(batch), s)
    PROVE  StoreInv(s)'
<1>1. PICK a \in Places, n \in Places, b \in Places, c \in Places, lo \in Places, k \in Places :
           StoreHolds(s, a, n, b, c, lo, k)
  BY DEF StoreInv
<1> DEFINE e == Head(batch)
<1>2. /\ batch \in Seq(Record) /\ batch # <<>> /\ pipe \in Seq(Record) /\ e \in Record
      /\ batch' = Tail(batch) /\ pipe' = Append(pipe, e) /\ fpc = "write"
      /\ announced'[s] = Carries(announced[s], e, s) /\ book'[s] = book[s] /\ ~Of(e, s)
      /\ UNCHANGED <<saved, fpc, reports, handled, startedAt>>
      /\ UNCHANGED <<logEnd, flushed, head, readTo, feedEnv, inbox, known, reporting, shipped>>
  BY WriteOfStore
<1> HIDE DEF e
<1>3. /\ Sendings(s, a, n) /\ Reading(s, n, b, c)
      /\ a \in Int /\ n \in Int /\ b \in Int /\ c \in Int
  BY <1>1, PlaceFacts DEF StoreHolds, Core
<1>4. Row(pipe', s, a, n)
  BY <1>2, <1>3, RowAppend DEF Sendings
<1>5. Row(batch', s, b, c)
  BY <1>2, <1>3, RowTail DEF Reading, e
<1>6. Marks(s)' /\ Sendings(s, a, n)'
  BY <1>1, <1>2, <1>3, <1>4 DEF StoreHolds, Core, Marks, Sendings, Mayhap
<1>7. Tracking(s, a, n)' /\ Reading(s, n, b, c)' /\ Reporting(s)'
  BY <1>1, <1>2, <1>3, <1>5 DEF StoreHolds, Core, Tracking, Reading, Reporting
<1>8. Positions(s, n)'
  BY <1>1, <1>2 DEF StoreHolds, Core, Positions
<1>9. (Picked(feedEnv) => Steady(s))'
  BY <1>1, <1>2 DEF StoreHolds, Steady, Claimed, Mayhap
<1>10. (IsExporter => Shipping(s, lo, k, a, n) /\ Labelling(s))'
  <2>1. ASSUME IsExporter PROVE Shipping(s, lo, k, a, n)' /\ Labelling(s)'
    <3>1. Shipping(s, lo, k, a, n) /\ Labelling(s)
      BY <1>1, <2>1 DEF StoreHolds
    <3>2. Shipping(s, lo, k, a, n)'
      BY <1>2, <3>1 DEF Shipping, Gathering
    <3>3. PICK l1 \in Labels, l2 \in Labels :
            /\ Labelled(inbox, s, known[s].labels, l1) /\ Labelled(pipe, s, l1, announced[s])
            /\ Labelled(batch, s, announced[s], l2)
      BY <3>1 DEF Labelling
    <3>4. announced[s] \in Labels
      BY StoreTypes
    <3>5. Labelled(batch', s, announced'[s], l2)
      BY <1>2, <3>3, <3>4, LabelledTail DEF e
    <3>6. Labelled(pipe', s, l1, announced'[s])
      BY <1>2, <3>3, <3>4, LabelledAppend
    <3>7. QED
      BY <1>2, <3>2, <3>3, <3>5, <3>6 DEF Labelling
  <2>2. QED
    BY <1>2, <2>1 DEF IsExporter
<1>11. (IsExporter /\ Picked(feedEnv) => Shipped(s, lo, k))'
  BY <1>1, <1>2 DEF StoreHolds, IsExporter, Shipped, HasTo
<1>12. StoreHolds(s, a, n, b, c, lo, k)'
  BY <1>6, <1>7, <1>8, <1>9, <1>10, <1>11 DEF StoreHolds, Core
<1>13. QED
  BY <1>12, StoreWitness

\* One of its entries: what is tracked ends where the entry does, and the first one says
\* where the rows begin.
LEMMA InvOfOwnWritten ==
    ASSUME Types, Types', Calm, WriteEntry, LoopAlone, NEW s \in Stores, StoreInv(s), Of(Head(batch), s)
    PROVE  StoreInv(s)'
<1>1. PICK a \in Places, n \in Places, b \in Places, c \in Places, lo \in Places, k \in Places :
           StoreHolds(s, a, n, b, c, lo, k)
  BY DEF StoreInv
<1> DEFINE e == Head(batch)
           A == IF n = None THEN b ELSE a
           L == IF n = None THEN b ELSE lo
           K == IF n = None THEN b ELSE k
<1>2. /\ batch \in Seq(Record) /\ batch # <<>> /\ pipe \in Seq(Record) /\ e \in Record
      /\ batch' = Tail(batch) /\ pipe' = Append(pipe, e) /\ fpc = "write"
      /\ announced'[s] = Carries(announced[s], e, s) /\ Of(e, s)
      /\ book'[s].offset = book[s].offset /\ book'[s].floor = book[s].floor
      /\ book'[s].taken = book[s].taken
      /\ book'[s].pending = book[s].pending \cup {[end |-> e.at + 1, chunk |-> ChunkOf(s, e.at)]}
      /\ UNCHANGED <<saved, fpc, reports, handled, startedAt>>
      /\ UNCHANGED <<logEnd, flushed, head, readTo, feedEnv, inbox, known, reporting, shipped>>
  BY WriteOfStore
<1> HIDE DEF e
<1>3. Marks(s) /\ Sendings(s, a, n) /\ Tracking(s, a, n) /\ Reading(s, n, b, c) /\ Reporting(s) /\ Positions(s, n)
  BY <1>1 DEF StoreHolds, Core
<1>4. /\ a \in Int /\ n \in Int /\ b \in Int /\ c \in Int /\ -1 <= a /\ -1 <= n /\ -1 <= b /\ c <= MaxLog
      /\ lo \in Int /\ k \in Int /\ None = -1 /\ book[s].offset \in Int /\ -1 <= book[s].offset
      /\ readTo[s] \in Int /\ book[s].taken \in Int /\ startedAt[s] \in Int /\ -1 <= startedAt[s]
      /\ logEnd[s] \in Int /\ MaxLog \in Int
  BY StoreInts, PlaceFacts
<1>5. e.at = b /\ b < c /\ Row(batch', s, b + 1, c)
  <2>1. Row(batch, s, b, c)
    BY <1>3 DEF Reading
  <2>2. Head(batch).at = b /\ b < c /\ Row(Tail(batch), s, b + 1, c)
    <3>1. Of(Head(batch), s) /\ batch \in Seq(Record) /\ batch # <<>> /\ b \in Int /\ c \in Int
      BY <1>2, <1>4
    <3>2. QED
      BY <2>1, <3>1, RowTail
  <2>3. QED
    BY <1>2, <2>2 DEF e
<1>6. c <= logEnd[s] /\ startedAt[s] # None /\ b = IF n = None THEN MaxOf(book[s].offset, 0) ELSE n
  BY <1>3, <1>5 DEF Reading
<1>7. 0 <= b /\ (n = None => book[s].offset <= b /\ (b = book[s].offset \/ b = 0))
  <2>1. n = None => b = MaxOf(book[s].offset, 0)
    BY <1>6
  <2>2. MaxOf(book[s].offset, 0) \in {book[s].offset, 0} /\ book[s].offset <= MaxOf(book[s].offset, 0)
        /\ 0 <= MaxOf(book[s].offset, 0) /\ MaxOf(book[s].offset, 0) \in Int
    <3>1. 0 \in Int /\ book[s].offset \in Int
      BY <1>4
    <3>2. QED
      BY <3>1, GreaterOf
  <2>3. QED
    BY <1>4, <1>6, <2>1, <2>2
<1>8. n = None => /\ a = None /\ readTo[s] = None /\ ReportsOn(s, reports) = {} /\ book[s].pending = {}
                  /\ book[s].taken = None
                  /\ IsExporter => k = None /\ lo = None /\ known[s].end = None /\ s \notin reporting
  BY <1>1, Unwritten
<1>9. /\ A \in Places /\ b + 1 \in Places /\ L \in Places /\ K \in Places /\ b + 1 # None
      /\ A \in Int /\ L \in Int /\ K \in Int
  BY <1>4, <1>5, <1>7, PlaceFacts
<1>10. Row(pipe, s, A, b)
  <2>1. Row(pipe, s, a, n)
    BY <1>3 DEF Sendings
  <2>2. CASE n = None
    BY <1>2, <1>4, <1>8, <2>1, <2>2, RowNone
  <2>3. CASE n # None
    BY <1>6, <2>1, <2>3
  <2>4. QED
    BY <2>2, <2>3
<1>11. Row(pipe', s, A, b + 1)
  BY <1>2, <1>4, <1>5, <1>9, <1>10, RowAppend
<1>12. Marks(s)'
  BY <1>2, <1>3 DEF Marks, Mayhap
<1>13. A <= b /\ A # None /\ (readTo[s] = A \/ (readTo[s] = None /\ A < b + 1))
  <2>1. A <= b
    BY <1>10, RowBounds
  <2>2. (a = None) <=> (n = None)
    BY <1>3 DEF Sendings
  <2>3. readTo[s] = a \/ (readTo[s] = None /\ a < n)
    BY <1>3 DEF Sendings
  <2>4. QED
    BY <1>4, <1>6, <1>7, <1>8, <2>1, <2>2, <2>3
<1>14. Sendings(s, A, b + 1)'
  <2>1. b + 1 <= logEnd[s]
    BY <1>4, <1>5, <1>6
  <2>2. QED
    BY <1>2, <1>9, <1>11, <1>13, <2>1 DEF Sendings
<1>15. book[s].offset <= A
  <2>1. n # None => book[s].offset <= a
    BY <1>3 DEF Tracking
  <2>2. QED
    BY <1>7, <2>1
<1> DEFINE p == [end |-> e.at + 1, chunk |-> ChunkOf(s, e.at)]
<1>16. p.end = b + 1 /\ ChunkOK(p)
  <2>1. p.end = b + 1 /\ p.chunk = ChunkOf(s, b)
    BY <1>5
  <2>2. b \in Nat
    BY <1>4, <1>7
  <2>3. b \div ChunkLen \in Nat /\ (b \div ChunkLen) * ChunkLen <= b
    BY <2>2, DivBound
  <2> DEFINE d == b \div ChunkLen
             m == d * ChunkLen
  <2>4. m \in Int
    BY <2>3, FeedAssumption
  <2>5. ChunkOf(s, b) = None \/ ChunkOf(s, b) = d
    BY DEF ChunkOf
  <2> HIDE DEF p, d
  <2>6. d \in Nat /\ m <= b
    BY <2>3 DEF d
  <2> HIDE DEF m
  <2>7. m <= b + 1
    BY <1>4, <2>4, <2>6
  <2>8. 0 <= d /\ d * ChunkLen <= b + 1
    BY <2>6, <2>7 DEF m
  <2>9. QED
    BY <2>1, <2>5, <2>8 DEF ChunkOK
<1>17. Tracking(s, A, b + 1)'
  <2>1. TrackedTo(book[s], n)
    BY <1>3 DEF Tracking
  <2>2. book'[s].pending = book[s].pending \cup {p}
    BY <1>2
  <2>3. \A q \in book[s].pending : q.end \in Int /\ book[s].offset < q.end /\ q.end <= b + 1 /\ ChunkOK(q)
    <3>1. TAKE q \in book[s].pending
    <3>2. n # None
      BY <1>8
    <3>3. q.end \in Int
      BY StoreTypes, PlaceFacts DEF Pending
    <3>4. book[s].offset < q.end /\ q.end <= n /\ ChunkOK(q)
      BY <2>1 DEF TrackedTo
    <3>5. n = b
      BY <1>6, <3>2
    <3>6. QED
      BY <1>4, <3>3, <3>4, <3>5
  <2> HIDE DEF p
  <2>4. IsFiniteSet(book'[s].pending)
    BY <2>1, <2>2, FS_AddElement DEF TrackedTo
  <2>5. book[s].offset < b + 1
    BY <1>4, <1>9, <1>13, <1>15
  <2>6. \A q \in book'[s].pending : book[s].offset < q.end /\ q.end <= b + 1 /\ ChunkOK(q)
    BY <1>4, <1>16, <2>2, <2>3, <2>5
  <2>7. p \in book'[s].pending /\ book'[s].pending # {}
    BY <2>2
  <2>8. TrackedTo(book'[s], b + 1)
    BY <1>2, <1>16, <2>4, <2>6, <2>7 DEF TrackedTo
  <2>9. book'[s].taken <= readTo'[s]
    BY <1>2, <1>3 DEF Tracking
  <2>10. QED
    BY <1>2, <1>15, <2>8, <2>9 DEF Tracking
<1> HIDE DEF p
<1>18. Reading(s, b + 1, b + 1, c)'
  BY <1>2, <1>5, <1>6, <1>9 DEF Reading
<1>19. Reporting(s)'
  BY <1>2, <1>3 DEF Reporting
<1>20. Positions(s, b + 1)'
  <2>1. s \notin feedEnv.young => book[s].offset # None
    BY <1>2, <1>3 DEF Positions
  <2>2. FloorOK(book'[s]) /\ FloorOK(saved'[s])
    BY <1>2, <1>3 DEF Positions, FloorOK
  <2>3. saved'[s].offset <= book'[s].offset /\ fpc' # "start"
    BY <1>2, <1>3 DEF Positions
  <2>4. QED
    BY <1>2, <1>3, <1>6, <2>1, <2>2, <2>3 DEF Positions
<1>21. (Picked(feedEnv) => Steady(s))'
  BY <1>1, <1>2 DEF StoreHolds, Steady, Claimed, Mayhap
<1>22. (IsExporter => Shipping(s, L, K, A, b + 1) /\ Labelling(s))'
  <2>1. ASSUME IsExporter PROVE Shipping(s, L, K, A, b + 1)' /\ Labelling(s)'
    <3>1. Shipping(s, lo, k, a, n) /\ Labelling(s)
      BY <1>1, <2>1 DEF StoreHolds
    <3>2. Shipping(s, L, K, A, b + 1)'
      <4>1. CASE n # None
        <5>1. A = a /\ L = lo /\ K = k
          BY <4>1
        <5>2. Gathering(s, L, K)' /\ Row(inbox', s, K, A) /\ lo # None
          BY <1>2, <3>1, <4>1, <5>1 DEF Shipping, Gathering
        <5>3. QED
          BY <1>2, <1>9, <3>1, <4>1, <5>1, <5>2 DEF Shipping
      <4>2. CASE n = None
        <5>1. A = b /\ L = b /\ K = b /\ b # None
          BY <1>4, <1>7, <4>2
        <5>2. known[s].end = None /\ s \notin reporting /\ k = None /\ a = None /\ readTo[s] = None
              /\ ReportsOn(s, reports) = {}
          BY <1>8, <2>1, <4>2
        <5>3. known[s].pending = <<>> /\ Row(inbox, s, k, a) /\ inbox \in Seq(Record)
          BY <3>1, <5>2, SequenceTypes DEF Shipping
        <5>4. Row(inbox, s, b, b)
          BY <1>4, <5>2, <5>3, RowNone
        <5>5. Row(known[s].pending, s, b, b)
          BY <1>4, <5>3, RowEmpty
        <5>6. Gathering(s, b, b)'
          BY <1>2, <5>2, <5>3, <5>5, EmptySeq DEF Gathering
        <5>7. b = MaxOf(book[s].offset, 0)
          BY <1>6, <4>2
        <5>8. QED
          BY <1>2, <1>9, <5>1, <5>2, <5>3, <5>4, <5>6, <5>7 DEF Shipping
      <4>3. QED
        BY <4>1, <4>2
    <3>3. PICK l1 \in Labels, l2 \in Labels :
            /\ Labelled(inbox, s, known[s].labels, l1) /\ Labelled(pipe, s, l1, announced[s])
            /\ Labelled(batch, s, announced[s], l2)
      BY <3>1 DEF Labelling
    <3>4. announced[s] \in Labels
      BY StoreTypes
    <3>5. Labelled(batch', s, announced'[s], l2) /\ e.labels = announced[s]
      BY <1>2, <3>3, <3>4, LabelledTail DEF e
    <3>6. Labelled(pipe', s, l1, announced'[s])
      BY <1>2, <3>3, <3>4, <3>5, LabelledAppend
    <3>7. QED
      BY <1>2, <3>2, <3>3, <3>5, <3>6 DEF Labelling
  <2>2. QED
    BY <1>2, <2>1 DEF IsExporter
<1>23. (IsExporter /\ Picked(feedEnv) => Shipped(s, L, K))'
  <2>1. ASSUME IsExporter, Picked(feedEnv) PROVE Shipped(s, L, K)'
    <3>1. Shipped(s, lo, k)
      BY <1>1, <2>1 DEF StoreHolds
    <3>2. CASE n # None
      BY <1>2, <3>1, <3>2 DEF Shipped, HasTo
    <3>3. CASE n = None
      <4>1. HasAll(shipped, s, startedAt[s], book[s].offset)
        BY <3>1 DEF Shipped, HasTo
      <4>2. HasAll(shipped, s, startedAt[s], 0)
        BY <1>4, <1>6, HasNothing
      <4>3. HasAll(shipped, s, startedAt[s], b)
        BY <1>7, <3>3, <4>1, <4>2
      <4>4. L = b /\ s \notin reporting
        BY <1>8, <2>1, <3>3
      <4>5. QED
        BY <1>2, <3>1, <4>3, <4>4 DEF Shipped, HasTo
    <3>4. QED
      BY <3>2, <3>3
  <2>2. QED
    BY <1>2, <2>1 DEF IsExporter
<1> HIDE DEF A, L, K
<1>24. StoreHolds(s, A, b + 1, b + 1, c, L, K)'
  BY <1>12, <1>14, <1>17, <1>18, <1>19, <1>20, <1>21, <1>22, <1>23 DEF StoreHolds, Core
<1>25. QED
  BY <1>9, <1>24, StoreWitness

\* What a drain does to the position of a store: it goes to where the last report says.
LEMMA DrainOfStore ==
    ASSUME Types, Types', Drains, NEW s \in Stores, NEW a \in Places, NEW n \in Places, NEW b \in Places,
           NEW c \in Places, NEW lo \in Places, NEW k \in Places, StoreHolds(s, a, n, b, c, lo, k)
    PROVE  /\ ReportsOn(s, reports) = {} => book'[s] = book[s]
           /\ ReportsOn(s, reports) # {} =>
                /\ n # None /\ book'[s].offset <= a /\ book'[s].offset <= handled[s]
                /\ \E i \in ReportsOn(s, reports) : book'[s].offset = reports[i].offset
           /\ book[s].offset <= book'[s].offset
           /\ FloorOK(book'[s]) /\ TrackedTo(book'[s], n) /\ book'[s].taken <= readTo[s]
<1>1. book'[s] = Drained[s]
  BY DEF Drains
<1>2. Sendings(s, a, n) /\ Tracking(s, a, n) /\ Reporting(s) /\ Positions(s, n)
  BY DEF StoreHolds, Core
<1>3. FloorOK(book[s]) /\ TrackedTo(book[s], n) /\ book[s].taken <= readTo[s]
  BY <1>2 DEF Tracking, Positions
<1>4. CASE ReportsOn(s, reports) = {}
  <2>1. book'[s] = book[s]
    BY <1>1, <1>4, DrainedParts
  <2>2. book[s].offset <= book'[s].offset
    BY <2>1, StoreInts
  <2>3. QED
    BY <1>3, <1>4, <2>1, <2>2
<1>5. CASE ReportsOn(s, reports) # {}
  <2> DEFINE j == LastOf(s)
             x == reports[j].offset
  <2>1. /\ j \in ReportsOn(s, reports) /\ \A i \in ReportsOn(s, reports) : i <= j
        /\ book'[s].pending = book[s].pending \ Done(s)
        /\ book'[s].offset = x /\ book'[s].floor = MaxOf(book[s].floor, LastChunk(Done(s)))
        /\ book'[s].taken \in {book[s].taken} \cup {reports[i].taken : i \in ReportsOn(s, reports)}
        /\ LastChunk(Done(s)) \in {None} \cup {p.chunk : p \in Done(s)}
    <3>1. Drained[s] = book'[s]
      BY <1>1
    <3> HIDE DEF j
    <3>2. QED
      BY <1>5, <3>1, DrainedParts DEF j
  <2>2. \A i \in ReportsOn(s, reports) :
          i \in Int /\ reports[i].offset \in Int /\ reports[i].taken \in Int
    <3>1. TAKE i \in ReportsOn(s, reports)
    <3>2. i \in 1 .. Len(reports)
      BY DEF ReportsOn
    <3>3. reports[i].offset \in Places /\ reports[i].taken \in Places
      BY <3>2, SequenceTypes, ReportFields
    <3>4. QED
      BY <3>2, <3>3, PlacesAreInts
  <2> HIDE DEF j
  <2>3. \A i \in ReportsOn(s, reports) : reports[i].offset <= x
    <3>1. TAKE i \in ReportsOn(s, reports)
    <3>2. CASE i < j
      BY <1>2, <2>1, <3>2 DEF Reporting
    <3>3. CASE i = j
      BY <2>2, <3>3
    <3>4. QED
      BY <2>1, <2>2, <3>2, <3>3
  <2>4. /\ 0 <= x /\ book[s].offset <= x /\ x <= readTo[s] /\ x <= handled[s] /\ x \in Int
    BY <1>2, <2>1, <2>2 DEF Reporting
  <2>5. /\ readTo[s] \in Int /\ None = -1 /\ a \in Int /\ n \in Int /\ book[s].offset \in Int
        /\ book[s].floor \in Int /\ ChunkLen \in Int
    BY StoreInts, PlaceFacts
  <2>6. readTo[s] = a /\ a <= n /\ n # None
    <3>1. readTo[s] # None
      BY <2>4, <2>5
    <3>2. readTo[s] = a /\ a <= n
      BY <1>2, <3>1, RowBounds DEF Sendings
    <3>3. QED
      BY <1>2, <3>1, <3>2 DEF Sendings
  <2> HIDE DEF x
  <2>7. FloorOK(book'[s])
    <3>1. \A p \in Done(s) : p.chunk \in Int /\ (p.chunk # None => 0 <= p.chunk /\ p.chunk * ChunkLen <= x)
      <4>1. TAKE p \in Done(s)
      <4>2. p \in book[s].pending /\ p \in Pending
        BY StoreTypes DEF Done
      <4>3. PICK i \in ReportsOn(s, reports) : p.end <= reports[i].offset
        BY DEF Done
      <4>4. p.end \in Int /\ p.chunk \in Int
        BY <4>2, PendingInts
      <4>5. p.end <= x
        BY <2>2, <2>3, <2>4, <4>3, <4>4
      <4>6. ChunkOK(p)
        BY <1>3, <4>2 DEF TrackedTo
      <4> DEFINE m == p.chunk * ChunkLen
      <4>7. p.chunk # None => 0 <= p.chunk /\ m <= p.end
        BY <4>6 DEF ChunkOK
      <4>8. m \in Int
        BY <2>5, <4>4
      <4> HIDE DEF m
      <4>9. p.chunk # None => 0 <= p.chunk /\ m <= x
        BY <2>4, <4>4, <4>5, <4>7, <4>8
      <4>10. QED
        BY <4>4, <4>9 DEF m
    <3>2. book[s].floor # None => 0 <= book[s].floor /\ book[s].floor * ChunkLen <= x
      <4> DEFINE m == book[s].floor * ChunkLen
      <4>1. book[s].floor # None => 0 <= book[s].floor /\ m <= book[s].offset
        BY <1>3 DEF FloorOK
      <4>2. m \in Int
        BY <2>5
      <4> HIDE DEF m
      <4>3. book[s].floor # None => 0 <= book[s].floor /\ m <= x
        BY <2>4, <2>5, <4>1, <4>2
      <4>4. QED
        BY <4>3 DEF m
    <3>3. LastChunk(Done(s)) = None \/ \E p \in Done(s) : LastChunk(Done(s)) = p.chunk
      BY <2>1
    <3>4. MaxOf(book[s].floor, LastChunk(Done(s))) \in {book[s].floor, LastChunk(Done(s))}
      BY DEF MaxOf
    <3>5. \/ book'[s].floor = book[s].floor \/ book'[s].floor = None
          \/ \E p \in Done(s) : book'[s].floor = p.chunk
      BY <2>1, <3>3, <3>4
    <3>6. QED
      BY <2>1, <3>1, <3>2, <3>5 DEF FloorOK
  <2>8. TrackedTo(book'[s], n)
    <3>1. IsFiniteSet(book'[s].pending)
      BY <1>3, <2>1, FS_Subset DEF TrackedTo
    <3>2. ASSUME NEW p \in book'[s].pending
          PROVE  book'[s].offset < p.end /\ p.end <= n /\ ChunkOK(p)
      <4>1. p \in book[s].pending /\ ~(p.end <= x)
        BY <2>1, <3>2 DEF Done, x
      <4>2. p.end \in Int
        BY <4>1, StoreTypes, PlaceFacts DEF Pending
      <4>3. QED
        BY <1>3, <2>1, <2>4, <4>1, <4>2 DEF TrackedTo
    <3>3. CASE book[s].pending = {}
      <4>1. n = book[s].offset /\ book'[s].pending = {}
        BY <1>3, <2>1, <2>6, <3>3 DEF TrackedTo
      <4>2. n = book'[s].offset
        BY <2>1, <2>4, <2>5, <2>6, <4>1
      <4>3. QED
        BY <3>1, <4>1, <4>2 DEF TrackedTo
    <3>4. CASE book[s].pending # {}
      <4>1. PICK p \in book[s].pending : p.end = n
        BY <1>3, <3>4 DEF TrackedTo
      <4>2. CASE p \in Done(s)
        <5>1. PICK i \in ReportsOn(s, reports) : n <= reports[i].offset
          BY <4>1, <4>2 DEF Done
        <5>2. n = book'[s].offset
          BY <2>1, <2>2, <2>3, <2>4, <2>5, <2>6, <5>1
        <5>3. book'[s].pending = {}
          <6>1. ASSUME NEW q \in book'[s].pending PROVE FALSE
            <7>1. q.end <= n /\ book'[s].offset < q.end /\ q \in book[s].pending
              BY <2>1, <3>2, <6>1
            <7>2. q.end \in Int
              BY <7>1, StoreTypes, PlaceFacts DEF Pending
            <7>3. QED
              BY <2>5, <5>2, <7>1, <7>2
          <6>2. QED
            BY <6>1
        <5>4. QED
          BY <3>1, <5>2, <5>3 DEF TrackedTo
      <4>3. CASE p \notin Done(s)
        <5>1. p \in book'[s].pending
          BY <2>1, <4>1, <4>3
        <5>2. QED
          BY <3>1, <3>2, <4>1, <5>1 DEF TrackedTo
      <4>4. QED
        BY <4>2, <4>3
    <3>5. QED
      BY <3>3, <3>4
  <2>9. book'[s].taken <= readTo[s]
    <3>1. \A i \in ReportsOn(s, reports) : reports[i].taken <= readTo[s]
      BY <1>2 DEF Reporting
    <3>2. QED
      BY <1>3, <2>1, <3>1
  <2>10. QED
    BY <1>5, <2>1, <2>4, <2>6, <2>7, <2>8, <2>9 DEF x
<1>6. QED
  BY <1>4, <1>5

LEMMA InvOfDrain ==
    ASSUME Types, Types', Drains, LoopAlone, NEW s \in Stores, StoreInv(s)
    PROVE  StoreInv(s)'
<1>1. PICK a \in Places, n \in Places, b \in Places, c \in Places, lo \in Places, k \in Places :
           StoreHolds(s, a, n, b, c, lo, k)
  BY DEF StoreInv
<1> DEFINE mine == ReportsOn(s, reports)
<1>2. /\ reports' = <<>> /\ batch' = batch /\ fpc # "start" /\ fpc' # "start"
      /\ UNCHANGED <<announced, pipe, handled, startedAt>>
      /\ UNCHANGED <<logEnd, flushed, head, readTo, feedEnv, inbox, known, reporting, shipped>>
  BY DEF Drains, LoopAlone, LogsStill, ExporterStill
<1>3. /\ mine = {} => book'[s] = book[s]
      /\ mine # {} => /\ n # None /\ book'[s].offset <= a /\ book'[s].offset <= handled[s]
                      /\ \E i \in mine : book'[s].offset = reports[i].offset
      /\ book[s].offset <= book'[s].offset
      /\ FloorOK(book'[s]) /\ TrackedTo(book'[s], n) /\ book'[s].taken <= readTo[s]
  BY <1>1, DrainOfStore
<1>4. \/ saved'[s].offset = book'[s].offset /\ saved'[s].floor = book'[s].floor
      \/ saved'[s] = saved[s]
  <2>1. CASE saved' = saved
    BY <2>1
  <2>2. CASE saved' = Persisted(book')
    <3>1. saved'[s] = Recorded(book'[s])
      BY <2>2 DEF Persisted
    <3>2. QED
      BY <3>1 DEF Recorded
  <2>3. QED
    BY <2>1, <2>2 DEF Drains
<1>5. Marks(s) /\ Sendings(s, a, n) /\ Tracking(s, a, n) /\ Reading(s, n, b, c) /\ Positions(s, n)
  BY <1>1 DEF StoreHolds, Core
<1>6. /\ None = -1 /\ saved[s].offset \in Int /\ -1 <= saved[s].offset /\ book[s].offset \in Int
      /\ book'[s].offset \in Int /\ saved'[s].offset \in Int /\ handled[s] \in Int /\ 0 <= handled[s]
      /\ startedAt[s] \in Int /\ head[s] \in Int
  BY StoreInts, LaterInts
<1>7. ReportsOn(s, reports') = {}
  BY <1>2, ReportsOfNothing
<1>8. saved[s].offset <= book[s].offset /\ saved[s].offset <= saved'[s].offset /\ saved'[s].offset <= book'[s].offset
  <2>1. saved[s].offset <= book[s].offset
    BY <1>2, <1>5 DEF Positions
  <2>2. saved[s].offset <= book'[s].offset
    BY <1>3, <1>6, <2>1
  <2>3. QED
    BY <1>4, <1>6, <2>1, <2>2
<1> HIDE DEF mine
<1>9. Marks(s)' /\ Sendings(s, a, n)'
  BY <1>2, <1>5 DEF Marks, Sendings, Mayhap
<1>10. Tracking(s, a, n)'
  BY <1>2, <1>3, <1>5 DEF Tracking
<1>11. Reading(s, n, b, c)' /\ Reporting(s)'
  <2>1. n = None => book'[s] = book[s]
    BY <1>3
  <2>2. Reading(s, n, b, c)'
    BY <1>2, <1>5, <2>1 DEF Reading
  <2>3. QED
    BY <1>7, <2>2 DEF Reporting
<1>12. Positions(s, n)'
  <2>1. FloorOK(saved'[s])
    BY <1>3, <1>4, <1>5 DEF Positions, FloorOK
  <2>2. head[s] <= MaxOf(saved'[s].offset, 0)
    <3>1. head[s] <= MaxOf(saved[s].offset, 0)
      BY <1>5 DEF Positions
    <3>2. QED
      BY <1>6, <1>8, <3>1 DEF MaxOf
  <2>3. startedAt[s] = None => saved'[s].offset = None /\ book'[s].offset = None
    <3>1. ASSUME startedAt[s] = None PROVE saved'[s].offset = None /\ book'[s].offset = None
      <4>1. n = None /\ saved[s].offset = None /\ book[s].offset = None
        BY <1>5, <3>1 DEF Positions
      <4>2. book'[s] = book[s]
        BY <1>3, <4>1
      <4>3. QED
        BY <1>4, <4>1, <4>2
    <3>2. QED
      BY <3>1
  <2>4. book[s].offset # None => book'[s].offset # None
    <3>1. -1 <= book[s].offset
      BY StoreInts
    <3>2. QED
      BY <1>3, <1>6, <3>1
  <2>5. QED
    BY <1>2, <1>3, <1>5, <1>8, <2>1, <2>2, <2>3, <2>4 DEF Positions
<1>13. (Picked(feedEnv) => Steady(s))'
  <2>1. ASSUME Picked(feedEnv) PROVE Steady(s)'
    <3>1. Steady(s)
      BY <1>1, <2>1 DEF StoreHolds
    <3> DEFINE m == MaxOf(startedAt[s], handled[s])
    <3>2. m \in Int /\ handled[s] <= m
      BY <1>6, GreaterOf
    <3>3. book[s].offset <= m
      BY <3>1 DEF Steady, Claimed
    <3> HIDE DEF m
    <3>4. book'[s].offset <= m /\ saved'[s].offset <= m
      BY <1>3, <1>6, <1>8, <3>2, <3>3
    <3>5. saved'[s].offset = None => saved[s].offset = None
      BY <1>6, <1>8
    <3>6. book[s].offset # None => book'[s].offset # None
      <4>1. -1 <= book[s].offset
        BY StoreInts
      <4>2. QED
        BY <1>3, <1>6, <4>1
    <3>7. QED
      BY <1>2, <3>1, <3>4, <3>5, <3>6 DEF Steady, Claimed, Mayhap, m
  <2>2. QED
    BY <1>2, <2>1
<1>14. (IsExporter => Shipping(s, lo, k, a, n) /\ Labelling(s))'
  <2>1. ASSUME IsExporter PROVE Shipping(s, lo, k, a, n)' /\ Labelling(s)'
    <3>1. Shipping(s, lo, k, a, n) /\ Labelling(s)
      BY <1>1, <2>1 DEF StoreHolds
    <3>2. Gathering(s, lo, k)'
      BY <1>2, <3>1 DEF Shipping, Gathering
    <3>3. CASE known[s].end = None
      <4>1. book'[s] = book[s]
        BY <1>3, <3>1, <3>3 DEF Shipping, mine
      <4>2. QED
        BY <1>2, <1>7, <3>1, <3>2, <3>3, <4>1 DEF Shipping, Labelling
    <3>4. CASE known[s].end # None
      <4>1. book[s].offset <= lo /\ \A i \in mine : reports[i].offset <= lo
        BY <3>1, <3>4 DEF Shipping, mine
      <4>2. book'[s].offset <= lo
        BY <1>3, <4>1
      <4>3. QED
        BY <1>2, <1>7, <3>1, <3>2, <3>4, <4>2 DEF Shipping, Labelling
    <3>5. QED
      BY <3>3, <3>4
  <2>2. QED
    BY <1>2, <2>1 DEF IsExporter
<1>15. (IsExporter /\ Picked(feedEnv) => Shipped(s, lo, k))'
  <2>1. ASSUME IsExporter, Picked(feedEnv) PROVE Shipped(s, lo, k)'
    <3>1. Shipped(s, lo, k)
      BY <1>1, <2>1 DEF StoreHolds
    <3>2. HasAll(shipped, s, startedAt[s], handled[s]) /\ HasAll(shipped, s, startedAt[s], book[s].offset)
          /\ HasAll(shipped, s, startedAt[s], saved[s].offset)
      BY <3>1 DEF Shipped, HasTo
    <3>3. book'[s].offset = book[s].offset \/ book'[s].offset <= handled[s]
      BY <1>3
    <3>4. HasAll(shipped, s, startedAt[s], book'[s].offset)
      BY <1>6, <3>2, <3>3, HasLess
    <3>5. HasAll(shipped, s, startedAt[s], saved'[s].offset)
      BY <1>4, <3>2, <3>4
    <3>6. QED
      BY <1>2, <3>1, <3>4, <3>5 DEF Shipped, HasTo
  <2>2. QED
    BY <1>2, <2>1 DEF IsExporter
<1>16. StoreHolds(s, a, n, b, c, lo, k)'
  BY <1>9, <1>10, <1>11, <1>12, <1>13, <1>14, <1>15 DEF StoreHolds, Core
<1>17. QED
  BY <1>16, StoreWitness

\* The consumer's end takes the first record of the pipe.
TakesHead(s) ==
    /\ LoopHolds /\ pipe # <<>> /\ pipe' = Tail(pipe)
    /\ UNCHANGED <<reports, handled>>
    /\ readTo'[s] = IF Of(Head(pipe), s) THEN Head(pipe).at + 1 ELSE readTo[s]

LEMMA CoreOfHead ==
    ASSUME Types, Types', NEW s \in Stores, TakesHead(s), NEW a \in Places, NEW n \in Places, NEW b \in Places,
           NEW c \in Places, NEW lo \in Places, NEW k \in Places, StoreHolds(s, a, n, b, c, lo, k)
    PROVE  \E A \in Places :
             /\ Core(s, A, n, b, c)' /\ (Picked(feedEnv) => Steady(s))'
             /\ IF Of(Head(pipe), s)
                THEN Head(pipe).at = a /\ a # None /\ A = a + 1 /\ readTo'[s] = a + 1
                ELSE A = a /\ readTo'[s] = readTo[s]
<1> DEFINE e == Head(pipe)
<1>1. Marks(s) /\ Sendings(s, a, n) /\ Tracking(s, a, n) /\ Reading(s, n, b, c) /\ Reporting(s) /\ Positions(s, n)
  BY DEF StoreHolds, Core
<1>2. /\ pipe \in Seq(Record) /\ pipe # <<>> /\ pipe' = Tail(pipe)
      /\ UNCHANGED <<logEnd, flushed, head>>
      /\ UNCHANGED <<saved, fpc, book, announced, batch, startedAt, feedEnv, reports, handled>>
  BY SequenceTypes DEF TakesHead, LoopHolds, LogsStill
<1>3. /\ a \in Int /\ n \in Int /\ -1 <= a /\ None = -1 /\ readTo[s] \in Int /\ n <= MaxLog
      /\ book[s].offset \in Int /\ book[s].taken \in Int /\ MaxLog \in Int
  BY StoreInts, PlaceFacts
<1>4. Row(pipe, s, a, n)
  BY <1>1 DEF Sendings
<1>5. ~Of(e, s) => Row(pipe', s, a, n)
  BY <1>2, <1>3, <1>4, RowTail
<1>6. Of(e, s) => e.at = a /\ a < n /\ Row(pipe', s, a + 1, n)
  BY <1>2, <1>3, <1>4, RowTail
<1>7. readTo'[s] = IF Of(e, s) THEN e.at + 1 ELSE readTo[s]
  BY DEF TakesHead
<1>8. (a = None) <=> (n = None)
  BY <1>1 DEF Sendings
<1> HIDE DEF e
<1>9. Of(e, s) => n # None /\ a # None /\ 0 <= a
  BY <1>3, <1>6, <1>8
<1>10. PICK A \in Places : A = IF Of(e, s) THEN a + 1 ELSE a
  <2>1. (IF Of(e, s) THEN a + 1 ELSE a) \in Places
    BY <1>3, <1>6, PlaceFacts
  <2>2. QED
    BY <2>1
<1>24. A \in Int
  BY <1>10, PlacesAreInts
<1>11. Row(pipe', s, A, n)
  BY <1>5, <1>6, <1>10
<1>12. readTo[s] = a \/ (readTo[s] = None /\ a < n)
  BY <1>1 DEF Sendings
<1>13. /\ a <= A /\ readTo[s] <= readTo'[s]
       /\ readTo'[s] = A \/ (readTo'[s] = None /\ A < n)
       /\ (A = None) <=> (n = None)
  <2>1. CASE Of(e, s)
    BY <1>3, <1>6, <1>7, <1>9, <1>10, <1>12, <2>1
  <2>2. CASE ~Of(e, s)
    BY <1>3, <1>7, <1>8, <1>10, <1>12, <2>2
  <2>3. QED
    BY <2>1, <2>2
<1>14. readTo'[s] \in Int
  BY LaterInts
<1>15. IF Of(e, s) THEN e.at = a /\ a # None /\ A = a + 1 /\ readTo'[s] = a + 1
       ELSE A = a /\ readTo'[s] = readTo[s]
  BY <1>6, <1>7, <1>9, <1>10
<1>16. Marks(s)' /\ Sendings(s, A, n)'
  BY <1>1, <1>2, <1>11, <1>13 DEF Marks, Sendings, Mayhap
<1>17. Tracking(s, A, n)'
  <2>1. n # None => book[s].offset <= A
    <3>1. n # None => book[s].offset <= a
      BY <1>1 DEF Tracking
    <3>2. QED
      BY <1>3, <1>24, <1>13, <3>1
  <2>2. book[s].taken <= readTo'[s]
    <3>1. book[s].taken <= readTo[s]
      BY <1>1 DEF Tracking
    <3>2. QED
      BY <1>3, <1>13, <1>14, <3>1
  <2>3. QED
    BY <1>1, <1>2, <2>1, <2>2 DEF Tracking
<1>18. Reading(s, n, b, c)'
  BY <1>1, <1>2 DEF Reading
<1>19. Reporting(s)'
  <2>1. ASSUME NEW i \in ReportsOn(s, reports)
        PROVE  reports[i].offset <= readTo'[s] /\ reports[i].taken <= readTo'[s]
    <3>1. i \in 1 .. Len(reports)
      BY DEF ReportsOn
    <3>2. reports[i].offset \in Places /\ reports[i].taken \in Places
      BY <3>1, SequenceTypes, ReportFields
    <3>3. reports[i].offset \in Int /\ reports[i].taken \in Int
      BY <3>2, PlacesAreInts
    <3>4. reports[i].offset <= readTo[s] /\ reports[i].taken <= readTo[s]
      BY <1>1 DEF Reporting
    <3>5. QED
      BY <1>3, <1>13, <1>14, <3>3, <3>4
  <2>2. QED
    BY <1>1, <1>2, <2>1 DEF Reporting
<1>20. Positions(s, n)'
  BY <1>1, <1>2 DEF Positions
<1>21. (Picked(feedEnv) => Steady(s))'
  BY <1>2 DEF StoreHolds, Steady, Claimed, Mayhap
<1>22. Core(s, A, n, b, c)'
  BY <1>16, <1>17, <1>18, <1>19, <1>20 DEF Core
<1>23. QED
  BY <1>10, <1>15, <1>21, <1>22 DEF e

LEMMA InvOfConsume ==
    ASSUME Types, Types', Calm, Consumes, NEW s \in Stores, StoreInv(s)
    PROVE  StoreInv(s)'
<1>1. PICK a \in Places, n \in Places, b \in Places, c \in Places, lo \in Places, k \in Places :
           StoreHolds(s, a, n, b, c, lo, k)
  BY DEF StoreInv
<1> DEFINE e == Head(pipe)
<1>2. /\ pipe \in Seq(Record) /\ pipe # <<>> /\ pipe' = Tail(pipe)
      /\ readTo' = [readTo EXCEPT ![e.id] = e.at + 1] /\ UNCHANGED <<reports, handled>> /\ LoopHolds
      /\ ~IsExporter /\ feedEnv' = feedEnv
  BY SequenceTypes DEF Consumes, ConsumeEntry, LoopHolds
<1>3. 1 \in 1 .. Len(pipe) /\ e = pipe[1]
  BY <1>2, TailIsSeq
<1>4. ~IsSource(e)
  BY <1>2, <1>3 DEF Calm
<1>5. readTo'[s] = IF Of(e, s) THEN e.at + 1 ELSE readTo[s]
  <2>1. readTo \in [Stores -> Places]
    BY DEF Types, LinkTypes
  <2> HIDE DEF e
  <2>2. Of(e, s) <=> e.id = s
    BY <1>4 DEF Of
  <2>3. QED
    BY <1>2, <2>1, <2>2
<1>6. TakesHead(s)
  BY <1>2, <1>5 DEF TakesHead
<1>7. PICK A \in Places : Core(s, A, n, b, c)' /\ (Picked(feedEnv) => Steady(s))'
  BY <1>1, <1>6, CoreOfHead
<1>8. ~IsExporter'
  BY <1>2 DEF IsExporter
<1>9. StoreHolds(s, A, n, b, c, lo, k)'
  BY <1>7, <1>8 DEF StoreHolds
<1>10. QED
  BY <1>9, StoreWitness

\* A report: it is past the position, and past every report before it.
LEMMA InvOfSay ==
    ASSUME Types, Types', NEW t \in Stores, Says(t), NEW s \in Stores, StoreInv(s)
    PROVE  StoreInv(s)'
<1>1. PICK a \in Places, n \in Places, b \in Places, c \in Places, lo \in Places, k \in Places :
           StoreHolds(s, a, n, b, c, lo, k)
  BY DEF StoreInv
<1> DEFINE x == Handles(t)
           r == [id |-> t, offset |-> x,
                 taken |-> IF feedEnv.consumer = "holding" THEN readTo[t] ELSE None]
<1>2. /\ reports' = Append(reports, r) /\ handled' = [handled EXCEPT ![t] = MaxOf(@, r.offset)]
      /\ readTo[t] # None /\ ~IsExporter
      /\ UNCHANGED <<logEnd, flushed, head>> /\ UNCHANGED <<pipe, readTo>>
      /\ UNCHANGED <<saved, fpc, book, announced, batch, startedAt, feedEnv>>
  BY DEF Says, Say, LoopHolds, LogsStill
<1>3. x \in Places /\ x <= readTo[t]
      /\ \/ x = readTo[t] \/ x = MaxOf(readTo[t] - Hold, MaxOf(handled[t], book[t].offset))
  BY HandlesBounds
<1>4. r \in Report /\ r.id = t /\ r.offset = x /\ (r.taken = readTo[t] \/ r.taken = None)
  <2> HIDE DEF x
  <2>1. readTo[t] \in Places /\ None \in Places
    BY StoreTypes, PlaceFacts
  <2>2. QED
    BY <1>3, <2>1 DEF Report
<1> HIDE DEF r, x
<1>5. Marks(s) /\ Sendings(s, a, n) /\ Tracking(s, a, n) /\ Reading(s, n, b, c) /\ Reporting(s) /\ Positions(s, n)
  BY <1>1 DEF StoreHolds, Core
<1>6. handled[s] \in Int /\ 0 <= handled[s] /\ handled \in [Stores -> 0 .. MaxLog] /\ handled'[s] \in Int
      /\ readTo[s] \in Int /\ book[s].offset \in Int /\ logEnd[s] \in Int /\ a \in Int /\ n \in Int
      /\ None = -1 /\ -1 <= readTo[s] /\ x \in Int
  BY <1>3, StoreInts, LaterInts, PlaceFacts DEF Types, LinkTypes
<1>7. /\ handled[s] <= handled'[s]
      /\ s # t => handled'[s] = handled[s]
      /\ s = t => x <= handled'[s] /\ (handled'[s] = x \/ handled'[s] = handled[s])
  <2>1. CASE s # t
    BY <1>2, <1>6, <2>1
  <2>2. CASE s = t
    <3>1. handled'[s] = MaxOf(handled[s], x)
      BY <1>2, <1>4, <1>6, <2>2
    <3>2. QED
      BY <1>6, <2>2, <3>1, GreaterOf
  <2>3. QED
    BY <2>1, <2>2
<1>8. s = t => /\ n # None /\ readTo[s] = a /\ a <= n
               /\ 0 <= x /\ book[s].offset <= x /\ x <= readTo[s] /\ (x = readTo[s] \/ handled[s] <= x)
  <2>1. ASSUME s = t
        PROVE  /\ n # None /\ readTo[s] = a /\ a <= n
               /\ 0 <= x /\ book[s].offset <= x /\ x <= readTo[s] /\ (x = readTo[s] \/ handled[s] <= x)
    <3>1. readTo[s] = a /\ a <= n /\ n # None
      BY <1>2, <1>5, <2>1, RowBounds DEF Sendings
    <3>2. book[s].offset <= a /\ 0 <= readTo[s]
      BY <1>2, <1>5, <1>6, <2>1, <3>1 DEF Tracking
    <3>3. CASE x = readTo[t]
      BY <1>6, <2>1, <3>1, <3>2, <3>3
    <3>4. CASE x = MaxOf(readTo[t] - Hold, MaxOf(handled[t], book[t].offset))
      <4> DEFINE h == readTo[s] - Hold
                 m == MaxOf(handled[s], book[s].offset)
      <4>1. h \in Int
        BY <1>6, FeedAssumption
      <4>2. m \in Int /\ handled[s] <= m /\ book[s].offset <= m
        BY <1>6, GreaterOf
      <4> HIDE DEF h, m
      <4>3. m <= MaxOf(h, m)
        BY <4>1, <4>2, GreaterOf
      <4>4. x = MaxOf(h, m)
        BY <2>1, <3>4 DEF h, m
      <4>5. QED
        BY <1>3, <1>6, <2>1, <3>1, <4>2, <4>3, <4>4
    <3>5. QED
      BY <1>3, <3>3, <3>4
  <2>2. QED
    BY <2>1
<1>9. Marks(s)'
  <2>1. handled'[s] <= logEnd[s]
    <3>1. handled[s] <= logEnd[s] /\ n <= logEnd[s]
      BY <1>5 DEF Marks, Sendings
    <3>2. QED
      BY <1>6, <1>7, <1>8, <3>1
  <2>2. QED
    BY <1>2, <1>5, <2>1 DEF Marks, Mayhap
<1>10. Sendings(s, a, n)' /\ Tracking(s, a, n)' /\ Reading(s, n, b, c)'
  BY <1>2, <1>5 DEF Sendings, Tracking, Reading
<1>11. Reporting(s)'
  <2>1. /\ Len(reports) \in Nat
        /\ \A i \in ReportsOn(s, reports) : reports'[i] = reports[i] /\ i <= Len(reports) /\ i \in Int
        /\ reports'[Len(reports) + 1] = r
        /\ ReportsOn(s, reports') = IF t = s THEN ReportsOn(s, reports) \cup {Len(reports) + 1}
                                    ELSE ReportsOn(s, reports)
    <3>1. reports \in Seq(Report)
      BY SequenceTypes
    <3>2. reports' = Grown(reports, r) /\ r \in Report /\ r.id = t
      BY <1>2, <1>4 DEF Grown
    <3>3. QED
      BY <3>1, <3>2, ReportsAppend
  <2>2. \A i \in ReportsOn(s, reports) :
          /\ reports[i].offset \in Int /\ 0 <= reports[i].offset /\ book[s].offset <= reports[i].offset
          /\ reports[i].offset <= readTo[s] /\ reports[i].offset <= handled[s]
          /\ reports[i].taken <= readTo[s]
    <3>1. TAKE i \in ReportsOn(s, reports)
    <3>2. i \in 1 .. Len(reports)
      BY DEF ReportsOn
    <3>3. reports[i].offset \in Places
      BY <3>2, SequenceTypes, ReportFields
    <3>4. reports[i].offset \in Int
      BY <3>3, PlacesAreInts
    <3>5. QED
      BY <1>5, <3>4 DEF Reporting
  <2>3. \A i \in ReportsOn(s, reports) : reports[i].offset <= handled'[s]
    BY <1>6, <1>7, <2>2
  <2>4. CASE s # t
    BY <1>2, <1>5, <2>1, <2>3, <2>4 DEF Reporting
  <2>5. CASE s = t
    <3> DEFINE m == Len(reports) + 1
    <3>1. /\ reports'[m].offset = x /\ reports'[m].taken <= readTo[s]
          /\ ReportsOn(s, reports') = ReportsOn(s, reports) \cup {m}
      BY <1>4, <1>6, <2>1, <2>5
    <3>2. \A i \in ReportsOn(s, reports) : i < m /\ i \in Int /\ m \in Int /\ reports'[i] = reports[i]
      BY <2>1
    <3>3. \A i \in ReportsOn(s, reports) : reports[i].offset <= x
      BY <1>6, <1>8, <2>2, <2>5
    <3> HIDE DEF m
    <3>4. \A i \in ReportsOn(s, reports') :
            /\ 0 <= reports'[i].offset /\ book[s].offset <= reports'[i].offset
            /\ reports'[i].offset <= readTo[s] /\ reports'[i].offset <= handled'[s]
            /\ reports'[i].taken <= readTo[s]
      BY <1>7, <1>8, <2>2, <2>3, <2>5, <3>1, <3>2
    <3>5. \A i, j \in ReportsOn(s, reports') : i < j => reports'[i].offset <= reports'[j].offset
      <4>1. TAKE i \in ReportsOn(s, reports'), j \in ReportsOn(s, reports')
      <4>2. CASE j = m
        BY <1>6, <3>1, <3>2, <3>3, <4>2
      <4>3. CASE j # m /\ i = m
        BY <3>1, <3>2, <4>3
      <4>4. CASE j # m /\ i # m
        BY <1>5, <3>1, <3>2, <4>4 DEF Reporting
      <4>5. QED
        BY <4>2, <4>3, <4>4
    <3>6. QED
      BY <1>2, <3>4, <3>5 DEF Reporting
  <2>6. QED
    BY <2>4, <2>5
<1>12. Positions(s, n)'
  <2>1. startedAt[s] = None => handled'[s] = handled[s]
    BY <1>5, <1>7, <1>8 DEF Positions
  <2>2. QED
    BY <1>2, <1>5, <2>1 DEF Positions
<1>13. (Picked(feedEnv) => Steady(s))'
  <2>1. ASSUME Picked(feedEnv) PROVE Steady(s)'
    <3>1. Steady(s)
      BY <1>1, <2>1 DEF StoreHolds
    <3> DEFINE old == MaxOf(startedAt[s], handled[s])
               new == MaxOf(startedAt[s], handled'[s])
    <3>2. /\ old \in {startedAt[s], handled[s]} /\ old \in Int
          /\ new \in Int /\ startedAt[s] <= new /\ handled'[s] <= new
      BY <1>6, StoreInts, GreaterOf
    <3>3. saved[s].offset <= old /\ book[s].offset <= old
      BY <3>1 DEF Steady, Claimed
    <3> HIDE DEF old, new
    <3>4. old <= new
      BY <1>6, <1>7, <3>2
    <3>5. saved[s].offset <= new /\ book[s].offset <= new
      BY <3>2, <3>3, <3>4, StoreInts
    <3>6. QED
      BY <1>2, <3>1, <3>5 DEF Steady, Claimed, Mayhap, new
  <2>2. QED
    BY <1>2, <2>1
<1>14. ~IsExporter'
  BY <1>2 DEF IsExporter
<1>15. StoreHolds(s, a, n, b, c, lo, k)'
  BY <1>9, <1>10, <1>11, <1>12, <1>13, <1>14 DEF StoreHolds, Core
<1>16. QED
  BY <1>15, StoreWitness

\* The reader thread hands over the first record of the pipe.
LEMMA InvOfRead ==
    ASSUME Types, Types', IsExporter, Reads, NEW s \in Stores, StoreInv(s)
    PROVE  StoreInv(s)'
<1>1. PICK a \in Places, n \in Places, b \in Places, c \in Places, lo \in Places, k \in Places :
           StoreHolds(s, a, n, b, c, lo, k)
  BY DEF StoreInv
<1> DEFINE e == Head(pipe)
<1>2. /\ pipe \in Seq(Record) /\ pipe # <<>> /\ pipe' = Tail(pipe) /\ inbox \in Seq(Record)
      /\ inbox' = Append(inbox, e) /\ LoopHolds
      /\ UNCHANGED <<reports, handled, known, reporting, shipped>>
      /\ UNCHANGED <<saved, book, announced, batch, startedAt, feedEnv>>
      /\ readTo' = IF IsSource(e) THEN readTo ELSE [readTo EXCEPT ![e.id] = e.at + 1]
  BY SequenceTypes DEF Reads, ReadRecord, LoopHolds
<1>3. e \in Record
  BY <1>2, HeadTailProperties
<1>4. readTo'[s] = IF Of(e, s) THEN e.at + 1 ELSE readTo[s]
  <2>1. readTo \in [Stores -> Places]
    BY DEF Types, LinkTypes
  <2> HIDE DEF e
  <2>2. QED
    BY <1>2, <2>1 DEF Of
<1>5. TakesHead(s)
  BY <1>2, <1>4 DEF TakesHead
<1>6. PICK A \in Places :
        /\ Core(s, A, n, b, c)' /\ (Picked(feedEnv) => Steady(s))'
        /\ IF Of(e, s) THEN e.at = a /\ a # None /\ A = a + 1 /\ readTo'[s] = a + 1
           ELSE A = a /\ readTo'[s] = readTo[s]
  BY <1>1, <1>5, CoreOfHead
<1> HIDE DEF e
<1>7. Shipping(s, lo, k, a, n) /\ Labelling(s)
  BY <1>1 DEF StoreHolds
<1>8. Row(inbox', s, k, A)
  <2>1. Row(inbox, s, k, a) /\ a \in Int /\ k \in Int
    BY <1>7, PlacesAreInts DEF Shipping
  <2>2. QED
    BY <1>2, <1>3, <1>6, <2>1, RowAppend
<1>9. Shipping(s, lo, k, A, n)'
  <2>1. readTo'[s] = None => A = a /\ readTo[s] = None
    <3>1. a \in Int /\ -1 <= a /\ None = -1
      BY PlacesAreInts, PlaceFacts
    <3>2. QED
      BY <1>6, <3>1
  <2>2. QED
    BY <1>2, <1>7, <1>8, <2>1 DEF Shipping, Gathering
<1>10. Labelling(s)'
  <2>1. PICK l1 \in Labels, l2 \in Labels :
          /\ Labelled(inbox, s, known[s].labels, l1) /\ Labelled(pipe, s, l1, announced[s])
          /\ Labelled(batch, s, announced[s], l2)
    BY <1>7 DEF Labelling
  <2>2. announced[s] \in Labels /\ known[s].labels \in Labels
    BY StoreTypes
  <2>3. Carries(l1, e, s) \in Labels /\ Labelled(pipe', s, Carries(l1, e, s), announced[s])
        /\ (Of(e, s) => e.labels = l1)
    BY <1>2, <2>1, <2>2, LabelledTail DEF e
  <2>4. Labelled(inbox', s, known[s].labels, Carries(l1, e, s))
    BY <1>2, <1>3, <2>1, <2>2, <2>3, LabelledAppend
  <2>5. QED
    BY <1>2, <2>1, <2>3, <2>4 DEF Labelling
<1>11. (IsExporter /\ Picked(feedEnv) => Shipped(s, lo, k))'
  BY <1>1, <1>2 DEF StoreHolds, IsExporter, Shipped, HasTo
<1>12. StoreHolds(s, A, n, b, c, lo, k)'
  BY <1>6, <1>9, <1>10, <1>11 DEF StoreHolds
<1>13. QED
  BY <1>12, StoreWitness

\* What stays of a store when the consumer's end does nothing but gather.
LEMMA CoreStays ==
    ASSUME LoopHolds, UNCHANGED <<pipe, reports, handled>>, NEW s \in Stores, readTo'[s] = readTo[s],
           NEW a \in Places, NEW n \in Places, NEW b \in Places, NEW c \in Places,
           Core(s, a, n, b, c), Picked(feedEnv) => Steady(s)
    PROVE  Core(s, a, n, b, c)' /\ (Picked(feedEnv) => Steady(s))'
<1>1. /\ UNCHANGED <<pipe, reports, handled>> /\ UNCHANGED <<logEnd, flushed, head>>
      /\ UNCHANGED <<saved, fpc, book, announced, batch, startedAt, feedEnv>>
  BY DEF LoopHolds, LogsStill
<1>2. Marks(s)' /\ Sendings(s, a, n)' /\ Tracking(s, a, n)'
  BY <1>1 DEF Core, Marks, Sendings, Tracking, Mayhap
<1>3. Reading(s, n, b, c)' /\ Reporting(s)' /\ Positions(s, n)'
  BY <1>1 DEF Core, Reading, Reporting, Positions
<1>4. (Picked(feedEnv) => Steady(s))'
  BY <1>1 DEF Steady, Claimed, Mayhap
<1>5. QED
  BY <1>2, <1>3, <1>4 DEF Core

\* A source record, taken when nothing waits under other labels.
LEMMA InvOfTakeSource ==
    ASSUME Types, Types', IsExporter, TakesSource, NEW s \in Stores, StoreInv(s)
    PROVE  StoreInv(s)'
<1>1. PICK a \in Places, n \in Places, b \in Places, c \in Places, lo \in Places, k \in Places :
           StoreHolds(s, a, n, b, c, lo, k)
  BY DEF StoreInv
<1> DEFINE e == Head(inbox)
<1>2. /\ inbox \in Seq(Record) /\ inbox # <<>> /\ inbox' = Tail(inbox) /\ LoopHolds
      /\ IsSource(e) /\ known' = [known EXCEPT ![e.id].labels = e.labels]
      /\ ~(known[e.id].labels # e.labels /\ known[e.id].pending # <<>>)
      /\ UNCHANGED <<pipe, reports, readTo, handled, reporting, shipped>>
      /\ UNCHANGED <<saved, book, announced, batch, startedAt, feedEnv>>
  <2>1. MustFlushFirst(e) <=> known[e.id].labels # e.labels /\ known[e.id].pending # <<>>
    BY DEF MustFlushFirst
  <2>2. QED
    BY <2>1, SequenceTypes DEF TakesSource, TakeSource, Adopts, LoopHolds
<1>3. e \in Record
  BY <1>2, HeadTailProperties
<1> HIDE DEF e
<1>4. /\ known'[s].pending = known[s].pending /\ known'[s].end = known[s].end
      /\ known'[s].labels = Carries(known[s].labels, e, s)
      /\ known'[s].labels # known[s].labels => known[s].pending = <<>>
  <2>1. known \in [Stores -> [labels : Labels, pending : Seq(Record), end : Places]]
    BY DEF Types, ExporterTypes
  <2>2. CASE e.id = s
    <3>1. known'[s] = [known[s] EXCEPT !.labels = e.labels]
      BY <1>2, <2>1, <2>2
    <3>2. known[s] \in [labels : Labels, pending : Seq(Record), end : Places]
      BY <2>1
    <3>3. known'[s].labels = e.labels /\ known'[s].pending = known[s].pending /\ known'[s].end = known[s].end
      BY <3>1, <3>2
    <3>4. QED
      BY <1>2, <2>2, <3>3 DEF Carries
  <2>3. CASE e.id # s
    <3>1. known'[s] = known[s]
      BY <1>2, <2>1, <2>3
    <3>2. QED
      BY <2>3, <3>1 DEF Carries
  <2>4. QED
    BY <2>2, <2>3
<1>5. Shipping(s, lo, k, a, n) /\ Labelling(s)
  BY <1>1 DEF StoreHolds
<1>6. Row(inbox', s, k, a)
  <2>1. Row(inbox, s, k, a) /\ a \in Int /\ k \in Int
    BY <1>5, PlacesAreInts DEF Shipping
  <2>2. ~Of(e, s)
    BY <1>2 DEF Of
  <2>3. QED
    BY <1>2, <2>1, <2>2, RowTail DEF e
<1>7. Gathering(s, lo, k)'
  <2>1. Gathering(s, lo, k)
    BY <1>5 DEF Shipping
  <2>2. \A i \in 1 .. Len(known[s].pending) :
          Of(known[s].pending[i], s) /\ known[s].pending[i].labels = known'[s].labels
    <3>1. CASE known'[s].labels = known[s].labels
      BY <2>1, <3>1 DEF Gathering
    <3>2. CASE known'[s].labels # known[s].labels
      BY <1>4, <3>2, EmptySeq
    <3>3. QED
      BY <3>1, <3>2
  <2>3. QED
    BY <1>2, <1>4, <2>1, <2>2 DEF Gathering
<1>8. Shipping(s, lo, k, a, n)'
  BY <1>2, <1>4, <1>5, <1>6, <1>7 DEF Shipping
<1>9. Labelling(s)'
  <2>1. PICK l1 \in Labels, l2 \in Labels :
          /\ Labelled(inbox, s, known[s].labels, l1) /\ Labelled(pipe, s, l1, announced[s])
          /\ Labelled(batch, s, announced[s], l2)
    BY <1>5 DEF Labelling
  <2>2. known[s].labels \in Labels
    BY StoreTypes
  <2>3. Labelled(inbox', s, known'[s].labels, l1)
    BY <1>2, <1>4, <2>1, <2>2, LabelledTail DEF e
  <2>4. QED
    BY <1>2, <2>1, <2>3 DEF Labelling
<1>10. (IsExporter /\ Picked(feedEnv) => Shipped(s, lo, k))'
  BY <1>1, <1>2 DEF StoreHolds, IsExporter, Shipped, HasTo
<1>11. Core(s, a, n, b, c)' /\ (Picked(feedEnv) => Steady(s))'
  BY <1>1, <1>2, CoreStays DEF StoreHolds
<1>12. StoreHolds(s, a, n, b, c, lo, k)'
  BY <1>8, <1>9, <1>10, <1>11 DEF StoreHolds
<1>13. QED
  BY <1>12, StoreWitness

\* An entry is gathered behind those that wait already.
LEMMA EntryTaken ==
    ASSUME Types, Calm, TakesEntry, NEW s \in Stores
    PROVE  /\ inbox \in Seq(Record) /\ inbox # <<>> /\ inbox' = Tail(inbox) /\ LoopHolds
           /\ Head(inbox) \in Record /\ ~IsSource(Head(inbox)) /\ reporting = {} /\ reporting' = {}
           /\ UNCHANGED <<pipe, reports, readTo, handled, reporting, shipped>>
           /\ UNCHANGED <<saved, book, announced, batch, startedAt, feedEnv>>
           /\ known'[s].labels = known[s].labels
           /\ IF Of(Head(inbox), s)
              THEN known'[s].pending = Append(known[s].pending, Head(inbox)) /\ known'[s].end = Head(inbox).at + 1
              ELSE known'[s] = known[s]
<1> DEFINE e == Head(inbox)
           kn == [known[e.id] EXCEPT !.pending = Append(@, e), !.end = e.at + 1]
<1>1. inbox \in Seq(Record) /\ inbox # <<>>
  BY SequenceTypes DEF TakesEntry, TakeEntry
<1>2. e \in Record
  BY <1>1, HeadTailProperties
<1>3. /\ known' = [known EXCEPT ![e.id].pending = Append(@, e), ![e.id].end = e.at + 1]
      /\ inbox' = Tail(inbox) /\ ~IsSource(e) /\ reporting = {}
      /\ UNCHANGED <<pipe, reports, readTo, handled, reporting, shipped>>
  BY DEF TakesEntry, TakeEntry, Calm
<1>4. /\ LoopHolds /\ UNCHANGED <<saved, book, announced, batch, startedAt, feedEnv>>
  BY DEF TakesEntry, LoopHolds
<1> HIDE DEF e
<1>5. known \in [Stores -> [labels : Labels, pending : Seq(Record), end : Places]] /\ e.id \in Stores
  BY <1>2 DEF Types, ExporterTypes, Record
<1>6. known' = [known EXCEPT ![e.id] = kn]
  BY <1>3, <1>5
<1>7. kn.pending = Append(known[e.id].pending, e) /\ kn.end = e.at + 1 /\ kn.labels = known[e.id].labels
  <2>1. known[e.id] \in [labels : Labels, pending : Seq(Record), end : Places]
    BY <1>5
  <2>2. QED
    BY <2>1
<1> HIDE DEF kn
<1>8. known'[s] = IF e.id = s THEN kn ELSE known[s]
  BY <1>5, <1>6
<1>9. Of(e, s) <=> e.id = s
  BY <1>3 DEF Of
<1>10. QED
  BY <1>1, <1>2, <1>3, <1>4, <1>7, <1>8, <1>9 DEF e

LEMMA InvOfTakeEntry ==
    ASSUME Types, Types', Calm, IsExporter, TakesEntry, NEW s \in Stores, StoreInv(s)
    PROVE  StoreInv(s)'
<1>1. PICK a \in Places, n \in Places, b \in Places, c \in Places, lo \in Places, k \in Places :
           StoreHolds(s, a, n, b, c, lo, k)
  BY DEF StoreInv
<1> DEFINE e == Head(inbox)
<1>2. /\ inbox \in Seq(Record) /\ inbox # <<>> /\ inbox' = Tail(inbox) /\ LoopHolds
      /\ e \in Record /\ ~IsSource(e) /\ reporting = {} /\ reporting' = {}
      /\ UNCHANGED <<pipe, reports, readTo, handled, shipped>>
      /\ UNCHANGED <<saved, book, announced, batch, startedAt, feedEnv>>
      /\ known'[s].labels = known[s].labels
      /\ IF Of(e, s) THEN known'[s].pending = Append(known[s].pending, e) /\ known'[s].end = e.at + 1
                     ELSE known'[s] = known[s]
  BY EntryTaken
<1> HIDE DEF e
<1>3. Shipping(s, lo, k, a, n) /\ Labelling(s) /\ Gathering(s, lo, k)
  BY <1>1 DEF StoreHolds, Shipping
<1>4. /\ a \in Int /\ k \in Int /\ lo \in Int /\ -1 <= k /\ a <= MaxLog /\ None = -1 /\ MaxLog \in Int
      /\ book[s].offset \in Int /\ known[s].pending \in Seq(Record)
  BY PlacesAreInts, PlaceFacts, StoreInts, StoreTypes
<1>5. Row(inbox, s, k, a) /\ Row(known[s].pending, s, lo, k)
  BY <1>3 DEF Shipping, Gathering
<1>6. ~Of(e, s) => Row(inbox', s, k, a)
  BY <1>2, <1>4, <1>5, RowTail DEF e
<1>7. Of(e, s) => e.at = k /\ k < a /\ Row(inbox', s, k + 1, a)
  BY <1>2, <1>4, <1>5, RowTail DEF e
<1>8. PICK K \in Places : K = IF Of(e, s) THEN k + 1 ELSE k
  <2>1. (IF Of(e, s) THEN k + 1 ELSE k) \in Places
    BY <1>4, <1>7, PlaceFacts
  <2>2. QED
    BY <2>1
<1>9. Labelling(s)' /\ (Of(e, s) => e.labels = known[s].labels)
  <2>1. PICK l1 \in Labels, l2 \in Labels :
          /\ Labelled(inbox, s, known[s].labels, l1) /\ Labelled(pipe, s, l1, announced[s])
          /\ Labelled(batch, s, announced[s], l2)
    BY <1>3 DEF Labelling
  <2>2. known[s].labels \in Labels
    BY StoreTypes
  <2>3. /\ Labelled(inbox', s, Carries(known[s].labels, e, s), l1)
        /\ (Of(e, s) => e.labels = known[s].labels)
    BY <1>2, <2>1, <2>2, LabelledTail DEF e
  <2>4. Carries(known[s].labels, e, s) = known'[s].labels
    BY <1>2 DEF Carries
  <2>5. QED
    BY <1>2, <2>1, <2>3, <2>4 DEF Labelling
<1>10. Shipping(s, lo, K, a, n)'
  <2>1. CASE ~Of(e, s)
    <3>1. K = k /\ known'[s] = known[s] /\ Row(inbox', s, K, a)
      BY <1>2, <1>6, <1>8, <2>1
    <3>2. QED
      BY <1>2, <1>3, <3>1 DEF Shipping, Gathering
  <2>2. CASE Of(e, s)
    <3>1. /\ K = k + 1 /\ e.at = k /\ k < a /\ Row(inbox', s, K, a)
          /\ known'[s].pending = Append(known[s].pending, e) /\ known'[s].end = K
      BY <1>2, <1>7, <1>8, <2>2
    <3>2. Row(known'[s].pending, s, lo, K)
      BY <1>2, <1>4, <1>5, <2>2, <3>1, RowAppend
    <3>3. \A i \in 1 .. Len(known'[s].pending) :
            Of(known'[s].pending[i], s) /\ known'[s].pending[i].labels = known'[s].labels
      <4> DEFINE z == known'[s].pending
                 m == Len(known[s].pending)
      <4>1. Len(z) = m + 1 /\ m \in Nat /\ z[m + 1] = e /\ \A i \in 1 .. m : z[i] = known[s].pending[i]
        <5>1. known[s].pending \in Seq(Record) /\ e \in Record
          BY <1>2, <1>4
        <5> DEFINE q == known[s].pending
        <5>2. z = Append(q, e) /\ q \in Seq(Record) /\ m = Len(q)
          BY <3>1, <5>1
        <5> HIDE DEF z, m, q
        <5>3. Len(z) = m + 1 /\ m \in Nat /\ z[m + 1] = e /\ \A i \in 1 .. m : z[i] = q[i]
          BY <5>1, <5>2, AppendIsSeq
        <5>4. QED
          BY <5>3 DEF q
      <4>2. \A i \in 1 .. m :
              Of(known[s].pending[i], s) /\ known[s].pending[i].labels = known[s].labels
        BY <1>3 DEF Gathering
      <4> HIDE DEF z, m
      <4>3. ASSUME NEW i \in 1 .. Len(z) PROVE Of(z[i], s) /\ z[i].labels = known[s].labels
        <5>1. CASE i = m + 1
          BY <1>9, <2>2, <4>1, <5>1
        <5>2. CASE i # m + 1
          BY <4>1, <4>2, <5>2
        <5>3. QED
          BY <5>1, <5>2
      <4>4. QED
        BY <1>2, <4>3 DEF z
    <3>4. Gathering(s, lo, K)'
      BY <1>2, <3>2, <3>3 DEF Gathering
    <3>5. known'[s].end # None /\ readTo[s] # None
      <4>1. k # None
        BY <1>2, <2>2, <3>1 DEF IsSource
      <4>2. K # None
        BY <1>4, <3>1
      <4>3. readTo[s] = None => k = a
        BY <1>3 DEF Shipping
      <4>4. QED
        BY <1>4, <3>1, <4>2, <4>3
    <3>6. book[s].offset <= lo /\ \A i \in ReportsOn(s, reports) : reports[i].offset <= lo
      <4>1. CASE known[s].end # None
        BY <1>3, <4>1 DEF Shipping
      <4>2. CASE known[s].end = None
        <5>1. /\ known[s].pending = <<>> /\ ReportsOn(s, reports) = {}
              /\ (n # None => k = MaxOf(book[s].offset, 0))
          BY <1>3, <4>2 DEF Shipping
        <5>2. lo = k
          BY <1>4, <1>5, <5>1, RowOfNothing
        <5>3. n # None
          <6>1. (a = None) <=> (n = None)
            BY <1>1 DEF StoreHolds, Core, Sendings
          <6>2. QED
            BY <1>4, <3>1, <6>1
        <5>4. book[s].offset <= k
          BY <1>4, <5>1, <5>3 DEF MaxOf
        <5>5. QED
          BY <5>1, <5>2, <5>4
      <4>3. QED
        BY <4>1, <4>2
    <3>7. (lo = None) <=> (n = None)
      BY <1>3 DEF Shipping
    <3>8. QED
      BY <1>2, <3>1, <3>4, <3>5, <3>6, <3>7 DEF Shipping
  <2>3. QED
    BY <2>1, <2>2
<1>11. (IsExporter /\ Picked(feedEnv) => Shipped(s, lo, K))'
  BY <1>1, <1>2 DEF StoreHolds, IsExporter, Shipped, HasTo
<1>12. Core(s, a, n, b, c)' /\ (Picked(feedEnv) => Steady(s))'
  <2>1. readTo'[s] = readTo[s]
    BY <1>2
  <2>2. QED
    BY <1>1, <1>2, <2>1, CoreStays DEF StoreHolds
<1>13. StoreHolds(s, a, n, b, c, lo, K)'
  BY <1>9, <1>10, <1>11, <1>12 DEF StoreHolds
<1>14. QED
  BY <1>13, StoreWitness

\* What the receiver has of a store once it has settled what waited.
LEMMA SettledOf ==
    ASSUME Types, Settles, NEW s \in Stores
    PROVE  /\ shipped \subseteq shipped'
           /\ handled'[s] = IF known[s].pending # <<>> THEN MaxOf(handled[s], known[s].end) ELSE handled[s]
           /\ s \in reporting' => known[s].pending # <<>>
           /\ \A i \in 1 .. Len(known[s].pending) :
                \E x \in shipped' : x.id = s /\ x.at = known[s].pending[i].at
<1> DEFINE Goes(t) == {[id |-> t, at |-> known[t].pending[i].at, fed |-> known[t].pending[i].labels,
                        as |-> known[t].labels] : i \in 1 .. Len(known[t].pending)}
           After(t) == IF t \in Waiting THEN MaxOf(handled[t], known[t].end) ELSE handled[t]
<1>1. shipped' = shipped \cup UNION {Goes(t) : t \in Waiting} /\ handled' = [t \in Stores |-> After(t)]
      /\ reporting' \in {Waiting, {}}
  BY DEF Settles, Settled
<1>2. s \in Waiting <=> known[s].pending # <<>>
  BY DEF Waiting
<1>3. handled'[s] = After(s)
  <2> HIDE DEF After
  <2>1. QED
    BY <1>1
<1>4. ASSUME NEW i \in 1 .. Len(known[s].pending)
      PROVE  \E x \in shipped' : x.id = s /\ x.at = known[s].pending[i].at
  <2> DEFINE x == [id |-> s, at |-> known[s].pending[i].at, fed |-> known[s].pending[i].labels,
                   as |-> known[s].labels]
  <2>1. x \in Goes(s) /\ x.id = s /\ x.at = known[s].pending[i].at
    OBVIOUS
  <2>2. known[s].pending # <<>>
    BY EmptySeq
  <2> HIDE DEF x, Goes
  <2>3. x \in shipped'
    BY <1>1, <1>2, <2>1, <2>2
  <2>4. QED
    BY <2>1, <2>3
<1>5. QED
  BY <1>1, <1>2, <1>3, <1>4

LEMMA InvOfSettle ==
    ASSUME Types, Types', IsExporter, Settles, NEW s \in Stores, StoreInv(s)
    PROVE  StoreInv(s)'
<1>1. PICK a \in Places, n \in Places, b \in Places, c \in Places, lo \in Places, k \in Places :
           StoreHolds(s, a, n, b, c, lo, k)
  BY DEF StoreInv
<1>2. /\ UNCHANGED <<logEnd, flushed, head, saved, fpc, book, announced, batch, startedAt, feedEnv>>
      /\ UNCHANGED <<pipe, reports, readTo, inbox, known>> /\ reporting = {}
  BY DEF Settles, LoopHolds, LogsStill
<1>3. /\ shipped \subseteq shipped'
      /\ handled'[s] = IF known[s].pending # <<>> THEN MaxOf(handled[s], known[s].end) ELSE handled[s]
      /\ s \in reporting' => known[s].pending # <<>>
      /\ \A i \in 1 .. Len(known[s].pending) :
           \E x \in shipped' : x.id = s /\ x.at = known[s].pending[i].at
  BY SettledOf
<1>4. Marks(s) /\ Sendings(s, a, n) /\ Tracking(s, a, n) /\ Reading(s, n, b, c) /\ Reporting(s) /\ Positions(s, n)
  BY <1>1 DEF StoreHolds, Core
<1>5. Shipping(s, lo, k, a, n) /\ Labelling(s) /\ Gathering(s, lo, k)
  BY <1>1 DEF StoreHolds, Shipping
<1>6. /\ a \in Int /\ n \in Int /\ k \in Int /\ lo \in Int /\ -1 <= lo /\ None = -1
      /\ handled[s] \in Int /\ 0 <= handled[s] /\ logEnd[s] \in Int /\ startedAt[s] \in Int
      /\ known[s].pending \in Seq(Record)
  BY PlacesAreInts, PlaceFacts, StoreInts, StoreTypes
<1>7. known[s].pending # <<>> => /\ lo < k /\ known[s].end = k /\ k <= a /\ a <= n /\ n # None
                                 /\ startedAt[s] # None
  <2>1. ASSUME known[s].pending # <<>>
        PROVE  /\ lo < k /\ known[s].end = k /\ k <= a /\ a <= n /\ n # None /\ startedAt[s] # None
    <3>1. lo < k
      BY <1>5, <1>6, <2>1, RowSome DEF Gathering
    <3>2. known[s].end = k
      BY <1>5, <2>1 DEF Shipping
    <3>3. k <= a /\ a <= n
      BY <1>4, <1>5, RowBounds DEF Shipping, Sendings
    <3>4. n # None
      BY <1>6, <3>1, <3>3
    <3>5. QED
      BY <1>4, <3>1, <3>2, <3>3, <3>4 DEF Positions
  <2>2. QED
    BY <2>1
<1>8. /\ handled'[s] \in Int /\ handled[s] <= handled'[s]
      /\ known[s].pending = <<>> => handled'[s] = handled[s]
      /\ known[s].pending # <<>> => k <= handled'[s] /\ handled'[s] \in {handled[s], k}
  <2>1. CASE known[s].pending = <<>>
    BY <1>3, <1>6, <2>1
  <2>2. CASE known[s].pending # <<>>
    <3>1. handled'[s] = MaxOf(handled[s], k)
      BY <1>3, <1>7, <2>2
    <3>2. QED
      BY <1>6, <2>2, <3>1, GreaterOf
  <2>3. QED
    BY <2>1, <2>2
<1>9. Marks(s)'
  <2>1. handled'[s] <= logEnd[s]
    <3>1. handled[s] <= logEnd[s] /\ n <= logEnd[s]
      BY <1>4 DEF Marks, Sendings
    <3>2. QED
      BY <1>6, <1>7, <1>8, <3>1
  <2>2. QED
    BY <1>2, <1>4, <2>1 DEF Marks, Mayhap
<1>10. Sendings(s, a, n)' /\ Tracking(s, a, n)' /\ Reading(s, n, b, c)'
  BY <1>2, <1>4 DEF Sendings, Tracking, Reading
<1>11. Reporting(s)'
  <2>1. \A i \in ReportsOn(s, reports) : reports[i].offset <= handled'[s]
    <3>1. TAKE i \in ReportsOn(s, reports)
    <3>2. i \in 1 .. Len(reports)
      BY DEF ReportsOn
    <3>3. reports[i].offset \in Places
      BY <3>2, SequenceTypes, ReportFields
    <3>4. reports[i].offset \in Int /\ reports[i].offset <= handled[s]
      BY <1>4, <3>3, PlacesAreInts DEF Reporting
    <3>5. QED
      BY <1>6, <1>8, <3>4
  <2>2. QED
    BY <1>2, <1>4, <2>1 DEF Reporting
<1>12. Positions(s, n)'
  <2>1. startedAt[s] = None => handled'[s] = handled[s]
    BY <1>7, <1>8
  <2>2. QED
    BY <1>2, <1>4, <2>1 DEF Positions
<1>13. (Picked(feedEnv) => Steady(s))'
  <2>1. ASSUME Picked(feedEnv) PROVE Steady(s)'
    <3>1. Steady(s)
      BY <1>1, <2>1 DEF StoreHolds
    <3> DEFINE old == MaxOf(startedAt[s], handled[s])
               new == MaxOf(startedAt[s], handled'[s])
    <3>2. /\ old \in {startedAt[s], handled[s]} /\ old \in Int
          /\ new \in Int /\ startedAt[s] <= new /\ handled'[s] <= new
      BY <1>6, <1>8, GreaterOf
    <3>3. saved[s].offset <= old /\ book[s].offset <= old
      BY <3>1 DEF Steady, Claimed
    <3> HIDE DEF old, new
    <3>4. old <= new
      BY <1>6, <1>8, <3>2
    <3>5. saved[s].offset <= new /\ book[s].offset <= new
      BY <3>2, <3>3, <3>4, StoreInts
    <3>6. QED
      BY <1>2, <3>1, <3>5 DEF Steady, Claimed, Mayhap, new
  <2>2. QED
    BY <1>2, <2>1
<1>14. (IsExporter => Shipping(s, lo, k, a, n) /\ Labelling(s))'
  <2>1. Gathering(s, lo, k)'
    BY <1>2, <1>3, <1>5, <1>7, <1>8 DEF Gathering
  <2>2. Shipping(s, lo, k, a, n)'
    BY <1>2, <1>5, <2>1 DEF Shipping
  <2>3. QED
    BY <1>2, <1>5, <2>2 DEF Labelling
<1>15. (IsExporter /\ Picked(feedEnv) => Shipped(s, lo, k))'
  <2>1. ASSUME Picked(feedEnv) PROVE Shipped(s, lo, k)'
    <3>1. /\ HasAll(shipped, s, startedAt[s], saved[s].offset) /\ HasAll(shipped, s, startedAt[s], book[s].offset)
          /\ HasAll(shipped, s, startedAt[s], handled[s]) /\ HasAll(shipped, s, startedAt[s], lo)
      BY <1>1, <2>1 DEF StoreHolds, Shipped, HasTo
    <3>2. saved[s].offset \in Int /\ book[s].offset \in Int
      BY StoreInts
    <3>3. /\ HasAll(shipped', s, startedAt[s], saved[s].offset) /\ HasAll(shipped', s, startedAt[s], book[s].offset)
          /\ HasAll(shipped', s, startedAt[s], handled[s]) /\ HasAll(shipped', s, startedAt[s], lo)
      BY <1>3, <1>6, <3>1, <3>2, HasMore
    <3>4. known[s].pending # <<>> => HasAll(shipped', s, startedAt[s], k)
      <4>1. ASSUME known[s].pending # <<>>, startedAt[s] # None, NEW p \in startedAt[s] .. k - 1
            PROVE  \E x \in shipped' : x.id = s /\ x.at = p
        <5>1. CASE p < lo
          <6>1. p \in startedAt[s] .. lo - 1
            BY <1>6, <5>1
          <6>2. QED
            BY <3>3, <4>1, <6>1 DEF HasAll
        <5>2. CASE lo <= p
          <6>1. p \in lo .. k - 1
            BY <1>6, <5>2
          <6>2. PICK i \in 1 .. Len(known[s].pending) : known[s].pending[i].at = p
            BY <1>5, <6>1 DEF Gathering, Row
          <6>3. QED
            BY <1>3, <6>2
        <5>3. QED
          BY <1>6, <5>1, <5>2
      <4>2. QED
        BY <4>1 DEF HasAll
    <3>5. HasAll(shipped', s, startedAt[s], handled'[s])
      BY <1>8, <3>3, <3>4
    <3>6. QED
      BY <1>2, <1>3, <3>3, <3>4, <3>5 DEF Shipped, HasTo
  <2>2. QED
    BY <1>2, <2>1
<1>16. StoreHolds(s, a, n, b, c, lo, k)'
  BY <1>9, <1>10, <1>11, <1>12, <1>13, <1>14, <1>15 DEF StoreHolds, Core
<1>17. QED
  BY <1>16, StoreWitness

\* The position of one store of the request is reported.
LEMMA ReportedOf ==
    ASSUME Types, Reported
    PROVE  \E t \in Stores : \E r \in Report :
             /\ t \in reporting /\ reports' = Grown(reports, r)
             /\ r.id = t /\ r.offset = known[t].end /\ r.taken = None
             /\ reporting' = reporting \ {t}
             /\ UNCHANGED <<logEnd, flushed, head, saved, fpc, book, announced, batch, startedAt, feedEnv>>
             /\ UNCHANGED <<pipe, readTo, handled, inbox, shipped>>
             /\ \A s \in Stores : IF s = t
                  THEN known'[s].pending = <<>> /\ known'[s].end = known[s].end /\ known'[s].labels = known[s].labels
                  ELSE known'[s] = known[s]
<1> DEFINE t == NextToReport
           r == Watermark(t)
<1>1. t \in Stores /\ t \in reporting
  BY NextReported DEF Reported, Progress
<1>2. /\ reports' = Grown(reports, r) /\ known' = [known EXCEPT ![t].pending = <<>>]
      /\ reporting' = reporting \ {t} /\ UNCHANGED <<pipe, readTo, handled, inbox, shipped>>
      /\ UNCHANGED <<logEnd, flushed, head, saved, fpc, book, announced, batch, startedAt, feedEnv>>
  BY DEF Reported, Progress, Grown, LoopHolds, LogsStill
<1> HIDE DEF t
<1>3. r \in Report /\ r.id = t /\ r.offset = known[t].end /\ r.taken = None
  BY <1>1, StoreTypes, PlaceFacts DEF Watermark, Report
<1>4. ASSUME NEW s \in Stores
      PROVE  IF s = t THEN known'[s].pending = <<>> /\ known'[s].end = known[s].end /\ known'[s].labels = known[s].labels
             ELSE known'[s] = known[s]
  <2>1. known \in [Stores -> [labels : Labels, pending : Seq(Record), end : Places]]
    BY DEF Types, ExporterTypes
  <2>2. known'[s] = IF s = t THEN [known[s] EXCEPT !.pending = <<>>] ELSE known[s]
    BY <1>1, <1>2, <2>1
  <2>3. known[s] \in [labels : Labels, pending : Seq(Record), end : Places]
    BY <2>1
  <2>4. QED
    BY <2>2, <2>3
<1> HIDE DEF r
<1>5. QED
  BY <1>1, <1>2, <1>3, <1>4

LEMMA InvOfReport ==
    ASSUME Types, Types', IsExporter, Reported, NEW s \in Stores, StoreInv(s)
    PROVE  StoreInv(s)'
<1>1. PICK a \in Places, n \in Places, b \in Places, c \in Places, lo \in Places, k \in Places :
           StoreHolds(s, a, n, b, c, lo, k)
  BY DEF StoreInv
<1>2. PICK t \in Stores, r \in Report :
             /\ t \in reporting /\ reports' = Grown(reports, r)
             /\ r.id = t /\ r.offset = known[t].end /\ r.taken = None
             /\ reporting' = reporting \ {t}
             /\ UNCHANGED <<logEnd, flushed, head, saved, fpc, book, announced, batch, startedAt, feedEnv>>
             /\ UNCHANGED <<pipe, readTo, handled, inbox, shipped>>
             /\ \A x \in Stores : IF x = t
                  THEN known'[x].pending = <<>> /\ known'[x].end = known[x].end /\ known'[x].labels = known[x].labels
                  ELSE known'[x] = known[x]
  BY ReportedOf
<1>3. Marks(s) /\ Sendings(s, a, n) /\ Tracking(s, a, n) /\ Reading(s, n, b, c) /\ Reporting(s) /\ Positions(s, n)
  BY <1>1 DEF StoreHolds, Core
<1>4. Shipping(s, lo, k, a, n) /\ Labelling(s) /\ Gathering(s, lo, k)
  BY <1>1 DEF StoreHolds, Shipping
<1>5. Marks(s)' /\ Sendings(s, a, n)' /\ Tracking(s, a, n)' /\ Reading(s, n, b, c)' /\ Positions(s, n)'
  BY <1>2, <1>3 DEF Marks, Sendings, Tracking, Reading, Positions, Mayhap
<1>6. (Picked(feedEnv) => Steady(s))'
  BY <1>1, <1>2 DEF StoreHolds, Steady, Claimed, Mayhap
<1>7. /\ Len(reports) \in Nat
      /\ \A i \in ReportsOn(s, reports) : reports'[i] = reports[i] /\ i <= Len(reports) /\ i \in Int
      /\ reports'[Len(reports) + 1] = r
      /\ ReportsOn(s, reports') = IF t = s THEN ReportsOn(s, reports) \cup {Len(reports) + 1}
                                  ELSE ReportsOn(s, reports)
  <2>1. reports \in Seq(Report) /\ reports' = Grown(reports, r) /\ r.id = t
    BY <1>2, SequenceTypes
  <2>2. QED
    BY <2>1, ReportsAppend
<1>8. CASE s # t
  <2>1. Reporting(s)'
    BY <1>2, <1>3, <1>7, <1>8 DEF Reporting
  <2>2. Shipping(s, lo, k, a, n)'
    BY <1>2, <1>4, <1>7, <1>8 DEF Shipping, Gathering
  <2>3. Labelling(s)'
    BY <1>2, <1>4, <1>8 DEF Labelling
  <2>4. (IsExporter /\ Picked(feedEnv) => Shipped(s, lo, k))'
    BY <1>1, <1>2, <1>8 DEF StoreHolds, IsExporter, Shipped, HasTo
  <2>5. StoreHolds(s, a, n, b, c, lo, k)'
    BY <1>5, <1>6, <2>1, <2>2, <2>3, <2>4 DEF StoreHolds, Core
  <2>6. QED
    BY <2>5, StoreWitness
<1>9. CASE s = t
  <2>1. /\ a \in Int /\ n \in Int /\ k \in Int /\ lo \in Int /\ -1 <= lo /\ None = -1
        /\ handled[s] \in Int /\ book[s].offset \in Int /\ readTo[s] \in Int
        /\ known[s].pending \in Seq(Record)
    BY PlacesAreInts, PlaceFacts, StoreInts, StoreTypes
  <2>2. known[s].pending # <<>> /\ known[s].end <= handled[s]
    BY <1>2, <1>4, <1>9 DEF Gathering
  <2>3. /\ lo < k /\ known[s].end = k /\ book[s].offset <= lo
        /\ known[s].end # None /\ readTo[s] # None
        /\ \A i \in ReportsOn(s, reports) : reports[i].offset <= lo
    <3>1. lo < k
      BY <1>4, <2>1, <2>2, RowSome DEF Gathering
    <3>2. known[s].end # None
      BY <1>4, <2>2 DEF Shipping
    <3>3. QED
      BY <1>4, <3>1, <3>2 DEF Shipping
  <2>4. k <= a /\ readTo[s] = a /\ n # None
    <3>1. k <= a /\ a <= n
      BY <1>3, <1>4, RowBounds DEF Shipping, Sendings
    <3>2. readTo[s] = a
      BY <1>3, <2>3 DEF Sendings
    <3>3. QED
      BY <2>1, <2>3, <3>1, <3>2
  <2>5. /\ r.offset = k /\ r.taken = None /\ 0 <= k /\ book[s].offset <= k /\ k <= readTo[s]
        /\ k <= handled[s] /\ None <= readTo[s]
    BY <1>2, <1>9, <2>1, <2>2, <2>3, <2>4
  <2> DEFINE m == Len(reports) + 1
  <2>6. ReportsOn(s, reports') = ReportsOn(s, reports) \cup {m} /\ reports'[m] = r
    BY <1>7, <1>9
  <2>7. \A i \in ReportsOn(s, reports) : /\ i < m /\ i \in Int /\ m \in Int /\ reports'[i] = reports[i]
                                         /\ reports[i].offset \in Int /\ reports[i].offset <= k
    <3>1. TAKE i \in ReportsOn(s, reports)
    <3>2. i \in 1 .. Len(reports)
      BY DEF ReportsOn
    <3>3. reports[i].offset \in Places
      BY <3>2, SequenceTypes, ReportFields
    <3>4. reports[i].offset \in Int
      BY <3>3, PlacesAreInts
    <3>5. reports[i].offset <= lo
      BY <2>3
    <3>6. QED
      BY <1>7, <2>1, <2>3, <3>4, <3>5
  <2> HIDE DEF m
  <2>8. Reporting(s)'
    <3>1. \A i \in ReportsOn(s, reports') :
            /\ 0 <= reports'[i].offset /\ book[s].offset <= reports'[i].offset
            /\ reports'[i].offset <= readTo[s] /\ reports'[i].offset <= handled[s]
            /\ reports'[i].taken <= readTo[s]
      BY <1>3, <2>5, <2>6, <2>7 DEF Reporting
    <3>2. \A i, j \in ReportsOn(s, reports') : i < j => reports'[i].offset <= reports'[j].offset
      <4>1. TAKE i \in ReportsOn(s, reports'), j \in ReportsOn(s, reports')
      <4>2. CASE j = m
        BY <2>1, <2>5, <2>6, <2>7, <4>2
      <4>3. CASE j # m /\ i = m
        BY <2>6, <2>7, <4>3
      <4>4. CASE j # m /\ i # m
        BY <1>3, <2>6, <2>7, <4>4 DEF Reporting
      <4>5. QED
        BY <4>2, <4>3, <4>4
    <3>3. QED
      BY <1>2, <3>1, <3>2 DEF Reporting
  <2>9. known'[s].pending = <<>> /\ known'[s].end = k /\ known'[s].labels = known[s].labels /\ s \notin reporting'
    BY <1>2, <1>9, <2>3
  <2>10. Shipping(s, k, k, a, n)'
    <3>1. Gathering(s, k, k)'
      BY <2>1, <2>9, RowEmpty, EmptySeq DEF Gathering
    <3>2. \A i \in ReportsOn(s, reports') : reports'[i].offset <= k
      BY <2>1, <2>5, <2>6, <2>7
    <3>3. (k = None) <=> (n = None)
      BY <2>1, <2>4, <2>5
    <3>4. k # None
      BY <2>1, <2>5
    <3>5. QED
      BY <1>2, <1>4, <2>3, <2>5, <2>9, <3>1, <3>2, <3>3, <3>4 DEF Shipping
  <2>11. Labelling(s)'
    BY <1>2, <1>4, <2>9 DEF Labelling
  <2>12. (IsExporter /\ Picked(feedEnv) => Shipped(s, k, k))'
    BY <1>1, <1>2, <1>9, <2>9 DEF StoreHolds, IsExporter, Shipped, HasTo
  <2>13. StoreHolds(s, a, n, b, c, k, k)'
    BY <1>5, <1>6, <2>8, <2>10, <2>11, <2>12 DEF StoreHolds, Core
  <2>14. QED
    BY <2>13, StoreWitness
<1>10. QED
  BY <1>8, <1>9

\* After a death nothing is under way, and the record of positions is as it was.
LEMMA DiedAs ==
    ASSUME Types, ExporterDies, NEW s \in Stores
    PROVE  /\ UNCHANGED <<logEnd, flushed, head, saved, feedEnv, handled, startedAt, shipped>>
           /\ Mayhap("die") /\ fpc' = "start" /\ batch' = <<>> /\ pipe' = <<>> /\ reports' = <<>> /\ inbox' = <<>>
           /\ book'[s] = Fresh /\ book'[s].pending = {} /\ book'[s].offset = None /\ book'[s].taken = None
           /\ book'[s].floor = None
           /\ announced'[s] = None /\ readTo'[s] = None /\ reporting' = {}
           /\ known'[s].pending = <<>> /\ known'[s].end = None /\ known'[s].labels = None
<1>1. /\ UNCHANGED <<logEnd, flushed, head, saved, feedEnv, handled, startedAt, shipped>>
      /\ Mayhap("die") /\ fpc' = "start" /\ batch' = <<>> /\ pipe' = <<>> /\ reports' = <<>> /\ inbox' = <<>>
      /\ reporting' = {}
  BY DEF ExporterDies, DieAndRestart, logVars
<1>2. book'[s] = Fresh /\ announced'[s] = None /\ readTo'[s] = None /\ known'[s] = Unheard
  BY DEF ExporterDies, DieAndRestart, Asleep
<1>3. QED
  BY <1>1, <1>2 DEF Fresh, Unheard

LEMMA InvOfDeath ==
    ASSUME Types, ExporterDies, NEW s \in Stores, StoreInv(s)
    PROVE  StoreInv(s)'
<1>1. PICK a \in Places, n \in Places, b \in Places, c \in Places, lo \in Places, k \in Places :
           StoreHolds(s, a, n, b, c, lo, k)
  BY DEF StoreInv
<1>2. /\ UNCHANGED <<logEnd, flushed, head, saved, feedEnv, handled, startedAt, shipped>>
      /\ Mayhap("die") /\ fpc' = "start" /\ batch' = <<>> /\ pipe' = <<>> /\ reports' = <<>> /\ inbox' = <<>>
      /\ book'[s] = Fresh /\ book'[s].pending = {} /\ book'[s].offset = None /\ book'[s].taken = None
      /\ book'[s].floor = None
      /\ announced'[s] = None /\ readTo'[s] = None /\ reporting' = {}
      /\ known'[s].pending = <<>> /\ known'[s].end = None /\ known'[s].labels = None
  BY DiedAs
<1>3. /\ None \in Int /\ None = -1 /\ None \in Places /\ None \in Labels /\ 0 \in Places
      /\ logEnd[s] \in Int /\ 0 <= logEnd[s] /\ startedAt[s] \in Int /\ -1 <= startedAt[s]
      /\ handled[s] \in Int /\ 0 <= handled[s]
  BY StoreInts, PlaceFacts
<1>4. Marks(s) /\ Positions(s, n)
  BY <1>1 DEF StoreHolds, Core
<1>5. Row(<<>>, s, None, None) /\ Row(<<>>, s, 0, 0)
  BY <1>3, RowEmpty
<1>6. ReportsOn(s, reports') = {}
  BY <1>2, ReportsOfNothing
<1>7. Marks(s)' /\ Sendings(s, None, None)'
  BY <1>2, <1>3, <1>4, <1>5 DEF Marks, Sendings, Mayhap
<1>8. Tracking(s, None, None)'
  <2>1. TrackedTo(book'[s], None)
    BY <1>2, FS_EmptySet DEF TrackedTo
  <2>2. QED
    BY <1>2, <1>3, <2>1 DEF Tracking
<1>9. Reading(s, None, 0, 0)' /\ Reporting(s)'
  BY <1>2, <1>5, <1>6 DEF Reading, Reporting
<1>10. Positions(s, None)'
  BY <1>2, <1>4 DEF Positions, FloorOK
<1>11. (Picked(feedEnv) => Steady(s))'
  <2>1. ASSUME Picked(feedEnv) PROVE Steady(s)'
    <3>1. Steady(s)
      BY <1>1, <2>1 DEF StoreHolds
    <3>2. None <= MaxOf(startedAt[s], handled[s])
      BY <1>3 DEF MaxOf
    <3>3. QED
      BY <1>2, <3>1, <3>2 DEF Steady, Claimed, Mayhap
  <2>2. QED
    BY <1>2, <2>1
<1>12. Shipping(s, None, None, None, None)'
  <2>1. Gathering(s, None, None)'
    BY <1>2, <1>5, EmptySeq DEF Gathering
  <2>2. QED
    BY <1>2, <1>5, <1>6, <2>1 DEF Shipping
<1>13. Labelling(s)'
  <2>1. Labelled(<<>>, s, None, None)
    BY <1>3, LabelledEmpty
  <2>2. QED
    BY <1>2, <1>3, <2>1 DEF Labelling
<1>14. (IsExporter /\ Picked(feedEnv) => Shipped(s, None, None))'
  <2>1. ASSUME IsExporter, Picked(feedEnv) PROVE Shipped(s, None, None)'
    <3>1. HasTo(s, saved[s].offset) /\ HasTo(s, handled[s])
      BY <1>1, <2>1 DEF StoreHolds, Shipped
    <3>2. HasAll(shipped, s, startedAt[s], None)
      BY <1>3, HasNothing
    <3>3. QED
      BY <1>2, <3>1, <3>2 DEF Shipped, HasTo
  <2>2. QED
    BY <1>2, <2>1 DEF IsExporter
<1>15. StoreHolds(s, None, None, 0, 0, None, None)'
  BY <1>7, <1>8, <1>9, <1>10, <1>11, <1>12, <1>13, <1>14 DEF StoreHolds, Core
<1>16. QED
  BY <1>3, <1>15, StoreWitness

\* At the start.
LEMMA FirstValues ==
    ASSUME ExporterInit, NEW s \in Stores
    PROVE  /\ feedEnv \in FeedEnvironments
           /\ logEnd[s] \in Nat /\ logEnd[s] <= MaxLog
           /\ flushed[s] = (logEnd[s] \div ChunkLen) * ChunkLen /\ head[s] = 0
           /\ saved[s] = Unknown /\ fpc = "start" /\ batch = <<>> /\ pipe = <<>> /\ reports = <<>> /\ inbox = <<>>
           /\ book[s] = Fresh /\ announced[s] = None /\ readTo[s] = None /\ startedAt[s] = None
           /\ reporting = {} /\ shipped = {} /\ known[s] = Unheard
           /\ handled[s] = IF feedEnv.claims /\ logEnd[s] > 0 THEN 1 ELSE 0
<1>1. MaxLog \in Nat \ {0}
  BY PlaceFacts
<1>2. logEnd[s] \in IF "append" \in feedEnv.happens THEN {1} ELSE 0 .. MaxLog
  BY DEF ExporterInit, FeedInit
<1>3. flushed[s] = (logEnd[s] \div ChunkLen) * ChunkLen /\ handled[s] = IF feedEnv.claims /\ logEnd[s] > 0 THEN 1 ELSE 0
  BY DEF ExporterInit, FeedInit
<1>4. QED
  BY <1>1, <1>2, <1>3 DEF ExporterInit, FeedInit, Asleep

LEMMA TypesOfInit ==
    ASSUME ExporterInit
    PROVE  Types
<1>1. MaxLog \in Nat \ {0} /\ None \in Places
  BY PlaceFacts
<1>2. LogTypes
  <2>1. logEnd \in [Stores -> IF "append" \in feedEnv.happens THEN {1} ELSE 0 .. MaxLog]
    BY DEF ExporterInit, FeedInit
  <2>2. logEnd \in [Stores -> 0 .. MaxLog]
    BY <1>1, <2>1
  <2>3. \A s \in Stores : (logEnd[s] \div ChunkLen) * ChunkLen \in 0 .. MaxLog
    <3>1. TAKE s \in Stores
    <3> DEFINE l == logEnd[s]
               d == l \div ChunkLen
    <3>2. l \in Nat /\ l <= MaxLog
      BY <1>1, <2>2
    <3>3. d \in Nat /\ d * ChunkLen <= l
      BY <3>2, DivBound
    <3>4. ChunkLen \in Nat
      BY PlaceFacts
    <3> HIDE DEF d, l
    <3>5. d * ChunkLen \in Nat /\ d * ChunkLen <= MaxLog
      BY <1>1, <3>2, <3>3, <3>4
    <3>6. QED
      BY <1>1, <3>5 DEF d, l
  <2>4. flushed \in [Stores -> 0 .. MaxLog]
    <3> DEFINE F(s) == (logEnd[s] \div ChunkLen) * ChunkLen
    <3>1. flushed = [s \in Stores |-> F(s)] /\ \A s \in Stores : F(s) \in 0 .. MaxLog
      BY <2>3 DEF ExporterInit, FeedInit
    <3> HIDE DEF F
    <3>2. QED
      BY <3>1
  <2>5. head \in [Stores -> 0 .. MaxLog] /\ labels \in [Stores -> 1 .. 2]
    BY <1>1 DEF ExporterInit, FeedInit
  <2>6. QED
    BY <2>2, <2>4, <2>5 DEF LogTypes
<1>3. LoopTypes
  BY <1>1, FreshTypes, PlaceFacts, EmptySeq DEF LoopTypes, ExporterInit, FeedInit, Asleep, Unknown
<1>4. LinkTypes
  BY <1>1, PlaceFacts, EmptySeq DEF LinkTypes, ExporterInit, FeedInit, Asleep, SaidNothing
<1>5. ExporterTypes
  BY <1>1, PlaceFacts, EmptySeq DEF ExporterTypes, ExporterInit, Unheard
<1>6. feedEnv \in FeedEnvironments
  BY DEF ExporterInit, FeedInit
<1>7. QED
  BY <1>2, <1>3, <1>4, <1>5, <1>6 DEF Types

LEMMA CalmAtFirst ==
    ASSUME ExporterInit
    PROVE  Calm
<1>1. batch = <<>> /\ pipe = <<>> /\ reporting = {} /\ shipped = {}
  BY DEF ExporterInit, FeedInit
<1>2. Len(<<>>) = 0 /\ 0 <= PipeRoom
  BY PlaceFacts, EmptySeq
<1>3. QED
  BY <1>1, <1>2 DEF Calm

LEMMA InvAtFirst ==
    ASSUME ExporterInit, NEW s \in Stores
    PROVE  StoreInv(s)
<1>1. /\ logEnd[s] \in Nat /\ logEnd[s] <= MaxLog
      /\ flushed[s] = (logEnd[s] \div ChunkLen) * ChunkLen /\ head[s] = 0
      /\ fpc = "start" /\ batch = <<>> /\ pipe = <<>> /\ reports = <<>> /\ inbox = <<>>
      /\ announced[s] = None /\ readTo[s] = None /\ startedAt[s] = None
      /\ reporting = {} /\ shipped = {} /\ book[s] = Fresh
      /\ handled[s] = IF feedEnv.claims /\ logEnd[s] > 0 THEN 1 ELSE 0
  BY FirstValues
<1>2. /\ book[s].pending = {} /\ book[s].offset = None /\ book[s].taken = None
      /\ book[s].floor = None /\ saved[s].offset = None /\ saved[s].floor = None
      /\ known[s].pending = <<>> /\ known[s].end = None /\ known[s].labels = None
  BY FirstValues DEF Fresh, Unknown, Unheard
<1>3. /\ None \in Int /\ None = -1 /\ None \in Places /\ None \in Labels /\ 0 \in Places
      /\ handled[s] \in Int /\ 0 <= handled[s] /\ handled[s] <= logEnd[s]
      /\ handled[s] > 0 => feedEnv.claims
  BY <1>1, PlaceFacts
<1>4. Row(<<>>, s, None, None) /\ Row(<<>>, s, 0, 0) /\ ReportsOn(s, reports) = {}
  BY <1>1, <1>3, RowEmpty, ReportsOfNothing
<1>5. Marks(s)
  <2> DEFINE l == logEnd[s]
             d == (l \div ChunkLen) * ChunkLen
  <2>1. d \in Int /\ 0 <= d /\ d <= l /\ l - d < ChunkLen
    <3>1. l \in Nat /\ ChunkLen \in Nat \ {0}
      BY <1>1, PlaceFacts
    <3> DEFINE q == l \div ChunkLen
    <3> HIDE DEF l
    <3>2. q \in Nat /\ q * ChunkLen <= l /\ l - q * ChunkLen < ChunkLen
      BY <3>1, DivBound
    <3> HIDE DEF q
    <3>3. q * ChunkLen \in Nat
      BY <3>1, <3>2
    <3>4. QED
      BY <3>2, <3>3 DEF q
  <2>2. flushed[s] = d /\ logEnd[s] = l
    BY <1>1
  <2> HIDE DEF l, d
  <2>3. QED
    BY <1>1, <1>3, <2>1, <2>2 DEF Marks
<1>6. Sendings(s, None, None)
  BY <1>1, <1>3, <1>4 DEF Sendings
<1>7. Tracking(s, None, None)
  <2>1. TrackedTo(book[s], None)
    BY <1>2, FS_EmptySet DEF TrackedTo
  <2>2. QED
    BY <1>1, <1>2, <1>3, <2>1 DEF Tracking
<1>8. Reading(s, None, 0, 0) /\ Reporting(s)
  BY <1>1, <1>4 DEF Reading, Reporting
<1>9. Positions(s, None)
  BY <1>1, <1>2, <1>3 DEF Positions, FloorOK, MaxOf
<1>10. Steady(s)
  <2>1. None <= MaxOf(startedAt[s], handled[s])
    BY <1>1, <1>3 DEF MaxOf
  <2>2. QED
    BY <1>1, <1>2, <2>1 DEF Steady, Claimed
<1>11. Shipping(s, None, None, None, None)
  <2>1. Gathering(s, None, None)
    BY <1>1, <1>2, <1>4, EmptySeq DEF Gathering
  <2>2. QED
    BY <1>1, <1>2, <1>4, <2>1 DEF Shipping
<1>12. Labelling(s)
  <2>1. Labelled(<<>>, s, None, None)
    BY <1>3, LabelledEmpty
  <2>2. QED
    BY <1>1, <1>2, <1>3, <2>1 DEF Labelling
<1>13. Shipped(s, None, None)
  BY <1>1 DEF Shipped, HasTo, HasAll
<1>14. StoreHolds(s, None, None, 0, 0, None, None)
  BY <1>5, <1>6, <1>7, <1>8, <1>9, <1>10, <1>11, <1>12, <1>13 DEF StoreHolds, Core
<1>15. QED
  BY <1>3, <1>14 DEF StoreInv

Plain(q) == \A i \in 1 .. Len(q) : ~IsSource(q[i])

LEMMA PlainParts ==
    ASSUME NEW p \in Seq(Record), NEW r \in Record, Plain(p)
    PROVE  /\ p # <<>> => Plain(Tail(p)) /\ ~IsSource(Head(p))
           /\ ~IsSource(r) => Plain(Append(p, r))
<1>1. ASSUME p # <<>> PROVE Plain(Tail(p)) /\ ~IsSource(Head(p))
  <2>1. /\ Len(p) \in Nat \ {0} /\ Len(Tail(p)) = Len(p) - 1 /\ Head(p) = p[1]
        /\ \A i \in 1 .. Len(p) - 1 : Tail(p)[i] = p[i + 1]
    BY <1>1, TailIsSeq, EmptySeq
  <2>2. QED
    BY <2>1 DEF Plain
<1>2. ASSUME ~IsSource(r) PROVE Plain(Append(p, r))
  <2> DEFINE z == Append(p, r)
  <2>1. /\ Len(p) \in Nat /\ Len(z) = Len(p) + 1 /\ z[Len(p) + 1] = r
        /\ \A i \in 1 .. Len(p) : z[i] = p[i]
    BY AppendIsSeq
  <2> HIDE DEF z
  <2>2. Plain(z)
    BY <1>2, <2>1 DEF Plain
  <2>3. QED
    BY <2>2 DEF z
<1>3. QED
  BY <1>1, <1>2

LEMMA CalmParts ==
    Calm <=> /\ fpc # "write" => batch = <<>>
             /\ reporting # {} => xpc = "report"
             /\ ~IsExporter => Plain(pipe) /\ Plain(batch)
             /\ Len(pipe) <= PipeRoom
             /\ \A e \in shipped : e.as = e.fed
BY DEF Calm, Plain

LEMMA CalmStays ==
    ASSUME Calm, UNCHANGED <<batch, pipe, feedEnv, shipped>>,
           fpc' # "write" => batch = <<>>, reporting' # {} => xpc' = "report"
    PROVE  Calm'
BY DEF Calm, IsExporter

\* A sequence loses its first record, or gains one.
LEMMA CalmOfPipes ==
    ASSUME Types, Types', Calm, UNCHANGED <<feedEnv, shipped, reporting, xpc>>,
           fpc' # "write" => batch' = <<>>,
           Len(pipe') <= PipeRoom, ~IsExporter => Plain(pipe') /\ Plain(batch')
    PROVE  Calm'
BY DEF Calm, IsExporter, Plain

LEMMA CalmOfPoll ==
    ASSUME Types, Types', Calm, Poll, LoopAlone
    PROVE  Calm'
<1>1. /\ fpc' = "write" /\ batch' = NewsInTurn \o Out /\ UNCHANGED <<pipe, feedEnv, shipped, reporting, xpc>>
  BY PollParts DEF NewsInTurn, LoopAlone, ExporterStill
<1>2. ASSUME ~IsExporter PROVE Plain(batch')
  <2>1. /\ NewsInTurn \in Seq(Record) /\ Out \in Seq(Record)
        /\ \A i \in 1 .. Len(NewsInTurn) : IsExporter
        /\ \A i \in 1 .. Len(Out) : Out[i].at # None
    BY ElementsOfPoll
  <2> DEFINE z == NewsInTurn \o Out
             k == Len(NewsInTurn)
  <2>2. /\ k \in Nat /\ Len(Out) \in Nat /\ Len(z) = k + Len(Out)
        /\ \A i \in 1 .. Len(Out) : z[k + i] = Out[i]
    BY <2>1, ConcatProperties, LenProperties
  <2>3. k = 0
    <3>1. k > 0 => 1 \in 1 .. k
      BY <2>2
    <3>2. QED
      BY <1>2, <2>1, <2>2, <3>1
  <2> HIDE DEF z, k
  <2>4. Plain(z)
    <3>1. ASSUME NEW i \in 1 .. Len(z) PROVE ~IsSource(z[i])
      <4>1. i \in 1 .. Len(Out) /\ k + i = i
        BY <2>2, <2>3
      <4>2. z[i] = Out[i]
        BY <2>2, <4>1
      <4>3. QED
        BY <2>1, <4>1, <4>2 DEF IsSource
    <3>2. QED
      BY <3>1 DEF Plain
  <2>5. QED
    BY <1>1, <2>4 DEF z
<1>3. Len(pipe') <= PipeRoom /\ (~IsExporter => Plain(pipe'))
  BY <1>1, CalmParts
<1>4. QED
  BY <1>1, <1>2, <1>3, CalmOfPipes

LEMMA CalmOfWrite ==
    ASSUME Types, Types', Calm, WriteEntry, LoopAlone
    PROVE  Calm'
<1>1. /\ fpc = "write" /\ fpc' = fpc /\ batch # <<>> /\ Len(pipe) < PipeRoom /\ batch' = Tail(batch)
      /\ pipe' = Append(pipe, Head(batch)) /\ UNCHANGED <<feedEnv, shipped, reporting, xpc>>
  BY DEF WriteEntry, LoopAlone, ExporterStill
<1>2. batch \in Seq(Record) /\ pipe \in Seq(Record) /\ Head(batch) \in Record
  BY <1>1, SequenceTypes, HeadTailProperties
<1>3. Len(pipe') <= PipeRoom
  <2>1. Len(pipe) \in Nat /\ Len(pipe') = Len(pipe) + 1 /\ PipeRoom \in Nat
    BY <1>1, <1>2, AppendIsSeq, PlaceFacts
  <2>2. QED
    BY <1>1, <2>1
<1>4. ~IsExporter => Plain(pipe') /\ Plain(batch')
  <2>1. ~IsExporter => Plain(pipe) /\ Plain(batch)
    BY CalmParts
  <2>2. QED
    BY <1>1, <1>2, <2>1, PlainParts
<1>5. QED
  BY <1>1, <1>3, <1>4, CalmOfPipes

\* The consumer's end takes a record.
LEMMA CalmOfTail ==
    ASSUME Types, Types', Calm, LoopHolds, pipe # <<>>, pipe' = Tail(pipe), UNCHANGED <<shipped, reporting, xpc>>
    PROVE  Calm'
<1>1. UNCHANGED <<fpc, batch, feedEnv>>
  BY DEF LoopHolds
<1>2. pipe \in Seq(Record) /\ Head(pipe) \in Record
  BY SequenceTypes, HeadTailProperties
<1>3. (~IsExporter => Plain(pipe) /\ Plain(batch)) /\ Len(pipe) <= PipeRoom /\ (fpc # "write" => batch = <<>>)
  BY CalmParts
<1>4. Len(pipe') <= PipeRoom
  <2>1. Len(pipe) \in Nat /\ Len(pipe') = Len(pipe) - 1 /\ PipeRoom \in Nat
    BY <1>2, TailIsSeq, EmptySeq, PlaceFacts
  <2>2. QED
    BY <1>3, <2>1
<1>5. ~IsExporter => Plain(pipe') /\ Plain(batch')
  BY <1>1, <1>2, <1>3, PlainParts
<1>6. QED
  BY <1>1, <1>3, <1>4, <1>5, CalmOfPipes

LEMMA CalmOfSettle ==
    ASSUME Types, Types', Calm, IsExporter, Settles, \A s \in Stores : StoreInv(s)
    PROVE  Calm'
<1>1. UNCHANGED <<fpc, batch, feedEnv, pipe>> /\ (reporting' # {} => xpc' = "report")
  BY DEF Settles, LoopHolds
<1>2. ASSUME NEW s \in Stores, NEW i \in 1 .. Len(known[s].pending)
      PROVE  known[s].pending[i].labels = known[s].labels
  <2>1. PICK a \in Places, n \in Places, b \in Places, c \in Places, lo \in Places, k \in Places :
           StoreHolds(s, a, n, b, c, lo, k)
    BY DEF StoreInv
  <2>2. Gathering(s, lo, k)
    BY <2>1 DEF StoreHolds, Shipping
  <2>3. QED
    BY <1>2, <2>2 DEF Gathering
<1>3. ASSUME NEW e \in shipped' PROVE e.as = e.fed
  <2> DEFINE Goes(t) == {[id |-> t, at |-> known[t].pending[i].at, fed |-> known[t].pending[i].labels,
                          as |-> known[t].labels] : i \in 1 .. Len(known[t].pending)}
  <2>1. shipped' = shipped \cup UNION {Goes(t) : t \in Waiting} /\ Waiting \subseteq Stores
    BY DEF Settles, Settled, Waiting
  <2>2. CASE e \in shipped
    BY <2>2 DEF Calm
  <2>3. CASE e \notin shipped
    <3>1. PICK t \in Stores : e \in Goes(t)
      <4> HIDE DEF Goes
      <4>1. QED
        BY <1>3, <2>1, <2>3
    <3>2. QED
      BY <1>2, <3>1
  <2>4. QED
    BY <2>2, <2>3
<1>4. QED
  BY <1>1, <1>3 DEF Calm, IsExporter

LEMMA KeptByLoop ==
    ASSUME FeedInv, LogsStill, ExporterStill, UNCHANGED <<readTo, said, feedEnv>>,
           Hello \/ Poll \/ WriteEntry \/ (Drains /\ (fpc = "write" => batch = <<>>))
    PROVE  FeedInv'
<1> USE DEF FeedInv
<1>1. Types /\ Calm /\ LoopAlone /\ (\A s \in Stores : StoreInv(s))
  BY DEF LoopAlone
<1>2. CASE Hello
  <2>1. Types'
    BY <1>2, TypesOfHello
  <2>2. Calm'
    <3>1. /\ fpc = "start" /\ fpc' = "poll" /\ UNCHANGED <<batch, pipe, feedEnv, shipped, reporting, xpc>>
      BY <1>2 DEF Hello, ExporterStill
    <3>2. QED
      BY <1>1, <3>1, CalmParts, CalmStays
  <2>3. QED
    BY <1>1, <1>2, <2>1, <2>2, InvOfHello
<1>3. CASE Poll
  <2>1. Types'
    BY <1>3, TypesOfPoll
  <2>2. QED
    BY <1>1, <1>3, <2>1, CalmOfPoll, InvOfPoll
<1>4. CASE WriteEntry
  <2>1. Types'
    BY <1>4, TypesOfWrite
  <2>2. \A s \in Stores : StoreInv(s)'
    BY <1>1, <1>4, <2>1, InvOfOthersWritten, InvOfOwnWritten
  <2>3. QED
    BY <1>1, <1>4, <2>1, <2>2, CalmOfWrite
<1>5. CASE Drains /\ (fpc = "write" => batch = <<>>)
  <2>1. Types'
    BY <1>5, TypesOfDrain
  <2>2. Calm'
    <3>1. UNCHANGED <<batch, pipe, feedEnv, shipped, reporting, xpc>>
      BY <1>5 DEF Drains, ExporterStill
    <3>2. batch = <<>> /\ (reporting # {} => xpc = "report")
      BY <1>1, <1>5, CalmParts
    <3>3. QED
      BY <1>1, <3>1, <3>2, CalmStays
  <2>3. \A s \in Stores : StoreInv(s)'
    BY <1>1, <1>5, <2>1, InvOfDrain
  <2>4. QED
    BY <2>1, <2>2, <2>3
<1>6. QED
  BY <1>2, <1>3, <1>4, <1>5

LEMMA KeptByConsumer ==
    ASSUME FeedInv, Consumes \/ (\E t \in Stores : Says(t))
    PROVE  FeedInv'
<1>1. Types /\ Calm /\ \A s \in Stores : StoreInv(s)
  BY DEF FeedInv
<1>2. CASE Consumes
  <2>1. Types'
    BY <1>1, <1>2, TypesOfConsume
  <2>2. Calm'
    <3>1. LoopHolds /\ pipe # <<>> /\ pipe' = Tail(pipe) /\ UNCHANGED <<shipped, reporting, xpc>>
      BY <1>2 DEF Consumes, ConsumeEntry, ExporterStill
    <3>2. QED
      BY <1>1, <2>1, <3>1, CalmOfTail
  <2>3. \A s \in Stores : StoreInv(s)'
    BY <1>1, <1>2, <2>1, InvOfConsume
  <2>4. QED
    BY <2>1, <2>2, <2>3 DEF FeedInv
<1>3. ASSUME NEW t \in Stores, Says(t) PROVE FeedInv'
  <2>1. Types'
    BY <1>1, <1>3, TypesOfSay
  <2>2. Calm'
    <3>1. UNCHANGED <<fpc, batch, pipe, feedEnv, shipped, reporting, xpc>>
      BY <1>3 DEF Says, Say, LoopHolds, ExporterStill
    <3>2. QED
      BY <1>1, <3>1, CalmParts, CalmStays
  <2>3. \A s \in Stores : StoreInv(s)'
    BY <1>1, <1>3, <2>1, InvOfSay
  <2>4. QED
    BY <2>1, <2>2, <2>3 DEF FeedInv
<1>4. QED
  BY <1>2, <1>3

LEMMA KeptByExporter ==
    ASSUME FeedInv, IsExporter, Reads \/ TakesSource \/ TakesEntry \/ Settles \/ Reported
    PROVE  FeedInv'
<1>1. Types /\ Calm /\ \A s \in Stores : StoreInv(s)
  BY DEF FeedInv
<1>2. CASE Reads
  <2>1. Types'
    BY <1>1, <1>2, TypesOfRead
  <2>2. Calm'
    <3>1. LoopHolds /\ pipe # <<>> /\ pipe' = Tail(pipe) /\ UNCHANGED <<shipped, reporting, xpc>>
      BY <1>2 DEF Reads, ReadRecord
    <3>2. QED
      BY <1>1, <2>1, <3>1, CalmOfTail
  <2>3. \A s \in Stores : StoreInv(s)'
    BY <1>1, <1>2, <2>1, InvOfRead
  <2>4. QED
    BY <2>1, <2>2, <2>3 DEF FeedInv
<1>3. CASE TakesSource
  <2>1. Types'
    BY <1>1, <1>3, TypesOfTakeSource
  <2>2. Calm'
    <3>1. UNCHANGED <<fpc, batch, pipe, feedEnv, shipped, reporting>> /\ xpc = "read"
      BY <1>3 DEF TakesSource, TakeSource, LoopHolds
    <3>2. reporting = {} /\ (fpc # "write" => batch = <<>>)
      BY <1>1, <3>1, CalmParts
    <3>3. QED
      BY <1>1, <3>1, <3>2, CalmStays
  <2>3. \A s \in Stores : StoreInv(s)'
    BY <1>1, <1>3, <2>1, InvOfTakeSource
  <2>4. QED
    BY <2>1, <2>2, <2>3 DEF FeedInv
<1>4. CASE TakesEntry
  <2>1. Types'
    BY <1>1, <1>4, TypesOfTakeEntry
  <2>2. Calm'
    <3>1. UNCHANGED <<fpc, batch, pipe, feedEnv, shipped, reporting>> /\ xpc = "read"
      BY <1>4 DEF TakesEntry, TakeEntry, LoopHolds
    <3>2. reporting = {} /\ (fpc # "write" => batch = <<>>)
      BY <1>1, <3>1, CalmParts
    <3>3. QED
      BY <1>1, <3>1, <3>2, CalmStays
  <2>3. \A s \in Stores : StoreInv(s)'
    BY <1>1, <1>4, <2>1, InvOfTakeEntry
  <2>4. QED
    BY <2>1, <2>2, <2>3 DEF FeedInv
<1>5. CASE Settles
  <2>1. Types'
    BY <1>1, <1>5, TypesOfSettle
  <2>2. Calm'
    BY <1>1, <1>5, <2>1, CalmOfSettle
  <2>3. \A s \in Stores : StoreInv(s)'
    BY <1>1, <1>5, <2>1, InvOfSettle
  <2>4. QED
    BY <2>1, <2>2, <2>3 DEF FeedInv
<1>6. CASE Reported
  <2>1. Types'
    BY <1>1, <1>6, TypesOfReport
  <2>2. Calm'
    <3>1. UNCHANGED <<fpc, batch, pipe, feedEnv, shipped>> /\ (reporting' # {} => xpc' = "report")
      BY <1>6 DEF Reported, Progress, LoopHolds
    <3>2. QED
      BY <1>1, <3>1, CalmParts, CalmStays
  <2>3. \A s \in Stores : StoreInv(s)'
    BY <1>1, <1>6, <2>1, InvOfReport
  <2>4. QED
    BY <2>1, <2>2, <2>3 DEF FeedInv
<1>7. QED
  BY <1>2, <1>3, <1>4, <1>5, <1>6

LEMMA KeptByQuiet ==
    ASSUME FeedInv, Quiet
    PROVE  FeedInv'
<1>1. Types /\ Calm /\ \A s \in Stores : StoreInv(s)
  BY DEF FeedInv
<1>2. Types'
  BY <1>1, TypesOfQuiet
<1>3. Calm'
  <2>1. UNCHANGED <<batch, pipe, feedEnv, shipped, reporting>> /\ (reporting # {} => xpc' = "report")
        /\ (fpc' # "write" => fpc # "write" \/ batch = <<>>)
    BY DEF Quiet
  <2>2. QED
    BY <1>1, <2>1, CalmParts, CalmStays
<1>4. \A s \in Stores : StoreInv(s)'
  BY <1>1, <1>2, InvOfQuiet
<1>5. QED
  BY <1>2, <1>3, <1>4 DEF FeedInv

LEMMA KeptByWriters ==
    ASSUME FeedInv, WriterMoves, UNCHANGED exporterVars,
           \E t \in Stores : AppendLog(t) \/ FlushLog(t) \/ Retain(t)
    PROVE  FeedInv'
<1>1. Types /\ Calm /\ \A s \in Stores : StoreInv(s)
  BY DEF FeedInv
<1>2. Types'
  BY <1>1, TypesOfWriters
<1>3. OnlyLogs /\ UNCHANGED xpc
  BY WriterStill DEF OnlyLogs, ExporterStill, ReaderStill
<1>4. Calm'
  <2>1. UNCHANGED <<fpc, batch, pipe, feedEnv, shipped, reporting, xpc>>
    BY <1>3 DEF OnlyLogs
  <2>2. QED
    BY <1>1, <2>1, CalmParts, CalmStays
<1>5. \A s \in Stores : StoreInv(s)'
  BY <1>1, <1>3, InvOfWriters
<1>6. QED
  BY <1>2, <1>4, <1>5 DEF FeedInv

LEMMA KeptByDeath ==
    ASSUME FeedInv, ExporterDies
    PROVE  FeedInv'
<1>1. Types /\ Calm /\ \A s \in Stores : StoreInv(s)
  BY DEF FeedInv
<1>2. Types'
  BY <1>1, TypesOfDeath
<1>3. Calm'
  <2>1. /\ UNCHANGED <<feedEnv, shipped>> /\ batch' = <<>> /\ pipe' = <<>> /\ reporting' = {}
    BY DEF ExporterDies, DieAndRestart
  <2>2. Len(<<>>) = 0 /\ 0 <= PipeRoom
    BY PlaceFacts, EmptySeq
  <2>3. QED
    BY <1>1, <2>1, <2>2 DEF Calm
<1>4. \A s \in Stores : StoreInv(s)'
  BY <1>1, InvOfDeath
<1>5. QED
  BY <1>2, <1>3, <1>4 DEF FeedInv

LEMMA FeedInvKept ==
    ASSUME FeedInv, [ExportNext]_exportVars
    PROVE  FeedInv'
<1>1. Calm
  BY DEF FeedInv
<1>2. CASE ExportNext
  BY <1>1, <1>2, Steps, KeptByLoop, KeptByConsumer, KeptByExporter, KeptByQuiet, KeptByWriters, KeptByDeath
<1>3. CASE UNCHANGED exportVars
  <2>1. /\ LogsStill
        /\ UNCHANGED <<saved, book, announced, batch, stoppedIn, startedAt, pipe, reports, readTo, said,
                       handled, feedEnv, inbox, known, reporting, shipped, fpc, xpc>>
    BY <1>3 DEF exportVars, allFeedVars, exporterVars, logVars, feedVars, consumerVars, feedHistory, LogsStill
  <2>2. Quiet
    BY <1>1, <2>1 DEF Quiet, Calm
  <2>3. QED
    BY <2>2, KeptByQuiet
<1>4. QED
  BY <1>2, <1>3

LEMMA FeedInvAtFirst ==
    ASSUME ExporterInit
    PROVE  FeedInv
BY TypesOfInit, CalmAtFirst, InvAtFirst DEF FeedInv

\* The inductive invariant.
THEOREM FeedInvHolds == ExportSpec => []FeedInv
<1>1. ExporterInit => FeedInv
  BY FeedInvAtFirst
<1>2. FeedInv /\ [ExportNext]_exportVars => FeedInv'
  BY FeedInvKept
<1>3. QED
  BY <1>1, <1>2, PTL DEF ExportSpec

------------------------------------------------------------------------------
\* What the invariant says of the properties the runs check.
LEMMA RowIsInOrder ==
    ASSUME NEW s, NEW q \in Seq(Record), NEW a \in Int, NEW n \in Int, Row(q, s, a, n),
           NEW i \in 1 .. Len(q), Of(q[i], s)
    PROVE  LET before == {j \in 1 .. i - 1 : Of(q[j], s)}
           IN  IF before = {} THEN q[i].at = a ELSE q[i].at = q[Max(before)].at + 1
<1> DEFINE before == {j \in 1 .. i - 1 : Of(q[j], s)}
<1>1. i \in Nat /\ Len(q) \in Nat /\ \A j \in 1 .. Len(q) : q[j].at \in Int
  BY LenProperties, RecordFields
<1>2. a <= q[i].at /\ q[i].at < n
  BY DEF Row
<1>3. \A j, l \in 1 .. Len(q) : j < l /\ Of(q[j], s) /\ Of(q[l], s) => q[j].at < q[l].at
  BY DEF Row
<1>4. \A p \in a .. n - 1 : \E j \in 1 .. Len(q) : Of(q[j], s) /\ q[j].at = p
  BY DEF Row
<1>5. \A j : j \in before <=> j \in 1 .. Len(q) /\ j < i /\ Of(q[j], s)
  BY <1>1
<1>6. before \in SUBSET (1 .. i - 1) /\ i - 1 \in Nat
  BY <1>1
<1> HIDE DEF before
<1>7. CASE before = {}
  <2>1. ASSUME q[i].at # a PROVE FALSE
    <3>1. a \in a .. n - 1
      BY <1>1, <1>2
    <3>2. PICK j \in 1 .. Len(q) : Of(q[j], s) /\ q[j].at = a
      BY <1>4, <3>1
    <3>3. ~(i < j)
      BY <1>1, <1>2, <1>3, <3>2
    <3>4. i # j
      BY <2>1, <3>2
    <3>5. j \in before
      BY <1>1, <1>5, <3>2, <3>3, <3>4
    <3>6. QED
      BY <1>7, <3>5
  <2>2. QED
    BY <1>7, <2>1 DEF before
<1>8. CASE before # {}
  <2> DEFINE m == Max(before)
  <2>1. m \in before /\ \A j \in before : j <= m
    BY <1>6, <1>8, GreatestOf
  <2> HIDE DEF m
  <2>2. m \in 1 .. Len(q) /\ m < i /\ Of(q[m], s)
    BY <1>5, <2>1
  <2>3. q[m].at < q[i].at /\ a <= q[m].at /\ q[m].at \in Int /\ q[i].at \in Int
    BY <1>1, <1>3, <2>2 DEF Row
  <2>4. ASSUME q[i].at # q[m].at + 1 PROVE FALSE
    <3> DEFINE p == q[m].at + 1
    <3>1. p \in a .. n - 1 /\ p \in Int /\ q[m].at < p /\ p < q[i].at
      BY <1>2, <2>3, <2>4
    <3> HIDE DEF p
    <3>2. PICK j \in 1 .. Len(q) : Of(q[j], s) /\ q[j].at = p
      BY <1>4, <3>1
    <3>3. ~(j < m) /\ ~(i < j)
      BY <1>3, <2>2, <2>3, <3>1, <3>2
    <3>4. j # m /\ i # j
      BY <2>3, <3>1, <3>2
    <3>5. m \in Int /\ j \in Int /\ m < j /\ j < i
      BY <1>1, <2>2, <3>3, <3>4
    <3>6. j \in before
      BY <1>5, <3>2, <3>5
    <3>7. QED
      BY <2>1, <3>5, <3>6
  <2>5. QED
    BY <1>8, <2>4 DEF m, before
<1>9. QED
  BY <1>7, <1>8

LEMMA InOrderOfInv ==
    ASSUME FeedInv
    PROVE  FeedInOrder
<1>1. ASSUME NEW s \in Stores, NEW i \in 1 .. Len(pipe), Of(pipe[i], s)
      PROVE  IF Before(s, i) = {} THEN readTo[s] \in {None, pipe[i].at}
             ELSE pipe[i].at = pipe[Max(Before(s, i))].at + 1
  <2>1. PICK a \in Places, n \in Places, b \in Places, c \in Places, lo \in Places, k \in Places :
           StoreHolds(s, a, n, b, c, lo, k)
    BY DEF FeedInv, StoreInv
  <2>2. Row(pipe, s, a, n) /\ readTo[s] \in {a, None}
    BY <2>1 DEF StoreHolds, Core, Sendings
  <2>3. a \in Int /\ n \in Int /\ pipe \in Seq(Record)
    BY PlacesAreInts, SequenceTypes DEF FeedInv
  <2>4. IF Before(s, i) = {} THEN pipe[i].at = a ELSE pipe[i].at = pipe[Max(Before(s, i))].at + 1
    BY <1>1, <2>2, <2>3, RowIsInOrder DEF Before
  <2>5. QED
    BY <2>2, <2>4
<1>2. QED
  BY <1>1 DEF FeedInOrder

LEMMA TypedByInv ==
    ASSUME FeedInv
    PROVE  FeedTypeOK
<1>1. Types /\ Calm
  BY DEF FeedInv
<1>2. ASSUME NEW s \in Stores
      PROVE  /\ head[s] <= flushed[s] /\ flushed[s] <= logEnd[s] /\ logEnd[s] <= MaxLog
             /\ handled[s] <= logEnd[s] /\ book[s].offset \in -1 .. MaxLog
             /\ book[s].floor \in -1 .. MaxLog /\ readTo[s] \in -1 .. MaxLog
             /\ Tracks(book[s])
  <2>1. PICK a \in Places, n \in Places, b \in Places, c \in Places, lo \in Places, k \in Places :
           StoreHolds(s, a, n, b, c, lo, k)
    BY DEF FeedInv, StoreInv
  <2>2. Marks(s) /\ TrackedTo(book[s], n)
    BY <2>1 DEF StoreHolds, Core, Tracking
  <2>3. /\ book[s].offset \in Places /\ book[s].floor \in Places /\ readTo[s] \in Places
        /\ book[s].pending \in SUBSET Pending
    BY <1>1, StoreTypes
  <2>4. Places = -1 .. MaxLog
    BY PlaceFacts DEF Places
  <2>5. Tracks(book[s])
    <3>1. ASSUME NEW p \in book[s].pending PROVE p.end > book[s].offset
      <4>1. book[s].offset < p.end
        BY <2>2 DEF TrackedTo
      <4>2. p.end \in Int /\ book[s].offset \in Int
        BY <2>3, PendingInts, PlacesAreInts
      <4>3. QED
        BY <4>1, <4>2
    <3>2. QED
      BY <3>1 DEF Tracks
  <2>6. QED
    BY <1>1, <2>2, <2>3, <2>4, <2>5, StoreInts DEF Marks
<1>3. stoppedIn \in Stores \cup {NoStore} /\ Len(pipe) <= PipeRoom
  BY <1>1 DEF Types, LoopTypes, Calm
<1>4. QED
  BY <1>2, <1>3 DEF FeedTypeOK

\* Retention takes nothing that is past the recorded position.
RetentionBehind == \A s \in Stores : head[s] > 0 => head[s] <= saved[s].offset

LEMMA BehindByInv ==
    ASSUME FeedInv
    PROVE  RetentionBehind
<1>1. ASSUME NEW s \in Stores, head[s] > 0 PROVE head[s] <= saved[s].offset
  <2>1. head[s] <= MaxOf(saved[s].offset, 0)
    BY DEF FeedInv, StoreInv, StoreHolds, Core, Positions
  <2>2. saved[s].offset \in Int /\ head[s] \in Int
    BY StoreInts DEF FeedInv
  <2>3. QED
    BY <1>1, <2>1, <2>2 DEF MaxOf
<1>2. QED
  BY <1>1 DEF RetentionBehind

\* Every environment is one in which what is picked up after a death is what was before.
PickedUpAlike == \A e \in FeedEnvironments : Picked(e)

LEMMA HonestByInv ==
    ASSUME FeedInv, PickedUpAlike
    PROVE  PositionsHonest /\ ReportedIsShipped
<1>1. Picked(feedEnv) /\ Types
  BY DEF FeedInv, Types, PickedUpAlike
<1>2. ASSUME NEW s \in Stores
      PROVE  /\ saved[s].offset > startedAt[s] => saved[s].offset <= handled[s]
             /\ IsExporter => HasTo(s, saved[s].offset)
  <2>1. PICK a \in Places, n \in Places, b \in Places, c \in Places, lo \in Places, k \in Places :
           StoreHolds(s, a, n, b, c, lo, k)
    BY DEF FeedInv, StoreInv
  <2>2. saved[s].offset <= MaxOf(startedAt[s], handled[s])
    BY <1>1, <2>1 DEF StoreHolds, Steady, Claimed
  <2>3. IsExporter => HasTo(s, saved[s].offset)
    BY <1>1, <2>1 DEF StoreHolds, Shipped
  <2>4. saved[s].offset \in Int /\ startedAt[s] \in Int /\ handled[s] \in Int
    BY <1>1, StoreInts
  <2>5. QED
    BY <2>2, <2>3, <2>4 DEF MaxOf
<1>3. RetentionBehind
  BY BehindByInv
<1>4. PositionsHonest
  BY <1>2, <1>3 DEF PositionsHonest, RetentionBehind
<1>5. ReportedIsShipped
  BY <1>2 DEF ReportedIsShipped, HasTo, HasAll
<1>6. QED
  BY <1>4, <1>5

------------------------------------------------------------------------------
\* Within one life of the consumer the entries of a store are in the pipe in order, each
\* once, and the first is the one after those it has read: whatever the loop leaves out,
\* parks, or stops in.
THEOREM EntriesComeInOrder == ExportSpec => []FeedInOrder
<1>1. FeedInv => FeedInOrder
  BY InOrderOfInv
<1>2. QED
  BY <1>1, FeedInvHolds, PTL

\* The state is of its types, what is tracked is past the position, and the pipe holds no
\* more than it has room for.
THEOREM FeedStaysTyped == ExportSpec => []FeedTypeOK
<1>1. FeedInv => FeedTypeOK
  BY TypedByInv
<1>2. QED
  BY <1>1, FeedInvHolds, PTL

\* Retention by interest takes only what is behind the recorded position, whoever dies.
THEOREM RetentionStaysBehind == ExportSpec => []RetentionBehind
<1>1. FeedInv => RetentionBehind
  BY BehindByInv
<1>2. QED
  BY <1>1, FeedInvHolds, PTL

\* What the receiver has came under the labels it was read under, whatever was relabelled
\* and sent again in between.
THEOREM LabelsAreOfTheirTime == ExportSpec => []AttributedRight
<1>1. FeedInv => AttributedRight
  BY DEF FeedInv, Calm, AttributedRight
<1>2. QED
  BY <1>1, FeedInvHolds, PTL

\* The positions file never passes an entry the destination does not have, and retention
\* goes by it, where a death never moves the place a store is picked up at.
THEOREM PositionsAreHonest ==
    ASSUME PickedUpAlike
    PROVE  ExportSpec => []PositionsHonest
<1>1. FeedInv => PositionsHonest
  BY HonestByInv
<1>2. QED
  BY <1>1, FeedInvHolds, PTL

\* Of a store an exporter ships, the receiver has taken or refused for good every entry
\* between where it was picked up and the recorded position, under the same hypothesis.
THEOREM WhatIsReportedIsShipped ==
    ASSUME PickedUpAlike
    PROVE  ExportSpec => []ReportedIsShipped
<1>1. FeedInv => ReportedIsShipped
  BY HonestByInv
<1>2. QED
  BY <1>1, FeedInvHolds, PTL

==============================================================================
