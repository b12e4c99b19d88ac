--------------------------- MODULE SequenceFacts ---------------------------
(***************************************************************************)
(* Facts the proofs of several modules rest on: of sequences, of the       *)
(* natural numbers (a set of them has a least one; induction), and of      *)
(* folds.                                                                  *)
(***************************************************************************)
EXTENDS SequencesExt, FiniteSetsExt, SequenceTheorems, WellFoundedInduction, TLAPS

------------------------------------------------------------------------------
\* The first n elements of a sequence, and a sequence with one element more.
LEMMA PrefixIsSeq ==
    ASSUME NEW S, NEW s \in Seq(S), NEW n \in 0 .. Len(s)
    PROVE  /\ SubSeq(s, 1, n) \in Seq(S)
           /\ Len(SubSeq(s, 1, n)) = n
           /\ \A i \in 1 .. n : SubSeq(s, 1, n)[i] = s[i]
           /\ SubSeq(s, 1, Len(s)) = s
           /\ n = 0 => SubSeq(s, 1, n) = <<>>
<1>1. n \in Nat /\ Len(s) \in Nat /\ \A i \in 1 .. Len(s) : s[i] \in S
  BY ElementOfSeq, LenProperties
<1>2. \A i \in 1 .. n : s[i] \in S
  BY <1>1
<1>3. QED
  BY <1>1, <1>2, SubSeqProperties, SubSeqFull, SubSeqEmpty

LEMMA AppendIsSeq ==
    ASSUME NEW S, NEW s \in Seq(S), NEW e \in S
    PROVE  /\ Append(s, e) \in Seq(S)
           /\ Len(s) \in Nat
           /\ Len(Append(s, e)) = Len(s) + 1
           /\ Append(s, e) # <<>>
           /\ \A i \in 1 .. Len(s) : Append(s, e)[i] = s[i]
           /\ Append(s, e)[Len(s) + 1] = e
           /\ SubSeq(Append(s, e), 1, Len(s)) = s
<1>1. /\ Append(s, e) \in Seq(S)
      /\ Len(s) \in Nat
      /\ Len(Append(s, e)) = Len(s) + 1
      /\ Append(s, e) # <<>>
      /\ \A i \in 1 .. Len(s) : Append(s, e)[i] = s[i]
      /\ Append(s, e)[Len(s) + 1] = e
  BY AppendProperties, LenProperties
<1>2. Len(s) \in 0 .. Len(Append(s, e))
  BY <1>1
<1>3. /\ SubSeq(Append(s, e), 1, Len(s)) \in Seq(S)
      /\ Len(SubSeq(Append(s, e), 1, Len(s))) = Len(s)
      /\ \A i \in 1 .. Len(s) : SubSeq(Append(s, e), 1, Len(s))[i] = s[i]
  BY <1>1, <1>2, PrefixIsSeq
<1>4. SubSeq(Append(s, e), 1, Len(s)) = s
  BY <1>3, SeqEqual
<1>5. QED
  BY <1>1, <1>4

LEMMA FunctionIsSeq ==
    ASSUME NEW S, NEW n \in Nat, NEW f \in [1 .. n -> S]
    PROVE  f \in Seq(S) /\ Len(f) = n
<1>1. f \in Seq(S)
  BY SeqDef
<1>2. DOMAIN f = 1 .. n /\ DOMAIN f = 1 .. Len(f) /\ Len(f) \in Nat
  BY <1>1, LenProperties
<1>3. QED
  BY <1>1, <1>2

LEMMA PrefixOfPrefix ==
    ASSUME NEW S, NEW s \in Seq(S), NEW m \in 0 .. Len(s), NEW n \in 0 .. m
    PROVE  SubSeq(SubSeq(s, 1, m), 1, n) = SubSeq(s, 1, n)
<1>1. n \in 0 .. Len(s) /\ m \in Nat /\ n \in Nat
  BY LenProperties
<1>2. SubSeq(s, 1, m) \in Seq(S) /\ Len(SubSeq(s, 1, m)) = m
      /\ \A i \in 1 .. m : SubSeq(s, 1, m)[i] = s[i]
  BY PrefixIsSeq
<1>3. SubSeq(s, 1, n) \in Seq(S) /\ Len(SubSeq(s, 1, n)) = n
      /\ \A i \in 1 .. n : SubSeq(s, 1, n)[i] = s[i]
  BY <1>1, PrefixIsSeq
<1> DEFINE t == SubSeq(s, 1, m)
<1>4. SubSeq(t, 1, n) \in Seq(S) /\ Len(SubSeq(t, 1, n)) = n
      /\ \A i \in 1 .. n : SubSeq(t, 1, n)[i] = t[i]
  <2>1. t \in Seq(S) /\ n \in 0 .. Len(t)
    BY <1>2
  <2> HIDE DEF t
  <2>2. QED
    BY <2>1, PrefixIsSeq
<1>5. \A i \in 1 .. n : SubSeq(t, 1, n)[i] = SubSeq(s, 1, n)[i]
  BY <1>1, <1>2, <1>3, <1>4
<1>6. QED
  BY <1>3, <1>4, <1>5, SeqEqual

LEMMA PrefixGrows ==
    ASSUME NEW S, NEW s \in Seq(S), NEW n \in Nat, n + 1 \in 1 .. Len(s)
    PROVE  Append(SubSeq(s, 1, n), s[n + 1]) = SubSeq(s, 1, n + 1)
<1>1. n \in 0 .. Len(s) /\ n + 1 \in 0 .. Len(s) /\ s[n + 1] \in S
  BY LenProperties, ElementOfSeq
<1> DEFINE t == SubSeq(s, 1, n)
           u == SubSeq(s, 1, n + 1)
<1>2. /\ t \in Seq(S) /\ Len(t) = n /\ \A i \in 1 .. n : t[i] = s[i]
      /\ u \in Seq(S) /\ Len(u) = n + 1 /\ \A i \in 1 .. n + 1 : u[i] = s[i]
  BY <1>1, PrefixIsSeq
<1> HIDE DEF t, u
<1>3. /\ Append(t, s[n + 1]) \in Seq(S) /\ Len(Append(t, s[n + 1])) = n + 1
      /\ \A i \in 1 .. n : Append(t, s[n + 1])[i] = t[i]
      /\ Append(t, s[n + 1])[n + 1] = s[n + 1]
  BY <1>1, <1>2, AppendIsSeq
<1>4. \A i \in 1 .. n + 1 : Append(t, s[n + 1])[i] = u[i]
  BY <1>2, <1>3
<1>5. Append(t, s[n + 1]) = u
  BY <1>2, <1>3, <1>4, SeqEqual
<1>6. QED
  BY <1>5 DEF t, u


\* What is taken off the front of a queue, and what stays in it.
LEMMA TailIsSeq ==
    ASSUME NEW S, NEW s \in Seq(S), s # <<>>
    PROVE  /\ Head(s) \in S
           /\ Head(s) = s[1]
           /\ Tail(s) \in Seq(S)
           /\ Len(s) \in Nat
           /\ Len(s) > 0
           /\ Len(Tail(s)) = Len(s) - 1
           /\ \A i \in 1 .. Len(s) - 1 : Tail(s)[i] = s[i + 1]
<1>1. Len(s) \in Nat /\ Len(s) > 0
  BY EmptySeq, LenProperties
<1>2. QED
  BY <1>1, HeadTailProperties

\* What is appended to a queue does not change its front.
LEMMA AppendKeepsHead ==
    ASSUME NEW S, NEW s \in Seq(S), NEW e \in S
    PROVE  /\ Append(s, e) \in Seq(S)
           /\ Append(s, e) # <<>>
           /\ s # <<>> => Head(Append(s, e)) = Head(s)
BY AppendProperties, HeadTailAppend

\* The elements of a sequence from place m on.
LEMMA SuffixIsSeq ==
    ASSUME NEW S, NEW s \in Seq(S), NEW m \in Nat \ {0}
    PROVE  /\ SubSeq(s, m, Len(s)) \in Seq(S)
           /\ Len(SubSeq(s, m, Len(s))) = IF m <= Len(s) THEN Len(s) - m + 1 ELSE 0
           /\ \A i \in 1 .. Len(s) - m + 1 : SubSeq(s, m, Len(s))[i] = s[m + i - 1]
<1>1. /\ m \in Int /\ Len(s) \in Int
      /\ \A i \in m .. Len(s) : s[i] \in S
  BY LenProperties, ElementOfSeq
<1>2. QED
  BY <1>1, SubSeqProperties

\* The elements of a sequence, and the empty one.
LEMMA SeqElements ==
    ASSUME NEW S, NEW s \in Seq(S)
    PROVE  /\ Len(s) \in Nat
           /\ DOMAIN s = 1 .. Len(s)
           /\ \A i \in 1 .. Len(s) : s[i] \in S
           /\ (s = <<>>) <=> (Len(s) = 0)
BY EmptySeq, LenProperties, ElementOfSeq

\* What is in a sequence that has grown.
LEMMA AppendRange ==
    ASSUME NEW S, NEW s \in Seq(S), NEW e \in S
    PROVE  Range(Append(s, e)) = Range(s) \cup {e}
<1>1. /\ Len(s) \in Nat /\ DOMAIN s = 1 .. Len(s)
      /\ Append(s, e) \in Seq(S) /\ Len(Append(s, e)) = Len(s) + 1
      /\ \A i \in 1 .. Len(s) : Append(s, e)[i] = s[i]
  BY AppendIsSeq, SeqElements
<1>2. Append(s, e)[Len(s) + 1] = e
  BY AppendProperties
<1>3. DOMAIN Append(s, e) = 1 .. Len(s) + 1
  BY <1>1, SeqElements
<1>4. 1 .. Len(s) + 1 = (1 .. Len(s)) \cup {Len(s) + 1}
  BY <1>1
<1> QED BY <1>1, <1>2, <1>3, <1>4 DEF Range

LEMMA ConcatRange ==
    ASSUME NEW S, NEW s \in Seq(S), NEW t \in Seq(S)
    PROVE  Range(s \o t) = Range(s) \cup Range(t)
<1>1. /\ Len(s) \in Nat /\ DOMAIN s = 1 .. Len(s) /\ Len(t) \in Nat /\ DOMAIN t = 1 .. Len(t)
  BY SeqElements
<1>2. /\ s \o t \in Seq(S) /\ Len(s \o t) = Len(s) + Len(t)
      /\ \A i \in 1 .. Len(s) + Len(t) :
            (s \o t)[i] = IF i <= Len(s) THEN s[i] ELSE t[i - Len(s)]
  BY ConcatProperties
<1>3. DOMAIN (s \o t) = 1 .. Len(s) + Len(t)
  BY <1>2, SeqElements
<1>4. ASSUME NEW i \in 1 .. Len(s) + Len(t)
      PROVE  (s \o t)[i] \in Range(s) \cup Range(t)
  <2>1. CASE i <= Len(s)
    <3>1. i \in 1 .. Len(s) /\ (s \o t)[i] = s[i]
      BY <1>1, <1>2, <2>1
    <3> QED BY <1>1, <3>1 DEF Range
  <2>2. CASE i > Len(s)
    <3>1. i - Len(s) \in 1 .. Len(t) /\ (s \o t)[i] = t[i - Len(s)]
      BY <1>1, <1>2, <2>2
    <3> QED BY <1>1, <3>1 DEF Range
  <2> QED BY <1>1, <2>1, <2>2
<1>5. ASSUME NEW i \in 1 .. Len(s)
      PROVE  s[i] \in Range(s \o t)
  <2>1. i \in 1 .. Len(s) + Len(t) /\ (s \o t)[i] = s[i]
    BY <1>1, <1>2
  <2> QED BY <1>3, <2>1 DEF Range
<1>6. ASSUME NEW i \in 1 .. Len(t)
      PROVE  t[i] \in Range(s \o t)
  <2>1. Len(s) + i \in 1 .. Len(s) + Len(t) /\ (Len(s) + i) - Len(s) = i /\ ~(Len(s) + i <= Len(s))
    BY <1>1
  <2>2. (s \o t)[Len(s) + i] = t[i]
    BY <1>2, <2>1
  <2> QED BY <1>3, <2>1, <2>2 DEF Range
<1>7. Range(s \o t) \subseteq Range(s) \cup Range(t)
  BY <1>3, <1>4 DEF Range
<1>8. Range(s) \subseteq Range(s \o t) /\ Range(t) \subseteq Range(s \o t)
  BY <1>1, <1>5, <1>6 DEF Range
<1> QED BY <1>7, <1>8

\* A set of natural numbers has a least one: what induction there is in a proof goes
\* by the first element of a sequence of which something is not so.
LEMMA LeastNumber ==
    ASSUME NEW S, S \subseteq Nat, S # {}
    PROVE  \E x \in S : \A y \in S : x <= y
<1> DEFINE R == OpToRel(<, Nat)
<1>1. \E x \in S : \A y \in S : <<y, x>> \notin R
  BY WFMin, NatLessThanWellFounded
<1>2. \A x, y \in Nat : y < x => <<y, x>> \in R
  BY DEF OpToRel
<1> HIDE DEF R
<1>3. PICK x \in S : \A y \in S : <<y, x>> \notin R
  BY <1>1
<1>4. x \in Nat /\ \A y \in S : y \in Nat
  OBVIOUS
<1>5. \A y \in S : ~(y < x)
  BY <1>2, <1>3, <1>4
<1>6. \A y \in S : x <= y
  BY <1>4, <1>5
<1>7. QED
  BY <1>6

\* Induction over the natural numbers, of a set.
LEMMA SetInduction ==
    ASSUME NEW T, 0 \in T, \A n \in Nat : n \in T => n + 1 \in T
    PROVE  Nat \subseteq T
<1>1. SUFFICES ASSUME Nat \ T # {} PROVE FALSE
  OBVIOUS
<1>2. PICK x \in Nat \ T : \A y \in Nat \ T : x <= y
  BY <1>1, LeastNumber
<1>3. x # 0 /\ x - 1 \in Nat /\ x - 1 \in T
  BY <1>2
<1>4. QED
  BY <1>2, <1>3

------------------------------------------------------------------------------
\* The greatest of some of the first numbers.
LEMMA GreatestOf ==
    ASSUME NEW n \in Nat, NEW t \in SUBSET (1 .. n), t # {}
    PROVE  Max(t) \in t /\ \A y \in t : y <= Max(t)
<1> DEFINE bounds == {u \in Nat : \A y \in t : y <= u}
<1>1. n \in bounds
  OBVIOUS
<1>2. PICK u \in bounds : \A v \in bounds : u <= v
  BY <1>1, LeastNumber
<1>3. u \in t
  <2>1. SUFFICES ASSUME u \notin t PROVE FALSE
    OBVIOUS
  <2>2. PICK y \in t : TRUE
    OBVIOUS
  <2>3. u # 0 /\ u - 1 \in Nat
    BY <1>2, <2>1, <2>2
  <2>4. u - 1 \in bounds
    BY <1>2, <2>1, <2>3
  <2>5. QED
    BY <1>2, <2>3, <2>4
<1>4. \E x \in t : \A y \in t : x >= y
  BY <1>2, <1>3
<1>5. Max(t) \in t /\ \A y \in t : Max(t) >= y
  BY <1>4 DEF Max
<1>6. QED
  BY <1>5

LEMMA GreatestOfPrefix ==
    ASSUME NEW i \in Nat \ {0}
    PROVE  Max(1 .. i) = i /\ (1 .. i) \ {Max(1 .. i)} = 1 .. i - 1
<1>1. 1 .. i \in SUBSET (1 .. i) /\ i \in 1 .. i /\ 1 .. i # {}
  OBVIOUS
<1>2. Max(1 .. i) \in 1 .. i /\ i <= Max(1 .. i)
  BY <1>1, GreatestOf
<1>3. QED
  BY <1>2

------------------------------------------------------------------------------
\* FoldLeft (Folds!MapThenFoldSet) takes the places of a sequence from the last down.  There
\* is a function that does, of the sets of places, and its values at the prefixes are those
\* from left to right.  D is the step, S what it keeps to.
IsStep(D, n, S) == D \in [S \X (1 .. n) -> S]
IsFold(f, n, S, base, D) ==
    /\ f[{}] = base
    /\ \A t \in SUBSET (1 .. n) :
          t # {} /\ f[t \ {Max(t)}] \in S => f[t] = D[<<f[t \ {Max(t)}], Max(t)>>]
IsChain(h, n, S, base, D) ==
    /\ h \in [0 .. n -> S] /\ h[0] = base
    /\ \A i \in 1 .. n : h[i] = D[<<h[i - 1], i>>]

LEMMA FoldExists ==
    ASSUME NEW n \in Nat, NEW S, NEW base \in S, NEW D, IsStep(D, n, S)
    PROVE  \E g : g \in [SUBSET (1 .. n) -> S] /\ IsFold(g, n, S, base, D)
<1> USE DEF IsStep
<1> DEFINE Folds(m, g) == /\ g \in [SUBSET (1 .. m) -> S] /\ g[{}] = base
                          /\ \A t \in SUBSET (1 .. m) :
                                t # {} => g[t] = D[<<g[t \ {Max(t)}], Max(t)>>]
           T == {m \in Nat : m <= n => \E g : Folds(m, g)}
<1>1. 0 \in T
  <2>1. Folds(0, [t \in SUBSET (1 .. 0) |-> base])
    <3>1. SUBSET (1 .. 0) = {{}}
      OBVIOUS
    <3>2. QED
      BY <3>1
  <2> HIDE DEF Folds
  <2>2. QED
    BY <2>1
<1>2. ASSUME NEW m \in Nat, m \in T PROVE m + 1 \in T
  <2>1. SUFFICES ASSUME m + 1 <= n PROVE \E g : Folds(m + 1, g)
    <3> HIDE DEF Folds
    <3>1. QED
      OBVIOUS
  <2>2. PICK g : Folds(m, g)
    <3> HIDE DEF Folds
    <3>1. QED
      BY <1>2, <2>1
  <2> DEFINE h == [t \in SUBSET (1 .. m + 1) |->
                     IF m + 1 \in t THEN D[<<g[t \ {m + 1}], m + 1>>] ELSE g[t]]
  <2>3. ASSUME NEW t \in SUBSET (1 .. m + 1)
        PROVE  h[t] \in S /\ (t # {} => h[t] = D[<<h[t \ {Max(t)}], Max(t)>>])
    <3>1. CASE m + 1 \in t
      <4>1. t \ {m + 1} \in SUBSET (1 .. m) /\ m + 1 \in 1 .. n /\ m + 1 \notin t \ {m + 1}
        BY <2>1, <3>1
      <4>2. Max(t) = m + 1
        <5>1. m + 1 \in Nat /\ t \in SUBSET (1 .. m + 1) /\ t # {}
          BY <3>1
        <5>2. Max(t) \in t /\ m + 1 <= Max(t)
          BY <3>1, <5>1, GreatestOf
        <5>3. Max(t) \in 1 .. m + 1
          BY <5>1, <5>2
        <5>4. QED
          BY <5>2, <5>3
      <4>3. h[t \ {m + 1}] = g[t \ {m + 1}] /\ g[t \ {m + 1}] \in S
        BY <2>2, <4>1
      <4>4. h[t] = D[<<g[t \ {m + 1}], m + 1>>]
        BY <3>1
      <4>5. h[t] \in S
        BY <4>1, <4>3, <4>4
      <4> HIDE DEF h
      <4>6. QED
        BY <4>2, <4>3, <4>4, <4>5
    <3>2. CASE m + 1 \notin t
      <4>1. t \in SUBSET (1 .. m) /\ h[t] = g[t] /\ g[t] \in S
        BY <2>2, <3>2
      <4>2. ASSUME t # {} PROVE h[t] = D[<<h[t \ {Max(t)}], Max(t)>>]
        <5>1. Max(t) \in t /\ t \ {Max(t)} \in SUBSET (1 .. m)
          BY <4>1, <4>2, GreatestOf
        <5>2. h[t \ {Max(t)}] = g[t \ {Max(t)}]
          BY <3>2, <5>1
        <5>3. g[t] = D[<<g[t \ {Max(t)}], Max(t)>>]
          BY <2>2, <4>1, <4>2
        <5> HIDE DEF h
        <5>4. QED
          BY <4>1, <5>2, <5>3
      <4> HIDE DEF h
      <4>3. QED
        BY <4>1, <4>2
    <3>3. QED
      BY <3>1, <3>2
  <2>4. h[{}] = base
    BY <2>2
  <2>5. DOMAIN h = SUBSET (1 .. m + 1) /\ h = [t \in SUBSET (1 .. m + 1) |-> h[t]]
    OBVIOUS
  <2> HIDE DEF h
  <2>6. Folds(m + 1, h)
    BY <2>3, <2>4, <2>5
  <2> HIDE DEF Folds
  <2>7. QED
    BY <2>6
<1>3. Nat \subseteq T
  <2> HIDE DEF T
  <2>1. QED
    BY <1>1, <1>2, SetInduction
<1>4. \E g : Folds(n, g)
  <2> HIDE DEF Folds
  <2>1. QED
    BY <1>3
<1>5. QED
  BY <1>4 DEF IsFold

LEMMA FoldChain ==
    ASSUME NEW n \in Nat, NEW S, NEW base \in S, NEW D, IsStep(D, n, S),
           NEW f, IsFold(f, n, S, base, D)
    PROVE  \E h : IsChain(h, n, S, base, D) /\ h[n] = f[1 .. n]
<1> USE DEF IsStep, IsFold
<1> DEFINE T == {i \in Nat : i <= n => f[1 .. i] \in S}
           h == [i \in 0 .. n |-> f[1 .. i]]
<1>1. 0 \in T
  BY 1 .. 0 = {}
<1>2. ASSUME NEW i \in 1 .. n, f[1 .. i - 1] \in S
      PROVE  f[1 .. i] = D[<<f[1 .. i - 1], i>>] /\ f[1 .. i] \in S
  <2>1. 1 .. i \in SUBSET (1 .. n) /\ 1 .. i # {} /\ i \in Nat \ {0}
    OBVIOUS
  <2>2. f[1 .. i] = D[<<f[1 .. i - 1], i>>]
    BY <1>2, <2>1, GreatestOfPrefix
  <2>3. QED
    BY <1>2, <2>2
<1>3. ASSUME NEW i \in Nat, i \in T PROVE i + 1 \in T
  <2>1. SUFFICES ASSUME i + 1 <= n PROVE f[1 .. i + 1] \in S
    OBVIOUS
  <2>2. i + 1 \in 1 .. n /\ (i + 1) - 1 = i /\ f[1 .. i] \in S
    BY <1>3, <2>1
  <2>3. QED
    BY <1>2, <2>2
<1>4. Nat \subseteq T
  <2> HIDE DEF T
  <2>1. QED
    BY <1>1, <1>3, SetInduction
<1>5. \A i \in 0 .. n : f[1 .. i] \in S
  BY <1>4
<1>6. h \in [0 .. n -> S] /\ h[n] = f[1 .. n] /\ h[0] = base
  <2>1. 1 .. 0 = {}
    OBVIOUS
  <2>2. QED
    BY <1>5, <2>1
<1>7. \A i \in 1 .. n : h[i] = D[<<h[i - 1], i>>]
  <2>1. TAKE i \in 1 .. n
  <2>2. i - 1 \in 0 .. n /\ i \in 0 .. n
    OBVIOUS
  <2>3. QED
    BY <1>2, <1>5, <2>2
<1> HIDE DEF h
<1>8. QED
  BY <1>6, <1>7 DEF IsChain

\* What FoldLeft and FlattenSeq of a sequence come to, prefix by prefix.
LEMMA FlattenChain ==
    ASSUME NEW S, NEW s \in Seq(Seq(S)), Len(s) # 0
    PROVE  \E h \in [1 .. Len(s) -> Seq(S)] :
              /\ h[1] = s[1] /\ h[Len(s)] = FlattenSeq(s)
              /\ \A i \in 2 .. Len(s) : h[i] = h[i - 1] \o s[i]
<1> DEFINE n == Len(s)
           Is(f) == f = [i \in 1 .. n |-> IF i = 1 THEN s[i] ELSE f[i - 1] \o s[i]]
           D == [p \in Seq(S) \X (1 .. n) |-> p[1] \o s[p[2]]]
<1>1. n \in Nat /\ 1 \in 1 .. n /\ n \in 1 .. n /\ \A i \in 1 .. n : s[i] \in Seq(S)
  BY SeqElements
<1>2. FlattenSeq(s) = (CHOOSE f : Is(f))[n]
  BY DEF FlattenSeq
<1>3. <<>> \in Seq(S) /\ D \in [Seq(S) \X (1 .. n) -> Seq(S)]
  <2>1. \A p \in Seq(S) \X (1 .. n) : p[1] \o s[p[2]] \in Seq(S)
    BY <1>1, ConcatProperties
  <2>2. QED
    BY <2>1, EmptySeq
<1> HIDE DEF n
<1>4. \E f : Is(f)
  <2> DEFINE Lists == Seq(S)
  <2>1. IsStep(D, n, Lists) /\ <<>> \in Lists
    BY <1>3 DEF IsStep
  <2> HIDE DEF D, Lists
  <2>2. PICK g : IsFold(g, n, Lists, <<>>, D)
    BY <1>1, <2>1, FoldExists
  <2>3. PICK h : IsChain(h, n, Lists, <<>>, D)
    BY <1>1, <2>1, <2>2, FoldChain
  <2> USE DEF Lists
  <2> DEFINE f == [i \in 1 .. n |-> h[i]]
  <2>4. ASSUME NEW i \in 1 .. n
        PROVE  h[i] = IF i = 1 THEN s[i] ELSE f[i - 1] \o s[i]
    <3>1. i - 1 \in 0 .. n /\ h[i - 1] \in Seq(S) /\ i \in 1 .. n
      BY <1>1, <2>3 DEF IsChain
    <3>2. h[i] = h[i - 1] \o s[i]
      BY <2>3, <3>1 DEF D, IsChain
    <3>3. CASE i = 1
      BY <1>1, <2>3, <3>2, <3>3, ConcatEmptySeq DEF IsChain
    <3>4. CASE i # 1
      <4>1. i - 1 \in 1 .. n
        BY <1>1, <3>4
      <4>2. f[i - 1] = h[i - 1]
        BY <4>1
      <4>3. QED
        BY <3>2, <3>4, <4>2
    <3>5. QED
      BY <3>3, <3>4
  <2>5. Is(f)
    BY <2>4
  <2> HIDE DEF f
  <2>6. QED
    BY <2>5
<1>5. PICK f : Is(f) /\ FlattenSeq(s) = f[n]
  <2> HIDE DEF Is
  <2>1. QED
    BY <1>2, <1>4
<1> DEFINE T == {i \in Nat : i + 1 <= n => f[i + 1] \in Seq(S)}
<1>6. f[1] = s[1] /\ \A i \in 2 .. n : f[i] = f[i - 1] \o s[i]
  <2>1. \A i \in 1 .. n : f[i] = IF i = 1 THEN s[i] ELSE f[i - 1] \o s[i]
    BY <1>5
  <2>2. \A i \in 2 .. n : i \in 1 .. n /\ i # 1
    BY <1>1
  <2>3. QED
    BY <1>1, <2>1, <2>2
<1>7. 0 \in T
  BY <1>1, <1>6
<1>8. ASSUME NEW i \in Nat, i \in T PROVE i + 1 \in T
  <2>1. SUFFICES ASSUME i + 1 + 1 <= n PROVE f[i + 1 + 1] \in Seq(S)
    OBVIOUS
  <2>2. i + 1 + 1 \in 2 .. n /\ i + 1 + 1 \in 1 .. n /\ (i + 1 + 1) - 1 = i + 1 /\ f[i + 1] \in Seq(S)
    BY <1>1, <1>8, <2>1
  <2>3. f[i + 1 + 1] = f[i + 1] \o s[i + 1 + 1]
    BY <1>6, <2>2
  <2>4. QED
    BY <1>1, <2>2, <2>3, ConcatProperties
<1>9. \A i \in 1 .. n : f[i] \in Seq(S)
  <2> HIDE DEF T
  <2>1. Nat \subseteq T
    BY <1>7, <1>8, SetInduction
  <2>2. TAKE i \in 1 .. n
  <2>3. i - 1 \in T /\ (i - 1) + 1 = i /\ i <= n
    BY <1>1, <2>1
  <2>4. QED
    BY <2>3 DEF T
<1>10. f \in [1 .. n -> Seq(S)]
  BY <1>5, <1>9
<1>11. QED
  BY <1>5, <1>6, <1>10 DEF n

LEMMA FlattenRange ==
    ASSUME NEW S, NEW s \in Seq(Seq(S))
    PROVE  /\ FlattenSeq(s) \in Seq(S)
           /\ \A x : x \in Range(FlattenSeq(s)) <=> \E i \in 1 .. Len(s) : x \in Range(s[i])
<1>1. CASE Len(s) = 0
  <2>1. FlattenSeq(s) = s /\ s = <<>>
    BY <1>1, SeqElements DEF FlattenSeq
  <2>2. QED
    BY <1>1, <2>1, EmptySeq DEF Range
<1>2. CASE Len(s) # 0
  <2>1. PICK h \in [1 .. Len(s) -> Seq(S)] :
             /\ h[1] = s[1] /\ h[Len(s)] = FlattenSeq(s)
             /\ \A i \in 2 .. Len(s) : h[i] = h[i - 1] \o s[i]
    BY <1>2, FlattenChain
  <2>2. Len(s) \in Nat /\ Len(s) \in 1 .. Len(s) /\ \A i \in 1 .. Len(s) : s[i] \in Seq(S)
    BY <1>2, SeqElements
  <2> DEFINE In(m) == \A x : x \in Range(h[m]) <=> \E i \in 1 .. m : x \in Range(s[i])
             T == {m \in Nat : m + 1 <= Len(s) => In(m + 1)}
  <2>3. 0 \in T
    BY <2>1, <2>2
  <2>4. ASSUME NEW m \in Nat, m \in T PROVE m + 1 \in T
    <3>1. SUFFICES ASSUME m + 1 + 1 <= Len(s) PROVE In(m + 1 + 1)
      <4> HIDE DEF In
      <4>1. QED
        OBVIOUS
    <3>2. /\ m + 1 + 1 \in 2 .. Len(s) /\ m + 1 + 1 \in 1 .. Len(s) /\ m + 1 \in 1 .. Len(s)
          /\ (m + 1 + 1) - 1 = m + 1
      BY <2>2, <3>1
    <3>3. h[m + 1 + 1] = h[m + 1] \o s[m + 1 + 1]
      BY <2>1, <3>2
    <3>4. Range(h[m + 1 + 1]) = Range(h[m + 1]) \cup Range(s[m + 1 + 1])
      <4>1. h[m + 1] \in Seq(S) /\ s[m + 1 + 1] \in Seq(S)
        BY <2>1, <2>2, <3>2
      <4>2. QED
        BY <3>3, <4>1, ConcatRange
    <3>5. In(m + 1)
      <4> HIDE DEF In
      <4>1. QED
        BY <2>2, <2>4, <3>2
    <3>6. 1 .. m + 1 + 1 = (1 .. m + 1) \cup {m + 1 + 1}
      OBVIOUS
    <3>7. QED
      BY <3>4, <3>5, <3>6
  <2>5. Nat \subseteq T
    <3> HIDE DEF T
    <3>1. QED
      BY <2>3, <2>4, SetInduction
  <2>6. In(Len(s))
    <3>1. Len(s) - 1 \in T /\ (Len(s) - 1) + 1 = Len(s)
      <4> HIDE DEF T
      <4>1. QED
        BY <2>2, <2>5
    <3> HIDE DEF In
    <3>2. QED
      BY <2>2, <3>1
  <2>7. QED
    BY <2>1, <2>2, <2>6
<1>3. QED
  BY <1>1, <1>2
==============================================================================
