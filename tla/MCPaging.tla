------------------------------ MODULE MCPaging ------------------------------
(***************************************************************************)
(* The stores and requests TLC checks Paging with, and the searches it     *)
(* checks Selection with.  A behaviour is of one or of the other.          *)
(***************************************************************************)
EXTENDS Paging, Selection

TwoFiles == <<"a", "b">>
Tapes(n, cells) == UNION {[1 .. k -> cells] : k \in 0 .. n}

\* Where chunks end: anywhere, the last one before a stamped line or at the end.
Cuttings(t) ==
    {SetToSortSeq(S, <) : S \in {S \in SUBSET (1 .. Len(t)) :
        S # {} => Max(S) = Len(t) \/ (Stamped(t[Max(S) + 1]) /\ Ends(t[Max(S)]))}}

Store(t, c) == [tape |-> t, cuts |-> c]
Stores(n, cells) == UNION {{Store(t, c) : c \in Cuttings(t)} : t \in Tapes(n, cells)}

Ask(a, b, kind, bounds, what) ==
    [tapes |-> [s \in {"a", "b"} |-> IF s = "a" THEN a.tape ELSE b.tape],
     cuts |-> [s \in {"a", "b"} |-> IF s = "a" THEN a.cuts ELSE b.cuts],
     kind |-> kind, max |-> bounds[1], chunks |-> bounds[2],
     maxEntries |-> bounds[3], maxChunks |-> bounds[4], happens |-> what]

\* Entries that lie in one chunk each.
InChunks(a) == \A i \in 1 .. Len(a.cuts) :
    a.cuts[i] = Len(a.tape) \/ (Stamped(a.tape[a.cuts[i] + 1]) /\ Ends(a.tape[a.cuts[i]]))

Beside == Store(<<"H", "c", "S">>, <<1, 3>>)
Apart == Store(<<"H", "c", "S">>, <<2, 3>>)
Live == Store(<<"S", "H", "s">>, <<1>>)
Grown == Store(<<"S", "H">>, <<1>>)
Empty == Store(<<>>, <<>>)
NoHits == Store(<<"S", "S", "s">>, <<1, 2>>)
Walks ==
    {Ask(a, b, "all", bounds, what) :
        a \in Stores(4, {"S", "c", "s"}), b \in {Beside, Live},
        bounds \in {<<1, None, None, None>>, <<None, None, 2, None>>, <<None, 4, None, None>>},
        what \in {{"late"}}}
    \cup {Ask(a, Grown, "all", <<2, None, 1, None>>, {"grow"}) : a \in {Beside, Grown}}
    \cup {Ask(a, b, "match", bounds, {}) :
        a \in {a \in Stores(3, {"S", "h", "H"}) : InChunks(a)}, b \in {Apart},
        bounds \in {<<2, None, 1, 1>>, <<None, 3, None, 2>>}}
    \cup {Ask(NoHits, Empty, "match", <<2, None, None, None>>, {"unindexed", "vanish"})}

------------------------------------------------------------------------------
\* Words of two or three symbols are indexed.
AandB == {"a", "A", "b"}
Caseless == [c \in {"a", "A", "b", "-"} |-> IF c = "A" THEN "a" ELSE c]

Pred(kind, text, caseless) == [kind |-> kind, text |-> text, caseless |-> caseless]
Exact == {Pred("has", t, FALSE) : t \in {<<"a", "a">>, <<"a", "b", "-", "a", "a">>}}
Inside ==
    {Pred("substring", t, FALSE) :
        t \in {<<"b", "-", "a", "a", "-">>, <<"a", "a", "-", "b">>, <<"b", "-", "a", "b", "-", "a", "a", "-">>}}
Loose == {Pred("has", <<"A", "a">>, TRUE), Pred("regex", <<"a", "b">>, FALSE)}
Short == Pred("has", <<"b">>, FALSE)

Line1 == <<"a", "a", "-">>
Line2 == <<"a", "b", "-", "a", "a", "-">>
Line3 == <<"b", "b", "-", "a", "b", "-", "a", "a", "-">>
Line4 == <<"b", "a", "a", "-", "b", "-">>
Line5 == <<"A", "a", "-">>
Chunks == {<<Line1, Line4>>, <<Line2>>, <<Line3, Line5>>, <<Line4>>, <<Line5>>}

Seek(way, preds, chunks, max, what) ==
    [way |-> way, all |-> preds[1], any |-> preds[2], none |-> preds[3],
     chunks |-> chunks, max |-> max, happens |-> what]

Alone(p) == {<<<<p>>, <<>>, <<>>>>, <<<<>>, <<p>>, <<>>>>, <<<<>>, <<>>, <<p>>>>}
Mixed ==
    {<<<<p, q>>, <<>>, <<>>>> : p \in Exact, q \in Inside \cup Loose}
    \cup {<<<<>>, <<p, q>>, <<>>>> : p \in Exact \cup Inside, q \in Inside \cup Loose}
    \cup {<<<<p>>, <<>>, <<q>>>> : p \in Inside, q \in Exact}
Programs == UNION {Alone(p) : p \in Exact \cup Inside \cup Loose} \cup Mixed
            \cup {<<<<Short>>, <<>>, <<>>>>, <<<<>>, <<>>, <<>>>>}
Seeks ==
    {Seek(way, preds, <<c, d, <<Line1>>>>, max, what) :
        way \in {"store", "document"}, preds \in Programs, c \in Chunks, d \in Chunks,
        max \in {NoMax, 1}, what \in {{"lags", "alike"}, {"raced", "dies"}}}
    \cup {Seek(way, preds, <<c, d>>, NoMax, what) :
        way \in {"files", "sweep"}, preds \in Programs, c \in Chunks, d \in Chunks,
        what \in {{}, {"bare"}}}

\* Nothing is asked of the other.
PagingRests ==
    /\ ask = Ask(Empty, Empty, "all", <<None, None, None, None>>, {}) /\ tape = ask.tapes /\ cuts = ask.cuts
    /\ cursor = [s \in Ids |-> None] /\ qpc = "done"
    /\ opened = {} /\ at = [s \in Ids |-> 1] /\ sinks = [s \in Ids |-> NewSink]
    /\ finished = {} /\ out = <<>> /\ chunksOut = 0 /\ stoppedBy = ""
    /\ limited = FALSE /\ given = <<>> /\ seen = [s \in Ids |-> 0]

NothingSought == Seek("files", <<<<>>, <<>>, <<>>>>, <<>>, NoMax, {})
SelectionRests ==
    /\ search = NothingSought /\ spc = "answered"
    /\ hasTerms = {} /\ anyTerms = {} /\ selected = {} /\ unsent = <<>>
    /\ producer = "runs" /\ pipe = <<>> /\ complete = FALSE /\ shown = <<>>

PagesOrAnswers ==
    /\ (PagingInit /\ SelectionRests) \/ (SelectionInit /\ PagingRests)
    /\ [][(PagingNext /\ UNCHANGED searchVars) \/ (SelectionNext /\ UNCHANGED pagingVars)]_<<pagingVars, searchVars>>
    /\ WF_pagingVars(AskPage \/ OpenStore \/ OpenedAll) /\ KeepsReading

------------------------------------------------------------------------------
\* Where the code does something else than its comments say.
Fruitless == {Ask(Store(<<"S", "S", "H">>, <<1, 2, 3>>), Empty, "match", <<None, 2, None, None>>, {"unindexed"})}
OutOfTime == {Ask(Store(<<"S", "S", "H">>, <<1, 2, 3>>), Empty, "match", <<None, None, 2, None>>, {"unindexed", "early"})}
Straddling == {Ask(Store(<<"S", "h", "S">>, <<1, 2, 3>>), Empty, "match", <<None, None, None, None>>, {})}
LateOpening == {Ask(Beside, Live, "all", <<1, None, None, None>>, {"lateOpening"})}
LongEntry == {Ask(Store(<<"S", "c", "c", "S">>, <<1, 2, 3, 4>>), Empty, "all", <<None, 2, None, None>>, {})}
Residue == {Ask(Store(<<"H", "S">>, <<2>>), Apart, "match", <<None, 1, None, None>>, {})}
Vanishing == {Ask(Beside, Beside, "all", <<None, None, None, None>>, {"vanish"})}
HalfLine == {Ask(Live, Live, "all", <<2, None, 1, None>>, {"grow"})}
JustEnough == {Ask(Beside, Empty, "all", <<None, 2, None, None>>, {})}
------------------------------------------------------------------------------
\* An alternative too short to be indexed beside one that is (AnswersWhole).
Tokenless ==
    {Seek("store", <<<<>>, <<Short, Pred("has", <<"a", "b">>, FALSE)>>, <<>>>>, <<<<Line4>>, <<Line2>>>>, NoMax, {})}

\* --max 0 (AnswersWhole).
MaxZero == {Seek("files", <<<<>>, <<>>, <<>>>>, <<<<Line1>>>>, 0, {})}
==============================================================================
