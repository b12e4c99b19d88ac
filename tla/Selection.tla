------------------------------ MODULE Selection ------------------------------
(***************************************************************************)
(* A search by content (src/src/grep.rs: Pred, PredSpec, Preds;            *)
(* src/src/grain.rs: tokenize, may_contain_all; src/src/query.rs:          *)
(* select_chunks; src/src/timber_filter.rs; src/src/querydoc.rs).          *)
(*                                                                         *)
(* A search is answered in two stages.  The token index skips chunks that  *)
(* cannot hold a match, and what is left is judged entry by entry.  With   *)
(* timber-filter the stages are two processes: `timberfs query` selects    *)
(* and writes a record stream, the filter judges what comes out of the     *)
(* pipe, stops early at --max, and tells a stream that ended from one that *)
(* was cut off.  A query document judges in the one process; a chunk sweep *)
(* answers with the chunks themselves.                                     *)
(*                                                                         *)
(* A text is a sequence of symbols; those of Letters make words, any other *)
(* separates them.  An entry is a text that lies in one chunk.             *)
(***************************************************************************)
EXTENDS Integers, Sequences, SequencesExt, FiniteSetsExt

CONSTANTS
    Letters,
    Fold,       \* what a caseless comparison takes a symbol for
    MinToken,
    MaxToken,
    MaxPipe,    \* bound: records in the pipe
    Searches

\* way: timber-filter over a store ("store") or over files ("files", each a chunk here), a
\* document for entries ("document") or for chunks ("sweep").  happens: the store is a
\* bundle or has no filters ("bare"), they do not cover its last chunk ("lags"), they say
\* of a chunk that it may hold what it does not ("alike"), a head drop comes between the
\* records and the filters ("raced"), the selecting process dies ("dies").
NoMax == -1
Text == Seq(STRING)
Predicate == [kind : {"has", "substring", "regex"}, text : Text, caseless : BOOLEAN]
Search ==
    [way : {"store", "files", "document", "sweep"},
     all : Seq(Predicate), any : Seq(Predicate), none : Seq(Predicate),
     chunks : Seq(Seq(Text)), max : Nat \cup {NoMax},
     happens : SUBSET {"bare", "lags", "alike", "raced", "dies"}]

ASSUME SelectionAssumption ==
    /\ MinToken \in Nat \ {0} /\ MaxToken \in Nat /\ MinToken <= MaxToken
    /\ MaxPipe \in Nat \ {0}
    /\ Letters \subseteq DOMAIN Fold
    /\ Searches \subseteq Search

VARIABLES
    search,
    spc,        \* begins, selects, reads; ended well ("answered") or not ("refused")
    hasTerms,   \* --has and --any of the selecting process
    anyTerms,
    selected,   \* the chunks it reads
    unsent,     \* the entries it has still to write
    producer,   \* that process: runs, ended, died
    pipe,       \* records written and not read
    complete,   \* stream-end has been read
    shown       \* the answer so far

searchVars ==
    <<search, spc, hasTerms, anyTerms, selected, unsent, producer, pipe, complete, shown>>

------------------------------------------------------------------------------
\* Words.
IsLetter(text, i) == i \in 1 .. Len(text) /\ text[i] \in Letters

Runs(text) ==
    {r \in (1 .. Len(text)) \X (1 .. Len(text)) :
        /\ r[1] <= r[2] /\ \A i \in r[1] .. r[2] : IsLetter(text, i)
        /\ ~IsLetter(text, r[1] - 1) /\ ~IsLetter(text, r[2] + 1)}

Indexable(r) == r[2] - r[1] + 1 \in MinToken .. MaxToken
Words(text, rs) == {SubSeq(text, r[1], r[2]) : r \in rs}

\* tokenize, of a chunk and of a query's argument.
Tokenize(text) == Words(text, {r \in Runs(text) : Indexable(r)})

\* Every run of a substring, those at its edges too.
EdgeTokens(text) == Words(text, {r \in Runs(text) : Indexable(r)})

\* interior_tokens: the runs with something on both sides.
InteriorTokens(text) ==
    Words(text, {r \in Runs(text) : Indexable(r) /\ r[1] > 1 /\ r[2] < Len(text)})

------------------------------------------------------------------------------
\* A predicate is judged on an entry.
Same(a, b, caseless) == a = b \/ (caseless /\ Fold[a] = Fold[b])

At(text, i, lit, caseless) ==
    /\ i + Len(lit) - 1 <= Len(text)
    /\ \A j \in 1 .. Len(lit) : Same(text[i + j - 1], lit[j], caseless)

\* word_pattern anchors at the boundaries of words; a pattern here is its text.
Anchored(text, i, lit) == ~IsLetter(text, i - 1) /\ ~IsLetter(text, i + Len(lit))

Fits(p, entry) ==
    \E i \in 1 .. Len(entry) :
        At(entry, i, p.text, p.caseless) /\ (p.kind = "has" => Anchored(entry, i, p.text))

Each(ps) == {ps[i] : i \in DOMAIN ps}

\* Preds::keep.
Keep(s, entry) ==
    /\ \A p \in Each(s.all) : Fits(p, entry)
    /\ s.any # <<>> => \E p \in Each(s.any) : Fits(p, entry)
    /\ \A p \in Each(s.none) : ~Fits(p, entry)

\* index_terms: whole words that an entry the predicate fits must hold.
IndexTerms(p) ==
    IF p.caseless THEN {}
    ELSE CASE p.kind = "has" -> {p.text}
           [] p.kind = "substring" -> InteriorTokens(p.text)
           [] p.kind = "regex" -> {}

\* pushdown.
HasTerms(s) == UNION {IndexTerms(p) : p \in Each(s.all)}
AnyTerms(s) ==
    IF \A p \in Each(s.any) : Cardinality(IndexTerms(p)) = 1
    THEN UNION {IndexTerms(p) : p \in Each(s.any)} ELSE {}

------------------------------------------------------------------------------
\* Filters.
Happens(what) == what \in search.happens
TokensOf(chunk) == UNION {Tokenize(chunk[i]) : i \in DOMAIN chunk}

\* The filter at a chunk's position, where the file has one; after a head drop that came
\* in between, the one of the next chunk.
FilterAt(i) == TokensOf(search.chunks[IF Happens("raced") THEN i + 1 ELSE i])
Covered == Len(search.chunks) - (IF Happens("lags") \/ Happens("raced") THEN 1 ELSE 0)

\* may_contain_all; chunks of alike answer yes to anything.
MayContainAll(i, tokens, alike) == i > Covered \/ i \in alike \/ tokens \subseteq FilterAt(i)

\* The filters are used when the sequence of the store is what it was when its records
\* were read.
Trusted == ~Happens("bare") /\ ~Happens("raced")

\* select_chunks.
Groups(terms) == {Tokenize(t) : t \in terms} \ {{}}
SelectedChunks(alike) ==
    IF hasTerms \cup anyTerms = {} \/ ~Trusted THEN DOMAIN search.chunks
    ELSE {i \in DOMAIN search.chunks :
            /\ MayContainAll(i, UNION {Tokenize(t) : t \in hasTerms}, alike)
            /\ Groups(anyTerms) # {} =>
                  \E g \in Groups(anyTerms) : MayContainAll(i, g, alike)}

EntriesIn(chunks) ==
    FlattenSeq([k \in 1 .. Cardinality(chunks) |-> search.chunks[SetToSortSeq(chunks, <)[k]]])

------------------------------------------------------------------------------
SelectionInit ==
    /\ search \in Searches /\ spc = "begins"
    /\ hasTerms = {} /\ anyTerms = {} /\ selected = {} /\ unsent = <<>>
    /\ producer = "runs" /\ pipe = <<>> /\ complete = FALSE /\ shown = <<>>

\* A chunk sweep refuses what the index cannot prove; a term it has no tokens for is an
\* error of the selecting process, which the reader of its stream takes for a truncated
\* one.
Unprovable(s) ==
    /\ s.way = "sweep"
    /\ s.none # <<>> \/ \E p \in Each(s.all) \cup Each(s.any) : p.caseless \/ p.kind = "regex"

Begin ==
    /\ spc = "begins"
    /\ spc' = IF Unprovable(search) THEN "refused" ELSE "selects"
    /\ hasTerms' = (IF search.way = "files" THEN {} ELSE HasTerms(search))
    /\ anyTerms' = (IF search.way = "files" THEN {} ELSE AnyTerms(search))
    /\ UNCHANGED <<search, selected, unsent, producer, pipe, complete, shown>>

NoTokens == {t \in hasTerms : Tokenize(t) = {}}

SelectChunks ==
    /\ spc = "selects" /\ NoTokens = {}
    /\ \E alike \in IF Happens("alike") THEN SUBSET DOMAIN search.chunks ELSE {{}} :
         /\ selected' = SelectedChunks(alike)
         /\ unsent' = EntriesIn(selected')
    /\ spc' = IF search.way = "sweep" THEN "answered" ELSE "reads"
    /\ UNCHANGED <<search, hasTerms, anyTerms, producer, pipe, complete, shown>>

RefuseTerms ==
    /\ spc = "selects" /\ NoTokens # {} /\ spc' = "refused"
    /\ UNCHANGED <<search, hasTerms, anyTerms, selected, unsent, producer, pipe, complete,
                   shown>>

------------------------------------------------------------------------------
\* The selecting process writes its entries, then stream-end.  (A record is its payload.)
StreamEnd == <<"stream-end">>

Produce ==
    /\ spc = "reads" /\ producer = "runs" /\ Len(pipe) < MaxPipe
    /\ IF unsent = <<>>
       THEN pipe' = Append(pipe, StreamEnd) /\ producer' = "ended" /\ UNCHANGED unsent
       ELSE pipe' = Append(pipe, Head(unsent)) /\ unsent' = Tail(unsent) /\ UNCHANGED producer
    /\ UNCHANGED <<search, spc, hasTerms, anyTerms, selected, complete, shown>>

ProducerDies ==
    /\ spc = "reads" /\ producer = "runs" /\ search.way = "store" /\ Happens("dies")
    /\ producer' = "died"
    /\ UNCHANGED <<search, spc, hasTerms, anyTerms, selected, unsent, pipe, complete, shown>>

\* The filter: at the cap it stops, whatever is still to come.
AtCap(answer) == search.max # NoMax /\ Len(answer) >= search.max

Judge ==
    /\ spc = "reads" /\ pipe # <<>> /\ Head(pipe) # StreamEnd
    /\ pipe' = Tail(pipe)
    /\ LET kept == Keep(search, Head(pipe))
       IN  /\ shown' = IF kept THEN Append(shown, Head(pipe)) ELSE shown
           /\ spc' = IF kept /\ AtCap(shown') THEN "answered" ELSE "reads"
    /\ UNCHANGED <<search, hasTerms, anyTerms, selected, unsent, producer, complete>>

EndOfStream ==
    /\ spc = "reads" /\ pipe # <<>> /\ Head(pipe) = StreamEnd
    /\ pipe' = Tail(pipe) /\ complete' = TRUE
    /\ UNCHANGED <<search, spc, hasTerms, anyTerms, selected, unsent, producer, shown>>

\* A stream that ends without stream-end is an error, unless the cap was the reason; so is
\* the status of a process that failed.
EndOfFile ==
    /\ spc = "reads" /\ pipe = <<>> /\ producer # "runs"
    /\ spc' = IF AtCap(shown) \/ (complete /\ producer = "ended")
              THEN "answered" ELSE "refused"
    /\ UNCHANGED <<search, hasTerms, anyTerms, selected, unsent, producer, pipe, complete,
                   shown>>

SelectionNext ==
    \/ Begin \/ SelectChunks \/ RefuseTerms
    \/ Produce \/ ProducerDies \/ Judge \/ EndOfStream \/ EndOfFile

------------------------------------------------------------------------------
\* grep.rs: "skipping is an optimisation; THIS is the meaning".  A search that ends well
\* has shown every entry its predicates keep, in order, up to its cap; one that cannot
\* says so.  A sweep's chunks hold all of them.
All == EntriesIn(DOMAIN search.chunks)
Meant == SelectSeq(All, LAMBDA e : Keep(search, e))
UpTo(n, s) == IF n = NoMax \/ Len(s) <= n THEN s ELSE SubSeq(s, 1, n)

AnswersWhole ==
    spc = "answered" =>
        IF search.way = "sweep"
        THEN \A i \in DOMAIN search.chunks :
                 (\E e \in Each(search.chunks[i]) : Keep(search, e)) => i \in selected
        ELSE shown = UpTo(search.max, Meant)
==============================================================================
