------------------------------- MODULE Tally -------------------------------
(***************************************************************************)
(* Metrics of a log on a tape of their own (src/src/tally.rs).             *)
(*                                                                         *)
(* A tally run is the consumer of a follower.  Each entry it is handed is  *)
(* read by every metric of its extractors; what a metric observes is       *)
(* folded into buckets, of a width, by its Roller.  A bucket is sealed by  *)
(* event time: written to the tally store and evicted once the watermark   *)
(* is its end plus the grace.  An entry whose bucket is sealed goes to the *)
(* current one.  While nothing comes, open buckets are written as they     *)
(* stand; a reader takes the newest line of a bucket.  Open buckets are in *)
(* memory only: the position the run reports stays before the oldest byte  *)
(* one of them counted, so that a run that dies derives them again.        *)
(*                                                                         *)
(* One source store, whose i-th entry is the bytes i - 1 .. i.             *)
(***************************************************************************)
EXTENDS Integers, Sequences, SequencesExt, FiniteSets, FiniteSetsExt, Functions

CONSTANTS
    Metrics,
    Shapes,         \* kinds of entry, as an extractor tells them apart
    Value,          \* the number an entry of a shape carries
    Width, Grace,
    MaxTs,          \* bound: event times
    MaxDeaths,      \* bound: ends of a run
    TallyEnvironments

Fields == {"count", "sum", "min", "max", "last"}
None == -1
PlusInf == -1       \* le="+Inf"
NoLe == 0

\* A metric: the shapes its claim selects and its source decodes, those of them with a
\* field it cannot read, its label, its measures, its histogram's bounds and whether its
\* observations cite the entry.
Rule == [takes : SUBSET Shapes, unreadable : SUBSET Shapes, label : [Shapes -> STRING],
         measures : SUBSET Fields, bounds : Seq(Nat \ {0}), cite : BOOLEAN]

\* rules: the metrics applied.  order: an entry's time is never before its
\* predecessor's ("inorder"), or anything ("any").  shapes: of its entries, those with a
\* time and those without one.  size: bound, its entries.
\* ends: how a run may end, killed ("die") or by the
\* end of its feed, at any time ("stop") or of a log that is complete ("complete").
TallyEnvironment ==
    [shapes : SUBSET Shapes, unstamped : SUBSET Shapes, size : Nat, maxSeries : Nat \ {0},
     rules : UNION {[M -> Rule] : M \in SUBSET Metrics}, order : {"inorder", "any"},
     ends : SUBSET {"die", "stop", "complete"}]

ASSUME TallyAssumption ==
    /\ Width \in Nat \ {0} /\ Grace \in Nat /\ MaxTs \in Nat \ {0}
    /\ MaxDeaths \in Nat /\ Value \in [Shapes -> Nat]

VARIABLES
    env,
    log,            \* the source store
    \* the follower
    position,       \* the position it keeps
    sent,           \* what it has handed to this run
    wire,           \* reports it has not read
    \* the run
    tpc,
    ending,         \* the feed has ended
    rollers,        \* per metric
    batch,          \* lines rendered and not yet written
    deliveredTo, reported,
    tape,           \* the tally store, as a reader resolves it: bucket to newest line
    furthest, deaths    \* history: what a run was ever handed; ends of a run

runVars == <<tpc, ending, rollers, batch, deliveredTo, reported>>
tallyVars == <<env, log, position, sent, wire, runVars, tape, furthest, deaths>>

Applied == DOMAIN env.rules

------------------------------------------------------------------------------
(* The fold. *)

\* One measure of two, each with the time it is of.
Combine(f, have, next) ==
    CASE f \in {"count", "sum"} -> <<have[1] + next[1], Max({have[2], next[2]})>>
      [] f = "min" -> IF next[1] < have[1] THEN next ELSE have
      [] f = "max" -> IF next[1] > have[1] THEN next ELSE have
      [] f = "last" -> IF next[2] >= have[2] THEN next ELSE have

FreshRoller == [buckets |-> <<>>, marks |-> <<>>, watermark |-> 0, lastEvent |-> 0]
NoMarks == [capped |-> 0, late |-> 0, lateMax |-> 0]
NewBucket == [fields |-> <<>>, lo |-> None, hi |-> None, dirty |-> FALSE]
Get(f, x, default) == IF x \in DOMAIN f THEN f[x] ELSE default
Put(f, x, v) == [y \in DOMAIN f \cup {x} |-> IF y = x THEN v ELSE f[y]]

AdvanceTo(r, now) ==
    [r EXCEPT !.watermark = Max({@, Min({now, r.lastEvent + Grace})})]

\* The oldest byte an open bucket depends on.
SafeOffsets(r) == {r.buckets[k].lo : k \in DOMAIN r.buckets} \ {None}

Sealed(r, start) == r.watermark >= start + Width + Grace

StartOf(ts) == ts - (ts % Width)
Place(r, ts) == IF Sealed(r, StartOf(ts)) THEN StartOf(r.watermark) ELSE StartOf(ts)

\* s: what is observed, at s.ts, under s.series, with s.fields and s.cite, the entry's offset.
Add(r0, s, maxSeries) ==
    LET r == [r0 EXCEPT !.watermark = Max({@, s.ts}), !.lastEvent = Max({@, s.ts})]
        start == Place(r, s.ts)
        key == [start |-> start, series |-> s.series]
        owner == [start |-> start,
                  of |-> IF s.series.mark = "" THEN s.series.metric ELSE s.series.mark]
        late == start # StartOf(s.ts) /\ s.series.mark = ""
        by == r.watermark - (StartOf(s.ts) + Width)
        marked == IF late
                  THEN LET m == Get(r.marks, owner, NoMarks) IN
                       Put(r.marks, owner, [m EXCEPT !.late = @ + 1, !.lateMax = Max({@, by})])
                  ELSE r.marks
        full == /\ key \notin DOMAIN r.buckets
                /\ Cardinality({k \in DOMAIN r.buckets : k.start = start}) >= maxSeries
        b == Get(r.buckets, key, NewBucket)
    IN IF full
       THEN LET m == Get(marked, owner, NoMarks) IN
            [r EXCEPT !.marks = Put(marked, owner, [m EXCEPT !.capped = @ + 1])]
       ELSE [r EXCEPT
               !.marks = marked,
               !.buckets = Put(@, key,
                 [fields |-> [f \in DOMAIN b.fields \cup DOMAIN s.fields |->
                                IF f \notin DOMAIN s.fields THEN b.fields[f]
                                ELSE IF f \notin DOMAIN b.fields THEN <<s.fields[f], s.ts>>
                                ELSE Combine(f, b.fields[f], <<s.fields[f], s.ts>>)],
                  lo |-> IF s.cite = None THEN b.lo
                         ELSE IF b.lo = None THEN s.cite ELSE Min({b.lo, s.cite}),
                  hi |-> IF s.cite = None THEN b.hi ELSE Max({b.hi, s.cite + 1}),
                  dirty |-> TRUE])]

DrainedKeysSealed(r, how) ==
    {k \in DOMAIN r.buckets : how = "final" \/ Sealed(r, k.start)}

\* The lines of the buckets that `how` asks for; the markers of a bucket come with its seal.
DrainedKeys(r, how) ==
    {k \in DOMAIN r.buckets : \/ how = "final" \/ Sealed(r, k.start)
                              \/ how = "provisional" /\ r.buckets[k].dirty}

Line(k, fields) == [key |-> k, fields |-> fields]

MarkSeries(m, mark, label) == [mark |-> mark, metric |-> m, label |-> label, le |-> NoLe]

DueMarks(r, how) == {t \in DOMAIN r.marks : how = "final" \/ Sealed(r, t.start)}

MarkLine(m, t, mark, fields) ==
    Line([start |-> t.start, series |-> MarkSeries(m, mark, t.of)], fields)

DrainLines(m, r, how) ==
    {Line(k, [f \in DOMAIN r.buckets[k].fields |-> r.buckets[k].fields[f][1]])
        : k \in DrainedKeys(r, how)}
    \cup {MarkLine(m, t, "!cap", [count |-> r.marks[t].capped])
            : t \in {t \in DueMarks(r, how) : r.marks[t].capped > 0}}
    \cup {MarkLine(m, t, "!late", [count |-> r.marks[t].late, max |-> r.marks[t].lateMax])
            : t \in {t \in DueMarks(r, how) : r.marks[t].late > 0}}

Drained(r, how) ==
    [r EXCEPT
       !.buckets = [k \in {k \in DOMAIN @ : ~(how = "final" \/ Sealed(r, k.start))} |->
                      [@[k] EXCEPT !.dirty = @ /\ how # "provisional"]],
       !.marks = Restrict(@, DOMAIN @ \ DueMarks(r, how))]

\* The newest line of a bucket is its line: a batch has at most one of each.
Resolved(lines, more) ==
    [k \in DOMAIN lines \cup {l.key : l \in more} |->
        IF \E l \in more : l.key = k THEN (CHOOSE l \in more : l.key = k).fields ELSE lines[k]]
Newest(k) == Get(tape, k, <<>>)

------------------------------------------------------------------------------
(* A metric reads an entry. *)

Series(m, label, le) == [mark |-> "", metric |-> m, label |-> label, le |-> le]

MeasureOf(f, shape) == IF f = "count" THEN 1 ELSE Value[shape]

\* Its measures, and for a histogram a count at every bound the value is within.
Observe(m, shape) ==
    LET rule == env.rules[m]
        within == SelectSeq(rule.bounds, LAMBDA b : Value[shape] <= b)
    IN (IF rule.measures = {} THEN <<>>
        ELSE <<[series |-> Series(m, rule.label[shape], NoLe),
                fields |-> [f \in rule.measures |-> MeasureOf(f, shape)]]>>)
       \o [i \in 1 .. Len(within) |->
             [series |-> Series(m, rule.label[shape], within[i]), fields |-> [count |-> 1]]]
       \o (IF rule.bounds = <<>> THEN <<>>
           ELSE <<[series |-> Series(m, rule.label[shape], PlusInf),
                   fields |-> [count |-> 1, sum |-> Value[shape]]]>>)

NoteDrop(m, r, why, at) ==
    Add(r, [ts |-> IF at = None THEN r.watermark ELSE at,
            series |-> MarkSeries(m, "!drop", why),
            fields |-> [count |-> 1], cite |-> None], env.maxSeries)

\* Run::feed, of one metric: entry i of the store.
Read(m, r, i) ==
    LET e == log[i] rule == env.rules[m]
    IN IF e.ts = 0 THEN NoteDrop(m, r, "nostamp", None)
       ELSE IF e.shape \notin rule.takes THEN r
       ELSE IF e.shape \in rule.unreadable THEN NoteDrop(m, r, "unreadable", e.ts)
       ELSE FoldLeft(LAMBDA acc, o : Add(acc, [ts |-> e.ts, series |-> o.series,
                                               fields |-> o.fields,
                                               cite |-> IF rule.cite THEN i - 1 ELSE None],
                                         env.maxSeries),
                     r, Observe(m, e.shape))

------------------------------------------------------------------------------
TallyInit ==
    /\ env \in TallyEnvironments
    /\ log = <<>> /\ position = 0 /\ sent = 0 /\ wire = <<>>
    /\ tpc = "down" /\ ending = FALSE /\ rollers = <<>> /\ batch = {}
    /\ deliveredTo = None /\ reported = <<None, None>>
    /\ tape = <<>> /\ furthest = 0 /\ deaths = 0

\* A producer appends to the source store; one entry ahead of the run, for what it
\* appends earlier is read no earlier.
LastTs == Max({0} \cup {log[i].ts : i \in DOMAIN log})
LogEntry ==
    /\ Len(log) < env.size /\ sent = Len(log)
    /\ \E ts \in (IF env.order = "inorder" THEN Max({1, LastTs}) ELSE 1) .. MaxTs :
         \/ \E s \in env.shapes : log' = Append(log, [ts |-> ts, shape |-> s])
         \/ \E s \in env.unstamped : log' = Append(log, [ts |-> 0, shape |-> s])
    /\ UNCHANGED <<env, position, sent, wire, runVars, tape, furthest, deaths>>

\* The follower starts a run and resumes at its position; the run opens its sink.
StartRun ==
    /\ tpc = "down" /\ wire = <<>> /\ tpc' = "wait"
    /\ sent' = position /\ ending' = FALSE
    /\ rollers' = [m \in Applied |-> FreshRoller] /\ batch' = {}
    /\ deliveredTo' = None /\ reported' = <<None, None>>
    /\ UNCHANGED <<env, log, position, wire, tape, furthest, deaths>>

\* An entry is handed over and read by every metric; what that seals is rendered.
FeedEntry ==
    /\ tpc = "wait" /\ ~ending /\ sent < Len(log)
    /\ LET i == sent + 1
           read == [m \in Applied |-> Read(m, rollers[m], i)]
           drains == {m \in Applied : log[i].ts # 0}
       IN  /\ batch' = UNION {DrainLines(m, read[m], "sealed") : m \in drains}
           /\ rollers' = [m \in Applied |-> IF m \in drains THEN Drained(read[m], "sealed")
                                            ELSE read[m]]
           /\ sent' = i /\ deliveredTo' = i /\ furthest' = Max({furthest, i})
    /\ tpc' = "write"
    /\ UNCHANGED <<env, log, position, wire, ending, reported, tape, deaths>>

\* Nothing came for a while: wall clock stands in, as far as it may, and what has
\* changed is written as it stands.  The feed may just be slow, and the clock be off.
Idle ==
    /\ tpc = "wait" /\ ~ending
    /\ \E now \in 0 .. MaxTs + Grace :
         LET on == [m \in Applied |-> IF rollers[m].watermark = 0 THEN rollers[m]
                                      ELSE AdvanceTo(rollers[m], now)]
             heard == {m \in Applied : rollers[m].watermark # 0}
         IN  /\ batch' = UNION {DrainLines(m, on[m], "provisional") : m \in heard}
             /\ rollers' = [m \in Applied |-> IF m \in heard THEN Drained(on[m], "provisional")
                                              ELSE on[m]]
    /\ tpc' = "write"
    /\ UNCHANGED <<env, log, position, sent, wire, ending, deliveredTo, reported, tape,
                   furthest, deaths>>

\* The feed ends and says so: everything held is sealed.
EndOfFeed ==
    /\ tpc = "wait" /\ ~ending /\ deaths < MaxDeaths
    /\ "stop" \in env.ends \/ ("complete" \in env.ends /\ sent = env.size)
    /\ ending' = TRUE
    /\ batch' = UNION {DrainLines(m, rollers[m], "final") : m \in Applied}
    /\ rollers' = [m \in Applied |-> Drained(rollers[m], "final")]
    /\ reported' = <<None, None>>
    /\ tpc' = "write"
    /\ UNCHANGED <<env, log, position, sent, wire, deliveredTo, tape, furthest, deaths>>

\* Sink::write: the lines are appended and made a chunk at once.
WriteLines ==
    /\ tpc = "write" /\ tpc' = "report"
    /\ tape' = Resolved(tape, batch)
    /\ batch' = {}
    /\ UNCHANGED <<env, log, position, sent, wire, ending, rollers, deliveredTo, reported,
                   furthest, deaths>>

WatermarkTaken == deliveredTo

\* What the position may move to: the oldest byte an open bucket of any metric depends
\* on, and only if there is none the last byte delivered.
Watermark ==
    LET open == UNION {SafeOffsets(rollers[m]) : m \in Applied}
    IN  IF open # {} THEN Min(open) ELSE deliveredTo

\* The pipe to the follower holds one report that it has not read.
Report ==
    /\ tpc = "report" /\ wire = <<>>
    /\ IF Watermark = None \/ reported = <<Watermark, deliveredTo>>
       THEN UNCHANGED <<wire, reported>>
       ELSE wire' = Append(wire, Watermark) /\ reported' = <<Watermark, deliveredTo>>
    /\ IF ending THEN tpc' = "down" /\ deaths' = deaths + 1 ELSE tpc' = "wait" /\ UNCHANGED deaths
    /\ UNCHANGED <<env, log, position, sent, ending, rollers, batch, deliveredTo, tape, furthest>>

\* The follower reads a report and keeps its position.
TakeReport ==
    /\ wire # <<>>
    /\ position' = Head(wire) /\ wire' = Tail(wire)
    /\ UNCHANGED <<env, log, sent, runVars, tape, furthest, deaths>>

\* Follower and run die, or the run alone; a report that was not read is gone.
Die ==
    /\ tpc # "down" /\ "die" \in env.ends /\ deaths < MaxDeaths
    /\ tpc' = "down" /\ deaths' = deaths + 1 /\ wire' = <<>> /\ batch' = {}
    /\ ending' = FALSE /\ rollers' = <<>> /\ deliveredTo' = None /\ reported' = <<None, None>>
    /\ UNCHANGED <<env, log, position, sent, tape, furthest>>

RunSteps == StartRun \/ FeedEntry \/ WriteLines \/ Report
TallyNext == LogEntry \/ RunSteps \/ Idle \/ EndOfFeed \/ TakeReport \/ Die

TallySpec == TallyInit /\ [][TallyNext]_tallyVars

\* The loop of the run and the follower's go on; an idle stream is noticed.
\* (WF of the run's steps and SF of the two it waits for, written out with their guards.)
Goes == <>[](tpc = "write" \/ (tpc \in {"report", "down"} /\ wire = <<>>))
          => []<><<StartRun \/ WriteLines \/ Report>>_tallyVars
Reads == []<>(tpc = "wait" /\ ~ending /\ sent < Len(log)) => []<><<FeedEntry>>_tallyVars
Idles == []<>(tpc = "wait" /\ ~ending) => []<><<Idle>>_tallyVars

FairTally == TallySpec /\ Goes /\ Reads /\ Idles /\ WF_tallyVars(TakeReport)

------------------------------------------------------------------------------
(* What the tally is to say. *)

\* The observations of a metric among the entries, with the entry's place.
Readings(m, i) == log[i].ts # 0 /\ log[i].shape \in env.rules[m].takes \ env.rules[m].unreadable
Seen(m, n) ==
    UNION {{[at |-> i, ts |-> log[i].ts, series |-> o.series, fields |-> o.fields]
              : o \in Range(Observe(m, log[i].shape))} : i \in {i \in 1 .. n : Readings(m, i)}}

KeysOf(m, n) == {[start |-> StartOf(o.ts), series |-> o.series] : o \in Seen(m, n)}

\* A bucket by definition, from the observations with its time and series.
InBucket(m, n, k) == {o \in Seen(m, n) : StartOf(o.ts) = k.start /\ o.series = k.series}
Latest(os) ==
    CHOOSE o \in os : \A p \in os : p.ts < o.ts \/ (p.ts = o.ts /\ p.at <= o.at)
BucketOf(os) ==
    [f \in UNION {DOMAIN o.fields : o \in os} |->
        CASE f \in {"count", "sum"} -> MapThenSumSet(LAMBDA o : o.fields[f], os)
          [] f = "min" -> Min({o.fields[f] : o \in os})
          [] f = "max" -> Max({o.fields[f] : o \in os})
          [] f = "last" -> Latest(os).fields[f]]

\* What is known of a bucket: the run's own, if it is open, else its newest line.
Known(m, k) ==
    IF tpc # "down" /\ k \in DOMAIN rollers[m].buckets
    THEN [f \in DOMAIN rollers[m].buckets[k].fields |-> rollers[m].buckets[k].fields[f][1]]
    ELSE Newest(k)

CaughtUp == tpc = "wait" /\ sent >= furthest

\* Of a log whose entries come in order of their times, a bucket says exactly what its
\* entries say: a run that has caught up knows it, and once the position is past them
\* all, so that no run reads them again, the tape has it whatever happened in between.
BucketsTrue ==
    env.order = "inorder" =>
        \A m \in Applied :
            /\ CaughtUp => \A k \in KeysOf(m, sent) : Known(m, k) = BucketOf(InBucket(m, sent, k))
            /\ \A k \in KeysOf(m, furthest) :
                 LET os == InBucket(m, furthest, k)
                 IN  (\A o \in os : o.at <= position) =>
                         Newest(k) = BucketOf(os)

\* Whatever order they come in, what is counted anywhere, and what was told to be lost
\* to the cap, add up to the observations of the entries read.
Counted(m, ks, says(_)) ==
    MapThenSumSet(LAMBDA k : IF says(k) = <<>> THEN 0 ELSE says(k).count, ks)
LineKeys(m) == {k \in DOMAIN tape : k.series.metric = m /\ k.series.mark = ""}
OpenKeys(m) == {k \in DOMAIN rollers[m].buckets : k.series.mark = ""}
Capped(m) ==
    MapThenSumSet(LAMBDA t : rollers[m].marks[t].capped, {t \in DOMAIN rollers[m].marks : t.of = m})
    + MapThenSumSet(LAMBDA k : tape[k].count,
                    {k \in DOMAIN tape : k.series = MarkSeries(m, "!cap", m)})

CountsAddUp ==
    CaughtUp => \A m \in Applied :
        Counted(m, LineKeys(m) \cup OpenKeys(m), LAMBDA k : Known(m, k)) + Capped(m)
            = Cardinality(Seen(m, sent))

\* Sooner or later a reader of the tape sees every entry counted, the newest too.
Shown(m) ==
    /\ sent = Len(log) /\ tpc # "down"
    /\ Counted(m, LineKeys(m), Newest) + Capped(m)
         = Cardinality(Seen(m, Len(log)))

NumbersShow == <>[](\A m \in Applied : Shown(m))
==============================================================================
