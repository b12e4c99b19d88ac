------------------------------ MODULE MCTally ------------------------------
(***************************************************************************)
(* The extractors and logs TLC checks Tally with.                          *)
(***************************************************************************)
EXTENDS Tally

ShapeSet == {"get", "put", "stray"}
Numbers == [s \in ShapeSet |-> IF s = "get" THEN 1 ELSE 3]
Labels == [s \in ShapeSet |-> IF s = "get" THEN "x" ELSE "y"]
OneLabel == [s \in ShapeSet |-> "x"]

RuleOf(takes, unreadable, label, measures, bounds, cite) ==
    [takes |-> takes, unreadable |-> unreadable, label |-> label,
     measures |-> measures, bounds |-> bounds, cite |-> cite]

\* Requests, all five measures by label; a latency histogram; an error that is rare.
Requests == RuleOf({"get", "put"}, {}, OneLabel, Fields, <<>>, TRUE)
ByLabel == RuleOf({"get", "put"}, {}, Labels, {"count"}, <<>>, TRUE)
Latency == RuleOf({"get", "put"}, {"put"}, OneLabel, {}, <<2, 4>>, TRUE)
Rare == RuleOf({"put"}, {}, OneLabel, {"count"}, <<>>, TRUE)
Uncited == RuleOf({"get", "put"}, {}, OneLabel, {"count"}, <<>>, FALSE)

Log(order, shapes, unstamped, size) ==
    [order |-> order, shapes |-> shapes, unstamped |-> unstamped, size |-> size]

Measuring(of, rules, maxSeries, ends) ==
    [order |-> of.order, shapes |-> of.shapes, unstamped |-> of.unstamped,
     size |-> of.size, rules |-> rules, maxSeries |-> maxSeries, ends |-> ends]

InOrder(n) == Log("inorder", {"get", "put"}, {}, n)
OneKind(n) == Log("inorder", {"put"}, {}, n)
AnyOrder(n) == Log("any", {"get", "put"}, {}, n)

\* A log in order whose run dies, or ends with it; entries late and series too many; two
\* metrics, a histogram, entries without a time and ones that cannot be read.
Tallies ==
    {Measuring(OneKind(4), [requests |-> Requests], 9, {"die", "complete"}),
     Measuring(InOrder(3), [requests |-> Requests], 9, {"die"}),
     Measuring(AnyOrder(3), [requests |-> ByLabel], 1, {}),
     Measuring(Log("any", {"get", "put"}, {"stray"}, 3),
               [latency |-> Latency, rare |-> Rare], 3, {})}

------------------------------------------------------------------------------
\* Where the code does something else than its comments say.
\* Two metrics, of which one is rare: the position waits for its open bucket, in the
\* middle of a bucket of the other one (BucketsTrue).
RareBeside == {Measuring(InOrder(4), [requests |-> Requests, rare |-> Rare], 9, {"die"})}
\* Entries a little out of order (CountsAddUp).
OutOfOrder == {Measuring(AnyOrder(4), [requests |-> Requests], 9, {"die"})}
\* The feed stops, and goes on later (BucketsTrue).
Stopped == {Measuring(InOrder(4), [requests |-> Requests], 9, {"stop"})}
\* A metric that cites nothing (BucketsTrue).
Unheld == {Measuring(InOrder(4), [requests |-> Uncited], 9, {"die"})}
==============================================================================
