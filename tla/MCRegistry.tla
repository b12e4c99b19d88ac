----------------------------- MODULE MCRegistry -----------------------------
(***************************************************************************)
(* The stores, followers and troubles TLC checks Registry with.             *)
(***************************************************************************)
EXTENDS Registry_proofs

NoFollower == [f \in Followers |-> None]
By(select, retaining) == [select |-> select, retaining |-> retaining, places |-> Missing, legacy |-> Missing]
At(r, s, chunk, whole) == [r EXCEPT !.places = [NoPlaces EXCEPT ![s] = Place(chunk, whole)]]
OldCursor(r, chunk, delivered) == [r EXCEPT !.legacy = [chunk |-> chunk, delivered |-> delivered]]
Count(s, n) == [x \in Stores |-> IF x = s THEN n ELSE 0]
Only(s, sizes) == [x \in Stores |-> IF x = s THEN sizes ELSE <<>>]

Base == [age |-> None, budget |-> None, unconsumed |-> Stores, sizes |-> [s \in Stores |-> <<8, 8>>],
         label |-> [s \in Stores |-> "web"], registered |-> NoFollower, selects |-> {}, names |-> {"x"}, commands |-> 0,
         there |-> [s \in Stores |-> 0], starts |-> 0, hours |-> 0, may |-> {"tick"}]
With(f, r) == [NoFollower EXCEPT ![f] = r]
Both(q, r) == [f \in Followers |-> IF f = "x" THEN q ELSE r]

\* Two followers of one store, one of them killed and started again.
Restarted ==
    [Base EXCEPT !.sizes = Only("s1", <<8, 8>>), !.there = Count("s1", 2),
                 !.registered = Both(By({"web"}, TRUE), By({"s1"}, TRUE)), !.starts = 3, !.may = {"tick", "die"}]
\* A follower of two stores whose labels and selection are edited while it runs.
Edited ==
    [Base EXCEPT !.sizes = [s \in Stores |-> IF s = "s1" THEN <<8, 8>> ELSE <<8>>],
                 !.there = [s \in Stores |-> 1], !.registered = With("x", By({"web"}, TRUE)),
                 !.selects = {{"web"}, {"db"}}, !.commands = 2,
                 !.starts = 1, !.may = {"tick", "update", "relabel", "torn"}]
\* Followers made, released and deleted, and started again under the same name.
Named ==
    [Base EXCEPT !.sizes = Only("s1", <<8, 8>>), !.there = Count("s1", 2), !.selects = {{"s1"}}, !.commands = 4,
                 !.starts = 2, !.may = {"tick", "create", "update", "delete", "die", "cut"}]
\* Budgets that overtake a follower, and an expired head that is less than a tenth.
Overtaken ==
    [Base EXCEPT !.age = 1, !.budget = 40, !.sizes = Only("s1", <<2, 20, 25>>), !.registered = With("x", By({"web"}, TRUE)),
                 !.starts = 1, !.hours = 3, !.may = {"tick"}]
\* A declaration or positions nobody can read, for a while.
Illegibly ==
    [Base EXCEPT !.sizes = Only("s1", <<8, 8>>), !.registered = Both(By({"web"}, TRUE), At(By({"s1"}, TRUE), "s1", 0, FALSE)),
                 !.commands = 1, !.starts = 2, !.may = {"tick", "spoil"}]
\* Positions beyond what the store has written, and a cursor of before there were positions.
Edges ==
    [Base EXCEPT !.sizes = Only("s1", <<8, 8>>),
                 !.registered = Both(At(By({"web"}, TRUE), "s1", 7, FALSE), OldCursor(By({"s1"}, TRUE), 0, TRUE)),
                 !.starts = 2]
\* A store nobody writes, trimmed by hand.
Trimmed ==
    [Base EXCEPT !.budget = 40, !.sizes = Only("s1", <<20, 20, 25>>), !.registered = With("x", By({"web"}, TRUE)),
                 !.commands = 2, !.starts = 1, !.may = {"trim"}]

Registries == {Restarted, Edited, Named, Overtaken, Illegibly, Edges, Trimmed}

\* Arrangements that are no part of a passing run; each shows what it is named for.
\* A delete that probes the lock before a process takes it (follower.rs:2133-2155).
Hasty ==
    [Named EXCEPT !.registered = With("x", By({"s1"}, FALSE)), !.selects = {{"s1"}}, !.may = @ \cup {"hurried"}]
\* A manifest nobody can read: followers by label hold nothing, one by identity lets go.
HalfMatched ==
    [Base EXCEPT !.sizes = Only("s1", <<8, 8>>), !.registered = Both(By({"web"}, TRUE), By({"s1"}, TRUE)),
                 !.commands = 1, !.starts = 1, !.may = {"tick", "torn"}]
\* A declaration nobody can read, and a size budget.
Blind ==
    [Illegibly EXCEPT !.budget = 40, !.sizes = Only("s1", <<20, 20, 25>>)]
\* A follower that read all there is, and an age at which all of it goes.
AllExpired ==
    [Base EXCEPT !.age = 1, !.sizes = Only("s1", <<8>>), !.registered = With("x", By({"web"}, TRUE)), !.starts = 1, !.hours = 3]
\* An unrelated follower half made while a budget bites.
HalfMade ==
    [Base EXCEPT !.budget = 40, !.sizes = Only("s1", <<20, 20, 25>>), !.registered = [f \in Followers |-> IF f = "x" THEN None ELSE By({"web"}, TRUE)],
                 !.selects = {{"db"}}, !.commands = 1, !.starts = 1, !.may = {"tick", "create"}]
\* A chunk sealed and read between next_seq and the registry.
SealedBetween ==
    [Overtaken EXCEPT !.age = None, !.sizes = Only("s1", <<20, 20, 25>>), !.may = {"tick", "sealed between"}]
HastySet == {Hasty}
HalfMatchedSet == {HalfMatched}
BlindSet == {Blind}
AllExpiredSet == {AllExpired}
HalfMadeSet == {HalfMade}
SealedBetweenSet == {SealedBetween}
=============================================================================
