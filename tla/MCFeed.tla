------------------------------- MODULE MCFeed -------------------------------
(***************************************************************************)
(* The environments TLC checks Feed under: what the follower was told,     *)
(* what kind of consumer it has, and what else happens.                    *)
(***************************************************************************)
EXTENDS Feed_proofs

Two == <<"a", "b">>
Told(follow, young, claims) == [follow |-> follow, young |-> young, claims |-> claims]
With(told, kind, cap, what) ==
    [follow |-> told.follow, young |-> told.young, claims |-> told.claims,
     consumer |-> kind, cap |-> cap, happens |-> what]

\* A follow while entries come in, by a consumer of either kind; one-shots with a
\* consumer whose destination holds something already and that falls silent, or that
\* holds entries back; and a pair that dies while retention goes by its positions.
Feeds ==
    {With(Told(TRUE, Stores, FALSE), "plain", 1, {"append"}),
     With(Told(TRUE, {"a"}, FALSE), "holding", 3, {"append"}),
     With(Told(FALSE, Stores, TRUE), "plain", 1, {"silent"}),
     With(Told(FALSE, Stores, FALSE), "holding", 3, {}),
     With(Told(TRUE, {"a"}, FALSE), "plain", 2, {"die", "retain"}),
     With(Told(TRUE, Stores, FALSE), "exporter", 3, {"relabel", "refuse", "deaf", "close"}),
     With(Told(FALSE, Stores, FALSE), "exporter", 3, {"die", "lose", "busy"})}

\* They meet the hypothesis of the theorems on positions.
ASSUME FeedsArePickedUpAlike == \A e \in Feeds : Picked(e)

------------------------------------------------------------------------------
\* Where the code does something else than its comments say.
SlowConsumer == {With(Told(FALSE, Stores, FALSE), "plain", 2, {"slow"})}
PickedUpTwice == {With(Told(TRUE, {}, FALSE), "plain", 2, {"die", "append"})}
HungConsumer == {With(Told(FALSE, Stores, FALSE), "plain", 2, {"hang"})}
HoldsTooMany == {With(Told(FALSE, Stores, FALSE), "holding", 3, {})}
==============================================================================
