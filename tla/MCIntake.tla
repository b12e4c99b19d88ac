------------------------------ MODULE MCIntake ------------------------------
(***************************************************************************)
(* The senders, instances and troubles TLC checks Intake and Console with.  *)
(***************************************************************************)
EXTENDS Intake_proofs

\* Two senders; a/b and a_b sanitize to one store name.
Sanitized == [v \in Values |-> IF v = "web" THEN "web" ELSE "a_b"]

------------------------------------------------------------------------------
E == [part |-> NoPart, last |-> FALSE]
Part(i) == [part |-> i, last |-> FALSE]
LastPart(i) == [part |-> i, last |-> TRUE]
Batch1(v, es) == [value |-> v, entries |-> es]
Msg(bs) == [form |-> "good", chunk |-> TRUE, batches |-> bs]
Unasked(m) == [m EXCEPT !.chunk = FALSE]
Formed(form, m) == [m EXCEPT !.form = form]

Base == [protocol |-> "forward", autoCreate |-> FALSE, exists |-> {}, later |-> {},
         taken |-> {}, retains |-> FALSE, patient |-> FALSE, script |-> [c \in Clients |-> <<>>],
         troubles |-> {}, budget |-> 0,
         output |-> [c \in Clients |-> <<>>], up |-> {}, keepRing |-> FALSE, mishaps |-> {},
         boots |-> 0, value |-> [c \in Clients |-> "web"]]
Scripts(one, two) == [c \in Clients |-> IF c = "one" THEN one ELSE two]

\* A sender whose chunk meets failures at every call, and a receiver that dies.
Insisting ==
    [Base EXCEPT !.exists = {"web"}, !.script = Scripts(<<Msg(<<Batch1("web", <<E, E>>)>>)>>, <<>>),
                 !.troubles = {"flush", "fsync", "segment", "die", "give up"}, !.budget = 2]
\* Two senders of one tag that wait as long as they are connected, whose acknowledgements
\* are sent by whoever syncs, a tick at the latest.
Shared ==
    [Base EXCEPT !.exists = {"web"}, !.patient = TRUE,
                 !.script = Scripts(<<Msg(<<Batch1("web", <<E>>)>>)>>,
                                    <<Msg(<<Batch1("web", <<E>>)>>)>>),
                 !.troubles = {"fsync"}, !.budget = 1]
\* A store that is another program's at first, and one an operator makes late; the
\* receiver is stopped in between.
Provisioned ==
    [Base EXCEPT !.exists = {"web"}, !.later = {"a_b"}, !.taken = {"web"},
                 !.script = Scripts(<<Msg(<<Batch1("web", <<E>>)>>), Msg(<<Batch1("a_b", <<E>>)>>)>>,
                                    <<>>),
                 !.troubles = {"stop"}, !.budget = 1]
\* Two values of one name, a store made for whichever comes first.
Colliding ==
    [Base EXCEPT !.protocol = "otlp", !.autoCreate = TRUE,
                 !.script = Scripts(<<Msg(<<Batch1("a/b", <<E>>)>>)>>,
                                    <<Msg(<<Batch1("a_b", <<E>>)>>)>>),
                 !.troubles = {"die"}, !.budget = 1]
\* Split entries: interleaved, too many at once, too long; messages nobody can read, and
\* retention behind it all.
Split ==
    [Base EXCEPT !.autoCreate = TRUE, !.retains = TRUE,
                 !.script = Scripts(<<Msg(<<Batch1("web", <<Part(1), Part(2), E, Part(1), LastPart(1),
                                                           LastPart(2)>>)>>)>>,
                                    <<Formed("gzip", Unasked(Msg(<<Batch1("web", <<E>>)>>)))>>),
                 !.troubles = {"die"}, !.budget = 1]
\* A request of two streams, of which one is declared late, answered as a whole.
Requested ==
    [Base EXCEPT !.protocol = "otlp", !.exists = {"web"}, !.later = {"a_b"},
                 !.script = Scripts(<<Msg(<<Batch1("web", <<E, E>>), Batch1("a_b", <<E>>)>>)>>,
                                    <<Formed("bad", Msg(<<Batch1("web", <<E>>)>>))>>),
                 !.troubles = {"flush", "fsync", "segment", "die"}, !.budget = 1]
\* Two requests to one stream.
Posted ==
    [Base EXCEPT !.protocol = "otlp", !.exists = {"web"},
                 !.script = Scripts(<<Msg(<<Batch1("web", <<E>>)>>)>>,
                                    <<Formed("gzip", Msg(<<Batch1("web", <<E>>)>>)),
                                      Msg(<<Batch1("web", <<E>>)>>)>>),
                 !.troubles = {"segment"}, !.budget = 1]

\* Where the code does something else than its comments say.
\* Two tags of one name: the second is refused, and acknowledged, for the store is held.
Collision ==
    {[Colliding EXCEPT !.protocol = "forward", !.troubles = {}, !.budget = 0]}
\* The segment refuses an entry the buffer has, which the chunk is acknowledged with.
FailedAppend ==
    {[Base EXCEPT !.exists = {"web"}, !.script = Scripts(<<Msg(<<Batch1("web", <<E>>)>>)>>, <<>>),
                  !.troubles = {"append"}, !.budget = 1]}
\* A store is declared between two entries of a chunk: the first has been refused.
MidChunk ==
    {[Base EXCEPT !.later = {"web"}, !.script = Scripts(<<Msg(<<Batch1("web", <<E, E>>)>>)>>, <<>>)]}
\* The first part of a split entry, in a chunk of its own, is acknowledged from memory.
SplitAcross ==
    {[Base EXCEPT !.exists = {"web"},
                  !.script = Scripts(<<Msg(<<Batch1("web", <<E, Part(1)>>)>>)>>, <<>>)]}
\* A segment that could not be started is, over what a flush has left unsynced.
Rearming ==
    {[Base EXCEPT !.exists = {"web"},
                  !.script = Scripts(<<Msg(<<Batch1("web", <<E, E, E, E>>)>>)>>, <<>>),
                  !.troubles = {"segment", "rearm", "die"}, !.budget = 2]}

------------------------------------------------------------------------------
Output(one, two) == [c \in Clients |-> IF c = "one" THEN one ELSE two]
Consoled(one, two) ==
    [Base EXCEPT !.protocol = "console", !.autoCreate = TRUE, !.up = {"one"},
                 !.output = Output(one, two), !.value = Output("web", "a_b")]

\* One instance that a person looks at, its ring emptied as the tap goes along.
Looked ==
    [Consoled(<<"line", "half", "line">>, <<>>) EXCEPT !.mishaps = {"human"}, !.budget = 1]
\* An attach is refused, over the websocket, when the ring holds what nobody has read.
Declined == [Consoled(<<"line", "line">>, <<>>) EXCEPT !.mishaps = {"refuse"}, !.budget = 1]
\* The ring is left as it is: reads that fail cost duplicates.
KeptRing ==
    [Consoled(<<"line", "line">>, <<>>) EXCEPT !.keepRing = TRUE, !.mishaps = {"read", "drain"},
                                               !.budget = 1]
\* An instance that is restarted, or goes, whenever it likes.
Restarted ==
    [Consoled(<<"half">>, <<>>) EXCEPT !.keepRing = TRUE, !.boots = 1]

Intakes ==
    {Insisting, Shared, Provisioned, Colliding, Split, Requested, Posted,
     Looked, Declined, KeptRing, Restarted}
\* The theorems of Intake_proofs are about these, too.
ASSUME IntakesUndisturbed == Environments = Intakes => AcksUndisturbed /\ OutputUndisturbed

------------------------------------------------------------------------------
\* OutputKept is violated: the first reading of the ring fails, and a later one throws away
\* what came before the attach.
UndrainedRing == {[Consoled(<<"line", "line">>, <<>>) EXCEPT !.mishaps = {"drain"}, !.budget = 1]}
\* What the ring ended with, an unfinished line, is lost with a read that fails, or dropped
\* with a refusal that follows it.
LostHalf == {[Consoled(<<"half">>, <<>>) EXCEPT !.mishaps = {"read"}, !.budget = 1]}
RefusedHalf == {[Consoled(<<"half">>, <<>>) EXCEPT !.mishaps = {"refuse"}, !.budget = 1]}
\* Another program has the store: what was read of the ring for it is gone.
TakenStore ==
    {[Consoled(<<"line">>, <<>>) EXCEPT !.autoCreate = TRUE, !.exists = {"web"}, !.taken = {"web"}]}
\* All an instance says is one line that reads like a refusal.
DyingWord == {[Consoled(<<"error">>, <<>>) EXCEPT !.boots = 1]}
\* A tap that is behind empties the ring of the instance's next life.
NextLife == {[Consoled(<<"line", "line">>, <<>>) EXCEPT !.boots = 1]}
\* RunningIsTapped is violated: an instance starts between the list and the subscription,
\* or while the tap of its last life is on its way out, or Incus fails to answer once.
Unseen == {[Consoled(<<>>, <<>>) EXCEPT !.mishaps = {"unseen"}, !.boots = 1]}
Raced == {[Consoled(<<>>, <<>>) EXCEPT !.mishaps = {"raced"}, !.boots = 1]}
DeafOnce == {[Consoled(<<>>, <<>>) EXCEPT !.mishaps = {"ask"}]}
\* ConsolesReleased is violated: the maintenance thread ends the process before the taps do.
Stopped == {[Consoled(<<"line">>, <<>>) EXCEPT !.troubles = {"stop"}, !.budget = 1]}
==============================================================================
