------------------------------ MODULE MCRelay ------------------------------
(***************************************************************************)
(* The environments TLC checks Relay under.                                *)
(***************************************************************************)
EXTENDS Relay

Relayed(pages, events) == [pages |-> pages, events |-> events]

Failing_ == Relayed(FALSE, {"senderFails", "receiverFails", "sourceDrops", "replicaDrops"})
Indexed == Relayed(TRUE, {"senderFails", "sourceDrops", "replicaDrops", "leaves"})
Plain == Relayed(FALSE, {"unindexed"})

Gapped == Relayed(FALSE, {"sourceDrops", "overrun", "senderFails"})

Links == {Failing_, Indexed, Plain, Gapped}

------------------------------------------------------------------------------
\* What the code does not survive.  A chunk is shipped before it is on the source's disk,
\* and power fails: its number is given again to other entries (ReplicaIsTheTape).
Unsynced == {Relayed(FALSE, {"power", "unsynced"})}

\* A chunk is shipped before the source's filters reach it: the next chunk's filter takes
\* its place in the replica's index (FiltersMatch).
Unindexed == {Relayed(TRUE, {"unindexed"})}

\* The source drops its head between the sender's readings of its index and of its filters:
\* each chunk goes with the filter of a later one (FiltersMatch).
Raced == {Relayed(TRUE, {"sourceDrops", "raced"})}

\* The receiver dies between appending a chunk and its filter (FiltersMatch).
Halved == {Relayed(TRUE, {"receiverFails"})}

\* The sender's host is gone without a word: its session keeps the replica's lock (CatchesUp).
Silent == {Relayed(FALSE, {"power"})}

\* The source drops what is not acknowledged: the replica refuses the gap for good (Resumes).
Overrun == {Relayed(FALSE, {"sourceDrops", "overrun"})}

\* Retention empties the replica, which then asks for the first chunk again (CatchesUp).
Emptied == {Relayed(FALSE, {"senderFails", "replicaDrops", "replicaEmpties"})}
==============================================================================
