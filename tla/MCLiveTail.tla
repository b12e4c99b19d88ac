----------------------------- MODULE MCLiveTail -----------------------------
(***************************************************************************)
(* The environments TLC checks LiveTail under: which reader there is,      *)
(* whether write-ahead is declared, and what else may happen.              *)
(***************************************************************************)
EXTENDS LiveTail

Beside(reader, declared, what) == [reader |-> reader, wal |-> declared, happens |-> what]

\* A follow from now or from further back, beside a writer with a segment that is
\* flushed, dies, is switched off and on or drops heads, or one without that drops
\* what the follower had still to read.
Following ==
    {Beside("follow", TRUE, {"drop"}), Beside("tail", TRUE, {"crash"}),
     Beside("tail", TRUE, {"drop", "dropInPass"}), Beside("tail", TRUE, {"toggle", "degrade"}),
     Beside("follow", FALSE, {"drop", "overtake"})}

\* Reads that resume from the last one's position, beside a writer that is in no way
\* slow, or one without a segment that may drop everything.
Resuming ==
    {Beside("resume", TRUE, {"crash", "burst"}), Beside("resume", TRUE, {"toggle", "burst"}),
     Beside("resume", FALSE, {"drop", "empty"})}

ReadersBesideWriter == Following \cup Resuming

------------------------------------------------------------------------------
\* Where the code does something else than its comments say: each the least
\* environment in which TLC finds the property of the configuration of the same
\* subject violated.
Bursts == {Beside("follow", TRUE, {"burst"})}
FlushAtStart == {Beside("follow", TRUE, {"flushAtStart"})}
ResumeAfterDrop == {Beside("resume", TRUE, {"drop"})}
Overtaken == {Beside("follow", TRUE, {"drop", "overtake"})}
EmptiedUnderFollower == {Beside("tail", FALSE, {"drop", "empty", "overtake"})}
InodesRecur == {Beside("follow", TRUE, {"inode"})}
UnsealedFlush == {Beside("follow", TRUE, {"unseal"})}
KeysRecur == {Beside("tail", FALSE, {"key", "drop"})}
DropInPass == {Beside("resume", FALSE, {"drop", "dropInPass"})}
==============================================================================
