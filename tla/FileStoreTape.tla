--------------------------- MODULE FileStoreTape ----------------------------
(***************************************************************************)
(* FileStore implements Tape.  While a writer has the store open, the tape *)
(* is what its chunks and its buffer hold; while it is down or reopening,  *)
(* it is what the reconciliation will make of the files on disk.           *)
(***************************************************************************)
EXTENDS FileStore

Run(a, b) == a .. b - 1

FramesHeld(n) == UNION {Run(trunk[i].lo, trunk[i].hi) : i \in 1 .. n}

\* What FileStore::open recovers from the disk as it stands.
Held(seg, applies) == seg.there /\ seg.lo < seg.hi /\ applies

RecoveredContent ==
    FramesHeld(Intact)
        \cup (IF Held(seal, seal.base >= Intact) THEN Run(seal.lo, seal.hi) ELSE {})
        \cup (IF Held(sap, TRUE) THEN Run(sap.lo, sap.hi) ELSE {})

RecoveredEnd ==
    IF Held(sap, TRUE) THEN sap.hi
    ELSE IF Held(seal, seal.base >= Intact) THEN seal.hi
    ELSE TapeEnd(Intact)

Reopening == pc \in {"down", "open_seal", "replay_frame", "replay_record",
                     "replay_sync", "replay_unlink", "open_live"}

\* A reset drops the chunks first, and what was buffered with the segment.
Buffered == IF pc = "reset" THEN Run(head, hi) ELSE Run(lo, hi)

Content == IF Reopening THEN RecoveredContent
           ELSE FramesHeld(CompSize) \cup Buffered
End == IF Reopening THEN RecoveredEnd ELSE hi

T == INSTANCE Tape WITH content <- Content, end <- End, durable <- acked

\* Every step of the store is a step of the tape or leaves the tape alone: the
\* contract of module Tape, across flushes, replays, head drops and crashes.
ImplementsTape == T!Spec

\* At every moment, in the middle of an open or a flush too, the tape is one run
\* of entries, and nothing reported durable lies beyond its end.
TapeIsOneRun == T!OneRun
==============================================================================
