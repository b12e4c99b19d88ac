---------------------------- MODULE MCDirectory ----------------------------
(***************************************************************************)
(* The environments TLC checks Directory and Mount under.                  *)
(***************************************************************************)
EXTENDS Mount

Shared(runs, kept, declared, events) ==
    [runs |-> runs, kept |-> kept, declared |-> declared, events |-> events]

\* One appender takes over from another, and a trim comes when neither is there.
Handoff == Shared({"append", "successor", "trim"}, {"log"}, {"log"}, {"dies"})
Deleting == Shared({"append", "successor", "trim"}, {}, {}, {"deletes", "dies"})
Rotating == Shared({"append", "rotate"}, {"log"}, {"log"}, {"dies"})
Appended == Shared({"append", "rotate"}, {"log", "old"}, {"log", "old"}, {})
Mounted == Shared({"append", "mount", "rotate"}, {"log"}, {"log"}, {"dies"})
Renaming == Shared({"append", "mount"}, {"log", "old"}, {}, {"renames", "dies"})

\* None, for the volumes below.
Alone == Shared({}, {}, {}, {})

Directories == {Handoff, Deleting, Rotating, Appended, Mounted, Renaming, Alone}

------------------------------------------------------------------------------
Mounting(logs, retains, indexes, requests, troubles) ==
    [logs |-> logs, retains |-> retains, indexes |-> indexes, requests |-> requests,
     handles |-> {"appender"}, troubles |-> troubles, budget |-> 2, writes |-> 2]

\* Names that come, go, change their logs and come back, under a handle; under two.
Shuffled == [Mounting(Names, {}, {}, {"create", "unlink", "rename", "rotate"}, {}) EXCEPT !.budget = 3]
Cut == [Mounting({"log"}, {"log"}, {}, {"rotate"}, {}) EXCEPT !.handles = Handles]
\* An index and a policy declared, changed and kept up, with an upgrade.
Kept == [Mounting({"log"}, {"log"}, {"log"}, {"set", "truncate"}, {"upgrade", "garbled"}) EXCEPT !.writes = 3]
\* Logs with filters are moved, cut and made again while the flusher is elsewhere.
Moved == Mounting({"log"}, {}, {"log"}, {"create", "rename", "rotate", "unlink"}, {})

Mounts == {NoVolume, Shuffled, Cut, Kept, Moved}

------------------------------------------------------------------------------
\* What the code does not survive.  An appender starts while a trim deletes what it has
\* emptied, its locks let go (NothingVanishes).
Deleted == {Shared({"append", "trim"}, {"log"}, {}, {"deletes", "beside"})}

\* A mount opens the logs of the directory while an appender is still there (ImagesTrue,
\* NothingVanishes).
Beside == {Shared({"append", "mount"}, {"log"}, {}, {"beside"})}

\* A mount dies between the renames of a trunk and of its index (NothingVanishes).
Halfway == {Shared({"append", "mount"}, {"log"}, {}, {"renames", "dies", "halfway"})}

\* A log without a manifest is renamed over one that has one (SidesBelong).
Undeclared == {Shared({"append", "mount"}, {"log", "old"}, {"old"}, {"renames"})}

\* A rotation dies between its copy and its cut (InOneLog).
Midway == {Shared({"append", "rotate"}, {"log"}, {}, {"dies", "midway"})}

\* A rotation cuts a log while its filters are extended (FiltersTrue).
NobodyElse == {Alone}
CutBeside == {Mounting({"log"}, {}, {"log"}, {"rotate"}, {"beside extending"})}

\* A log without filters is renamed over one that has them (FiltersTrue).
Overwritten == {Mounting(Names, {}, {"old"}, {"rename"}, {"over filters"})}

\* An empty target cannot be made, and is listed (HandlesKeepTheirLog).
Unlisted == {Mounting({"log"}, {}, {}, {"rotate", "create"}, {"target"})}

\* A log is renamed over one whose policy was just read; one whose manifest does not parse
\* takes the name of one that had a policy (DropsAsDeclared).
RenamedBeside == {Mounting(Names, {"old"}, {"log"}, {"rename"}, {"beside retention"})}
Inherited == {Mounting(Names, {"old"}, {}, {"rename", "set"}, {"garbled"})}

\* A write between the last flush of an upgraded binary and its exit (WritesKept).
Late == {Mounting({"log"}, {}, {}, {}, {"upgrade", "late"})}

\* A chunk goes and another comes in one second (IndexFollows).
CountRecurs == {Mounting({"log"}, {"log"}, {"log"}, {}, {})}
=============================================================================
