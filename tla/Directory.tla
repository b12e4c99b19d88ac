----------------------------- MODULE Directory -----------------------------
(***************************************************************************)
(* The programs that share one backing directory, and what keeps them      *)
(* apart: two appenders of one log, one taking over from the other         *)
(* (append.rs); a trim that may delete what it empties and a rotation that *)
(* moves a head to another log (rotate.rs); a mount, which owns every log  *)
(* and renames them (fs.rs).  A directory lock and a lock file per log are *)
(* held by processes and die with them (store.rs).                         *)
(*                                                                         *)
(* A chunk is one entry, written at once and acknowledged; FileStore is    *)
(* about how, and HeadDrop about how a head is cut.  A file is an inode:   *)
(* a process goes on with the one it has opened.                           *)
(***************************************************************************)
EXTENDS Integers, Sequences, SequencesExt, FiniteSets

CONSTANTS MaxEntries, MaxInodes, MaxFailures, Environments

Names == {"log", "old"}
Processes == {"append", "successor", "trim", "rotate", "mount"}

\* runs: the processes that are started.  kept: the logs there are, each with a manifest
\* and filters if declared.  events: processes die; a trim deletes what it has emptied; the
\* mount renames "log" over "old"; a chunk may be of one moment; a process starts beside one
\* that has no lock yet, or none any more; a mount dies between two renames, or a rotation
\* between its copy and its cut.
Environment ==
    [runs : SUBSET Processes, kept : SUBSET Names, declared : SUBSET Names,
     events : SUBSET {"dies", "deletes", "renames", "moments", "beside", "halfway", "midway"}]

ASSUME DirectoryAssumption ==
    /\ {MaxEntries, MaxInodes} \subseteq Nat \ {0} /\ MaxFailures \in Nat
    /\ Environments \subseteq Environment

VARIABLES
    env,
    rings, trunk,   \* per log: [ino, id, ever, recs], ever: has it held a chunk; [ino, frames];
                    \* ino 0 where there is none
    bark, grain,    \* the store its manifest is of, 0 for none; the chunks its filters are of
    lockFile,       \* per log, its inode
    dirLock,        \* the processes that have the directory
    pc,
    tried, held,    \* the inodes of the lock files a process has opened, and has locked
    image,          \* per process and log: [ring, trunk, chunks], what it has open and knows
    moving,         \* what a rotation has copied, and whether to a log it made
    entries,        \* how many have been written, each by its number
    retired,        \* those a policy let go
    inodes,         \* how many inodes, and ids of stores, were given
    failures

diskVars == <<rings, trunk, bark, grain>>
dirVars == <<env, diskVars, lockFile, dirLock, pc, tried, held, image, moving, entries,
             retired, inodes, failures>>

------------------------------------------------------------------------------
Event(e) == e \in env.events
Still == [head |-> <<>>, new |-> FALSE]
NotOpen == [ring |-> 0, trunk |-> 0, chunks |-> <<>>]
Nothing == [n \in Names |-> NotOpen]
Wanted(p) == IF p = "rotate" THEN Names ELSE {"log"}
Live(p) == pc[p] # "down"

\* What an open finds: the records whose frames the trunk has.
Whole(n) ==
    LET found == IF rings[n].ino = 0 \/ trunk[n].ino = 0 THEN 0
                 ELSE IF Len(trunk[n].frames) < Len(rings[n].recs) THEN Len(trunk[n].frames)
                 ELSE Len(rings[n].recs)
    IN  SubSeq(trunk[n].frames, 1, found)

DirInit ==
    /\ env \in Environments
    /\ rings = [n \in Names |-> [ino |-> IF n \in env.kept THEN 1 ELSE 0,
                                 id |-> IF n = "log" THEN 1 ELSE 2,
                                 ever |-> FALSE, recs |-> <<>>]]
    /\ trunk = [n \in Names |-> [ino |-> IF n \in env.kept THEN 1 ELSE 0, frames |-> <<>>]]
    /\ bark = [n \in Names |-> IF n \in env.kept \cap env.declared THEN rings[n].id ELSE 0]
    /\ grain = [n \in Names |-> <<>>]
    /\ lockFile = [n \in Names |-> IF n \in env.kept THEN 1 ELSE 0]
    /\ dirLock = {} /\ pc = [p \in Processes |-> "down"]
    /\ tried = [p \in Processes |-> [n \in Names |-> 0]]
    /\ held = [p \in Processes |-> [n \in Names |-> 0]]
    /\ image = [p \in Processes |-> Nothing] /\ moving = Still
    /\ entries = 0 /\ retired = {} /\ inodes = 2 /\ failures = 0

------------------------------------------------------------------------------
\* Locks.  The directory is shared by all but a mount, which has it alone; a lock file is
\* made where there is none, opened, and then locked.
MayEnterAnyway(p) == p # "mount"
MayEnter(p) == p # "mount" /\ "mount" \notin dirLock

Enter(p) ==
    /\ p # "mount" /\ p \in env.runs /\ pc[p] = "down" /\ MayEnter(p)
    /\ Event("beside") \/ (pc["trim"] # "deletes" /\ pc["mount"] # "claims")
    /\ p \in {"trim", "rotate"} => rings["log"].ino # 0
    /\ inodes < MaxInodes /\ inodes' = inodes + 1
    /\ lockFile' = [n \in Names |-> IF n \in Wanted(p) /\ lockFile[n] = 0 THEN inodes' ELSE lockFile[n]]
    /\ tried' = [tried EXCEPT ![p] = [n \in Names |-> IF n \in Wanted(p) THEN lockFile'[n] ELSE 0]]
    /\ dirLock' = dirLock \cup {p} /\ pc' = [pc EXCEPT ![p] = "locks"]
    /\ UNCHANGED <<env, diskVars, held, image, moving, entries, retired, failures>>

FreeForSuccessor(p) == p # "successor" => \A q \in Processes \ {p} : held[q]["log"] # tried[p]["log"]
Free(p) == \A q \in Processes \ {p} : \A n \in Wanted(p) : held[q][n] # tried[p][n]

Grab(p) ==
    /\ pc[p] = "locks" /\ Free(p)
    /\ held' = [held EXCEPT ![p] = tried[p]] /\ pc' = [pc EXCEPT ![p] = "opens"]
    /\ UNCHANGED <<env, diskVars, lockFile, dirLock, tried, image, moving, entries, retired,
                   inodes, failures>>

\* The end of a process, in order or not: the kernel lets its locks go.
Gone(p) ==
    /\ pc' = [pc EXCEPT ![p] = "down"] /\ dirLock' = dirLock \ {p}
    /\ tried' = [tried EXCEPT ![p] = [n \in Names |-> 0]]
    /\ held' = [held EXCEPT ![p] = [n \in Names |-> 0]]
    /\ image' = [image EXCEPT ![p] = Nothing]
    /\ moving' = IF p \in {"rotate", "mount"} THEN Still ELSE moving
    /\ UNCHANGED <<env, lockFile, entries, retired, inodes>>

\* Only an appender that takes over waits, and for so long.
GiveUp(p) == pc[p] = "locks" /\ ~Free(p) /\ Gone(p) /\ UNCHANGED <<diskVars, failures>>

\* FileStore::open makes what is missing, and refuses a log whose index and manifest are of
\* two stores.
Refused(n) == rings[n].ino # 0 /\ bark[n] \notin {0, rings[n].id}
Opened(n, ino) ==
    /\ rings' = [rings EXCEPT ![n] = [ino |-> IF @.ino = 0 THEN ino ELSE @.ino,
                                      id |-> IF @.ino # 0 THEN @.id
                                             ELSE IF bark[n] # 0 THEN bark[n] ELSE ino,
                                      ever |-> @.ino # 0 /\ @.ever, recs |-> Whole(n)]]
    /\ trunk' = [trunk EXCEPT ![n].ino = IF @ = 0 THEN ino ELSE @]
ImageOf(n) == [ring |-> rings'[n].ino, trunk |-> trunk'[n].ino, chunks |-> rings'[n].recs]

OpenLog(p) ==
    /\ pc[p] = "opens" /\ inodes < MaxInodes
    /\ IF Refused("log") THEN Gone(p) /\ UNCHANGED diskVars
       ELSE /\ Opened("log", inodes + 1) /\ inodes' = inodes + 1
            /\ image' = [image EXCEPT ![p]["log"] = ImageOf("log")]
            /\ pc' = [pc EXCEPT ![p] = "runs"]
            /\ UNCHANGED <<env, bark, grain, lockFile, dirLock, tried, held, moving, entries, retired>>
    /\ UNCHANGED failures

\* A mount opens every log of the directory, and only then takes it.
Enumerate ==
    /\ "mount" \in env.runs /\ pc["mount"] = "down"
    /\ Event("beside") \/ (dirLock = {} /\ pc["trim"] # "deletes")
    /\ ~ \E n \in Names : Refused(n)
    /\ image' = [image EXCEPT !["mount"] =
                     [n \in Names |-> IF rings[n].ino = 0 THEN NotOpen
                                      ELSE [ring |-> rings[n].ino, trunk |-> trunk[n].ino,
                                            chunks |-> Whole(n)]]]
    /\ rings' = [n \in Names |-> [rings[n] EXCEPT !.recs = Whole(n)]]
    /\ pc' = [pc EXCEPT !["mount"] = "claims"]
    /\ UNCHANGED <<env, trunk, bark, grain, lockFile, dirLock, tried, held, moving, entries,
                   retired, inodes, failures>>

MayClaim == dirLock = {}
Claim ==
    /\ pc["mount"] = "claims"
    /\ IF MayClaim
       THEN /\ dirLock' = dirLock \cup {"mount"} /\ pc' = [pc EXCEPT !["mount"] = "runs"]
            /\ UNCHANGED <<env, lockFile, tried, held, image, moving, entries, retired, inodes>>
       ELSE Gone("mount")
    /\ UNCHANGED <<diskVars, failures>>

------------------------------------------------------------------------------
\* A writer writes where its image ends, in the files it has open; a mount's mutex is held
\* all through a rotation.
Idle(p) == pc[p] = "runs" /\ (p = "mount" => moving = Still)

Put(s, i, e) ==
    [j \in 1 .. (IF Len(s) < i THEN i ELSE Len(s)) |->
        IF j = i THEN e ELSE IF j <= Len(s) THEN s[j] ELSE 0]

Write(p, n) ==
    LET at == Len(image[p][n].chunks) + 1
    IN  /\ p \in {"append", "successor", "mount"} /\ Idle(p) /\ entries < MaxEntries
        /\ image[p][n].ring # 0 /\ entries' = entries + 1
        /\ rings' = IF rings[n].ino # image[p][n].ring THEN rings
                    ELSE [rings EXCEPT ![n].recs = Put(@, at, entries'), ![n].ever = TRUE]
        /\ trunk' = IF trunk[n].ino # image[p][n].trunk THEN trunk
                    ELSE [trunk EXCEPT ![n].frames = Put(@, at, entries')]
        /\ image' = [image EXCEPT ![p][n].chunks = Append(@, entries')]
        /\ UNCHANGED <<env, bark, grain, lockFile, dirLock, pc, tried, held, moving, retired,
                       inodes, failures>>

\* extend_grain, of a log that declares filters: those of what has been added, or all.
Extend(p, n) ==
    /\ pc[p] = "runs" /\ p # "rotate" /\ bark[n] # 0 /\ rings[n].ino # 0 /\ image[p][n].ring # 0
    /\ grain[n] # rings[n].recs
    /\ grain' = [grain EXCEPT ![n] =
                     IF Len(@) > Len(rings[n].recs) THEN rings[n].recs
                     ELSE @ \o SubSeq(rings[n].recs, Len(@) + 1, Len(rings[n].recs))]
    /\ UNCHANGED <<env, rings, trunk, bark, lockFile, dirLock, pc, tried, held, image, moving,
                   entries, retired, inodes, failures>>

\* remove_head: the rest of the pair in new files, and rebase_head.
Rest(s, k) == SubSeq(s, k + 1, Len(s))
RebasedNever(f, k) == f
Rebased(f, k) == SubSeq(f, k + 1, Len(f))
CutHead(p, n, k) ==
    LET rest == Rest(image[p][n].chunks, k)
    IN  /\ inodes < MaxInodes /\ inodes' = inodes + 1
        /\ rings' = [rings EXCEPT ![n].ino = inodes', ![n].recs = rest]
        /\ trunk' = [trunk EXCEPT ![n] = [ino |-> inodes', frames |-> rest]]
        /\ grain' = [grain EXCEPT ![n] = Rebased(@, k)]
        /\ image' = [image EXCEPT ![p][n] = ImageOf(n)]

\* enforce_retention, which any writer does.  A trim that has emptied its log goes on to
\* delete it, its locks let go.
Retain(p, n) ==
    /\ p # "rotate" /\ Idle(p)
    /\ \E k \in 1 .. Len(image[p][n].chunks) :
        /\ CutHead(p, n, k) /\ retired' = retired \cup Range(SubSeq(image[p][n].chunks, 1, k))
    /\ UNCHANGED <<env, bark, lockFile, dirLock, pc, tried, held, moving, entries, failures>>

Trimmed ==
    /\ pc["trim"] = "runs" /\ Event("deletes") /\ image["trim"]["log"].chunks = <<>>
    /\ rings["log"].ever /\ (Event("beside") \/ \A q \in Processes \ {"trim"} : ~Live(q))
    /\ pc' = [pc EXCEPT !["trim"] = "deletes"]
    /\ dirLock' = dirLock \ {"trim"} /\ held' = [held EXCEPT !["trim"] = [n \in Names |-> 0]]
    /\ UNCHANGED <<env, diskVars, lockFile, tried, image, moving, entries, retired, inodes,
                   failures>>

\* delete_emptied_store: the index first, the lock file last.
Delete ==
    /\ pc["trim"] = "deletes"
    /\ IF rings["log"].ino # 0
       THEN /\ rings' = [rings EXCEPT !["log"].ino = 0, !["log"].recs = <<>>,
                                          !["log"].ever = FALSE]
            /\ UNCHANGED <<env, trunk, bark, grain, lockFile, dirLock, pc, tried, held, image,
                           moving, entries, retired, inodes>>
       ELSE /\ trunk' = [trunk EXCEPT !["log"] = [ino |-> 0, frames |-> <<>>]]
            /\ bark' = [bark EXCEPT !["log"] = 0] /\ grain' = [grain EXCEPT !["log"] = <<>>]
            /\ lockFile' = [lockFile EXCEPT !["log"] = 0] /\ UNCHANGED rings
            /\ pc' = [pc EXCEPT !["trim"] = "down"]
            /\ tried' = [tried EXCEPT !["trim"] = [n \in Names |-> 0]]
            /\ image' = [image EXCEPT !["trim"] = Nothing]
            /\ UNCHANGED <<env, dirLock, held, moving, entries, retired, inodes>>
    /\ UNCHANGED failures

------------------------------------------------------------------------------
\* rotate_head: the chunks of the head are copied to the target, then cut; a target that
\* is new gets a manifest last, which names its source: that gets one too.
Newer(last, first) == last > first \/ (last = first /\ ~Event("moments"))
Rotator(p) == p \in {"rotate", "mount"} /\ pc[p] = "runs" /\ moving = Still
InOrder(head) == Whole("old") # <<>> => ~Newer(Last(Whole("old")), Head(head))

CopyHead(p) ==
    /\ Rotator(p) /\ "rotate" \in env.runs /\ ~Refused("old") /\ image[p]["log"].ring # 0
    /\ inodes < MaxInodes /\ inodes' = inodes + 1
    /\ \E k \in 1 .. Len(image[p]["log"].chunks) :
        LET head == SubSeq(image[p]["log"].chunks, 1, k)
            base == Whole("old")
            ino == IF rings["old"].ino = 0 THEN inodes' ELSE rings["old"].ino
            at == IF trunk["old"].ino = 0 THEN inodes' ELSE trunk["old"].ino
            id == IF rings["old"].ino # 0 THEN rings["old"].id
                  ELSE IF bark["old"] # 0 THEN bark["old"] ELSE inodes'
        IN  /\ InOrder(head)
            /\ rings' = [rings EXCEPT !["old"] = [ino |-> ino, id |-> id, ever |-> TRUE,
                                                 recs |-> base \o head]]
            /\ trunk' = [trunk EXCEPT !["old"] = [ino |-> at, frames |-> base \o head]]
            /\ image' = [image EXCEPT ![p]["old"] = ImageOf("old")]
            /\ moving' = [head |-> head, new |-> rings["old"].ino = 0]
    /\ UNCHANGED <<env, bark, grain, lockFile, dirLock, pc, tried, held, entries, retired, failures>>

CutRotated(p) ==
    /\ p \in {"rotate", "mount"} /\ pc[p] = "runs" /\ moving # Still /\ image[p]["old"].ring # 0
    /\ CutHead(p, "log", Len(moving.head)) /\ moving' = Still
    /\ bark' = IF moving.new THEN [n \in Names |-> rings[n].id] ELSE bark
    /\ UNCHANGED <<env, lockFile, dirLock, pc, tried, held, entries, retired, failures>>

------------------------------------------------------------------------------
\* Store::rename of a mounted "log" to "old": the target's pair goes, then the files move
\* one by one.  What the target has and "log" has not, stays.
MovedTrunk ==
    /\ pc["mount"] = "runs" /\ moving = Still /\ Event("renames") /\ image["mount"]["log"].ring # 0
    /\ retired' = retired \cup Range(Whole("old"))
    /\ trunk' = [trunk EXCEPT !["old"] = trunk["log"], !["log"] = [ino |-> 0, frames |-> <<>>]]
    /\ rings' = [rings EXCEPT !["old"].ino = 0, !["old"].ever = FALSE, !["old"].recs = <<>>]
    /\ pc' = [pc EXCEPT !["mount"] = "renames"]
    /\ UNCHANGED <<env, bark, grain, lockFile, dirLock, tried, held, image, moving, entries,
                   inodes, failures>>

MovedIfThere(f, none) ==
    IF f["log"] = none THEN f ELSE [f EXCEPT !["old"] = f["log"], !["log"] = none]

SidesMoved == bark' = MovedIfThere(bark, 0) /\ grain' = MovedIfThere(grain, <<>>)

MovedRest ==
    /\ pc["mount"] = "renames" /\ SidesMoved
    /\ rings' = [rings EXCEPT !["old"] = rings["log"], !["log"].ino = 0, !["log"].ever = FALSE,
                                  !["log"].recs = <<>>]
    /\ image' = [image EXCEPT !["mount"] = [n \in Names |->
                     IF n = "old" THEN image["mount"]["log"] ELSE NotOpen]]
    /\ pc' = [pc EXCEPT !["mount"] = "runs"]
    /\ UNCHANGED <<env, trunk, lockFile, dirLock, tried, held, moving, entries, retired, inodes, failures>>

------------------------------------------------------------------------------
\* A process ends, or dies wherever it is.
Exit(p) ==
    /\ pc[p] = "runs" /\ (p \in {"rotate", "mount"} => moving = Still)
    /\ Gone(p) /\ UNCHANGED <<diskVars, failures>>

Die(p) ==
    /\ Event("dies") /\ Live(p) /\ failures < MaxFailures /\ failures' = failures + 1
    /\ pc[p] = "renames" => Event("halfway")
    /\ (p \in {"rotate", "mount"} /\ moving # Still) => Event("midway")
    /\ Gone(p) /\ UNCHANGED diskVars

DirNext ==
    \/ \E p \in Processes :
        \/ Enter(p) \/ Grab(p) \/ GiveUp(p) \/ OpenLog(p) \/ CopyHead(p) \/ CutRotated(p)
        \/ Exit(p) \/ Die(p)
        \/ \E n \in Names : Write(p, n) \/ Extend(p, n) \/ Retain(p, n)
    \/ Enumerate \/ Claim \/ Trimmed \/ Delete \/ MovedTrunk \/ MovedRest

DirSpec == DirInit /\ [][DirNext]_dirVars

------------------------------------------------------------------------------
\* What is acknowledged is in the directory until a policy lets it go, whoever writes,
\* rotates, renames or dies.
NothingVanishes ==
    pc["mount"] # "renames" =>
        1 .. entries \subseteq retired \cup Range(Whole("log")) \cup Range(Whole("old"))

\* A writer's image of a log, by which it decides where the next chunk goes, is that log:
\* nobody else has written it since, and it is the file of that name.
ImagesTrue ==
    \A p \in Processes, n \in Names :
        (pc[p] = "runs" /\ image[p][n].ring # 0) =>
            /\ rings[n].ino = image[p][n].ring /\ rings[n].recs = image[p][n].chunks
            /\ trunk[n].ino = image[p][n].trunk

\* The filters and the manifest of a log are of the store its pair is: a filter of other
\* chunks hides entries, and two identities refuse every open.
SidesBelong ==
    pc["mount"] # "renames" =>
        \A n \in Names :
            /\ rings[n].ino # 0 => ~Refused(n)
            /\ \A i \in DOMAIN grain[n] : i <= Len(rings[n].recs) => grain[n][i] = rings[n].recs[i]

\* Between rotations a chunk is in one log.
InOneLog == moving = Still => Range(Whole("log")) \cap Range(Whole("old")) = {}
==============================================================================
