------------------------------ MODULE Registry ------------------------------
(***************************************************************************)
(* The follower registry (src/src/follower.rs) and the retention that       *)
(* reads it (store.rs enforce_retention, the tick of intake.rs).  A         *)
(* follower is a directory with a declaration, the operator's, and          *)
(* positions, the running follower's; a store that declares                 *)
(* retain_unconsumed drops its head once every retaining follower that      *)
(* covers it has read it, and its age and size budgets drop it anyway.      *)
(*                                                                         *)
(* One operator creates, updates and deletes followers; processes run them; *)
(* one maintenance thread visits the stores, each visit in several steps.   *)
(* A chunk is its number.  What a position says of the inside of a chunk is  *)
(* whether it was read whole.                                               *)
(***************************************************************************)
EXTENDS Naturals, Sequences, FiniteSetsExt

CONSTANTS
    Stores, Followers, Processes, Labels,   \* disjoint: a store stands for its identity
    MaxChunks,      \* bound: chunks a store ever has
    Slack,          \* what a collapse may leave behind: two filesystem blocks
    Environments    \* the arrangements a behaviour may start in

CONSTANTS
    None,
    Missing, Spoilt,    \* what a file of a follower's directory can be besides what it should be
    Closed              \* a registry that could not be read

\* What one arrangement says: the budgets (None where none is declared), the stores that
\* declare retain_unconsumed, the size of each chunk a store will have and how many there are,
\* what is declared and read at the start, the names and selections the operator uses, and what may happen.
Happening == {"create", "update", "delete", "relabel", "torn", "spoil", "tick", "trim", "die",
              "hurried", "cut", "sealed between"}

\* A declaration, which says what it selects; a place in a store, the last chunk read and
\* whether it was read whole; an old cursor, which knows one place and no store.
Declaration == [select : SUBSET (Labels \cup Stores), retaining : BOOLEAN]
Positions == [Stores -> {None} \cup [chunk : Nat, whole : BOOLEAN]]
Cursor == [chunk : Nat, delivered : BOOLEAN]
Registered(r) ==
    /\ [select |-> r.select, retaining |-> r.retaining] \in Declaration
    /\ r.places \in {Missing, Spoilt} \cup Positions
    /\ r.legacy \in {Missing, Spoilt} \cup Cursor

Environment(e) ==
    /\ e.age \in Nat \cup {None} /\ e.budget \in Nat \cup {None} /\ e.unconsumed \subseteq Stores
    /\ e.sizes \in [Stores -> Seq(Nat \ {0})] /\ e.there \in [Stores -> Nat]
    /\ \A s \in Stores : e.there[s] <= Len(e.sizes[s]) /\ Len(e.sizes[s]) <= MaxChunks
    /\ e.label \in [Stores -> Labels] /\ DOMAIN e.registered = Followers
    /\ \A f \in Followers : e.registered[f] = None \/ Registered(e.registered[f])
    /\ e.names \subseteq Followers /\ e.selects \subseteq SUBSET (Labels \cup Stores)
    /\ e.commands \in Nat /\ e.starts \in Nat /\ e.hours \in Nat /\ e.may \subseteq Happening

ASSUME RegistryAssumption ==
    /\ MaxChunks \in Nat /\ Slack \in Nat /\ IsFiniteSet(Stores) /\ IsFiniteSet(Followers)
    /\ \A e \in Environments : Environment(e)

\* What stands for nothing, or for a file that is not what it should be, is nothing else.
ASSUME MarksAssumption ==
    /\ None \notin Followers /\ "dead" \notin Processes
    /\ Missing # Spoilt /\ {Missing, Spoilt} \cap (Declaration \cup Positions \cup Cursor) = {}
    /\ \A fs \in SUBSET Followers :
           Closed \notin [fs -> [select : SUBSET (Labels \cup Stores), at : [Stores -> Nat \cup {None}]]]

VARIABLES
    env,
    \* per store: the chunks first..next-1, when each was written, its label, and whether
    \* its manifest can be read
    first, next, written, label, torn, now,
    \* per follower: its directory
    dir,
    serial,         \* inodes of lock files so far
    proc,           \* the processes that run followers
    command,        \* the operator's command under way
    tick,           \* the maintenance thread
    commands, starts,
    \* history: what each follower's consumer has been given of the follower as registered,
    \* what the operator last declared, and what the last visit dropped
    got, declared, verdict

storeVars == <<first, next, written, label, torn, now>>
registryVars == <<dir, serial, declared>>
operatorVars == <<command, commands>>
procVars == <<proc, starts, got>>
tickVars == <<tick, verdict>>
vars == <<env, storeVars, registryVars, operatorVars, procVars, tickVars>>

May(what) == what \in env.may
Here == {s \in Stores : env.sizes[s] # <<>>}     \* the stores there are

NoPlaces == [s \in Stores |-> None]
NoDir == [here |-> FALSE, decl |-> Missing, places |-> Missing, legacy |-> Missing, inode |-> 0, pid |-> None]
Made == [NoDir EXCEPT !.here = TRUE]
Off == [pc |-> "off", f |-> None, select |-> {}, inode |-> 0, mem |-> NoPlaces, unsaved |-> FALSE]
Idle == [pc |-> "idle", f |-> None]
PolicyIsSome(s) == env.age # None \/ env.budget # None \/ s \in env.unconsumed
\* The maintenance thread about to make a round of the stores; a verdict on nothing.
Nobody == [floor |-> None, holder |-> None, at |-> None]
Round == [pc |-> "refresh", left |-> {s \in Here : PolicyIsSome(s)}, index |-> None, owed |-> None,
          s |-> None, fields |-> {}, label |-> None, nextSeq |-> 0, interest |-> Nobody]
Quiet == [wrong |-> {}, lost |-> {}, told |-> {}, unread |-> {}]

Chunks(s) == first[s] .. next[s] - 1
Readable(d) == d.here /\ d.decl \notin {Missing, Spoilt}
\* selectable_of: a store whose manifest cannot be read still has its identity, from the index.
\* A selector is the labels and the identities it matches; a single identity anchors the
\* follower in that store.
Fields(s) == IF s \in torn THEN {s} ELSE {s, label[s]}
Covers(decl, s) == decl.select \cap Fields(s) # {}
Anchored(decl, s) == decl.select = {s}

\* Declaration::load, picks_up; Positions and Cursor as they are on disk: a chunk, and whether
\* it was read whole.
Registration(r) ==
    IF r = None THEN NoDir
    ELSE [Made EXCEPT !.decl = [select |-> r.select, retaining |-> r.retaining], !.places = r.places,
                      !.legacy = r.legacy]

Init ==
    /\ env \in Environments
    /\ first = [s \in Stores |-> 0] /\ next = env.there
    /\ written = [s \in Stores |-> [c \in 1..env.there[s] |-> 0]] /\ label = env.label /\ torn = {} /\ now = 0
    /\ dir = [f \in Followers |-> Registration(env.registered[f])]
    /\ serial = 0 /\ proc = [p \in Processes |-> Off]
    /\ command = Idle /\ tick = Round /\ commands = 0 /\ starts = 0
    /\ got = [f \in Followers |-> [s \in Stores |-> {}]]
    /\ declared = [f \in Followers |-> dir[f].decl] /\ verdict = Quiet

------------------------------------------------------------------------------
\* The stores: a writer seals chunks, time passes, labels are edited.
Between == tick.pc \in {"consult"} /\ ~May("sealed between")
Seal(s) ==
    /\ next[s] < Len(env.sizes[s]) /\ ~Between
    /\ next' = [next EXCEPT ![s] = @ + 1]
    /\ written' = [written EXCEPT ![s] = Append(@, now)]
    /\ UNCHANGED <<env, first, label, torn, now, registryVars, operatorVars, procVars, tickVars>>

Hour ==
    /\ now < env.hours /\ now' = now + 1
    /\ UNCHANGED <<env, first, next, written, label, torn, registryVars, operatorVars, procVars, tickVars>>

Commands == commands < env.commands /\ commands' = commands + 1

\* `timberfs set` of a label, and a manifest that cannot be read for a while.
Relabel(s, l) ==
    /\ May("relabel") /\ s \in Here /\ command = Idle /\ Commands /\ label[s] # l /\ s \notin torn
    /\ label' = [label EXCEPT ![s] = l]
    /\ UNCHANGED <<env, first, next, written, torn, now, registryVars, command, procVars, tickVars>>
Tear(s) ==
    /\ May("torn") /\ Commands /\ s \in Here \ torn
    /\ torn' = torn \cup {s}
    /\ UNCHANGED <<env, first, next, written, label, now, registryVars, command, procVars, tickVars>>
Mend(s) ==
    /\ s \in torn /\ torn' = torn \ {s}
    /\ UNCHANGED <<env, first, next, written, label, now, registryVars, operatorVars, procVars, tickVars>>

------------------------------------------------------------------------------
\* The operator.  `follower create` makes the directory and then renames a declaration into
\* it; a crash may come between.
Create(f) ==
    /\ f \in env.names /\ May("create") /\ command = Idle /\ Commands /\ ~dir[f].here
    /\ dir' = [dir EXCEPT ![f] = Made]
    /\ command' = [pc |-> "declare", f |-> f]
    /\ UNCHANGED <<env, storeVars, serial, declared, procVars, tickVars>>

\* Declaration::save: a temporary file, renamed over the declaration.
Declare(f, select, retaining) ==
    /\ command = [pc |-> "declare", f |-> f] /\ dir[f].here
    /\ dir' = [dir EXCEPT ![f].decl = [select |-> select, retaining |-> retaining]]
    /\ declared' = [declared EXCEPT ![f] = dir'[f].decl]
    /\ got' = [got EXCEPT ![f] = [s \in Stores |-> {}]]
    /\ command' = Idle
    \* a tick that has read the registry owes the new registration nothing
    /\ tick' = IF tick.owed = None THEN tick ELSE [tick EXCEPT !.owed[f] = {}]
    /\ UNCHANGED <<env, storeVars, serial, proc, starts, commands, verdict>>

Cut ==
    /\ May("cut") /\ command # Idle /\ command' = Idle
    /\ UNCHANGED <<env, storeVars, registryVars, procVars, commands, tickVars>>

\* `follower update`: a declaration that can be read, changed and saved as a whole.  A
\* process that runs keeps the one it has loaded.
Update(f, select, retaining) ==
    /\ May("update") /\ command = Idle /\ Commands /\ Readable(dir[f])
    /\ LET new == [select |-> select, retaining |-> retaining]
       IN  /\ new # dir[f].decl
           /\ dir' = [dir EXCEPT ![f].decl = new]
           /\ declared' = [declared EXCEPT ![f] = new]
    /\ UNCHANGED <<env, storeVars, serial, command, procVars, tickVars>>

\* liveness: the lock is probed, and a lock that is held is put down to the process it names.
HeldBy(f) == {p \in Processes : proc[p].pc \in {"locked", "noted", "running"} /\ proc[p].f = f
                                 /\ proc[p].inode = dir[f].inode /\ dir[f].inode # 0}
Liveness(f) ==
    IF HeldBy(f) = {} THEN "stopped"
    ELSE IF dir[f].pid = None THEN "unknown"
    ELSE IF dir[f].pid = "dead" THEN "stopped" ELSE "running"

\* `follower delete`: refused while the follower retains a store there is, then while it
\* runs; a declaration nobody can read holds nothing.
CoversAny(f) == \E s \in Here : Covers(dir[f].decl, s)
Delete(f) ==
    /\ May("delete") /\ command = Idle /\ Commands /\ dir[f].here
    /\ ~(Readable(dir[f]) /\ dir[f].decl.retaining /\ CoversAny(f))
    /\ May("hurried") \/ ~\E p \in Processes : proc[p].pc \in {"loaded", "locked"}
    /\ command' = [pc |-> "probe", f |-> f]
    /\ UNCHANGED <<env, storeVars, registryVars, procVars, tickVars>>

Probe ==
    /\ command.pc = "probe"
    /\ command' = IF Liveness(command.f) = "stopped" THEN [command EXCEPT !.pc = "remove"] ELSE Idle
    /\ UNCHANGED <<env, storeVars, registryVars, procVars, commands, tickVars>>

\* remove_dir_all: the files, the lock's among them, and then the directory, which something
\* may have been put in meanwhile.
RemoveFiles ==
    /\ command.pc = "remove"
    /\ dir' = [dir EXCEPT ![command.f] = Made]
    /\ declared' = [declared EXCEPT ![command.f] = Missing]
    /\ command' = [command EXCEPT !.pc = "rmdir"]
    /\ UNCHANGED <<env, storeVars, serial, procVars, commands, tickVars>>
RemoveDir ==
    /\ command.pc = "rmdir"
    /\ dir' = [dir EXCEPT ![command.f] = IF @ = Made THEN NoDir ELSE @]
    /\ command' = Idle
    /\ UNCHANGED <<env, storeVars, serial, declared, procVars, commands, tickVars>>

\* A hand, or a disk, that leaves a declaration or positions nobody can read, and the hand
\* that puts back what was there.
Spoil(f) ==
    /\ May("spoil") /\ Commands /\ Readable(dir[f]) /\ dir[f].places # Spoilt
    /\ \/ dir' = [dir EXCEPT ![f].decl = Spoilt]
       \/ dir[f].places # Missing /\ dir' = [dir EXCEPT ![f].places = Spoilt]
    /\ UNCHANGED <<env, storeVars, serial, declared, command, procVars, tickVars>>
Repair(f) ==
    /\ dir[f].here /\ declared[f] # Missing
    /\ \/ dir[f].decl = Spoilt /\ dir' = [dir EXCEPT ![f].decl = declared[f]]
       \/ dir[f].places = Spoilt /\ dir' = [dir EXCEPT ![f].places = NoPlaces]
    /\ UNCHANGED <<env, storeVars, serial, declared, operatorVars, procVars, tickVars>>

------------------------------------------------------------------------------
\* A process that runs a follower: cmd_run reads the declaration, takes the lock, writes its
\* pid into it and carries an old cursor over; feed::run then loads the positions.
Hurried == command.pc \in {"probe", "remove", "rmdir"} /\ ~May("hurried")
Load(p, f) ==
    /\ proc[p] = Off /\ p = CHOOSE q \in Processes : proc[q] = Off     \* one is like another
    /\ starts < env.starts /\ ~Hurried
    /\ Readable(dir[f])
    /\ proc' = [proc EXCEPT ![p] = [Off EXCEPT !.pc = "loaded", !.f = f, !.select = dir[f].decl.select]]
    /\ starts' = starts + 1
    /\ UNCHANGED <<env, storeVars, registryVars, operatorVars, got, tickVars>>

Lock(p) ==
    /\ proc[p].pc = "loaded" /\ ~Hurried
    /\ LET f == proc[p].f
           inode == IF dir[f].inode = 0 THEN serial + 1 ELSE dir[f].inode
       IN  IF ~dir[f].here \/ HeldBy(f) # {}
           THEN proc' = [proc EXCEPT ![p] = Off] /\ UNCHANGED <<dir, serial>>
           ELSE /\ proc' = [proc EXCEPT ![p].pc = "locked", ![p].inode = inode]
                /\ dir' = [dir EXCEPT ![f].inode = inode]
                /\ serial' = IF inode > serial THEN inode ELSE serial
    /\ UNCHANGED <<env, storeVars, declared, operatorVars, starts, got, tickVars>>

\* The lock is the inode's, the positions are the path's.
Mine(p) == dir[proc[p].f].here /\ dir[proc[p].f].inode = proc[p].inode
WriteInfo(p) ==
    /\ proc[p].pc = "locked"
    /\ proc' = [proc EXCEPT ![p].pc = "noted"]
    /\ dir' = IF Mine(p) THEN [dir EXCEPT ![proc[p].f].pid = p] ELSE dir
    /\ UNCHANGED <<env, storeVars, serial, declared, operatorVars, starts, got, tickVars>>

\* What a process leaves behind: the lock goes with it, the lock's file and the pid in it stay.
Without(p) == [f \in Followers |-> IF dir[f].pid = p THEN [dir[f] EXCEPT !.pid = "dead"] ELSE dir[f]]

Place(chunk, whole) == [chunk |-> chunk, whole |-> whole]
\* migrate_cursor: the start of the chunk the cursor stood in.
CarriedOver(d, select) ==
    IF d.places # Missing \/ d.legacy \in {Missing, Spoilt} THEN d.places
    ELSE LET anchors == {a \in Stores : select = {a}}
         IN  IF ~d.legacy.delivered \/ anchors = {} THEN Missing
             ELSE [NoPlaces EXCEPT ![CHOOSE a \in anchors : TRUE] = Place(d.legacy.chunk, FALSE)]

Open(p) ==
    /\ proc[p].pc = "noted"
    /\ LET f == proc[p].f
           places == CarriedOver(dir[f], proc[p].select)
           mem == IF places = Missing THEN NoPlaces ELSE places
       IN  IF places = Spoilt \/ (places = Missing /\ dir[f].legacy = Spoilt)
           THEN proc' = [proc EXCEPT ![p] = Off] /\ dir' = Without(p)
           ELSE /\ proc' = [proc EXCEPT ![p].pc = "running", ![p].mem = mem]
                /\ dir' = [dir EXCEPT ![f].places = places]
    /\ UNCHANGED <<env, storeVars, serial, declared, operatorVars, starts, got, tickVars>>

\* The next chunk goes to the consumer, whole or in part, and the place moves as it says; a
\* chunk that has been dropped is passed over.
Wanted(place, s) ==
    IF place = None \/ place.chunk < first[s] THEN first[s]
    ELSE IF place.whole THEN place.chunk + 1 ELSE place.chunk
Ship(p, s, whole) ==
    /\ proc[p].pc = "running" /\ Covers(proc[p], s)
    /\ LET c == Wanted(proc[p].mem[s], s)
       IN  /\ c < next[s] /\ proc[p].mem[s] # Place(c, whole)
           /\ proc' = [proc EXCEPT ![p].mem[s] = Place(c, whole), ![p].unsaved = TRUE]
           /\ got' = IF Mine(p) /\ whole THEN [got EXCEPT ![proc[p].f][s] = @ \cup {c}] ELSE got
    /\ UNCHANGED <<env, storeVars, registryVars, operatorVars, starts, tickVars>>

\* Positions::save writes the whole file, by its path; without a directory it fails, and the
\* process with it.
Save(p) ==
    /\ proc[p].pc = "running" /\ proc[p].unsaved
    /\ LET f == proc[p].f
       IN  IF dir[f].here
           THEN /\ dir' = [dir EXCEPT ![f].places = proc[p].mem]
                /\ proc' = [proc EXCEPT ![p].unsaved = FALSE]
           ELSE proc' = [proc EXCEPT ![p] = Off] /\ dir' = Without(p)
    /\ UNCHANGED <<env, storeVars, serial, declared, operatorVars, starts, got, tickVars>>

\* Stopped or killed.
Exit(p) ==
    /\ May("die") /\ proc[p] # Off
    /\ proc' = [proc EXCEPT ![p] = Off] /\ dir' = Without(p)
    /\ UNCHANGED <<env, storeVars, serial, declared, operatorVars, starts, got, tickVars>>

------------------------------------------------------------------------------
\* InterestIndex::read: what every retaining follower covers and where it stands, or nothing
\* at all when one of them cannot be read.
\* positions_of: an old cursor counts as long as there are no positions.
PlacesOf(d) ==
    IF d.places # Missing THEN [s \in Stores |-> IF d.places[s] = None THEN None ELSE d.places[s].chunk]
    ELSE [s \in Stores |-> IF d.legacy # Missing /\ Anchored(d.decl, s) THEN d.legacy.chunk ELSE None]
Illegible(d) ==
    /\ d.here
    /\ \/ d.decl \in {Missing, Spoilt}
       \/ d.decl.retaining /\ (d.places = Spoilt \/ (d.places = Missing /\ d.legacy = Spoilt))
Retaining(d) == Readable(d) /\ d.decl.retaining
IndexOf ==
    IF \E f \in Followers : Illegible(dir[f]) THEN Closed
    ELSE [f \in {g \in Followers : Retaining(dir[g])} |-> [select |-> dir[f].decl.select, at |-> PlacesOf(dir[f])]]

\* Interest: what the tick may drop of a store, and whom to name when a budget drops more.
Interest(floor, holder, at) == [floor |-> floor, holder |-> holder, at |-> at]

\* Mutant: a position that can have been written by nobody counts like any other.
HoldsNever(at, nextSeq) == at = None
\* Mutant: off by one, a follower at the last chunk written.
HoldsAtTheEnd(at, nextSeq) == at = None \/ (at # None /\ at + 1 >= nextSeq)
\* A follower that holds all of the store: one that never read it, or stands where nothing
\* has been written yet.
HoldsAll(at, nextSeq) == at = None \/ (at # None /\ at >= nextSeq)

\* for_store: `fields` is what selectors match the store by, `nextSeq` the number its next
\* chunk will get.  The followers come in no order the registry promises.
ForStore(index, s, fields, nextSeq) ==
    LET mine == IF index = Closed THEN {} ELSE {f \in DOMAIN index : index[f].select \cap fields # {}}
        whole == {f \in mine : HoldsAll(index[f].at[s], nextSeq)}
        floor == Min({index[f].at[s] : f \in mine})
    IN  IF mine = {} THEN {Nobody}
        ELSE IF whole # {} THEN {Interest(None, f, index[f].at[s]) : f \in whole}
        ELSE {Interest(floor, f, floor) : f \in {g \in mine : index[g].at[s] = floor}}

\* enforce_retention: the head is cut as far as the farthest of three axes says.
SizeOf(s, chunks) == MapThenSumSet(LAMBDA c : env.sizes[s][c + 1], chunks)
Expired(s) == {c \in Chunks(s) : written[s][c + 1] + env.age < now}

\* Age: what has expired, once it is a tenth of the store.
AgeCut(s) ==
    IF env.age = None THEN {}
    ELSE LET old == {c \in Chunks(s) : first[s] .. c \subseteq Expired(s)}
         IN  IF SizeOf(s, old) * 10 >= SizeOf(s, Chunks(s)) THEN old ELSE {}

Minus(a, b) == IF a > b THEN a - b ELSE 0
\* Size: down to the low-water mark, and as much below it as a collapse may leave behind.
SizeCut(s) ==
    LET total == SizeOf(s, Chunks(s))
        target == Minus(Minus(env.budget, env.budget \div 20), Slack)
    IN  IF env.budget = None \/ (env.budget # None /\ total <= env.budget) THEN {}
        ELSE {c \in Chunks(s) : total - SizeOf(s, first[s] .. c - 1) > target}

InterestCut(s, floor) == IF floor = None THEN {} ELSE {c \in Chunks(s) : c < floor}

\* Mutant: from the chunk after the one the holder stands in.
RecordFromNext(interest, dropped) ==
    IF interest.holder = None THEN {}
    ELSE IF interest.floor = None THEN dropped ELSE {c \in dropped : c > interest.floor}
\* override_record: the chunks a line on stderr says the holder had not read.
OverrideRecord(interest, dropped) ==
    IF interest.holder = None THEN {}
    ELSE IF interest.floor = None THEN dropped
    ELSE {c \in dropped : c >= interest.floor}

------------------------------------------------------------------------------
\* The maintenance thread: the stores one after another, the registry read at most once.
\* LivePolicy::refresh, and next_seq under the store's mutex.
Refresh(s) ==
    /\ May("tick") /\ tick.pc = "refresh" /\ s \in tick.left
    /\ verdict' = Quiet
    /\ tick' = [tick EXCEPT !.pc = "consult", !.s = s, !.fields = Fields(s), !.label = label[s],
                           !.nextSeq = next[s]]
    /\ UNCHANGED <<env, storeVars, registryVars, operatorVars, procVars>>

\* What the thread owes, as the operator declared it when the registry was read.
Owed == [f \in Followers |-> IF declared[f] # Missing /\ declared[f].retaining THEN declared[f].select ELSE {}]

\* TickInterest::floor
Consult ==
    /\ tick.pc = "consult"
    /\ LET unread == tick.index = None
           asked == tick.s \in env.unconsumed
           index == IF unread /\ asked THEN IndexOf ELSE tick.index
           owed == IF unread /\ asked THEN Owed ELSE tick.owed
       IN  \E interest \in IF asked THEN ForStore(index, tick.s, tick.fields, tick.nextSeq) ELSE {Nobody} :
               tick' = [tick EXCEPT !.pc = "enforce", !.index = index, !.owed = owed, !.interest = interest]
    /\ UNCHANGED <<env, storeVars, registryVars, operatorVars, procVars, verdict>>

\* What a drop did, set against what the followers it was owed to were given: chunks gone that
\* no budget asked for and somebody had not read, chunks gone that somebody had not read,
\* chunks a record names, and those of them nobody it was owed to had missed.  A store that
\* does not declare retain_unconsumed owes nobody anything.
Verdict(s, dropped, byBudget, told, owed, fields) ==
    LET readers == IF s \notin env.unconsumed \/ owed = None THEN {}
                   ELSE {f \in Followers : owed[f] \cap fields # {}}
        missed == {c \in dropped : \E f \in readers : c \notin got[f][s]}
    IN  [wrong |-> missed \ byBudget, lost |-> missed, told |-> told, unread |-> told \ missed]

Dropped(s, interest) == AgeCut(s) \cup SizeCut(s) \cup InterestCut(s, interest.floor)

Enforce ==
    /\ tick.pc = "enforce"
    /\ LET s == tick.s
           dropped == Dropped(s, tick.interest)
           left == tick.left \ {s}
       IN  /\ first' = [first EXCEPT ![s] = @ + Cardinality(dropped)]
           /\ verdict' = Verdict(s, dropped, AgeCut(s) \cup SizeCut(s), OverrideRecord(tick.interest, dropped),
                                 tick.owed, {s, tick.label})
           /\ tick' = IF left = {} THEN Round
                      ELSE [Round EXCEPT !.left = left, !.index = tick.index, !.owed = tick.owed]
    /\ UNCHANGED <<env, next, written, label, torn, now, registryVars, operatorVars, procVars>>

\* `timberfs trim`, where no writer has the store: all of it under the store's lock.
Trim(s) ==
    /\ May("trim") /\ ~May("tick") /\ Commands
    /\ \E interest \in IF s \in env.unconsumed THEN ForStore(IndexOf, s, Fields(s), next[s]) ELSE {Nobody} :
           LET dropped == Dropped(s, interest)
           IN  /\ dropped # {}
               /\ first' = [first EXCEPT ![s] = @ + Cardinality(dropped)]
               /\ verdict' = Verdict(s, dropped, AgeCut(s) \cup SizeCut(s), OverrideRecord(interest, dropped),
                                     Owed, {s, label[s]})
    /\ UNCHANGED <<env, next, written, label, torn, now, registryVars, command, procVars, tick>>

Operate ==
    \/ \E f \in Followers : \/ Create(f) \/ Delete(f) \/ Spoil(f) \/ Repair(f)
                            \/ \E select \in env.selects, retaining \in BOOLEAN :
                                   Declare(f, select, retaining) \/ Update(f, select, retaining)
    \/ Cut \/ Probe \/ RemoveFiles \/ RemoveDir
    \/ \E s \in Stores : Tear(s) \/ Mend(s) \/ Trim(s) \/ \E l \in Labels : Relabel(s, l)
Follow ==
    \E p \in Processes :
        \/ \E f \in Followers : Load(p, f)
        \/ Lock(p) \/ WriteInfo(p) \/ Open(p) \/ Save(p) \/ Exit(p)
        \/ \E s \in Stores, whole \in BOOLEAN : Ship(p, s, whole)
Maintain == (\E s \in Stores : Refresh(s)) \/ Consult \/ Enforce
Write == Hour \/ \E s \in Stores : Seal(s)
Next == Operate \/ Follow \/ Maintain \/ Write
Spec == Init /\ [][Next]_vars

\* The maintenance thread wakes once a second for ever; a manifest is unreadable for a while.
FairSpec == Spec /\ WF_vars(Maintain) /\ WF_vars(\E s \in Stores : Mend(s))

------------------------------------------------------------------------------
(* Interest drops a chunk only when every retaining follower that covered the store when the *)
(* registry was read has been given all of it: across restarts of the followers, edited       *)
(* declarations and labels, an unreadable registry and positions nobody can have reached      *)
(* (follower.rs InterestIndex).                                                              *)
NothingHeldIsDropped == verdict.wrong = {}

(* A budget that drops what a retaining follower had not read says so, for every such chunk:  *)
(* "what is owed is precise accounting at the moment it happens" (follower.rs                *)
(* override_record).                                                                         *)
LossIsTold == verdict.lost \subseteq verdict.told

(* And it says so of nothing else (the same comment: "this one is exact").                   *)
ToldIsTrue == verdict.unread = {}

(* One position, one process: no two of them past the lock of one follower (cmd_run).         *)
OneProcess ==
    \A p, q \in Processes : p # q /\ proc[p].pc \in {"noted", "running"} /\ proc[q].pc \in {"noted", "running"}
        => proc[p].f # proc[q].f

(* What every retaining follower has read goes in the end, while the registry can be read     *)
(* (TickInterest: promptness is the point of the axis, and it has no hysteresis).             *)
Due(s, c) ==
    /\ May("tick") /\ c \in Chunks(s) /\ s \in env.unconsumed
    /\ \A f \in Followers : ~Illegible(dir[f])
    /\ LET holders == {f \in Followers : Retaining(dir[f]) /\ Covers(dir[f].decl, s)}
       IN  /\ holders # {}
           /\ \A f \in holders : LET at == PlacesOf(dir[f])[s] IN at # None /\ (at # None => c < at /\ at < next[s])
ConsumedGoes == \A s \in Stores : []<>~Due(s, first[s])
=============================================================================
