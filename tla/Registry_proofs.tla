-------------------------- MODULE Registry_proofs --------------------------
(***************************************************************************)
(* Proofs about Registry: what a retaining follower has not read is held,  *)
(* and what a budget drops of it is told (follower.rs, store.rs).          *)
(*                                                                         *)
(* A place a follower's directory, a process or the registry as the tick   *)
(* has read it names in a store is honest: the consumer has been given     *)
(* every chunk below it that is still there.  That is so because one       *)
(* process at a time has a follower's place, because a declaration made    *)
(* again starts without one, and because an index is out of date only in   *)
(* the safe direction.                                                     *)
(***************************************************************************)
EXTENDS Registry, SequenceFacts, FiniteSetTheorems

------------------------------------------------------------------------------
\* The environments interest holds in: a command does not overtake a process that starts;
\* where a manifest may be unreadable the selections are by label; and the positions there
\* are at the start are of nothing read, or beyond what the store will have.
Unread(e, s, chunk, whole) == (chunk = 0 /\ ~whole) \/ chunk >= Len(e.sizes[s])
Selections(e) == e.selects \cup {e.registered[f].select : f \in {g \in Followers : e.registered[g] # None}}
Steady ==
    \A e \in Environments :
        /\ "hurried" \notin e.may
        /\ "torn" \in e.may => \A c \in Selections(e) : c \cap Stores = {}
        /\ \A f \in Followers, s \in Stores :
               e.registered[f] # None =>
                   LET r == e.registered[f]
                   IN  /\ r.places \in Positions /\ r.places[s] # None
                               => Unread(e, s, r.places[s].chunk, r.places[s].whole)
                       /\ r.legacy \in Cursor => Unread(e, s, r.legacy.chunk, FALSE)

\* Those a loss is told in: where there is a budget, the registry can be read throughout.
Budgeted(e) == e.age # None \/ e.budget # None
Legible ==
    \A e \in Environments : Budgeted(e) =>
        /\ e.may \cap {"create", "delete", "spoil", "torn"} = {}
        /\ \A f \in Followers : e.registered[f] # None =>
               e.registered[f].places # Spoilt /\ e.registered[f].legacy # Spoilt

\* What a consumer has been given reaches up to a chunk: of what is there from `lo` on.
Honest(lo, given, len, chunk, whole) ==
    chunk >= len \/ \A c \in lo .. chunk : c < chunk \/ whole => c \in given
Reached(f, s, chunk, whole) == Honest(first[s], got[f][s], Len(env.sizes[s]), chunk, whole)
HonestIn(f, s, place) == place # None => Reached(f, s, place.chunk, place.whole)

------------------------------------------------------------------------------
Starting == {"loaded", "locked"}
Holding == {"locked", "noted", "running"}
Removing == {"remove", "rmdir"}

Directory ==
    [here : BOOLEAN, decl : {Missing, Spoilt} \cup Declaration,
     places : {Missing, Spoilt} \cup Positions, legacy : {Missing, Spoilt} \cup Cursor,
     inode : Nat, pid : {None, "dead"} \cup Processes]
Process ==
    [pc : {"off", "noted", "running"} \cup Starting, f : {None} \cup Followers,
     select : SUBSET (Labels \cup Stores), inode : Nat, mem : Positions, unsaved : BOOLEAN]
Command == [pc : {"idle", "declare", "probe"} \cup Removing, f : {None} \cup Followers]

Typed ==
    /\ env \in Environments
    /\ first \in [Stores -> Nat] /\ next \in [Stores -> Nat]
    /\ \A s \in Stores : next[s] <= Len(env.sizes[s])
    /\ torn \subseteq Stores
    /\ dir \in [Followers -> Directory] /\ serial \in Nat
    /\ proc \in [Processes -> Process]
    /\ command \in Command /\ (command.pc # "idle" => command.f \in Followers)
    /\ got \in [Followers -> [Stores -> SUBSET Nat]]
    /\ declared \in [Followers -> {Missing} \cup Declaration]
    /\ DOMAIN tick = DOMAIN Round
    /\ tick.left \subseteq Stores

\* A process has its follower's directory, its lock and its place to itself.
ProcessRight(p) ==
    LET d == dir[proc[p].f]
    IN  proc[p].pc # "off" =>
            /\ proc[p].f \in Followers /\ d.here /\ d.decl # Missing
            /\ proc[p].pc \in Holding => d.inode = proc[p].inode /\ proc[p].inode # 0
            /\ proc[p].pc \in {"noted", "running"} => d.pid = p
            /\ proc[p].pc = "running" => \A s \in Stores : HonestIn(proc[p].f, s, proc[p].mem[s])
ProcessesRight ==
    /\ \A p \in Processes : ProcessRight(p)
    /\ \A p, q \in Processes :
           p # q /\ proc[p].pc \in Holding /\ proc[q].pc \in Holding => proc[p].f # proc[q].f

\* What is declared anew has no place yet; what is removed has no process.
CommandRight ==
    /\ command.pc = "declare" =>
           dir[command.f].decl = Missing /\ dir[command.f].places = Missing /\ dir[command.f].legacy = Missing
    /\ command.pc \in {"probe"} \cup Removing => \A p \in Processes : proc[p].pc \notin Starting
    /\ command.pc \in Removing => \A p \in Processes : proc[p].pc # "off" => proc[p].f # command.f

DirectoryRight(f) ==
    /\ ~dir[f].here => dir[f].decl = Missing
    /\ dir[f].decl # Spoilt => declared[f] = dir[f].decl
    /\ dir[f].places \in Positions => \A s \in Stores : HonestIn(f, s, dir[f].places[s])
    /\ dir[f].legacy \in Cursor => \A s \in Stores : Reached(f, s, dir[f].legacy.chunk, FALSE)
DirectoriesRight == \A f \in Followers : DirectoryRight(f)

\* Where a manifest may be unreadable no identity is selected.
LabelsSelect(decl) == decl \in Declaration => decl.select \cap Stores = {}
ByLabel ==
    /\ torn # {} => May("torn")
    /\ May("torn") => \A f \in Followers : LabelsSelect(dir[f].decl) /\ LabelsSelect(declared[f])

\* The registry as it was read has every follower something is owed to, each at an honest
\* place.
EntryRight(index, owed, f) ==
    owed[f] # {} =>
        /\ f \in DOMAIN index /\ index[f].select = owed[f]
        /\ \A s \in Stores : index[f].at[s] # None => Reached(f, s, index[f].at[s], FALSE)
IndexRight(index, owed) ==
    owed # None =>
        /\ owed \in [Followers -> SUBSET (Labels \cup Stores)]
        /\ index # Closed =>
               /\ DOMAIN index \subseteq Followers
               /\ \A f \in DOMAIN index, s \in Stores : index[f].at[s] \in Nat \cup {None}
               /\ May("torn") => \A f \in DOMAIN index : index[f].select \cap Stores = {}
               /\ \A f \in Followers : EntryRight(index, owed, f)

\* A floor is below everything somebody has not read.
FloorRight(s, fields, interest, owed) ==
    owed # None /\ interest.floor # None =>
        /\ interest.floor \in Nat
        /\ \A f \in Followers : owed[f] \cap fields # {} =>
               \A c \in first[s] .. interest.floor : c < interest.floor => c \in got[f][s]

TickRight ==
    /\ tick.pc \in {"refresh", "consult", "enforce"}
    /\ tick.pc # "refresh" => tick.s \in Stores /\ tick.nextSeq \in Nat /\ tick.nextSeq <= next[tick.s]
    /\ tick.pc = "consult" =>
           tick.fields = {tick.s, tick.label} \/ (May("torn") /\ tick.fields = {tick.s})
    /\ IndexRight(tick.index, tick.owed)
    /\ tick.pc = "enforce" => FloorRight(tick.s, {tick.s, tick.label}, tick.interest, tick.owed)

RegistryInv ==
    /\ Typed /\ ProcessesRight /\ CommandRight /\ DirectoriesRight /\ ByLabel /\ TickRight
    /\ NothingHeldIsDropped

\* Where there is a budget the registry can be read, and names a follower something is owed to.
DirectoriesLegible ==
    /\ command.pc = "idle" /\ torn = {}
    /\ \A f \in Followers : /\ dir[f].decl # Spoilt /\ (dir[f].here => dir[f].decl # Missing)
                            /\ dir[f].places # Spoilt /\ dir[f].legacy # Spoilt
Told(s, fields, interest, owed) ==
    owed # None /\ s \in env.unconsumed /\ interest.holder = None
        => \A f \in Followers : owed[f] \cap fields = {}
TickLegible ==
    /\ tick.pc = "consult" => tick.fields = {tick.s, tick.label}
    /\ tick.owed # None => tick.index # Closed
    /\ tick.pc = "enforce" => Told(tick.s, {tick.s, tick.label}, tick.interest, tick.owed)
LossInv ==
    /\ Budgeted(env) => DirectoriesLegible /\ TickLegible
    /\ LossIsTold

------------------------------------------------------------------------------
\* What a place says stays true as the consumer is given more and the head goes.
LEMMA HonestStays ==
    ASSUME NEW lo \in Nat, NEW lo2 \in Nat, lo <= lo2, NEW given, NEW given2, given \subseteq given2,
           NEW len, NEW chunk \in Nat, NEW whole, Honest(lo, given, len, chunk, whole)
    PROVE  Honest(lo2, given2, len, chunk, whole)
BY DEF Honest

LEMMA Surroundings ==
    ASSUME env \in Environments
    PROVE  /\ Environment(env)
           /\ env.age \in Nat \cup {None} /\ env.budget \in Nat \cup {None}
           /\ env.unconsumed \subseteq Stores
           /\ \A s \in Stores : Len(env.sizes[s]) \in Nat
           /\ \A c \in env.selects : c \in SUBSET (Labels \cup Stores)
<1>1. Environment(env)
  BY RegistryAssumption
<1>2. \A s \in Stores : env.sizes[s] \in Seq(Nat \ {0})
  BY <1>1 DEF Environment
<1>3. \A s \in Stores : Len(env.sizes[s]) \in Nat
  BY <1>2, LenProperties
<1>4. QED
  BY <1>1, <1>3 DEF Environment

\* Nothing is forgotten: heads go forward and a consumer is given more.
GrownFor(f) ==
    /\ env' = env
    /\ \A s \in Stores : first[s] \in Nat /\ first'[s] \in Nat /\ first[s] <= first'[s]
    /\ \A s \in Stores : got[f][s] \subseteq got'[f][s]
Grown == env' = env /\ \A f \in Followers : GrownFor(f)

LEMMA UnchangedIsGrown ==
    ASSUME Typed, UNCHANGED <<env, first, got>>
    PROVE  Grown
BY DEF Typed, Grown, GrownFor

LEMMA ReachedStays ==
    ASSUME NEW f, NEW s \in Stores, NEW chunk \in Nat, NEW whole, Reached(f, s, chunk, whole), GrownFor(f)
    PROVE  Reached(f, s, chunk, whole)'
<1>1. Honest(first[s], got[f][s], Len(env.sizes[s]), chunk, whole)
  BY DEF Reached
<1>2. first[s] \in Nat /\ first'[s] \in Nat /\ first[s] <= first'[s] /\ got[f][s] \subseteq got'[f][s]
  BY DEF GrownFor
<1>3. Honest(first'[s], got'[f][s], Len(env.sizes[s]), chunk, whole)
  BY <1>1, <1>2, HonestStays
<1>4. QED
  BY <1>3 DEF Reached, GrownFor

LEMMA HonestPlaceStays ==
    ASSUME NEW f, NEW s \in Stores, NEW place, place # None => place.chunk \in Nat,
           HonestIn(f, s, place), GrownFor(f)
    PROVE  HonestIn(f, s, place)'
BY ReachedStays DEF HonestIn

LEMMA PlacesHaveNumbers ==
    ASSUME Typed
    PROVE  /\ \A p \in Processes, s \in Stores : proc[p].mem[s] # None => proc[p].mem[s].chunk \in Nat
           /\ \A f \in Followers : dir[f].places \in Positions =>
                  \A s \in Stores : dir[f].places[s] # None => dir[f].places[s].chunk \in Nat
           /\ \A f \in Followers : dir[f].legacy \in Cursor => dir[f].legacy.chunk \in Nat
BY DEF Typed, Process, Positions, Cursor

\* A process keeps what it has while its follower's directory keeps it.
LEMMA ProcessStays ==
    ASSUME Typed, NEW p \in Processes, ProcessRight(p), proc'[p] = proc[p],
           proc[p].pc # "off" =>
               LET f == proc[p].f
               IN  /\ GrownFor(f) /\ dir'[f].here /\ dir'[f].decl # Missing
                   /\ proc[p].pc \in Holding => dir'[f].inode = dir[f].inode
                   /\ proc[p].pc \in {"noted", "running"} => dir'[f].pid = dir[f].pid
    PROVE  ProcessRight(p)'
<1>1. CASE proc[p].pc = "running"
  <2> DEFINE f == proc[p].f
  <2>1. f \in Followers /\ GrownFor(f) /\ \A s \in Stores : HonestIn(f, s, proc[p].mem[s])
    BY <1>1 DEF ProcessRight
  <2>2. \A s \in Stores : HonestIn(f, s, proc[p].mem[s])'
    BY <2>1, HonestPlaceStays, PlacesHaveNumbers
  <2>3. QED
    BY <1>1, <2>2 DEF ProcessRight, Holding
<1>2. CASE proc[p].pc # "running"
  BY <1>2 DEF ProcessRight, Holding
<1>3. QED
  BY <1>1, <1>2

LEMMA ProcessesStay ==
    ASSUME Typed, ProcessesRight, Grown, UNCHANGED <<dir, proc>>
    PROVE  ProcessesRight'
<1>1. \A p \in Processes : ProcessRight(p)'
  BY ProcessStays DEF ProcessesRight, ProcessRight, Grown
<1>2. QED
  BY <1>1 DEF ProcessesRight

LEMMA CommandStays ==
    ASSUME CommandRight, UNCHANGED <<command, dir, proc>>
    PROVE  CommandRight'
BY DEF CommandRight

LEMMA DirectoryStays ==
    ASSUME Typed, NEW f \in Followers, DirectoryRight(f), GrownFor(f),
           UNCHANGED <<dir[f].here, dir[f].decl, dir[f].places, dir[f].legacy, declared[f]>>
    PROVE  DirectoryRight(f)'
<1>1. dir[f].places \in Positions => \A s \in Stores : HonestIn(f, s, dir[f].places[s])'
  BY HonestPlaceStays, PlacesHaveNumbers DEF DirectoryRight
<1>2. dir[f].legacy \in Cursor => \A s \in Stores : Reached(f, s, dir[f].legacy.chunk, FALSE)'
  BY ReachedStays, PlacesHaveNumbers DEF DirectoryRight
<1>3. QED
  BY <1>1, <1>2 DEF DirectoryRight

LEMMA DirectoriesStay ==
    ASSUME Typed, DirectoriesRight, Grown, UNCHANGED <<dir, declared>>
    PROVE  DirectoriesRight'
BY DirectoryStays DEF DirectoriesRight, Grown

LEMMA LabelsStay ==
    ASSUME ByLabel, UNCHANGED <<env, torn, dir, declared>>
    PROVE  ByLabel'
BY DEF ByLabel, May, LabelsSelect

LEMMA EntryStays ==
    ASSUME NEW index, NEW owed, NEW f \in Followers, EntryRight(index, owed, f), GrownFor(f),
           \A s \in Stores : f \in DOMAIN index => index[f].at[s] \in Nat \cup {None}
    PROVE  EntryRight(index, owed, f)'
<1>1. SUFFICES ASSUME owed[f] # {}, NEW s \in Stores, index[f].at[s] # None
               PROVE  Reached(f, s, index[f].at[s], FALSE)'
  BY DEF EntryRight
<1>2. Reached(f, s, index[f].at[s], FALSE) /\ index[f].at[s] \in Nat
  BY <1>1 DEF EntryRight
<1>3. QED
  BY <1>2, ReachedStays

LEMMA IndexStays ==
    ASSUME NEW index, NEW owed, IndexRight(index, owed), Grown
    PROVE  IndexRight(index, owed)'
<1>1. SUFFICES ASSUME owed # None, index # Closed
               PROVE  \A f \in Followers : EntryRight(index, owed, f)'
  BY DEF IndexRight, Grown, May
<1>2. QED
  BY <1>1, EntryStays DEF IndexRight, Grown

LEMMA FloorStays ==
    ASSUME NEW s \in Stores, NEW fields, NEW interest, NEW owed,
           FloorRight(s, fields, interest, owed), Grown
    PROVE  FloorRight(s, fields, interest, owed)'
BY DEF FloorRight, Grown, GrownFor

\* What the maintenance thread knows stays true while others move.
LEMMA TickStays ==
    ASSUME TickRight, Grown, tick' = tick, \A s \in Stores : next[s] <= next'[s],
           next \in [Stores -> Nat], next' \in [Stores -> Nat]
    PROVE  TickRight'
<1>1. IndexRight(tick.index, tick.owed)'
  BY IndexStays DEF TickRight
<1>2. tick.pc = "enforce" => FloorRight(tick.s, {tick.s, tick.label}, tick.interest, tick.owed)'
  BY FloorStays DEF TickRight
<1>3. tick.pc # "refresh" => tick.nextSeq <= next'[tick.s]
  BY DEF TickRight
<1>4. QED
  BY <1>1, <1>2, <1>3 DEF TickRight, Grown, May

------------------------------------------------------------------------------
\* The stores.

LEMMA StoreStep ==
    ASSUME RegistryInv,
           UNCHANGED <<env, first, dir, serial, declared, command, proc, got, tick, verdict>>,
           next' \in [Stores -> Nat],
           \A s \in Stores : next[s] <= next'[s] /\ next'[s] <= Len(env.sizes[s]),
           torn' \subseteq Stores, torn' # {} => May("torn")
    PROVE  RegistryInv'
<1> USE DEF RegistryInv
<1>1. Grown
  BY UnchangedIsGrown
<1>2. Typed'
  BY DEF Typed, Round
<1>3. ProcessesRight' /\ CommandRight' /\ DirectoriesRight'
  BY <1>1, ProcessesStay, CommandStays, DirectoriesStay
<1>4. ByLabel'
  BY DEF ByLabel, May, LabelsSelect
<1>5. TickRight'
  BY <1>1, TickStays DEF Typed
<1>6. QED
  BY <1>2, <1>3, <1>4, <1>5 DEF NothingHeldIsDropped

LEMMA SealSafe ==
    ASSUME RegistryInv, NEW s \in Stores, Seal(s)
    PROVE  RegistryInv'
<1>1. Typed /\ env \in Environments
  BY DEF RegistryInv, Typed
<1>2. next \in [Stores -> Nat] /\ torn \subseteq Stores /\ \A x \in Stores : next[x] <= Len(env.sizes[x])
  BY <1>1 DEF Typed
<1>3. \A x \in Stores : Len(env.sizes[x]) \in Nat
  BY <1>1, Surroundings
<1>4. next' \in [Stores -> Nat] /\ \A x \in Stores : next[x] <= next'[x] /\ next'[x] <= Len(env.sizes[x])
  BY <1>2, <1>3 DEF Seal
<1>5. UNCHANGED <<env, first, dir, serial, declared, command, proc, got, tick, verdict, torn>>
  BY DEF Seal, registryVars, operatorVars, procVars, tickVars
<1>6. torn' # {} => May("torn")
  BY <1>5 DEF RegistryInv, ByLabel
<1>7. QED
  BY <1>2, <1>4, <1>5, <1>6, StoreStep

LEMMA StoresSafe ==
    ASSUME RegistryInv, NEW s \in Stores,
           \/ Hour \/ Tear(s) \/ Mend(s) \/ \E l \in Labels : Relabel(s, l)
    PROVE  RegistryInv'
<1>1. next' = next /\ torn \subseteq Stores /\ next \in [Stores -> Nat]
      /\ \A x \in Stores : next[x] <= Len(env.sizes[x])
  BY DEF RegistryInv, Typed, Hour, Tear, Mend, Relabel
<1>2. UNCHANGED <<env, first, dir, serial, declared, command, proc, got, tick, verdict>>
  BY DEF Hour, Tear, Mend, Relabel, registryVars, operatorVars, procVars, tickVars
<1>3. torn' \subseteq Stores /\ (torn' # {} => May("torn"))
  BY <1>1 DEF RegistryInv, ByLabel, Hour, Tear, Mend, Relabel
<1>4. \A x \in Stores : next[x] <= next[x]
  BY <1>1
<1>5. QED
  BY <1>1, <1>2, <1>3, <1>4, StoreStep

------------------------------------------------------------------------------
\* The operator.

\* A command that changes one directory, and not what its processes rely on.
LEMMA OperatorStep ==
    ASSUME RegistryInv, NEW f \in Followers,
           UNCHANGED <<env, first, next, torn, serial, proc, tick, verdict, got>>,
           dir' \in [Followers -> Directory], \A g \in Followers \ {f} : dir'[g] = dir[g],
           declared' \in [Followers -> {Missing} \cup Declaration],
           \A g \in Followers \ {f} : declared'[g] = declared[g],
           \A p \in Processes : proc[p].pc # "off" /\ proc[p].f = f
               => /\ dir'[f].here /\ dir'[f].decl # Missing
                  /\ dir'[f].inode = dir[f].inode /\ dir'[f].pid = dir[f].pid,
           command' \in Command, command'.pc # "idle" => command'.f \in Followers,
           CommandRight', DirectoryRight(f)',
           May("torn") => LabelsSelect(dir[f].decl)' /\ LabelsSelect(declared[f])'
    PROVE  RegistryInv'
<1> USE DEF RegistryInv
<1>1. Grown
  BY UnchangedIsGrown
<1>2. Typed'
  BY DEF Typed, Round
<1>3. ASSUME NEW p \in Processes PROVE ProcessRight(p)'
  <2>1. ProcessRight(p)
    BY DEF ProcessesRight
  <2>2. CASE proc[p].f = f
    BY <1>1, <2>1, <2>2, ProcessStays DEF Grown
  <2>3. CASE proc[p].pc # "off" /\ proc[p].f # f
    <3>1. proc[p].f \in Followers \ {f} /\ dir[proc[p].f].here /\ dir[proc[p].f].decl # Missing
      BY <2>1, <2>3 DEF ProcessRight
    <3>2. QED
      BY <1>1, <2>1, <3>1, ProcessStays DEF Grown
  <2>4. CASE proc[p].pc = "off"
    BY <2>4 DEF ProcessRight
  <2>5. QED
    BY <2>2, <2>3, <2>4
<1>4. ProcessesRight'
  BY <1>3 DEF ProcessesRight
<1>5. ASSUME NEW g \in Followers PROVE DirectoryRight(g)'
  <2>1. CASE g = f
    BY <2>1
  <2>2. CASE g # f
    BY <1>1, <2>2, DirectoryStays DEF DirectoriesRight, Grown
  <2>3. QED
    BY <2>1, <2>2
<1>6. ByLabel'
  <2>1. ASSUME May("torn"), NEW g \in Followers
        PROVE  LabelsSelect(dir[g].decl)' /\ LabelsSelect(declared[g])'
    <3>1. CASE g = f
      BY <2>1, <3>1
    <3>2. CASE g # f
      BY <2>1, <3>2 DEF ByLabel, LabelsSelect
    <3>3. QED
      BY <3>1, <3>2
  <2>2. QED
    BY <2>1 DEF ByLabel, May
<1>7. TickRight'
  BY <1>1, TickStays DEF Typed
<1>8. QED
  BY <1>2, <1>4, <1>5, <1>6, <1>7 DEF NothingHeldIsDropped, DirectoriesRight

\* Where there are no processes of a follower, nothing relies on its directory.
LEMMA NobodyRuns ==
    ASSUME RegistryInv, NEW f \in Followers, ~dir[f].here \/ dir[f].decl = Missing, NEW p \in Processes
    PROVE  ~(proc[p].pc # "off" /\ proc[p].f = f)
BY DEF RegistryInv, ProcessesRight, ProcessRight

LEMMA Marks ==
    /\ Missing # Spoilt
    /\ \A x \in Declaration \cup Positions \cup Cursor : x # Missing /\ x # Spoilt
BY MarksAssumption

LEMMA CreateSafe ==
    ASSUME RegistryInv, NEW f \in Followers, Create(f)
    PROVE  RegistryInv'
<1>1. Typed /\ ~dir[f].here /\ dir[f].decl = Missing /\ declared[f] = Missing
  BY Marks DEF RegistryInv, DirectoriesRight, DirectoryRight, Create
<1>2. Made \in Directory
  BY DEF Made, NoDir, Directory
<1>3. /\ dir' = [dir EXCEPT ![f] = Made] /\ command' = [pc |-> "declare", f |-> f]
      /\ UNCHANGED <<env, first, next, torn, serial, declared, proc, tick, verdict, got>>
  BY DEF Create, storeVars, procVars, tickVars
<1>4. dir' \in [Followers -> Directory] /\ dir'[f] = Made /\ \A g \in Followers \ {f} : dir'[g] = dir[g]
  BY <1>1, <1>2, <1>3 DEF Typed
<1>5. CommandRight'
  BY <1>3, <1>4 DEF CommandRight, Made, NoDir, Removing
<1>6. DirectoryRight(f)'
  BY <1>1, <1>3, <1>4, Marks DEF DirectoryRight, Made, NoDir
<1>7. LabelsSelect(dir[f].decl)' /\ LabelsSelect(declared[f])'
  BY <1>1, <1>3, <1>4, Marks DEF LabelsSelect, Made, NoDir
<1>8. command' \in Command /\ command'.f \in Followers
  BY <1>3 DEF Command
<1>9. declared' \in [Followers -> {Missing} \cup Declaration]
  BY <1>1, <1>3 DEF Typed
<1>10. QED
  BY <1>1, <1>3, <1>4, <1>5, <1>6, <1>7, <1>8, <1>9, OperatorStep, NobodyRuns

LEMMA UpdateSafe ==
    ASSUME Steady, RegistryInv, NEW f \in Followers, NEW select \in env.selects, NEW retaining \in BOOLEAN,
           Update(f, select, retaining)
    PROVE  RegistryInv'
<1> DEFINE new == [select |-> select, retaining |-> retaining]
<1>1. Typed /\ dir[f].here /\ dir[f].decl # Missing /\ dir[f] \in Directory /\ env \in Environments
  BY DEF RegistryInv, Typed, Update, Readable
<1>2. new \in Declaration /\ new # Missing
  BY <1>1, Surroundings, Marks DEF Declaration
<1>3. May("torn") => LabelsSelect(new)
  BY <1>1 DEF Steady, Selections, May, LabelsSelect
<1>4. /\ dir' = [dir EXCEPT ![f].decl = new] /\ declared' = [declared EXCEPT ![f] = new]
      /\ UNCHANGED <<env, first, next, torn, serial, proc, tick, verdict, got, command>>
      /\ command.pc = "idle"
  BY DEF Update, storeVars, procVars, tickVars, Idle
<1> HIDE DEF new
<1>5. /\ dir' \in [Followers -> Directory] /\ \A g \in Followers \ {f} : dir'[g] = dir[g]
      /\ dir'[f] = [dir[f] EXCEPT !.decl = new]
  BY <1>1, <1>2, <1>4 DEF Typed, Directory
<1>6. declared' \in [Followers -> {Missing} \cup Declaration] /\ declared'[f] = new
      /\ \A g \in Followers \ {f} : declared'[g] = declared[g]
  BY <1>1, <1>2, <1>4 DEF Typed
<1>7. /\ dir'[f].here = dir[f].here /\ dir'[f].decl = new /\ dir'[f].inode = dir[f].inode
      /\ dir'[f].pid = dir[f].pid /\ dir'[f].places = dir[f].places /\ dir'[f].legacy = dir[f].legacy
  BY <1>1, <1>5 DEF Directory
<1>8. CommandRight'
  BY <1>4 DEF CommandRight, Removing
<1>9. DirectoryRight(f)'
  <2>1. DirectoryRight(f)
    BY DEF RegistryInv, DirectoriesRight
  <2>2. UNCHANGED <<env, first, got>> /\ dir'[f].decl = declared'[f] /\ dir'[f].here = dir[f].here
        /\ dir'[f].places = dir[f].places /\ dir'[f].legacy = dir[f].legacy
    BY <1>4, <1>6, <1>7
  <2>3. dir[f].here
    BY <1>1
  <2>4. QED
    BY <2>1, <2>2, <2>3 DEF DirectoryRight, HonestIn, Reached
<1>10. May("torn") => LabelsSelect(dir[f].decl)' /\ LabelsSelect(declared[f])'
  BY <1>3, <1>6, <1>7 DEF LabelsSelect
<1>11. QED
  BY <1>1, <1>2, <1>4, <1>5, <1>6, <1>7, <1>8, <1>9, <1>10, OperatorStep DEF Typed

\* Commands that touch no directory.
LEMMA CommandStep ==
    ASSUME RegistryInv,
           UNCHANGED <<env, first, next, torn, dir, serial, declared, proc, got, tick, verdict>>,
           command' \in Command, command'.pc # "idle" => command'.f \in Followers, CommandRight'
    PROVE  RegistryInv'
<1> USE DEF RegistryInv
<1>1. Grown
  BY UnchangedIsGrown
<1>2. Typed'
  BY DEF Typed, Round
<1>3. ProcessesRight' /\ DirectoriesRight' /\ ByLabel'
  BY <1>1, ProcessesStay, DirectoriesStay, LabelsStay
<1>4. TickRight'
  BY <1>1, TickStays DEF Typed
<1>5. QED
  BY <1>2, <1>3, <1>4 DEF NothingHeldIsDropped

LEMMA CutSafe ==
    ASSUME RegistryInv, Cut
    PROVE  RegistryInv'
<1>1. /\ command' = [pc |-> "idle", f |-> None]
      /\ UNCHANGED <<env, first, next, torn, dir, serial, declared, proc, got, tick, verdict>>
  BY DEF Cut, Idle, storeVars, registryVars, procVars, tickVars
<1>2. command' \in Command
  BY <1>1 DEF Command
<1>3. CommandRight'
  BY <1>1 DEF CommandRight, Removing
<1>4. QED
  BY <1>1, <1>2, <1>3, CommandStep

LEMMA DeleteSafe ==
    ASSUME Steady, RegistryInv, NEW f \in Followers, Delete(f)
    PROVE  RegistryInv'
<1>1. /\ command' = [pc |-> "probe", f |-> f]
      /\ UNCHANGED <<env, first, next, torn, dir, serial, declared, proc, got, tick, verdict>>
  BY DEF Delete, storeVars, registryVars, procVars, tickVars
<1>2. \A p \in Processes : proc[p].pc \notin Starting
  BY DEF Delete, Steady, May, RegistryInv, Typed, Starting
<1>3. command' \in Command /\ command'.f \in Followers
  BY <1>1 DEF Command
<1>4. CommandRight'
  BY <1>1, <1>2 DEF CommandRight, Removing
<1>5. QED
  BY <1>1, <1>3, <1>4, CommandStep

\* A follower whose lock nobody holds, or whose lock names a process that is gone, is run by
\* nobody.
LEMMA StoppedIsStopped ==
    ASSUME RegistryInv, NEW f \in Followers, Liveness(f) = "stopped", NEW p \in Processes,
           proc[p].pc # "off", proc[p].pc \notin Starting
    PROVE  proc[p].f # f
<1>1. SUFFICES ASSUME proc[p].f = f PROVE FALSE
  OBVIOUS
<1>2. proc[p].pc \in {"noted", "running"}
  BY DEF RegistryInv, Typed, Process
<1>3. dir[f].inode = proc[p].inode /\ proc[p].inode # 0 /\ dir[f].pid = p
  BY <1>1, <1>2 DEF RegistryInv, ProcessesRight, ProcessRight, Holding
<1>4. p \in HeldBy(f)
  BY <1>1, <1>2, <1>3 DEF HeldBy
<1>5. p # "dead"
  BY MarksAssumption
<1>6. QED
  BY <1>3, <1>4, <1>5 DEF Liveness

LEMMA ProbeSafe ==
    ASSUME RegistryInv, Probe
    PROVE  RegistryInv'
<1>1. UNCHANGED <<env, first, next, torn, dir, serial, declared, proc, got, tick, verdict>>
  BY DEF Probe, storeVars, registryVars, procVars, tickVars
<1>2. command \in Command /\ command.pc = "probe" /\ command.f \in Followers
  BY DEF RegistryInv, Typed, Probe
<1>3. CASE Liveness(command.f) = "stopped"
  <2>1. command' = [command EXCEPT !.pc = "remove"]
    BY <1>3 DEF Probe
  <2>2. command' \in Command /\ command'.pc = "remove" /\ command'.f = command.f
    BY <1>2, <2>1 DEF Command, Removing
  <2>3. \A p \in Processes : proc[p].pc \notin Starting
    BY <1>2 DEF RegistryInv, CommandRight
  <2>4. \A p \in Processes : proc[p].pc # "off" => proc[p].f # command.f
    BY <1>2, <1>3, <2>3, StoppedIsStopped
  <2>5. CommandRight'
    BY <1>1, <2>2, <2>3, <2>4 DEF CommandRight
  <2>6. QED
    BY <1>1, <1>2, <2>2, <2>5, CommandStep
<1>4. CASE Liveness(command.f) # "stopped"
  <2>1. command' = [pc |-> "idle", f |-> None]
    BY <1>4 DEF Probe, Idle
  <2>2. command' \in Command
    BY <2>1 DEF Command
  <2>3. CommandRight'
    BY <2>1 DEF CommandRight, Removing
  <2>4. QED
    BY <1>1, <2>1, <2>2, <2>3, CommandStep
<1>5. QED
  BY <1>3, <1>4

LEMMA RemoveFilesSafe ==
    ASSUME RegistryInv, RemoveFiles
    PROVE  RegistryInv'
<1>1. Typed /\ command \in Command /\ command.pc = "remove" /\ command.f \in Followers
  BY DEF RegistryInv, Typed, RemoveFiles
<1>f. PICK f \in Followers : f = command.f
  BY <1>1
<1>2. Made \in Directory
  BY DEF Made, NoDir, Directory
<1>3. /\ dir' = [dir EXCEPT ![f] = Made] /\ declared' = [declared EXCEPT ![f] = Missing]
      /\ command' = [command EXCEPT !.pc = "rmdir"]
      /\ UNCHANGED <<env, first, next, torn, serial, proc, tick, verdict, got>>
  BY <1>f DEF RemoveFiles, storeVars, procVars, tickVars
<1>4. /\ \A p \in Processes : proc[p].pc \notin Starting
      /\ \A p \in Processes : proc[p].pc # "off" => proc[p].f # f
  BY <1>1, <1>f DEF RegistryInv, CommandRight, Removing
<1>5. command' \in Command /\ command'.pc = "rmdir" /\ command'.f = f
  BY <1>1, <1>3, <1>f DEF Command, Removing
<1>6. dir' \in [Followers -> Directory] /\ dir'[f] = Made /\ \A g \in Followers \ {f} : dir'[g] = dir[g]
  BY <1>1, <1>2, <1>3 DEF Typed
<1>7. /\ declared' \in [Followers -> {Missing} \cup Declaration] /\ declared'[f] = Missing
      /\ \A g \in Followers \ {f} : declared'[g] = declared[g]
  BY <1>1, <1>3 DEF Typed
<1>8. CommandRight'
  BY <1>3, <1>4, <1>5 DEF CommandRight
<1>9. DirectoryRight(f)' /\ LabelsSelect(dir[f].decl)' /\ LabelsSelect(declared[f])'
  BY <1>6, <1>7, Marks DEF DirectoryRight, Made, NoDir, LabelsSelect
<1>10. QED
  BY <1>1, <1>3, <1>4, <1>5, <1>6, <1>7, <1>8, <1>9, OperatorStep

LEMMA RemoveDirSafe ==
    ASSUME RegistryInv, RemoveDir
    PROVE  RegistryInv'
<1>1. Typed /\ command \in Command /\ command.pc = "rmdir" /\ command.f \in Followers
  BY DEF RegistryInv, Typed, RemoveDir
<1>f. PICK f \in Followers : f = command.f
  BY <1>1
<1>2. NoDir \in Directory
  BY DEF NoDir, Directory
<1>3. /\ dir' = [dir EXCEPT ![f] = IF @ = Made THEN NoDir ELSE @]
      /\ command' = [pc |-> "idle", f |-> None]
      /\ UNCHANGED <<env, first, next, torn, serial, declared, proc, tick, verdict, got>>
  BY <1>f DEF RemoveDir, Idle, storeVars, procVars, tickVars
<1>4. \A p \in Processes : proc[p].pc # "off" => proc[p].f # f
  BY <1>1, <1>f DEF RegistryInv, CommandRight, Removing
<1>5. command' \in Command /\ command'.pc = "idle"
  BY <1>3 DEF Command
<1>6. /\ dir' \in [Followers -> Directory] /\ \A g \in Followers \ {f} : dir'[g] = dir[g]
      /\ dir'[f] = IF dir[f] = Made THEN NoDir ELSE dir[f]
  BY <1>1, <1>2, <1>3 DEF Typed
<1>7. /\ declared' \in [Followers -> {Missing} \cup Declaration]
      /\ \A g \in Followers \ {f} : declared'[g] = declared[g]
  BY <1>1, <1>3 DEF Typed
<1>8. CommandRight'
  BY <1>5 DEF CommandRight, Removing
<1>9. DirectoryRight(f) /\ (May("torn") => LabelsSelect(dir[f].decl) /\ LabelsSelect(declared[f]))
  BY DEF RegistryInv, DirectoriesRight, ByLabel
<1>10. DirectoryRight(f)' /\ (May("torn") => LabelsSelect(dir[f].decl)' /\ LabelsSelect(declared[f])')
  <2>1. CASE dir[f] = Made
    BY <1>3, <1>6, <1>9, <2>1, Marks DEF DirectoryRight, Made, NoDir, LabelsSelect
  <2>2. CASE dir[f] # Made
    BY <1>3, <1>6, <1>9, <2>2 DEF DirectoryRight, HonestIn, Reached, LabelsSelect
  <2>3. QED
    BY <2>1, <2>2
<1>11. QED
  BY <1>1, <1>3, <1>4, <1>5, <1>6, <1>7, <1>8, <1>10, OperatorStep

LEMMA SpoilSafe ==
    ASSUME RegistryInv, NEW f \in Followers, Spoil(f)
    PROVE  RegistryInv'
<1>1. /\ Typed /\ command \in Command /\ dir[f] \in Directory
      /\ dir[f].here /\ dir[f].decl \notin {Missing, Spoilt}
      /\ DirectoryRight(f) /\ (May("torn") => LabelsSelect(dir[f].decl) /\ LabelsSelect(declared[f]))
  BY DEF RegistryInv, Typed, Spoil, Readable, DirectoriesRight, ByLabel
<1>2. /\ \/ dir' = [dir EXCEPT ![f].decl = Spoilt]
         \/ dir' = [dir EXCEPT ![f].places = Spoilt]
      /\ UNCHANGED <<env, first, next, torn, serial, declared, command, proc, tick, verdict, got>>
  BY DEF Spoil, storeVars, procVars, tickVars
<1>3. PICK d : /\ d \in {[dir[f] EXCEPT !.decl = Spoilt], [dir[f] EXCEPT !.places = Spoilt]}
               /\ dir' = [dir EXCEPT ![f] = d]
  BY <1>1, <1>2 DEF Typed
<1>4. /\ d \in Directory /\ d.here /\ d.decl # Missing /\ d.decl \in {dir[f].decl, Spoilt}
      /\ d.places \in {dir[f].places, Spoilt} /\ d.legacy = dir[f].legacy
      /\ d.inode = dir[f].inode /\ d.pid = dir[f].pid
  BY <1>1, <1>3, Marks DEF Directory
<1>5. dir' \in [Followers -> Directory] /\ dir'[f] = d /\ \A g \in Followers \ {f} : dir'[g] = dir[g]
  BY <1>1, <1>3, <1>4 DEF Typed
<1>6. /\ declared' \in [Followers -> {Missing} \cup Declaration]
      /\ \A g \in Followers \ {f} : declared'[g] = declared[g]
  BY <1>1, <1>2 DEF Typed
<1>7. CommandRight'
  <2>1. command.pc = "declare" => command.f # f /\ command.f \in Followers
    BY <1>1 DEF RegistryInv, Typed, CommandRight
  <2>2. QED
    BY <1>2, <1>5, <2>1 DEF RegistryInv, CommandRight, Removing
<1>8. DirectoryRight(f)' /\ (May("torn") => LabelsSelect(dir[f].decl)' /\ LabelsSelect(declared[f])')
  BY <1>1, <1>2, <1>4, <1>5, Marks DEF DirectoryRight, HonestIn, Reached, LabelsSelect
<1>9. QED
  BY <1>1, <1>2, <1>4, <1>5, <1>6, <1>7, <1>8, OperatorStep DEF Typed

LEMMA RepairSafe ==
    ASSUME RegistryInv, NEW f \in Followers, Repair(f)
    PROVE  RegistryInv'
<1>1. /\ Typed /\ command \in Command /\ dir[f] \in Directory /\ dir[f].here
      /\ declared[f] \in Declaration /\ declared[f] # Missing
      /\ DirectoryRight(f) /\ (May("torn") => LabelsSelect(dir[f].decl) /\ LabelsSelect(declared[f]))
  BY DEF RegistryInv, Typed, Repair, DirectoriesRight, ByLabel
<1>2. /\ \/ dir[f].decl = Spoilt /\ dir' = [dir EXCEPT ![f].decl = declared[f]]
         \/ dir[f].places = Spoilt /\ dir' = [dir EXCEPT ![f].places = NoPlaces]
      /\ UNCHANGED <<env, first, next, torn, serial, declared, command, proc, tick, verdict, got>>
  BY DEF Repair, storeVars, operatorVars, procVars, tickVars
<1>3. PICK d : /\ \/ dir[f].decl = Spoilt /\ d = [dir[f] EXCEPT !.decl = declared[f]]
                  \/ dir[f].places = Spoilt /\ d = [dir[f] EXCEPT !.places = NoPlaces]
               /\ dir' = [dir EXCEPT ![f] = d]
  BY <1>1, <1>2 DEF Typed
<1>4. /\ d \in Directory /\ d.here /\ d.decl \in {dir[f].decl, declared[f]}
      /\ d.places \in {dir[f].places, NoPlaces} /\ d.legacy = dir[f].legacy
      /\ d.inode = dir[f].inode /\ d.pid = dir[f].pid
  <2>1. NoPlaces \in Positions
    BY DEF NoPlaces, Positions
  <2>2. QED
    BY <1>1, <1>3, <2>1 DEF Directory
<1>5. dir' \in [Followers -> Directory] /\ dir'[f] = d /\ \A g \in Followers \ {f} : dir'[g] = dir[g]
  BY <1>1, <1>3, <1>4 DEF Typed
<1>6. /\ declared' \in [Followers -> {Missing} \cup Declaration]
      /\ \A g \in Followers \ {f} : declared'[g] = declared[g]
  BY <1>1, <1>2 DEF Typed
<1>7. CommandRight'
  <2>1. command.pc = "declare" => command.f # f /\ command.f \in Followers
    BY <1>1, <1>3, Marks DEF RegistryInv, Typed, CommandRight, DirectoryRight
  <2>2. QED
    BY <1>2, <1>5, <2>1 DEF RegistryInv, CommandRight, Removing
<1>8. \A s \in Stores : HonestIn(f, s, NoPlaces[s])'
  BY DEF HonestIn, NoPlaces
<1>9. DirectoryRight(f)' /\ (May("torn") => LabelsSelect(dir[f].decl)' /\ LabelsSelect(declared[f])')
  BY <1>1, <1>2, <1>4, <1>5, <1>8, Marks DEF DirectoryRight, HonestIn, Reached, LabelsSelect
<1>10. ASSUME NEW p \in Processes, proc[p].pc # "off", proc[p].f = f PROVE d.decl # Missing
  BY <1>1, <1>4, <1>10 DEF RegistryInv, ProcessesRight, ProcessRight
<1>11. QED
  BY <1>1, <1>2, <1>4, <1>5, <1>6, <1>7, <1>9, <1>10, OperatorStep DEF Typed

\* What a tick knows with one follower's share of it forgotten.
LEMMA IndexForgets ==
    ASSUME NEW index, NEW owed, NEW less, NEW f \in Followers, IndexRight(index, owed), owed # None,
           less = [owed EXCEPT ![f] = {}], env' = env, \A g \in Followers \ {f} : GrownFor(g)
    PROVE  IndexRight(index, less)'
<1>1. owed \in [Followers -> SUBSET (Labels \cup Stores)]
  BY DEF IndexRight
<1>2. /\ less \in [Followers -> SUBSET (Labels \cup Stores)] /\ less[f] = {}
      /\ \A g \in Followers \ {f} : less[g] = owed[g]
  BY <1>1
<1>3. ASSUME index # Closed, NEW g \in Followers
      PROVE  EntryRight(index, less, g)'
  <2>1. CASE g = f
    BY <1>2, <2>1 DEF EntryRight
  <2>2. CASE g # f
    <3>1. EntryRight(index, less, g)
      BY <1>2, <1>3, <2>2 DEF IndexRight, EntryRight
    <3>2. \A s \in Stores : g \in DOMAIN index => index[g].at[s] \in Nat \cup {None}
      BY <1>3 DEF IndexRight
    <3>3. QED
      BY <2>2, <3>1, <3>2, EntryStays
  <2>3. QED
    BY <2>1, <2>2
<1>4. QED
  BY <1>2, <1>3 DEF IndexRight, May

LEMMA FloorForgets ==
    ASSUME NEW s \in Stores, NEW fields, NEW interest, NEW owed, NEW less, NEW f \in Followers,
           FloorRight(s, fields, interest, owed), owed # None, DOMAIN owed = Followers,
           less = [owed EXCEPT ![f] = {}], \A g \in Followers \ {f} : GrownFor(g)
    PROVE  FloorRight(s, fields, interest, less)'
<1>1. less[f] = {} /\ \A g \in Followers \ {f} : less[g] = owed[g]
  OBVIOUS
<1>2. QED
  BY <1>1 DEF FloorRight, GrownFor

\* A declaration made again starts over: its consumer has been given nothing, its directory
\* names no place, and a tick that has read the registry owes it nothing.
LEMMA DeclareSafe ==
    ASSUME Steady, RegistryInv, NEW f \in Followers, NEW select \in env.selects, NEW retaining \in BOOLEAN,
           Declare(f, select, retaining)
    PROVE  RegistryInv'
<1> DEFINE new == [select |-> select, retaining |-> retaining]
<1>1. /\ Typed /\ dir[f] \in Directory /\ env \in Environments
      /\ dir[f].here /\ command.pc = "declare" /\ command.f = f
  BY DEF RegistryInv, Typed, Declare
<1>2. dir[f].decl = Missing /\ dir[f].places = Missing /\ dir[f].legacy = Missing
  BY <1>1 DEF RegistryInv, CommandRight
<1>3. new \in Declaration /\ new # Missing
  BY <1>1, Surroundings, Marks DEF Declaration
<1>4. May("torn") => LabelsSelect(new)
  BY <1>1 DEF Steady, Selections, May, LabelsSelect
<1>5. /\ dir' = [dir EXCEPT ![f].decl = new] /\ declared' = [declared EXCEPT ![f] = dir'[f].decl]
      /\ got' = [got EXCEPT ![f] = [s \in Stores |-> {}]]
      /\ UNCHANGED <<env, first, next, torn, serial, proc, verdict>>
      /\ command' = [pc |-> "idle", f |-> None]
      /\ tick' = IF tick.owed = None THEN tick ELSE [tick EXCEPT !.owed[f] = {}]
  BY DEF Declare, storeVars, Idle
<1> HIDE DEF new
<1>6. /\ dir' \in [Followers -> Directory] /\ \A g \in Followers \ {f} : dir'[g] = dir[g]
      /\ dir'[f] = [dir[f] EXCEPT !.decl = new]
  BY <1>1, <1>3, <1>5 DEF Typed, Directory
<1>7. /\ dir'[f].here = dir[f].here /\ dir'[f].decl = new
      /\ dir'[f].places = Missing /\ dir'[f].legacy = Missing
  <2>1. dir[f] \in Directory /\ dir'[f] = [dir[f] EXCEPT !.decl = new]
    BY <1>1, <1>6
  <2>2. dir'[f].here = dir[f].here /\ dir'[f].decl = new /\ dir'[f].places = dir[f].places
        /\ dir'[f].legacy = dir[f].legacy
    BY <2>1 DEF Directory
  <2>3. QED
    BY <1>2, <2>2
<1>8. declared' \in [Followers -> {Missing} \cup Declaration] /\ declared'[f] = new
      /\ \A g \in Followers \ {f} : declared'[g] = declared[g]
  BY <1>1, <1>3, <1>5, <1>7 DEF Typed
<1>9. \A g \in Followers \ {f} : GrownFor(g)
  BY <1>1, <1>5 DEF Typed, GrownFor
<1>10. \A p \in Processes : ~(proc[p].pc # "off" /\ proc[p].f = f)
  BY <1>2, NobodyRuns
<1>11. Typed'
  <2>1. got' \in [Followers -> [Stores -> SUBSET Nat]]
    BY <1>1, <1>5 DEF Typed
  <2>2. DOMAIN tick' = DOMAIN tick /\ tick'.left = tick.left
    BY <1>1, <1>5 DEF Typed, Round
  <2>3. command' \in Command /\ command'.pc = "idle"
    BY <1>5 DEF Command
  <2>4. DOMAIN Round' = DOMAIN Round
    BY DEF Round
  <2>5. QED
    BY <1>1, <1>5, <1>6, <1>8, <2>1, <2>2, <2>3, <2>4 DEF Typed
<1>12. ProcessesRight'
  <2>1. ASSUME NEW p \in Processes PROVE ProcessRight(p)'
    <3>1. ProcessRight(p)
      BY DEF RegistryInv, ProcessesRight
    <3>2. CASE proc[p].pc # "off"
      <4>1. /\ proc[p].f \in Followers \ {f} /\ dir[proc[p].f].here
            /\ dir[proc[p].f].decl # Missing
        BY <1>10, <3>1, <3>2 DEF ProcessRight
      <4>2. QED
        BY <1>1, <1>5, <1>6, <1>9, <3>1, <4>1, ProcessStays
    <3>3. CASE proc[p].pc = "off"
      BY <1>5, <3>3 DEF ProcessRight
    <3>4. QED
      BY <3>2, <3>3
  <2>2. QED
    BY <1>5, <2>1 DEF RegistryInv, ProcessesRight
<1>13. CommandRight'
  BY <1>5 DEF CommandRight, Removing
<1>14. DirectoriesRight'
  <2>1. ASSUME NEW g \in Followers PROVE DirectoryRight(g)'
    <3>1. CASE g = f
      BY <1>1, <1>7, <1>8, <3>1, Marks DEF DirectoryRight
    <3>2. CASE g # f
      BY <1>1, <1>6, <1>8, <1>9, <3>2, DirectoryStays DEF RegistryInv, DirectoriesRight
    <3>3. QED
      BY <3>1, <3>2
  <2>2. QED
    BY <2>1 DEF DirectoriesRight
<1>15. ByLabel'
  <2>1. ASSUME May("torn"), NEW g \in Followers
        PROVE  LabelsSelect(dir'[g].decl) /\ LabelsSelect(declared'[g])
    BY <1>4, <1>6, <1>7, <1>8, <2>1 DEF RegistryInv, ByLabel
  <2>2. QED
    BY <1>5, <2>1 DEF RegistryInv, ByLabel, May, LabelsSelect
<1>16. TickRight'
  <2>1. CASE tick.owed = None
    BY <1>5, <2>1 DEF RegistryInv, TickRight, IndexRight, FloorRight, May
  <2>2. CASE tick.owed # None
    <3>1. PICK less : less = [tick.owed EXCEPT ![f] = {}]
      OBVIOUS
    <3>2. tick' = [tick EXCEPT !.owed = less]
      BY <1>5, <2>2, <3>1
    <3>3. /\ tick'.pc = tick.pc /\ tick'.s = tick.s /\ tick'.nextSeq = tick.nextSeq
          /\ tick'.fields = tick.fields /\ tick'.label = tick.label /\ tick'.index = tick.index
          /\ tick'.interest = tick.interest /\ tick'.owed = less
      BY <1>1, <3>2 DEF Typed, Round
    <3>4. DOMAIN tick.owed = Followers
      BY <2>2 DEF RegistryInv, TickRight, IndexRight
    <3>5. IndexRight(tick.index, tick.owed)'
      BY <1>5, <1>9, <2>2, <3>1, <3>3, IndexForgets DEF RegistryInv, TickRight
    <3>6. tick.pc = "enforce" => FloorRight(tick.s, {tick.s, tick.label}, tick.interest, tick.owed)'
      BY <1>9, <2>2, <3>1, <3>3, <3>4, FloorForgets DEF RegistryInv, TickRight
    <3>7. QED
      BY <1>5, <3>3, <3>5, <3>6 DEF RegistryInv, TickRight, May
  <2>3. QED
    BY <2>1, <2>2
<1>17. QED
  BY <1>5, <1>11, <1>12, <1>13, <1>14, <1>15, <1>16 DEF RegistryInv, NothingHeldIsDropped

------------------------------------------------------------------------------
\* The processes.

\* A step of one process: others keep their locks, and places that change are honest and of a
\* follower that has been declared.
LEMMA ProcessStep ==
    ASSUME RegistryInv, NEW p \in Processes, Grown,
           UNCHANGED <<env, first, next, torn, declared, command, tick, verdict>>,
           serial' \in Nat, got' \in [Followers -> [Stores -> SUBSET Nat]],
           proc' \in [Processes -> Process], \A q \in Processes \ {p} : proc'[q] = proc[q],
           dir' \in [Followers -> Directory],
           \A g \in Followers :
               dir'[g].here = dir[g].here /\ dir'[g].decl = dir[g].decl /\ dir'[g].legacy = dir[g].legacy,
           \A g \in Followers :
               \/ dir'[g].places = dir[g].places
               \/ /\ dir[g].decl # Missing
                  /\ dir'[g].places \in Positions => \A s \in Stores : HonestIn(g, s, dir[g].places[s])',
           \A q \in Processes \ {p} :
               /\ proc[q].pc \in Holding => dir'[proc[q].f].inode = dir[proc[q].f].inode
               /\ proc[q].pc \in {"noted", "running"} => dir'[proc[q].f].pid = dir[proc[q].f].pid
               /\ proc[q].pc \in Holding /\ proc'[p].pc \in Holding => proc[q].f # proc'[p].f,
           ProcessRight(p)',
           proc'[p].pc \in Starting => command.pc \notin {"probe"} \cup Removing,
           proc'[p].pc # "off" /\ command.pc \in Removing => proc'[p].f # command.f
    PROVE  RegistryInv'
<1>1. Typed
  BY DEF RegistryInv
<1>2. Typed'
  BY <1>1 DEF Typed, Round
<1>3. ProcessesRight'
  <2>1. ASSUME NEW q \in Processes PROVE ProcessRight(q)'
    <3>1. CASE q = p
      BY <3>1
    <3>2. CASE q # p /\ proc[q].pc # "off"
      <4>1. ProcessRight(q)
        BY DEF RegistryInv, ProcessesRight
      <4>2. proc[q].f \in Followers /\ dir[proc[q].f].here /\ dir[proc[q].f].decl # Missing
        BY <3>2, <4>1 DEF ProcessRight
      <4>3. QED
        BY <1>1, <3>2, <4>1, <4>2, ProcessStays DEF Grown
    <3>3. CASE q # p /\ proc[q].pc = "off"
      BY <3>3 DEF ProcessRight
    <3>4. QED
      BY <3>1, <3>2, <3>3
  <2>2. ASSUME NEW q \in Processes, NEW r \in Processes, q # r, proc'[q].pc \in Holding, proc'[r].pc \in Holding
        PROVE  proc'[q].f # proc'[r].f
    BY <2>2 DEF RegistryInv, ProcessesRight
  <2>3. QED
    BY <2>1, <2>2 DEF ProcessesRight, Holding
<1>4. CommandRight'
  <2>1. command.pc = "declare" =>
            /\ dir'[command.f].decl = Missing /\ dir'[command.f].places = Missing
            /\ dir'[command.f].legacy = Missing
    BY <1>1 DEF RegistryInv, CommandRight, Typed
  <2>2. command.pc \in {"probe"} \cup Removing => \A q \in Processes : proc'[q].pc \notin Starting
    BY DEF RegistryInv, CommandRight
  <2>3. command.pc \in Removing => \A q \in Processes : proc'[q].pc # "off" => proc'[q].f # command.f
    BY DEF RegistryInv, CommandRight
  <2>4. QED
    BY <2>1, <2>2, <2>3 DEF CommandRight, Removing, Starting
<1>5. ASSUME NEW g \in Followers PROVE DirectoryRight(g)'
  <2>1. DirectoryRight(g) /\ GrownFor(g)
    BY DEF RegistryInv, DirectoriesRight, Grown
  <2>2. CASE dir'[g].places = dir[g].places
    BY <1>1, <2>1, <2>2, DirectoryStays
  <2>3. CASE dir'[g].places \in Positions => \A s \in Stores : HonestIn(g, s, dir[g].places[s])'
    <3>1. dir[g].legacy \in Cursor => \A s \in Stores : Reached(g, s, dir[g].legacy.chunk, FALSE)'
      BY <1>1, <2>1, ReachedStays, PlacesHaveNumbers DEF DirectoryRight
    <3>2. QED
      BY <2>1, <2>3, <3>1 DEF DirectoryRight
  <2>4. QED
    BY <2>2, <2>3
<1>6. ByLabel'
  BY DEF RegistryInv, ByLabel, May, LabelsSelect
<1>7. TickRight'
  BY <1>1, TickStays DEF RegistryInv, Typed
<1>8. QED
  BY <1>2, <1>3, <1>4, <1>5, <1>6, <1>7 DEF RegistryInv, DirectoriesRight, NothingHeldIsDropped

\* A process that ends, and what it leaves behind.
LEMMA ProcessEnds ==
    ASSUME RegistryInv, NEW p \in Processes, proc' = [proc EXCEPT ![p] = Off], dir' = dir \/ dir' = Without(p),
           UNCHANGED <<env, first, next, torn, declared, command, tick, verdict, serial, got>>
    PROVE  RegistryInv'
<1>1. Typed /\ Grown
  BY UnchangedIsGrown DEF RegistryInv
<1>2. Off \in Process
  BY DEF Off, Process, NoPlaces, Positions
<1>3. /\ proc' \in [Processes -> Process] /\ proc'[p].pc = "off"
      /\ \A q \in Processes \ {p} : proc'[q] = proc[q]
  BY <1>1, <1>2 DEF Typed, Off
<1>4. /\ dir' \in [Followers -> Directory]
      /\ \A g \in Followers :
             /\ dir'[g].here = dir[g].here /\ dir'[g].decl = dir[g].decl /\ dir'[g].legacy = dir[g].legacy
             /\ dir'[g].places = dir[g].places /\ dir'[g].inode = dir[g].inode
             /\ dir[g].pid # p => dir'[g].pid = dir[g].pid
  <2>1. CASE dir' = dir
    BY <1>1, <2>1 DEF Typed
  <2>2. CASE dir' = Without(p)
    <3>1. dir' = [g \in Followers |-> IF dir[g].pid = p THEN [dir[g] EXCEPT !.pid = "dead"] ELSE dir[g]]
      BY <2>2 DEF Without
    <3>2. ASSUME NEW g \in Followers
          PROVE  /\ dir'[g] \in Directory
                 /\ dir'[g].here = dir[g].here /\ dir'[g].decl = dir[g].decl /\ dir'[g].legacy = dir[g].legacy
                 /\ dir'[g].places = dir[g].places /\ dir'[g].inode = dir[g].inode
                 /\ dir[g].pid # p => dir'[g].pid = dir[g].pid
      <4>1. dir[g] \in Directory
        BY <1>1 DEF Typed
      <4>2. CASE dir[g].pid = p
        BY <3>1, <4>1, <4>2 DEF Directory
      <4>3. CASE dir[g].pid # p
        BY <3>1, <4>1, <4>3
      <4>4. QED
        BY <4>2, <4>3
    <3>3. QED
      BY <3>1, <3>2
  <2>3. QED
    BY <2>1, <2>2
<1>5. ASSUME NEW q \in Processes \ {p}
      PROVE  /\ proc[q].pc \in Holding => dir'[proc[q].f].inode = dir[proc[q].f].inode
             /\ proc[q].pc \in {"noted", "running"} => dir'[proc[q].f].pid = dir[proc[q].f].pid
  BY <1>4, <1>5 DEF RegistryInv, ProcessesRight, ProcessRight, Holding
<1>6. ProcessRight(p)'
  BY <1>3 DEF ProcessRight
<1>7. QED
  BY <1>1, <1>3, <1>4, <1>5, <1>6, ProcessStep DEF Typed, Holding, Starting

LEMMA ExitSafe ==
    ASSUME RegistryInv, NEW p \in Processes, Exit(p)
    PROVE  RegistryInv'
BY ProcessEnds DEF Exit, storeVars, operatorVars, tickVars

LEMMA LoadSafe ==
    ASSUME Steady, RegistryInv, NEW p \in Processes, NEW f \in Followers, Load(p, f)
    PROVE  RegistryInv'
<1> DEFINE new == [Off EXCEPT !.pc = "loaded", !.f = f, !.select = dir[f].decl.select]
<1>1. Typed /\ Grown /\ env \in Environments
  BY UnchangedIsGrown DEF RegistryInv, Typed, Load, storeVars
<1>2. dir[f].here /\ dir[f].decl \in Declaration /\ dir[f].decl # Missing
  BY <1>1 DEF Load, Readable, Typed, Directory
<1>3. new \in Process /\ new.pc = "loaded" /\ new.f = f
  <2>1. dir[f].decl.select \in SUBSET (Labels \cup Stores)
    BY <1>2 DEF Declaration
  <2>2. NoPlaces \in Positions
    BY DEF NoPlaces, Positions
  <2>3. QED
    BY <2>1, <2>2 DEF Process, Off, Starting
<1>4. command.pc \notin {"probe"} \cup Removing
  BY <1>1 DEF Load, Hurried, Steady, May, Removing
<1>5. proc' = [proc EXCEPT ![p] = new]
      /\ UNCHANGED <<env, first, next, torn, dir, declared, command, tick, verdict, serial, got>>
  BY DEF Load, storeVars, registryVars, operatorVars, tickVars
<1> HIDE DEF new
<1>6. proc' \in [Processes -> Process] /\ proc'[p] = new /\ \A q \in Processes \ {p} : proc'[q] = proc[q]
  BY <1>1, <1>3, <1>5 DEF Typed
<1>7. ProcessRight(p)'
  BY <1>2, <1>3, <1>5, <1>6 DEF ProcessRight, Holding
<1>8. proc'[p].pc \notin Holding
  BY <1>3, <1>6 DEF Holding
<1>9. QED
  BY <1>1, <1>3, <1>4, <1>5, <1>6, <1>7, <1>8, ProcessStep DEF Typed

LEMMA LockSafe ==
    ASSUME Steady, RegistryInv, NEW p \in Processes, Lock(p)
    PROVE  RegistryInv'
<1>1. Typed /\ Grown /\ env \in Environments
  BY UnchangedIsGrown DEF RegistryInv, Typed, Lock, storeVars
<1>2. /\ UNCHANGED <<env, first, next, torn, declared, command, tick, verdict, got>>
      /\ proc[p].pc = "loaded" /\ proc[p] \in Process /\ command.pc \notin {"probe"} \cup Removing
  BY <1>1 DEF Lock, Hurried, Steady, May, Removing, storeVars, operatorVars, tickVars, Typed
<1>3. PICK f \in Followers : f = proc[p].f /\ dir[f].here /\ dir[f].decl # Missing
  BY <1>2 DEF RegistryInv, ProcessesRight, ProcessRight
<1>4. CASE HeldBy(f) # {}
  BY <1>2, <1>3, <1>4, ProcessEnds DEF Lock
<1>5. CASE HeldBy(f) = {}
  <2>1. PICK inode : inode = IF dir[f].inode = 0 THEN serial + 1 ELSE dir[f].inode
    OBVIOUS
  <2>2. dir[f] \in Directory /\ inode \in Nat /\ inode # 0 /\ serial \in Nat
    BY <1>1, <2>1 DEF Typed, Directory
  <2>3. /\ proc' = [proc EXCEPT ![p].pc = "locked", ![p].inode = inode]
        /\ dir' = [dir EXCEPT ![f].inode = inode]
        /\ serial' = IF inode > serial THEN inode ELSE serial
    BY <1>3, <1>5, <2>1 DEF Lock
  <2>4. /\ proc' \in [Processes -> Process] /\ \A q \in Processes \ {p} : proc'[q] = proc[q]
        /\ proc'[p].pc = "locked" /\ proc'[p].inode = inode /\ proc'[p].f = f
    BY <1>1, <1>2, <1>3, <2>2, <2>3 DEF Typed, Process, Starting
  <2>5. dir' \in [Followers -> Directory] /\ dir'[f] = [dir[f] EXCEPT !.inode = inode]
        /\ \A g \in Followers \ {f} : dir'[g] = dir[g]
    BY <1>1, <2>2, <2>3 DEF Typed, Directory
  <2>6. /\ dir'[f].inode = inode /\ dir'[f].here = dir[f].here /\ dir'[f].decl = dir[f].decl
        /\ dir'[f].legacy = dir[f].legacy /\ dir'[f].places = dir[f].places /\ dir'[f].pid = dir[f].pid
    BY <2>2, <2>5 DEF Directory
  <2>7. ASSUME NEW q \in Processes \ {p}, proc[q].pc \in Holding
        PROVE  proc[q].f \in Followers \ {f}
    <3>1. proc[q].f \in Followers /\ dir[proc[q].f].inode = proc[q].inode /\ proc[q].inode # 0
      BY <2>7 DEF RegistryInv, ProcessesRight, ProcessRight, Holding
    <3>2. proc[q].f # f
      BY <1>5, <2>7, <3>1 DEF HeldBy, Holding
    <3>3. QED
      BY <3>1, <3>2
  <2>8. ASSUME NEW q \in Processes \ {p}, proc[q].pc \in Holding
        PROVE  /\ dir'[proc[q].f].inode = dir[proc[q].f].inode /\ dir'[proc[q].f].pid = dir[proc[q].f].pid
               /\ proc[q].f # proc'[p].f
    BY <2>4, <2>5, <2>7, <2>8
  <2>9. ProcessRight(p)'
    BY <1>3, <2>2, <2>4, <2>6 DEF ProcessRight, Holding
  <2>10. serial' \in Nat
    BY <2>2, <2>3
  <2>11. \A g \in Followers :
            /\ dir'[g].here = dir[g].here /\ dir'[g].decl = dir[g].decl /\ dir'[g].legacy = dir[g].legacy
            /\ dir'[g].places = dir[g].places
    BY <2>5, <2>6
  <2>12. QED
    BY <1>1, <1>2, <2>4, <2>5, <2>8, <2>9, <2>10, <2>11, ProcessStep DEF Typed, Holding
<1>6. QED
  BY <1>4, <1>5

\* A process past the lock has its follower to itself.
LEMMA HoldsAlone ==
    ASSUME RegistryInv, NEW p \in Processes, proc[p].pc \in Holding
    PROVE  /\ proc[p].f \in Followers /\ Mine(p) /\ dir[proc[p].f].decl # Missing
           /\ \A q \in Processes \ {p} :
                  proc[q].pc \in Holding => proc[q].f \in Followers /\ proc[q].f # proc[p].f
BY DEF RegistryInv, ProcessesRight, ProcessRight, Holding, Mine

LEMMA WriteInfoSafe ==
    ASSUME RegistryInv, NEW p \in Processes, WriteInfo(p)
    PROVE  RegistryInv'
<1>1. Typed /\ Grown
  BY UnchangedIsGrown DEF RegistryInv, WriteInfo, storeVars
<1>2. /\ UNCHANGED <<env, first, next, torn, serial, declared, command, tick, verdict, got>>
      /\ proc[p].pc = "locked" /\ proc[p] \in Process
  BY <1>1 DEF WriteInfo, storeVars, operatorVars, tickVars, Typed
<1>3. PICK f \in Followers : f = proc[p].f /\ dir[f].decl # Missing
  BY <1>2, HoldsAlone DEF Holding
<1>4. Mine(p) /\ \A q \in Processes \ {p} : proc[q].pc \in Holding => proc[q].f \in Followers \ {f}
  BY <1>2, <1>3, HoldsAlone DEF Holding
<1>5. proc' = [proc EXCEPT ![p].pc = "noted"] /\ dir' = [dir EXCEPT ![f].pid = p]
  BY <1>3, <1>4 DEF WriteInfo
<1>6. /\ proc' \in [Processes -> Process] /\ \A q \in Processes \ {p} : proc'[q] = proc[q]
      /\ proc'[p].pc = "noted" /\ proc'[p].inode = proc[p].inode /\ proc'[p].f = f
  BY <1>1, <1>2, <1>3, <1>5 DEF Typed, Process
<1>7. dir[f] \in Directory /\ dir' \in [Followers -> Directory] /\ dir'[f] = [dir[f] EXCEPT !.pid = p]
      /\ \A g \in Followers \ {f} : dir'[g] = dir[g]
  BY <1>1, <1>5 DEF Typed, Directory
<1>8. /\ dir'[f].inode = dir[f].inode /\ dir'[f].here = dir[f].here /\ dir'[f].decl = dir[f].decl
      /\ dir'[f].legacy = dir[f].legacy /\ dir'[f].places = dir[f].places /\ dir'[f].pid = p
  BY <1>7 DEF Directory
<1>9. ProcessRight(p)'
  BY <1>2, <1>3, <1>6, <1>8 DEF ProcessRight, Holding, RegistryInv, ProcessesRight
<1>10. \A g \in Followers :
          /\ dir'[g].here = dir[g].here /\ dir'[g].decl = dir[g].decl /\ dir'[g].legacy = dir[g].legacy
          /\ dir'[g].places = dir[g].places
  BY <1>7, <1>8
<1>11. command.pc \in Removing => f # command.f
  BY <1>2, <1>3 DEF RegistryInv, CommandRight
<1>12. ASSUME NEW q \in Processes \ {p}, proc[q].pc \in Holding
       PROVE  /\ dir'[proc[q].f].inode = dir[proc[q].f].inode /\ dir'[proc[q].f].pid = dir[proc[q].f].pid
              /\ proc[q].f # proc'[p].f
  BY <1>4, <1>6, <1>7, <1>12
<1>13. QED
  BY <1>1, <1>2, <1>6, <1>7, <1>9, <1>10, <1>11, <1>12, ProcessStep DEF Typed, Holding, Starting

\* A process past the lock that goes on and may write its follower's places.
LEMMA RunnerStep ==
    ASSUME RegistryInv, NEW p \in Processes, Grown, NEW f \in Followers, f = proc[p].f,
           NEW mem \in Positions, NEW places, NEW unsaved \in BOOLEAN,
           proc[p].pc \in {"noted", "running"},
           UNCHANGED <<env, first, next, torn, serial, declared, command, tick, verdict>>,
           got' \in [Followers -> [Stores -> SUBSET Nat]],
           proc' = [proc EXCEPT ![p] = [@ EXCEPT !.pc = "running", !.mem = mem, !.unsaved = unsaved]],
           dir' = [dir EXCEPT ![f].places = places], places \in {Missing, Spoilt} \cup Positions,
           \A s \in Stores : HonestIn(f, s, mem[s])',
           \/ places = dir[f].places
           \/ places \in Positions => \A s \in Stores : HonestIn(f, s, places[s])'
    PROVE  RegistryInv'
<1>1. Typed /\ proc[p] \in Process /\ dir[f] \in Directory
  BY DEF RegistryInv, Typed
<1>2. ProcessRight(p) /\ dir[f].decl # Missing
      /\ \A q \in Processes \ {p} : proc[q].pc \in Holding => proc[q].f \in Followers /\ proc[q].f # f
  BY HoldsAlone DEF Holding, RegistryInv, ProcessesRight
<1>3. /\ proc' \in [Processes -> Process] /\ \A q \in Processes \ {p} : proc'[q] = proc[q]
      /\ proc'[p].pc = "running" /\ proc'[p].inode = proc[p].inode /\ proc'[p].f = f /\ proc'[p].mem = mem
  BY <1>1 DEF Typed, Process
<1>4. /\ dir' \in [Followers -> Directory] /\ dir'[f] = [dir[f] EXCEPT !.places = places]
      /\ \A g \in Followers \ {f} : dir'[g] = dir[g]
  BY <1>1 DEF Typed, Directory
<1>5. /\ dir'[f].inode = dir[f].inode /\ dir'[f].here = dir[f].here /\ dir'[f].decl = dir[f].decl
      /\ dir'[f].legacy = dir[f].legacy /\ dir'[f].places = places /\ dir'[f].pid = dir[f].pid
  BY <1>1, <1>4 DEF Directory
<1>6. ProcessRight(p)'
  BY <1>2, <1>3, <1>5 DEF ProcessRight, Holding
<1>7. \A g \in Followers :
          dir'[g].here = dir[g].here /\ dir'[g].decl = dir[g].decl /\ dir'[g].legacy = dir[g].legacy
  BY <1>4, <1>5
<1>8. ASSUME NEW g \in Followers
      PROVE  \/ dir'[g].places = dir[g].places
             \/ /\ dir[g].decl # Missing
                /\ dir'[g].places \in Positions => \A s \in Stores : HonestIn(g, s, dir[g].places[s])'
  <2>1. CASE g = f
    <3>1. dir'[f].places \in Positions /\ places # dir[f].places
              => \A s \in Stores : HonestIn(f, s, dir[f].places[s])'
      BY <1>5 DEF HonestIn
    <3>2. QED
      BY <1>2, <1>5, <2>1, <3>1
  <2>2. CASE g # f
    BY <1>4, <2>2
  <2>3. QED
    BY <2>1, <2>2
<1>9. command.pc \in Removing => f # command.f
  BY DEF RegistryInv, CommandRight
<1>10. ASSUME NEW q \in Processes \ {p}, proc[q].pc \in Holding
       PROVE  /\ dir'[proc[q].f].inode = dir[proc[q].f].inode /\ dir'[proc[q].f].pid = dir[proc[q].f].pid
              /\ proc[q].f # proc'[p].f
  BY <1>2, <1>3, <1>4, <1>10
<1>11. serial' \in Nat
  BY <1>1 DEF Typed
<1>12. QED
  BY <1>3, <1>4, <1>6, <1>7, <1>8, <1>9, <1>10, <1>11, ProcessStep DEF Holding, Starting

\* What an old cursor is carried over to is as honest as it was.
LEMMA CarriedOverHonest ==
    ASSUME Typed, NEW f \in Followers, DirectoryRight(f), NEW select
    PROVE  /\ CarriedOver(dir[f], select) \in {Missing, Spoilt} \cup Positions
           /\ CarriedOver(dir[f], select) \in Positions
                  => \A s \in Stores : HonestIn(f, s, CarriedOver(dir[f], select)[s])
<1> DEFINE anchors == {a \in Stores : select = {a}}
           there == CHOOSE a \in anchors : TRUE
           place == Place(dir[f].legacy.chunk, FALSE)
<1>1. dir[f] \in Directory
  BY DEF Typed
<1>2. CASE CarriedOver(dir[f], select) \in {dir[f].places, Missing}
  BY <1>1, <1>2, Marks DEF DirectoryRight, Directory
<1>3. CASE CarriedOver(dir[f], select) \notin {dir[f].places, Missing}
  <2>1. /\ dir[f].legacy \notin {Missing, Spoilt} /\ anchors # {}
        /\ CarriedOver(dir[f], select) = [NoPlaces EXCEPT ![there] = place]
    BY <1>3 DEF CarriedOver
  <2>2. dir[f].legacy \in Cursor /\ dir[f].legacy.chunk \in Nat
    BY <1>1, <2>1 DEF Directory, Cursor
  <2>3. place \in [chunk : Nat, whole : BOOLEAN] /\ place.chunk = dir[f].legacy.chunk /\ place.whole = FALSE
    BY <2>2 DEF Place
  <2>4. \A s \in Stores : Reached(f, s, dir[f].legacy.chunk, FALSE)
    BY <2>2 DEF DirectoryRight
  <2> HIDE DEF place, anchors, there
  <2>5. \A s \in Stores : CarriedOver(dir[f], select)[s] \in {None, place}
    BY <2>1 DEF NoPlaces
  <2>6. CarriedOver(dir[f], select) \in Positions
    BY <2>1, <2>3 DEF NoPlaces, Positions
  <2>7. \A s \in Stores : HonestIn(f, s, CarriedOver(dir[f], select)[s])
    BY <2>3, <2>4, <2>5 DEF HonestIn
  <2>8. QED
    BY <2>6, <2>7
<1>4. QED
  BY <1>2, <1>3

LEMMA OpenSafe ==
    ASSUME RegistryInv, NEW p \in Processes, Open(p)
    PROVE  RegistryInv'
<1>1. Typed /\ Grown
  BY UnchangedIsGrown DEF RegistryInv, Open, storeVars
<1>2. /\ UNCHANGED <<env, first, next, torn, serial, declared, command, tick, verdict, got>>
      /\ proc[p].pc = "noted" /\ proc[p] \in Process
  BY <1>1 DEF Open, storeVars, operatorVars, tickVars, Typed
<1>3. PICK f \in Followers : f = proc[p].f
  BY <1>2, HoldsAlone DEF Holding
<1>4. PICK places : places = CarriedOver(dir[f], proc[p].select)
  OBVIOUS
<1>5. PICK mem : mem = IF places = Missing THEN NoPlaces ELSE places
  OBVIOUS
<1>6. CASE places = Spoilt \/ (places = Missing /\ dir[f].legacy = Spoilt)
  BY <1>2, <1>3, <1>4, <1>6, ProcessEnds DEF Open
<1>7. CASE ~(places = Spoilt \/ (places = Missing /\ dir[f].legacy = Spoilt))
  <2>1. /\ proc' = [proc EXCEPT ![p].pc = "running", ![p].mem = mem]
        /\ dir' = [dir EXCEPT ![f].places = places]
    BY <1>3, <1>4, <1>5, <1>7 DEF Open
  <2>2. DirectoryRight(f)
    BY DEF RegistryInv, DirectoriesRight
  <2>3. /\ places \in {Missing, Spoilt} \cup Positions
        /\ places \in Positions => \A s \in Stores : HonestIn(f, s, places[s])
    BY <1>1, <1>4, <2>2, CarriedOverHonest
  <2>4. mem \in Positions /\ \A s \in Stores : HonestIn(f, s, mem[s])
    <3>1. NoPlaces \in Positions /\ \A s \in Stores : HonestIn(f, s, NoPlaces[s])
      BY DEF NoPlaces, Positions, HonestIn
    <3>2. QED
      BY <1>5, <1>7, <2>3, <3>1
  <2>5. \A s \in Stores : HonestIn(f, s, mem[s])'
    BY <1>2, <2>4 DEF HonestIn, Reached
  <2>6. places \in Positions => \A s \in Stores : HonestIn(f, s, places[s])'
    BY <1>2, <2>3 DEF HonestIn, Reached
  <2>7. proc' = [proc EXCEPT ![p] = [@ EXCEPT !.pc = "running", !.mem = mem, !.unsaved = proc[p].unsaved]]
        /\ proc[p].unsaved \in BOOLEAN
    BY <1>1, <1>2, <2>1 DEF Typed, Process
  <2>8. PICK unsaved \in BOOLEAN : unsaved = proc[p].unsaved
    BY <2>7
  <2>9. got' \in [Followers -> [Stores -> SUBSET Nat]]
    BY <1>1, <1>2 DEF Typed
  <2>10. proc' = [proc EXCEPT ![p] = [@ EXCEPT !.pc = "running", !.mem = mem, !.unsaved = unsaved]]
         /\ dir' = [dir EXCEPT ![f].places = places]
    BY <2>1, <2>7, <2>8
  <2>11. QED
    BY <1>1, <1>2, <1>3, <2>3, <2>4, <2>5, <2>6, <2>9, <2>10, RunnerStep
<1>8. QED
  BY <1>6, <1>7

LEMMA SaveSafe ==
    ASSUME RegistryInv, NEW p \in Processes, Save(p)
    PROVE  RegistryInv'
<1>1. Typed /\ Grown
  BY UnchangedIsGrown DEF RegistryInv, Save, storeVars
<1>2. /\ UNCHANGED <<env, first, next, torn, serial, declared, command, tick, verdict, got>>
      /\ proc[p].pc = "running" /\ proc[p] \in Process
  BY <1>1 DEF Save, storeVars, operatorVars, tickVars, Typed
<1>3. PICK f \in Followers : f = proc[p].f /\ dir[f].here
  BY <1>2, HoldsAlone DEF Holding, Mine
<1>4. PICK mem \in Positions : mem = proc[p].mem
  BY <1>2 DEF Process
<1>5. dir' = [dir EXCEPT ![f].places = mem] /\ proc' = [proc EXCEPT ![p].unsaved = FALSE]
  BY <1>3, <1>4 DEF Save
<1>6. proc' = [proc EXCEPT ![p] = [@ EXCEPT !.pc = "running", !.mem = mem, !.unsaved = FALSE]]
  BY <1>1, <1>2, <1>4, <1>5 DEF Typed, Process
<1>7. \A s \in Stores : HonestIn(f, s, mem[s])
  BY <1>2, <1>3, <1>4 DEF RegistryInv, ProcessesRight, ProcessRight
<1>8. \A s \in Stores : HonestIn(f, s, mem[s])'
  BY <1>2, <1>7 DEF HonestIn, Reached
<1>9. QED
  BY <1>1, <1>2, <1>3, <1>5, <1>6, <1>8, RunnerStep DEF Typed

\* The next chunk, given to the consumer, carries its place on by one.
Onward(place, lo) ==
    IF place = None \/ place.chunk < lo THEN lo
    ELSE IF place.whole THEN place.chunk + 1 ELSE place.chunk
Given(given, c, whole) == IF whole THEN given \cup {c} ELSE given

LEMMA NextIsHonest ==
    ASSUME NEW lo \in Nat, NEW given, NEW len \in Nat, NEW place, place # None => place.chunk \in Nat,
           place # None => Honest(lo, given, len, place.chunk, place.whole),
           NEW whole \in BOOLEAN, Onward(place, lo) < len
    PROVE  Honest(lo, Given(given, Onward(place, lo), whole), len, Onward(place, lo), whole)
<1> DEFINE c == Onward(place, lo)
<1>1. CASE place = None \/ place.chunk < lo
  BY <1>1 DEF Honest, Onward, Given
<1>2. CASE place # None /\ ~(place.chunk < lo)
  <2>1. place.chunk \in Nat /\ Honest(lo, given, len, place.chunk, place.whole)
    BY <1>2
  <2>2. c \in Nat /\ place.chunk <= c
    BY <1>2, <2>1 DEF Onward
  <2>3. \A x \in lo .. place.chunk : x < place.chunk \/ place.whole => x \in given
    BY <2>1, <2>2 DEF Honest
  <2>4. ASSUME NEW x \in lo .. c, x < c PROVE x \in given
    <3>1. CASE place.whole
      BY <1>2, <2>1, <2>2, <2>3, <2>4, <3>1 DEF Onward
    <3>2. CASE ~place.whole
      BY <1>2, <2>1, <2>2, <2>3, <2>4, <3>2 DEF Onward
    <3>3. QED
      BY <3>1, <3>2
  <2> HIDE DEF c
  <2>5. Honest(lo, Given(given, c, whole), len, c, whole)
    BY <2>2, <2>4 DEF Honest, Given
  <2>6. QED
    BY <2>5 DEF c
<1>3. QED
  BY <1>1, <1>2

LEMMA ShipSafe ==
    ASSUME RegistryInv, NEW p \in Processes, NEW s \in Stores, NEW whole \in BOOLEAN, Ship(p, s, whole)
    PROVE  RegistryInv'
<1>1. Typed /\ proc[p].pc = "running" /\ proc[p] \in Process /\ Mine(p)
      /\ UNCHANGED <<env, first, next, torn, dir, serial, declared, command, tick, verdict>>
  BY HoldsAlone DEF RegistryInv, Typed, Ship, storeVars, registryVars, operatorVars, tickVars, Holding
<1>2. PICK f \in Followers : f = proc[p].f
  BY <1>1, HoldsAlone DEF Holding
<1>3. PICK c : c = Wanted(proc[p].mem[s], s)
  OBVIOUS
<1>4. PICK mem : mem = [proc[p].mem EXCEPT ![s] = Place(c, whole)]
  OBVIOUS
<1>5. /\ proc' = [proc EXCEPT ![p].mem[s] = Place(c, whole), ![p].unsaved = TRUE]
      /\ got' = IF whole THEN [got EXCEPT ![f][s] = @ \cup {c}] ELSE got
      /\ c < next[s]
  BY <1>1, <1>2, <1>3 DEF Ship
<1>6. proc' = [proc EXCEPT ![p] = [@ EXCEPT !.pc = "running", !.mem = mem, !.unsaved = TRUE]]
  BY <1>1, <1>4, <1>5 DEF Typed, Process
<1>7. \A x \in Stores : HonestIn(f, x, proc[p].mem[x])
  BY <1>1, <1>2 DEF RegistryInv, ProcessesRight, ProcessRight
<1>8. /\ first[s] \in Nat /\ Len(env.sizes[s]) \in Nat /\ next[s] \in Nat /\ next[s] <= Len(env.sizes[s])
      /\ got[f][s] \in SUBSET Nat
  BY <1>1, Surroundings DEF Typed
<1>9. /\ got' \in [Followers -> [Stores -> SUBSET Nat]]
      /\ got'[f][s] = IF whole THEN got[f][s] \cup {c} ELSE got[f][s]
  <2>1. c \in Nat
    BY <1>1, <1>3, <1>8, PlacesHaveNumbers DEF Wanted
  <2>2. QED
    BY <1>1, <1>5, <2>1 DEF Typed
<1>10. Grown
  BY <1>1, <1>5 DEF Typed, Grown, GrownFor
<1>11. c \in Nat /\ Honest(first[s], got'[f][s], Len(env.sizes[s]), c, whole)
  <2>1. c < Len(env.sizes[s])
    <3>1. c < next[s]
      BY <1>5
    <3>2. c \in Nat
      BY <1>1, <1>3, <1>8, PlacesHaveNumbers DEF Wanted
    <3>3. QED
      BY <1>8, <3>1, <3>2
  <2>2. proc[p].mem[s] # None =>
            /\ proc[p].mem[s].chunk \in Nat
            /\ Honest(first[s], got[f][s], Len(env.sizes[s]), proc[p].mem[s].chunk, proc[p].mem[s].whole)
    BY <1>1, <1>7, PlacesHaveNumbers DEF HonestIn, Reached
  <2>3. c = Onward(proc[p].mem[s], first[s]) /\ got'[f][s] = Given(got[f][s], c, whole)
    BY <1>3, <1>9 DEF Wanted, Onward, Given
  <2>4. Honest(first[s], Given(got[f][s], c, whole), Len(env.sizes[s]), c, whole)
    BY <1>8, <2>1, <2>2, <2>3, NextIsHonest
  <2>5. c \in Nat
    BY <1>8, <2>2, <2>3 DEF Onward
  <2>6. QED
    BY <2>3, <2>4, <2>5
<1>12. mem \in Positions /\ mem[s] = Place(c, whole) /\ \A x \in Stores \ {s} : mem[x] = proc[p].mem[x]
  BY <1>1, <1>4, <1>11 DEF Process, Positions, Place
<1>13. ASSUME NEW x \in Stores PROVE HonestIn(f, x, mem[x])'
  <2>1. CASE x = s
    BY <1>1, <1>11, <1>12, <2>1 DEF HonestIn, Reached, Place
  <2>2. CASE x # s
    <3>1. HonestIn(f, x, mem[x]) /\ (mem[x] # None => mem[x].chunk \in Nat)
      BY <1>1, <1>7, <1>12, <2>2, PlacesHaveNumbers
    <3>2. QED
      BY <1>10, <3>1, HonestPlaceStays DEF Grown
  <2>3. QED
    BY <2>1, <2>2
<1>14. PICK places : places = dir[f].places
  OBVIOUS
<1>15. dir' = [dir EXCEPT ![f].places = places] /\ places \in {Missing, Spoilt} \cup Positions
  BY <1>1, <1>14 DEF Typed, Directory
<1>16. serial' = serial
  BY <1>1
<1>17. QED
  BY <1>1, <1>2, <1>6, <1>9, <1>10, <1>12, <1>13, <1>14, <1>15, RunnerStep

------------------------------------------------------------------------------
\* The maintenance thread.

\* The registry as it is read has every follower something is owed to, where it stands.
LEMMA IndexIsRight ==
    ASSUME Typed, DirectoriesRight, ByLabel
    PROVE  IndexRight(IndexOf, Owed)
<1>1. Owed \in [Followers -> SUBSET (Labels \cup Stores)]
  BY DEF Owed, Typed, Declaration
<1>2. SUFFICES ASSUME IndexOf # Closed
               PROVE  /\ DOMAIN IndexOf \subseteq Followers
                      /\ \A f \in DOMAIN IndexOf, s \in Stores : IndexOf[f].at[s] \in Nat \cup {None}
                      /\ May("torn") => \A f \in DOMAIN IndexOf : IndexOf[f].select \cap Stores = {}
                      /\ \A f \in Followers : EntryRight(IndexOf, Owed, f)
  BY <1>1 DEF IndexRight
<1>3. /\ \A f \in Followers : ~Illegible(dir[f])
      /\ IndexOf = [f \in {g \in Followers : Retaining(dir[g])} |->
                       [select |-> dir[f].decl.select, at |-> PlacesOf(dir[f])]]
  BY <1>2 DEF IndexOf
<1>4. \A f \in DOMAIN IndexOf :
          /\ f \in Followers /\ Retaining(dir[f])
          /\ IndexOf[f].select = dir[f].decl.select /\ IndexOf[f].at = PlacesOf(dir[f])
  BY <1>3
<1>5. ASSUME NEW f \in DOMAIN IndexOf
      PROVE  /\ dir[f] \in Directory /\ dir[f].here /\ dir[f].decl \in Declaration
             /\ dir[f].places \in {Missing} \cup Positions
             /\ dir[f].places = Missing => dir[f].legacy \in {Missing} \cup Cursor
  BY <1>3, <1>4 DEF Typed, Directory, Illegible, Retaining, Readable
<1>6. ASSUME NEW f \in DOMAIN IndexOf, NEW s \in Stores
      PROVE  /\ IndexOf[f].at[s] \in Nat \cup {None}
             /\ IndexOf[f].at[s] # None => Reached(f, s, IndexOf[f].at[s], FALSE)
  <2>1. DirectoryRight(f) /\ IndexOf[f].at = PlacesOf(dir[f])
    BY <1>4 DEF DirectoriesRight
  <2>2. CASE dir[f].places = Missing
    <3>1. IndexOf[f].at[s] \in {None, dir[f].legacy.chunk}
          /\ (dir[f].legacy = Missing => IndexOf[f].at[s] = None)
      BY <2>1, <2>2 DEF PlacesOf
    <3>2. CASE dir[f].legacy = Missing
      BY <3>1, <3>2
    <3>3. CASE dir[f].legacy \in Cursor
      BY <2>1, <3>1, <3>3 DEF DirectoryRight, Cursor
    <3>4. QED
      BY <1>5, <2>2, <3>2, <3>3
  <2>3. CASE dir[f].places # Missing
    <3>1. dir[f].places \in Positions
      BY <1>5, <2>3
    <3>2. IndexOf[f].at[s] = IF dir[f].places[s] = None THEN None ELSE dir[f].places[s].chunk
      BY <2>1, <2>3 DEF PlacesOf
    <3>3. dir[f].places[s] # None =>
              dir[f].places[s].chunk \in Nat /\ Reached(f, s, dir[f].places[s].chunk, dir[f].places[s].whole)
      BY <2>1, <3>1 DEF Positions, DirectoryRight, HonestIn
    <3>4. QED
      BY <3>2, <3>3 DEF Reached, Honest
  <2>4. QED
    BY <2>2, <2>3
<1>7. May("torn") => \A f \in DOMAIN IndexOf : IndexOf[f].select \cap Stores = {}
  BY <1>4, <1>5 DEF ByLabel, LabelsSelect
<1>8. ASSUME NEW f \in Followers, Owed[f] # {}
      PROVE  f \in DOMAIN IndexOf /\ IndexOf[f].select = Owed[f]
  <2>1. declared[f] # Missing /\ declared[f].retaining /\ Owed[f] = declared[f].select
    BY <1>8 DEF Owed
  <2>2. DirectoryRight(f) /\ ~Illegible(dir[f]) /\ dir[f] \in Directory
    BY <1>3 DEF DirectoriesRight, Typed
  <2>3. dir[f].here /\ dir[f].decl = declared[f] /\ dir[f].decl # Spoilt
    BY <2>1, <2>2, Marks DEF DirectoryRight, Illegible
  <2>4. Retaining(dir[f])
    BY <2>1, <2>3 DEF Retaining, Readable
  <2>5. QED
    BY <1>3, <2>1, <2>3, <2>4
<1>9. QED
  BY <1>4, <1>6, <1>7, <1>8 DEF EntryRight

\* What a floor says of followers that stand below what will be written next.
LEMMA FloorIsRight ==
    ASSUME Typed, NEW index, NEW owed, IndexRight(index, owed), owed # None,
           NEW s \in Stores, NEW l, NEW fields, NEW nextSeq \in Nat, nextSeq <= next[s],
           fields = {s, l} \/ (May("torn") /\ fields = {s}),
           NEW interest \in ForStore(index, s, fields, nextSeq)
    PROVE  FloorRight(s, {s, l}, interest, owed)
<1>1. SUFFICES ASSUME interest.floor # None
               PROVE  /\ interest.floor \in Nat
                      /\ \A f \in Followers : owed[f] \cap {s, l} # {} =>
                             \A c \in first[s] .. interest.floor : c < interest.floor => c \in got[f][s]
  BY DEF FloorRight
<1> DEFINE mine == IF index = Closed THEN {} ELSE {f \in DOMAIN index : index[f].select \cap fields # {}}
           ats == {index[f].at[s] : f \in mine}
<1>2. /\ mine # {} /\ \A f \in mine : ~HoldsAll(index[f].at[s], nextSeq)
      /\ interest.floor = Min(ats)
  BY <1>1 DEF ForStore, Nobody, Interest
<1>3. index # Closed /\ mine = {f \in DOMAIN index : index[f].select \cap fields # {}}
  BY <1>2
<1> HIDE DEF mine
<1>4. \A f \in mine : index[f].at[s] \in Nat /\ index[f].at[s] # None /\ index[f].at[s] < nextSeq
  BY <1>2, <1>3 DEF IndexRight, HoldsAll
<1>5. ats \subseteq Nat /\ ats # {}
  BY <1>2, <1>4
<1>6. interest.floor \in ats /\ \A x \in ats : interest.floor <= x
  BY <1>2, <1>5, LeastNumber DEF Min
<1>7. fields = {s, l}
  BY <1>2, <1>3 DEF IndexRight
<1>8. ASSUME NEW f \in Followers, owed[f] \cap {s, l} # {},
             NEW c \in first[s] .. interest.floor, c < interest.floor
      PROVE  c \in got[f][s]
  <2>1. owed[f] # {} /\ EntryRight(index, owed, f)
    BY <1>3, <1>8 DEF IndexRight
  <2>2. f \in mine
    BY <1>3, <1>7, <1>8, <2>1 DEF EntryRight
  <2>3. index[f].at[s] \in Nat /\ index[f].at[s] # None /\ index[f].at[s] < nextSeq
        /\ interest.floor <= index[f].at[s]
    BY <1>4, <1>6, <2>2
  <2>4. /\ first[s] \in Nat /\ next[s] \in Nat /\ Len(env.sizes[s]) \in Nat /\ next[s] <= Len(env.sizes[s])
        /\ interest.floor \in Nat
    BY <1>5, <1>6, Surroundings DEF Typed
  <2>5. Reached(f, s, index[f].at[s], FALSE)
    BY <2>1, <1>3, <2>3 DEF EntryRight
  <2>6. QED
    BY <1>8, <2>3, <2>4, <2>5 DEF Reached, Honest
<1>9. QED
  BY <1>5, <1>6, <1>8

\* A step of the maintenance thread, or of `timberfs trim`, that cuts no more than the chunks of
\* one store there are.
LEMMA CutStep ==
    ASSUME RegistryInv, NEW s \in Stores, NEW dropped \in SUBSET Chunks(s),
           UNCHANGED <<env, next, torn, dir, serial, declared, command, proc, got>>,
           first' = [first EXCEPT ![s] = @ + Cardinality(dropped)],
           DOMAIN tick' = DOMAIN tick, tick'.left \subseteq Stores,
           Grown => TickRight', NothingHeldIsDropped'
    PROVE  RegistryInv'
<1>1. Typed
  BY DEF RegistryInv
<1>2. first[s] \in Nat /\ next[s] \in Nat
  BY <1>1 DEF Typed
<1>3. IsFiniteSet(Chunks(s))
  BY <1>2, FS_Interval DEF Chunks
<1>4. Cardinality(dropped) \in Nat
  BY <1>3, FS_Subset, FS_CardinalityType
<1>5. first' \in [Stores -> Nat] /\ \A x \in Stores : first[x] <= first'[x]
  BY <1>1, <1>4 DEF Typed
<1>6. Grown
  BY <1>1, <1>5 DEF Typed, Grown, GrownFor
<1>7. Typed'
  BY <1>1, <1>5 DEF Typed, Round
<1>8. ProcessesRight' /\ CommandRight' /\ DirectoriesRight' /\ ByLabel'
  BY <1>1, <1>6, ProcessesStay, CommandStays, DirectoriesStay, LabelsStay DEF RegistryInv
<1>9. QED
  BY <1>6, <1>7, <1>8 DEF RegistryInv

LEMMA FieldsOfOne ==
    ASSUME RegistryInv, NEW s \in Stores
    PROVE  Fields(s) = {s, label[s]} \/ (May("torn") /\ Fields(s) = {s})
BY DEF Fields, RegistryInv, ByLabel

LEMMA RefreshSafe ==
    ASSUME RegistryInv, NEW s \in Stores, Refresh(s)
    PROVE  RegistryInv'
<1>1. Typed /\ next[s] \in Nat /\ DOMAIN tick = DOMAIN Round
  BY DEF RegistryInv, Typed
<1>2. /\ tick' = [tick EXCEPT !.pc = "consult", !.s = s, !.fields = Fields(s), !.label = label[s],
                             !.nextSeq = next[s]]
      /\ verdict' = Quiet
      /\ UNCHANGED <<env, first, next, torn, dir, serial, declared, command, proc, got>>
  BY DEF Refresh, storeVars, registryVars, operatorVars, procVars
<1>3. /\ DOMAIN tick' = DOMAIN tick /\ tick'.left = tick.left /\ tick'.pc = "consult" /\ tick'.s = s
      /\ tick'.fields = Fields(s) /\ tick'.label = label[s] /\ tick'.nextSeq = next[s]
      /\ tick'.index = tick.index /\ tick'.owed = tick.owed
  BY <1>1, <1>2 DEF Round
<1>4. Grown
  BY <1>1, <1>2, UnchangedIsGrown
<1>5. Typed'
  BY <1>1, <1>2, <1>3 DEF Typed, Round
<1>6. ProcessesRight' /\ CommandRight' /\ DirectoriesRight' /\ ByLabel'
  BY <1>1, <1>2, <1>4, ProcessesStay, CommandStays, DirectoriesStay, LabelsStay DEF RegistryInv
<1>7. IndexRight(tick.index, tick.owed)'
  BY <1>3, <1>4, IndexStays DEF RegistryInv, TickRight
<1>8. Fields(s) = {s, label[s]} \/ (May("torn") /\ Fields(s) = {s})
  BY FieldsOfOne
<1>9. next[s] <= next[s]
  BY <1>1
<1>10. TickRight'
  BY <1>1, <1>2, <1>3, <1>7, <1>8, <1>9 DEF TickRight, May
<1>11. QED
  BY <1>2, <1>5, <1>6, <1>10 DEF RegistryInv, NothingHeldIsDropped, Quiet

LEMMA ConsultSafe ==
    ASSUME RegistryInv, Consult
    PROVE  RegistryInv'
<1>1. /\ Typed /\ DOMAIN tick = DOMAIN Round /\ TickRight /\ tick.pc = "consult"
      /\ UNCHANGED <<env, first, next, torn, dir, serial, declared, command, proc, got, verdict>>
  BY DEF RegistryInv, Typed, Consult, storeVars, registryVars, operatorVars, procVars
<1>2. PICK s \in Stores : s = tick.s
  BY <1>1 DEF TickRight
<1>r. PICK reads : reads <=> tick.index = None /\ s \in env.unconsumed
  OBVIOUS
<1>3. PICK index, owed :
          index = (IF reads THEN IndexOf ELSE tick.index) /\ owed = (IF reads THEN Owed ELSE tick.owed)
  OBVIOUS
<1>4. PICK interest \in IF s \in env.unconsumed THEN ForStore(index, s, tick.fields, tick.nextSeq) ELSE {Nobody} :
          tick' = [tick EXCEPT !.pc = "enforce", !.index = index, !.owed = owed, !.interest = interest]
  BY <1>1, <1>2, <1>r, <1>3 DEF Consult
<1>5. /\ DOMAIN tick' = DOMAIN tick /\ tick'.left = tick.left /\ tick'.pc = "enforce" /\ tick'.s = s
      /\ tick'.label = tick.label /\ tick'.nextSeq = tick.nextSeq /\ tick'.fields = tick.fields
      /\ tick'.index = index /\ tick'.owed = owed /\ tick'.interest = interest
  BY <1>1, <1>2, <1>4 DEF Round
<1>6. IndexRight(index, owed)
  BY <1>1, <1>3, IndexIsRight DEF RegistryInv, TickRight
<1>7. Grown
  BY <1>1, UnchangedIsGrown
<1>8. IndexRight(index, owed)'
  BY <1>6, <1>7, IndexStays
<1>9. FloorRight(s, {s, tick.label}, interest, owed)
  <2>1. CASE s \in env.unconsumed /\ owed # None
    <3>1. PICK fields, l, nextSeq : fields = tick.fields /\ l = tick.label /\ nextSeq = tick.nextSeq
      OBVIOUS
    <3>2. /\ nextSeq \in Nat /\ nextSeq <= next[s] /\ interest \in ForStore(index, s, fields, nextSeq)
          /\ fields = {s, l} \/ (May("torn") /\ fields = {s})
      BY <1>1, <1>2, <1>4, <2>1, <3>1 DEF TickRight
    <3>3. QED
      BY <1>1, <1>6, <2>1, <3>1, <3>2, FloorIsRight
  <2>2. CASE s \notin env.unconsumed
    BY <1>4, <2>2 DEF FloorRight, Nobody
  <2>3. CASE owed = None
    BY <2>3 DEF FloorRight
  <2>4. QED
    BY <2>1, <2>2, <2>3
<1>10. PICK l : l = tick.label
  OBVIOUS
<1>11. FloorRight(s, {s, l}, interest, owed)'
  BY <1>7, <1>9, <1>10, FloorStays
<1>12. TickRight'
  BY <1>1, <1>2, <1>5, <1>8, <1>10, <1>11 DEF TickRight
<1>13. Typed'
  BY <1>1, <1>5 DEF Typed, Round
<1>14. ProcessesRight' /\ CommandRight' /\ DirectoriesRight' /\ ByLabel'
  BY <1>1, <1>7, ProcessesStay, CommandStays, DirectoriesStay, LabelsStay DEF RegistryInv
<1>15. QED
  BY <1>1, <1>12, <1>13, <1>14 DEF RegistryInv, NothingHeldIsDropped

LEMMA DroppedIsThere ==
    ASSUME NEW s, NEW interest
    PROVE  Dropped(s, interest) \in SUBSET Chunks(s)
<1>1. AgeCut(s) \subseteq Chunks(s)
  BY DEF AgeCut
<1>2. SizeCut(s) \subseteq Chunks(s)
  BY DEF SizeCut
<1>3. InterestCut(s, interest.floor) \subseteq Chunks(s)
  BY DEF InterestCut
<1>4. QED
  BY <1>1, <1>2, <1>3 DEF Dropped

\* Below a right floor is nothing somebody has not read.
LEMMA InterestSpares ==
    ASSUME Typed, NEW s \in Stores, NEW l, NEW interest, NEW owed, NEW told,
           FloorRight(s, {s, l}, interest, owed)
    PROVE  Verdict(s, Dropped(s, interest), AgeCut(s) \cup SizeCut(s), told, owed, {s, l}).wrong = {}
<1>1. SUFFICES ASSUME owed # None, NEW c \in InterestCut(s, interest.floor), NEW f \in Followers,
                      owed[f] \cap {s, l} # {}
               PROVE  c \in got[f][s]
  BY DEF Verdict, Dropped
<1>2. interest.floor # None /\ c \in Chunks(s) /\ c < interest.floor
  BY <1>1 DEF InterestCut
<1>3. interest.floor \in Nat /\ (c \in first[s] .. interest.floor => c \in got[f][s])
  BY <1>1, <1>2 DEF FloorRight
<1>4. first[s] \in Nat /\ next[s] \in Nat
  BY DEF Typed
<1>5. QED
  BY <1>2, <1>3, <1>4 DEF Chunks

LEMMA EnforceSafe ==
    ASSUME RegistryInv, Enforce
    PROVE  RegistryInv'
<1>1. /\ Typed /\ DOMAIN tick = DOMAIN Round /\ TickRight /\ tick.pc = "enforce"
      /\ UNCHANGED <<env, next, torn, dir, serial, declared, command, proc, got>>
  BY DEF RegistryInv, Typed, Enforce, registryVars, operatorVars, procVars
<1>2. PICK s \in Stores : s = tick.s
  BY <1>1 DEF TickRight
<1>3. PICK interest, owed, l : interest = tick.interest /\ owed = tick.owed /\ l = tick.label
  OBVIOUS
<1>4. PICK dropped, told : dropped = Dropped(s, interest) /\ told = OverrideRecord(interest, dropped)
  OBVIOUS
<1>5. dropped \in SUBSET Chunks(s)
  BY <1>4, DroppedIsThere
<1>6. /\ first' = [first EXCEPT ![s] = @ + Cardinality(dropped)]
      /\ verdict' = Verdict(s, dropped, AgeCut(s) \cup SizeCut(s), told, owed, {s, l})
      /\ \/ tick' = Round
         \/ tick' = [Round EXCEPT !.left = tick.left \ {s}, !.index = tick.index, !.owed = tick.owed]
  BY <1>2, <1>3, <1>4 DEF Enforce
<1>7. /\ DOMAIN tick' = DOMAIN tick /\ tick'.left \subseteq Stores /\ tick'.pc = "refresh"
      /\ \/ tick'.index = None /\ tick'.owed = None
         \/ tick'.index = tick.index /\ tick'.owed = tick.owed
  <2>1. Round.left \subseteq Stores /\ tick.left \subseteq Stores
    BY <1>1 DEF Round, Here, Typed
  <2>2. CASE tick' = Round
    BY <1>1, <2>1, <2>2 DEF Round
  <2>3. CASE tick' = [Round EXCEPT !.left = tick.left \ {s}, !.index = tick.index, !.owed = tick.owed]
    <3>1. DOMAIN tick' = DOMAIN Round /\ tick'.left = tick.left \ {s} /\ tick'.pc = "refresh"
          /\ tick'.index = tick.index /\ tick'.owed = tick.owed
      BY <2>3 DEF Round
    <3>2. QED
      BY <1>1, <2>1, <3>1
  <2>4. QED
    BY <1>6, <2>2, <2>3
<1>8. FloorRight(s, {s, l}, interest, owed)
  BY <1>1, <1>2, <1>3 DEF TickRight
<1>9. NothingHeldIsDropped'
  BY <1>1, <1>4, <1>6, <1>8, InterestSpares DEF NothingHeldIsDropped
<1>10. ASSUME Grown PROVE TickRight'
  <2>1. IndexRight(tick.index, tick.owed)'
    <3>1. CASE tick'.owed = None
      BY <3>1 DEF IndexRight
    <3>2. CASE tick'.index = tick.index /\ tick'.owed = tick.owed
      BY <1>1, <1>10, <3>2, IndexStays DEF TickRight
    <3>3. QED
      BY <1>7, <3>1, <3>2
  <2>2. QED
    BY <1>7, <2>1 DEF TickRight
<1>11. QED
  BY <1>1, <1>5, <1>6, <1>7, <1>9, <1>10, CutStep

\* What `timberfs trim` reads under the store's lock is right.
LEMMA TrimFloor ==
    ASSUME RegistryInv, NEW s \in Stores,
           NEW interest \in IF s \in env.unconsumed THEN ForStore(IndexOf, s, Fields(s), next[s]) ELSE {Nobody}
    PROVE  FloorRight(s, {s, label[s]}, interest, Owed)
<1>1. Typed /\ next[s] \in Nat /\ IndexRight(IndexOf, Owed)
  BY IndexIsRight DEF RegistryInv, Typed
<1>2. CASE s \in env.unconsumed /\ Owed # None
  <2>1. next[s] <= next[s]
    BY <1>1
  <2>2. PICK index, owed, fields, l, nextSeq :
            index = IndexOf /\ owed = Owed /\ fields = Fields(s) /\ l = label[s] /\ nextSeq = next[s]
    OBVIOUS
  <2>3. /\ fields = {s, l} \/ (May("torn") /\ fields = {s})
        /\ interest \in ForStore(index, s, fields, nextSeq) /\ IndexRight(index, owed) /\ owed # None
        /\ nextSeq \in Nat /\ nextSeq <= next[s]
    BY <1>1, <1>2, <2>1, <2>2, FieldsOfOne
  <2>4. FloorRight(s, {s, l}, interest, owed)
    BY <1>1, <2>3, FloorIsRight
  <2>5. QED
    BY <2>2, <2>4
<1>3. CASE s \notin env.unconsumed
  BY <1>3 DEF FloorRight, Nobody
<1>4. CASE Owed = None
  BY <1>4 DEF FloorRight
<1>5. QED
  BY <1>2, <1>3, <1>4

LEMMA TrimSafe ==
    ASSUME RegistryInv, NEW s \in Stores, Trim(s)
    PROVE  RegistryInv'
<1>1. /\ Typed /\ TickRight
      /\ UNCHANGED <<env, next, torn, dir, serial, declared, command, proc, got, tick>>
  BY DEF RegistryInv, Trim, registryVars, procVars
<1>2. PICK interest \in IF s \in env.unconsumed THEN ForStore(IndexOf, s, Fields(s), next[s]) ELSE {Nobody} :
          LET dropped == Dropped(s, interest)
          IN  /\ first' = [first EXCEPT ![s] = @ + Cardinality(dropped)]
              /\ verdict' = Verdict(s, dropped, AgeCut(s) \cup SizeCut(s), OverrideRecord(interest, dropped),
                                    Owed, {s, label[s]})
  BY DEF Trim
<1>3. FloorRight(s, {s, label[s]}, interest, Owed)
  BY <1>2, TrimFloor
<1>4. NothingHeldIsDropped'
  BY <1>1, <1>2, <1>3, InterestSpares DEF NothingHeldIsDropped
<1>5. Dropped(s, interest) \in SUBSET Chunks(s)
  BY DroppedIsThere
<1>6. tick'.left \subseteq Stores /\ DOMAIN tick' = DOMAIN tick
  BY <1>1 DEF Typed
<1>7. ASSUME Grown PROVE TickRight'
  <2>1. next \in [Stores -> Nat] /\ next' = next
    BY <1>1 DEF Typed
  <2>2. \A x \in Stores : next[x] <= next'[x]
    BY <2>1
  <2>3. QED
    BY <1>1, <1>7, <2>1, <2>2, TickStays
<1>8. PICK dropped \in SUBSET Chunks(s) : dropped = Dropped(s, interest)
  BY <1>5
<1>9. first' = [first EXCEPT ![s] = @ + Cardinality(dropped)]
  BY <1>2, <1>8
<1>10. QED
  BY <1>1, <1>4, <1>6, <1>7, <1>9, CutStep

------------------------------------------------------------------------------
\* A follower as it is registered at the start.
LEMMA RegisteredDirectory ==
    ASSUME NEW r, r = None \/ Registered(r)
    PROVE  /\ Registration(r) \in Directory
           /\ r = None => /\ ~Registration(r).here /\ Registration(r).decl = Missing
                          /\ Registration(r).places = Missing /\ Registration(r).legacy = Missing
           /\ r # None => /\ Registration(r).here /\ Registration(r).decl \in Declaration
                          /\ Registration(r).decl = [select |-> r.select, retaining |-> r.retaining]
                          /\ Registration(r).places = r.places /\ Registration(r).legacy = r.legacy
<1>1. CASE r = None
  BY <1>1 DEF Registration, NoDir, Directory
<1>2. CASE r # None
  <2>1. /\ [select |-> r.select, retaining |-> r.retaining] \in Declaration
        /\ r.places \in {Missing, Spoilt} \cup Positions /\ r.legacy \in {Missing, Spoilt} \cup Cursor
    BY <1>2 DEF Registered
  <2>2. PICK decl \in Declaration : decl = [select |-> r.select, retaining |-> r.retaining]
    BY <2>1
  <2>3. Registration(r) = [here |-> TRUE, decl |-> decl, places |-> r.places, legacy |-> r.legacy,
                           inode |-> 0, pid |-> None]
    BY <1>2, <2>2 DEF Registration, Made, NoDir
  <2>4. QED
    BY <1>2, <2>1, <2>2, <2>3 DEF Directory
<1>3. QED
  BY <1>1, <1>2

LEMMA InitSafe ==
    ASSUME Steady, Init
    PROVE  RegistryInv
<1>1. env \in Environments /\ Environment(env)
  BY RegistryAssumption DEF Init
<1>2. /\ first = [s \in Stores |-> 0] /\ next = env.there /\ torn = {} /\ serial = 0
      /\ dir = [f \in Followers |-> Registration(env.registered[f])]
      /\ proc = [p \in Processes |-> Off] /\ command = Idle /\ tick = Round
      /\ got = [f \in Followers |-> [s \in Stores |-> {}]]
      /\ declared = [f \in Followers |-> dir[f].decl] /\ verdict = Quiet
  BY DEF Init
<1>3. \A f \in Followers : env.registered[f] = None \/ Registered(env.registered[f])
  BY <1>1 DEF Environment
<1>4. \A f \in Followers :
          LET r == env.registered[f]
          IN  /\ dir[f] \in Directory /\ dir[f].decl \in {Missing} \cup Declaration
              /\ r = None => /\ ~dir[f].here /\ dir[f].decl = Missing
                             /\ dir[f].places = Missing /\ dir[f].legacy = Missing
              /\ r # None => /\ dir[f].here /\ dir[f].decl = [select |-> r.select, retaining |-> r.retaining]
                             /\ dir[f].places = r.places /\ dir[f].legacy = r.legacy
  BY <1>2, <1>3, RegisteredDirectory
<1>5. \A p \in Processes : proc[p].pc = "off"
  BY <1>2 DEF Off
<1>6. Typed
  <2>1. Off \in Process
    BY DEF Off, Process, NoPlaces, Positions
  <2>2. command \in Command /\ command.pc = "idle"
    BY <1>2 DEF Idle, Command
  <2>3. Round.left \subseteq Stores
    BY DEF Round, Here
  <2>4. next \in [Stores -> Nat] /\ \A s \in Stores : next[s] <= Len(env.sizes[s])
    BY <1>1, <1>2 DEF Environment
  <2>5. dir \in [Followers -> Directory]
    BY <1>2, <1>4
  <2>6. declared \in [Followers -> {Missing} \cup Declaration]
    BY <1>2, <1>4
  <2>7. first \in [Stores -> Nat] /\ serial \in Nat /\ got \in [Followers -> [Stores -> SUBSET Nat]]
        /\ proc \in [Processes -> Process] /\ DOMAIN tick = DOMAIN Round /\ tick.left \subseteq Stores
        /\ torn \subseteq Stores
    BY <1>2, <2>1, <2>3
  <2>8. QED
    BY <1>1, <2>2, <2>4, <2>5, <2>6, <2>7 DEF Typed
<1>7. ProcessesRight /\ CommandRight
  BY <1>2, <1>5 DEF ProcessesRight, ProcessRight, CommandRight, Holding, Idle, Removing
<1>8. ASSUME NEW f \in Followers PROVE DirectoryRight(f)
  <2>1. PICK r : r = env.registered[f]
    OBVIOUS
  <2>2. CASE r = None
    BY <1>2, <1>4, <2>1, <2>2, Marks DEF DirectoryRight
  <2>3. CASE r # None
    <3>1. /\ dir[f].here /\ dir[f].places = r.places /\ dir[f].legacy = r.legacy
          /\ declared[f] = dir[f].decl
      BY <1>2, <1>4, <2>1, <2>3
    <3>2. ASSUME NEW s \in Stores, NEW chunk \in Nat, NEW whole, Unread(env, s, chunk, whole)
          PROVE  Reached(f, s, chunk, whole)
      BY <1>2, <3>2 DEF Unread, Reached, Honest
    <3>3. ASSUME r.places \in Positions, NEW s \in Stores PROVE HonestIn(f, s, r.places[s])
      <4>1. r.places[s] # None =>
                r.places[s].chunk \in Nat /\ Unread(env, s, r.places[s].chunk, r.places[s].whole)
        BY <1>1, <2>1, <2>3, <3>3 DEF Steady, Positions
      <4>2. QED
        BY <3>2, <4>1 DEF HonestIn
    <3>4. ASSUME r.legacy \in Cursor, NEW s \in Stores PROVE Reached(f, s, r.legacy.chunk, FALSE)
      <4>1. r.legacy.chunk \in Nat /\ Unread(env, s, r.legacy.chunk, FALSE)
        BY <1>1, <2>1, <2>3, <3>4 DEF Steady, Cursor
      <4>2. QED
        BY <3>2, <4>1
    <3>5. QED
      BY <3>1, <3>3, <3>4 DEF DirectoryRight
  <2>4. QED
    BY <2>2, <2>3
<1>9. ByLabel
  <2>1. ASSUME May("torn"), NEW f \in Followers, dir[f].decl \in Declaration
        PROVE  dir[f].decl.select \cap Stores = {}
    <3>1. env.registered[f] # None /\ dir[f].decl.select = env.registered[f].select
      <4>1. dir[f].decl # Missing
        BY <2>1, MarksAssumption
      <4>2. PICK r : r = env.registered[f]
        OBVIOUS
      <4>3. r # None
        BY <1>4, <4>1, <4>2
      <4>4. dir[f].decl = [select |-> r.select, retaining |-> r.retaining]
        BY <1>4, <4>2, <4>3
      <4>5. QED
        BY <4>2, <4>3, <4>4
    <3>2. env.registered[f].select \in Selections(env)
      BY <3>1 DEF Selections
    <3>3. QED
      BY <1>1, <2>1, <3>1, <3>2 DEF Steady, May
  <2>2. QED
    BY <1>2, <2>1 DEF ByLabel, LabelsSelect
<1>10. TickRight
  BY <1>2 DEF TickRight, Round, IndexRight
<1>11. QED
  BY <1>2, <1>6, <1>7, <1>8, <1>9, <1>10 DEF RegistryInv, DirectoriesRight, NothingHeldIsDropped, Quiet

LEMMA NextSafe ==
    ASSUME Steady, RegistryInv, Next
    PROVE  RegistryInv'
<1>1. CASE Operate
  <2>1. ASSUME NEW f \in Followers, Create(f) \/ Delete(f) \/ Spoil(f) \/ Repair(f)
        PROVE  RegistryInv'
    BY <2>1, CreateSafe, DeleteSafe, SpoilSafe, RepairSafe
  <2>2. ASSUME NEW f \in Followers, NEW select \in env.selects, NEW retaining \in BOOLEAN,
               Declare(f, select, retaining) \/ Update(f, select, retaining)
        PROVE  RegistryInv'
    BY <2>2, DeclareSafe, UpdateSafe
  <2>3. ASSUME Cut \/ Probe \/ RemoveFiles \/ RemoveDir
        PROVE  RegistryInv'
    BY <2>3, CutSafe, ProbeSafe, RemoveFilesSafe, RemoveDirSafe
  <2>4. ASSUME NEW s \in Stores, Tear(s) \/ Mend(s) \/ Trim(s) \/ \E l \in Labels : Relabel(s, l)
        PROVE  RegistryInv'
    BY <2>4, StoresSafe, TrimSafe
  <2>5. QED
    BY <1>1, <2>1, <2>2, <2>3, <2>4 DEF Operate
<1>2. CASE Follow
  BY <1>2, LoadSafe, LockSafe, WriteInfoSafe, OpenSafe, SaveSafe, ExitSafe, ShipSafe DEF Follow
<1>3. CASE Maintain
  BY <1>3, RefreshSafe, ConsultSafe, EnforceSafe DEF Maintain
<1>4. CASE Write
  <2>1. ASSUME NEW s \in Stores, Seal(s) PROVE RegistryInv'
    BY <2>1, SealSafe
  <2>2. ASSUME Hour PROVE RegistryInv'
    <3>1. /\ UNCHANGED <<env, first, next, torn, dir, serial, declared, command, proc, got, tick, verdict>>
          /\ command' = command
      BY <2>2 DEF Hour, registryVars, operatorVars, procVars, tickVars
    <3>2. QED
      BY <3>1, CommandStep, CommandStays DEF RegistryInv, Typed
  <2>3. QED
    BY <1>4, <2>1, <2>2 DEF Write
<1>5. QED
  BY <1>1, <1>2, <1>3, <1>4 DEF Next

LEMMA RegistryIsKept ==
    ASSUME Steady
    PROVE  Spec => []RegistryInv
<1>1. Init => RegistryInv
  BY InitSafe
<1>2. RegistryInv /\ [Next]_vars => RegistryInv'
  <2>1. ASSUME RegistryInv, UNCHANGED vars PROVE RegistryInv'
    <3>1. UNCHANGED <<env, first, next, torn, dir, serial, declared, command, proc, got, tick, verdict>>
      BY <2>1 DEF vars, storeVars, registryVars, operatorVars, procVars, tickVars
    <3>2. QED
      BY <2>1, <3>1, CommandStep, CommandStays DEF RegistryInv, Typed
  <2>2. QED
    BY <2>1, NextSafe
<1>3. QED
  BY <1>1, <1>2, PTL DEF Spec

\* Interest drops a chunk only when every retaining follower that covered the store when the
\* registry was read has been given all of it, whatever the stores, the followers and the
\* processes (InterestIndex::read and for_store, enforce_retention, cmd_run, cmd_delete): where
\* no command overtakes a process that starts, and no manifest that is unreadable hides a
\* follower selected by identity.
THEOREM RegistryNothingHeldIsDropped ==
    ASSUME Steady
    PROVE  Spec => []NothingHeldIsDropped
<1>1. RegistryInv => NothingHeldIsDropped
  BY DEF RegistryInv
<1>2. QED
  BY <1>1, RegistryIsKept, PTL

\* One position, one process: no two of them past the lock of one follower, however many
\* are started and whoever deletes what (cmd_run, cmd_delete), where no command overtakes a
\* process that starts.
THEOREM RegistryOneProcess ==
    ASSUME Steady
    PROVE  Spec => []OneProcess
<1>1. RegistryInv => OneProcess
  BY DEF RegistryInv, ProcessesRight, Holding, OneProcess
<1>2. QED
  BY <1>1, RegistryIsKept, PTL

------------------------------------------------------------------------------
\* What a budget drops is told.

LEMMA DirectoriesKept ==
    ASSUME DirectoriesLegible, command' = command, torn' = torn,
           \A f \in Followers :
               /\ dir'[f].here = dir[f].here /\ dir'[f].decl = dir[f].decl /\ dir'[f].legacy = dir[f].legacy
               /\ dir'[f].places # Spoilt
    PROVE  DirectoriesLegible'
BY DEF DirectoriesLegible

LEMMA LegibleMay ==
    ASSUME Legible, RegistryInv, Budgeted(env)
    PROVE  ~May("create") /\ ~May("delete") /\ ~May("spoil") /\ ~May("torn")
BY DEF Legible, RegistryInv, Typed, May

LEMMA OperateLegible ==
    ASSUME Legible, RegistryInv, Budgeted(env), DirectoriesLegible, Operate
    PROVE  DirectoriesLegible'
<1> USE LegibleMay
<1>1. Typed
  BY DEF RegistryInv
<1>2. ASSUME NEW f \in Followers PROVE ~Create(f) /\ ~Delete(f) /\ ~Spoil(f) /\ ~Repair(f)
  BY DEF Create, Delete, Spoil, Repair, DirectoriesLegible
<1>3. ASSUME NEW f \in Followers, NEW select \in env.selects, NEW retaining \in BOOLEAN
      PROVE  /\ ~Declare(f, select, retaining)
             /\ Update(f, select, retaining) => DirectoriesLegible'
  <2>1. ~Declare(f, select, retaining)
    BY DEF Declare, DirectoriesLegible
  <2>2. ASSUME Update(f, select, retaining) PROVE DirectoriesLegible'
    <3>1. PICK new \in Declaration : new = [select |-> select, retaining |-> retaining]
      BY <1>1, Surroundings DEF Declaration, Typed
    <3>2. new # Missing /\ new # Spoilt
      BY Marks
    <3>3. dir' = [dir EXCEPT ![f].decl = new] /\ UNCHANGED <<command, torn>>
      BY <2>2, <3>1 DEF Update, storeVars
    <3>4. \A g \in Followers :
              /\ dir'[g].here = dir[g].here /\ dir'[g].legacy = dir[g].legacy /\ dir'[g].places = dir[g].places
              /\ dir'[g].decl \in {new, dir[g].decl}
      BY <1>1, <3>3 DEF Typed, Directory
    <3>5. QED
      BY <3>2, <3>3, <3>4 DEF DirectoriesLegible
  <2>3. QED
    BY <2>1, <2>2
<1>4. ~Probe /\ ~RemoveFiles /\ ~RemoveDir
  BY DEF Probe, RemoveFiles, RemoveDir, DirectoriesLegible
<1>5. Cut => DirectoriesLegible'
  BY DEF Cut, Idle, DirectoriesLegible, storeVars, registryVars
<1>6. ASSUME NEW s \in Stores
      PROVE  /\ ~Tear(s) /\ ~Mend(s)
             /\ Trim(s) \/ (\E l \in Labels : Relabel(s, l)) => DirectoriesLegible'
  BY DEF Tear, Mend, Trim, Relabel, DirectoriesLegible, registryVars
<1>7. QED
  BY <1>2, <1>3, <1>4, <1>5, <1>6 DEF Operate

LEMMA FollowLegible ==
    ASSUME RegistryInv, DirectoriesLegible, Follow
    PROVE  DirectoriesLegible'
<1>1. /\ Typed /\ UNCHANGED <<command, torn>>
      /\ \A f \in Followers : dir[f].places # Spoilt
  <2>1. ASSUME NEW p \in Processes, Lock(p) \/ WriteInfo(p) \/ Open(p) \/ Save(p) \/ Exit(p)
        PROVE  UNCHANGED <<command, torn>>
    BY <2>1 DEF Lock, WriteInfo, Open, Save, Exit, storeVars, operatorVars
  <2>2. ASSUME NEW p \in Processes, NEW f \in Followers, Load(p, f) PROVE UNCHANGED <<command, torn>>
    BY <2>2 DEF Load, storeVars, operatorVars
  <2>3. ASSUME NEW p \in Processes, NEW s \in Stores, NEW whole \in BOOLEAN, Ship(p, s, whole)
        PROVE  UNCHANGED <<command, torn>>
    BY <2>3 DEF Ship, storeVars, operatorVars
  <2>4. UNCHANGED <<command, torn>>
    BY <2>1, <2>2, <2>3 DEF Follow
  <2>5. QED
    BY <2>4 DEF RegistryInv, DirectoriesLegible
<1>2. ASSUME NEW p \in Processes, dir' = Without(p) PROVE DirectoriesLegible'
  BY <1>1, <1>2, DirectoriesKept DEF Typed, Directory, Without
<1>3. CASE dir' = dir
  BY <1>1, <1>3, DirectoriesKept
<1>4. ASSUME NEW f \in Followers, NEW inode, dir' = [dir EXCEPT ![f].inode = inode] PROVE DirectoriesLegible'
  BY <1>1, <1>4, DirectoriesKept DEF Typed, Directory
<1>5. ASSUME NEW f \in Followers, NEW pid, dir' = [dir EXCEPT ![f].pid = pid] PROVE DirectoriesLegible'
  BY <1>1, <1>5, DirectoriesKept DEF Typed, Directory
<1>6. ASSUME NEW f \in Followers, NEW places, places # Spoilt, dir' = [dir EXCEPT ![f].places = places]
      PROVE  DirectoriesLegible'
  BY <1>1, <1>6, DirectoriesKept DEF Typed, Directory
<1>7. ASSUME NEW p \in Processes PROVE Lock(p) => DirectoriesLegible'
  <2>1. SUFFICES ASSUME Lock(p) PROVE DirectoriesLegible'
    OBVIOUS
  <2>2. proc[p].f \in Followers
    BY <2>1 DEF Lock, RegistryInv, ProcessesRight, ProcessRight
  <2>3. QED
    BY <1>3, <1>4, <2>1, <2>2 DEF Lock
<1>8. ASSUME NEW p \in Processes PROVE WriteInfo(p) => DirectoriesLegible'
  <2>1. SUFFICES ASSUME WriteInfo(p) PROVE DirectoriesLegible'
    OBVIOUS
  <2>2. proc[p].f \in Followers
    BY <2>1, HoldsAlone DEF WriteInfo, Holding
  <2>3. QED
    BY <1>3, <1>5, <2>1, <2>2 DEF WriteInfo
<1>9. ASSUME NEW p \in Processes PROVE Open(p) => DirectoriesLegible'
  <2>1. SUFFICES ASSUME Open(p) PROVE DirectoriesLegible'
    OBVIOUS
  <2>2. proc[p].f \in Followers
    BY <2>1, HoldsAlone DEF Open, Holding
  <2>3. \/ dir' = Without(p)
        \/ \E places : places # Spoilt /\ dir' = [dir EXCEPT ![proc[p].f].places = places]
    BY <2>1 DEF Open
  <2>4. QED
    BY <1>2, <1>6, <2>2, <2>3
<1>10. ASSUME NEW p \in Processes PROVE Save(p) => DirectoriesLegible'
  <2>1. SUFFICES ASSUME Save(p) PROVE DirectoriesLegible'
    OBVIOUS
  <2>2. proc[p].f \in Followers
    BY <2>1, HoldsAlone DEF Save, Holding
  <2>3. proc[p].mem # Spoilt
    BY <1>1, MarksAssumption DEF Typed, Process
  <2>4. QED
    BY <1>2, <1>6, <2>1, <2>2, <2>3 DEF Save
<1>11. ASSUME NEW p \in Processes, NEW f \in Followers, Load(p, f) PROVE DirectoriesLegible'
  BY <1>3, <1>11 DEF Load, registryVars
<1>12. ASSUME NEW p \in Processes, NEW s \in Stores, NEW whole \in BOOLEAN, Ship(p, s, whole)
       PROVE  DirectoriesLegible'
  BY <1>3, <1>12 DEF Ship, registryVars
<1>13. ASSUME NEW p \in Processes, Exit(p) PROVE DirectoriesLegible'
  BY <1>2, <1>13 DEF Exit
<1>14. QED
  BY <1>7, <1>8, <1>9, <1>10, <1>11, <1>12, <1>13 DEF Follow

\* A registry that can be read is read as something.
LEMMA IndexIsOpen ==
    ASSUME Typed, DirectoriesLegible
    PROVE  IndexOf # Closed
<1> DEFINE fs == {g \in Followers : Retaining(dir[g])}
           index == [f \in fs |-> [select |-> dir[f].decl.select, at |-> PlacesOf(dir[f])]]
<1>1. \A f \in Followers : ~Illegible(dir[f])
  BY DEF DirectoriesLegible, Illegible
<1>2. IndexOf = index
  BY <1>1 DEF IndexOf
<1>3. ASSUME NEW f \in fs
      PROVE  /\ dir[f].decl.select \in SUBSET (Labels \cup Stores)
             /\ PlacesOf(dir[f]) \in [Stores -> Nat \cup {None}]
  <2>1. /\ dir[f].decl \in Declaration /\ dir[f].places \in {Missing} \cup Positions
        /\ dir[f].legacy \in {Missing} \cup Cursor
    BY <1>3 DEF Typed, Directory, DirectoriesLegible, Retaining, Readable
  <2>2. dir[f].decl.select \in SUBSET (Labels \cup Stores)
    BY <2>1 DEF Declaration
  <2>3. ASSUME dir[f].places = Missing PROVE PlacesOf(dir[f]) \in [Stores -> Nat \cup {None}]
    BY <2>1, <2>3 DEF PlacesOf, Cursor
  <2>4. ASSUME dir[f].places \in Positions, dir[f].places # Missing
        PROVE  PlacesOf(dir[f]) \in [Stores -> Nat \cup {None}]
    <3>1. \A s \in Stores : dir[f].places[s] # None => dir[f].places[s].chunk \in Nat
      BY <2>4 DEF Positions
    <3>2. QED
      BY <2>4, <3>1 DEF PlacesOf
  <2>5. QED
    BY <2>1, <2>2, <2>3, <2>4
<1>4. index \in [fs -> [select : SUBSET (Labels \cup Stores), at : [Stores -> Nat \cup {None}]]]
  BY <1>3
<1>5. fs \in SUBSET Followers
  OBVIOUS
<1> HIDE DEF fs, index
<1>6. QED
  BY <1>2, <1>4, <1>5, MarksAssumption

\* When interest names nobody, nothing is owed to anybody.
LEMMA SomebodyIsNamed ==
    ASSUME NEW index, NEW owed, IndexRight(index, owed), owed # None, index # Closed,
           NEW s \in Stores, NEW fields, NEW nextSeq, NEW interest \in ForStore(index, s, fields, nextSeq),
           interest.holder = None, NEW f \in Followers
    PROVE  owed[f] \cap fields = {}
<1> DEFINE mine == {g \in DOMAIN index : index[g].select \cap fields # {}}
<1>1. SUFFICES ASSUME owed[f] \cap fields # {} PROVE FALSE
  OBVIOUS
<1>2. f \in mine
  BY <1>1 DEF IndexRight, EntryRight
<1>3. \A g \in mine : g \in Followers
  BY DEF IndexRight
<1>4. \E g \in mine : \E floor, at : interest = Interest(floor, g, at)
  BY <1>2, Zenon DEF ForStore
<1>5. interest.holder \in mine
  BY <1>4 DEF Interest
<1>6. QED
  BY <1>3, <1>5, MarksAssumption

LEMMA ConsultLegible ==
    ASSUME RegistryInv, DirectoriesLegible, TickLegible, Consult
    PROVE  TickLegible'
<1>1. /\ Typed /\ DOMAIN tick = DOMAIN Round /\ TickRight /\ tick.pc = "consult" /\ env' = env
      /\ tick.fields = {tick.s, tick.label}
  BY DEF RegistryInv, Typed, Consult, TickLegible
<1>2. PICK s \in Stores : s = tick.s
  BY <1>1 DEF TickRight
<1>l. PICK l : l = tick.label
  OBVIOUS
<1>r. PICK reads : reads <=> tick.index = None /\ s \in env.unconsumed
  OBVIOUS
<1>3. PICK index, owed :
          index = (IF reads THEN IndexOf ELSE tick.index) /\ owed = (IF reads THEN Owed ELSE tick.owed)
  OBVIOUS
<1>4. PICK interest \in IF s \in env.unconsumed THEN ForStore(index, s, {s, l}, tick.nextSeq) ELSE {Nobody} :
          tick' = [tick EXCEPT !.pc = "enforce", !.index = index, !.owed = owed, !.interest = interest]
  BY <1>1, <1>2, <1>r, <1>l, <1>3 DEF Consult
<1>5. /\ tick'.pc = "enforce" /\ tick'.s = s /\ tick'.label = l
      /\ tick'.index = index /\ tick'.owed = owed /\ tick'.interest = interest
  BY <1>1, <1>2, <1>l, <1>4 DEF Round
<1>6. IndexRight(index, owed)
  BY <1>1, <1>3, IndexIsRight DEF RegistryInv, TickRight
<1>7. owed # None => index # Closed
  BY <1>1, <1>3, IndexIsOpen DEF TickLegible
<1>8. ASSUME owed # None, s \in env.unconsumed, interest.holder = None, NEW f \in Followers
      PROVE  owed[f] \cap {s, l} = {}
  <2>1. PICK nextSeq : nextSeq = tick.nextSeq
    OBVIOUS
  <2>2. interest \in ForStore(index, s, {s, l}, nextSeq)
    BY <1>4, <1>8, <2>1
  <2>3. PICK fields : fields = {s, l}
    OBVIOUS
  <2>4. QED
    BY <1>6, <1>7, <1>8, <2>2, <2>3, SomebodyIsNamed
<1>9. QED
  BY <1>1, <1>5, <1>7, <1>8 DEF TickLegible, Told

\* A drop that names whom it should tells all of what is lost.
LEMMA LostIsTold ==
    ASSUME Typed, NEW s \in Stores, NEW l, NEW interest, NEW owed,
           FloorRight(s, {s, l}, interest, owed),
           \/ Told(s, {s, l}, interest, owed)
           \/ ~Budgeted(env)
    PROVE  LET dropped == Dropped(s, interest)
               v == Verdict(s, dropped, AgeCut(s) \cup SizeCut(s), OverrideRecord(interest, dropped),
                            owed, {s, l})
           IN  v.lost \subseteq v.told
<1> DEFINE dropped == Dropped(s, interest)
           told == OverrideRecord(interest, dropped)
           v == Verdict(s, dropped, AgeCut(s) \cup SizeCut(s), told, owed, {s, l})
<1>1. /\ v.told = told /\ v.lost \subseteq dropped
      /\ \A c \in v.lost : /\ owed # None /\ s \in env.unconsumed
                           /\ \E f \in Followers : owed[f] \cap {s, l} # {} /\ c \notin got[f][s]
  BY DEF Verdict
<1>2. CASE ~Budgeted(env)
  <2>1. AgeCut(s) = {} /\ SizeCut(s) = {}
    BY <1>2 DEF Budgeted, AgeCut, SizeCut
  <2>2. v.lost = v.wrong
    BY <2>1 DEF Verdict
  <2>3. v.wrong = {}
    BY InterestSpares
  <2>4. QED
    BY <2>2, <2>3
<1>3. CASE Told(s, {s, l}, interest, owed)
  <2>1. SUFFICES ASSUME NEW c \in v.lost PROVE c \in told
    BY <1>1
  <2>2. PICK f \in Followers : owed[f] \cap {s, l} # {} /\ c \notin got[f][s]
    BY <1>1
  <2>3. owed # None /\ s \in env.unconsumed /\ c \in dropped
    BY <1>1
  <2>4. interest.holder # None
    BY <1>3, <2>2, <2>3 DEF Told
  <2> HIDE DEF dropped
  <2>5. CASE interest.floor = None
    BY <2>3, <2>4, <2>5 DEF OverrideRecord
  <2>6. CASE interest.floor # None
    <3>1. interest.floor \in Nat /\ (c \in first[s] .. interest.floor /\ c < interest.floor => c \in got[f][s])
      BY <2>2, <2>3, <2>6 DEF FloorRight
    <3>2. c \in Chunks(s) /\ first[s] \in Nat /\ next[s] \in Nat
      BY <2>3, DroppedIsThere DEF dropped, Typed
    <3>3. c >= interest.floor
      BY <2>2, <3>1, <3>2 DEF Chunks
    <3>4. QED
      BY <2>3, <2>4, <2>6, <3>3 DEF OverrideRecord
  <2>7. QED
    BY <2>5, <2>6
<1>4. QED
  BY <1>2, <1>3

LEMMA LossInit ==
    ASSUME Steady, Legible, Init
    PROVE  LossInv
<1>1. /\ env \in Environments /\ command = Idle /\ torn = {} /\ tick = Round /\ verdict = Quiet
      /\ dir = [f \in Followers |-> Registration(env.registered[f])]
  BY DEF Init
<1>2. ASSUME Budgeted(env), NEW f \in Followers
      PROVE  /\ dir[f].decl # Spoilt /\ (dir[f].here => dir[f].decl # Missing)
             /\ dir[f].places # Spoilt /\ dir[f].legacy # Spoilt
  <2>1. PICK r : r = env.registered[f]
    OBVIOUS
  <2>2. (r = None \/ Registered(r)) /\ dir[f] = Registration(r)
    BY <1>1, <2>1, RegistryAssumption DEF Environment
  <2>3. CASE r = None
    BY <2>2, <2>3, Marks, RegisteredDirectory
  <2>4. CASE r # None
    <3>1. r.places # Spoilt /\ r.legacy # Spoilt
      BY <1>1, <1>2, <2>1, <2>4 DEF Legible
    <3>2. /\ dir[f].decl \in Declaration /\ dir[f].places = r.places /\ dir[f].legacy = r.legacy
      <4>1. Registered(r)
        BY <2>2, <2>4
      <4>2. r # None => /\ Registration(r).here /\ Registration(r).decl \in Declaration
                        /\ Registration(r).decl = [select |-> r.select, retaining |-> r.retaining]
                        /\ Registration(r).places = r.places /\ Registration(r).legacy = r.legacy
        BY <4>1, RegisteredDirectory
      <4>3. QED
        BY <2>2, <2>4, <4>2
    <3>3. dir[f].decl # Spoilt /\ dir[f].decl # Missing
      BY <3>2, MarksAssumption
    <3>4. QED
      BY <3>1, <3>2, <3>3
  <2>5. QED
    BY <2>3, <2>4
<1>3. TickLegible
  BY <1>1 DEF TickLegible, Round
<1>4. QED
  BY <1>1, <1>2, <1>3 DEF LossInv, DirectoriesLegible, Idle, LossIsTold, Quiet

\* Where nothing is dropped nothing is lost.
LEMMA VerdictKept ==
    ASSUME LossIsTold, verdict' = verdict
    PROVE  LossIsTold'
BY DEF LossIsTold

LEMMA TickKept ==
    ASSUME TickLegible, UNCHANGED <<env, tick>>
    PROVE  TickLegible'
BY DEF TickLegible, Told

LEMMA TrimTells ==
    ASSUME RegistryInv, LossInv, NEW s \in Stores, Trim(s)
    PROVE  LossIsTold'
<1>1. Typed /\ IndexRight(IndexOf, Owed)
  BY IndexIsRight DEF RegistryInv
<1>2. PICK interest \in IF s \in env.unconsumed THEN ForStore(IndexOf, s, Fields(s), next[s]) ELSE {Nobody} :
          LET dropped == Dropped(s, interest)
          IN  verdict' = Verdict(s, dropped, AgeCut(s) \cup SizeCut(s), OverrideRecord(interest, dropped),
                                 Owed, {s, label[s]})
  BY DEF Trim
<1>3. FloorRight(s, {s, label[s]}, interest, Owed)
  BY <1>2, TrimFloor
<1>4. ASSUME Budgeted(env) PROVE Told(s, {s, label[s]}, interest, Owed)
  <2>1. SUFFICES ASSUME Owed # None, s \in env.unconsumed, interest.holder = None, NEW f \in Followers
                 PROVE  Owed[f] \cap {s, label[s]} = {}
    BY DEF Told
  <2>2. IndexOf # Closed /\ torn = {}
    BY <1>1, <1>4, IndexIsOpen DEF LossInv, DirectoriesLegible
  <2>3. PICK index, owed, fields, nextSeq :
            index = IndexOf /\ owed = Owed /\ fields = {s, label[s]} /\ nextSeq = next[s]
    OBVIOUS
  <2>4. interest \in ForStore(index, s, fields, nextSeq)
    BY <1>2, <2>1, <2>2, <2>3 DEF Fields
  <2>5. owed[f] \cap fields = {}
    BY <1>1, <2>1, <2>2, <2>3, <2>4, SomebodyIsNamed
  <2>6. QED
    BY <2>3, <2>5
<1>5. PICK l, owed : l = label[s] /\ owed = Owed
  OBVIOUS
<1>6. \/ Told(s, {s, l}, interest, owed)
      \/ ~Budgeted(env)
  BY <1>4, <1>5
<1>7. FloorRight(s, {s, l}, interest, owed)
  BY <1>3, <1>5
<1>8. QED
  BY <1>1, <1>2, <1>5, <1>6, <1>7, LostIsTold DEF LossIsTold

LEMMA EnforceTells ==
    ASSUME RegistryInv, LossInv, Enforce
    PROVE  LossIsTold' /\ (Budgeted(env) => TickLegible')
<1>1. Typed /\ TickRight /\ tick.pc = "enforce" /\ env' = env
  BY DEF RegistryInv, Enforce
<1>2. PICK s \in Stores : s = tick.s
  BY <1>1 DEF TickRight
<1>3. PICK interest, owed, l : interest = tick.interest /\ owed = tick.owed /\ l = tick.label
  OBVIOUS
<1>4. /\ verdict' = LET dropped == Dropped(s, interest)
                    IN  Verdict(s, dropped, AgeCut(s) \cup SizeCut(s), OverrideRecord(interest, dropped),
                                owed, {s, l})
      /\ \/ tick' = Round
         \/ tick' = [Round EXCEPT !.left = tick.left \ {s}, !.index = tick.index, !.owed = tick.owed]
  BY <1>2, <1>3 DEF Enforce
<1>5. FloorRight(s, {s, l}, interest, owed)
  BY <1>1, <1>2, <1>3 DEF TickRight
<1>6. \/ Told(s, {s, l}, interest, owed)
      \/ ~Budgeted(env)
  BY <1>1, <1>2, <1>3 DEF LossInv, TickLegible
<1>7. LossIsTold'
  BY <1>1, <1>4, <1>5, <1>6, LostIsTold DEF LossIsTold
<1>8. ASSUME Budgeted(env) PROVE TickLegible'
  <2>1. /\ tick'.pc = "refresh"
        /\ \/ tick'.owed = None
           \/ tick'.owed = tick.owed /\ tick'.index = tick.index
    <3>1. CASE tick' = Round
      BY <3>1 DEF Round
    <3>2. CASE tick' = [Round EXCEPT !.left = tick.left \ {s}, !.index = tick.index, !.owed = tick.owed]
      BY <3>2 DEF Round
    <3>3. QED
      BY <1>4, <3>1, <3>2
  <2>2. tick.owed # None => tick.index # Closed
    BY <1>8 DEF LossInv, TickLegible
  <2>3. QED
    BY <2>1, <2>2 DEF TickLegible
<1>9. QED
  BY <1>7, <1>8

LEMMA LossNext ==
    ASSUME Steady, Legible, RegistryInv, LossInv, Next
    PROVE  LossInv'
<1>1. LossIsTold /\ (Budgeted(env) => DirectoriesLegible /\ TickLegible) /\ DOMAIN tick = DOMAIN Round
  BY DEF LossInv, RegistryInv, Typed
<1>2. CASE Operate
  <2>1. env' = env
    BY <1>2 DEF Operate, Create, Delete, Spoil, Repair, Declare, Update, Cut, Probe, RemoveFiles, RemoveDir,
                Tear, Mend, Trim, Relabel
  <2>2. LossIsTold'
    <3>1. ASSUME NEW s \in Stores, Trim(s) PROVE LossIsTold'
      BY <3>1, TrimTells
    <3>2. ASSUME NEW f \in Followers, Create(f) \/ Delete(f) \/ Spoil(f) \/ Repair(f) PROVE verdict' = verdict
      BY <3>2 DEF Create, Delete, Spoil, Repair, tickVars
    <3>3. ASSUME NEW f \in Followers, NEW select, NEW retaining,
                 Declare(f, select, retaining) \/ Update(f, select, retaining)
          PROVE  verdict' = verdict
      BY <3>3 DEF Declare, Update, tickVars
    <3>4. ASSUME Cut \/ Probe \/ RemoveFiles \/ RemoveDir PROVE verdict' = verdict
      BY <3>4 DEF Cut, Probe, RemoveFiles, RemoveDir, tickVars
    <3>5. ASSUME NEW s \in Stores,
                 Tear(s) \/ Mend(s) \/ \E l \in Labels : Relabel(s, l)
          PROVE  verdict' = verdict
      BY <3>5 DEF Tear, Mend, Relabel, tickVars
    <3>6. QED
      BY <1>1, <1>2, <3>1, <3>2, <3>3, <3>4, <3>5, VerdictKept DEF Operate
  <2>3. ASSUME Budgeted(env) PROVE DirectoriesLegible' /\ TickLegible'
    <3>1. DirectoriesLegible'
      BY <1>1, <1>2, <2>3, OperateLegible
    <3>2. tick' = tick
      <4>1. ASSUME NEW f \in Followers, Create(f) \/ Delete(f) \/ Spoil(f) \/ Repair(f) PROVE tick' = tick
        BY <4>1 DEF Create, Delete, Spoil, Repair, tickVars
      <4>2. ASSUME NEW f \in Followers, NEW select, NEW retaining,
                   Declare(f, select, retaining) \/ Update(f, select, retaining)
            PROVE  tick' = tick
        BY <1>1, <2>3, <4>2 DEF Declare, Update, tickVars, DirectoriesLegible
      <4>3. ASSUME Cut \/ Probe \/ RemoveFiles \/ RemoveDir PROVE tick' = tick
        BY <4>3 DEF Cut, Probe, RemoveFiles, RemoveDir, tickVars
      <4>4. ASSUME NEW s \in Stores,
                   Trim(s) \/ Tear(s) \/ Mend(s) \/ \E l \in Labels : Relabel(s, l)
            PROVE  tick' = tick
        BY <4>4 DEF Trim, Tear, Mend, Relabel, tickVars
      <4>5. QED
        BY <1>2, <4>1, <4>2, <4>3, <4>4 DEF Operate
    <3>3. QED
      BY <1>1, <2>1, <2>3, <3>1, <3>2, TickKept
  <2>4. QED
    BY <2>1, <2>2, <2>3 DEF LossInv, Budgeted
<1>3. CASE Follow
  <2>1. UNCHANGED <<env, tick, verdict>>
    <3>1. ASSUME NEW p \in Processes, Lock(p) \/ WriteInfo(p) \/ Open(p) \/ Save(p) \/ Exit(p)
          PROVE  UNCHANGED <<env, tick, verdict>>
      BY <3>1 DEF Lock, WriteInfo, Open, Save, Exit, tickVars
    <3>2. ASSUME NEW p \in Processes, NEW f \in Followers, Load(p, f) PROVE UNCHANGED <<env, tick, verdict>>
      BY <3>2 DEF Load, tickVars
    <3>3. ASSUME NEW p \in Processes, NEW s \in Stores, NEW whole \in BOOLEAN, Ship(p, s, whole)
          PROVE  UNCHANGED <<env, tick, verdict>>
      BY <3>3 DEF Ship, tickVars
    <3>4. QED
      BY <1>3, <3>1, <3>2, <3>3 DEF Follow
  <2>2. LossIsTold' /\ (Budgeted(env) => TickLegible')
    BY <1>1, <2>1, VerdictKept, TickKept
  <2>3. Budgeted(env) => DirectoriesLegible'
    BY <1>1, <1>3, FollowLegible
  <2>4. QED
    BY <2>1, <2>2, <2>3 DEF LossInv, Budgeted
<1>4. CASE Maintain
  <2>1. UNCHANGED <<env, command, dir, torn>>
    BY <1>4 DEF Maintain, Refresh, Consult, Enforce, storeVars, registryVars, operatorVars
  <2>2. Budgeted(env) => DirectoriesLegible'
    BY <1>1, <2>1 DEF DirectoriesLegible
  <2>3. ASSUME NEW s \in Stores, Refresh(s) PROVE LossIsTold' /\ (Budgeted(env) => TickLegible')
    <3>1. verdict' = Quiet
          /\ tick' = [tick EXCEPT !.pc = "consult", !.s = s, !.fields = Fields(s), !.label = label[s],
                                 !.nextSeq = next[s]]
      BY <2>3 DEF Refresh
    <3>2. /\ tick'.pc = "consult" /\ tick'.s = s /\ tick'.fields = Fields(s) /\ tick'.label = label[s]
          /\ tick'.index = tick.index /\ tick'.owed = tick.owed
      BY <1>1, <3>1 DEF Round
    <3>3. Budgeted(env) => Fields(s) = {s, label[s]}
      BY <1>1 DEF Fields, DirectoriesLegible
    <3>4. QED
      BY <1>1, <3>1, <3>2, <3>3 DEF TickLegible, LossIsTold, Quiet
  <2>4. ASSUME Consult PROVE LossIsTold' /\ (Budgeted(env) => TickLegible')
    <3>1. verdict' = verdict
      BY <2>4 DEF Consult
    <3>2. QED
      BY <1>1, <2>4, <3>1, VerdictKept, ConsultLegible
  <2>5. ASSUME Enforce PROVE LossIsTold' /\ (Budgeted(env) => TickLegible')
    BY <2>5, EnforceTells
  <2>6. LossIsTold' /\ (Budgeted(env) => TickLegible')
    BY <1>4, <2>3, <2>4, <2>5 DEF Maintain
  <2>7. QED
    BY <2>1, <2>2, <2>6 DEF LossInv, Budgeted
<1>5. CASE Write
  <2>1. UNCHANGED <<env, command, dir, torn, tick, verdict>>
    BY <1>5 DEF Write, Hour, Seal, registryVars, operatorVars, tickVars
  <2>2. QED
    BY <1>1, <2>1, VerdictKept, TickKept DEF LossInv, Budgeted, DirectoriesLegible
<1>6. QED
  BY <1>2, <1>3, <1>4, <1>5 DEF Next

\* A budget that drops what a retaining follower had not read says so, for every such chunk, whatever the
\* stores, the followers and the processes (override_record): where, besides, a store with a
\* budget is in a registry that can be read throughout.
THEOREM RegistryLossIsTold ==
    ASSUME Steady, Legible
    PROVE  Spec => []LossIsTold
<1>1. Init => RegistryInv /\ LossInv
  BY InitSafe, LossInit
<1>2. RegistryInv /\ LossInv /\ [Next]_vars => RegistryInv' /\ LossInv'
  <2>1. ASSUME RegistryInv, LossInv, UNCHANGED vars PROVE RegistryInv' /\ LossInv'
    <3>1. UNCHANGED <<env, first, next, torn, dir, serial, declared, command, proc, got, tick, verdict>>
      BY <2>1 DEF vars, storeVars, registryVars, operatorVars, procVars, tickVars
    <3>2. RegistryInv'
      BY <2>1, <3>1, CommandStep, CommandStays DEF RegistryInv, Typed
    <3>3. LossInv'
      BY <2>1, <3>1, VerdictKept, TickKept DEF LossInv, Budgeted, DirectoriesLegible
    <3>4. QED
      BY <3>2, <3>3
  <2>2. QED
    BY <2>1, NextSafe, LossNext
<1>3. LossInv => LossIsTold
  BY DEF LossInv
<1>4. QED
  BY <1>1, <1>2, <1>3, PTL DEF Spec
=============================================================================
