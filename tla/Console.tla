------------------------------- MODULE Console -------------------------------
(***************************************************************************)
(* The Incus console intake (src/src/incus_intake.rs, src/src/incus.rs):   *)
(* a third protocol over the receiver core of Intake.  Incus hands a       *)
(* console's output out twice, over a websocket that one client at a time  *)
(* may hold and from a ring that wraps and that reading empties.  A tap,   *)
(* a thread per instance, takes the websocket first, empties the ring      *)
(* once for what came before, and then follows the websocket and throws    *)
(* away what the ring says again.  A supervisor starts taps, for the       *)
(* instances there are and then for those that events tell of.             *)
(*                                                                         *)
(* Output is a sequence of pieces, of which some end a line.  An instance  *)
(* is one of Intake's Clients, a piece the place <<instance, number>>.     *)
(***************************************************************************)
EXTENDS Intake

CONSTANTS
    RingRoom    \* pieces the ring holds

\* More of an environment: what each instance puts out, whether it runs at the start, how
\* often it is started after that, the value its labels give it, whether the ring is left as
\* it is (--keep-ring), and what happens to taps.
Mishap == {"human", "drain", "read", "refuse", "unseen", "raced", "ask"}
ConsoleEnvironment(e) ==
    /\ e.output \in [Clients -> Seq({"line", "half", "error"})]
    /\ e.value \in [Clients -> Values] /\ e.boots \in Nat /\ e.up \subseteq Clients /\ e.keepRing \in BOOLEAN /\ e.mishaps \subseteq Mishap

ASSUME ConsoleAssumption ==
    /\ RingRoom \in Nat \ {0}
    /\ \A e \in Environments : ConsoleEnvironment(e)

VARIABLES
    \* Incus, per instance
    running, boots, emitted,
    ring,       \* what the next reading of the ring returns
    holder,     \* who has the console reserved: None, "tap" or "human"
    wire,       \* the websocket: what it has still to deliver, and whether it is open
    \* history: what a websocket was ever given, and what went with the ring instead
    wired, wrapped,
    \* the supervisor: "lists" instances, "subscribes" to events, "watches" them
    watch, events,
    \* a tap
    tap,        \* where it is, "off" where there is none
    backlog,    \* what it has read of the ring
    partial,    \* Stamper.partial: of a line not yet ended
    held,       \* pieces of the lines of the first seconds, not yet written
    young,      \* the episode is shorter than MIN_EPISODE
    heard       \* what came over the websocket: "nothing", an "error" line, or "more"

incusVars == <<running, boots, emitted, ring, holder, wire, wired, wrapped>>
watchVars == <<watch, events>>
tapVars == <<tap, backlog, partial, held, young, heard>>
consoleVars == <<incusVars, watchVars, tapVars>>
allVars == <<intakeAllVars, consoleVars>>

Console == env.protocol = "console"
May(mishap) == mishap \in env.mishaps
Costs == budget > 0 /\ budget' = budget - 1
Per(x) == [c \in Clients |-> x]
Shut == [sent |-> <<>>, open |-> FALSE]

ConsoleInit ==
    /\ Init
    /\ running = [c \in Clients |-> c \in env.up]
    /\ boots = Per(0) /\ emitted = Per(0) /\ ring = Per(<<>>) /\ holder = Per(None)
    /\ wire = Per(Shut) /\ wired = {} /\ wrapped = {}
    /\ watch = "lists" /\ events = <<>>
    /\ tap = Per("off") /\ backlog = Per(<<>>) /\ partial = Per(<<>>) /\ held = Per(<<>>)
    /\ young = Per(TRUE) /\ heard = Per("nothing")

------------------------------------------------------------------------------
\* Incus, its instances, and whoever else uses a console.
Refusal(c) == <<c, 0>>
Kind(p) == IF p[2] = 0 THEN "error" ELSE env.output[p[1]][p[2]]

Emit(c) ==
    /\ running[c] /\ emitted[c] < Len(env.output[c])
    /\ emitted' = [emitted EXCEPT ![c] = @ + 1]
    /\ LET p == <<c, emitted[c] + 1>>
           all == Append(ring[c], p)
           over == Len(all) > RingRoom
       IN
       /\ ring' = [ring EXCEPT ![c] = IF over THEN Tail(all) ELSE all]
       /\ wrapped' = IF over THEN wrapped \cup ({Head(all)} \ wired) ELSE wrapped
       /\ wire' = IF wire[c].open THEN [wire EXCEPT ![c].sent = Append(@, p)] ELSE wire
       /\ wired' = IF wire[c].open THEN wired \cup {p} ELSE wired
    /\ UNCHANGED <<intakeAllVars, running, boots, holder, watchVars, tapVars>>

\* An instance stops, and its ring goes with it.
Halt(c) ==
    /\ running[c] /\ boots[c] < env.boots
    /\ running' = [running EXCEPT ![c] = FALSE]
    /\ wire' = [wire EXCEPT ![c].open = FALSE]
    /\ ring' = [ring EXCEPT ![c] = <<>>]
    /\ wrapped' = wrapped \cup (Range(ring[c]) \ wired)
    /\ UNCHANGED <<intakeAllVars, boots, emitted, holder, wired, watchVars, tapVars>>

\* It starts, of which Incus tells whoever has subscribed: in one event, of a start or
\* of a restart.
Boot(c) ==
    /\ ~running[c] /\ boots[c] < env.boots
    /\ (watch = "watches" \/ May("unseen"))
    /\ running' = [running EXCEPT ![c] = TRUE] /\ boots' = [boots EXCEPT ![c] = @ + 1]
    /\ \E action \in {"started", "restarted"} :
         events' = IF watch = "watches" THEN Append(events, <<action, c>>) ELSE events
    /\ UNCHANGED <<intakeAllVars, emitted, ring, holder, wire, wired, wrapped, watch, tapVars>>

\* A person takes the console, and gives it back.
HumanTakes(c) ==
    /\ May("human") /\ holder[c] = None /\ Costs /\ holder' = [holder EXCEPT ![c] = "human"]
    /\ UNCHANGED <<env, clientVars, netVars, threadVars, tickVars, intakeVars, history,
                   running, boots, emitted, ring, wire, wired, wrapped, watchVars, tapVars>>
HumanLeaves(c) ==
    /\ holder[c] = "human" /\ holder' = [holder EXCEPT ![c] = None]
    /\ UNCHANGED <<intakeAllVars, running, boots, emitted, ring, wire, wired, wrapped,
                   watchVars, tapVars>>

------------------------------------------------------------------------------
\* The supervisor.  It lists the instances, then subscribes to events; spawn_tap does
\* nothing for an instance that has a tap.
Lives == mpc \notin {"down", "exits"}
Spawned(cs) == [c \in Clients |-> IF c \in cs /\ tap[c] = "off" THEN "reads" ELSE tap[c]]

List ==
    /\ Console /\ Lives /\ watch = "lists" /\ watch' = "subscribes"
    /\ tap' = Spawned({c \in Clients : running[c]})
    /\ UNCHANGED <<intakeAllVars, incusVars, events, backlog, partial, held, young, heard>>

Subscribe ==
    /\ Lives /\ watch = "subscribes" /\ watch' = "watches" /\ events' = <<>>
    /\ UNCHANGED <<intakeAllVars, incusVars, tapVars>>

\* started_instance: of an event, the instance that is up by it.
StartedByStart(e) == IF e[1] = "started" THEN {e[2]} ELSE {}
Started(e) == IF e[1] \in {"started", "restarted"} THEN {e[2]} ELSE {}

Notice ==
    /\ Lives /\ watch = "watches" /\ events # <<>> /\ events' = Tail(events)
    /\ (May("raced") \/ tap[Head(events)[2]] # "ends")
    /\ tap' = Spawned({c \in Started(Head(events)) : running[c]})
    /\ UNCHANGED <<intakeAllVars, incusVars, watch, backlog, partial, held, young, heard>>

------------------------------------------------------------------------------
\* A tap.  Attach first, then the ring: what is in both is stored twice, and nothing
\* falls in between.
AfterDraining(step) ==
    CASE step = "posts" -> "drains" [] step = "drains" -> "connects" [] OTHER -> "ensures"
After(step) ==
    CASE step = "posts" -> "connects" [] step = "connects" -> "drains" [] OTHER -> "ensures"

Moves(c, to) == tap' = [tap EXCEPT ![c] = to]
At(c, step) == mpc # "down" /\ tap[c] = step
Stopping == mpc = "exits"

ReadInstance(c) ==
    /\ At(c, "reads")
    /\ \E answered \in {TRUE, ~May("ask")} :
         Moves(c, IF answered /\ running[c] /\ ~Stopping THEN "posts" ELSE "ends")
    /\ UNCHANGED <<intakeAllVars, incusVars, watchVars, backlog, partial, held, young, heard>>

\* console_attach: the POST takes the console, for whoever comes first.
Post(c) ==
    /\ At(c, "posts")
    /\ IF running[c] /\ holder[c] = None
       THEN holder' = [holder EXCEPT ![c] = "tap"] /\ Moves(c, After("posts"))
       ELSE UNCHANGED holder /\ Moves(c, "sleeps")
    /\ partial' = [partial EXCEPT ![c] = <<>>] /\ held' = [held EXCEPT ![c] = <<>>]
    /\ young' = [young EXCEPT ![c] = TRUE] /\ heard' = [heard EXCEPT ![c] = "nothing"]
    /\ UNCHANGED <<intakeAllVars, running, boots, emitted, ring, wire, wired, wrapped,
                   watchVars, backlog>>

\* The websocket, over which Incus may say no.
Attach(c) ==
    /\ At(c, "connects")
    /\ \/ /\ running[c] /\ UNCHANGED budget /\ Moves(c, After("connects"))
          /\ wire' = [wire EXCEPT ![c] = [sent |-> <<>>, open |-> TRUE]]
       \/ /\ ~running[c] /\ UNCHANGED <<budget, wire>> /\ Moves(c, "releases")
       \/ /\ May("refuse") /\ Costs /\ Moves(c, After("connects"))
          /\ wire' = [wire EXCEPT ![c] = [sent |-> <<Refusal(c)>>, open |-> FALSE]]
    /\ UNCHANGED <<env, clientVars, netVars, threadVars, tickVars, intakeVars, history,
                   running, boots, emitted, ring, holder, wired, wrapped, watchVars, backlog,
                   partial, held, young, heard>>

\* console_drain: what it returns is gone from the ring; a failure is taken for nothing.
DrainRing(c) ==
    /\ At(c, "drains") /\ Moves(c, After("drains"))
    /\ \/ /\ backlog' = [backlog EXCEPT ![c] = ring[c]] /\ UNCHANGED budget
          /\ ring' = [ring EXCEPT ![c] = <<>>]
       \/ /\ May("drain") /\ Costs /\ UNCHANGED ring /\ backlog' = [backlog EXCEPT ![c] = <<>>]
    /\ UNCHANGED <<env, clientVars, netVars, threadVars, tickVars, intakeVars, history,
                   running, boots, emitted, holder, wire, wired, wrapped, watchVars, partial,
                   held, young, heard>>

\* resolve_store and ensure_store.
StoreFor(c) == StoreOf[env.value[c]]
Own(c) ==
    /\ At(c, "ensures")
    /\ LET n == StoreFor(c) IN
       IF ~store[n].open /\ n \in taken
       THEN /\ UNCHANGED store /\ Moves(c, "releases")
            /\ backlog' = [backlog EXCEPT ![c] = <<>>]
       ELSE /\ store' = [store EXCEPT ![n] = IF @.open THEN @ ELSE [Replayed(@) EXCEPT !.there = TRUE]]
            /\ Moves(c, "records") /\ UNCHANGED backlog
    /\ UNCHANGED <<env, budget, clientVars, netVars, threadVars, tickVars, pending, taken,
                   history, incusVars, watchVars, partial, held, young, heard>>

\* append, under the intake's mutex; its caller gives up on a failure.
Writes(c, pieces, then) ==
    LET n == StoreFor(c) IN
    IF pieces = <<>> THEN UNCHANGED <<budget, store>> /\ Moves(c, then)
    ELSE \E o \in Appended(store[n], Entry(env.value[c], pieces)) :
           /\ o.cost <= budget /\ budget' = budget - o.cost
           /\ store' = [store EXCEPT ![n] = o.store]
           /\ Moves(c, IF o.ok THEN then ELSE "releases")

\* Stamper::push: the lines that the pieces end, and what is left of the last.
Ended(ps) ==
    LET ends == {i \in DOMAIN ps : Kind(ps[i]) # "half"}
        upTo == Max(ends \cup {0})
    IN  [lines |-> SubSeq(ps, 1, upTo), rest |-> SubSeq(ps, upTo + 1, Len(ps))]

RecordBacklog(c) ==
    /\ At(c, "records")
    /\ LET out == Ended(backlog[c]) IN
       /\ Writes(c, out.lines, "streams")
       /\ partial' = [partial EXCEPT ![c] = out.rest]
    /\ backlog' = [backlog EXCEPT ![c] = <<>>]
    /\ UNCHANGED <<env, clientVars, netVars, threadVars, tickVars, pending, taken, history,
                   incusVars, watchVars, held, young, heard>>

\* A frame: of the first seconds it is held, of later ones written, with what was held.
\* Every half minute the ring, which holds it too, is emptied.
Stream(c) ==
    /\ At(c, "streams") /\ ~Stopping /\ wire[c].sent # <<>>
    /\ LET p == Head(wire[c].sent)
           out == Ended(Append(partial[c], p))
           next == {"streams"} \cup (IF env.keepRing \/ young[c] THEN {} ELSE {"consumes"})
       IN
       /\ partial' = [partial EXCEPT ![c] = out.rest]
       /\ heard' = [heard EXCEPT ![c] =
                      IF @ = "nothing" /\ Kind(p) = "error" THEN "error" ELSE "more"]
       /\ \E then \in next :
            IF out.lines = <<>> \/ young[c]
            THEN /\ held' = [held EXCEPT ![c] = @ \o out.lines]
                 /\ UNCHANGED <<budget, store>> /\ Moves(c, then)
            ELSE /\ held' = [held EXCEPT ![c] = <<>>]
                 /\ Writes(c, held[c] \o out.lines, then)
    /\ wire' = [wire EXCEPT ![c].sent = Tail(@)]
    /\ UNCHANGED <<env, clientVars, netVars, threadVars, tickVars, pending, taken, history,
                   running, boots, emitted, ring, holder, wired, wrapped, watchVars, backlog,
                   young>>

Consume(c) ==
    /\ At(c, "consumes") /\ Moves(c, "streams")
    /\ ring' = [ring EXCEPT ![c] = <<>>]
    /\ UNCHANGED <<intakeAllVars, running, boots, emitted, holder, wire, wired, wrapped,
                   watchVars, backlog, partial, held, young, heard>>

\* Two seconds go by; a refusal takes less.
Ages(c) ==
    /\ At(c, "streams") /\ young[c] /\ Refusal(c) \notin Range(wire[c].sent)
    /\ young' = [young EXCEPT ![c] = FALSE]
    /\ UNCHANGED <<intakeAllVars, incusVars, watchVars, tap, backlog, partial, held, heard>>

\* A read that fails is the end of the tap, with what it holds.
ReadFails(c) ==
    /\ At(c, "streams") /\ May("read") /\ Costs /\ Moves(c, "releases")
    /\ UNCHANGED <<env, clientVars, netVars, threadVars, tickVars, intakeVars, history,
                   incusVars, watchVars, backlog, partial, held, young, heard>>

\* The end of the stream, or a stop: what is held is written, with what the last line has,
\* unless all that came is one line that reads like a refusal.
CloseStream(c) ==
    /\ At(c, "streams") /\ (Stopping \/ (~wire[c].open /\ wire[c].sent = <<>>))
    /\ IF heard[c] = "error" THEN UNCHANGED <<budget, store>> /\ Moves(c, "releases")
       ELSE Writes(c, held[c] \o partial[c], "releases")
    /\ held' = [held EXCEPT ![c] = <<>>] /\ partial' = [partial EXCEPT ![c] = <<>>]
    /\ UNCHANGED <<env, clientVars, netVars, threadVars, tickVars, pending, taken, history,
                   incusVars, watchVars, backlog, young, heard>>

\* cancel_operation, on every way out; then another round, after a while.
Relinquish(c) ==
    /\ At(c, "releases") /\ Moves(c, "sleeps")
    /\ holder' = [holder EXCEPT ![c] = None] /\ wire' = [wire EXCEPT ![c] = Shut]
    /\ held' = [held EXCEPT ![c] = <<>>] /\ partial' = [partial EXCEPT ![c] = <<>>]
    /\ UNCHANGED <<intakeAllVars, running, boots, emitted, ring, wired, wrapped, watchVars,
                   backlog, young, heard>>

Wake(c) ==
    /\ At(c, "sleeps") /\ Moves(c, "reads")
    /\ UNCHANGED <<intakeAllVars, incusVars, watchVars, backlog, partial, held, young, heard>>

\* The tap is through, and the next event of its instance finds none.
Leaves(c) ==
    /\ At(c, "ends") /\ Moves(c, "off")
    /\ UNCHANGED <<intakeAllVars, incusVars, watchVars, backlog, partial, held, young, heard>>

------------------------------------------------------------------------------
\* The process ends, wherever its taps are: what they had reserved stays reserved.
TapsGone ==
    /\ tap' = Per("off") /\ backlog' = Per(<<>>) /\ partial' = Per(<<>>) /\ held' = Per(<<>>)
    /\ young' = Per(TRUE) /\ heard' = Per("nothing") /\ wire' = Per(Shut)
    /\ watch' = "lists" /\ events' = <<>>
    /\ UNCHANGED <<running, boots, emitted, ring, holder, wired, wrapped>>

Instance(c) == Emit(c) \/ Halt(c) \/ Boot(c) \/ HumanTakes(c) \/ HumanLeaves(c)
Tap(c) ==
    \/ ReadInstance(c) \/ Post(c) \/ Attach(c) \/ DrainRing(c) \/ Own(c) \/ RecordBacklog(c)
    \/ Stream(c) \/ Consume(c) \/ CloseStream(c) \/ Relinquish(c) \/ Wake(c) \/ Leaves(c)
Supervisor == List \/ Subscribe \/ Notice

ConsoleNext ==
    \/ \E c \in Clients : Instance(c) \/ Tap(c) \/ Ages(c) \/ ReadFails(c)
    \/ Supervisor
    \/ (Exit \/ Die) /\ TapsGone
    \/ /\ \/ \E c \in Clients : Client(c) \/ GiveUpEarly(c)
          \/ \E k \in Conns : Thread(k)
          \/ Maintenance \/ Stop \/ Restart
          \/ \E n \in Names : Declare(n) \/ Release(n)
       /\ UNCHANGED consoleVars

ConsoleSpec == ConsoleInit /\ [][ConsoleNext]_allVars

TapReady(c) ==
    /\ mpc # "down" /\ tap[c] # "off"
    /\ tap[c] = "streams" => wire[c].sent # <<>> \/ ~wire[c].open \/ Stopping
SupervisorReady == Lives /\ ((Console /\ watch # "watches") \/ events # <<>>)
FairConsole ==
    /\ ConsoleSpec /\ IntakeFairness
    /\ \A c \in Clients :
         /\ <>[]TapReady(c) => []<><<Tap(c)>>_allVars
         /\ <>[](holder[c] = "human") => []<><<HumanLeaves(c)>>_allVars
    /\ <>[]SupervisorReady => []<><<Supervisor>>_allVars

------------------------------------------------------------------------------
\* "The order here is the whole reliability argument."  Whatever an instance has put out
\* is in its store, or somewhere on the way to it, unless it left the ring before any
\* websocket was open: nothing falls between the two feeds, whenever a tap attaches, is
\* refused, or finds the instance gone, and whoever had the console before.
OnTheWay(c) == Range(ring[c]) \cup Range(wire[c].sent) \cup Range(backlog[c])
                  \cup Range(partial[c]) \cup Range(held[c])
Stored(c) ==
    LET s == store[StoreFor(c)] IN UNION {Range(e.parts) : e \in Range(s.chunks \o s.sap \o s.buf)}
OutputKept ==
    Console => \A c \in Clients : \A i \in 1 .. emitted[c] :
                  <<c, i>> \in wrapped \cup OnTheWay(c) \cup Stored(c)

\* Where it is what the code does: the process does not end (what taps hold is lost), no
\* store is another program's, no line reads like a refusal; a refusal finds no half line;
\* and the ring is emptied, where it is, for one life and of all that came before.
NoHalves(e) == \A c \in Clients : "half" \notin Range(e.output[c])
\* A tap may give up in the middle: what it held is still in the ring, which keeps it all.
Breaks(e) == "read" \in e.mishaps \/ "flush" \in e.troubles
RingKeepsAll(e) == e.keepRing /\ e.boots = 0 /\ \A c \in Clients : Len(e.output[c]) <= RingRoom

OutputUndisturbed ==
    \A e \in Environments : e.protocol = "console" =>
        /\ {"die", "stop"} \cap e.troubles = {} /\ ~e.retains
        /\ \A c \in Clients : StoreOf[e.value[c]] \notin e.taken /\ "error" \notin Range(e.output[c])
        /\ "refuse" \in e.mishaps => NoHalves(e)
        /\ Breaks(e) => NoHalves(e) /\ RingKeepsAll(e)
        /\ ~e.keepRing => "drain" \notin e.mishaps /\ e.boots = 0

\* Of spawn_tap and started_instance: an instance that runs on is tapped in the end,
\* however it was started and whoever uses its console for a while.
RunningIsTapped ==
    Console => \A c \in Clients :
                  <>[]running[c] => <>[](tap[c] \in {"streams", "consumes"} /\ wire[c].open)

\* Of run's last lines, "WAIT for the taps": a stop leaves no console reserved.
ConsolesReleased == (mpc = "down" /\ Console) => \A c \in Clients : holder[c] # "tap"
=============================================================================
