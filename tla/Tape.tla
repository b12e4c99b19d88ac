-------------------------------- MODULE Tape --------------------------------
(***************************************************************************)
(* What a timberfs store promises whoever writes to it (README, "The tape";*)
(* the contract src/src/store.rs is built to keep): an append-only tape    *)
(* that loses entries at two places only.  Retention drops from its head;  *)
(* a crash, or a delivery that is rolled back, cuts its tail, and never    *)
(* past what was reported durable.  Nothing in between disappears, comes   *)
(* back, or comes twice.                                                   *)
(***************************************************************************)
EXTENDS Naturals

CONSTANT MaxTape   \* bound: positions on the tape

VARIABLES
    content,   \* positions of the entries the tape holds
    end,       \* position the next entry gets
    durable    \* positions below survive any crash

vars == <<content, end, durable>>

Init ==
    /\ content = {}
    /\ end = 0
    /\ durable = 0

Append ==
    /\ end < MaxTape
    /\ content' = content \cup {end}
    /\ end' = end + 1
    /\ UNCHANGED durable

\* A durability point returns to its caller.
Harden ==
    /\ durable' = end
    /\ UNCHANGED <<content, end>>

\* Retention drops everything below n.
DropBelow(n) ==
    /\ content' = {p \in content : p >= n}
    /\ UNCHANGED <<end, durable>>

\* A crash or a rollback cuts the tape back to n.
CutBack(n) ==
    /\ content' = {p \in content : p < n}
    /\ end' = n
    /\ UNCHANGED durable

Next ==
    \/ Append
    \/ Harden
    \/ \E n \in 0 .. end : DropBelow(n)
    \/ \E n \in durable .. end : CutBack(n)

Spec == Init /\ [][Next]_vars

------------------------------------------------------------------------------
TypeOK ==
    /\ content \subseteq Nat
    /\ end \in Nat
    /\ durable \in Nat

\* The tape is one run of entries that stops at its end, and nothing reported
\* durable lies beyond that end.
OneRun ==
    /\ durable <= end
    /\ \E start \in 0 .. end : content = start .. end - 1
==============================================================================
