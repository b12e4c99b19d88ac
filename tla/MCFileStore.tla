---------------------------- MODULE MCFileStore -----------------------------
(***************************************************************************)
(* The environments TLC checks FileStore under.  One behaviour meets one   *)
(* environment; a run checks several, and names the set of them.           *)
(***************************************************************************)
EXTENDS FileStore_proofs

Calm == [crashes |-> {}, faults |-> {}, roles |-> {"writer"}, operations |-> {}]

------------------------------------------------------------------------------
\* Recovery: what a store must come through with nothing acknowledged lost.  Processes
\* die while writes fail; power fails; every operation under a writer that never dies,
\* though its fsyncs fail; and atomic imports, which crash, fail and roll back.
Crashing ==
    [Calm EXCEPT !.crashes = {"process"}, !.faults = {"trunk", "rings", "create"},
                 !.operations = {"drop", "adopt", "wal_on"}]
LosingPower ==
    [Calm EXCEPT !.crashes = {"power"}, !.operations = {"drop", "adopt"}]
Untiring ==
    [Calm EXCEPT !.faults = {"sync", "create", "rebase"},
                 !.operations = OperationKinds]
Importing ==
    [Calm EXCEPT !.crashes = {"process"}, !.faults = {"trunk"}, !.roles = {"import"},
                 !.operations = {"wal_on", "wal_off"}]

Recovery == {Crashing, LosingPower, Untiring, Importing}

------------------------------------------------------------------------------
\* What a store comes to once failures stop.
Settling ==
    [Calm EXCEPT !.crashes = {"process"}, !.faults = {"create"},
                 !.operations = {"wal_on", "wal_off", "drop"}]

InTheEnd == {Settling}

------------------------------------------------------------------------------
\* Where the code does something else than its documents say: each environment
\* is the least in which TLC finds the property the configuration of the same
\* subject names violated.
WalOff == {[Calm EXCEPT !.crashes = {"process"}, !.operations = {"wal_off"}]}
CrashThenPower == {[Calm EXCEPT !.crashes = Deaths]}
Delivery == {[Calm EXCEPT !.crashes = {"process"}, !.roles = {"import"}]}
ResetThenCrash == {[Calm EXCEPT !.crashes = {"process"}, !.operations = {"reset"}]}
WalOnThenPower == {[Calm EXCEPT !.crashes = {"power"}, !.operations = {"wal_on"}]}
FsyncFails == {[Calm EXCEPT !.faults = {"sync"}]}
RecordFailsOnce == {[Calm EXCEPT !.faults = {"rings"}]}
ImportOverSegment == {[Calm EXCEPT !.crashes = {"process"}, !.roles = Programs]}
StaleBase ==
    {[Calm EXCEPT !.crashes = {"process"}, !.faults = {"rebase"}, !.operations = {"drop"}]}
==============================================================================
