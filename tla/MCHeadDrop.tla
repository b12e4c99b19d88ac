----------------------------- MODULE MCHeadDrop -----------------------------
(***************************************************************************)
(* The environments TLC checks HeadDrop under.  One behaviour meets one    *)
(* environment; a run checks several, and names the set of them.           *)
(***************************************************************************)
EXTENDS HeadDrop_proofs

Calm ==
    [lens |-> {1, 3}, maxChunks |-> 3, maxLock |-> 3, collapsible |-> TRUE,
     mayEmpty |-> FALSE, crashes |-> {}, readers |-> {}]

------------------------------------------------------------------------------
\* The writer alone: drops of every size with crashes between an append's two
\* writes, and crashes anywhere in a collapse.
Dropping == [Calm EXCEPT !.maxChunks = 4, !.maxLock = 5, !.mayEmpty = TRUE, !.crashes = {"append"}]
DyingInCollapse == [Calm EXCEPT !.maxChunks = 4, !.maxLock = 5, !.crashes = {"collapse"}]

WriterAlone == {Dropping, DyingInCollapse}

------------------------------------------------------------------------------
\* A reader in another process: beside a writer that collapses and dies, beside
\* one whose file system cannot collapse, so that every drop swaps the pair by
\* rename, and one that finishes the drop of a writer that died in it.  The last
\* reconciles beside a running writer and reads nothing: it takes the staged index
\* away, and the writer must not get stuck over that.
ReadBesideCollapse == [Calm EXCEPT !.crashes = {"collapse"}, !.readers = {"read"}]
ReadBesideRewrite ==
    [Calm EXCEPT !.lens = {2}, !.collapsible = FALSE, !.mayEmpty = TRUE, !.readers = {"read"}]
ReconcileTheDead ==
    [Calm EXCEPT !.lens = {3}, !.crashes = {"collapse"}, !.readers = {"read", "reconcile", "alone"}]

ReconcileBesideWriter == [Calm EXCEPT !.mayEmpty = TRUE, !.readers = {"reconcile"}]

WithReaders ==
    {ReadBesideCollapse, ReadBesideRewrite, ReconcileTheDead, ReconcileBesideWriter}

EveryEnvironment == WriterAlone \cup WithReaders
------------------------------------------------------------------------------
\* Where the code does something else than its comments say: each environment
\* is the least in which TLC finds the property the configuration of the same
\* subject names violated.
StaleIndex == {[Calm EXCEPT !.readers = {"read"}]}
DyingInRemove == {[Calm EXCEPT !.collapsible = FALSE, !.crashes = {"remove"}]}
OrphanFrame == {[Calm EXCEPT !.crashes = {"append", "collapse"}]}
Emptied ==
    {[Calm EXCEPT !.lens = {1, 5}, !.maxLock = 5, !.mayEmpty = TRUE, !.crashes = {"collapse"}]}
==============================================================================
