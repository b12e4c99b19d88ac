\* Readers of the live edge beside the writer.
SPECIFICATION FairTail
CONSTANTS
    MaxTape = 4
    MaxInode = 3
    MaxEntries = 2
    TailEnvironments <- ReadersBesideWriter
INVARIANTS
    ShownExactly
PROPERTIES
    EntriesArrive
