SPECIFICATION Spec
CONSTANTS
    Base = 4
    BufSize = 5
    DiskSize = 34
    MaximumSnaplen = 4
    DumpSnaplen = 2
    DumpLinktype = 1
    Packets <- MCPackets
    MaxPackets = 4
    Files <- MCFiles
    NgFiles <- MCNgFiles
    Ten = 3
    UintSize = 64
INVARIANTS ReadsWhatWasWritten FlushedSurvives WholeFileReadWhole NgFaithful
