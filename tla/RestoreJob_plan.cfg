SPECIFICATION JobSpec
CONSTANTS
    DirOrder <- Tree
    DirTime <- TreeTimes
    Copy <- Files
    SourceName = "src"
    LogicalRoot <- NoRoot
    ShardOf <- Hashed
    EntryLimit = 3
    Permits = 2
    Requests <- Asks
    Remote = {TRUE, FALSE}
    Policies = {"Replace", "Skip", "KeepNewer"}
    Existing <- Before
    Now = 9
    MaxFaults = 1
 
INVARIANT DirTimesKept
 
