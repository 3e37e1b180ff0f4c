SPECIFICATION FairSpec
CONSTANTS
    Dirs = {"dir"}
    Links = {"link"}
    Small <- SmallFiles
    Large = {"big"}
    Blocks <- TwoBlocks
    Size <- OneUnit
    Hash <- Hashes
    DirOf <- Hashes
    Layouts = {"Shard", "DirLevel"}
    Shards = 2
    MaxBlob = 2
    Permits = 2
    MaxAttempts = 2
    MaxFaults = 3
INVARIANT CopiedKept
INVARIANT Restorable
PROPERTY PipelineEnds
