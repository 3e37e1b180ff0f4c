SPECIFICATION Spec
CONSTANTS
    Dirs <- TreeDirs
    Files <- TreeFiles
    PageOf <- PagesOf
    Hidden <- HiddenFile
    MaxDepth = 2
    Filters <- FilterSets
    Kinds = {"nfs", "smb"}
    Formats = {"csv", "json"}
    Tasks = {t1, t2}
    Writers = {w1}
    ChanCap = 1
    QueueCap = 1
    MaxFaults = 1
INVARIANT Exhaustive
INVARIANT LogKeepsRecords
PROPERTY ScanReturns
