SPECIFICATION Spec
CONSTANTS
    Ways <- LocalWays
    Origin <- LocalOrigin
    Dirs <- LocalDirs
    Files <- LocalFiles
    Sources <- LocalSources
    GoneFiles <- LocalGoneFiles
    GoneDirs <- LocalGoneDirs
    Group <- LocalGroup
    TimedDirs <- LocalTimed
    OldDirs <- RemoteOldDirs
    OldFiles <- RemoteOldFiles
    Block = 2
    SmallSize = 1
    Conns = 1
    Permits = 2
    MaxRetries = 1
    JukeboxRetries = 1
    MaxFaults = 0
PROPERTY RemovesOnlyGone
