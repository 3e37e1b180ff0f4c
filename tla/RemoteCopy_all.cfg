SPECIFICATION FairSpec
CONSTANTS
    Ways <- AllWays
    Origin <- RemoteOrigin
    Dirs <- RemoteDirs
    Files <- RemoteFiles
    Sources <- RemoteSources
    GoneFiles <- RemoteGoneFiles
    GoneDirs <- RemoteGoneDirs
    Group <- RemoteGroup
    TimedDirs <- RemoteTimed
    OldDirs <- RemoteOldDirs
    OldFiles <- RemoteOldFiles
    Block = 2
    SmallSize = 1
    Conns = 1
    Permits = 2
    MaxRetries = 1
    JukeboxRetries = 1
    MaxFaults = 2
INVARIANT HonestCopy
INVARIANT CachedExist
 
 
PROPERTY CopyEnds
PROPERTY RemovesOnlyGone
