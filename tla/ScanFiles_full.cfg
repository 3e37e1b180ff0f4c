SPECIFICATION FilesSpec
CONSTANTS
    MetaWriters = {1, 2}
    FilesOf <- Listings
    Inode <- Inodes
    Size <- Sizes
    Limit = 3
    Kinds = {"native", "remote"}
    MaxFaults = 2
INVARIANT FilesTypeOK
INVARIANT SoundEntries
 
