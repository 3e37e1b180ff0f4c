SPECIFICATION Spec
CONSTANTS
    Inodes = {1, 2, 3}
    Root = 1
    Names = {"f"}
    Places <- Fixed
    Tree0 <- Nested
    SourceBase <- Host
    Workers = 2
    MaxVersion = 3
    MaxRounds = 3
    MaxFaults = 1
 
INVARIANT TimesKept
 
