SPECIFICATION FairSpec
CONSTANTS
    r = r  a = a  b = b  c = c
    w1 = w1  w2 = w2  w3 = w3  v1 = v1  v2 = v2
    None = None
    Dirs <- FourDirs
    Subdirs <- FourSubdirs
    Roots <- TwoRoots
    Pruned <- OnlyB
    Unemitted <- OnlyC
    Workers <- ThreeWorkers
    Writers <- TwoWriters
    Capacity = 1
    WritersPanic = TRUE
INVARIANT NeverStranded
INVARIANT Accounted
INVARIANT Exhaustive
 
CHECK_DEADLOCK FALSE
