SPECIFICATION FairSpec
CONSTANTS
    s1 = s1  s2 = s2
    None = None
    Tasks <- TwoScans
    Scans <- TwoScans
    MaxScanners = 1
    MaxSubtasks = 1
    ClientsLeave = TRUE
INVARIANT ReconciledIsFinal
 
PROPERTY FinalStays
PROPERTY Settles
CHECK_DEADLOCK FALSE
