SPECIFICATION FairScanSpec
CONSTANTS
    Configs <- Settings
    MaxItems = 13
    MaxFaults = 1
INVARIANT NothingLost
INVARIANT CountNotOver
PROPERTY FilesSurvive
 
