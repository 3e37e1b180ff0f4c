SPECIFICATION Spec
CONSTANTS
    Files = {"a", "b", "c"}
    Splits <- OneOrTwo
    Links <- Pair
    Small = {"a", "c"}
    DirOf <- Places
    BlobFiles = 2
    Formats = {"common", "shard", "dir"}
    Remote = {TRUE, FALSE}
    Parts <- Repos
    MaxFaults = 2
INVARIANT HonestManifest
INVARIANT ManifestLast
 
