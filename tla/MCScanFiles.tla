---------------------------- MODULE MCScanFiles -----------------------------
(* Three listings, two writers, a segment that holds a directory and one   *)
(* file, and two names of one inode in two directories.                    *)
EXTENDS ScanFiles, TLC

Listings == ("d" :> <<"a", "b">>) @@ ("e" :> <<"c">>) @@ ("g" :> <<>>)
Inodes == ("a" :> 2) @@ ("b" :> 1) @@ ("c" :> 2)
Sizes == ("a" :> 1) @@ ("b" :> 2) @@ ("c" :> 1) @@ ("d" :> 2) @@ ("e" :> 2) @@ ("g" :> 4)
=============================================================================
