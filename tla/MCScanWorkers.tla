---------------------------- MODULE MCScanWorkers ----------------------------
EXTENDS ScanWorkers, TLC

CONSTANTS r, a, b, c, w1, w2, w3, v1, v2

(* r has the subdirectories a and b, and a has c.                          *)
FourDirs == {r, a, b, c}
FourSubdirs == r :> {a, b} @@ a :> {c} @@ b :> {} @@ c :> {}
TwoRoots == {r, b}

OnlyB == {b}
OnlyC == {c}

ThreeWorkers == {w1, w2, w3}
TwoWriters == {v1, v2}
=============================================================================
