--------------------------- MODULE MCScanOverSpill ---------------------------
(* Small settings of the queue: <<upper, lower, batch>>.  The setting of   *)
(* the queue's own example, one with another lower bound, and one with a   *)
(* batch smaller than half of the upper bound, as with the defaults of a   *)
(* scan: more items than a batch can wait in memory behind the files.      *)
EXTENDS ScanOverSpill

Settings == {<<3, 1, 2>>, <<4, 2, 2>>, <<3, 2, 1>>}
=============================================================================
