---------------------------- MODULE MCAsyncCopy -----------------------------
(* A small plan: a directory, a link, a file of two blocks and small files *)
(* of one unit, in two directories, whose hashes give one or two shards.   *)
EXTENDS AsyncCopy

SmallFiles == {"a", "b", "c"}
TwoBlocks == [f \in {"big"} |-> 2]
OneUnit == [f \in SmallFiles |-> 1]
Hashes == [f \in SmallFiles |-> IF f = "b" THEN 1 ELSE 0]
=============================================================================
