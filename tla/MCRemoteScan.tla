---------------------------- MODULE MCRemoteScan ----------------------------
(* Four directories on three levels and four files, one on a second page.  *)
(* The filter sets: none; one that excludes a subtree and a file; one that *)
(* includes a file deep in the tree and a directory, by wildcards.         *)
EXTENDS RemoteScan, TLC

R == <<>>
A == <<"a">>
AC == <<"a", "c">>
B == <<"b">>
TreeDirs == {R, A, AC, B}
TreeFiles == {<<"a", "f">>, <<"a", "c", "f">>, <<"b", "g">>, <<"f">>}
PagesOf == [p \in (TreeDirs \cup TreeFiles) \ {R} |-> IF p \in {B, <<"a", "f">>} THEN 2 ELSE 1]
Names == {"a", "b", "c", "f", "g"}
None == [incDirs |-> {}, incFiles |-> {}, excDirs |-> {}, excFiles |-> {}]
Excludes == [None EXCEPT !.excDirs = {<<Names, {"c"}>>}, !.excFiles = {<<{"f"}>>}]
Includes == [None EXCEPT !.incFiles = {<<Names, Names, {"f"}>>}, !.incDirs = {<<{"b"}>>}]
FilterSets == {None, Excludes, Includes}
HiddenFile == {<<"b", "g">>}
=============================================================================
