-------------------------- MODULE MCMirrorBackup ----------------------------
(* A root with a directory and one below it; every inode keeps its path.   *)
EXTENDS MirrorBackup

Fixed == (1 :> {<<>>}) @@ (2 :> {<<"p">>}) @@ (3 :> {<<"p", "q">>})

Old(p, data) ==
    [path |-> p, stamp |-> 1,
     files |-> [n \in Names |-> [data |-> data, time |-> data, read |-> FALSE]]]
Nested == (1 :> Old(<<>>, 0)) @@ (2 :> Old(<<"p">>, 1)) @@ (3 :> Old(<<"p", "q">>, 0))
Host == <<"src">>
=============================================================================
