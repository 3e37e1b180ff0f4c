---------------------------- MODULE MCRestoreJob ----------------------------
(* A root and two directories in two shards; a file of two chunks, a file  *)
(* in a blob, a link, and a file whose backup failed.  The target has one  *)
(* older and one newer file.                                               *)
EXTENDS RestoreJob

Tree == << <<>>, <<"a">>, <<"a", "b">> >>
TreeTimes == [d \in {Tree[k] : k \in DOMAIN Tree} |-> 1]
Hashed == (<<>> :> 0) @@ (<<"a">> :> 1) @@ (<<"a", "b">> :> 0)

File(size, data, blob, link) ==
    [size |-> size, time |-> 2, data |-> data, blob |-> blob, link |-> link, held |-> TRUE]
Files ==
    (<<"f">> :> File(1, <<"f1", "f2">>, FALSE, FALSE)) @@
    (<<"a", "g">> :> File(2, <<"g1", "g2">>, FALSE, FALSE)) @@
    (<<"a", "l">> :> File(0, <<>>, FALSE, TRUE)) @@
    (<<"a", "b", "h">> :> File(1, <<"h1">>, TRUE, FALSE)) @@
    (<<"n">> :> [File(1, <<>>, FALSE, FALSE) EXCEPT !.held = FALSE])

Before ==
    (<<"f">> :> [data |-> <<"old">>, time |-> 1]) @@
    (<<"a", "g">> :> [data |-> <<"new", "new", "new">>, time |-> 3])

Asks == {{}, {<<"a">>, <<"f">>}, {<<"f">>, <<"a", "b", "h">>}, {<<"a", "b">>, <<"zz">>}}
NoRoot == <<>>
=============================================================================
