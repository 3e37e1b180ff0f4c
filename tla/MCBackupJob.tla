---------------------------- MODULE MCBackupJob -----------------------------
(* Three files, two of them names of one inode, copied by one subtask or   *)
(* by two that each have one of the names.                                 *)
EXTENDS BackupJob

OneOrTwo == { << {"a", "b", "c"} >>, << {"a", "c"}, {"b"} >> }
Pair == 1 :> <<"a", "b">>
Places == ("a" :> "d") @@ ("b" :> "e") @@ ("c" :> "d")
Repos == <<"meta", "ctrl">>
=============================================================================
