---------------------------- MODULE MCRemoteCopy ----------------------------
(* A remote source /ds whose control paths begin with its name, and a      *)
(* local one /home/data whose control paths begin at its root.             *)
EXTENDS RemoteCopy

AllWays ==
    { NfsToNfs(FALSE), NfsToSmb, SmbToNfs(TRUE, FALSE), SmbToNfs(TRUE, TRUE),
      SmbToSmb(FALSE, TRUE), SmbToSmb(TRUE, FALSE) }

RemoteOrigin == [layout |-> "stripped", base |-> <<"ds">>, root |-> <<"ds">>]
RemoteDirs == {<<"ds", "a">>}
RemoteFiles == {<<"ds", "a", "c", "f">>, <<"ds", "f">>, <<"ds", "g">>}
RemoteSizes(n) == [f \in RemoteFiles |-> IF Len(f) = 4 THEN 3 ELSE n]
RemoteSources ==
    { [size |-> RemoteSizes(1), have |-> RemoteSizes(1), links |-> {}],
      [size |-> RemoteSizes(0), have |-> [RemoteSizes(0) EXCEPT ![<<"ds", "a", "c", "f">>] = 2], links |-> {}],
      [size |-> RemoteSizes(1), have |-> RemoteSizes(0), links |-> {<<"ds", "a", "c", "f">>}] }
RemoteGoneFiles == <<<<"ds", "b", "f">>, <<"ds", "b", "x">>>>
RemoteGoneDirs == {<<"ds", "b">>, <<"ds", "b", "c">>}
RemoteGroup == <<<<"ds", "f">>, <<"ds", "g">>>>
RemoteTimed == <<<<"ds">>, <<"ds", "a">>>>
RemoteOldDirs == {<<"b">>, <<"b", "c">>}
RemoteOldFiles == [p \in {<<"b", "f">>, <<"f">>} |-> 2]

LocalWays == {LocalToNfs(TRUE)}
LocalOrigin == [layout |-> "logical", base |-> <<"home", "data">>, root |-> <<>>]
LocalDirs == {}
LocalFiles == {<<"f">>}
LocalSize == [f \in LocalFiles |-> 1]
LocalSources == {[size |-> LocalSize, have |-> LocalSize, links |-> {}]}
LocalGoneFiles == <<<<"b", "f">>>>
LocalGoneDirs == {<<"b">>}
LocalGroup == <<<<"f">>>>
LocalTimed == <<>>
=============================================================================
