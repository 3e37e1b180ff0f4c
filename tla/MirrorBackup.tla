---------------------------- MODULE MirrorBackup ----------------------------
(***************************************************************************)
(* Incremental backups of a changing tree into one target, as the smoke    *)
(* test of incremental backups makes them: scan the source, compare with   *)
(* the metadata of the scan before (metadata/diff.rs), copy what is new or *)
(* changed (native/backup/local_copy.rs), then delete what is gone         *)
(* (delete.rs) and restore directory times (mtime.rs).  The source goes on *)
(* changing while it is scanned and copied.  A directory is known by its   *)
(* inode and has a path; a file is a name in a directory.                  *)
(***************************************************************************)
EXTENDS Naturals, Sequences, FiniteSets, SequencesExt

CONSTANTS
    Inodes, Root,   \* directories' inode numbers; the scanned root's
    Names,          \* file names (no directory has one of them)
    Places,         \* the paths a directory of each inode may be made at
    Tree0,          \* the source at the beginning
    SourceBase,     \* source_dir_base, as the path it has on the host
    Workers,        \* copy workers
    MaxVersion,     \* bound: changes of the source
    MaxRounds,      \* bound: backups
    MaxFaults       \* bound: errors

Paths == UNION {Prefixes(p) : p \in UNION {Places[i] : i \in Inodes}}
Times == 0 .. MaxVersion
(* A file's content, the second it was changed in, and whether its access  *)
(* time is of a later read.  A scan records the metadata, not the content. *)
Files == [data : 0 .. MaxVersion, time : Times, read : BOOLEAN]
Hash(f) == [time |-> f.time, read |-> f.read]
Hashes == {Hash(f) : f \in Files}
NoFile == [data |-> 0, time |-> 0, read |-> FALSE]
NoData == 0
Torn == MaxVersion + 1    \* content that is of no single version
Dir == [path : Paths, stamp : Times, files : [Names -> Files]]
Record == [path : Paths, stamp : Times, files : [Names -> Hashes]]

ASSUME TreeAssumption ==
    /\ Inodes \subseteq Nat /\ Root \in Inodes /\ IsFiniteSet(Inodes)
    /\ \A i \in Inodes : Places[i] \subseteq Seq(STRING)
    /\ Places[Root] = {<<>>}
    /\ Root \in DOMAIN Tree0 /\ DOMAIN Tree0 \subseteq Inodes
    /\ \A i \in DOMAIN Tree0 :
          /\ Tree0[i] \in Dir /\ Tree0[i].path \in Places[i]
          /\ \A q \in Prefixes(Tree0[i].path) : \E j \in DOMAIN Tree0 : Tree0[j].path = q
          /\ \A n \in Names : LET f == Tree0[i].files[n]
                             IN f = NoFile \/ (f.data # 0 /\ f.time # 0)
    /\ Names \cap {"dir", "times"} = {}   \* the marks of suspect directories
ASSUME BoundsAssumption ==
    /\ Workers \in Nat \ {0} /\ MaxVersion \in Nat \ {0}
    /\ {MaxRounds, MaxFaults} \subseteq Nat

VARIABLES
    tree,      \* the source: a record for each inode in use
    version,   \* the last change of the source
    second,    \* when it was made: times are kept in seconds
    phase,     \* what the backup is doing
    queue,     \* paths the scan has yet to visit
    prev, cur, \* what the last and the present scan recorded: dcache and fcache
    plan,      \* the copy control file's entries not yet reached
    jobs,      \* files handed to the copy workers
    open,      \* files being copied, each with the version it was opened at
    deletes,   \* the delete control file: files
    doomed,    \* and directories
    target,    \* the target tree, by path
    rounds,
    edited,    \* history: the source changed since the present scan began
    scanFault, \* history: the present scan met an error
    suspect,   \* history: what an error of a later phase may have left wrong,
               \* and files changed in the second a scan had recorded
    faults

sourceVars == <<tree, version, second, edited>>
scanVars == <<queue, prev, cur, scanFault, rounds>>
copyVars == <<plan, jobs, open>>
deleteVars == <<deletes, doomed>>
historyVars == <<suspect, faults>>
vars == <<sourceVars, phase, scanVars, copyVars, deleteVars, target, historyVars>>

(* A function with one more, or another, value.                            *)
With(t, x, v) == [y \in DOMAIN t \cup {x} |-> IF y = x THEN v ELSE t[y]]

Parent(p) == Front(p)
Entries(p) == {<<p, n>> : n \in Names}
DirsAt(t, p) == {i \in DOMAIN t : t[i].path = p}
(* A file in the source, as a scan recorded it, and in the target.         *)
InTree(p, n) == IF DirsAt(tree, p) = {} THEN NoFile
                ELSE tree[CHOOSE i \in DirsAt(tree, p) : TRUE].files[n]
InScan(t, p, n) == IF DirsAt(t, p) = {} THEN Hash(NoFile)
                   ELSE t[CHOOSE i \in DirsAt(t, p) : TRUE].files[n]
InTarget(t, p, n) == IF p \in DOMAIN t THEN t[p].files[n] ELSE NoData

Is(t, kind) ==
    /\ DOMAIN t \subseteq Inodes
    /\ \A i \in DOMAIN t : t[i] \in kind

TypeOK ==
    /\ Is(tree, Dir) /\ \A i, j \in DOMAIN tree : tree[i].path = tree[j].path => i = j
    /\ version \in 0 .. MaxVersion /\ second \in 0 .. version
    /\ phase \in {"idle", "scan", "copy", "delete", "times"}
    /\ queue \subseteq Paths
    /\ Is(prev, Record) /\ Is(cur, Record)
    /\ plan \in Seq([dir : Inodes, files : SUBSET Names])
    /\ jobs \subseteq Paths \X Names
    /\ DOMAIN open \subseteq Paths \X Names
    /\ \A f \in DOMAIN open : open[f] \in 1 .. MaxVersion
    /\ deletes \subseteq Paths \X Names
    /\ doomed \subseteq Paths
    /\ DOMAIN target \subseteq Paths
    /\ \A p \in DOMAIN target :
          /\ Prefixes(p) \subseteq DOMAIN target
          /\ target[p] \in [stamp : 0 .. MaxVersion, files : [Names -> 0 .. Torn]]
    /\ rounds \in 0 .. MaxRounds
    /\ edited \in BOOLEAN /\ scanFault \in BOOLEAN
    /\ suspect \subseteq Paths \X (Names \cup {"dir", "times"})
    /\ faults \in 0 .. MaxFaults

Empty == [stamp |-> 0, files |-> [n \in Names |-> NoData]]

Init ==
    /\ tree = Tree0
    /\ version = 1 /\ second = 1
    /\ phase = "idle"
    /\ queue = {} /\ prev = <<>> /\ cur = <<>>
    /\ plan = <<>> /\ jobs = {} /\ open = <<>>
    /\ deletes = {} /\ doomed = {}
    /\ target = [p \in {<<>>} |-> Empty]
    /\ rounds = 0
    /\ edited = FALSE /\ scanFault = FALSE /\ suspect = {} /\ faults = 0

Fault == faults < MaxFaults /\ faults' = faults + 1
-----------------------------------------------------------------------------
(* The source is changed by others, at any time: in the second of the      *)
(* change before, or later.  A directory's time changes with its entries.  *)
Edit(t, s) ==
    /\ version < MaxVersion
    /\ version' = version + 1
    /\ second' = s
    /\ tree' = t
    /\ edited' = TRUE
    /\ UNCHANGED <<phase, scanVars, copyVars, deleteVars, target, faults>>

Instants == {second, second + 1}

(* A scan has recorded the file with this second: the hash will not tell   *)
(* this change from the recorded one.                                      *)
Racy(i, n, s) == \E t \in {prev, cur} : i \in DOMAIN t /\ t[i].files[n].time = s

WriteFile(i, n, s) ==
    LET old == tree[i].files[n]
    IN /\ Edit([tree EXCEPT
            ![i].files[n] = [data |-> version + 1, time |-> s,
                             read |-> old.read /\ old.time = s],
            ![i].stamp = IF old = NoFile THEN s ELSE @], s)
       /\ suspect' = IF Racy(i, n, s) THEN suspect \cup {<<tree[i].path, n>>} ELSE suspect

RemoveFile(i, n, s) ==
    /\ tree[i].files[n] # NoFile
    /\ Edit([tree EXCEPT ![i].files[n] = NoFile, ![i].stamp = s], s)
    /\ UNCHANGED suspect

StampAt(t, p, s) ==
    [i \in DOMAIN t |-> IF t[i].path = p THEN [t[i] EXCEPT !.stamp = s] ELSE t[i]]

MakeDir(i, p, s) ==
    /\ i \notin DOMAIN tree
    /\ DirsAt(tree, p) = {} /\ DirsAt(tree, Parent(p)) # {}
    /\ Edit(With(StampAt(tree, Parent(p), s), i,
                 [path |-> p, stamp |-> s, files |-> [n \in Names |-> NoFile]]), s)
    /\ UNCHANGED suspect

(* rm -r of a directory without subdirectories.                            *)
RemoveDir(i, s) ==
    /\ i # Root
    /\ \A j \in DOMAIN tree : ~IsStrictPrefix(tree[i].path, tree[j].path)
    /\ Edit(Restrict(StampAt(tree, Parent(tree[i].path), s), DOMAIN tree \ {i}), s)
    /\ UNCHANGED suspect

ChangeSource == \E s \in Instants :
    \/ \E i \in DOMAIN tree, n \in Names : WriteFile(i, n, s) \/ RemoveFile(i, n, s)
    \/ \E i \in Inodes : \E p \in Places[i] : MakeDir(i, p, s)
    \/ \E i \in DOMAIN tree : RemoveDir(i, s)
-----------------------------------------------------------------------------
(* A scan with the last one's metadata as prev_meta_dir.                   *)
StartScan ==
    /\ phase = "idle" /\ rounds < MaxRounds
    /\ phase' = "scan"
    /\ rounds' = rounds + 1
    /\ prev' = cur /\ cur' = <<>>
    /\ queue' = {<<>>}
    /\ edited' = FALSE /\ scanFault' = FALSE
    /\ UNCHANGED <<tree, version, second, copyVars, deleteVars, target, historyVars>>

Subdirs(p) == {tree[j].path : j \in {k \in DOMAIN tree : tree[k].path # <<>>
                                                          /\ Parent(tree[k].path) = p}}

Recorded(i, unseen) ==
    cur' = With(cur, i, [tree[i] EXCEPT !.files =
                            [n \in Names |-> Hash(IF n \in unseen THEN NoFile ELSE @[n])]])

(* process_dir_entry: a directory that cannot be read (or has gone) is not *)
(* recorded, one that cannot be listed is recorded empty, a file that      *)
(* cannot be read is left out.                                             *)
ScanDir(p) ==
    /\ phase = "scan" /\ p \in queue
    /\ \/ /\ DirsAt(tree, p) = {}
          /\ queue' = queue \ {p}
          /\ UNCHANGED <<cur, scanFault, faults>>
       \/ \E i \in DirsAt(tree, p) :
             /\ Recorded(i, {})
             /\ queue' = (queue \ {p}) \cup Subdirs(p)
             /\ UNCHANGED <<scanFault, faults>>
       \/ /\ Fault /\ scanFault' = TRUE
          /\ \/ queue' = queue \ {p} /\ UNCHANGED cur
             \/ \E i \in DirsAt(tree, p) : Recorded(i, Names) /\ queue' = queue \ {p}
             \/ \E i \in DirsAt(tree, p), n \in Names :
                   /\ Recorded(i, {n})
                   /\ queue' = (queue \ {p}) \cup Subdirs(p)
    /\ UNCHANGED <<sourceVars, phase, prev, rounds, copyVars, deleteVars, target, suspect>>
-----------------------------------------------------------------------------
(* IncrementalDiff.  The cache of an unreadable directory of the present   *)
(* scan (unread) is taken for an empty one.                                *)
Absent == Hash(NoFile)
Listing(i, unread) == IF i \in unread THEN [n \in Names |-> Absent] ELSE cur[i].files

(* Faulty variant: files are compared by name only.                        *)
ToCopy_NoHash(i, unread) ==
    {n \in Names : Listing(i, unread)[n] # Absent
                    /\ (i \in DOMAIN prev => prev[i].files[n] = Absent)}

(* Faulty variant: every file of a directory is copied.                    *)
ToCopy_All(i, unread) == {n \in Names : Listing(i, unread)[n] # Absent}

(* diff_directory_files and write_all_directory_files: the new files and   *)
(* those whose hash has changed.                                           *)
ToCopy(i, unread) ==
    {n \in Names : Listing(i, unread)[n] # Absent
                    /\ (i \in DOMAIN prev => prev[i].files[n] # Listing(i, unread)[n])}

ToDelete(i, unread) ==
    {n \in Names : prev[i].files[n] # Absent /\ Listing(i, unread)[n] = Absent}

(* A directory in both caches has an entry if its metadata or a file       *)
(* differ; the hash covers its path and times.                             *)
HasEntry(i, unread) ==
    \/ i \notin DOMAIN prev
    \/ prev[i].path # cur[i].path \/ prev[i].stamp # cur[i].stamp
    \/ ToCopy(i, unread) \cup ToDelete(i, unread) # {}

(* heap_diff: the caches are gone through by inode number.                 *)
Ascending(S) == {order \in Surjection(1 .. Cardinality(S), S) :
                    \A j, k \in 1 .. Cardinality(S) : j < k => order[j] < order[k]}

(* generate_control_files, when the scan is complete.                      *)
Diff(unread) ==
    /\ \E order \in Ascending({i \in DOMAIN cur : HasEntry(i, unread)}) :
          plan' = [k \in DOMAIN order |-> [dir |-> order[k], files |-> ToCopy(order[k], unread)]]
    /\ deletes' = UNION {{<<cur[i].path, n>> : n \in ToDelete(i, unread)} :
                            i \in DOMAIN prev \cap DOMAIN cur}
    /\ doomed' = {prev[i].path : i \in DOMAIN prev \ DOMAIN cur}

PlanBackup ==
    /\ phase = "scan" /\ queue = {}
    /\ \/ Diff({}) /\ UNCHANGED historyVars
       \/ \E i \in DOMAIN cur :
             /\ Fault /\ Diff({i})
             /\ suspect' = suspect \cup Entries(cur[i].path)
    /\ phase' = "copy"
    /\ UNCHANGED <<sourceVars, scanVars, jobs, open, target>>
-----------------------------------------------------------------------------
(* What an entry made or removed does to the time of its directory.        *)
Touched(t, p) == IF p \in DOMAIN t THEN [t EXCEPT ![p].stamp = 0] ELSE t

(* create_dir_all.                                                         *)
WithDir(t, p) ==
    LET missing == Prefixes(p) \ DOMAIN t
        parents == {Parent(q) : q \in missing}
    IN [q \in DOMAIN t \cup missing |->
          IF q \in missing THEN Empty
          ELSE IF q \in parents THEN [t[q] EXCEPT !.stamp = 0] ELSE t[q]]

WithFile(t, p, n, v) ==
    [IF t[p].files[n] = NoData THEN Touched(t, p) ELSE t EXCEPT ![p].files[n] = v]

(* The producer reaches the next directory entry: it makes the directory,  *)
(* restores its metadata, and sends its files to the workers.  A failure   *)
(* is recorded and does not keep it from sending them.                     *)
ProduceDir ==
    /\ phase = "copy" /\ plan # <<>>
    /\ LET i == Head(plan).dir
           p == cur[i].path
       IN /\ jobs' = jobs \cup {<<p, n>> : n \in Head(plan).files}
          /\ \/ /\ target' = [WithDir(target, p) EXCEPT ![p].stamp = cur[i].stamp]
                /\ suspect' = suspect \ {<<p, "dir">>} /\ UNCHANGED faults
             \/ Fault /\ suspect' = suspect \cup {<<p, "dir">>} /\ UNCHANGED target
    /\ plan' = Tail(plan)
    /\ UNCHANGED <<sourceVars, phase, scanVars, open, deleteVars>>

(* A worker takes a file: it makes the directory, opens the source file,   *)
(* and truncates or creates the target file.  Reading may set the access   *)
(* time of the source file, as the file system is mounted.                 *)
OpenFile(f) ==
    LET p == f[1]
        n == f[2]
        found == InTree(p, n)
        read == [i \in DOMAIN tree |-> IF tree[i].path # p THEN tree[i]
                                       ELSE [tree[i] EXCEPT !.files[n].read = TRUE]]
    IN /\ f \in jobs /\ Cardinality(DOMAIN open) < Workers
       /\ jobs' = jobs \ {f}
       /\ \/ /\ found # NoFile
             /\ open' = With(open, f, found.data)
             /\ tree' \in {tree, read}
             /\ target' = WithFile(WithDir(target, p), p, n, Torn)
             /\ UNCHANGED historyVars
          \/ /\ found = NoFile
             /\ target' = WithDir(target, p)
             /\ UNCHANGED <<tree, open, historyVars>>
          \/ /\ Fault /\ suspect' = suspect \cup {f}
             /\ UNCHANGED <<tree, open, target>>
       /\ UNCHANGED <<version, second, edited, phase, scanVars, plan, deleteVars>>

(* The copy ends.  If the source file was changed meanwhile the content    *)
(* may be of neither version.                                              *)
CloseFile(f) ==
    /\ f \in DOMAIN open
    /\ open' = Restrict(open, DOMAIN open \ {f})
    /\ \/ /\ \E v \in {open[f], Torn} :
                /\ v = Torn => InTree(f[1], f[2]).data # open[f]
                /\ target' = WithFile(target, f[1], f[2], v)
                /\ suspect' = IF v = InTree(f[1], f[2]).data THEN suspect \ {f} ELSE suspect
          /\ UNCHANGED faults
       \/ Fault /\ suspect' = suspect \cup {f} /\ UNCHANGED target
    /\ UNCHANGED <<sourceVars, phase, scanVars, plan, jobs, deleteVars>>

(* Faulty variant: directory times are restored before the delete phase.   *)
PhaseAfter_TimesFirst == [copy |-> "times", times |-> "delete", delete |-> "idle"]

(* run_local_followup_phases.                                              *)
PhaseAfter == [copy |-> "delete", delete |-> "times", times |-> "idle"]

JoinWorkers ==
    /\ phase = "copy" /\ plan = <<>> /\ jobs = {} /\ open = <<>>
    /\ phase' = PhaseAfter["copy"]
    /\ UNCHANGED <<sourceVars, scanVars, copyVars, deleteVars, target, historyVars>>
-----------------------------------------------------------------------------
(* process_deletes takes the source's own path off the front of a file's   *)
(* path, which is already relative to the source.                          *)
DeletePlace(p) ==
    IF SourceBase # <<>> /\ IsPrefix(SourceBase, p)
    THEN SubSeq(p, Len(SourceBase) + 1, Len(p)) ELSE p

DeleteFile(f) ==
    LET p == DeletePlace(f[1])
    IN /\ phase = "delete" /\ f \in deletes
       /\ deletes' = deletes \ {f}
       /\ \/ /\ target' = IF InTarget(target, p, f[2]) = NoData THEN target
                          ELSE Touched([target EXCEPT ![p].files[f[2]] = NoData], p)
             /\ UNCHANGED historyVars
          \/ Fault /\ suspect' = suspect \cup {f} /\ UNCHANGED target
       /\ UNCHANGED <<sourceVars, phase, scanVars, copyVars, doomed>>

Below(p) == {q \in DOMAIN target : IsPrefix(p, q)}

(* remove_dir, and remove_dir_all if it is not empty.                      *)
Without(t, p) == Touched(Restrict(t, DOMAIN t \ Below(p)), Parent(p))

(* Directories are removed after the files, the deepest first.             *)
DeleteDir(p) ==
    /\ phase = "delete" /\ deletes = {}
    /\ p \in doomed /\ \A q \in doomed : ~IsStrictPrefix(p, q)
    /\ doomed' = doomed \ {p}
    /\ \/ /\ target' = IF p \in DOMAIN target THEN Without(target, p) ELSE target
          /\ UNCHANGED historyVars
       \/ /\ Fault /\ UNCHANGED target
          /\ suspect' = suspect \cup Below(p) \X (Names \cup {"dir"})
    /\ UNCHANGED <<sourceVars, phase, scanVars, copyVars, deletes>>

EndDeletes ==
    /\ phase = "delete" /\ deletes = {} /\ doomed = {}
    /\ phase' = PhaseAfter["delete"]
    /\ UNCHANGED <<sourceVars, scanVars, copyVars, deleteVars, target, historyVars>>

(* process_mtime: the mtime control file has every directory of the scan.  *)
RestoreTimes ==
    /\ phase = "times"
    /\ \E failed \in SUBSET DOMAIN cur :
          /\ \/ failed = {} /\ UNCHANGED faults
             \/ Cardinality(failed) = 1 /\ Fault
          /\ target' = [p \in DOMAIN target |->
                [target[p] EXCEPT !.stamp =
                    IF \E i \in DOMAIN cur \ failed : cur[i].path = p
                    THEN cur[CHOOSE i \in DOMAIN cur \ failed : cur[i].path = p].stamp
                    ELSE @]]
          /\ suspect' = (suspect \ (Paths \X {"times"}))
                           \cup {<<cur[i].path, "times">> : i \in failed}
    /\ phase' = PhaseAfter["times"]
    /\ UNCHANGED <<sourceVars, scanVars, copyVars, deleteVars>>
-----------------------------------------------------------------------------
Backup ==
    \/ StartScan \/ PlanBackup \/ ProduceDir \/ JoinWorkers \/ EndDeletes \/ RestoreTimes
    \/ \E p \in queue : ScanDir(p)
    \/ \E f \in jobs : OpenFile(f)
    \/ \E f \in DOMAIN open : CloseFile(f)
    \/ \E f \in deletes : DeleteFile(f)
    \/ \E p \in doomed : DeleteDir(p)

Finished == phase = "idle" /\ rounds = MaxRounds /\ UNCHANGED vars

Next == ChangeSource \/ Backup \/ Finished

Spec == Init /\ [][Next]_vars
-----------------------------------------------------------------------------
(* After a backup whose scan met no error, and if nobody has changed the   *)
(* source since it began, the target is the source: the same directories,  *)
(* the same files in the same versions, whatever was changed during        *)
(* earlier scans and copies.  Only what an error of a copy or deletion     *)
(* left behind, then or earlier, and what was changed again in the very    *)
(* second a scan had recorded for it, may differ.                          *)
MirrorsTree ==
    phase = "idle" /\ rounds > 0 /\ ~edited /\ ~scanFault =>
        \A p \in Paths :
            /\ <<p, "dir">> \notin suspect =>
                  (p \in DOMAIN target <=> DirsAt(tree, p) # {})
            /\ \A n \in Names :
                  <<p, n>> \notin suspect => InTarget(target, p, n) = InTree(p, n).data

(* Copying and deleting files changes the times of the directories they    *)
(* are in; the phases' order repairs that: when a backup has ended every   *)
(* directory has the time its scan recorded, unless setting it failed.     *)
TimesKept ==
    phase = "idle" =>
        \A i \in DOMAIN cur :
            LET p == cur[i].path
            IN p \in DOMAIN target /\ <<p, "times">> \notin suspect =>
                  target[p].stamp = cur[i].stamp

(* A backup only touches what its scan found changed since the last one    *)
(* (but for the suspect paths, left behind by errors or by a change within *)
(* a recorded second): a file that is unchanged is neither copied nor      *)
(* removed.                                                                *)
OnlyChanges ==
    [][\A p \in Paths, n \in Names :
          InTarget(target, p, n) # InTarget(target', p, n) =>
              InScan(prev, p, n) # InScan(cur, p, n) \/ <<p, n>> \in suspect']_vars

=============================================================================
