----------------------------- MODULE RemoteCopy -----------------------------
(***************************************************************************)
(* A backup whose target is an NFS export or an SMB share                  *)
(* (backup/aio/orchestrator.rs, nfs/backup, smb/backup): what one task     *)
(* does for one directory or file down to the calls of the servers, the    *)
(* cache of directories and the pool of connections that tasks share, and  *)
(* then the hardlink, delete and mtime phases.  AsyncCopy has the channel, *)
(* the semaphore and the aggregating target; here a file for the latter is *)
(* only handed over.  The directory of the target prefix is <<>>.          *)
(***************************************************************************)
EXTENDS Naturals, Sequences, FiniteSets, SequencesExt

CONSTANTS
    Ways,        \* pairings of source and target
    Origin,      \* base and root: paths of the source and of the control files; layout
    Dirs, Files, \* of the copy control file: sequences of names
    Sources,     \* choices of the files: units when scanned, units by now, symbolic links
    GoneFiles, GoneDirs,  \* the delete control file: a sequence, a set
    Group,       \* the hardlink control file: one group
    TimedDirs,   \* the mtime control file: a sequence
    OldDirs, OldFiles,    \* on the target before: a set of paths, path to length
    Block,       \* units in a block
    SmallSize,   \* of a file that is aggregated
    Conns, Permits,
    MaxRetries, JukeboxRetries,
    MaxFaults    \* bound: failing calls

Items == Dirs \cup Files

(* The pipelines.  handles: the NFS server returns the handle of what it   *)
(* creates; agg: small files are aggregated; share: both ends of a         *)
(* streamed copy are on one share.  In the pipelines from a local or NFS   *)
(* source it is the target itself that aggregates.                         *)
Way(reader, t, handles, agg, share) ==
    [reader |-> reader, target |-> t, handles |-> handles, agg |-> agg, share |-> share]

LocalToNfs(handles) == Way("source", "nfs", handles, FALSE, FALSE)
NfsToNfs(handles) == Way("source", "nfs", handles, FALSE, FALSE)
NfsToSmb == Way("source", "smb", TRUE, FALSE, FALSE)
LocalToSmb == Way("source", "smb", TRUE, FALSE, FALSE)
SmbToNfs(handles, agg) == Way("smb", "nfs", handles, agg, FALSE)
SmbToSmb(agg, share) == Way("stream", "smb", TRUE, agg, share)

ASSUME WaysAssumption ==
    \A w \in Ways :
        \/ w \in {LocalToSmb, NfsToSmb}
        \/ \E b \in BOOLEAN : w \in {LocalToNfs(b), NfsToNfs(b)}
        \/ \E a, b \in BOOLEAN : w \in {SmbToNfs(a, b), SmbToSmb(a, b)}

ASSUME TreeAssumption ==
    /\ Dirs \cap Files = {} /\ ToSet(Group) \subseteq Files /\ Len(Group) > 0
    /\ OldFiles \in [DOMAIN OldFiles -> Nat]
    /\ GoneFiles \in Seq(ToSet(GoneFiles))
    /\ \A s \in Sources : /\ {s.size, s.have} \subseteq [Files -> Nat] /\ s.links \subseteq Files
                          /\ \A f \in ToSet(Group) : s.size[f] = s.size[Group[1]]  \* one inode

ASSUME BoundsAssumption ==
    /\ {Block, Conns, Permits} \subseteq Nat \ {0}
    /\ {SmallSize, MaxRetries, JukeboxRetries, MaxFaults} \subseteq Nat

VARIABLES
    way, source,   \* fixed by Init
    dirs, data,    \* the target: its directories, and of each file its units
    cache,         \* dir_cache: directories known to exist
    task,          \* of each item: what its task is at
    turn, holder,  \* NFS: the pool's next, and the call each connection is locked for
    given,         \* files handed over to the aggregating target
    phase, at, left, timed,  \* post-copy: the entry at hand, directories to go, and with their times
    faults

config == <<way, source>>
target == <<dirs, data>>
pool == <<turn, holder>>
post == <<phase, at, left, timed>>
vars == <<config, target, cache, task, pool, given, post, faults>>

Nobody == <<>>
Fault == faults < MaxFaults /\ faults' = faults + 1
NoFault == UNCHANGED faults
-----------------------------------------------------------------------------
(* Paths.                                                                  *)
Parent(p) == Front(p)

Strip(base, p) == SubSeq(p, Len(base) + 1, Len(p))

(* Where the copy puts an entry: a local source's control paths are taken  *)
(* as they are, those of a remote one without its root.                    *)
MapControl(p) ==
    IF Origin.layout = "logical" \/ ~ IsPrefix(Origin.root, p) THEN p ELSE Strip(Origin.root, p)

(* Faulty variant: under its last name only.                               *)
TargetRelative_Last(p) == <<Last(p)>>

(* Where the phases look for an entry: the path under the base, or all of  *)
(* it if it starts with the base's own name, or else its last name alone.  *)
TargetRelative(p) ==
    IF IsPrefix(Origin.base, p) THEN Strip(Origin.base, p)
    ELSE IF Origin.base # <<>> /\ Last(Origin.base) = Head(p) THEN p
    ELSE <<Last(p)>>

ASSUME PlaceAssumption ==  \* no file is where a directory or another file is to be
    /\ \A i \in Items, p \in DOMAIN OldFiles : ~ IsStrictPrefix(p, MapControl(i)) /\ (i \in Dirs => p # MapControl(i))
    /\ \A f, g \in Files : MapControl(f) = MapControl(g) => f = g

ASSUME PathAssumption ==   \* entries are paths, and files lie in directories
    /\ <<>> \notin Files
    /\ Items \cup GoneDirs \cup OldDirs \cup DOMAIN OldFiles \subseteq Seq(STRING)
    /\ {GoneFiles, Group, TimedDirs} \subseteq Seq(Seq(STRING))
    /\ {Origin.base, Origin.root} \subseteq Seq(STRING)
    /\ \A p \in DOMAIN OldFiles : Parent(p) \in OldDirs \cup {<<>>}

(* Units of files: the i-th of a source file, what was there before, and   *)
(* what no write has reached.                                              *)
Unit(f, i) == <<f, i>>
OldUnits(n) == [i \in 1 .. n |-> <<<<"old">>, i>>]
Hole == <<<<"hole">>, 0>>

WriteAt(s, off, units) ==
    LET end == off + Len(units)
    IN [i \in 1 .. (IF Len(s) < end THEN end ELSE Len(s)) |->
            IF i > off /\ i <= end THEN units[i - off]
            ELSE IF i <= Len(s) THEN s[i] ELSE Hole]
-----------------------------------------------------------------------------
(* Tasks.  seg counts the segments of the directory known to exist, off    *)
(* the units done, buf those of the block, put those of it written.        *)
NewTask == [st |-> "todo", op |-> "none", seg |-> 0, off |-> 0, buf |-> 0, put |-> 0,
            try |-> 0, jukebox |-> 0, conn |-> 0]

Running(i) == task[i].st = "run"
Op(i, op) == Running(i) /\ task[i].op = op
Ended(i) == task[i].st \notin {"todo", "run"}
Settle(i, st) == task' = [task EXCEPT ![i] = [NewTask EXCEPT !.st = st]]
Go(i, op) == task' = [task EXCEPT ![i].op = op]

Tree(i) == IF i \in Dirs THEN MapControl(i) ELSE Parent(MapControl(i))  \* what is ensured
Next_(i) == SubSeq(Tree(i), 1, task[i].seg + 1)                          \* the next segment

Streams(i) == way.reader = "stream" /\ ~ (way.agg /\ source.size[i] <= SmallSize)
Gathers(i) == way.reader # "source" /\ way.agg /\ source.size[i] <= SmallSize

Init ==
    /\ way \in Ways /\ source \in Sources
    /\ dirs = OldDirs /\ data = [p \in DOMAIN OldFiles |-> OldUnits(OldFiles[p])]
    /\ cache = {} /\ task = [i \in Items |-> NewTask]
    /\ turn = 1 /\ holder = [c \in 1 .. Conns |-> Nobody]
    /\ given = {} /\ phase = "copy" /\ at = 1 /\ left = GoneDirs /\ timed = {}
    /\ faults = 0

(* A task takes a permit.  Plain SMB to SMB makes all directories before   *)
(* the first file.  A streamed file makes its parent only in the pipeline  *)
(* that aggregates.                                                        *)
FirstOp(i) ==
    IF i \in Dirs THEN "ensure"
    ELSE IF Streams(i) THEN (IF way.agg THEN "ensure" ELSE "open")
    ELSE IF way.reader = "source" THEN "read" ELSE "open"

Barrier(i) ==
    way.reader = "stream" /\ ~ way.agg /\ i \in Files => \A d \in Dirs : Ended(d)

Start(i) ==
    /\ task[i].st = "todo" /\ Barrier(i)
    /\ Cardinality({j \in Items : Running(j)}) < Permits
    /\ IF i \in source.links THEN Settle(i, "skipped")
       ELSE task' = [task EXCEPT ![i].st = "run", ![i].op = FirstOp(i)]
    /\ UNCHANGED <<target, cache, pool, given, faults>>

(* The end of an attempt that failed: reading and writing a block, making  *)
(* a directory and opening a source are tried again from their start; a    *)
(* streamed copy is not.                                                   *)
Restart(op) == IF op \in {"open", "read"} THEN op ELSE "ensure"

Streamed(i) ==
    IF i \in Files THEN Streams(i) ELSE way.reader = "stream" /\ ~ way.agg

Again(i) ==
    IF task[i].try < MaxRetries /\ ~ Streamed(i)
    THEN task' = [task EXCEPT ![i] =
             [task[i] EXCEPT !.op = Restart(@), !.try = @ + 1, !.seg = 0, !.put = 0,
                             !.jukebox = 0, !.conn = 0]]
    ELSE Settle(i, "failed")
-----------------------------------------------------------------------------
(* Sources.                                                                *)
Left(i) ==   \* units from off on that the source has and the task wants
    LET end == IF source.have[i] < source.size[i] THEN source.have[i] ELSE source.size[i]
    IN IF task[i].off < end THEN end - task[i].off ELSE 0

(* SMB: the source is opened, then read block by block, or all at once for *)
(* the aggregating target.  With nothing to read, nothing is written.      *)
OpenSource(i) ==
    /\ Op(i, "open")
    /\ \/ /\ NoFault
          /\ IF Streams(i) THEN Go(i, "create")
             ELSE IF Gathers(i) THEN Go(i, "gather")
             ELSE IF source.size[i] = 0 THEN Settle(i, "copied") ELSE Go(i, "read")
       \/ Fault /\ Again(i)
       \/ Fault /\ Settle(i, "failed")   \* not a file any more
    /\ UNCHANGED <<target, cache, pool, given>>

Gather(i) ==
    /\ Op(i, "gather")
    /\ \/ Left(i) = source.size[i] /\ NoFault /\ Settle(i, "copied") /\ given' = given \cup {i}
       \/ Left(i) < source.size[i] /\ NoFault /\ Settle(i, "failed") /\ UNCHANGED given
       \/ Fault /\ Settle(i, "failed") /\ UNCHANGED given
    /\ UNCHANGED <<target, cache, pool>>

(* A read of nothing before the end fails a file, but ends the loop of a   *)
(* streamed copy as if all had been read.                                  *)
EndsShort(i) == Settle(i, IF Streams(i) THEN "copied" ELSE "failed")

AfterRead(i) == IF Streams(i) THEN "put" ELSE "ensure"

ReadBlock(i) ==
    LET n == IF Left(i) < Block THEN Left(i) ELSE Block IN
    /\ Op(i, "read")
    /\ \/ /\ n > 0 \/ (task[i].off >= source.size[i] /\ ~ Streams(i))
          /\ task' = [task EXCEPT ![i] = [task[i] EXCEPT !.buf = n, !.put = 0, !.seg = 0, !.try = 0,
                                                          !.op = AfterRead(i)]]
          /\ NoFault
       \/ n = 0 /\ (task[i].off < source.size[i] \/ Streams(i)) /\ EndsShort(i) /\ NoFault
       \/ Fault /\ Again(i)
    /\ UNCHANGED <<target, cache, pool, given>>
-----------------------------------------------------------------------------
(* Directories.  Known segments are passed over; the others are asked for  *)
(* and noted one by one, by tasks that do not wait for each other.         *)
Made(i) ==
    IF i \in Dirs THEN Settle(i, "made")
    ELSE Go(i, IF Streams(i) THEN "open" ELSE "create")

Unknown == IF way.target = "nfs" THEN "lookup" ELSE "mkdir"

Ensure(i) ==
    /\ Op(i, "ensure")
    /\ IF Tree(i) \in cache \/ task[i].seg = Len(Tree(i)) THEN Made(i)
       ELSE IF Next_(i) \in cache THEN task' = [task EXCEPT ![i].seg = @ + 1]
       ELSE Go(i, Unknown)
    /\ UNCHANGED <<target, cache, pool, given, faults>>

(* Faulty variant: all that is about to be made is noted already.          *)
Note_Tree(i) == cache' = cache \cup {Tree(i)}

Note(i) == cache' = cache \cup {Next_(i)}

NoteDir(i) ==
    /\ Op(i, "note") /\ Note(i)
    /\ task' = [task EXCEPT ![i] = [task[i] EXCEPT !.seg = @ + 1, !.op = "ensure"]]
    /\ UNCHANGED <<target, pool, given, faults>>

(* SMB: open or create; the call or the close after it may fail.           *)
SmbMkdir(i) ==
    /\ Op(i, "mkdir") /\ way.target = "smb"
    /\ \/ dirs' = dirs \cup {Next_(i)} /\ Go(i, "note") /\ NoFault
       \/ dirs' \in {dirs, dirs \cup {Next_(i)}} /\ Fault /\ Again(i)
    /\ UNCHANGED <<data, cache, pool, given>>
-----------------------------------------------------------------------------
(* NFS: every call is made on a connection of the pool, chosen in turn and *)
(* locked until the reply.                                                 *)
NfsOps == {"lookup", "mkdir", "relookup", "create", "lookupfile", "put", "attrs"}
Call(i) == <<i, task[i].op>>
Calls(i) == Running(i) /\ way.target = "nfs" /\ task[i].op \in NfsOps
Holds(i, op) == Calls(i) /\ task[i].op = op /\ task[i].conn # 0 /\ holder[task[i].conn] = Call(i)

Acquire(i) ==
    /\ Calls(i) /\ task[i].conn = 0
    /\ turn' = (turn % Conns) + 1 /\ task' = [task EXCEPT ![i].conn = turn]
    /\ holder' = IF holder[turn] = Nobody THEN [holder EXCEPT ![turn] = Call(i)] ELSE holder
    /\ UNCHANGED <<target, cache, given, faults>>

Lock(i) ==
    /\ Calls(i) /\ task[i].conn # 0 /\ holder[task[i].conn] = Nobody
    /\ holder' = [holder EXCEPT ![task[i].conn] = Call(i)]
    /\ UNCHANGED <<turn, task, target, cache, given, faults>>

Release(i) == holder' = [holder EXCEPT ![task[i].conn] = Nobody] /\ UNCHANGED turn
Then(i, op) == task' = [task EXCEPT ![i] = [task[i] EXCEPT !.op = op, !.conn = 0]]

(* Not found and not answered are the same.                                *)
Lookup(i) ==
    /\ Holds(i, "lookup")
    /\ \/ Next_(i) \in dirs /\ Then(i, "note") /\ NoFault
       \/ Next_(i) \notin dirs /\ Then(i, "mkdir") /\ NoFault
       \/ Fault /\ Then(i, "mkdir")
    /\ Release(i) /\ UNCHANGED <<target, cache, given>>

(* Faulty variant: the connection is kept while the name is looked up.     *)
DropConn_Kept(i) == UNCHANGED <<turn, holder>>

(* drop(conn): the connection goes back before the lookup that follows.    *)
DropConn(i) == Release(i)

Mkdir(i) ==
    /\ Holds(i, "mkdir")
    /\ \/ Next_(i) \notin dirs /\ way.handles /\ Then(i, "note") /\ Release(i) /\ NoFault
       \/ Next_(i) \notin dirs /\ ~ way.handles /\ Then(i, "relookup") /\ DropConn(i) /\ NoFault
       \/ Next_(i) \in dirs /\ Then(i, "relookup") /\ DropConn(i) /\ NoFault
       \/ Fault /\ Again(i) /\ Release(i)
    /\ dirs' \in {dirs \cup {Next_(i)}} \cup IF faults' = faults THEN {} ELSE {dirs}
    /\ UNCHANGED <<data, cache, given>>

Relookup(i) ==
    /\ Holds(i, "relookup") /\ Release(i)
    /\ \/ Then(i, "note") /\ NoFault
       \/ Fault /\ Again(i)
    /\ UNCHANGED <<target, cache, given>>

(* "Try again later" is tried again by the call itself.                    *)
Jukebox(i) ==
    IF task[i].jukebox < JukeboxRetries
    THEN task' = [task EXCEPT ![i] = [task[i] EXCEPT !.jukebox = @ + 1, !.conn = 0]] ELSE Again(i)

(* CREATE UNCHECKED, for every block: a file that exists stays as it is.   *)
NfsCreate(i) ==
    LET p == MapControl(i) IN
    /\ Holds(i, "create") /\ Release(i)
    /\ \/ /\ data' = IF p \in DOMAIN data THEN data
                     ELSE [q \in DOMAIN data \cup {p} |-> IF q = p THEN <<>> ELSE data[q]]
          /\ Then(i, IF way.handles THEN (IF task[i].buf = 0 THEN "attrs" ELSE "put")
                     ELSE "lookupfile")
          /\ NoFault
       \/ Fault /\ (Jukebox(i) \/ Again(i)) /\ UNCHANGED data
    /\ UNCHANGED <<dirs, cache, given>>

LookupFile(i) ==
    /\ Holds(i, "lookupfile") /\ Release(i)
    /\ \/ Then(i, IF task[i].buf = 0 THEN "attrs" ELSE "put") /\ NoFault
       \/ Fault /\ Again(i)
    /\ UNCHANGED <<target, cache, given>>

(* Faulty variant: every block is written at the start of the file.        *)
Units_Zero(i, n) ==
    WriteAt(data[MapControl(i)], task[i].put,
            [k \in 1 .. n |-> Unit(i, task[i].off + task[i].put + k)])

(* The file with n more units of the block.                                *)
Units(i, n) ==
    WriteAt(data[MapControl(i)], task[i].off + task[i].put,
            [k \in 1 .. n |-> Unit(i, task[i].off + task[i].put + k)])

Put(i, n) == data' = [data EXCEPT ![MapControl(i)] = Units(i, n)]

(* The server says how much it has written, if only nothing: the rest is   *)
(* sent again.                                                             *)
NfsPut(i) ==
    /\ Holds(i, "put") /\ Release(i)
    /\ \/ /\ \E n \in 1 .. task[i].buf - task[i].put :
                /\ Put(i, n)
                /\ task' = [task EXCEPT ![i] =
                       [task[i] EXCEPT !.put = @ + n, !.conn = 0, !.jukebox = 0,
                                       !.op = IF task[i].put + n = task[i].buf THEN "attrs" ELSE "put"]]
          /\ NoFault
       \/ Fault /\ (Then(i, "put") \/ Jukebox(i) \/ Again(i)) /\ UNCHANGED data
    /\ UNCHANGED <<dirs, cache, given>>

(* The end of a block.                                                     *)
Written(i) ==
    LET end == task[i].off + task[i].buf IN
    IF end >= source.size[i] THEN Settle(i, "copied")
    ELSE task' = [task EXCEPT ![i] = [task[i] EXCEPT !.off = end, !.op = "read", !.try = 0, !.conn = 0,
                                                     !.jukebox = 0]]

(* SETATTR: no answer is only a warning.                                   *)
SetAttrs(i) ==
    /\ Holds(i, "attrs") /\ Release(i)
    /\ Written(i) /\ (NoFault \/ Fault)
    /\ UNCHANGED <<target, cache, given>>
-----------------------------------------------------------------------------
(* SMB.  A first block overwrites the file, a later one opens it.          *)
Opened(i) ==
    IF task[i].off > 0 THEN data
    ELSE [q \in DOMAIN data \cup {MapControl(i)} |-> IF q = MapControl(i) THEN <<>> ELSE data[q]]

CanOpen(i) == Parent(MapControl(i)) \in dirs \cup {<<>>}
              /\ (task[i].off > 0 => MapControl(i) \in DOMAIN data)

AfterCreate(i) ==
    IF Streams(i) THEN (IF way.share THEN "srvcopy" ELSE "read")
    ELSE IF task[i].buf = 0 THEN "close" ELSE "put"

SmbCreate(i) ==
    /\ Op(i, "create") /\ way.target = "smb"
    /\ \/ CanOpen(i) /\ data' = Opened(i) /\ Go(i, AfterCreate(i)) /\ NoFault
       \/ ~ CanOpen(i) /\ Again(i) /\ UNCHANGED data /\ NoFault
       \/ Fault /\ Again(i) /\ UNCHANGED data
    /\ UNCHANGED <<dirs, cache, pool, given>>

(* On one share the server copies the file as it is by now; if it cannot,  *)
(* it is read and written after all.                                       *)
SrvCopy(i) ==
    /\ Op(i, "srvcopy")
    /\ \/ /\ data' = [data EXCEPT ![MapControl(i)] = [k \in 1 .. source.have[i] |-> Unit(i, k)]]
          /\ Settle(i, "copied") /\ NoFault
       \/ Fault /\ Go(i, "read") /\ UNCHANGED data
    /\ UNCHANGED <<dirs, cache, pool, given>>

(* A write of nothing is an error.                                         *)
SmbPut(i) ==
    /\ Op(i, "put") /\ way.target = "smb"
    /\ \/ /\ \E n \in 1 .. task[i].buf - task[i].put :
                /\ Put(i, n)
                /\ IF task[i].put + n < task[i].buf THEN task' = [task EXCEPT ![i].put = @ + n]
                   ELSE IF Streams(i) THEN Written(i) ELSE Go(i, "close")
          /\ NoFault
       \/ Fault /\ Again(i) /\ UNCHANGED data
    /\ UNCHANGED <<dirs, cache, pool, given>>

SmbClose(i) ==
    /\ Op(i, "close")
    /\ \/ Written(i) /\ NoFault
       \/ Fault /\ Again(i)
    /\ UNCHANGED <<target, cache, pool, given>>
-----------------------------------------------------------------------------
SmbStep(i) == SmbMkdir(i) \/ SmbCreate(i) \/ SrvCopy(i) \/ SmbPut(i) \/ SmbClose(i)

NfsStep(i) ==
    \/ Acquire(i) \/ Lock(i) \/ Lookup(i) \/ Mkdir(i) \/ Relookup(i)
    \/ NfsCreate(i) \/ LookupFile(i) \/ NfsPut(i) \/ SetAttrs(i)

TaskStep(i) ==
    /\ Start(i) \/ OpenSource(i) \/ Gather(i) \/ ReadBlock(i) \/ Ensure(i) \/ NoteDir(i)
       \/ SmbStep(i) \/ NfsStep(i)
    /\ UNCHANGED <<config, post>>

(* Faulty variant: times are set before deletions disturb them.            *)
After_TimesFirst ==
    [copy |-> "hardlink", hardlink |-> "mtime", mtime |-> "delete", delete |-> "done"]

(* run_all_phases.  What cannot be done in one is counted, and the next    *)
(* phase follows.                                                          *)
After == [copy |-> "hardlink", hardlink |-> "delete", delete |-> "mtime", mtime |-> "done"]

Enter == phase' = After[phase] /\ at' = 1
Continue == at' = at + 1 /\ UNCHANGED phase
Stay == UNCHANGED <<dirs, data, timed>>

(* All tasks are joined and the pools closed.                              *)
CopyDone ==
    /\ phase = "copy" /\ \A i \in Items : Ended(i)
    /\ Enter /\ UNCHANGED <<config, target, cache, task, pool, given, left, timed, faults>>

(* The connection is refused or the control file cannot be opened.         *)
PhaseFails ==
    /\ phase \in {"hardlink", "delete", "mtime"} /\ at = 1 /\ Fault
    /\ Enter /\ UNCHANGED <<config, target, cache, task, pool, given, left, timed>>

Present(p) == p \in dirs \cup {<<>>}

(* Every name but the first becomes a link to the first.  The copy of that *)
(* name is not removed, and where one is the link fails.  On NFS the       *)
(* parent is made first.                                                   *)
Parents(p) == {SubSeq(p, 1, k) : k \in 1 .. Len(p) - 1}

CanLink(p) == way.target = "nfs" \/ Present(Parent(p))

Link(p, primary) ==
    /\ CanLink(p)
    /\ dirs' = dirs \cup Parents(p)
    /\ timed' = timed \ {Parent(q) : q \in {p} \cup (Parents(p) \ dirs)}
    /\ data' = [q \in DOMAIN data \cup {p} |-> IF q = p THEN data[primary] ELSE data[q]]

HardlinkPhase ==
    LET primary == TargetRelative(Group[1]) IN
    /\ phase = "hardlink"
    /\ IF at = Len(Group) \/ primary \notin DOMAIN data
       THEN Enter /\ Stay /\ NoFault
       ELSE LET p == TargetRelative(Group[at + 1]) IN
            /\ Continue
            /\ \/ p \notin DOMAIN data /\ Link(p, primary) /\ NoFault
               \/ /\ p \in DOMAIN data \/ ~ CanLink(p)
                  /\ Stay /\ NoFault
               \/ Stay /\ Fault
    /\ UNCHANGED <<config, cache, task, pool, given, left>>

(* Files in the order of the control file.                                 *)
DeleteFile(p) ==
    /\ data' = [q \in DOMAIN data \ {p} |-> data[q]]
    /\ timed' = timed \ {Parent(p)} /\ UNCHANGED dirs

DeleteFiles ==
    /\ phase = "delete" /\ at <= Len(GoneFiles)
    /\ LET p == TargetRelative(GoneFiles[at]) IN
       \/ p \in DOMAIN data /\ DeleteFile(p) /\ NoFault
       \/ p \notin DOMAIN data /\ Stay /\ NoFault
       \/ Stay /\ Fault
    /\ Continue /\ UNCHANGED <<config, cache, task, pool, given, left>>

(* Faulty variant: directories in any order.                               *)
Deepest_Any(d) == TRUE

(* Then directories, sorted backwards: none before those under it.         *)
Deepest(d) == \A e \in left : ~ IsStrictPrefix(d, e)

DeleteDir(p) == dirs' = dirs \ {p} /\ timed' = timed \ {p, Parent(p)} /\ UNCHANGED data

Empty(p) == \A q \in dirs \cup DOMAIN data : ~ IsStrictPrefix(p, q)

DeleteDirs ==
    /\ phase = "delete" /\ at > Len(GoneFiles) /\ left # {}
    /\ \E d \in left :
       LET p == TargetRelative(d) IN
       /\ Deepest(d) /\ left' = left \ {d}
       /\ \/ p \in dirs /\ Empty(p) /\ DeleteDir(p) /\ NoFault
          \/ ~ (p \in dirs /\ Empty(p)) /\ Stay /\ NoFault
          \/ Stay /\ Fault
    /\ UNCHANGED <<config, cache, task, pool, given, phase, at>>

DeleteDone ==
    /\ phase = "delete" /\ at > Len(GoneFiles) /\ left = {}
    /\ Enter /\ UNCHANGED <<config, target, cache, task, pool, given, left, timed, faults>>

SetTime(p) == timed' = timed \cup {d \in {p} : Present(d)}

MtimePhase ==
    /\ phase = "mtime"
    /\ \/ at > Len(TimedDirs) /\ Enter /\ UNCHANGED timed /\ NoFault
       \/ /\ at <= Len(TimedDirs) /\ Continue
          /\ LET p == TargetRelative(TimedDirs[at]) IN
             \/ SetTime(p) /\ NoFault
             \/ UNCHANGED timed /\ Fault
    /\ UNCHANGED <<config, target, cache, task, pool, given, left>>

Phases == PhaseFails \/ HardlinkPhase \/ DeleteFiles \/ DeleteDirs \/ DeleteDone \/ MtimePhase

Done == phase = "done" /\ UNCHANGED vars

Next == (\E i \in Items : TaskStep(i)) \/ CopyDone \/ Phases \/ Done

Spec == Init /\ [][Next]_vars

(* The runtime polls every task, tokio's mutex serves whoever waits, and   *)
(* the phases are a plain loop.                                            *)
FairSpec == Spec /\ \A i \in Items : WF_vars(TaskStep(i)) /\ WF_vars(CopyDone \/ Phases)
-----------------------------------------------------------------------------
TypeOK ==
    /\ way \in Ways /\ turn \in 1 .. Conns /\ holder \in [1 .. Conns -> (Items \X NfsOps) \cup {Nobody}]
    /\ DOMAIN task = Items /\ given \subseteq Files /\ faults \in 0 .. MaxFaults
    /\ \A i \in Items : /\ task[i].conn \in 0 .. Conns /\ task[i].try \in 0 .. MaxRetries
                        /\ task[i].put <= task[i].buf /\ task[i].buf <= Block
    /\ \A p \in DOMAIN data : Parent(p) \in dirs \cup {<<>>}

(* A file counted as copied is on the target unit by unit, whatever calls  *)
(* failed, were short or were tried again on the way - but for two gaps: a *)
(* streamed copy of a file that has become shorter ends early, and an      *)
(* empty file from SMB is never created when nothing aggregates.  An SMB   *)
(* target has no more than that; of a longer file on NFS the end stays.    *)
HonestCopy ==
    \A f \in Files :
        task[f].st = "copied" /\ f \notin given
        /\ ~ (Streams(f) /\ source.have[f] < source.size[f]) /\ ~ (way.reader = "smb" /\ source.size[f] = 0)
        => LET p == MapControl(f) IN
           /\ p \in DOMAIN data
           /\ IsPrefix([k \in 1 .. source.size[f] |-> Unit(f, k)], data[p])
           /\ way.target = "smb" /\ source.have[f] = source.size[f] => Len(data[p]) = source.size[f]

(* What the cache holds exists: no task leaves a directory out that is not *)
(* there, though tasks look and make at the same time.                     *)
CachedExist == phase = "copy" => cache \subseteq dirs

(* A connection never waits for another: whatever calls fail, the copy and *)
(* its phases come to an end, with as few connections as one.              *)
CopyEnds == <>(phase = "done")

(* The delete phase "removes files and directories that no longer exist in *)
(* the source": without failures all of them, whatever lay in them.        *)
GoneEntriesGo ==
    phase \in {"mtime", "done"} /\ faults = 0 =>
        \A p \in ToSet(GoneFiles) \cup GoneDirs : MapControl(p) \notin dirs \cup DOMAIN data

(* ... and only those: it never takes the copy of anything else away.      *)
RemovesOnlyGone ==
    [][\A p \in DOMAIN data \ DOMAIN data' :
           \E f \in ToSet(GoneFiles) : MapControl(f) = p]_vars

(* The times of directories are the last thing to be set: at the end every *)
(* directory that has been given its time still has it.                    *)
TimesHold ==
    phase = "done" /\ faults = 0 =>
        \A d \in ToSet(TimedDirs) : Present(MapControl(d)) => MapControl(d) \in timed
=============================================================================
