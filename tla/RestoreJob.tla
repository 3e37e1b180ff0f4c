----------------------------- MODULE RestoreJob -----------------------------
(***************************************************************************)
(* A restore job: the plan made from the copy's metadata (control_plan.rs, *)
(* written through sharded_control.rs), a subtask for each of its copy     *)
(* control files, all at once (frame/restore_job.rs, subtask.rs), each a   *)
(* pipeline of tasks under a semaphore (backup/restore_pipeline.rs), and,  *)
(* when all have ended, the phase that restores directory times.  A path   *)
(* is the sequence of its names below the source's root, a file's content  *)
(* a sequence of chunks of one read.  The job does not restore hard links  *)
(* and its plans delete nothing: those phases do nothing (backup.rs:695).  *)
(***************************************************************************)
EXTENDS Naturals, Sequences, FiniteSets, SequencesExt

CONSTANTS
    DirOrder,      \* the directories of the copy, sorted
    DirTime,       \* their recorded times
    Copy,          \* its files by path: size and time as recorded, symbolic link
                   \* or not, and what D_REPO has: in a blob or not, held, data
    SourceName,    \* the last name of the source's path
    LogicalRoot,   \* the logical root of the source: <<>>, or a name if remote
    ShardOf,       \* the hash of a directory
    EntryLimit,    \* entries in a control file
    Permits,       \* permits of a pipeline
    Requests,      \* sets of paths a job may be asked for; {} is everything
    Remote,        \* whether the target may be remote, local
    Policies,
    Existing,      \* the files at the target before
    Now,           \* a time after all recorded ones
    MaxFaults      \* bound: errors

Dirs == Range(DirOrder)
Paths == DOMAIN Copy
FilesIn(d) == {f \in Paths : Front(f) = d}
LinkTo == <<"link">>

ASSUME CopyAssumption ==
    /\ DirOrder \in Seq(Seq(STRING)) /\ IsInjective(DirOrder)
    /\ <<>> \in Dirs /\ \A d \in Dirs : Prefixes(d) \subseteq Dirs
    /\ Paths \subseteq Seq(STRING) \ Dirs /\ IsFiniteSet(Paths)
    /\ \A f \in Paths : Front(f) \in Dirs
    /\ Copy \in [Paths -> [size : Nat, time : Nat, data : Seq(STRING),
                           blob : BOOLEAN, link : BOOLEAN, held : BOOLEAN]]
    /\ DOMAIN Existing \subseteq Paths /\ \A p \in DOMAIN Existing : Existing[p].time \in Nat
    /\ DOMAIN ShardOf = Dirs /\ DOMAIN DirTime = Dirs
ASSUME BoundsAssumption ==
    /\ EntryLimit \in Nat \ {0} /\ Permits \in Nat \ {0} /\ MaxFaults \in Nat
    /\ Policies \subseteq {"Replace", "Skip", "KeepNewer"} /\ Remote \subseteq BOOLEAN

VARIABLES
    phase, request, remote, policy,
    plan,      \* the copy control files, as they are read
    state,     \* their subtasks
    next,      \* the entry each receives next
    waiting,   \* tasks that wait for a permit: control file and entry
    running,   \* tasks that copy a file, each with its offset
    failing,   \* subtasks with a failed file, or that could not start
    failed,    \* the job's count of failed subtasks
    target, dirs,  \* files and directories at the target
    stray,     \* links made in the process's own directory
    silent,    \* history: an error that is only logged kept files, or times
    faults

config == <<request, remote, policy, plan>>
pipeline == <<state, next, waiting, running>>
disk == <<target, dirs, stray>>
jobVars == <<phase, config, pipeline, failing, failed, disk, silent, faults>>

Subtasks == DOMAIN plan
Item(t) == plan[t[1]][t[2]]

JobTypeOK ==
    /\ phase \in {"start", "copy", "mtime", "done", "failed"}
    /\ state \in [Subtasks -> {"new", "open", "ended"}]
    /\ \A c \in Subtasks : next[c] \in 1 .. Len(plan[c]) + 1
    /\ \A t \in waiting \cup DOMAIN running :
          t[1] \in Subtasks /\ t[2] < next[t[1]] /\ state[t[1]] = "open"
    /\ waiting \cap DOMAIN running = {}
    /\ \A c \in Subtasks : Cardinality({t \in DOMAIN running : t[1] = c}) <= Permits
    /\ failing \subseteq Subtasks /\ failed \in 0 .. Cardinality(failing)
    /\ \A p \in DOMAIN target : Prefixes(Front(p)) \subseteq DOMAIN dirs
    /\ silent \subseteq {"files", "times"}
    /\ faults \in 0 .. MaxFaults

With(f, x, v) == [y \in DOMAIN f \cup {x} |-> IF y = x THEN v ELSE f[y]]

Fault == faults < MaxFaults /\ faults' = faults + 1
-----------------------------------------------------------------------------
(* The plan.  Which directories and files a request selects.               *)
IncludeFile(f, req) ==
    \/ req = {} \/ f \in req
    \/ \E r \in req \cap Dirs : IsPrefix(r, f)

IncludeDir(d, req) ==
    \/ req = {}
    \/ \E r \in req \cap Dirs : IsPrefix(r, d)
    \/ \E r \in req \cap Paths : IsStrictPrefix(d, r)

(* Faulty variant: a request selects whole directories only.               *)
Selected_Dirs(d, req) ==
    {f \in FilesIn(d) : IncludeDir(d, req)}

Selected(d, req) == {f \in FilesIn(d) : IncludeFile(f, req)}

DirEntries(d, req) ==
    IF IncludeDir(d, req) \/ Selected(d, req) # {}
    THEN <<[kind |-> "dir", path |-> d]>> \o
         SetToSeq({[kind |-> "file", path |-> f] : f \in Selected(d, req)})
    ELSE <<>>

(* ShardedControlFileManager: a directory and its files go to one shard;   *)
(* a shard's control file that is full when the next entry comes is ended  *)
(* and another begun, whatever the entry is.                               *)
ShardEntries(s, req) ==
    FlattenSeq([k \in DOMAIN DirOrder |->
        IF ShardOf[DirOrder[k]] = s THEN DirEntries(DirOrder[k], req) ELSE <<>>])

Rollover(entries) ==
    [k \in 1 .. (Len(entries) + EntryLimit - 1) \div EntryLimit |->
        SubSeq(entries, (k - 1) * EntryLimit + 1,
               IF k * EntryLimit < Len(entries) THEN k * EntryLimit ELSE Len(entries))]

(* produce_entries_for_each: a file is in the directory read last, if any. *)
AsRead(entries) ==
    [i \in DOMAIN entries |->
        LET before == SelectSeq(SubSeq(entries, 1, i), LAMBDA e : e.kind = "dir")
            dir == IF before = <<>> THEN <<>> ELSE Last(before).path
            e == entries[i]
        IN [kind |-> IF e.kind = "file" /\ Copy[e.path].link THEN "link" ELSE e.kind,
            path |-> e.path,
            place |-> IF e.kind = "dir" THEN dir ELSE Append(dir, Last(e.path))]]

ControlFiles(req) ==
    LET shards == SetToSeq(Range(ShardOf))
        split == FlattenSeq([k \in DOMAIN shards |-> Rollover(ShardEntries(shards[k], req))])
    IN [c \in DOMAIN split |-> AsRead(split[c])]

Known == request \subseteq Dirs \cup Paths

(* run: the prerequisites and the plan; either may fail the job.           *)
PlanRestore ==
    /\ phase = "start"
    /\ \/ /\ Known
          /\ plan' = ControlFiles(request)
          /\ state' = [c \in DOMAIN plan' |-> "new"]
          /\ next' = [c \in DOMAIN plan' |-> 1]
          /\ phase' = "copy"
          /\ UNCHANGED faults
       \/ /\ IF Known THEN Fault ELSE UNCHANGED faults
          /\ phase' = "failed"
          /\ UNCHANGED <<plan, state, next>>
    /\ UNCHANGED <<request, remote, policy, waiting, running, failing, failed, disk, silent>>
-----------------------------------------------------------------------------
(* Files and directories at the target.                                    *)
Stamped(ds, p) == [ds EXCEPT ![p] = Now]

WithDirs(ds, p) ==
    LET missing == Prefixes(p) \ DOMAIN ds
    IN [q \in DOMAIN ds \cup missing |->
          IF q \in missing \/ \E m \in missing : m # <<>> /\ Front(m) = q THEN Now ELSE ds[q]]

WithEntry(p) ==
    LET ds == WithDirs(dirs, Front(p))
    IN IF p \in DOMAIN target THEN ds ELSE Stamped(ds, Front(p))

Put(p, data, time) == target' = With(target, p, [data |-> data, time |-> time])
-----------------------------------------------------------------------------
(* A subtask starts, in a thread of its own.  It fails if the paths it     *)
(* needs are missing; but that it cannot connect to a remote target, or    *)
(* open the metadata or the control file, is only logged.                  *)
NoStart(c) == Fault /\ failing' = failing \cup {c} /\ UNCHANGED silent
NoPipeline == Fault /\ silent' = silent \cup {"files"} /\ UNCHANGED failing

OpenSubtask(c) ==
    /\ phase = "copy" /\ state[c] = "new"
    /\ \/ state' = [state EXCEPT ![c] = "open"] /\ UNCHANGED <<failing, silent, faults>>
       \/ state' = [state EXCEPT ![c] = "ended"] /\ (NoStart(c) \/ NoPipeline)
    /\ UNCHANGED <<phase, config, next, waiting, running, failed, disk>>

(* create_symlink removes a link in its place first, unless that leads     *)
(* nowhere (exists() follows it) and so bars the way.                      *)
MayBar(p) == p \in DOMAIN target /\ target[p].data = LinkTo

(* A symbolic link is made at once; if the target is remote, it is made in *)
(* the process's own directory.                                            *)
MakeLink(c, p) ==
    \/ /\ ~remote
       /\ dirs' = Stamped(WithDirs(dirs, Front(p)), Front(p))
       /\ Put(p, LinkTo, Now)
       /\ UNCHANGED <<stray, failing, faults>>
    \/ /\ remote
       /\ stray' = stray \cup {p}
       /\ UNCHANGED <<target, dirs, failing, faults>>
    \/ /\ failing' = failing \cup {c}
       /\ \/ Fault
          \/ ~remote /\ MayBar(p) /\ UNCHANGED faults
       /\ UNCHANGED disk

(* The pipeline receives the next entry and spawns its task.  An entry     *)
(* whose record or metadata cannot be read is logged and left out.         *)
Receive(c) ==
    /\ state[c] = "open" /\ next[c] <= Len(plan[c])
    /\ next' = [next EXCEPT ![c] = @ + 1]
    /\ LET item == plan[c][next[c]]
       IN \/ /\ item.kind # "link"
             /\ waiting' = waiting \cup {<<c, next[c]>>}
             /\ UNCHANGED <<failing, disk, silent, faults>>
          \/ /\ item.kind = "link"
             /\ MakeLink(c, item.place)
             /\ UNCHANGED <<waiting, silent>>
          \/ /\ Fault /\ silent' = silent \cup {"files"}
             /\ UNCHANGED <<waiting, failing, disk>>
    /\ UNCHANGED <<phase, config, state, running, failed>>

Permit(c) == Cardinality({t \in DOMAIN running : t[1] = c}) < Permits

(* Making a directory may fail: nothing counts that.                       *)
MakeDir(t) ==
    /\ t \in waiting /\ Permit(t[1]) /\ Item(t).kind = "dir"
    /\ waiting' = waiting \ {t}
    /\ \/ dirs' = WithDirs(dirs, Item(t).place) /\ UNCHANGED <<silent, faults>>
       \/ Fault /\ silent' = silent \cup {"files"} /\ UNCHANGED dirs
    /\ UNCHANGED <<phase, config, state, next, running, failing, failed, target, stray>>

(* RestorePolicy::should_restore.                                          *)
ShouldRestore(f, p, t) ==
    \/ policy = "Replace" \/ p \notin DOMAIN t
    \/ policy = "KeepNewer" /\ Copy[f].time > t[p].time

(* should_skip_restore looks at local targets only.                        *)
StartFile(t) ==
    /\ t \in waiting /\ Permit(t[1]) /\ Item(t).kind = "file"
    /\ waiting' = waiting \ {t}
    /\ running' = IF remote \/ ShouldRestore(Item(t).path, Item(t).place, target)
                  THEN With(running, t, 0) ELSE running
    /\ UNCHANGED <<phase, config, state, next, failing, failed, disk, silent, faults>>

(* LocalRepoRestoreSource::read_block: a file that an index leads into a   *)
(* blob is read whole, whatever the offset; another one chunk at a time,   *)
(* to its recorded size.                                                   *)
InBlob(p) == Copy[p].blob
BlobSlice(p) == Copy[p].data
FileChunk(p, at, size) ==
    IF at < Len(Copy[p].data) /\ at < size THEN <<Copy[p].data[at + 1]>> ELSE <<>>
Chunk(p, at, size) == IF InBlob(p) THEN BlobSlice(p) ELSE FileChunk(p, at, size)

(* Faulty variant: a task that fails is not counted.                       *)
Fail_Uncounted(t) ==
    /\ running' = Restrict(running, DOMAIN running \ {t})
    /\ UNCHANGED failing

Fail(t) ==
    /\ running' = Restrict(running, DOMAIN running \ {t})
    /\ failing' = failing \cup {t[1]}

(* A block is read and written; the first write empties the file.  When    *)
(* all is written the file's times are set (by a path that is wrong if the *)
(* target is remote).  A chunk that is empty before the end is an error.   *)
CopyBlock(t) ==
    /\ t \in DOMAIN running
    /\ LET p == Item(t).place
           meta == Copy[Item(t).path]
           at == running[t]
           chunk == IF p \in Paths /\ Copy[p].held THEN Chunk(p, at, meta.size) ELSE <<>>
           end == at + Len(chunk)
           old == IF at = 0 \/ p \notin DOMAIN target THEN <<>> ELSE target[p].data
           data == [k \in 1 .. (IF Len(old) > end THEN Len(old) ELSE end) |->
                       IF k \in at + 1 .. end THEN chunk[k - at] ELSE old[k]]
           readable == p \in Paths /\ Copy[p].held /\ (chunk # <<>> \/ at >= meta.size)
       IN \/ /\ readable
             /\ dirs' = WithEntry(p)
             /\ Put(p, data, IF end >= meta.size /\ ~remote THEN meta.time ELSE Now)
             /\ running' = IF end >= meta.size THEN Restrict(running, DOMAIN running \ {t})
                           ELSE [running EXCEPT ![t] = end]
             /\ UNCHANGED <<failing, faults>>
          \/ ~readable /\ Fail(t) /\ UNCHANGED <<target, dirs, faults>>
          \/ Fault /\ Fail(t) /\ UNCHANGED <<target, dirs>>
    /\ UNCHANGED <<phase, config, state, next, waiting, failed, stray, silent>>

EndSubtask(c) ==
    /\ state[c] = "open" /\ next[c] > Len(plan[c])
    /\ \A t \in waiting \cup DOMAIN running : t[1] # c
    /\ state' = [state EXCEPT ![c] = "ended"]
    /\ UNCHANGED <<phase, config, next, waiting, running, failing, failed, disk, silent, faults>>

(* Faulty variant: the next phase does not wait for the subtasks.          *)
Joined_Early == \E c \in Subtasks : state[c] = "ended"

Joined == \A c \in Subtasks : state[c] = "ended"

JoinSubtasks ==
    /\ phase = "copy" /\ Joined
    /\ phase' = "mtime"
    /\ failed' = Cardinality(failing)
    /\ UNCHANGED <<config, pipeline, failing, disk, silent, faults>>
-----------------------------------------------------------------------------
(* Where the mtime phase looks for a directory: make_relative_and_join     *)
(* keeps the logical root, target_relative_path keeps the last name only   *)
(* unless the first one is the source's.                                   *)
MtimePlace(d) ==
    LET p == LogicalRoot \o d
    IN IF ~remote \/ p = <<>> \/ Head(p) = SourceName THEN p ELSE <<Last(p)>>

RestoreTimes ==
    /\ phase = "mtime"
    /\ phase' = "done"
    /\ LET planned == {k \in DOMAIN DirOrder : DirEntries(DirOrder[k], request) # <<>>}
           at(q) == {k \in planned : MtimePlace(DirOrder[k]) = q}
       IN \/ /\ dirs' = [q \in DOMAIN dirs |->
                   IF at(q) = {} THEN dirs[q]
                   ELSE DirTime[DirOrder[CHOOSE k \in at(q) : \A j \in at(q) : j <= k]]]
             /\ UNCHANGED <<silent, faults>>
          \/ Fault /\ silent' = silent \cup {"times"} /\ UNCHANGED dirs
    /\ UNCHANGED <<config, pipeline, failing, failed, target, stray>>
-----------------------------------------------------------------------------
JobInit ==
    /\ phase = "start"
    /\ request \in Requests /\ remote \in Remote /\ policy \in Policies
    /\ plan = <<>> /\ state = <<>> /\ next = <<>>
    /\ waiting = {} /\ running = <<>>
    /\ failing = {} /\ failed = 0
    /\ target = Existing
    /\ dirs = [d \in {<<>>} \cup UNION {Prefixes(Front(p)) : p \in DOMAIN Existing} |-> 0]
    /\ stray = {} /\ silent = {} /\ faults = 0

Finished == phase \in {"done", "failed"} /\ UNCHANGED jobVars

JobNext ==
    \/ PlanRestore \/ JoinSubtasks \/ RestoreTimes \/ Finished
    \/ \E c \in Subtasks : OpenSubtask(c) \/ Receive(c) \/ EndSubtask(c)
    \/ \E t \in waiting : MakeDir(t) \/ StartFile(t)
    \/ \E t \in DOMAIN running : CopyBlock(t)

JobSpec == JobInit /\ [][JobNext]_jobVars
-----------------------------------------------------------------------------
Asked == {f \in Paths : request = {} \/ \E r \in request : IsPrefix(r, f)}
Kept(f) ==
    /\ ~remote /\ ~Copy[f].link /\ f \in DOMAIN Existing
    /\ policy = "Skip" \/ (policy = "KeepNewer" /\ Copy[f].time <= Existing[f].time)

(* A job that counts no failed subtask has restored what was asked for:    *)
(* each file is at the target with the content the copy holds, whatever    *)
(* was there before and in whatever order the subtasks of the shards ran,  *)
(* unless the policy kept what was there.  Not so after the errors the     *)
(* code only logs, and not for links to be made at a remote target.        *)
RestoreHonest ==
    phase = "done" /\ failed = 0 /\ "files" \notin silent =>
        \A f \in Asked :
            \/ remote /\ Copy[f].link
            \/ /\ f \in DOMAIN target
               /\ IF Kept(f) THEN target[f] = Existing[f]
                  ELSE target[f].data =
                          IF Copy[f].link THEN LinkTo
                          ELSE IF Copy[f].blob THEN Copy[f].data
                          ELSE SubSeq(Copy[f].data, 1, Copy[f].size)

(* No step of a restore touches a file that was not asked for, nor one     *)
(* that the policy keeps as it was found, failures and retried places      *)
(* included.                                                               *)
OnlyAsked ==
    [][\A p \in DOMAIN target' :
          \/ p \in DOMAIN target /\ target'[p] = target[p]
          \/ p \in Asked /\ ~Kept(p)]_jobVars

(* Files restored by any subtask change the times of their directories;    *)
(* as the last phase waits for all of them, at the end every directory     *)
(* at a local target has its recorded time.                                *)
DirTimesKept ==
    phase = "done" /\ "times" \notin silent /\ ~remote =>
        \A d \in Dirs \cap DOMAIN dirs : DirEntries(d, request) # <<>> => dirs[d] = DirTime[d]
=============================================================================
