----------------------------- MODULE BackupJob ------------------------------
(***************************************************************************)
(* A backup job (frame/backup_job.rs): prerequisites, scan, a subtask for  *)
(* every copy control file, all at once, and the post-job, which writes    *)
(* the manifest and, if the target is remote, uploads it after the         *)
(* metadata and control repositories.  A subtask (subtask.rs,              *)
(* backup_impls.rs, backup.rs) copies its files, small ones into blobs if  *)
(* the format is aggregated (native/backup, backup/aggregate), and then    *)
(* runs the hardlink and the mtime phase over the whole copy, while other  *)
(* subtasks may still be copying.  The delete phase is in MirrorBackup,    *)
(* what a copy to a remote target does in RemoteCopy, and aggregation to   *)
(* one in AsyncCopy.                                                       *)
(***************************************************************************)
EXTENDS Naturals, Sequences, FiniteSets, SequencesExt

CONSTANTS
    Files,         \* the files of the source
    Splits,        \* how a scan may divide them among control files
    Links,         \* sequences of names of one inode, by inode
    Small,         \* the files an aggregated copy puts into blobs
    DirOf,         \* the directory of each file
    BlobFiles,     \* files that fill a blob
    Formats,       \* "common", "shard", "dir"
    Remote,        \* whether the target may be remote
    Parts,         \* what M_REPO and C_REPO hold, in the order of upload
    MaxFaults      \* bound: errors and crashes

ASSUME FilesAssumption ==
    /\ \A s \in Splits : s # <<>> /\ UNION Range(s) = Files
    /\ \A g \in DOMAIN Links : Links[g] # <<>> /\ Range(Links[g]) \subseteq Files
    /\ \A g, h \in DOMAIN Links : Range(Links[g]) \cap Range(Links[h]) # {} => g = h
    /\ Small \subseteq Files /\ DOMAIN DirOf = Files
ASSUME SequencesAssumption ==
    /\ Splits \subseteq Seq(SUBSET Files)
    /\ Links \in [DOMAIN Links -> Seq(Files)]
    /\ Parts \in Seq(Range(Parts)) /\ {"magic", "manifest"} \cap Range(Parts) = {}
ASSUME BoundsAssumption ==
    /\ BlobFiles \in Nat \ {0} /\ MaxFaults \in Nat
    /\ Formats \subseteq {"common", "shard", "dir"} /\ Remote \subseteq BOOLEAN

VARIABLES
    phase, format, remote,
    ctrl,          \* the control files the scan left: sets of files
    at,            \* the control file to spawn or join next; the part to upload next
    stage,         \* of each subtask
    engine,        \* subtasks that aggregate
    todo, open,    \* files to copy, and being written, each with its inode
    buffer, blobs, \* files in buffers, and blobs being written
    memory,        \* files in the index a subtask keeps in memory
    group,         \* the hardlink phase of a subtask: groups left, target, names left
    copied, failed,  \* files counted by each subtask
    names, whole,  \* the target: the inode of each name, the inodes fully written
    held, index,   \* files in finished blobs, and in the indexes on disk
    times,         \* whether the directories have their recorded times
    status, record,  \* status files and manifest records
    placed,        \* what the copy's final place has: "magic", parts, "manifest"
    lost,          \* history: files lost to errors that are only logged
    missed,        \* history: logged errors that lost no file
    faults

job == <<phase, format, remote, ctrl, at>>
copying == <<engine, todo, open, buffer, blobs, memory>>
report == <<status, record, placed>>
target == <<names, whole, held, index, times>>
history == <<lost, missed>>
vars == <<job, stage, copying, group, copied, failed, target, report, history, faults>>

Subtasks == DOMAIN ctrl
Bucket(f) == IF format = "dir" THEN DirOf[f] ELSE "shared"
NoGroup == [groups |-> {}, to |-> "", rest |-> <<>>, step |-> "check"]
Aggregates(t, f) == t \in engine /\ f \in Small

TypeOK ==
    /\ phase \in {"new", "source", "target", "magic", "scan", "spawn", "join", "manifest",
                  "upload", "ok", "error", "crashed"}
    /\ stage \in [Subtasks -> {"none", "connect", "copy", "flush", "index", "links", "times", "ended"}]
    /\ \A t \in Subtasks :
          /\ todo[t] \cup buffer[t] \cup copied[t] \cup failed[t] \subseteq ctrl[t]
          /\ open[t] \subseteq ctrl[t] \X Files
          /\ stage[t] \in {"index", "links", "times", "ended"} =>
                todo[t] = {} /\ open[t] = {} /\ buffer[t] = {} /\ blobs[t] = {}
          /\ copied[t] \cap failed[t] = {}
          /\ memory[t] \subseteq copied[t]
    /\ \A f \in DOMAIN names : names[f] \in Files
    /\ whole \subseteq Files /\ index \subseteq held
    /\ record \in [Subtasks -> BOOLEAN]
    /\ faults \in 0 .. MaxFaults

Fault == faults < MaxFaults /\ faults' = faults + 1
-----------------------------------------------------------------------------
(* Phases 1 and 2.  BackupPrereqJob makes the directories of the copy and  *)
(* tries the source and the target with a magic file.                      *)
Prereq(from, to) ==
    /\ phase = from
    /\ \/ phase' = to /\ UNCHANGED faults
       \/ phase' = "error" /\ Fault
    /\ UNCHANGED <<format, remote, ctrl, at, stage, copying, group, copied, failed, target,
                   status, record, history>>

CreateDirs == Prereq("new", "source") /\ UNCHANGED placed
CheckSource == Prereq("source", "target") /\ UNCHANGED placed
WriteMagic == Prereq("target", "magic") /\ placed' = placed \cup (IF phase' = "magic" THEN {"magic"} ELSE {})
RemoveMagic == Prereq("magic", "scan") /\ placed' = placed \ (IF phase' = "scan" THEN {"magic"} ELSE {})

(* The scan writes the control files; that they cannot be generated is     *)
(* only logged (native.rs:160), and the job goes on without any.  The      *)
(* files of an aggregated copy share an index: its scan is not divided.    *)
Scan ==
    /\ phase = "scan"
    /\ \/ /\ phase' = "spawn" /\ \E s \in Splits : ctrl' = s /\ (format # "common" => Len(s) = 1)
          /\ UNCHANGED <<missed, faults>>
       \/ /\ phase' = "spawn" /\ ctrl' = <<>>
          /\ missed' = missed \cup {"scan"} /\ Fault
       \/ phase' = "error" /\ ctrl' = <<>> /\ UNCHANGED missed /\ Fault
    /\ stage' = [t \in DOMAIN ctrl' |-> "none"]
    /\ todo' = ctrl'
    /\ LET none == [t \in DOMAIN ctrl' |-> {}]
       IN open' = none /\ buffer' = none /\ blobs' = none /\ memory' = none
          /\ copied' = none /\ failed' = none /\ status' = none
    /\ group' = [t \in DOMAIN ctrl' |-> NoGroup]
    /\ record' = [t \in DOMAIN ctrl' |-> FALSE]
    /\ at' = 1
    /\ UNCHANGED <<format, remote, engine, target, placed, lost>>
-----------------------------------------------------------------------------
(* Phase 3: spawn_and_join_subtasks.  Errors of status files are ignored.  *)
Noted(t, s) ==
    \/ status' = [status EXCEPT ![t] = s] /\ UNCHANGED <<missed, faults>>
    \/ /\ UNCHANGED status
       /\ missed' = missed \cup {"status"} /\ Fault

Spawn ==
    /\ phase = "spawn"
    /\ IF at \in Subtasks
       THEN /\ Noted(at, {"RUNNING"})
            /\ stage' = [stage EXCEPT ![at] = "connect"]
            /\ at' = at + 1 /\ UNCHANGED phase
       ELSE /\ phase' = "join" /\ at' = 1
            /\ UNCHANGED <<stage, status, missed, faults>>
    /\ UNCHANGED <<format, remote, ctrl, copying, group, copied, failed, target, record, placed, lost>>

Succeeded(t) == stage[t] = "ended" /\ failed[t] = {}

(* Faulty variant: the threads are not joined.                             *)
Joinable_Any(t) == stage[t] # "none"

Joinable(t) == stage[t] = "ended"

Join ==
    /\ phase = "join"
    /\ IF at \in Subtasks
       THEN /\ Joinable(at)
            /\ record' = [record EXCEPT ![at] = Succeeded(at)]
            /\ Noted(at, {IF Succeeded(at) THEN "DONE" ELSE "FAILED"})
            /\ at' = at + 1 /\ UNCHANGED phase
       ELSE /\ phase' = "manifest"
            /\ UNCHANGED <<at, record, status, missed, faults>>
    /\ UNCHANGED <<format, remote, ctrl, stage, copying, group, copied, failed, target, placed, lost>>
-----------------------------------------------------------------------------
(* Phase 4: BackupPostJob.  An entry of a repository that cannot be read   *)
(* from its directory is skipped (flatten); other errors end the upload.   *)
WriteManifest ==
    /\ phase = "manifest"
    /\ \/ /\ phase' = IF remote THEN "upload" ELSE "ok"
          /\ placed' = IF remote THEN placed ELSE placed \cup {"manifest"}
          /\ UNCHANGED faults
       \/ phase' = "error" /\ UNCHANGED placed /\ Fault
    /\ at' = 1
    /\ UNCHANGED <<format, remote, ctrl, stage, copying, group, copied, failed, target,
                   status, record, history>>

(* Faulty variant: the manifest is uploaded first.                         *)
UploadOrder_First == <<"manifest">> \o Parts

UploadOrder == Append(Parts, "manifest")

Upload ==
    /\ phase = "upload"
    /\ LET part == UploadOrder[at]
       IN \/ /\ placed' = placed \cup {part}
             /\ UNCHANGED <<missed, faults>>
             /\ phase' = IF at = Len(UploadOrder) THEN "ok" ELSE "upload"
          \/ /\ part # "manifest"
             /\ missed' = missed \cup {part} /\ Fault
             /\ UNCHANGED <<placed, phase>>
          \/ phase' = "error" /\ Fault /\ UNCHANGED <<placed, missed>>
    /\ at' = at + 1
    /\ UNCHANGED <<format, remote, ctrl, stage, copying, group, copied, failed, target,
                   status, record, lost>>

Crash ==
    /\ phase \notin {"ok", "error", "crashed"}
    /\ phase' = "crashed" /\ Fault
    /\ UNCHANGED <<format, remote, ctrl, at, stage, copying, group, copied, failed, target, report, history>>
-----------------------------------------------------------------------------
(* A subtask.  One that cannot connect to a remote target only prints so   *)
(* and ends; one that cannot open its index copies all files by themselves.*)
Alive == phase \notin {"ok", "error", "crashed"}

Start(t) ==
    /\ Alive /\ stage[t] = "connect"
    /\ \/ /\ stage' = [stage EXCEPT ![t] = "copy"]
          /\ engine' = IF format # "common" THEN engine \cup {t} ELSE engine
          /\ UNCHANGED <<todo, lost, missed, faults>>
       \/ /\ remote
          /\ stage' = [stage EXCEPT ![t] = "ended"] /\ todo' = [todo EXCEPT ![t] = {}]
          /\ lost' = lost \cup ctrl[t] /\ Fault
          /\ UNCHANGED <<engine, missed>>
       \/ /\ ~remote /\ format # "common"
          /\ stage' = [stage EXCEPT ![t] = "copy"] /\ Fault
          /\ UNCHANGED <<engine, todo, lost, missed>>
    /\ UNCHANGED <<job, open, buffer, blobs, memory, group, copied, failed, target, report>>

(* A record the producer cannot read is logged and left out.               *)
Skip(t, f) ==
    /\ Alive /\ stage[t] = "copy" /\ f \in todo[t]
    /\ todo' = [todo EXCEPT ![t] = @ \ {f}]
    /\ lost' = lost \cup {f} /\ Fault
    /\ UNCHANGED <<job, stage, engine, open, buffer, blobs, memory, group, copied, failed, target,
                   report, missed>>

Fail(t, fs) ==
    /\ failed' = [failed EXCEPT ![t] = @ \cup fs]
    /\ Fault

(* The name f, of that inode.                                              *)
Named(f, inode) == [n \in DOMAIN names \cup {f} |-> IF n = f THEN inode ELSE names[n]]

(* copy_one_local_file: File::create empties what has the name, so another *)
(* name of the same inode too, or makes a new inode.                       *)
Open(t, f) ==
    /\ Alive /\ stage[t] = "copy" /\ f \in todo[t] /\ ~Aggregates(t, f)
    /\ todo' = [todo EXCEPT ![t] = @ \ {f}]
    /\ \/ /\ names' = IF f \in DOMAIN names THEN names ELSE Named(f, f)
          /\ open' = [open EXCEPT ![t] = @ \cup {<<f, names'[f]>>}]
          /\ whole' = whole \ {names'[f]}
          /\ times' = (times /\ f \in DOMAIN names)
          /\ UNCHANGED <<failed, faults>>
       \/ Fail(t, {f}) /\ UNCHANGED <<open, names, whole, times>>
    /\ UNCHANGED <<job, stage, engine, buffer, blobs, memory, group, copied, held, index, report, history>>

(* The open file is written even if a link has since replaced its name.    *)
Close(t, f, inode) ==
    /\ Alive
    /\ open' = [open EXCEPT ![t] = @ \ {<<f, inode>>}]
    /\ \/ /\ whole' = whole \cup {inode}
          /\ copied' = [copied EXCEPT ![t] = @ \cup {f}]
          /\ UNCHANGED <<failed, faults>>
       \/ Fail(t, {f}) /\ UNCHANGED <<whole, copied>>
    /\ UNCHANGED <<job, stage, engine, todo, buffer, blobs, memory, group, names, held, index, times,
                   report, history>>

(* LocalAggregateState::add_file: the file that fills a bucket's buffer    *)
(* takes all of it away, to be written as a blob.                          *)
Push(t, f) ==
    /\ Alive /\ stage[t] = "copy" /\ f \in todo[t] /\ Aggregates(t, f)
    /\ todo' = [todo EXCEPT ![t] = @ \ {f}]
    /\ LET own == {g \in buffer[t] : Bucket(g) = Bucket(f)} \cup {f}
       IN IF Cardinality(own) < BlobFiles
          THEN buffer' = [buffer EXCEPT ![t] = @ \cup {f}] /\ UNCHANGED blobs
          ELSE /\ buffer' = [buffer EXCEPT ![t] = @ \ own]
               /\ blobs' = [blobs EXCEPT ![t] = @ \cup {own}]
    /\ UNCHANGED <<job, stage, engine, open, memory, group, copied, failed, target, report, history, faults>>

(* Faulty variant: a blob's files are counted before it is written.        *)
BlobFailed_Counted(t, b) == copied' = [copied EXCEPT ![t] = @ \cup b] /\ Fault /\ UNCHANGED failed

BlobFailed(t, b) == Fail(t, b) /\ UNCHANGED copied

HoldBlob(b) == held' = held \cup b
AddToIndex(t, b) == memory' = [memory EXCEPT ![t] = @ \cup b]

(* write_aggregate_blob.                                                   *)
WriteBlob(t, b) ==
    /\ Alive /\ b \in blobs[t]
    /\ blobs' = [blobs EXCEPT ![t] = @ \ {b}]
    /\ \/ /\ HoldBlob(b) /\ AddToIndex(t, b)
          /\ copied' = [copied EXCEPT ![t] = @ \cup b]
          /\ UNCHANGED <<failed, faults>>
       \/ BlobFailed(t, b) /\ UNCHANGED <<held, memory>>
    /\ times' = FALSE
    /\ UNCHANGED <<job, stage, engine, todo, open, buffer, group, names, whole, index, report, history>>

(* The producer is done and the workers are joined.                        *)
WorkersDone(t) == todo[t] = {} /\ open[t] = {} /\ blobs[t] = {}

JoinWorkers(t) ==
    /\ Alive /\ stage[t] = "copy" /\ WorkersDone(t)
    /\ stage' = [stage EXCEPT ![t] =
                    IF remote THEN "ended" ELSE IF t \in engine THEN "flush" ELSE "links"]
    /\ group' = [group EXCEPT ![t].groups = DOMAIN Links]
    /\ UNCHANGED <<job, copying, copied, failed, target, report, history, faults>>

(* flush_local_aggregate_state: the last blobs, then the indexes.          *)
FlushBuffers(t) ==
    /\ Alive /\ stage[t] = "flush" /\ buffer[t] # {}
    /\ \E f \in buffer[t] :
          LET own == {g \in buffer[t] : Bucket(g) = Bucket(f)}
          IN /\ buffer' = [buffer EXCEPT ![t] = @ \ own]
             /\ blobs' = [blobs EXCEPT ![t] = @ \cup {own}]
    /\ UNCHANGED <<job, stage, engine, todo, open, memory, group, copied, failed, target, report, history,
                   faults>>

EndFlush(t) ==
    /\ Alive /\ stage[t] = "flush" /\ buffer[t] = {} /\ blobs[t] = {}
    /\ stage' = [stage EXCEPT ![t] = "index"]
    /\ UNCHANGED <<job, copying, group, copied, failed, target, report, history, faults>>

(* One index, or one of each directory; the first that cannot be written   *)
(* keeps the others from being written, and that is only logged.           *)
RecordsOf(t, keys) == {f \in memory[t] : Bucket(f) \in keys}

FlushIndexes(t) ==
    /\ Alive /\ stage[t] = "index"
    /\ LET keys == {Bucket(f) : f \in memory[t]}
       IN \/ index' = index \cup memory[t] /\ UNCHANGED <<lost, faults>>
          \/ \E done \in SUBSET keys \ {keys} :
                /\ index' = index \cup RecordsOf(t, done)
                /\ lost' = lost \cup RecordsOf(t, keys \ done) /\ Fault
    /\ times' = FALSE
    /\ stage' = [stage EXCEPT ![t] = "links"]
    /\ UNCHANGED <<job, copying, group, copied, failed, names, whole, held, report, missed>>
-----------------------------------------------------------------------------
(* The hardlink phase.  The first name of a group that is at the target is *)
(* the one the others are linked to.                                       *)
ChooseGroup(t, g) ==
    /\ Alive /\ stage[t] = "links" /\ group[t].rest = <<>> /\ g \in group[t].groups
    /\ LET there == {n \in DOMAIN Links[g] : Links[g][n] \in DOMAIN names}
           left == group[t].groups \ {g}
       IN \/ /\ there = {}
             /\ group' = [group EXCEPT ![t] = [NoGroup EXCEPT !.groups = left]]
          \/ \E n \in there :
                /\ \A k \in there : n <= k
                /\ group' = [group EXCEPT ![t] =
                      [groups |-> left, to |-> Links[g][n], rest |-> Links[g], step |-> "check"]]
    /\ UNCHANGED <<job, stage, copying, copied, failed, target, report, history, faults>>

Advance(t) == group' = [group EXCEPT ![t].rest = Tail(@), ![t].step = "check"]
GoOn(t, s) == group' = [group EXCEPT ![t].step = s]

(* A name that is there and not yet linked is removed, then linked; in     *)
(* between others may remove or make either.  Failures are counted in      *)
(* statistics of the phase that nobody reads.                              *)
CheckName(t) ==
    /\ Alive /\ stage[t] = "links" /\ group[t].rest # <<>> /\ group[t].step = "check"
    /\ LET f == Head(group[t].rest)
           to == group[t].to
           linked == {f, to} \subseteq DOMAIN names /\ names[f] = names[to]
       IN IF f = to \/ linked THEN Advance(t)
          ELSE GoOn(t, IF f \in DOMAIN names THEN "remove" ELSE "link")
    /\ UNCHANGED <<job, stage, copying, copied, failed, target, report, history, faults>>

RemoveName(t) ==
    /\ Alive /\ stage[t] = "links" /\ group[t].rest # <<>> /\ group[t].step = "remove"
    /\ LET f == Head(group[t].rest)
       IN \/ /\ f \in DOMAIN names
             /\ names' = Restrict(names, DOMAIN names \ {f}) /\ times' = FALSE
             /\ GoOn(t, "link") /\ UNCHANGED <<missed, faults>>
          \/ /\ f \notin DOMAIN names
             /\ missed' = missed \cup {"links"}
             /\ Advance(t) /\ UNCHANGED <<names, times, faults>>
          \/ /\ Advance(t) /\ UNCHANGED <<names, times>>
             /\ missed' = missed \cup {"links"} /\ Fault
    /\ UNCHANGED <<job, stage, copying, copied, failed, whole, held, index, report, lost>>

LinkName(t) ==
    /\ Alive /\ stage[t] = "links" /\ group[t].rest # <<>> /\ group[t].step = "link"
    /\ Advance(t)
    /\ LET f == Head(group[t].rest)
           to == group[t].to
       IN \/ /\ to \in DOMAIN names /\ f \notin DOMAIN names
             /\ names' = Named(f, names[to]) /\ times' = FALSE
             /\ UNCHANGED <<history, faults>>
          \/ /\ f \in DOMAIN names
             /\ missed' = missed \cup {"links"}
             /\ UNCHANGED <<names, times, lost, faults>>
          \/ /\ to \notin DOMAIN names /\ f \notin DOMAIN names
             /\ lost' = lost \cup {f}
             /\ UNCHANGED <<names, times, missed, faults>>
          \/ /\ lost' = lost \cup {f} /\ missed' = missed \cup {"links"} /\ Fault
             /\ UNCHANGED <<names, times>>
    /\ UNCHANGED <<job, stage, copying, copied, failed, whole, held, index, report>>

EndLinks(t) ==
    /\ Alive /\ stage[t] = "links" /\ group[t].groups = {} /\ group[t].rest = <<>>
    /\ stage' = [stage EXCEPT ![t] = "times"]
    /\ UNCHANGED <<job, copying, group, copied, failed, target, report, history, faults>>

RestoreTimes(t) ==
    /\ Alive /\ stage[t] = "times"
    /\ stage' = [stage EXCEPT ![t] = "ended"]
    /\ \/ times' = TRUE /\ UNCHANGED <<missed, faults>>
       \/ UNCHANGED times /\ missed' = missed \cup {"times"} /\ Fault
    /\ UNCHANGED <<job, copying, group, copied, failed, names, whole, held, index, report, lost>>
-----------------------------------------------------------------------------
Init ==
    /\ phase = "new" /\ format \in Formats /\ remote \in Remote
    /\ remote => format = "common"
    /\ ctrl = <<>> /\ at = 1 /\ stage = <<>> /\ engine = {}
    /\ todo = <<>> /\ open = <<>> /\ buffer = <<>> /\ blobs = <<>> /\ memory = <<>>
    /\ group = <<>> /\ copied = <<>> /\ failed = <<>>
    /\ names = <<>> /\ whole = {} /\ held = {} /\ index = {} /\ times = FALSE
    /\ status = <<>> /\ record = <<>> /\ placed = {}
    /\ lost = {} /\ missed = {} /\ faults = 0

Finished == ~Alive /\ UNCHANGED vars

Next ==
    \/ CreateDirs \/ CheckSource \/ WriteMagic \/ RemoveMagic \/ Scan
    \/ Spawn \/ Join \/ WriteManifest \/ Upload \/ Crash \/ Finished
    \/ \E t \in Subtasks :
          \/ Start(t) \/ JoinWorkers(t) \/ FlushBuffers(t) \/ EndFlush(t) \/ FlushIndexes(t)
          \/ \E f \in Files : Skip(t, f) \/ Open(t, f) \/ Push(t, f)
          \/ \E o \in open[t] : Close(t, o[1], o[2])
          \/ \E b \in blobs[t] : WriteBlob(t, b)
          \/ \E g \in DOMAIN Links : ChooseGroup(t, g)
          \/ CheckName(t) \/ RemoveName(t) \/ LinkName(t) \/ EndLinks(t) \/ RestoreTimes(t)

Spec == Init /\ [][Next]_vars
-----------------------------------------------------------------------------
(* What a restore would find: a whole file of the name, or a blob that an  *)
(* index leads to.                                                         *)
InCopy(f) == (f \in DOMAIN names /\ names[f] \in whole) \/ f \in index

Alike(f) == {f} \cup UNION {Range(Links[g]) : g \in {h \in DOMAIN Links : f \in Range(Links[h])}}

(* What the manifest of a copy says: every file of a subtask that it       *)
(* records as succeeded is in the copy, whatever the other subtasks did,   *)
(* and however the job ended.  Two exceptions: the errors that are only    *)
(* logged, as of a link that cannot be made (two subtasks that link one    *)
(* group to different names may each remove the other's), and a copy that  *)
(* failed in another subtask, of another name of the file: as the names    *)
(* may be linked already, it spoils this one.                              *)
HonestManifest ==
    "manifest" \in placed =>
        \A t \in Subtasks : record[t] =>
            \A f \in ctrl[t] :
                \/ InCopy(f) \/ Alike(f) \cap lost # {}
                \/ \E u \in Subtasks \ {t} : Alike(f) \cap failed[u] # {}

(* A remote copy has a manifest only after all of its metadata and control *)
(* files (but for those skipped with a logged error), and no status file   *)
(* contradicts it: a job that crashes or fails at any moment leaves a copy *)
(* that shows it is not complete.                                          *)
ManifestLast ==
    "manifest" \in placed =>
        /\ remote => Range(Parts) \subseteq placed \cup missed
        /\ \A t \in Subtasks :
              /\ stage[t] = "ended"
              /\ "DONE" \in status[t] => record[t]
              /\ "FAILED" \in status[t] => ~record[t]
              /\ "RUNNING" \in status[t] => "status" \in missed

OneInode(g) == Cardinality({names[f] : f \in Range(Links[g])}) = 1

(* A job to a local target that ended without any error, and with no link  *)
(* that could not be made, has copied every file, and the directories have *)
(* their times.  It has the source's links if one hardlink phase made      *)
(* them, or if each inode has two names, though the hardlink phases of its *)
(* subtasks ran while others copied or linked.  (With two phases and three *)
(* names of an inode, one may end alone on an inode of its own.)           *)
ExactCopy ==
    phase = "ok" /\ faults = 0 /\ lost = {} /\ ~remote =>
        /\ \A f \in Files : InCopy(f)
        /\ format = "common" =>
              \A g \in DOMAIN Links : Len(ctrl) = 1 \/ Len(Links[g]) <= 2 => OneInode(g)
        /\ times
=============================================================================
