----------------------------- MODULE AsyncCopy ------------------------------
(***************************************************************************)
(* backup/aio: run_copy_pipeline over an AggregatingTarget.  One task per  *)
(* entry of a copy plan, as many at a time as there are permits.  A task   *)
(* makes a directory, or copies a file block by block; a small file is one *)
(* block, which the target only puts into the buffer of its bucket.  The   *)
(* task that finds its bucket full takes the buffer and writes it as one   *)
(* blob.  When all tasks have ended, finish writes what is left in the     *)
(* buffers and then the index.  Every I/O may fail; reads, writes and      *)
(* mkdirs are retried.                                                     *)
(***************************************************************************)
EXTENDS Naturals, Sequences, FiniteSets, SequencesExt

CONSTANTS
    Dirs, Links,     \* directories and symbolic links of the plan
    Small,           \* files below the aggregation threshold, read as one block
    Large,           \* the other files; Blocks[f]: reads each takes
    Blocks,
    Size,            \* sizes of the small files
    Hash, DirOf,     \* their path's hash and directory
    Layouts,         \* the aggregation formats, "Shard" and "DirLevel", to choose from
    Shards, MaxBlob, \* shard_count and max_blob_size
    Permits,         \* max_concurrent_tasks
    MaxAttempts,     \* attempts the retry policy allows
    MaxFaults        \* bound: errors

Files == Small \cup Large
Items == Dirs \cup Links \cup Files

ASSUME SetsAssumption ==
    /\ Small \cap (Large \cup Dirs \cup Links) = {}
    /\ Large \cap (Dirs \cup Links) = {}
    /\ Dirs \cap Links = {}
    /\ IsFiniteSet(Items)
ASSUME FilesAssumption ==
    /\ Blocks \in [Large -> Nat \ {0}]
    /\ Size \in [Small -> Nat \ {0}]
    /\ Hash \in [Small -> Nat]
    /\ DirOf \in [Small -> Nat]
ASSUME LimitsAssumption ==
    /\ Layouts \subseteq {"Shard", "DirLevel"} /\ Layouts # {}
    /\ {Shards, MaxBlob, Permits, MaxAttempts} \subseteq Nat \ {0}
    /\ MaxFaults \in Nat

VARIABLES
    layout,       \* the format of the backup at hand
    step,         \* where each item's task is
    attempt,      \* the attempt it makes at its present read, write or mkdir
    block,        \* blocks written of a large file
    bucket,       \* the bucket a small file's write has chosen
    hand,         \* the files a task took out of its bucket
    bytesSeen,    \* bytes_seen
    pending,      \* pending_files of each bucket
    pendingSize,  \* pending_size of each bucket
    blobs,        \* the blobs written, each the sequence of its files
    indexed,      \* the blob the written index names for a file, 0 for none
    main,         \* where run_copy_pipeline is
    finishFailed, \* target.finish returned an error
    lost,         \* history: files of blobs whose write failed
    faults        \* errors so far

Buckets == IF layout = "Shard" THEN 0 .. Shards - 1 ELSE {DirOf[f] : f \in Small}

(* bucket_for_relative_path: the file's directory, or one of the shards,   *)
(* of which more are in use the more bytes have been seen.                 *)
ShardsInUse(seen) ==
    IF seen \div MaxBlob + 1 <= Shards THEN seen \div MaxBlob + 1 ELSE Shards

BucketOf(f, seen) == IF layout = "Shard" THEN Hash[f] % ShardsInUse(seen) ELSE DirOf[f]

taskVars == <<step, attempt, block, bucket, hand>>
bufferVars == <<bytesSeen, pending, pendingSize>>
mainVars == <<indexed, main, finishFailed>>
vars == <<layout, taskVars, bufferVars, blobs, mainVars, lost, faults>>

Running == {"mkdir", "read", "write", "push", "take", "blob"}
Ended == {"copied", "made", "failed", "ignored"}

TypeOK ==
    /\ layout \in Layouts
    /\ step \in [Items -> Running \cup Ended \cup {"planned"}]
    /\ attempt \in [Items -> 1 .. MaxAttempts]
    /\ block \in [Large -> Nat] /\ \A f \in Large : block[f] <= Blocks[f]
    /\ bucket \in [Small -> Buckets]
    /\ hand \in [Small -> Seq(Small)]
    /\ bytesSeen \in Nat
    /\ pending \in [Buckets -> Seq(Small)]
    /\ pendingSize \in [Buckets -> Nat]
    /\ blobs \in Seq(Seq(Small))
    /\ indexed \in [Small -> Nat] /\ \A f \in Small : indexed[f] <= Len(blobs)
    /\ main \in {"tasks", "buffers", "index", "done"}
    /\ finishFailed \in BOOLEAN
    /\ lost \subseteq Small
    /\ faults \in 0 .. MaxFaults

Init ==
    /\ layout \in Layouts
    /\ step = [i \in Items |-> "planned"]
    /\ attempt = [i \in Items |-> 1]
    /\ block = [f \in Large |-> 0]
    /\ bucket = [f \in Small |-> BucketOf(f, 0)]
    /\ hand = [f \in Small |-> <<>>]
    /\ bytesSeen = 0
    /\ pending = [b \in Buckets |-> <<>>]
    /\ pendingSize = [b \in Buckets |-> 0]
    /\ blobs = <<>>
    /\ indexed = [f \in Small |-> 0]
    /\ main = "tasks"
    /\ finishFailed = FALSE
    /\ lost = {}
    /\ faults = 0
-----------------------------------------------------------------------------
Go(i, to) == step' = [step EXCEPT ![i] = to]
Fault == faults < MaxFaults /\ faults' = faults + 1

(* retry_async_item: an item that failed is queued again, as its next      *)
(* attempt, until the policy's attempts are used up.                       *)
Retry(i, again) ==
    IF attempt[i] < MaxAttempts
    THEN Go(i, again) /\ attempt' = [attempt EXCEPT ![i] = @ + 1]
    ELSE Go(i, "failed") /\ UNCHANGED attempt

(* A call that succeeds: the next one counts its attempts from one.        *)
Succeed(i, to) == Go(i, to) /\ attempt' = [attempt EXCEPT ![i] = 1]

(* A task is spawned for the entry and acquires its permit.                *)
Start(i) ==
    /\ step[i] = "planned"
    /\ Cardinality({j \in Items : step[j] \in Running}) < Permits
    /\ Go(i, IF i \in Dirs THEN "mkdir" ELSE IF i \in Links THEN "ignored" ELSE "read")
    /\ UNCHANGED <<attempt, block, bucket, hand, bufferVars, blobs, mainVars, lost, faults>>

(* The plan's producer skips an entry whose metadata it cannot read.       *)
Skip(i) ==
    /\ step[i] = "planned"
    /\ Fault
    /\ Go(i, "ignored")
    /\ UNCHANGED <<attempt, block, bucket, hand, bufferVars, blobs, mainVars, lost>>

MakeDir(i) ==
    /\ step[i] = "mkdir"
    /\ \/ Succeed(i, "made") /\ UNCHANGED faults
       \/ Retry(i, "mkdir") /\ Fault
    /\ UNCHANGED <<block, bucket, hand, bufferVars, blobs, mainVars, lost>>

(* One block is read.  A file that has become shorter than its metadata    *)
(* say yields an empty block before its end, and fails at once.            *)
Read(f) ==
    /\ step[f] = "read"
    /\ \/ Succeed(f, "write") /\ UNCHANGED faults
       \/ Retry(f, "read") /\ Fault
       \/ Succeed(f, "failed") /\ Fault
    /\ UNCHANGED <<block, bucket, hand, bufferVars, blobs, mainVars, lost>>

(* Faulty variant: the offset does not advance.                            *)
WriteDirect_Stays(f) ==
    /\ f \in Large /\ step[f] = "write"
    /\ \/ Succeed(f, IF block[f] + 1 = Blocks[f] THEN "copied" ELSE "read") /\ UNCHANGED faults
       \/ Retry(f, "write") /\ Fault
    /\ UNCHANGED <<block, bucket, hand, bufferVars, blobs, mainVars, lost>>

(* A block that is not aggregated goes straight to the inner target.       *)
WriteDirect(f) ==
    /\ f \in Large /\ step[f] = "write"
    /\ \/ /\ Succeed(f, IF block[f] + 1 = Blocks[f] THEN "copied" ELSE "read")
          /\ block' = [block EXCEPT ![f] = @ + 1]
          /\ UNCHANGED faults
       \/ Retry(f, "write") /\ Fault /\ UNCHANGED block
    /\ UNCHANGED <<bucket, hand, bufferVars, blobs, mainVars, lost>>
-----------------------------------------------------------------------------
(* write_block of a small file: bytes_seen is read back after the addition *)
(* and chooses the bucket.                                                 *)
Count(f) ==
    /\ f \in Small /\ step[f] = "write"
    /\ bytesSeen' = bytesSeen + Size[f]
    /\ bucket' = [bucket EXCEPT ![f] = BucketOf(f, bytesSeen')]
    /\ Go(f, "push")
    /\ UNCHANGED <<attempt, block, hand, pending, pendingSize, blobs, mainVars, lost, faults>>

IsFull(b) == pendingSize'[b] >= MaxBlob

(* The first locked section: the file goes into its bucket.  If that is    *)
(* now full the task goes on to take it; otherwise the write has succeeded *)
(* and the file counts as copied.                                          *)
Push(f) ==
    LET b == bucket[f]
    IN /\ step[f] = "push"
       /\ pending' = [pending EXCEPT ![b] = Append(@, f)]
       /\ pendingSize' = [pendingSize EXCEPT ![b] = @ + Size[f]]
       /\ IF IsFull(b) THEN Go(f, "take") /\ UNCHANGED attempt ELSE Succeed(f, "copied")
       /\ UNCHANGED <<block, bucket, hand, bytesSeen, blobs, mainVars, lost, faults>>

Emptied(b) ==
    /\ pending' = [pending EXCEPT ![b] = <<>>]
    /\ pendingSize' = [pendingSize EXCEPT ![b] = 0]

(* The second locked section takes whatever the bucket holds by now, which *)
(* is nothing if another task has taken it in between.                     *)
Take(f) ==
    /\ step[f] = "take"
    /\ hand' = [hand EXCEPT ![f] = pending[bucket[f]]]
    /\ Emptied(bucket[f])
    /\ Go(f, "blob")
    /\ UNCHANGED <<attempt, block, bucket, bytesSeen, blobs, mainVars, lost, faults>>

(* Faulty variant: the blob's metadata is not kept for the index.          *)
Recorded_Not(files) == UNCHANGED blobs

Recorded(files) == blobs' = Append(blobs, files)

(* write_blob from the task that took the buffer.  On an error the files   *)
(* taken are gone; only the task's own block comes back and is retried.    *)
WriteBlob(f) ==
    /\ step[f] = "blob"
    /\ hand' = [hand EXCEPT ![f] = <<>>]
    /\ \/ Succeed(f, "copied") /\ Recorded(hand[f]) /\ UNCHANGED <<lost, faults>>
       \/ Retry(f, "write") /\ Fault /\ lost' = lost \cup ToSet(hand[f]) /\ UNCHANGED blobs
    /\ UNCHANGED <<block, bucket, bufferVars, mainVars>>
-----------------------------------------------------------------------------
(* Faulty variant: finish does not wait for the tasks' end.                *)
JoinTasks_Early ==
    /\ main = "tasks"
    /\ \A i \in Items : step[i] # "planned"
    /\ main' = "buffers"
    /\ UNCHANGED <<taskVars, bufferVars, blobs, indexed, finishFailed, lost, faults>>

(* Every entry has its task and all tasks have ended: finish begins.       *)
JoinTasks ==
    /\ main = "tasks"
    /\ \A i \in Items : step[i] \in Ended
    /\ main' = "buffers"
    /\ UNCHANGED <<taskVars, bufferVars, blobs, indexed, finishFailed, lost, faults>>

(* finish's early return: the remaining buckets and the index stay as they *)
(* are, and the pipeline adds one to files_failed.                         *)
Abandon == Fault /\ main' = "done" /\ finishFailed' = TRUE /\ UNCHANGED <<blobs, indexed>>

FinishBucket(b) ==
    /\ main = "buffers"
    /\ pending[b] # <<>>
    /\ Emptied(b)
    /\ \/ Recorded(pending[b]) /\ UNCHANGED <<lost, faults, mainVars>>
       \/ Abandon /\ lost' = lost \cup ToSet(pending[b])
    /\ UNCHANGED <<taskVars, bytesSeen>>

BuffersDone ==
    /\ main = "buffers"
    /\ \A b \in Buckets : pending[b] = <<>>
    /\ main' = "index"
    /\ UNCHANGED <<taskVars, bufferVars, blobs, indexed, finishFailed, lost, faults>>

(* The files one index file covers: all of them, or those of a directory.  *)
IndexFiles == IF layout = "Shard" THEN {Small} ELSE {{f \in Small : DirOf[f] = d} : d \in Buckets}

(* Of a file in several blobs the index names the last.                    *)
LastBlob(f) ==
    LET holding == {n \in 1 .. Len(blobs) : f \in ToSet(blobs[n])}
    IN IF holding = {} THEN 0 ELSE CHOOSE n \in holding : \A k \in holding : k <= n

(* flush_shard_index, and one round of flush_dir_level_indexes.            *)
WriteIndex(files) ==
    /\ main = "index"
    /\ \E f \in files : indexed[f] # LastBlob(f)
    /\ \/ /\ indexed' = [f \in Small |-> IF f \in files THEN LastBlob(f) ELSE indexed[f]]
          /\ UNCHANGED <<blobs, main, finishFailed, faults>>
       \/ Abandon
    /\ UNCHANGED <<taskVars, bufferVars, lost>>

IndexDone ==
    /\ main = "index"
    /\ \A f \in Small : indexed[f] = LastBlob(f)
    /\ main' = "done"
    /\ UNCHANGED <<taskVars, bufferVars, blobs, indexed, finishFailed, lost, faults>>
-----------------------------------------------------------------------------
CopyDir(i) == (Start(i) \/ Skip(i) \/ MakeDir(i)) /\ UNCHANGED layout
CopyFile(f) ==
    /\ \/ Start(f) \/ Skip(f) \/ Read(f) \/ WriteDirect(f)
       \/ Count(f) \/ Push(f) \/ Take(f) \/ WriteBlob(f)
    /\ UNCHANGED layout

Main ==
    /\ \/ JoinTasks \/ BuffersDone \/ IndexDone
       \/ \E b \in Buckets : FinishBucket(b)
       \/ \E files \in IndexFiles : WriteIndex(files)
    /\ UNCHANGED layout

Finished == main = "done" /\ UNCHANGED vars

Next ==
    \/ \E i \in Dirs \cup Links : CopyDir(i)
    \/ \E f \in Files : CopyFile(f)
    \/ Main
    \/ Finished

Spec == Init /\ [][Next]_vars

(* The runtime runs every task that can go on, and the pipeline's own.     *)
FairSpec ==
    /\ Spec
    /\ \A i \in Dirs \cup Links : WF_vars(CopyDir(i))
    /\ \A f \in Files : WF_vars(CopyFile(f))
    /\ WF_vars(Main)
-----------------------------------------------------------------------------
InBuffers(f) == \E b \in Buckets : f \in ToSet(pending[b])
InHands(f) == \E g \in Small : f \in ToSet(hand[g])
InBlobs(f) == \E n \in 1 .. Len(blobs) : f \in ToSet(blobs[n])

(* A small file is reported copied when it is only buffered; however the   *)
(* tasks interleave between the two locked sections of write_block, and    *)
(* however often blocks are retried, it stays in a buffer, in the hands of *)
(* a task or in a blob, unless the write of a blob it was put in failed.   *)
CopiedKept ==
    \A f \in Small : step[f] = "copied" => InBuffers(f) \/ InHands(f) \/ InBlobs(f) \/ f \in lost

(* If finish succeeds, every file that was reported copied, and not lost   *)
(* with a blob, can be found by a restore: the index names a blob that     *)
(* holds it.                                                               *)
Restorable ==
    main = "done" /\ ~finishFailed =>
        \A f \in Small \ lost :
            step[f] = "copied" => indexed[f] # 0 /\ f \in ToSet(blobs[indexed[f]])

(* The pipeline returns, whatever fails.                                   *)
PipelineEnds == <>(main = "done")

=============================================================================
