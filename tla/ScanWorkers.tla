---------------------------- MODULE ScanWorkers ----------------------------
(***************************************************************************)
(* The native scan (native.rs, native/scanner.rs, scanner/engine.rs): a    *)
(* pool of workers takes directories from a shared queue, puts the         *)
(* subdirectories back into it and the listings into a bounded output      *)
(* queue; writers store the listings; a terminator joins the workers,      *)
(* closes the output queue and joins the writers.                          *)
(*                                                                         *)
(* The output queue is the Channel that BlockingQueue implements.  The     *)
(* directory queue is a set here, since SpillQueue keeps no order; its     *)
(* errors are in SpillQueue.                                               *)
(***************************************************************************)
EXTENDS Naturals, Sequences, FiniteSets

CONSTANTS Dirs,          \* the directories of the tree
          Subdirs,       \* the subdirectories of each, those entry tests skip left out
          Roots,         \* the enqueued paths
          Pruned,        \* should_descend_dir is FALSE
          Unemitted,     \* should_emit_dir is FALSE and no file was collected
          Workers,       \* traversal threads (worker_count of them)
          Writers,       \* metadata writers (writer_count of them)
          Capacity,      \* DEFAULT_SCAN_QUEUE_CAPACITY
          WritersPanic,  \* may storing a listing fail (expect)?
          None           \* no directory

ASSUME TreeAssumption ==
    /\ IsFiniteSet(Dirs) /\ None \notin Dirs
    /\ Subdirs \in [Dirs -> SUBSET Dirs]
    /\ Roots \subseteq Dirs /\ Roots # {}   \* else start returns EmptyEnqueue
    /\ Pruned \subseteq Dirs /\ Unemitted \subseteq Dirs

ASSUME PoolAssumption ==
    /\ IsFiniteSet(Workers) /\ Workers # {}
    /\ IsFiniteSet(Writers) /\ Writers # {}
    /\ Capacity \in Nat \ {0} /\ WritersPanic \in BOOLEAN

VARIABLES
    pending,   \* dirent_queue
    active,    \* active_workers
    pc,        \* where each worker is
    dir,       \* the directory each worker has taken
    todo,      \* the subdirectories it has still to enqueue
    sawEmpty,  \* queue_empty, each worker's last reading of it
    output,    \* output_queue
    open,      \* it has not been closed
    ended,     \* the writers whose pop has returned None
    batch,     \* the listing each writer has taken
    dead,      \* the writers that have panicked
    terminator,\* where the terminator thread is
    enqueued,  \* history: directories pushed into dirent_queue
    listed,    \* history: directories whose entries have been read
    failed,    \* directories inc_failed_dirs, or inc_failed_files, was called for
    stored     \* directories with an entry in a writer's cache file

work == <<pending, active, pc, dir, todo, sawEmpty, enqueued, listed, failed>>
pool == <<batch, dead, stored>>
out  == <<output, open, ended>>
vars == <<work, pool, out, terminator>>

Out == INSTANCE Channel WITH Items <- Dirs, Receivers <- Writers,
                             buffer <- output

(* "pop": about to pop; "taken": popped, not yet counted as active; "stat",*)
(* "list", "enqueue", "emit": in process_dir_entry; "leave": about to      *)
(* decrement; "idle", "decide": the two readings after Ok(None).           *)
WorkerState == {"pop", "taken", "stat", "list", "enqueue", "emit", "leave",
                "idle", "decide", "done"}

Counted == {"stat", "list", "enqueue", "emit", "leave"}
Holding == {"taken", "stat", "list", "enqueue", "emit"}
Busy == Holding \cup {"pop", "leave"}

At(w, s) == pc[w] = s
Goto(w, s) == pc' = [pc EXCEPT ![w] = s]

-----------------------------------------------------------------------------
Init ==
    /\ pending = Roots /\ enqueued = Roots
    /\ active = 0
    /\ pc = [w \in Workers |-> "pop"]
    /\ dir = [w \in Workers |-> None]
    /\ todo = [w \in Workers |-> {}]
    /\ sawEmpty = [w \in Workers |-> FALSE]
    /\ Out!Init
    /\ batch = [v \in Writers |-> None]
    /\ dead = {}
    /\ terminator = "workers"
    /\ listed = {} /\ failed = {} /\ stored = {}

(* Ok(Some(dir_entry)), up to the fetch_add.                               *)
PopDir(w) ==
    /\ At(w, "pop")
    /\ \E d \in pending : /\ pending' = pending \ {d}
                          /\ dir' = [dir EXCEPT ![w] = d]
    /\ Goto(w, "taken")
    /\ UNCHANGED <<active, todo, sawEmpty, enqueued, listed, failed, pool, out, terminator>>

(* Faulty variant: pop says None while directories remain.                 *)
PopNothing_Early(w) ==
    /\ At(w, "pop")
    /\ Goto(w, "idle")
    /\ UNCHANGED <<pending, active, dir, todo, sawEmpty, enqueued, listed, failed,
                   pool, out, terminator>>

(* Ok(None), and the sleep.                                                *)
PopNothing(w) ==
    /\ At(w, "pop")
    /\ pending = {}
    /\ Goto(w, "idle")
    /\ UNCHANGED <<pending, active, dir, todo, sawEmpty, enqueued, listed, failed,
                   pool, out, terminator>>

Activate(w) ==
    /\ At(w, "taken")
    /\ active' = active + 1
    /\ Goto(w, "stat")
    /\ UNCHANGED <<pending, dir, todo, sawEmpty, enqueued, listed, failed,
                   pool, out, terminator>>

(* The subtree filter and stat_dir, which may fail for good.               *)
Stat(w) ==
    /\ At(w, "stat")
    /\ \/ dir[w] \in Pruned /\ Goto(w, "leave") /\ UNCHANGED failed
       \/ dir[w] \notin Pruned /\ Goto(w, "list") /\ UNCHANGED failed
       \/ /\ dir[w] \notin Pruned /\ Goto(w, "leave")
          /\ failed' = failed \cup {dir[w]}
    /\ UNCHANGED <<pending, active, dir, todo, sawEmpty, enqueued, listed,
                   pool, out, terminator>>

(* read_dir, which may fail too; then the listing is emitted without       *)
(* entries.  An entry whose type cannot be determined counts as failed.    *)
List(w) ==
    LET found == Subdirs[dir[w]] \ Pruned IN
    /\ At(w, "list")
    /\ \/ /\ \E bad \in SUBSET found :
               /\ todo' = [todo EXCEPT ![w] = found \ bad]
               /\ failed' = failed \cup bad
          /\ listed' = listed \cup {dir[w]}
          /\ Goto(w, "enqueue")
       \/ /\ failed' = failed \cup {dir[w]}
          /\ Goto(w, "emit")
          /\ UNCHANGED <<todo, listed>>
    /\ UNCHANGED <<pending, active, dir, sawEmpty, enqueued, pool, out, terminator>>

(* process_dir_subentry, one subdirectory at a time.                       *)
Enqueue(w) ==
    /\ At(w, "enqueue")
    /\ \E d \in todo[w] :
          /\ pending' = pending \cup {d}
          /\ enqueued' = enqueued \cup {d}
          /\ todo' = [todo EXCEPT ![w] = @ \ {d}]
    /\ UNCHANGED <<pc, active, dir, sawEmpty, listed, failed, pool, out, terminator>>

EntriesDone(w) ==
    /\ At(w, "enqueue") /\ todo[w] = {}
    /\ Goto(w, "emit")
    /\ UNCHANGED <<pending, active, dir, todo, sawEmpty, enqueued, listed, failed,
                   pool, out, terminator>>

(* Faulty variant: the push does not wait for room.                        *)
Emit_NoWait(w) ==
    /\ At(w, "emit")
    /\ IF dir[w] \in Unemitted \/ Len(output) = Capacity
       THEN UNCHANGED out ELSE Out!Send(dir[w])
    /\ Goto(w, "leave")
    /\ UNCHANGED <<pending, active, dir, todo, sawEmpty, enqueued, listed, failed,
                   pool, terminator>>

(* The push of the listing, which waits for room; an error (closed) is     *)
(* ignored.  A listing the filter rejects is dropped.                      *)
Emit(w) ==
    /\ At(w, "emit")
    /\ IF dir[w] \in Unemitted \/ ~open THEN UNCHANGED out ELSE Out!Send(dir[w])
    /\ Goto(w, "leave")
    /\ UNCHANGED <<pending, active, dir, todo, sawEmpty, enqueued, listed, failed,
                   pool, terminator>>

(* Faulty variant: an early return skips the decrement.                    *)
Deactivate_Leak(w) ==
    /\ At(w, "leave")
    /\ dir' = [dir EXCEPT ![w] = None]
    /\ Goto(w, "pop")
    /\ UNCHANGED <<pending, active, todo, sawEmpty, enqueued, listed, failed,
                   pool, out, terminator>>

Deactivate(w) ==
    /\ At(w, "leave")
    /\ active' = active - 1
    /\ dir' = [dir EXCEPT ![w] = None]
    /\ Goto(w, "pop")
    /\ UNCHANGED <<pending, todo, sawEmpty, enqueued, listed, failed, pool, out, terminator>>

(* queue_empty is read first, active_workers afterwards.                   *)
ReadQueue(w) ==
    /\ At(w, "idle")
    /\ sawEmpty' = [sawEmpty EXCEPT ![w] = (pending = {})]
    /\ Goto(w, "decide")
    /\ UNCHANGED <<pending, active, dir, todo, enqueued, listed, failed, pool, out, terminator>>

ReadActive(w) ==
    /\ At(w, "decide")
    /\ Goto(w, IF sawEmpty[w] /\ active = 0 THEN "done" ELSE "pop")
    /\ UNCHANGED <<pending, active, dir, todo, sawEmpty, enqueued, listed, failed,
                   pool, out, terminator>>

Worker(w) ==
    \/ PopDir(w) \/ PopNothing(w) \/ Activate(w) \/ Stat(w) \/ List(w)
    \/ Enqueue(w) \/ EntriesDone(w) \/ Emit(w) \/ Deactivate(w)
    \/ ReadQueue(w) \/ ReadActive(w)

-----------------------------------------------------------------------------
(* A writer's pop.                                                         *)
TakeBatch(v) ==
    /\ v \notin dead /\ batch[v] = None
    /\ Out!Receive(v)
    /\ batch' = [batch EXCEPT ![v] = Head(output)]
    /\ UNCHANGED <<work, dead, stored, terminator>>

(* process_scan_result; its last write is the directory's cache entry.     *)
StoreBatch(v) ==
    /\ v \notin dead /\ batch[v] # None
    /\ stored' = stored \cup {batch[v]}
    /\ batch' = [batch EXCEPT ![v] = None]
    /\ UNCHANGED <<work, out, dead, terminator>>

(* An expect in process_scan_result fails: the thread ends with the        *)
(* listing in hand.                                                        *)
WriterPanic(v) ==
    /\ WritersPanic
    /\ v \notin dead /\ batch[v] # None
    /\ dead' = dead \cup {v}
    /\ UNCHANGED <<work, out, batch, stored, terminator>>

WriterEnds(v) ==
    /\ v \notin dead \cup ended /\ batch[v] = None
    /\ Out!End(v)
    /\ UNCHANGED <<work, pool, terminator>>

Writer(v) == TakeBatch(v) \/ StoreBatch(v) \/ WriterPanic(v) \/ WriterEnds(v)

(* Faulty variant: the output queue is closed under the workers.           *)
JoinWorkers_NoJoin ==
    /\ terminator = "workers"
    /\ Out!Close
    /\ terminator' = "writers"
    /\ UNCHANGED <<work, pool>>

(* The joins of the workers, then the close.  join returns for a thread    *)
(* that panicked as well.                                                  *)
JoinWorkers ==
    /\ terminator = "workers"
    /\ \A w \in Workers : At(w, "done")
    /\ Out!Close
    /\ terminator' = "writers"
    /\ UNCHANGED <<work, pool>>

(* The join of the writers, the control files (an error is only logged)    *)
(* and terminate_indicator.                                                *)
JoinWriters ==
    /\ terminator = "writers"
    /\ ended \cup dead = Writers
    /\ terminator' = "finished"
    /\ UNCHANGED <<work, pool, out>>

Complete == terminator = "finished"

Finished == Complete /\ UNCHANGED vars

Next ==
    \/ \E w \in Workers : Worker(w)
    \/ \E v \in Writers : Writer(v)
    \/ JoinWorkers \/ JoinWriters
    \/ Finished

Spec == Init /\ [][Next]_vars

(* Every thread keeps running: the operating system schedules it, and no   *)
(* push or pop it can make waits for ever (AllDelivered of BlockingQueue). *)
FairSpec ==
    /\ Spec
    /\ \A w \in Workers : WF_vars(Worker(w))
    /\ \A v \in Writers : WF_vars(Writer(v))
    /\ WF_vars(JoinWorkers) /\ WF_vars(JoinWriters)

-----------------------------------------------------------------------------
TypeOK ==
    /\ pending \subseteq enqueued /\ enqueued \subseteq Dirs
    /\ active \in Nat
    /\ pc \in [Workers -> WorkerState]
    /\ dir \in [Workers -> Dirs \cup {None}]
    /\ todo \in [Workers -> SUBSET Dirs]
    /\ sawEmpty \in [Workers -> BOOLEAN]
    /\ output \in Seq(Dirs) /\ open \in BOOLEAN /\ ended \subseteq Writers
    /\ batch \in [Writers -> Dirs \cup {None}]
    /\ dead \subseteq Writers
    /\ terminator \in {"workers", "writers", "finished"}
    /\ listed \subseteq Dirs /\ failed \subseteq Dirs /\ stored \subseteq Dirs

(* However the pops, the two readings and the exits interleave, there is   *)
(* always a worker left that will take what is still in the queue: the     *)
(* exits of the others never strand a directory.                           *)
NeverStranded == pending # {} => \E w \in Workers : pc[w] \in Busy

(* Every directory put into the queue is somewhere: waiting, in a worker's *)
(* hands, in the output queue, in a writer's hands, stored, counted as     *)
(* failed, or rejected by the filter.  (A worker's push into a closed      *)
(* output queue would drop one in silence.)                                *)
Held(d) ==
    \/ d \in pending
    \/ \E w \in Workers : pc[w] \in Holding /\ dir[w] = d
    \/ \E i \in 1 .. Len(output) : output[i] = d
    \/ \E v \in Writers : batch[v] = d

Accounted ==
    \A d \in enqueued : Held(d) \/ d \in stored \cup failed \cup Pruned \cup Unemitted

(* A scan that reports completion, with no writer dead, has covered the    *)
(* tree: of each directory it read, every subdirectory the filter admits   *)
(* was put into the queue or counted as failed, and all that was queued is *)
(* stored, counted as failed, or rejected by the filter.                   *)
Exhaustive ==
    Complete /\ dead = {} =>
        /\ Roots \subseteq enqueued
        /\ \A d \in listed : Subdirs[d] \ Pruned \subseteq enqueued \cup failed
        /\ enqueued \subseteq stored \cup failed \cup Pruned \cup Unemitted

(* A scan ends; a panic hangs it only when it was the last writer's.       *)
ScanEnds == <>(Complete \/ dead = Writers)
=============================================================================
