----------------------------- MODULE TaskServer -----------------------------
(***************************************************************************)
(* bin/fptserver.rs: request handlers create tasks, each run by a worker   *)
(* process, and signal them; a waiter per task learns of the exit.  Server *)
(* and worker share the task's status.json, which either rewrites in place *)
(* (File::create, then the text), so a write is two steps, and a reader    *)
(* between them finds a torn file.  Under the write lock of the task map   *)
(* one handler at a time reads and writes; worker processes and            *)
(* spawn_task's own writes know no lock.                                   *)
(***************************************************************************)
EXTENDS Naturals, FiniteSets

CONSTANTS Tasks,         \* the create calls, each with the task it makes
          Scans,         \* those that create scan tasks
          MaxScanners,   \* max_scanners_count
          MaxSubtasks,   \* max_subtasks_count
          ClientsLeave,  \* may a client disconnect while its call waits?
          None           \* no status, no call

ASSUME TasksAssumption == IsFiniteSet(Tasks) /\ Scans \subseteq Tasks

ASSUME LimitsAssumption ==
    /\ MaxScanners \in Nat \ {0} /\ MaxSubtasks \in Nat \ {0}
    /\ ClientsLeave \in BOOLEAN

VARIABLES
    call,       \* where each create call is
    file,       \* what a reader of status.json finds
    mixed,      \* another write of the file overlapped the one in progress
    registered, \* keys of the tasks map
    snapshot,   \* ManagedTask.snapshot
    worker,     \* where each worker process is
    writing,    \* it is in the middle of writing the file
    signalled,  \* the signal that will end it
    exit,       \* how it ended
    reconciled, \* the waiter is done with it
    locked      \* the signal_task call that holds the write lock, if any

process == <<worker, signalled, exit>>
vars == <<call, file, mixed, registered, snapshot, worker, writing, signalled, exit, reconciled,
          locked>>

Active   == {"created", "starting", "running", "stopping"}   \* is_active_state
Terminal == {"stopped", "completed", "failed", "killed"}

(* Of a TaskStatusSnapshot: its state, and whether it has the statistics   *)
(* of the finished task.                                                   *)
Status == [state : Active \cup Terminal, stats : BOOLEAN]

(* Nothing is neither a status nor a call.                                 *)
ASSUME NoneAssumption == None \notin Status \cup (Tasks \X {"sigterm", "sigkill"})

St(s) == [state |-> s, stats |-> FALSE]

Readable(t) == file[t] \in Status

(* "boot": has written nothing; "started", "running": has written that;    *)
(* "succeeding", "failing": about to write the result; "zombie": ended;    *)
(* "reaped": waited for.                                                   *)
Alive == {"boot", "started", "running", "succeeding", "succeeded", "failing", "failed"}
WorkerState == Alive \cup {"none", "zombie", "reaped"}
CallState == {"idle", "refused", "admitted", "filed", "spawned", "announcing",
              "announced", "returned", "abandoned"}

Unlocked == locked = None

Exits == {"success", "failure", "sigterm", "sigkill"}

SameLimit(t) == IF t \in Scans THEN Scans ELSE Tasks \ Scans
Limit(t) == IF t \in Scans THEN MaxScanners ELSE MaxSubtasks

-----------------------------------------------------------------------------
Init ==
    /\ call = [t \in Tasks |-> "idle"]
    /\ file = [t \in Tasks |-> None]
    /\ mixed = [t \in Tasks |-> FALSE]
    /\ registered = {}
    /\ snapshot = [t \in Tasks |-> St("created")]
    /\ worker = [t \in Tasks |-> "none"]
    /\ writing = [t \in Tasks |-> FALSE]
    /\ signalled = [t \in Tasks |-> "no"]
    /\ exit = [t \in Tasks |-> "no"]
    /\ reconciled = {}
    /\ locked = None

(* The truncation that begins a write; the end of one.  Two overlapping    *)
(* writes go on at their own offsets: the last to end leaves its text or a *)
(* mixture of both.                                                        *)
BeginWrite(t, other) ==
    /\ file' = [file EXCEPT ![t] = None]
    /\ mixed' = [mixed EXCEPT ![t] = other]

EndWrite(t, status, other) ==
    /\ \/ file' = [file EXCEPT ![t] = IF other THEN None ELSE status]
       \/ mixed[t] /\ UNCHANGED file
    /\ mixed' = [mixed EXCEPT ![t] = other]

ServerWriting(t) == call[t] = "announcing"

-----------------------------------------------------------------------------
(* spawn_task and enforce_limits.  The check refreshes every snapshot; it  *)
(* fails as a whole if one of the files cannot be read.                    *)
EnforceLimits(t) ==
    /\ Unlocked
    /\ call[t] = "idle"
    /\ IF \A u \in registered : Readable(u)
       THEN /\ snapshot' = [u \in Tasks |-> IF u \in registered THEN file[u] ELSE snapshot[u]]
            /\ LET busy == {u \in registered \cap SameLimit(t) : file[u].state \in Active}
               IN call' = [call EXCEPT ![t] = IF Cardinality(busy) >= Limit(t)
                                              THEN "refused" ELSE "admitted"]
       ELSE call' = [call EXCEPT ![t] = "refused"] /\ UNCHANGED snapshot
    /\ UNCHANGED <<file, mixed, registered, process, writing, reconciled, locked>>

(* The task directory, request.json and the first status.                  *)
CreateFiles(t) ==
    /\ call[t] = "admitted"
    /\ call' = [call EXCEPT ![t] = "filed"]
    /\ file' = [file EXCEPT ![t] = St("created")]
    /\ UNCHANGED <<mixed, registered, snapshot, process, writing, reconciled, locked>>

SpawnWorker(t) ==
    /\ call[t] = "filed"
    /\ \/ /\ call' = [call EXCEPT ![t] = "spawned"]
          /\ worker' = [worker EXCEPT ![t] = "boot"]
       \/ call' = [call EXCEPT ![t] = "refused"] /\ UNCHANGED worker
    /\ UNCHANGED <<file, mixed, registered, snapshot, writing, signalled, exit, reconciled, locked>>

(* The status Starting, written after the worker has been let go.          *)
Announce(t) ==
    /\ \/ /\ call[t] = "spawned"
          /\ BeginWrite(t, writing[t])
          /\ call' = [call EXCEPT ![t] = "announcing"]
       \/ /\ call[t] = "announcing"
          /\ EndWrite(t, St("starting"), writing[t])
          /\ call' = [call EXCEPT ![t] = "announced"]
    /\ UNCHANGED <<registered, snapshot, process, writing, reconciled, locked>>

(* The insertion into the map, and the start of the waiter.                *)
Register(t) ==
    /\ Unlocked
    /\ call[t] = "announced"
    /\ call' = [call EXCEPT ![t] = "returned"]
    /\ registered' = registered \cup {t}
    /\ snapshot' = [snapshot EXCEPT ![t] = St("starting")]
    /\ UNCHANGED <<file, mixed, process, writing, reconciled, locked>>

(* The client is gone and the call, waiting for the lock of the map, is    *)
(* dropped; the worker, if there is one, runs on.                          *)
Abandon(t) ==
    /\ ClientsLeave
    /\ call[t] \in {"idle", "announced"}
    /\ call' = [call EXCEPT ![t] = "abandoned"]
    /\ UNCHANGED <<file, mixed, registered, snapshot, process, writing, reconciled, locked>>

-----------------------------------------------------------------------------
(* The worker process: what it writes next, and where it is afterwards.    *)
Writes(s) == CASE s = "boot" -> St("starting")
               [] s = "started" -> St("running")
               [] s = "succeeding" -> [state |-> "completed", stats |-> TRUE]
               [] s = "failing" -> St("failed")

AfterWrite(s) == CASE s = "boot" -> "started"
                   [] s = "started" -> "running"
                   [] s = "succeeding" -> "succeeded"
                   [] s = "failing" -> "failed"

Runs(t) == worker[t] \in Alive /\ signalled[t] = "no"

WorkerWrites(t) ==
    /\ Runs(t) /\ worker[t] \in {"boot", "started", "succeeding", "failing"}
    /\ \/ /\ ~writing[t]
          /\ BeginWrite(t, ServerWriting(t))
          /\ writing' = [writing EXCEPT ![t] = TRUE]
          /\ UNCHANGED worker
       \/ /\ writing[t]
          /\ EndWrite(t, Writes(worker[t]), ServerWriting(t))
          /\ writing' = [writing EXCEPT ![t] = FALSE]
          /\ worker' = [worker EXCEPT ![t] = AfterWrite(@)]
    /\ UNCHANGED <<call, registered, snapshot, signalled, exit, reconciled, locked>>

(* run_scan_task, run_backup_task or run_restore_task returns.             *)
TaskReturns(t) ==
    /\ Runs(t) /\ worker[t] = "running"
    /\ \E r \in {"succeeding", "failing"} : worker' = [worker EXCEPT ![t] = r]
    /\ UNCHANGED <<call, file, mixed, registered, snapshot, writing, signalled, exit, reconciled, locked>>

(* The process ends: it has returned from main, it dies of the signal, or  *)
(* it crashes (a panic, or the system kills it) anywhere before its last   *)
(* write is done.                                                          *)
WorkerEnds(t) ==
    /\ worker[t] \in Alive
    /\ \E e \in Exits :
          /\ exit' = [exit EXCEPT ![t] = e]
          /\ CASE signalled[t] # "no" -> e = signalled[t]
               [] worker[t] = "succeeded" -> e = "success"
               [] worker[t] = "failed" -> e = "failure"
               [] OTHER -> e \in {"failure", "sigkill"}
    /\ worker' = [worker EXCEPT ![t] = "zombie"]
    /\ writing' = [writing EXCEPT ![t] = FALSE]
    /\ UNCHANGED <<call, file, mixed, registered, snapshot, signalled, reconciled, locked>>

-----------------------------------------------------------------------------
(* What a handler holding the lock takes for the latest status.            *)
Latest(t) == IF Readable(t) THEN file[t] ELSE snapshot[t]

(* A write under the lock: no other handler can see the file torn.  A      *)
(* worker in the middle of a write has been signalled, or has ended.       *)
Record(t, status) ==
    /\ file' = [file EXCEPT ![t] = status]
    /\ snapshot' = [snapshot EXCEPT ![t] = status]

(* signal_task, up to the kill(): the latest status is read.               *)
SignalReads(t, sig) ==
    /\ Unlocked /\ t \in registered
    /\ snapshot' = [snapshot EXCEPT ![t] = Latest(t)]
    /\ locked' = <<t, sig>>
    /\ UNCHANGED <<call, file, mixed, registered, process, writing, reconciled>>

(* Faulty variant: the result of kill() is not looked at.                  *)
SignalSends_Unchecked(t, sig) ==
    /\ locked = <<t, sig>>
    /\ locked' = None
    /\ Record(t, [snapshot[t] EXCEPT !.state = IF sig = "sigkill" THEN "killed" ELSE "stopping"])
    /\ signalled' = IF worker[t] \in Alive THEN [signalled EXCEPT ![t] = sig] ELSE signalled
    /\ UNCHANGED <<call, mixed, registered, worker, writing, exit, reconciled>>

(* The kill() and the write of the status read before.  Once the process   *)
(* is reaped kill() fails; until then it succeeds, on a zombie too.        *)
SignalSends(t, sig) ==
    /\ locked = <<t, sig>>
    /\ locked' = None
    /\ IF worker[t] = "reaped"
       THEN UNCHANGED <<file, snapshot, signalled>>
       ELSE /\ Record(t, [snapshot[t] EXCEPT !.state = IF sig = "sigkill" THEN "killed"
                                                       ELSE "stopping"])
            /\ signalled' = IF worker[t] \in Alive /\ signalled[t] # "sigkill"
                            THEN [signalled EXCEPT ![t] = sig] ELSE signalled
    /\ UNCHANGED <<call, mixed, registered, worker, writing, exit, reconciled>>

(* stop_task and kill_task.                                                *)
StopOrKill(t) == \E sig \in {"sigterm", "sigkill"} : SignalReads(t, sig) \/ SignalSends(t, sig)

(* refresh_task_snapshot, for task.get and task.list: an error if the file *)
(* cannot be read.                                                         *)
Refresh(t) ==
    /\ Unlocked /\ t \in registered
    /\ Readable(t)
    /\ snapshot' = [snapshot EXCEPT ![t] = file[t]]
    /\ UNCHANGED <<call, file, mixed, registered, process, writing, reconciled, locked>>

(* child.wait().                                                           *)
Reap(t) ==
    /\ t \in registered /\ worker[t] = "zombie"
    /\ worker' = [worker EXCEPT ![t] = "reaped"]
    /\ UNCHANGED <<call, file, mixed, registered, snapshot, writing, signalled, exit, reconciled, locked>>

(* Faulty variant: signals are not told from failures.                     *)
FinalState_NoSignals(t) == IF exit[t] = "success" THEN "completed" ELSE "failed"

(* The state reconcile_task_exit derives from the exit status.             *)
FinalState(t) == CASE exit[t] = "sigkill" -> "killed"
                   [] exit[t] = "sigterm" -> "stopped"
                   [] exit[t] = "success" -> "completed"
                   [] exit[t] = "failure" -> "failed"

(* Faulty variants: Stopping is taken for a final state; an unreadable     *)
(* file is an error.                                                       *)
Reconcile_KeepsStopping(t) ==
    /\ Unlocked /\ t \in registered \ reconciled /\ worker[t] = "reaped"
    /\ reconciled' = reconciled \cup {t}
    /\ IF Latest(t).state \in Terminal \cup {"stopping"}
       THEN snapshot' = [snapshot EXCEPT ![t] = Latest(t)] /\ UNCHANGED file
       ELSE Record(t, [Latest(t) EXCEPT !.state = FinalState(t)])
    /\ UNCHANGED <<call, mixed, registered, process, writing, locked>>

Reconcile_NeedsFile(t) ==
    /\ Unlocked /\ t \in registered \ reconciled /\ worker[t] = "reaped"
    /\ Readable(t)
    /\ reconciled' = reconciled \cup {t}
    /\ IF file[t].state \in Terminal
       THEN snapshot' = [snapshot EXCEPT ![t] = file[t]] /\ UNCHANGED file
       ELSE Record(t, [file[t] EXCEPT !.state = FinalState(t)])
    /\ UNCHANGED <<call, mixed, registered, process, writing, locked>>

(* reconcile_task_exit: the waiter has the lock.  A final state in the     *)
(* file stands; any other gives way to the exit status.                    *)
Reconcile(t) ==
    /\ Unlocked /\ t \in registered \ reconciled /\ worker[t] = "reaped"
    /\ reconciled' = reconciled \cup {t}
    /\ IF Latest(t).state \in Terminal
       THEN snapshot' = [snapshot EXCEPT ![t] = Latest(t)] /\ UNCHANGED file
       ELSE Record(t, [Latest(t) EXCEPT !.state = FinalState(t)])
    /\ UNCHANGED <<call, mixed, registered, process, writing, locked>>

Handler(t) == EnforceLimits(t) \/ CreateFiles(t) \/ SpawnWorker(t) \/ Announce(t) \/ Register(t)
Process(t) == WorkerWrites(t) \/ TaskReturns(t) \/ WorkerEnds(t)
Waiter(t)  == Reap(t) \/ Reconcile(t)

Next == \E t \in Tasks :
    \/ Handler(t) \/ Abandon(t) \/ Process(t) \/ Waiter(t)
    \/ StopOrKill(t) \/ Refresh(t)

Spec == Init /\ [][Next]_vars

(* Handlers, waiters and processes keep running; a task comes to an end.   *)
FairSpec ==
    /\ Spec
    /\ \A t \in Tasks :
          /\ WF_vars(Handler(t)) /\ WF_vars(Process(t)) /\ SF_vars(Waiter(t))
          /\ \A sig \in {"sigterm", "sigkill"} : WF_vars(SignalSends(t, sig))

-----------------------------------------------------------------------------
TypeOK ==
    /\ call \in [Tasks -> CallState]
    /\ file \in [Tasks -> Status \cup {None}]
    /\ mixed \in [Tasks -> BOOLEAN]
    /\ registered \subseteq Tasks
    /\ snapshot \in [Tasks -> Status]
    /\ worker \in [Tasks -> WorkerState]
    /\ writing \in [Tasks -> BOOLEAN]
    /\ signalled \in [Tasks -> {"no", "sigterm", "sigkill"}]
    /\ exit \in [Tasks -> Exits \cup {"no"}]
    /\ reconciled \subseteq registered
    /\ locked = None \/ locked \in registered \X {"sigterm", "sigkill"}

(* However the writes of server and worker overlap, and wherever the       *)
(* worker dies, the waiter leaves a readable file with a final state.      *)
ReconciledIsFinal ==
    \A t \in reconciled : Readable(t) /\ file[t].state \in Terminal

(* What has been reconciled stays: no late signal, write or refresh        *)
(* changes the state of a finished task.                                   *)
FinalStays == [][\A t \in reconciled : file'[t] = file[t]]_vars

(* The final state agrees with the exit: completed, failed and stopped are *)
(* reported only of a worker that ended that way.                          *)
HonestReport ==
    \A t \in reconciled :
        /\ file[t].state = "completed" => exit[t] = "success"
        /\ file[t].state = "failed" => exit[t] = "failure"
        /\ file[t].state = "stopped" => exit[t] = "sigterm"

(* Every registered task comes to a final state.                           *)
Settles == \A t \in Tasks : (t \in registered) ~> (t \in reconciled)

=============================================================================
