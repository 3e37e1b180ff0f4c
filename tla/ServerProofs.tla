---------------------------- MODULE ServerProofs ----------------------------
(***************************************************************************)
(* Proofs about the task server and the restore job it may start.          *)
(* TaskServer: for every number of tasks, every limit, and with or without *)
(* clients that leave.  RestoreJob: for every copy, request and target,    *)
(* any shards, permits and errors; that its plan lists what was asked for, *)
(* each file once, is proved by induction over the directories.            *)
(***************************************************************************)
EXTENDS TaskServer, RestoreJob, SequenceTheorems, FunctionTheorems, FiniteSetTheorems,
        WellFoundedInduction, TLAPS

Signals == {"sigterm", "sigkill"}

-----------------------------------------------------------------------------
(* Type correctness.                                                       *)
LEMMA WritesStatus ==
    ASSUME NEW s \in {"boot", "started", "succeeding", "failing"}
    PROVE  Writes(s) \in Status /\ AfterWrite(s) \in WorkerState
BY DEF Writes, AfterWrite, Status, St, Active, Terminal, WorkerState, Alive

LEMMA FinalIsTerminal ==
    ASSUME NEW t \in Tasks, exit[t] \in Exits
    PROVE  FinalState(t) \in Terminal
BY DEF FinalState, Exits, Terminal

LEMMA LatestStatus ==
    ASSUME TypeOK, NEW t \in Tasks
    PROVE  Latest(t) \in Status
BY DEF Latest, Readable, TypeOK

(* Who has ended has an exit status.                                       *)
Gone == {"zombie", "reaped"}
ExitKnown == \A t \in Tasks : worker[t] \in Gone => exit[t] \in Exits

TypeInv == TypeOK /\ ExitKnown

LEMMA TypeStep == TypeInv /\ [Next]_vars => TypeInv'
<1> SUFFICES ASSUME TypeInv, [Next]_vars PROVE TypeInv'
  OBVIOUS
<1> USE DEF TypeInv, TypeOK, ExitKnown
<1>1. ASSUME NEW t \in Tasks, EnforceLimits(t) PROVE TypeInv'
  <2>1. snapshot' \in [Tasks -> Status]
    BY <1>1 DEF EnforceLimits, Readable
  <2>2. call' \in [Tasks -> CallState]
    BY <1>1 DEF EnforceLimits, CallState
  <2>3. QED BY <1>1, <2>1, <2>2 DEF EnforceLimits, process
<1>2. ASSUME NEW t \in Tasks, CreateFiles(t) PROVE TypeInv'
  BY <1>2 DEF CreateFiles, CallState, Status, St, Active, process
<1>3. ASSUME NEW t \in Tasks, SpawnWorker(t) PROVE TypeInv'
  BY <1>3 DEF SpawnWorker, CallState, WorkerState, Alive, Gone
<1>4. ASSUME NEW t \in Tasks, Announce(t) PROVE TypeInv'
  <2>1. St("starting") \in Status
    BY DEF St, Status, Active
  <2>2. file' \in [Tasks -> Status \cup {None}]
    BY <1>4, <2>1 DEF Announce, BeginWrite, EndWrite
  <2>3. mixed' \in [Tasks -> BOOLEAN]
    BY <1>4 DEF Announce, BeginWrite, EndWrite
  <2>4. call' \in [Tasks -> CallState]
    BY <1>4 DEF Announce, CallState
  <2>5. QED BY <1>4, <2>2, <2>3, <2>4 DEF Announce, process
<1>5. ASSUME NEW t \in Tasks, Register(t) PROVE TypeInv'
  BY <1>5 DEF Register, CallState, Status, St, Active, process
<1>6. ASSUME NEW t \in Tasks, Abandon(t) PROVE TypeInv'
  BY <1>6 DEF Abandon, CallState, process
<1>7. ASSUME NEW t \in Tasks, WorkerWrites(t) PROVE TypeInv'
  <2>1. Writes(worker[t]) \in Status /\ AfterWrite(worker[t]) \in WorkerState \ Gone
    BY <1>7, WritesStatus DEF WorkerWrites, AfterWrite, Gone
  <2>2. file' \in [Tasks -> Status \cup {None}]
    BY <1>7, <2>1 DEF WorkerWrites, BeginWrite, EndWrite
  <2>3. mixed' \in [Tasks -> BOOLEAN]
    BY <1>7 DEF WorkerWrites, BeginWrite, EndWrite, ServerWriting
  <2>4. writing' \in [Tasks -> BOOLEAN]
    BY <1>7 DEF WorkerWrites
  <2>5. worker' \in [Tasks -> WorkerState] /\ ExitKnown'
    BY <1>7, <2>1 DEF WorkerWrites
  <2>6. QED BY <1>7, <2>2, <2>3, <2>4, <2>5 DEF WorkerWrites
<1>8. ASSUME NEW t \in Tasks, TaskReturns(t) PROVE TypeInv'
  BY <1>8 DEF TaskReturns, WorkerState, Alive, Gone
<1>9. ASSUME NEW t \in Tasks, WorkerEnds(t) PROVE TypeInv'
  BY <1>9 DEF WorkerEnds, WorkerState, Gone
<1>10. ASSUME NEW t \in Tasks, Reap(t) PROVE TypeInv'
  BY <1>10 DEF Reap, WorkerState, Gone
<1>11. ASSUME NEW t \in Tasks, Reconcile(t) PROVE TypeInv'
  <2>1. Latest(t) \in Status
    BY LatestStatus
  <2>2. FinalState(t) \in Terminal
    BY <1>11, FinalIsTerminal DEF Reconcile, Gone
  <2>3. [Latest(t) EXCEPT !.state = FinalState(t)] \in Status
    BY <2>1, <2>2 DEF Status
  <2>4. QED BY <1>11, <2>1, <2>3 DEF Reconcile, Record, process
<1>12. ASSUME NEW t \in Tasks, NEW sig \in Signals, SignalReads(t, sig) PROVE TypeInv'
  BY <1>12, LatestStatus DEF SignalReads, Signals, process
<1>13. ASSUME NEW t \in Tasks, NEW sig \in Signals, SignalSends(t, sig) PROVE TypeInv'
  <2>1. [snapshot[t] EXCEPT !.state = IF sig = "sigkill" THEN "killed" ELSE "stopping"] \in Status
    BY DEF Status, Active, Terminal
  <2>2. QED BY <1>13, <2>1 DEF SignalSends, Record, Signals
<1>14. ASSUME NEW t \in Tasks, Refresh(t) PROVE TypeInv'
  BY <1>14 DEF Refresh, Readable, process
<1>15. CASE UNCHANGED vars
  BY <1>15 DEF vars, process
<1>16. QED
  BY <1>1, <1>2, <1>3, <1>4, <1>5, <1>6, <1>7, <1>8, <1>9, <1>10, <1>11, <1>12, <1>13, <1>14, <1>15
     DEF Next, Handler, Process, Waiter, StopOrKill, Signals

LEMMA TypeInit == Init => TypeInv
BY DEF Init, TypeInv, TypeOK, ExitKnown, Gone, CallState, Status, St, Active, WorkerState

(* The state of the calls, files, snapshots and processes has its type: in *)
(* particular a snapshot is always a status that was once written.         *)
THEOREM TypeSafe == Spec => []TypeOK
BY TypeInit, TypeStep, PTL DEF Spec, TypeInv

-----------------------------------------------------------------------------
(* How far a task has come: it has a process from the spawn on, it is      *)
(* registered when its call returns, and only then can it be signalled and *)
(* waited for.                                                             *)
Stages ==
    /\ \A t \in Tasks :
          /\ call[t] \in {"idle", "admitted", "filed"} => worker[t] = "none"
          /\ call[t] \in {"spawned", "announcing", "announced", "returned"} => worker[t] # "none"
          /\ signalled[t] # "no" => t \in registered
    /\ \A t \in registered : call[t] = "returned"
    /\ \A t \in reconciled : worker[t] = "reaped"

(* What a final state in the file tells of the process.                    *)
Evidence ==
    \A t \in Tasks : Readable(t) =>
        /\ file[t].state = "completed" =>
              \/ worker[t] = "succeeded" /\ signalled[t] = "no"
              \/ worker[t] \in Gone /\ exit[t] = "success"
        /\ file[t].state = "failed" =>
              \/ worker[t] = "failed" /\ signalled[t] = "no"
              \/ worker[t] \in Gone /\ exit[t] = "failure"
        /\ file[t].state = "stopped" => worker[t] = "reaped" /\ exit[t] = "sigterm"
        /\ file[t].state = "killed" =>
              \/ worker[t] \in Alive /\ signalled[t] # "no"
              \/ worker[t] \in Gone

(* A snapshot may be behind the file, never ahead of it: a final state in  *)
(* memory is the one in the file, which nobody is writing any more.        *)
SnapshotFollows ==
    \A t \in registered : snapshot[t].state \in Terminal => snapshot[t] = file[t]

Inv == TypeInv /\ Stages /\ Evidence /\ SnapshotFollows /\ ReconciledIsFinal

-----------------------------------------------------------------------------
(* No process that is still to write can have a final state in its file.   *)
LEMMA RunnersNotFinal ==
    ASSUME Inv, NEW t \in Tasks, Readable(t), file[t].state \in Terminal
    PROVE  /\ worker[t] \in {"succeeded", "failed"} \cup Gone \/ ~Runs(t)
           /\ worker[t] # "none"
BY DEF Inv, TypeInv, TypeOK, Stages, Evidence, Terminal, Gone, Runs, Alive

(* What the waiter takes for the latest status, when it is final, is what  *)
(* the file says.                                                          *)
LEMMA LatestFinal ==
    ASSUME Inv, NEW t \in registered, Latest(t).state \in Terminal
    PROVE  Readable(t) /\ Latest(t) = file[t]
BY DEF Inv, TypeInv, TypeOK, SnapshotFollows, Latest, Readable

LEMMA StagesStep == Inv /\ [Next]_vars => Stages'
<1> SUFFICES ASSUME Inv, [Next]_vars PROVE Stages'
  OBVIOUS
<1> USE DEF Inv, TypeInv, TypeOK, Stages
<1>1. ASSUME NEW t \in Tasks, Handler(t) \/ Abandon(t) PROVE Stages'
  <2>1. CASE EnforceLimits(t)
    BY <2>1 DEF EnforceLimits, process
  <2>2. CASE CreateFiles(t)
    BY <2>2 DEF CreateFiles, process
  <2>3. CASE SpawnWorker(t)
    BY <2>3 DEF SpawnWorker
  <2>4. CASE Announce(t)
    BY <2>4 DEF Announce, process
  <2>5. CASE Register(t)
    BY <2>5 DEF Register, process
  <2>6. CASE Abandon(t)
    BY <2>6 DEF Abandon, process
  <2>7. QED BY <1>1, <2>1, <2>2, <2>3, <2>4, <2>5, <2>6 DEF Handler
<1>2. ASSUME NEW t \in Tasks, Process(t) PROVE Stages'
  <2>1. CASE WorkerWrites(t)
    BY <2>1 DEF WorkerWrites, AfterWrite
  <2>2. CASE TaskReturns(t)
    BY <2>2 DEF TaskReturns
  <2>3. CASE WorkerEnds(t)
    BY <2>3 DEF WorkerEnds, Alive
  <2>4. QED BY <1>2, <2>1, <2>2, <2>3 DEF Process
<1>3. ASSUME NEW t \in Tasks, Reap(t) PROVE Stages'
  BY <1>3 DEF Reap
<1>4. ASSUME NEW t \in Tasks, Reconcile(t) PROVE Stages'
  BY <1>4 DEF Reconcile, process
<1>5. ASSUME NEW t \in Tasks, NEW sig \in Signals, SignalReads(t, sig) PROVE Stages'
  BY <1>5 DEF SignalReads, process
<1>6. ASSUME NEW t \in Tasks, NEW sig \in Signals, SignalSends(t, sig) PROVE Stages'
  <2>1. t \in registered
    BY <1>6, NoneAssumption DEF SignalSends, Signals
  <2>2. QED BY <1>6, <2>1 DEF SignalSends
<1>7. ASSUME NEW t \in Tasks, Refresh(t) PROVE Stages'
  BY <1>7 DEF Refresh, process
<1>8. CASE UNCHANGED vars
  BY <1>8 DEF vars, process
<1>9. QED
  BY <1>1, <1>2, <1>3, <1>4, <1>5, <1>6, <1>7, <1>8
     DEF Next, Waiter, StopOrKill, Signals

(* Evidence is a fact about one task: a step that leaves the task alone    *)
(* keeps it, and so does one that only reads or tears the file.            *)
LEMMA EvidenceStep == Inv /\ [Next]_vars => Evidence'
<1> SUFFICES ASSUME Inv, [Next]_vars PROVE Evidence'
  OBVIOUS
<1> USE DEF Inv, TypeInv, TypeOK, Evidence, Readable, Gone
<1>1. ASSUME NEW t \in Tasks, Handler(t) \/ Abandon(t) PROVE Evidence'
  <2>1. CASE EnforceLimits(t) \/ Register(t) \/ Abandon(t)
    BY <2>1 DEF EnforceLimits, Register, Abandon, process
  <2>2. CASE CreateFiles(t)
    BY <2>2 DEF CreateFiles, process, St
  <2>3. CASE SpawnWorker(t)
    BY <2>3 DEF SpawnWorker, Stages
  <2>4. CASE Announce(t)
    BY <2>4, NoneAssumption DEF Announce, BeginWrite, EndWrite, process, St
  <2>5. QED BY <1>1, <2>1, <2>2, <2>3, <2>4 DEF Handler
<1>2. ASSUME NEW t \in Tasks, WorkerWrites(t) PROVE Evidence'
  <2>1. Readable(t) => file[t].state \notin Terminal
    BY <1>2, RunnersNotFinal DEF WorkerWrites
  <2>2. CASE ~writing[t]
    BY <1>2, <2>2, NoneAssumption DEF WorkerWrites, BeginWrite
  <2>3. CASE writing[t]
    <3>1. worker' = [worker EXCEPT ![t] = AfterWrite(@)] /\ signalled[t] = "no"
      BY <1>2, <2>3 DEF WorkerWrites, Runs
    <3>2. \/ file'[t] = file[t]
          \/ file'[t] = None
          \/ file'[t] = Writes(worker[t])
      BY <1>2, <2>3 DEF WorkerWrites, EndWrite
    <3>3. /\ Writes(worker[t]).state = "completed" => AfterWrite(worker[t]) = "succeeded"
          /\ Writes(worker[t]).state = "failed" => AfterWrite(worker[t]) = "failed"
          /\ Writes(worker[t]).state \notin {"stopped", "killed"}
      BY <1>2 DEF WorkerWrites, Writes, AfterWrite, St
    <3>4. \A u \in Tasks \ {t} : file'[u] = file[u] /\ worker'[u] = worker[u]
      BY <1>2, <2>3 DEF WorkerWrites, EndWrite
    <3>5. UNCHANGED <<signalled, exit>>
      BY <1>2 DEF WorkerWrites
    <3>6. QED BY <2>1, <3>1, <3>2, <3>3, <3>4, <3>5, NoneAssumption DEF Terminal
  <2>4. QED BY <2>2, <2>3
<1>3. ASSUME NEW t \in Tasks, TaskReturns(t) PROVE Evidence'
  BY <1>3, RunnersNotFinal DEF TaskReturns, Terminal, Runs
<1>4. ASSUME NEW t \in Tasks, WorkerEnds(t) PROVE Evidence'
  BY <1>4 DEF WorkerEnds, Alive
<1>5. ASSUME NEW t \in Tasks, Reap(t) PROVE Evidence'
  BY <1>5 DEF Reap
<1>6. ASSUME NEW t \in Tasks, Reconcile(t) PROVE Evidence'
  <2>1. CASE Latest(t).state \in Terminal
    BY <1>6, <2>1 DEF Reconcile, process
  <2>2. CASE Latest(t).state \notin Terminal
    <3>1. /\ file' = [file EXCEPT ![t] = [Latest(t) EXCEPT !.state = FinalState(t)]]
          /\ worker[t] = "reaped" /\ exit[t] \in Exits
      BY <1>6, <2>2 DEF Reconcile, Record, ExitKnown
    <3>2. file'[t].state = FinalState(t)
      BY <3>1, LatestStatus DEF Status
    <3>3. /\ FinalState(t) = "completed" => exit[t] = "success"
          /\ FinalState(t) = "failed" => exit[t] = "failure"
          /\ FinalState(t) = "stopped" => exit[t] = "sigterm"
      BY <3>1 DEF FinalState, Exits
    <3>4. QED BY <1>6, <3>1, <3>2, <3>3 DEF Reconcile, process
  <2>3. QED BY <2>1, <2>2
<1>7. ASSUME NEW t \in Tasks, NEW sig \in Signals, SignalReads(t, sig) \/ Refresh(t) PROVE Evidence'
  BY <1>7 DEF SignalReads, Refresh, process
<1>8. ASSUME NEW t \in Tasks, NEW sig \in Signals, SignalSends(t, sig) PROVE Evidence'
  <2>1. CASE worker[t] = "reaped"
    BY <1>8, <2>1 DEF SignalSends
  <2>2. CASE worker[t] # "reaped"
    <3>1. worker[t] \in Alive \cup {"zombie"}
      BY <1>8, <2>2, NoneAssumption DEF SignalSends, Signals, Stages, WorkerState
    <3>2. file'[t].state \in {"killed", "stopping"}
      BY <1>8, <2>2 DEF SignalSends, Record, Status
    <3>3. worker[t] \in Alive => signalled'[t] # "no"
      BY <1>8, <2>2 DEF SignalSends, Signals
    <3>4. \A u \in Tasks \ {t} : file'[u] = file[u] /\ signalled'[u] = signalled[u]
      BY <1>8, <2>2 DEF SignalSends, Record
    <3>5. UNCHANGED <<worker, exit>>
      BY <1>8 DEF SignalSends
    <3>6. QED BY <3>1, <3>2, <3>3, <3>4, <3>5
  <2>3. QED BY <2>1, <2>2
<1>9. CASE UNCHANGED vars
  BY <1>9 DEF vars, process
<1>10. QED
  BY <1>1, <1>2, <1>3, <1>4, <1>5, <1>6, <1>7, <1>8, <1>9
     DEF Next, Process, Waiter, StopOrKill, Signals

(* A file whose final state is known is written by no worker any more, so  *)
(* the snapshot that has that state stays the file's.                      *)
LEMMA SnapshotStep == Inv /\ [Next]_vars => SnapshotFollows'
<1> SUFFICES ASSUME Inv, [Next]_vars PROVE SnapshotFollows'
  OBVIOUS
<1> USE DEF Inv, TypeInv, TypeOK, SnapshotFollows
<1>1. ASSUME NEW t \in Tasks, Handler(t) \/ Abandon(t) PROVE SnapshotFollows'
  <2>1. CASE EnforceLimits(t)
    BY <2>1 DEF EnforceLimits
  <2>2. CASE CreateFiles(t) \/ SpawnWorker(t) \/ Announce(t)
    <3>1. t \notin registered
      BY <2>2 DEF Stages, CreateFiles, SpawnWorker, Announce
    <3>2. \A u \in Tasks \ {t} : file'[u] = file[u]
      BY <2>2 DEF CreateFiles, SpawnWorker, Announce, BeginWrite, EndWrite
    <3>3. UNCHANGED <<registered, snapshot>>
      BY <2>2 DEF CreateFiles, SpawnWorker, Announce
    <3>4. QED BY <3>1, <3>2, <3>3
  <2>3. CASE Register(t)
    BY <2>3 DEF Register, St, Terminal
  <2>4. CASE Abandon(t)
    BY <2>4 DEF Abandon
  <2>5. QED BY <1>1, <2>1, <2>2, <2>3, <2>4 DEF Handler
<1>2. ASSUME NEW t \in Tasks, WorkerWrites(t) PROVE SnapshotFollows'
  <2>1. Readable(t) => file[t].state \notin Terminal
    BY <1>2, RunnersNotFinal DEF WorkerWrites, Gone
  <2>2. t \in registered => snapshot[t].state \notin Terminal
    BY <2>1 DEF Readable
  <2>3. \A u \in Tasks \ {t} : file'[u] = file[u]
    BY <1>2 DEF WorkerWrites, BeginWrite, EndWrite
  <2>4. QED BY <1>2, <2>2, <2>3 DEF WorkerWrites
<1>3. ASSUME NEW t \in Tasks, TaskReturns(t) \/ WorkerEnds(t) \/ Reap(t) PROVE SnapshotFollows'
  BY <1>3 DEF TaskReturns, WorkerEnds, Reap
<1>4. ASSUME NEW t \in Tasks, Reconcile(t) PROVE SnapshotFollows'
  <2>1. CASE Latest(t).state \in Terminal
    BY <1>4, <2>1, LatestFinal DEF Reconcile
  <2>2. CASE Latest(t).state \notin Terminal
    BY <1>4, <2>2 DEF Reconcile, Record
  <2>3. QED BY <2>1, <2>2
<1>5. ASSUME NEW t \in Tasks, NEW sig \in Signals, SignalReads(t, sig) PROVE SnapshotFollows'
  BY <1>5, LatestFinal DEF SignalReads
<1>6. ASSUME NEW t \in Tasks, NEW sig \in Signals, SignalSends(t, sig) PROVE SnapshotFollows'
  BY <1>6 DEF SignalSends, Record
<1>7. ASSUME NEW t \in Tasks, Refresh(t) PROVE SnapshotFollows'
  BY <1>7 DEF Refresh
<1>8. CASE UNCHANGED vars
  BY <1>8 DEF vars
<1>9. QED
  BY <1>1, <1>2, <1>3, <1>4, <1>5, <1>6, <1>7, <1>8
     DEF Next, Process, Waiter, StopOrKill, Signals

(* The file of a reconciled task is not written again: its call has        *)
(* returned, its worker does not run, it is not reconciled twice, and a    *)
(* signal no longer reaches it.                                            *)
LEMMA FinalFilesKept ==
    ASSUME Inv, [Next]_vars
    PROVE  \A t \in reconciled : file'[t] = file[t]
<1> USE DEF Inv, TypeInv, TypeOK
<1>1. ASSUME NEW u \in Tasks, Handler(u) \/ Abandon(u), NEW t \in reconciled
      PROVE  file'[t] = file[t]
  <2>1. \A v \in Tasks \ {u} : file'[v] = file[v]
    BY <1>1 DEF Handler, EnforceLimits, CreateFiles, SpawnWorker, Announce, Register, Abandon,
                BeginWrite, EndWrite
  <2>2. call[t] = "returned"
    BY DEF Stages
  <2>3. QED BY <1>1, <2>1, <2>2 DEF Handler, EnforceLimits, CreateFiles, SpawnWorker, Announce,
                                    Register, Abandon
<1>2. ASSUME NEW u \in Tasks, Process(u), NEW t \in reconciled PROVE file'[t] = file[t]
  <2>1. worker[t] \notin Alive
    BY DEF Stages, Alive
  <2>2. QED BY <1>2, <2>1 DEF Process, WorkerWrites, TaskReturns, WorkerEnds, Runs, BeginWrite,
                              EndWrite
<1>3. ASSUME NEW u \in Tasks, Waiter(u), NEW t \in reconciled PROVE file'[t] = file[t]
  BY <1>3 DEF Waiter, Reap, Reconcile, Record
<1>4. ASSUME NEW u \in Tasks, NEW sig \in Signals, NEW t \in reconciled,
             SignalReads(u, sig) \/ SignalSends(u, sig) \/ Refresh(u)
      PROVE  file'[t] = file[t]
  BY <1>4 DEF Stages, SignalReads, SignalSends, Refresh, Record
<1>5. CASE UNCHANGED vars
  BY <1>5 DEF vars
<1>6. QED BY <1>1, <1>2, <1>3, <1>4, <1>5 DEF Next, StopOrKill, Signals

LEMMA ReconciledStep == Inv /\ [Next]_vars => ReconciledIsFinal'
<1> SUFFICES ASSUME Inv, [Next]_vars, NEW t \in reconciled' PROVE (Readable(t) /\ file[t].state \in Terminal)'
  BY DEF ReconciledIsFinal
<1>1. CASE t \in reconciled
  <2>1. file'[t] = file[t]
    BY <1>1, FinalFilesKept
  <2>2. QED BY <1>1, <2>1 DEF Inv, ReconciledIsFinal, Readable
<1>2. CASE t \notin reconciled
  <2>1. t \in Tasks /\ Reconcile(t)
    BY <1>2 DEF Next, Handler, Process, Waiter, StopOrKill, EnforceLimits, CreateFiles, SpawnWorker,
                Announce, Register, Abandon, WorkerWrites, TaskReturns, WorkerEnds, Reap, Reconcile,
                SignalReads, SignalSends, Refresh, vars
  <2>2. CASE Latest(t).state \in Terminal
    <3>1. t \in registered /\ UNCHANGED file
      BY <2>1, <2>2 DEF Reconcile
    <3>2. QED BY <2>2, <3>1, LatestFinal DEF Readable
  <2>3. CASE Latest(t).state \notin Terminal
    <3>1. FinalState(t) \in Terminal
      BY <2>1, FinalIsTerminal DEF Reconcile, Inv, TypeInv, ExitKnown, Gone
    <3>2. file'[t] = [Latest(t) EXCEPT !.state = FinalState(t)]
      BY <2>1, <2>3 DEF Reconcile, Record, Inv, TypeInv, TypeOK
    <3>3. Latest(t) \in Status
      BY <2>1, LatestStatus DEF Inv, TypeInv
    <3>4. QED BY <3>1, <3>2, <3>3 DEF Readable, Status
  <2>4. QED BY <2>2, <2>3
<1>3. QED BY <1>1, <1>2

(* The inductive invariant: how far a task has come, what its file proves  *)
(* of its process, and that memory is never ahead of the file.             *)
THEOREM Invariance == Spec => []Inv
<1>1. Init => Inv
  BY TypeInit, NoneAssumption
     DEF Init, Inv, Stages, Evidence, SnapshotFollows, ReconciledIsFinal, Readable
<1>2. Inv /\ [Next]_vars => Inv'
  BY TypeStep, StagesStep, EvidenceStep, SnapshotStep, ReconciledStep DEF Inv
<1>3. QED BY <1>1, <1>2, PTL DEF Spec

(* However the writes of server and worker overlap, and wherever the       *)
(* worker dies, a task the waiter is done with has a readable file with a  *)
(* final state.                                                            *)
THEOREM ReconciledFinal == Spec => []ReconciledIsFinal
BY Invariance, PTL DEF Inv

(* That state is true of the process: completed, failed and stopped agree  *)
(* with the way it exited.                                                 *)
THEOREM ReportHonest == Spec => []HonestReport
<1>1. Inv => HonestReport
  BY DEF Inv, TypeInv, TypeOK, Stages, Evidence, ReconciledIsFinal, HonestReport, Gone
<1>2. QED BY <1>1, Invariance, PTL

(* And it stays: nothing writes the file of a reconciled task.             *)
THEOREM FinalStateStays == Spec => FinalStays
<1>1. Inv /\ [Next]_vars => [\A t \in reconciled : file'[t] = file[t]]_vars
  BY FinalFilesKept
<1>2. QED BY <1>1, Invariance, PTL DEF Spec, FinalStays

-----------------------------------------------------------------------------
(* A function on the first numbers is a sequence.                          *)
LEMMA IsSequence ==
    ASSUME NEW S, NEW n \in Nat, NEW f \in [1 .. n -> S]
    PROVE  f \in Seq(S) /\ DOMAIN f = 1 .. n
OBVIOUS

(* Sequences of sequences.  What holds of one number and then of the next  *)
(* holds of all.                                                           *)
LEMMA Upwards ==
    ASSUME NEW S, 0 \in S, \A n \in Nat : n \in S => n + 1 \in S
    PROVE  Nat \subseteq S
<1> DEFINE Missing == Nat \ S
<1>1. SUFFICES ASSUME Missing # {} PROVE FALSE
  OBVIOUS
<1>2. PICK m \in Missing : \A k \in Missing : ~ (<<k, m>> \in OpToRel(<, Nat))
  BY <1>1, NatLessThanWellFounded, WFMin
<1>3. m # 0 /\ m - 1 \in Nat
  OBVIOUS
<1>4. <<m - 1, m>> \in OpToRel(<, Nat)
  BY <1>3 DEF OpToRel
<1>5. m - 1 \in S
  BY <1>2, <1>3, <1>4
<1>6. (m - 1) + 1 \in S
  BY <1>3, <1>5
<1>7. QED BY <1>3, <1>6

(* The first m of some sequences, one after the other.                     *)
Chain(seqs, m, f) == f = [i \in 1 .. m |-> IF i = 1 THEN seqs[i] ELSE f[i - 1] \o seqs[i]]

LEMMA ChainExists ==
    ASSUME NEW seqs, NEW m \in Nat
    PROVE  \E f : Chain(seqs, m, f)
<1> DEFINE S == {n \in Nat : \E f : Chain(seqs, n, f)}
<1>1. 0 \in S
  <2>1. Chain(seqs, 0, <<>>)
    BY DEF Chain
  <2>2. QED BY <2>1
<1>2. ASSUME NEW n \in Nat, n \in S PROVE n + 1 \in S
  <2>1. PICK f : Chain(seqs, n, f)
    BY <1>2
  <2> DEFINE g == [i \in 1 .. n + 1 |->
                      IF i = n + 1
                      THEN (IF i = 1 THEN seqs[i] ELSE f[i - 1] \o seqs[i])
                      ELSE f[i]]
             h == [i \in 1 .. n + 1 |-> IF i = 1 THEN seqs[i] ELSE g[i - 1] \o seqs[i]]
  <2>2. ASSUME NEW i \in 1 .. n + 1 PROVE g[i] = h[i]
    <3>1. i # 1 => i - 1 \in 1 .. n + 1 /\ i - 1 # n + 1
      OBVIOUS
    <3>2. i # 1 => g[i - 1] = f[i - 1]
      BY <3>1
    <3>3. i # n + 1 => i \in 1 .. n
      OBVIOUS
    <3>4. i \in 1 .. n => f[i] = IF i = 1 THEN seqs[i] ELSE f[i - 1] \o seqs[i]
      BY <2>1 DEF Chain
    <3>5. QED BY <3>2, <3>3, <3>4
  <2> HIDE DEF g
  <2>3. g = h
    <3>1. DOMAIN g = 1 .. n + 1 /\ g = [i \in DOMAIN g |-> g[i]]
      BY DEF g
    <3>2. QED BY <2>2, <3>1
  <2>4. Chain(seqs, n + 1, g)
    BY <2>3 DEF Chain
  <2>5. QED BY <2>4
<1>3. Nat \subseteq S
  <2> HIDE DEF S
  <2>1. QED BY <1>1, <1>2, Upwards
<1>4. QED BY <1>3

(* No two places of the sequences hold the same.                           *)
Distinct(seqs) ==
    \A i, j \in DOMAIN seqs : \A k \in DOMAIN seqs[i], l \in DOMAIN seqs[j] :
        seqs[i][k] = seqs[j][l] => i = j /\ k = l

(* A sequence made of the first n of some sequences.                       *)
MadeOf(seqs, n, s) ==
    /\ \A x \in DOMAIN s : \E i \in 1 .. n : \E k \in DOMAIN seqs[i] : s[x] = seqs[i][k]
    /\ \A i \in 1 .. n : \A k \in DOMAIN seqs[i] : \E x \in DOMAIN s : s[x] = seqs[i][k]
    /\ Distinct(seqs) => IsInjective(s)

LEMMA ConcatIndex ==
    ASSUME NEW S, NEW a \in Seq(S), NEW b \in Seq(S)
    PROVE  /\ a \o b \in Seq(S)
           /\ DOMAIN (a \o b) = 1 .. Len(a) + Len(b)
           /\ \A x \in 1 .. Len(a) + Len(b) :
                 (a \o b)[x] = IF x <= Len(a) THEN a[x] ELSE b[x - Len(a)]
BY ConcatProperties, LenProperties

LEMMA MadeOfNext ==
    ASSUME NEW S, NEW seqs \in Seq(Seq(S)), NEW n \in Nat, n + 1 \in DOMAIN seqs,
           NEW s \in Seq(S), MadeOf(seqs, n, s)
    PROVE  MadeOf(seqs, n + 1, s \o seqs[n + 1])
<1> DEFINE b == seqs[n + 1]
           t == s \o b
<1>1. b \in Seq(S) /\ DOMAIN s = 1 .. Len(s) /\ DOMAIN b = 1 .. Len(b)
      /\ Len(s) \in Nat /\ Len(b) \in Nat /\ 1 .. n + 1 \subseteq DOMAIN seqs
  BY ElementOfSeq, LenProperties
<1>2. /\ DOMAIN t = 1 .. Len(s) + Len(b)
      /\ \A x \in 1 .. Len(s) + Len(b) : t[x] = IF x <= Len(s) THEN s[x] ELSE b[x - Len(s)]
  BY <1>1, ConcatIndex
<1> HIDE DEF b, t
<1>3. ASSUME NEW x \in DOMAIN t
      PROVE  \E i \in 1 .. n + 1 : \E k \in DOMAIN seqs[i] : t[x] = seqs[i][k]
  <2>1. CASE x <= Len(s)
    <3>1. x \in DOMAIN s /\ t[x] = s[x]
      BY <1>1, <1>2, <1>3, <2>1
    <3>2. PICK i \in 1 .. n : \E k \in DOMAIN seqs[i] : s[x] = seqs[i][k]
      BY <3>1 DEF MadeOf
    <3>3. QED BY <3>1, <3>2
  <2>2. CASE ~ (x <= Len(s))
    <3>1. x - Len(s) \in DOMAIN b /\ t[x] = b[x - Len(s)]
      BY <1>1, <1>2, <1>3, <2>2
    <3>2. QED BY <3>1 DEF b
  <2>3. QED BY <2>1, <2>2
<1>4. ASSUME NEW i \in 1 .. n + 1, NEW k \in DOMAIN seqs[i]
      PROVE  \E x \in DOMAIN t : t[x] = seqs[i][k]
  <2>1. CASE i \in 1 .. n
    <3>1. PICK x \in DOMAIN s : s[x] = seqs[i][k]
      BY <2>1 DEF MadeOf
    <3>2. x \in DOMAIN t /\ t[x] = s[x]
      BY <1>1, <1>2
    <3>3. QED BY <3>1, <3>2
  <2>2. CASE i = n + 1
    <3>1. k \in DOMAIN b /\ b[k] = seqs[i][k]
      BY <2>2 DEF b
    <3>2. /\ k + Len(s) \in 1 .. Len(s) + Len(b) /\ ~ (k + Len(s) <= Len(s))
          /\ (k + Len(s)) - Len(s) = k
      BY <1>1, <3>1
    <3>3. k + Len(s) \in DOMAIN t /\ t[k + Len(s)] = b[k]
      BY <1>2, <3>2
    <3>4. QED BY <3>1, <3>3
  <2>3. QED BY <2>1, <2>2
<1>5. ASSUME Distinct(seqs), NEW x \in DOMAIN t, NEW y \in DOMAIN t, t[x] = t[y], x <= y
      PROVE  x = y
  <2>1. IsInjective(s)
    BY <1>5 DEF MadeOf
  <2>2. CASE y <= Len(s)
    <3>1. x \in DOMAIN s /\ y \in DOMAIN s /\ s[x] = s[y]
      BY <1>1, <1>2, <1>5, <2>2
    <3>2. QED BY <2>1, <3>1 DEF IsInjective
  <2>3. CASE ~ (x <= Len(s)) /\ ~ (y <= Len(s))
    <3>0. /\ x \in 1 .. Len(s) + Len(b) /\ y \in 1 .. Len(s) + Len(b)
          /\ t[x] = b[x - Len(s)] /\ t[y] = b[y - Len(s)]
      BY <1>2, <1>5, <2>3
    <3>1. x - Len(s) \in DOMAIN b /\ y - Len(s) \in DOMAIN b /\ b[x - Len(s)] = b[y - Len(s)]
      <4>1. b[x - Len(s)] = b[y - Len(s)]
        BY <1>5, <3>0
      <4>2. x - Len(s) \in 1 .. Len(b) /\ y - Len(s) \in 1 .. Len(b)
        BY <1>1, <2>3, <3>0
      <4>3. QED BY <1>1, <4>1, <4>2
    <3>2. n + 1 \in DOMAIN seqs
      OBVIOUS
    <3>3. x - Len(s) = y - Len(s)
      BY <1>5, <3>1, <3>2 DEF Distinct, b
    <3>4. QED BY <1>1, <1>2, <1>5, <3>3
  <2>4. CASE x <= Len(s) /\ ~ (y <= Len(s))
    <3>1. x \in DOMAIN s /\ y - Len(s) \in DOMAIN b /\ s[x] = b[y - Len(s)]
      BY <1>1, <1>2, <1>5, <2>4
    <3>2. PICK i \in 1 .. n : \E k \in DOMAIN seqs[i] : s[x] = seqs[i][k]
      BY <3>1 DEF MadeOf
    <3>3. PICK k \in DOMAIN seqs[i] : s[x] = seqs[i][k]
      BY <3>2
    <3>4. i \in DOMAIN seqs /\ n + 1 \in DOMAIN seqs /\ i # n + 1
      BY <1>1
    <3>5. seqs[i][k] = seqs[n + 1][y - Len(s)] /\ y - Len(s) \in DOMAIN seqs[n + 1]
      BY <3>1, <3>3 DEF b
    <3>6. i = n + 1
      BY <1>5, <3>3, <3>4, <3>5 DEF Distinct
    <3>7. QED BY <3>4, <3>6
  <2>5. QED BY <1>1, <1>2, <1>5, <2>2, <2>3, <2>4
<1>6. Distinct(seqs) => IsInjective(t)
  <2>1. SUFFICES ASSUME Distinct(seqs), NEW x \in DOMAIN t, NEW y \in DOMAIN t, t[x] = t[y]
                 PROVE  x = y
    BY DEF IsInjective
  <2>2. x <= y \/ y <= x
    BY <1>1, <1>2
  <2>3. QED BY <1>5, <2>1, <2>2
<1>7. QED BY <1>3, <1>4, <1>6 DEF MadeOf, t, b

(* FlattenSeq puts the sequences one after the other: nothing is lost, and *)
(* what was in one place still is.                                         *)
LEMMA FlattenMade ==
    ASSUME NEW S, NEW seqs \in Seq(Seq(S))
    PROVE  /\ FlattenSeq(seqs) \in Seq(S)
           /\ MadeOf(seqs, Len(seqs), FlattenSeq(seqs))
<1>1. CASE Len(seqs) = 0
  <2>1. seqs = <<>> /\ FlattenSeq(seqs) = seqs
    BY <1>1, EmptySeq DEF FlattenSeq
  <2>2. MadeOf(seqs, 0, <<>>)
    BY DEF MadeOf, IsInjective
  <2>3. FlattenSeq(seqs) = <<>> /\ <<>> \in Seq(S)
    BY <2>1
  <2>4. MadeOf(seqs, Len(seqs), FlattenSeq(seqs))
    BY <1>1, <2>2, <2>3
  <2>5. QED BY <2>3, <2>4
<1>2. CASE Len(seqs) # 0
  <2> DEFINE n == Len(seqs)
             flat == CHOOSE f : Chain(seqs, n, f)
  <2>1. n \in Nat /\ n >= 1 /\ DOMAIN seqs = 1 .. n
    BY <1>2, LenProperties
  <2>2. FlattenSeq(seqs) = flat[n]
    BY <1>2 DEF FlattenSeq, Chain
  <2>3. Chain(seqs, n, flat)
    BY <2>1, ChainExists
  <2> HIDE DEF flat, n
  <2> DEFINE P == {m \in Nat : m + 1 <= n =>
                      flat[m + 1] \in Seq(S) /\ MadeOf(seqs, m + 1, flat[m + 1])}
  <2>4. 0 \in P
    <3>1. flat[1] = seqs[1]
      BY <2>1, <2>3 DEF Chain
    <3>2. seqs[1] \in Seq(S)
      BY <2>1, ElementOfSeq DEF n
    <3>3. <<>> \in Seq(S) /\ MadeOf(seqs, 0, <<>>)
      BY DEF MadeOf, IsInjective
    <3>4. 0 + 1 \in DOMAIN seqs /\ <<>> \o seqs[1] = seqs[1]
      BY <2>1, <3>2
    <3>5. MadeOf(seqs, 0 + 1, <<>> \o seqs[0 + 1])
      BY <3>3, <3>4, MadeOfNext
    <3>6. QED BY <3>1, <3>2, <3>4, <3>5
  <2>5. ASSUME NEW m \in Nat, m \in P PROVE m + 1 \in P
    <3>1. SUFFICES ASSUME (m + 1) + 1 <= n
                   PROVE  /\ flat[(m + 1) + 1] \in Seq(S)
                          /\ MadeOf(seqs, (m + 1) + 1, flat[(m + 1) + 1])
      OBVIOUS
    <3>2. flat[m + 1] \in Seq(S) /\ MadeOf(seqs, m + 1, flat[m + 1])
      BY <2>1, <2>5, <3>1
    <3>3. (m + 1) + 1 \in 1 .. n /\ (m + 1) + 1 # 1 /\ ((m + 1) + 1) - 1 = m + 1 /\ m + 1 \in Nat
      BY <2>1, <3>1
    <3>4. flat[(m + 1) + 1] = flat[m + 1] \o seqs[(m + 1) + 1]
      BY <2>3, <3>3 DEF Chain
    <3>5. seqs[(m + 1) + 1] \in Seq(S)
      BY <2>1, <3>3, ElementOfSeq DEF n
    <3>6. MadeOf(seqs, (m + 1) + 1, flat[m + 1] \o seqs[(m + 1) + 1])
      BY <2>1, <3>2, <3>3, MadeOfNext
    <3>7. QED BY <3>2, <3>4, <3>5, <3>6, ConcatIndex
  <2>6. Nat \subseteq P
    <3> HIDE DEF P
    <3>1. QED BY <2>4, <2>5, Upwards
  <2>7. n - 1 \in Nat /\ (n - 1) + 1 = n /\ (n - 1) + 1 <= n
    BY <2>1
  <2>8. flat[n] \in Seq(S) /\ MadeOf(seqs, n, flat[n])
    <3>1. n - 1 \in P
      BY <2>6, <2>7
    <3>2. QED BY <2>7, <3>1
  <2>9. QED BY <2>2, <2>8 DEF n
<1>3. QED BY <1>1, <1>2

(* SetToSeq has every member of a finite set once.                         *)
LEMMA SetInSequence ==
    ASSUME NEW S, IsFiniteSet(S)
    PROVE  /\ SetToSeq(S) \in Seq(S) /\ IsInjective(SetToSeq(S))
           /\ \A x \in S : \E k \in DOMAIN SetToSeq(S) : SetToSeq(S)[k] = x
<1> DEFINE n == Cardinality(S)
           q == SetToSeq(S)
<1>1. n \in Nat /\ ExistsBijection(1 .. n, S)
  BY FS_CardinalityType
<1>2. PICK g \in Bijection(1 .. n, S) : TRUE
  BY <1>1 DEF ExistsBijection
<1>3. g \in [1 .. n -> S] /\ IsInjective(g)
  BY <1>2 DEF Bijection, Injection, IsInjective
<1>4. q \in [1 .. n -> S] /\ IsInjective(q)
  BY <1>3 DEF SetToSeq
<1> HIDE DEF q
<1>5. q \in Seq(S)
  BY <1>1, <1>4
<1>6. q \in Injection(1 .. n, S)
  BY <1>4 DEF Injection, IsInjective
<1>7. Cardinality(1 .. n) = n
  BY <1>1, FS_Interval
<1>8. q \in Surjection(1 .. n, S)
  BY <1>6, <1>7, FS_Injection
<1>9. \A x \in S : \E k \in 1 .. n : q[k] = x
  BY <1>8 DEF Surjection
<1>10. QED BY <1>4, <1>5, <1>9 DEF q

-----------------------------------------------------------------------------
(* The plan.  How a sequence of entries is cut into control files.         *)
LEMMA TimesMonotone ==
    ASSUME NEW a \in Nat, NEW b \in Nat, NEW m \in Nat, a <= b
    PROVE  a * m <= b * m
<1> DEFINE d == b - a
<1>1. d \in Nat /\ b = a + d
  OBVIOUS
<1> HIDE DEF d
<1>2. b * m = a * m + d * m /\ d * m \in Nat /\ a * m \in Nat
  BY <1>1
<1>3. QED BY <1>2

LEMMA Division ==
    ASSUME NEW n \in Nat, NEW m \in Nat \ {0}
    PROVE  n \div m \in Nat /\ \E j \in 0 .. m - 1 : n = (n \div m) * m + j
<1>1. n \div m \in Nat
  OBVIOUS
<1>2. \E j \in 0 .. m - 1 : n = m * (n \div m) + j
  OBVIOUS
<1>3. \A q \in Nat : m * q = q * m
  OBVIOUS
<1>4. QED BY <1>1, <1>2, <1>3

(* The piece an index lies in, and no other.                               *)
LEMMA PieceOf ==
    ASSUME NEW x \in Nat \ {0}, NEW m \in Nat \ {0}
    PROVE  \E r \in Nat \ {0} : \E i \in 1 .. m : x = (r - 1) * m + i
<1> DEFINE q == (x - 1) \div m
<1>1. x - 1 \in Nat
  OBVIOUS
<1>2. q \in Nat /\ \E j \in 0 .. m - 1 : x - 1 = q * m + j
  BY <1>1, Division
<1> HIDE DEF q
<1>3. PICK j \in 0 .. m - 1 : x - 1 = q * m + j
  BY <1>2
<1>4. x = q * m + (j + 1) /\ j + 1 \in 1 .. m
  BY <1>2, <1>3
<1>5. q + 1 \in Nat \ {0} /\ (q + 1) - 1 = q
  BY <1>2
<1>6. x = ((q + 1) - 1) * m + (j + 1)
  BY <1>4, <1>5
<1>7. QED BY <1>4, <1>5, <1>6

LEMMA OnePiece ==
    ASSUME NEW m \in Nat \ {0}, NEW r \in Nat, NEW s \in Nat, NEW i \in 1 .. m, NEW j \in 1 .. m,
           r * m + i = s * m + j
    PROVE  r = s /\ i = j
<1>1. ASSUME NEW a \in Nat, NEW b \in Nat, a < b,
             NEW k \in 1 .. m, NEW l \in 1 .. m, a * m + k = b * m + l
      PROVE  FALSE
  <2>1. a + 1 \in Nat /\ a + 1 <= b
    BY <1>1
  <2>2. (a + 1) * m <= b * m
    BY <2>1, TimesMonotone
  <2>3. (a + 1) * m = a * m + m /\ a * m \in Nat /\ b * m \in Nat
    OBVIOUS
  <2>4. QED BY <1>1, <2>2, <2>3
<1>2. r = s
  BY <1>1
<1>3. r * m \in Nat
  OBVIOUS
<1>4. QED BY <1>2, <1>3

(* A piece of n entries: it is one of them when it begins among them.      *)
Pieces(n) == (n + EntryLimit - 1) \div EntryLimit

LEMMA PieceBegins ==
    ASSUME NEW n \in Nat, NEW r \in Nat \ {0}
    PROVE  Pieces(n) \in Nat /\ (r <= Pieces(n) <=> (r - 1) * EntryLimit < n)
<1> DEFINE m == EntryLimit
           q == (n + m - 1) \div m
<1>1. m \in Nat \ {0}
  BY BoundsAssumption
<1> HIDE DEF m
<1>2. n + m - 1 \in Nat
  BY <1>1
<1>A. q \in Nat /\ \E j \in 0 .. m - 1 : n + m - 1 = q * m + j
  BY <1>1, <1>2, Division
<1> HIDE DEF q
<1>3. PICK j \in 0 .. m - 1 : n + m - 1 = q * m + j
  BY <1>A
<1>4. q * m \in Nat /\ r - 1 \in Nat /\ (r - 1) * m \in Nat
  BY <1>1, <1>A
<1>5. ASSUME r <= q PROVE (r - 1) * m < n
  <2>1. r * m <= q * m
    BY <1>1, <1>A, <1>5, TimesMonotone
  <2>2. r * m = (r - 1) * m + m
    BY <1>1
  <2>3. QED BY <1>1, <1>3, <1>4, <2>1, <2>2
<1>6. ASSUME ~ (r <= q) PROVE ~ ((r - 1) * m < n)
  <2>1. q <= r - 1
    BY <1>A, <1>6
  <2>2. q * m <= (r - 1) * m
    BY <1>1, <1>A, <1>4, <2>1, TimesMonotone
  <2>3. QED BY <1>1, <1>3, <1>4, <2>2
<1>7. QED BY <1>A, <1>5, <1>6 DEF Pieces, q, m

(* The control files of some entries: none is empty, and each entry is in  *)
(* one place of one of them.                                               *)
LEMMA RolloverCuts ==
    ASSUME NEW S, NEW entries \in Seq(S)
    PROVE  /\ Rollover(entries) \in Seq(Seq(S))
           /\ \A r \in DOMAIN Rollover(entries) :
                 /\ 1 \in DOMAIN Rollover(entries)[r]
                 /\ \A i \in DOMAIN Rollover(entries)[r] :
                       /\ i \in 1 .. EntryLimit
                       /\ (r - 1) * EntryLimit + i \in DOMAIN entries
                       /\ Rollover(entries)[r][i] = entries[(r - 1) * EntryLimit + i]
           /\ \A x \in DOMAIN entries :
                 \E r \in DOMAIN Rollover(entries) : \E i \in DOMAIN Rollover(entries)[r] :
                     x = (r - 1) * EntryLimit + i /\ Rollover(entries)[r][i] = entries[x]
<1> DEFINE n == Len(entries)
           m == EntryLimit
           R == Rollover(entries)
           From(r) == (r - 1) * m
           To(r) == IF r * m < n THEN r * m ELSE n
<1>1. n \in Nat /\ m \in Nat \ {0} /\ DOMAIN entries = 1 .. n
  BY BoundsAssumption, LenProperties
<1>2. R = [r \in 1 .. Pieces(n) |-> SubSeq(entries, From(r) + 1, To(r))]
  BY DEF Rollover, Pieces
<1> HIDE DEF m, n, R
<1>3. ASSUME NEW r \in 1 .. Pieces(n)
      PROVE  /\ From(r) \in Nat /\ To(r) \in Nat /\ To(r) <= n
             /\ From(r) + 1 <= To(r) /\ To(r) - From(r) <= m
  <2>1. r \in Nat \ {0} /\ r - 1 \in Nat
    BY <1>1, PieceBegins
  <2>2. (r - 1) * m < n
    BY <1>1, <2>1, PieceBegins DEF m
  <2>3. (r - 1) * m \in Nat /\ r * m = (r - 1) * m + m /\ r * m \in Nat
    BY <1>1, <2>1
  <2>4. QED BY <1>1, <2>2, <2>3
<1>4. ASSUME NEW r \in 1 .. Pieces(n)
      PROVE  /\ R[r] \in Seq(S) /\ DOMAIN R[r] = 1 .. To(r) - From(r)
             /\ \A i \in 1 .. To(r) - From(r) : R[r][i] = entries[From(r) + i]
  <2>1. R[r] = SubSeq(entries, From(r) + 1, To(r))
    BY <1>2
  <2>2. From(r) \in Nat /\ To(r) \in Nat /\ To(r) <= n /\ From(r) + 1 <= To(r)
    BY <1>3
  <2> HIDE DEF From, To
  <2>3. R[r] = [i \in 1 .. To(r) - From(r) |-> entries[From(r) + i]]
    BY <1>1, <2>1, <2>2
  <2>4. \A i \in 1 .. To(r) - From(r) : entries[From(r) + i] \in S
    BY <1>1, <2>2, ElementOfSeq DEF n
  <2>5. R[r] \in [1 .. To(r) - From(r) -> S] /\ To(r) - From(r) \in Nat
    BY <2>2, <2>3, <2>4
  <2>6. QED BY <2>3, <2>5
<1>5. R \in Seq(Seq(S)) /\ DOMAIN R = 1 .. Pieces(n)
  <2>1. R \in [1 .. Pieces(n) -> Seq(S)]
    BY <1>2, <1>4
  <2>2. Pieces(n) \in Nat
    <3>1. 1 \in Nat \ {0}
      OBVIOUS
    <3>2. QED BY <1>1, <3>1, PieceBegins
  <2>3. QED BY <2>1, <2>2
<1>6. ASSUME NEW r \in DOMAIN R
      PROVE  /\ 1 \in DOMAIN R[r]
             /\ \A i \in DOMAIN R[r] : /\ i \in 1 .. m
                                       /\ From(r) + i \in DOMAIN entries
                                       /\ R[r][i] = entries[From(r) + i]
  <2>1. /\ From(r) \in Nat /\ To(r) \in Nat /\ To(r) <= n
        /\ From(r) + 1 <= To(r) /\ To(r) - From(r) <= m
    BY <1>3, <1>5
  <2>2. /\ DOMAIN R[r] = 1 .. To(r) - From(r)
        /\ \A i \in 1 .. To(r) - From(r) : R[r][i] = entries[From(r) + i]
    BY <1>4, <1>5
  <2> HIDE DEF From, To
  <2>3. QED BY <1>1, <2>1, <2>2
<1>7. ASSUME NEW x \in DOMAIN entries
      PROVE  \E r \in DOMAIN R : \E i \in DOMAIN R[r] : x = From(r) + i /\ R[r][i] = entries[x]
  <2>0. \E r \in Nat \ {0} : \E i \in 1 .. m : x = (r - 1) * m + i
    <3>1. x \in Nat \ {0}
      BY <1>1
    <3>2. QED BY <1>1, <3>1, PieceOf
  <2>1. PICK r \in Nat \ {0} : \E i \in 1 .. m : x = From(r) + i
    BY <2>0
  <2>2. PICK i \in 1 .. m : x = From(r) + i
    BY <2>1
  <2>3. From(r) \in Nat /\ From(r) < n /\ r * m = From(r) + m
    <3>1. r - 1 \in Nat
      OBVIOUS
    <3>2. (r - 1) * m \in Nat /\ r * m = (r - 1) * m + m
      BY <1>1, <3>1
    <3>3. QED BY <1>1, <2>2, <3>2
  <2>4. r \in 1 .. Pieces(n)
    BY <1>1, <2>3, PieceBegins DEF m
  <2>5. i \in 1 .. To(r) - From(r)
    BY <1>1, <2>2, <2>3
  <2>6. R[r][i] = entries[From(r) + i] /\ DOMAIN R[r] = 1 .. To(r) - From(r)
    BY <1>4, <2>4, <2>5
  <2>7. QED BY <1>5, <2>2, <2>4, <2>5, <2>6
<1>8. QED BY <1>5, <1>6, <1>7 DEF R, m

-----------------------------------------------------------------------------
(* The entries of a plan: of which directory they are, and whether the     *)
(* request has them.                                                       *)
Entry == [kind : {"dir", "file"}, path : Dirs \cup Paths]
FileEntry(f) == [kind |-> "file", path |-> f]
Home(e) == IF e.kind = "dir" THEN e.path ELSE Front(e.path)
Included(e, req) == e.kind = "file" => e.path \in Paths /\ IncludeFile(e.path, req)

LEMMA NoEntries == <<>> \in Seq(Entry) /\ DOMAIN <<>> = {} /\ IsInjective(<<>>)
BY DEF IsInjective

LEMMA DirEntriesOf ==
    ASSUME NEW d \in Dirs, NEW req
    PROVE  /\ DirEntries(d, req) \in Seq(Entry)
           /\ IsInjective(DirEntries(d, req))
           /\ \A k \in DOMAIN DirEntries(d, req) :
                 Home(DirEntries(d, req)[k]) = d /\ Included(DirEntries(d, req)[k], req)
           /\ \A f \in Selected(d, req) :
                 \E k \in DOMAIN DirEntries(d, req) : DirEntries(d, req)[k] = FileEntry(f)
<1> DEFINE T == {FileEntry(f) : f \in Selected(d, req)}
           first == <<[kind |-> "dir", path |-> d]>>
           q == SetToSeq(T)
           s == first \o q
<1>1. Selected(d, req) \subseteq Paths
      /\ \A f \in Selected(d, req) : Front(f) = d /\ IncludeFile(f, req)
  BY DEF Selected, FilesIn
<1>2. IsFiniteSet(T)
  <2> DEFINE g == [f \in Selected(d, req) |-> FileEntry(f)]
  <2>1. IsFiniteSet(Selected(d, req))
    BY <1>1, CopyAssumption, FS_Subset
  <2>2. g \in Surjection(Selected(d, req), T)
    BY DEF Surjection
  <2>3. QED BY <2>1, <2>2, FS_Surjection
<1>3. q \in Seq(T) /\ IsInjective(q) /\ \A x \in T : \E k \in DOMAIN q : q[k] = x
  BY <1>2, SetInSequence
<1>4. T \subseteq Entry /\ first \in Seq(Entry)
  BY <1>1 DEF Entry, FileEntry
<1> HIDE DEF q
<1>5. q \in Seq(Entry) /\ Len(q) \in Nat /\ DOMAIN q = 1 .. Len(q)
      /\ \A k \in DOMAIN q : q[k] \in T
  BY <1>3, <1>4, SeqMonotonic, LenProperties, ElementOfSeq
<1>6. /\ s \in Seq(Entry) /\ DOMAIN s = 1 .. Len(q) + 1
      /\ s[1] = [kind |-> "dir", path |-> d]
      /\ \A x \in 2 .. Len(q) + 1 : s[x] = q[x - 1]
  <2>1. Len(first) = 1 /\ first[1] = [kind |-> "dir", path |-> d]
    OBVIOUS
  <2> HIDE DEF first
  <2>2. /\ s \in Seq(Entry) /\ DOMAIN s = 1 .. 1 + Len(q)
        /\ \A x \in 1 .. 1 + Len(q) : s[x] = IF x <= 1 THEN first[x] ELSE q[x - 1]
    BY <1>4, <1>5, <2>1, ConcatIndex
  <2> HIDE DEF s
  <2>3. QED BY <1>5, <2>1, <2>2
<1> HIDE DEF s
<1>7. \A x \in 2 .. Len(q) + 1 : x - 1 \in DOMAIN q /\ s[x] \in T
  BY <1>5, <1>6
<1>8. IsInjective(s)
  <2>1. SUFFICES ASSUME NEW x \in DOMAIN s, NEW y \in DOMAIN s, s[x] = s[y]
                 PROVE  x = y
    BY DEF IsInjective
  <2>2. \A z \in T : z.kind = "file"
    BY DEF FileEntry
  <2>3. s[1].kind = "dir"
    BY <1>6
  <2>4. x = 1 <=> y = 1
    BY <1>5, <1>6, <1>7, <2>1, <2>2, <2>3
  <2>5. CASE x # 1 /\ y # 1
    <3>1. x \in 2 .. Len(q) + 1 /\ y \in 2 .. Len(q) + 1
      BY <1>5, <1>6, <2>5
    <3>2. q[x - 1] = q[y - 1] /\ x - 1 \in DOMAIN q /\ y - 1 \in DOMAIN q
      BY <1>6, <1>7, <2>1, <3>1
    <3>3. x - 1 = y - 1
      BY <1>3, <3>2 DEF IsInjective
    <3>4. QED BY <1>5, <3>1, <3>3
  <2>6. QED BY <2>4, <2>5
<1>9. ASSUME NEW k \in DOMAIN s PROVE Home(s[k]) = d /\ Included(s[k], req)
  <2>1. CASE k = 1
    BY <1>6, <2>1 DEF Home, Included
  <2>2. CASE k # 1
    <3>1. s[k] \in T
      BY <1>5, <1>6, <1>7, <2>2
    <3>2. QED BY <1>1, <3>1 DEF Home, Included, FileEntry
  <2>3. QED BY <2>1, <2>2
<1>10. ASSUME NEW f \in Selected(d, req) PROVE \E k \in DOMAIN s : s[k] = FileEntry(f)
  <2>1. PICK k \in DOMAIN q : q[k] = FileEntry(f)
    BY <1>3
  <2>2. k + 1 \in 2 .. Len(q) + 1 /\ (k + 1) - 1 = k
    BY <1>5
  <2>3. k + 1 \in DOMAIN s /\ s[k + 1] = q[k]
    BY <1>5, <1>6, <2>2
  <2>4. QED BY <2>1, <2>3
<1>11. CASE IncludeDir(d, req) \/ Selected(d, req) # {}
  <2>1. DirEntries(d, req) = s
    BY <1>11 DEF DirEntries, FileEntry, s, q
  <2>2. QED BY <1>6, <1>8, <1>9, <1>10, <2>1
<1>12. CASE ~ (IncludeDir(d, req) \/ Selected(d, req) # {})
  <2>1. DirEntries(d, req) = <<>> /\ Selected(d, req) = {}
    BY <1>12 DEF DirEntries
  <2>2. DOMAIN DirEntries(d, req) = {}
    BY <2>1
  <2>3. QED BY <2>1, <2>2, NoEntries
<1>13. QED BY <1>11, <1>12

(* A shard has each entry of its directories once.                         *)
LEMMA ShardEntriesOf ==
    ASSUME NEW sh, NEW req
    PROVE  /\ ShardEntries(sh, req) \in Seq(Entry)
           /\ IsInjective(ShardEntries(sh, req))
           /\ \A x \in DOMAIN ShardEntries(sh, req) :
                 /\ Home(ShardEntries(sh, req)[x]) \in Dirs
                 /\ ShardOf[Home(ShardEntries(sh, req)[x])] = sh
                 /\ Included(ShardEntries(sh, req)[x], req)
           /\ \A f \in Paths : IncludeFile(f, req) /\ ShardOf[Front(f)] = sh =>
                 \E x \in DOMAIN ShardEntries(sh, req) : ShardEntries(sh, req)[x] = FileEntry(f)
<1> DEFINE K == [k \in DOMAIN DirOrder |->
                    IF ShardOf[DirOrder[k]] = sh THEN DirEntries(DirOrder[k], req) ELSE <<>>]
           E == ShardEntries(sh, req)
<1>1. /\ DirOrder \in Seq(Seq(STRING)) /\ IsInjective(DirOrder)
      /\ Len(DirOrder) \in Nat /\ DOMAIN DirOrder = 1 .. Len(DirOrder)
      /\ \A k \in DOMAIN DirOrder : DirOrder[k] \in Dirs
  BY CopyAssumption, LenProperties DEF Dirs, Range
<1>2. ASSUME NEW k \in DOMAIN DirOrder
      PROVE  /\ K[k] \in Seq(Entry)
             /\ \A x \in DOMAIN K[k] :
                   /\ K[k] = DirEntries(DirOrder[k], req)
                   /\ Home(K[k][x]) = DirOrder[k] /\ ShardOf[DirOrder[k]] = sh
                   /\ Included(K[k][x], req)
  <2>1. CASE ShardOf[DirOrder[k]] = sh
    <3>1. K[k] = DirEntries(DirOrder[k], req)
      BY <2>1
    <3> HIDE DEF K
    <3>2. QED BY <1>1, <2>1, <3>1, DirEntriesOf
  <2>2. CASE ShardOf[DirOrder[k]] # sh
    <3>1. K[k] = <<>>
      BY <2>2
    <3> HIDE DEF K
    <3>2. K[k] \in Seq(Entry) /\ DOMAIN K[k] = {}
      BY <3>1, NoEntries
    <3>3. QED BY <3>2
  <2>3. QED BY <2>1, <2>2
<1>3. K \in Seq(Seq(Entry)) /\ DOMAIN K = DOMAIN DirOrder /\ Len(K) = Len(DirOrder)
  <2>1. K \in [1 .. Len(DirOrder) -> Seq(Entry)]
    <3>1. \A k \in 1 .. Len(DirOrder) : K[k] \in Seq(Entry)
      BY <1>1, <1>2
    <3>2. DOMAIN K = 1 .. Len(DirOrder) /\ K = [k \in 1 .. Len(DirOrder) |-> K[k]]
      BY <1>1
    <3> HIDE DEF K
    <3>3. QED BY <3>1, <3>2
  <2> HIDE DEF K
  <2>2. K \in Seq(Seq(Entry)) /\ DOMAIN K = 1 .. Len(DirOrder)
    BY <1>1, <2>1, IsSequence
  <2>3. DOMAIN K = 1 .. Len(K) /\ Len(K) \in Nat
    BY <2>2, LenProperties
  <2>4. Len(K) = Len(DirOrder)
    BY <1>1, <2>2, <2>3
  <2>5. QED BY <1>1, <2>2, <2>4
<1>4. E = FlattenSeq(K)
  BY DEF ShardEntries
<1> HIDE DEF K, E
<1>5. Distinct(K)
  <2>1. SUFFICES ASSUME NEW i \in DOMAIN K, NEW j \in DOMAIN K,
                        NEW k \in DOMAIN K[i], NEW l \in DOMAIN K[j], K[i][k] = K[j][l]
                 PROVE  i = j /\ k = l
    BY DEF Distinct
  <2>2. DirOrder[i] = DirOrder[j]
    <3>1. Home(K[i][k]) = DirOrder[i] /\ Home(K[j][l]) = DirOrder[j]
      BY <1>2, <1>3
    <3>2. QED BY <2>1, <3>1
  <2>3. i = j
    BY <1>1, <1>3, <2>2 DEF IsInjective
  <2>4. IsInjective(K[i])
    BY <1>1, <1>2, <1>3, DirEntriesOf
  <2>5. QED BY <2>1, <2>3, <2>4 DEF IsInjective
<1>6. E \in Seq(Entry) /\ MadeOf(K, Len(K), E)
  BY <1>3, <1>4, FlattenMade
<1>7. IsInjective(E)
  BY <1>5, <1>6 DEF MadeOf
<1>8. ASSUME NEW x \in DOMAIN E
      PROVE  Home(E[x]) \in Dirs /\ ShardOf[Home(E[x])] = sh /\ Included(E[x], req)
  <2>1. PICK i \in 1 .. Len(K) : \E k \in DOMAIN K[i] : E[x] = K[i][k]
    BY <1>6 DEF MadeOf
  <2>2. PICK k \in DOMAIN K[i] : E[x] = K[i][k]
    BY <2>1
  <2>3. i \in DOMAIN DirOrder /\ DirOrder[i] \in Dirs
    BY <1>1, <1>3
  <2>4. Home(E[x]) = DirOrder[i] /\ ShardOf[DirOrder[i]] = sh /\ Included(E[x], req)
    BY <1>2, <2>2, <2>3
  <2>5. QED BY <2>3, <2>4
<1>9. ASSUME NEW f \in Paths, IncludeFile(f, req), ShardOf[Front(f)] = sh
      PROVE  \E x \in DOMAIN E : E[x] = FileEntry(f)
  <2>1. Front(f) \in Dirs /\ f \in Selected(Front(f), req)
    BY <1>9, CopyAssumption DEF Selected, FilesIn
  <2>2. PICK i \in DOMAIN DirOrder : DirOrder[i] = Front(f)
    BY <2>1 DEF Dirs, Range
  <2>3. K[i] = DirEntries(Front(f), req)
    BY <1>9, <2>2 DEF K
  <2>4. PICK k \in DOMAIN K[i] : K[i][k] = FileEntry(f)
    BY <2>1, <2>3, DirEntriesOf
  <2>5. i \in 1 .. Len(K)
    BY <1>1, <1>3
  <2>6. QED BY <1>6, <2>4, <2>5 DEF MadeOf
<1>10. QED BY <1>6, <1>7, <1>8, <1>9 DEF E

(* The plan before it is read: the control files of all shards.            *)
Shards == SetToSeq(Range(ShardOf))
Split(req) ==
    FlattenSeq([k \in DOMAIN Shards |-> Rollover(ShardEntries(Shards[k], req))])

LEMMA ShardsOf ==
    /\ Len(Shards) \in Nat /\ DOMAIN Shards = 1 .. Len(Shards) /\ IsInjective(Shards)
    /\ \A d \in Dirs : \E k \in DOMAIN Shards : Shards[k] = ShardOf[d]
<1>1. DOMAIN DirOrder = 1 .. Len(DirOrder) /\ Len(DirOrder) \in Nat
  BY CopyAssumption, LenProperties
<1>2. IsFiniteSet(Dirs)
  <2>1. IsFiniteSet(1 .. Len(DirOrder))
    BY <1>1, FS_Interval
  <2>2. DirOrder \in Surjection(1 .. Len(DirOrder), Dirs)
    BY <1>1, CopyAssumption DEF Surjection, Dirs, Range
  <2>3. QED BY <2>1, <2>2, FS_Surjection
<1>3. IsFiniteSet(Range(ShardOf))
  <2> DEFINE g == [d \in Dirs |-> ShardOf[d]]
  <2>1. g \in Surjection(Dirs, Range(ShardOf))
    BY CopyAssumption DEF Surjection, Range
  <2>2. QED BY <1>2, <2>1, FS_Surjection
<1>4. /\ Shards \in Seq(Range(ShardOf)) /\ IsInjective(Shards)
      /\ \A x \in Range(ShardOf) : \E k \in DOMAIN Shards : Shards[k] = x
  BY <1>3, SetInSequence DEF Shards
<1>5. \A d \in Dirs : ShardOf[d] \in Range(ShardOf)
  BY CopyAssumption DEF Range
<1>6. QED BY <1>4, <1>5, LenProperties

(* Each entry is in one place of one control file, and what is asked for   *)
(* is in one.                                                              *)
LEMMA SplitOf ==
    ASSUME NEW req
    PROVE  /\ Split(req) \in Seq(Seq(Entry))
           /\ Distinct(Split(req))
           /\ \A c \in DOMAIN Split(req) : \A i \in DOMAIN Split(req)[c] :
                 Split(req)[c][i] \in Entry /\ Included(Split(req)[c][i], req)
           /\ \A f \in Paths : IncludeFile(f, req) =>
                 \E c \in DOMAIN Split(req) : \E i \in DOMAIN Split(req)[c] :
                     Split(req)[c][i] = FileEntry(f)
<1> DEFINE E(k) == ShardEntries(Shards[k], req)
           K == [k \in DOMAIN Shards |-> Rollover(E(k))]
           P == Split(req)
<1>1. ASSUME NEW k \in DOMAIN Shards
      PROVE  /\ E(k) \in Seq(Entry) /\ IsInjective(E(k))
             /\ \A x \in DOMAIN E(k) :
                   /\ E(k)[x] \in Entry
                   /\ Home(E(k)[x]) \in Dirs /\ ShardOf[Home(E(k)[x])] = Shards[k]
                   /\ Included(E(k)[x], req)
             /\ \A f \in Paths : IncludeFile(f, req) /\ ShardOf[Front(f)] = Shards[k] =>
                   \E x \in DOMAIN E(k) : E(k)[x] = FileEntry(f)
  BY ShardEntriesOf, ElementOfSeq, LenProperties
<1> HIDE DEF E
<1>2. ASSUME NEW k \in DOMAIN Shards
      PROVE  /\ K[k] \in Seq(Seq(Entry))
             /\ \A r \in DOMAIN K[k] :
                   /\ 1 \in DOMAIN K[k][r]
                   /\ \A i \in DOMAIN K[k][r] :
                         /\ i \in 1 .. EntryLimit
                         /\ (r - 1) * EntryLimit + i \in DOMAIN E(k)
                         /\ K[k][r][i] = E(k)[(r - 1) * EntryLimit + i]
             /\ \A x \in DOMAIN E(k) : \E r \in DOMAIN K[k] : \E i \in DOMAIN K[k][r] :
                   K[k][r][i] = E(k)[x]
  <2>1. K[k] = Rollover(E(k)) /\ E(k) \in Seq(Entry)
    BY <1>1
  <2> HIDE DEF K
  <2>2. QED BY <2>1, RolloverCuts
<1>3. /\ DOMAIN Shards = 1 .. Len(Shards) /\ Len(Shards) \in Nat /\ IsInjective(Shards)
      /\ \A d \in Dirs : \E k \in DOMAIN Shards : Shards[k] = ShardOf[d]
  BY ShardsOf
<1>4. K \in Seq(Seq(Seq(Entry))) /\ DOMAIN K = DOMAIN Shards
  <2>1. \A k \in 1 .. Len(Shards) : K[k] \in Seq(Seq(Entry))
    BY <1>2, <1>3
  <2>2. DOMAIN K = 1 .. Len(Shards) /\ K = [k \in 1 .. Len(Shards) |-> K[k]]
    BY <1>3
  <2> HIDE DEF K
  <2>3. K \in [1 .. Len(Shards) -> Seq(Seq(Entry))]
    BY <2>1, <2>2
  <2>4. QED BY <1>3, <2>3, IsSequence
<1>5. P = FlattenSeq(K)
  BY DEF Split, E
<1> HIDE DEF K, P
<1>6. DOMAIN K = 1 .. Len(K)
  BY <1>4, LenProperties
<1>7. ASSUME NEW k \in DOMAIN K, NEW l \in DOMAIN K, NEW r \in DOMAIN K[k], NEW s \in DOMAIN K[l],
             NEW i \in DOMAIN K[k][r], NEW j \in DOMAIN K[l][s], K[k][r][i] = K[l][s][j]
      PROVE  k = l /\ r = s /\ i = j
  <2> DEFINE x == (r - 1) * EntryLimit + i
             y == (s - 1) * EntryLimit + j
  <2>1. /\ x \in DOMAIN E(k) /\ K[k][r][i] = E(k)[x] /\ i \in 1 .. EntryLimit
        /\ y \in DOMAIN E(l) /\ K[l][s][j] = E(l)[y] /\ j \in 1 .. EntryLimit
    BY <1>2, <1>4
  <2> HIDE DEF x, y
  <2>2. Shards[k] = Shards[l]
    <3>1. E(k)[x] = E(l)[y]
      BY <1>7, <2>1
    <3>2. ShardOf[Home(E(k)[x])] = Shards[k] /\ ShardOf[Home(E(l)[y])] = Shards[l]
      BY <1>1, <1>4, <2>1
    <3>3. QED BY <3>1, <3>2
  <2>3. k = l
    BY <1>3, <1>4, <2>2 DEF IsInjective
  <2>4. x = y
    BY <1>1, <1>4, <1>7, <2>1, <2>3 DEF IsInjective
  <2>5. r \in Nat \ {0} /\ s \in Nat \ {0}
    <3>1. K[k] \in Seq(Seq(Entry)) /\ K[l] \in Seq(Seq(Entry))
      BY <1>2, <1>4
    <3>2. /\ DOMAIN K[k] = 1 .. Len(K[k]) /\ Len(K[k]) \in Nat
          /\ DOMAIN K[l] = 1 .. Len(K[l]) /\ Len(K[l]) \in Nat
      BY <3>1, LenProperties
    <3>3. QED BY <3>2
  <2>6. r - 1 \in Nat /\ s - 1 \in Nat /\ EntryLimit \in Nat \ {0}
    BY <2>5, BoundsAssumption
  <2>7. r - 1 = s - 1 /\ i = j
    <3>1. PICK a \in Nat, b \in Nat : a = r - 1 /\ b = s - 1
      BY <2>6
    <3>2. a * EntryLimit + i = b * EntryLimit + j
      BY <2>4, <3>1 DEF x, y
    <3>3. a = b /\ i = j
      BY <2>1, <2>6, <3>2, OnePiece
    <3>4. QED BY <3>1, <3>3
  <2>8. QED BY <2>3, <2>5, <2>7
<1>8. Distinct(K)
  <2>1. SUFFICES ASSUME NEW k \in DOMAIN K, NEW l \in DOMAIN K,
                        NEW r \in DOMAIN K[k], NEW s \in DOMAIN K[l], K[k][r] = K[l][s]
                 PROVE  k = l /\ r = s
    BY DEF Distinct
  <2>2. 1 \in DOMAIN K[k][r] /\ 1 \in DOMAIN K[l][s] /\ K[k][r][1] = K[l][s][1]
    BY <1>2, <1>4, <2>1
  <2>3. QED BY <1>7, <2>2
<1>9. P \in Seq(Seq(Entry)) /\ MadeOf(K, Len(K), P)
  BY <1>4, <1>5, FlattenMade
<1>10. IsInjective(P)
  BY <1>8, <1>9 DEF MadeOf
<1>11. ASSUME NEW c \in DOMAIN P
       PROVE  \E k \in DOMAIN K : \E r \in DOMAIN K[k] : P[c] = K[k][r]
  BY <1>6, <1>9 DEF MadeOf
<1>12. Distinct(P)
  <2>1. SUFFICES ASSUME NEW c \in DOMAIN P, NEW d \in DOMAIN P,
                        NEW i \in DOMAIN P[c], NEW j \in DOMAIN P[d], P[c][i] = P[d][j]
                 PROVE  c = d /\ i = j
    BY DEF Distinct
  <2>2. PICK k \in DOMAIN K : \E r \in DOMAIN K[k] : P[c] = K[k][r]
    BY <1>11
  <2>3. PICK r \in DOMAIN K[k] : P[c] = K[k][r]
    BY <2>2
  <2>4. PICK l \in DOMAIN K : \E s \in DOMAIN K[l] : P[d] = K[l][s]
    BY <1>11
  <2>5. PICK s \in DOMAIN K[l] : P[d] = K[l][s]
    BY <2>4
  <2>6. k = l /\ r = s /\ i = j
    BY <1>7, <2>1, <2>3, <2>5
  <2>7. P[c] = P[d]
    BY <2>3, <2>5, <2>6
  <2>8. QED BY <1>10, <2>6, <2>7 DEF IsInjective
<1>13. ASSUME NEW c \in DOMAIN P, NEW i \in DOMAIN P[c]
       PROVE  P[c][i] \in Entry /\ Included(P[c][i], req)
  <2>1. PICK k \in DOMAIN K : \E r \in DOMAIN K[k] : P[c] = K[k][r]
    BY <1>11
  <2>2. PICK r \in DOMAIN K[k] : P[c] = K[k][r]
    BY <2>1
  <2>3. /\ (r - 1) * EntryLimit + i \in DOMAIN E(k)
        /\ P[c][i] = E(k)[(r - 1) * EntryLimit + i]
    BY <1>2, <1>4, <2>2
  <2>4. QED BY <1>1, <1>4, <2>3
<1>14. ASSUME NEW f \in Paths, IncludeFile(f, req)
       PROVE  \E c \in DOMAIN P : \E i \in DOMAIN P[c] : P[c][i] = FileEntry(f)
  <2>1. PICK k \in DOMAIN Shards : Shards[k] = ShardOf[Front(f)]
    BY <1>3, CopyAssumption
  <2>2. PICK x \in DOMAIN E(k) : E(k)[x] = FileEntry(f)
    BY <1>1, <1>14, <2>1
  <2>3. PICK r \in DOMAIN K[k] : \E i \in DOMAIN K[k][r] : K[k][r][i] = E(k)[x]
    BY <1>2, <2>2
  <2>4. PICK c \in DOMAIN P : P[c] = K[k][r]
    BY <1>4, <1>6, <1>9, <2>3 DEF MadeOf
  <2>5. QED BY <2>2, <2>3, <2>4
<1>15. QED BY <1>9, <1>12, <1>13, <1>14 DEF P

LEMMA LenOfFunction ==
    ASSUME NEW n \in Nat, NEW f, f = [i \in 1 .. n |-> f[i]]
    PROVE  Len(f) = n /\ DOMAIN f = 1 .. n
<1>1. f \in [1 .. n -> {f[i] : i \in 1 .. n}]
  OBVIOUS
<1>2. f \in Seq({f[i] : i \in 1 .. n}) /\ DOMAIN f = 1 .. n
  BY <1>1, IsSequence
<1>3. DOMAIN f = 1 .. Len(f) /\ Len(f) \in Nat
  BY <1>2, LenProperties
<1>4. QED BY <1>2, <1>3

(* What is selected is what is asked for.                                  *)
LEMMA IncludedIsAsked ==
    ASSUME Known, NEW f \in Paths
    PROVE  IncludeFile(f, request) <=> f \in Asked
<1>1. f \in Seq(STRING) /\ Front(f) \in Dirs /\ f \notin Dirs /\ f # <<>>
  BY CopyAssumption
<1>2. ASSUME f \in request PROVE IsPrefix(f, f)
  BY <1>1 DEF IsPrefix
<1>3. ASSUME NEW r \in request, IsPrefix(r, f), r \notin Dirs PROVE r = f
  <2>1. r \in Paths /\ r \in Seq(STRING)
    BY <1>3, CopyAssumption DEF Known
  <2>2. Len(r) \in Nat /\ Len(f) \in Nat /\ Len(r) <= Len(f) /\ r = SubSeq(f, 1, Len(r))
    BY <1>1, <1>3, <2>1 DEF IsPrefix
  <2>3. CASE Len(r) = Len(f)
    BY <1>1, <2>2, <2>3
  <2>4. CASE Len(r) # Len(f)
    <3>1. PICK n \in Nat : n = Len(f) - 1
      BY <2>2, <2>4
    <3>2. PICK m \in Nat : m = Len(r)
      BY <2>2
    <3>3. m <= n /\ Len(f) = n + 1
      <4>1. Len(r) \in Nat /\ Len(f) \in Nat /\ Len(r) <= Len(f)
        BY <2>2
      <4>2. QED BY <2>4, <3>1, <3>2, <4>1
    <3>4. \A k \in 1 .. n : f[k] \in STRING
      <4>1. \A k \in 1 .. n : k \in 1 .. Len(f)
        BY <3>3
      <4>2. QED BY <1>1, <4>1, ElementOfSeq
    <3>5. Front(f) = SubSeq(f, 1, n)
      BY <3>1 DEF Front
    <3>6. /\ Front(f) \in Seq(STRING) /\ Len(Front(f)) = IF 1 <= n THEN n - 1 + 1 ELSE 0
          /\ \A k \in 1 .. n - 1 + 1 : Front(f)[k] = f[1 + k - 1]
      BY <3>4, <3>5, SubSeqProperties
    <3>7. PICK q \in Seq(STRING) : q = Front(f)
      BY <3>6
    <3>8. Len(q) = n /\ \A k \in 1 .. n : q[k] = f[k]
      BY <3>6, <3>7
    <3>9. SubSeq(q, 1, m) = SubSeq(f, 1, m)
      BY <1>1, <3>3, <3>7, <3>8
    <3>10. m \in 0 .. Len(q) /\ r = SubSeq(q, 1, m)
      BY <2>2, <3>2, <3>3, <3>8, <3>9
    <3>11. r \in Prefixes(Front(f))
      BY <3>7, <3>10 DEF Prefixes
    <3>12. r \in Dirs
      BY <1>1, <3>11, CopyAssumption
    <3>13. QED BY <1>3, <3>12
  <2>5. QED BY <2>3, <2>4
<1>4. QED BY <1>2, <1>3 DEF IncludeFile, Asked, Known

(* A plan has each file that is asked for, once, and no other.             *)
PlanRight(pl) ==
    /\ IsFiniteSet(DOMAIN pl)
    /\ \A c \in DOMAIN pl : Len(pl[c]) \in Nat /\ DOMAIN pl[c] = 1 .. Len(pl[c])
    /\ \A c \in DOMAIN pl : \A i \in DOMAIN pl[c] :
          /\ pl[c][i].kind \in {"dir", "file", "link"}
          /\ pl[c][i].kind # "dir" =>
                pl[c][i].path \in Asked /\ (pl[c][i].kind = "link" <=> Copy[pl[c][i].path].link)
    /\ \A f \in Asked : \E c \in DOMAIN pl : \E i \in DOMAIN pl[c] :
          pl[c][i].kind # "dir" /\ pl[c][i].path = f
    /\ \A c, d \in DOMAIN pl : \A i \in DOMAIN pl[c], j \in DOMAIN pl[d] :
          /\ pl[c][i].kind # "dir" /\ pl[d][j].kind # "dir"
          /\ pl[c][i].path = pl[d][j].path
          => c = d /\ i = j

LEMMA PlanOf ==
    ASSUME Known
    PROVE  PlanRight(ControlFiles(request))
<1> DEFINE P == Split(request)
           pl == ControlFiles(request)
<1>1. P \in Seq(Seq(Entry)) /\ Len(P) \in Nat /\ DOMAIN P = 1 .. Len(P)
  BY SplitOf, LenProperties
<1>2. pl = [c \in DOMAIN P |-> AsRead(P[c])]
  BY DEF ControlFiles, Split, Shards
<1> HIDE DEF pl, P
<1>3. DOMAIN pl = 1 .. Len(P) /\ IsFiniteSet(DOMAIN pl)
  BY <1>1, <1>2, FS_Interval
<1>4. ASSUME NEW c \in DOMAIN pl
      PROVE  /\ Len(pl[c]) \in Nat /\ DOMAIN pl[c] = 1 .. Len(pl[c]) /\ DOMAIN pl[c] = DOMAIN P[c]
             /\ \A i \in DOMAIN pl[c] :
                   /\ pl[c][i].kind = IF P[c][i].kind = "file" /\ Copy[P[c][i].path].link
                                      THEN "link" ELSE P[c][i].kind
                   /\ pl[c][i].path = P[c][i].path
  <2>1. P[c] \in Seq(Entry) /\ Len(P[c]) \in Nat /\ DOMAIN P[c] = 1 .. Len(P[c])
    BY <1>1, <1>3, ElementOfSeq, LenProperties
  <2>2. pl[c] = AsRead(P[c])
    BY <1>1, <1>2, <1>3
  <2>3. DOMAIN pl[c] = DOMAIN P[c]
        /\ \A i \in DOMAIN pl[c] :
              /\ pl[c][i].kind = IF P[c][i].kind = "file" /\ Copy[P[c][i].path].link
                                 THEN "link" ELSE P[c][i].kind
              /\ pl[c][i].path = P[c][i].path
    BY <2>2 DEF AsRead
  <2>4. pl[c] = [i \in 1 .. Len(P[c]) |-> pl[c][i]]
    BY <2>1, <2>2 DEF AsRead
  <2>5. QED BY <2>1, <2>3, <2>4, LenOfFunction
<1>5. ASSUME NEW c \in DOMAIN pl, NEW i \in DOMAIN pl[c]
      PROVE  /\ P[c][i] \in Entry /\ Included(P[c][i], request)
             /\ pl[c][i].kind # "dir" => P[c][i] = FileEntry(P[c][i].path)
  <2>1. P[c][i] \in Entry /\ Included(P[c][i], request)
    BY <1>1, <1>3, <1>4, SplitOf DEF P
  <2>2. QED BY <1>4, <2>1 DEF Entry, FileEntry
<1>6. ASSUME NEW c \in DOMAIN pl, NEW i \in DOMAIN pl[c]
      PROVE  /\ pl[c][i].kind \in {"dir", "file", "link"}
             /\ pl[c][i].kind # "dir" =>
                   pl[c][i].path \in Asked /\ (pl[c][i].kind = "link" <=> Copy[pl[c][i].path].link)
  <2>1. P[c][i].kind \in {"dir", "file"} /\ P[c][i].kind = "file" => P[c][i].path \in Asked
    BY <1>5, IncludedIsAsked DEF Entry, Included
  <2>2. P[c][i].kind \in {"dir", "file"}
    BY <1>5 DEF Entry
  <2>3. QED BY <1>4, <2>1, <2>2
<1>7. ASSUME NEW f \in Asked
      PROVE  \E c \in DOMAIN pl : \E i \in DOMAIN pl[c] : pl[c][i].kind # "dir" /\ pl[c][i].path = f
  <2>1. f \in Paths /\ IncludeFile(f, request)
    BY IncludedIsAsked DEF Asked
  <2>2. PICK c \in DOMAIN P : \E i \in DOMAIN P[c] : P[c][i] = FileEntry(f)
    BY <2>1, SplitOf DEF P
  <2>3. PICK i \in DOMAIN P[c] : P[c][i] = FileEntry(f)
    BY <2>2
  <2>4. c \in DOMAIN pl /\ i \in DOMAIN pl[c]
    BY <1>1, <1>3, <1>4
  <2>5. QED BY <1>4, <2>3, <2>4 DEF FileEntry
<1>8. ASSUME NEW c \in DOMAIN pl, NEW d \in DOMAIN pl, NEW i \in DOMAIN pl[c], NEW j \in DOMAIN pl[d],
             pl[c][i].kind # "dir", pl[d][j].kind # "dir", pl[c][i].path = pl[d][j].path
      PROVE  c = d /\ i = j
  <2>1. P[c][i] = P[d][j]
    BY <1>4, <1>5, <1>8
  <2>2. c \in DOMAIN P /\ d \in DOMAIN P /\ i \in DOMAIN P[c] /\ j \in DOMAIN P[d]
    BY <1>1, <1>3, <1>4
  <2>3. Distinct(P)
    BY SplitOf DEF P
  <2>4. QED BY <2>1, <2>2, <2>3 DEF Distinct
<1>9. PlanRight(pl)
  BY <1>3, <1>4, <1>6, <1>7, <1>8 DEF PlanRight
<1>10. QED BY <1>9 DEF pl

-----------------------------------------------------------------------------
(* The shape of the state.                                                 *)
Phases == {"start", "copy", "mtime", "done", "failed"}
Entries == UNION {{<<c, i>> : i \in DOMAIN plan[c]} : c \in Subtasks}

Planned ==
    IF phase \in {"start", "failed"} THEN plan = <<>>
    ELSE Known /\ plan = ControlFiles(request)

Shape ==
    /\ phase \in Phases /\ request \in Requests /\ remote \in BOOLEAN
    /\ policy \in {"Replace", "Skip", "KeepNewer"}
    /\ Planned
    /\ state \in [Subtasks -> {"new", "open", "ended"}]
    /\ next \in [Subtasks -> Nat \ {0}]
    /\ \A c \in Subtasks : /\ next[c] <= Len(plan[c]) + 1
                           /\ state[c] = "new" => next[c] = 1
    /\ waiting \cup DOMAIN running \subseteq Entries
    /\ \A t \in waiting \cup DOMAIN running : t[2] < next[t[1]] /\ state[t[1]] = "open"
    /\ waiting \cap DOMAIN running = {}
    /\ \A t \in waiting : Item(t).kind # "link"
    /\ \A t \in DOMAIN running : Item(t).kind = "file" /\ running[t] \in Nat
    /\ failing \subseteq Subtasks
    /\ phase \in {"mtime", "done"} => Joined /\ failed = Cardinality(failing)

LEMMA PlanFacts ==
    ASSUME Planned
    PROVE  /\ PlanRight(plan) \/ plan = <<>>
           /\ IsFiniteSet(Subtasks)
           /\ \A c \in Subtasks : Len(plan[c]) \in Nat /\ DOMAIN plan[c] = 1 .. Len(plan[c])
           /\ \A t \in Entries : /\ t[1] \in Subtasks /\ t[2] \in 1 .. Len(plan[t[1]])
                                 /\ t = <<t[1], t[2]>>
                                 /\ Item(t).kind \in {"dir", "file", "link"}
                                 /\ Item(t).kind # "dir" =>
                                       /\ Item(t).path \in Asked
                                       /\ Item(t).kind = "link" <=> Copy[Item(t).path].link
           /\ \A c \in Subtasks : \A i \in 1 .. Len(plan[c]) : <<c, i>> \in Entries
           /\ \A t, u \in Entries :
                 Item(t).kind # "dir" /\ Item(u).kind # "dir" /\ Item(t).path = Item(u).path => t = u
<1>1. PlanRight(plan) \/ plan = <<>>
  BY PlanOf DEF Planned
<1>2. CASE plan = <<>>
  <2>1. DOMAIN plan = {}
    BY <1>2
  <2>2. Subtasks = {} /\ Entries = {}
    BY <2>1 DEF Subtasks, Entries
  <2>3. QED BY <1>1, <2>2, FS_EmptySet
<1>3. CASE PlanRight(plan)
  <2>1. /\ IsFiniteSet(Subtasks)
        /\ \A c \in Subtasks : Len(plan[c]) \in Nat /\ DOMAIN plan[c] = 1 .. Len(plan[c])
    BY <1>3 DEF PlanRight, Subtasks
  <2>2. ASSUME NEW t \in Entries
        PROVE  t[1] \in Subtasks /\ t[2] \in DOMAIN plan[t[1]] /\ t = <<t[1], t[2]>>
    BY DEF Entries
  <2>3. ASSUME NEW t \in Entries
        PROVE  /\ Item(t).kind \in {"dir", "file", "link"}
               /\ Item(t).kind # "dir" =>
                     Item(t).path \in Asked /\ (Item(t).kind = "link" <=> Copy[Item(t).path].link)
    BY <1>3, <2>2 DEF PlanRight, Item, Subtasks
  <2>4. ASSUME NEW c \in Subtasks, NEW i \in 1 .. Len(plan[c]) PROVE <<c, i>> \in Entries
    BY <2>1 DEF Entries
  <2>5. ASSUME NEW t \in Entries, NEW u \in Entries,
               Item(t).kind # "dir", Item(u).kind # "dir", Item(t).path = Item(u).path
        PROVE  t = u
    <3>1. t[1] = u[1] /\ t[2] = u[2]
      BY <1>3, <2>2, <2>5 DEF PlanRight, Item, Subtasks
    <3>2. QED BY <2>2, <3>1
  <2>6. QED BY <1>1, <2>1, <2>2, <2>3, <2>4, <2>5
<1>4. QED BY <1>1, <1>2, <1>3

LEMMA InitShape == JobInit => Shape
<1>1. SUFFICES ASSUME JobInit PROVE Shape
  OBVIOUS
<1>2. plan = <<>> /\ state = <<>> /\ next = <<>> /\ running = <<>> /\ waiting = {} /\ failing = {}
      /\ phase = "start" /\ request \in Requests /\ remote \in Remote /\ policy \in Policies
  BY <1>1 DEF JobInit
<1>3. Subtasks = {} /\ DOMAIN running = {} /\ DOMAIN state = {} /\ DOMAIN next = {}
  BY <1>2 DEF Subtasks
<1>4. state \in [Subtasks -> {"new", "open", "ended"}] /\ next \in [Subtasks -> Nat \ {0}]
  <2>1. state = [c \in {} |-> state[c]] /\ next = [c \in {} |-> next[c]]
    BY <1>2
  <2>2. QED BY <1>3, <2>1
<1>5. QED BY <1>2, <1>3, <1>4, BoundsAssumption DEF Shape, Planned, Phases

(* What most steps leave alone.                                            *)
LEMMA SamePlan ==
    ASSUME UNCHANGED plan
    PROVE  /\ Subtasks' = Subtasks /\ Entries' = Entries
           /\ \A t : Item(t)' = Item(t)
BY DEF Subtasks, Entries, Item

LEMMA PlanShape ==
    ASSUME Shape, PlanRestore
    PROVE  Shape'
<1>1. /\ phase = "start" /\ plan = <<>> /\ Subtasks = {} /\ Entries = {}
      /\ waiting' = {} /\ failing' = {} /\ running' = running /\ DOMAIN running = {}
      /\ UNCHANGED <<request, remote, policy>>
  <2>1. phase = "start" /\ plan = <<>> /\ UNCHANGED <<request, remote, policy, waiting, running, failing>>
    BY DEF Shape, Planned, PlanRestore
  <2>2. DOMAIN plan = {}
    BY <2>1
  <2>3. Subtasks = {} /\ Entries = {}
    BY <2>2 DEF Subtasks, Entries
  <2>4. QED BY <2>1, <2>3 DEF Shape
<1>2. CASE /\ Known /\ plan' = ControlFiles(request) /\ phase' = "copy"
           /\ state' = [c \in DOMAIN plan' |-> "new"]
           /\ next' = [c \in DOMAIN plan' |-> 1]
  <2>1. PlanRight(plan') /\ Planned'
    BY <1>1, <1>2, PlanOf DEF Planned, Known
  <2>2. Subtasks' = DOMAIN plan' /\ \A c \in Subtasks' : Len(plan'[c]) \in Nat
    BY <2>1 DEF PlanRight, Subtasks
  <2>3. state' \in [Subtasks' -> {"new", "open", "ended"}] /\ next' \in [Subtasks' -> Nat \ {0}]
        /\ \A c \in Subtasks' : next'[c] = 1
    BY <1>2, <2>2
  <2>4. \A c \in Subtasks' : next'[c] <= Len(plan'[c]) + 1
    BY <2>2, <2>3
  <2>5. QED BY <1>1, <1>2, <2>1, <2>3, <2>4 DEF Shape, Phases
<1>3. CASE phase' = "failed" /\ UNCHANGED <<plan, state, next>>
  <2>1. Subtasks' = {} /\ Entries' = {}
    BY <1>1, <1>3 DEF Subtasks, Entries
  <2>2. QED BY <1>1, <1>3, <2>1 DEF Shape, Planned, Phases
<1>4. QED BY <1>2, <1>3 DEF PlanRestore

LEMMA OpenMeansCopy ==
    ASSUME Shape, NEW c \in Subtasks, state[c] # "ended"
    PROVE  phase = "copy"
<1>1. phase \notin {"mtime", "done"}
  BY DEF Shape, Joined
<1>2. phase \notin {"start", "failed"}
  <2>1. SUFFICES ASSUME plan = <<>> PROVE FALSE
    BY DEF Shape, Planned
  <2>2. DOMAIN plan = {}
    BY <2>1
  <2>3. QED BY <2>2 DEF Subtasks
<1>3. QED BY <1>1, <1>2 DEF Shape, Phases

LEMMA JoinShape ==
    ASSUME Shape, JoinSubtasks \/ RestoreTimes
    PROVE  Shape'
<1>1. UNCHANGED <<request, remote, policy, plan, state, next, waiting, running, failing>>
  BY DEF JoinSubtasks, RestoreTimes, config, pipeline
<1>2. Subtasks' = Subtasks /\ Entries' = Entries /\ \A t : Item(t)' = Item(t)
  BY <1>1, SamePlan
<1>3. CASE JoinSubtasks
  <2>1. phase = "copy" /\ phase' = "mtime" /\ Joined /\ failed' = Cardinality(failing)
    BY <1>3 DEF JoinSubtasks
  <2>2. Planned' /\ Joined'
    BY <1>1, <1>2, <2>1 DEF Shape, Planned, Known, Joined
  <2>3. QED BY <1>1, <1>2, <2>1, <2>2 DEF Shape, Phases
<1>4. CASE RestoreTimes
  <2>1. phase = "mtime" /\ phase' = "done" /\ failed' = failed
    BY <1>4 DEF RestoreTimes
  <2>2. Planned' /\ Joined' /\ failed = Cardinality(failing)
    BY <1>1, <1>2, <2>1 DEF Shape, Planned, Known, Joined
  <2>3. QED BY <1>1, <1>2, <2>1, <2>2 DEF Shape, Phases
<1>5. QED BY <1>3, <1>4

(* A step of the copy phase.                                               *)
LEMMA CopyPhase ==
    ASSUME Shape, phase = "copy", UNCHANGED <<phase, config>>
    PROVE  /\ Subtasks' = Subtasks /\ Entries' = Entries /\ \A t : Item(t)' = Item(t)
           /\ plan' = plan /\ phase' = "copy"
           /\ request' = request /\ remote' = remote /\ policy' = policy
           /\ Planned'
<1>1. UNCHANGED <<phase, request, remote, policy, plan>>
  BY DEF config
<1>2. QED BY <1>1, SamePlan DEF Shape, Planned, Known

LEMMA OpenShape ==
    ASSUME Shape, NEW c \in Subtasks, OpenSubtask(c)
    PROVE  Shape'
<1>1. phase = "copy" /\ state[c] = "new" /\ UNCHANGED <<phase, config, next, waiting, running>>
  BY DEF OpenSubtask
<1>2. PICK s \in {"open", "ended"} : state' = [state EXCEPT ![c] = s]
  BY DEF OpenSubtask
<1>3. failing' \subseteq Subtasks
  BY DEF OpenSubtask, NoStart, NoPipeline, Shape
<1>4. \A t \in waiting \cup DOMAIN running : t[1] # c
  BY <1>1 DEF Shape
<1>5. state' \in [Subtasks -> {"new", "open", "ended"}]
      /\ \A d \in Subtasks \ {c} : state'[d] = state[d]
      /\ state'[c] # "new"
  BY <1>2 DEF Shape
<1>6. \A t \in waiting \cup DOMAIN running : t[1] \in Subtasks
  BY PlanFacts DEF Shape
<1>7. QED BY <1>1, <1>3, <1>4, <1>5, <1>6, CopyPhase DEF Shape

LEMMA ReceiveShape ==
    ASSUME Shape, NEW c \in Subtasks, Receive(c)
    PROVE  Shape'
<1> DEFINE e == <<c, next[c]>>
<1>1. /\ state[c] = "open" /\ next[c] <= Len(plan[c]) /\ phase = "copy"
      /\ next' = [next EXCEPT ![c] = @ + 1]
      /\ UNCHANGED <<phase, config, state, running>>
  BY OpenMeansCopy DEF Receive
<1>2. \/ waiting' = waiting \cup {e} /\ Item(e).kind # "link"
      \/ waiting' = waiting
  BY DEF Receive, Item
<1>3. failing' \subseteq Subtasks
  BY DEF Receive, MakeLink, Shape
<1>4. e \in Entries /\ e[1] = c /\ e[2] = next[c]
  <2>1. next[c] \in 1 .. Len(plan[c])
    BY <1>1, PlanFacts DEF Shape
  <2>2. QED BY <2>1, PlanFacts DEF Shape
<1>5. /\ next' \in [Subtasks -> Nat \ {0}] /\ next'[c] = next[c] + 1
      /\ \A d \in Subtasks \ {c} : next'[d] = next[d]
  BY <1>1 DEF Shape
<1>6. \A d \in Subtasks : next[d] <= next'[d] /\ next'[d] <= Len(plan[d]) + 1 /\ next[d] \in Nat
  BY <1>1, <1>5, PlanFacts DEF Shape
<1>7. e \notin waiting \cup DOMAIN running
  BY <1>1, <1>4 DEF Shape
<1>8. \A t \in waiting \cup DOMAIN running : t[1] \in Subtasks /\ t[2] \in Nat /\ t[2] < next'[t[1]]
  <2>1. SUFFICES ASSUME NEW t \in waiting \cup DOMAIN running
                 PROVE  t[1] \in Subtasks /\ t[2] \in Nat /\ t[2] < next'[t[1]]
    OBVIOUS
  <2>2. t \in Entries /\ t[2] < next[t[1]]
    BY DEF Shape
  <2>3. t[1] \in Subtasks /\ t[2] \in Nat /\ Planned
    BY <2>2, PlanFacts DEF Shape
  <2>4. next[t[1]] <= next'[t[1]] /\ next[t[1]] \in Nat /\ next'[t[1]] \in Nat
    BY <1>5, <1>6, <2>3
  <2>5. QED BY <2>2, <2>3, <2>4
<1>9. e[2] < next'[e[1]]
  BY <1>4, <1>5, <1>6
<1> HIDE DEF e
<1>10. waiting' \subseteq waiting \cup {e} /\ \A t \in waiting' : t \in waiting \/ t = e
  BY <1>2
<1>11. /\ waiting' \cup DOMAIN running' \subseteq Entries
       /\ \A t \in waiting' \cup DOMAIN running' : t[2] < next'[t[1]] /\ state'[t[1]] = "open"
       /\ waiting' \cap DOMAIN running' = {}
       /\ \A t \in waiting' : Item(t).kind # "link"
       /\ \A t \in DOMAIN running' : Item(t).kind = "file" /\ running'[t] \in Nat
  BY <1>1, <1>2, <1>4, <1>7, <1>8, <1>9, <1>10 DEF Shape
<1>12. QED BY <1>1, <1>3, <1>5, <1>6, <1>11, CopyPhase DEF Shape

(* A task that stops waiting, goes on or ends.                             *)
LEMMA TaskShape ==
    ASSUME Shape, NEW t \in waiting \cup DOMAIN running,
           UNCHANGED <<phase, config, state, next>>,
           waiting' \subseteq waiting,
           \/ running' = running
           \/ DOMAIN running' \subseteq DOMAIN running \cup {t} /\ t \notin waiting'
              /\ \A u \in DOMAIN running' : running'[u] \in Nat
              /\ Item(t).kind = "file",
           failing' \subseteq Subtasks
    PROVE  Shape'
<1>1. t[1] \in Subtasks /\ state[t[1]] = "open" /\ phase = "copy"
  BY PlanFacts, OpenMeansCopy DEF Shape
<1>2. QED BY <1>1, CopyPhase DEF Shape

LEMMA RunShape ==
    ASSUME Shape, NEW t \in waiting, MakeDir(t) \/ StartFile(t)
    PROVE  Shape'
<1>1. UNCHANGED <<phase, config, state, next, failing>> /\ waiting' = waiting \ {t}
  BY DEF MakeDir, StartFile
<1>2. \/ running' = running
      \/ /\ DOMAIN running' = DOMAIN running \cup {t} /\ Item(t).kind = "file"
         /\ \A u \in DOMAIN running' : running'[u] \in Nat
  <2>1. CASE running' = running
    BY <2>1
  <2>2. CASE running' # running
    <3>1. running' = With(running, t, 0) /\ Item(t).kind = "file"
      <4>1. MakeDir(t) => running' = running
        BY DEF MakeDir
      <4>2. StartFile(t) => Item(t).kind = "file"
                            /\ (running' = With(running, t, 0) \/ running' = running)
        BY DEF StartFile
      <4>3. QED BY <2>2, <4>1, <4>2
    <3>2. DOMAIN running' = DOMAIN running \cup {t} /\ running'[t] = 0
          /\ \A u \in DOMAIN running \ {t} : running'[u] = running[u]
      BY <3>1 DEF With
    <3>3. QED BY <3>1, <3>2 DEF Shape
  <2>3. QED BY <2>1, <2>2
<1>3. QED BY <1>1, <1>2, TaskShape DEF Shape

LEMMA EndShape ==
    ASSUME Shape, NEW c \in Subtasks, EndSubtask(c)
    PROVE  Shape'
<1>1. /\ state[c] = "open" /\ phase = "copy" /\ state' = [state EXCEPT ![c] = "ended"]
      /\ \A t \in waiting \cup DOMAIN running : t[1] # c
      /\ UNCHANGED <<phase, config, next, waiting, running, failing>>
  BY OpenMeansCopy DEF EndSubtask
<1>2. state' \in [Subtasks -> {"new", "open", "ended"}]
      /\ \A d \in Subtasks \ {c} : state'[d] = state[d]
      /\ state'[c] = "ended"
  BY <1>1 DEF Shape
<1>3. \A t \in waiting \cup DOMAIN running : t[1] \in Subtasks
  BY PlanFacts DEF Shape
<1>4. QED BY <1>1, <1>2, <1>3, CopyPhase DEF Shape

(* What a read takes from the copy, and what it leaves at the target.      *)
Place(t) == Item(t).place
Meta(t) == Copy[Item(t).path]
ChunkOf(t) ==
    IF Place(t) \in Paths /\ Copy[Place(t)].held THEN Chunk(Place(t), running[t], Meta(t).size)
    ELSE <<>>
End(t) == running[t] + Len(ChunkOf(t))
CanRead(t) ==
    Place(t) \in Paths /\ Copy[Place(t)].held /\ (ChunkOf(t) # <<>> \/ running[t] >= Meta(t).size)
OldData(t) == IF running[t] = 0 \/ Place(t) \notin DOMAIN target THEN <<>> ELSE target[Place(t)].data
NewData(t) ==
    [k \in 1 .. (IF Len(OldData(t)) > End(t) THEN Len(OldData(t)) ELSE End(t)) |->
        IF k \in running[t] + 1 .. End(t) THEN ChunkOf(t)[k - running[t]] ELSE OldData(t)[k]]

LEMMA BlockCases ==
    ASSUME NEW t, CopyBlock(t)
    PROVE  /\ UNCHANGED <<phase, config, state, next, waiting, failed, stray, silent>>
           /\ \/ /\ CanRead(t)
                 /\ Put(Place(t), NewData(t),
                        IF End(t) >= Meta(t).size /\ ~ remote THEN Meta(t).time ELSE Now)
                 /\ running' = IF End(t) >= Meta(t).size
                               THEN Restrict(running, DOMAIN running \ {t})
                               ELSE [running EXCEPT ![t] = End(t)]
                 /\ failing' = failing
              \/ Fail(t) /\ target' = target
BY DEF CopyBlock, Place, Meta, ChunkOf, End, CanRead, OldData, NewData

LEMMA ChunkLength ==
    ASSUME Shape, NEW t \in DOMAIN running
    PROVE  /\ ChunkOf(t) \in Seq(STRING) /\ Len(ChunkOf(t)) \in Nat
           /\ End(t) \in Nat /\ running[t] \in Nat
           /\ Item(t).path \in Paths /\ Meta(t).size \in Nat /\ Item(t).path \in Asked
<1>1. Item(t).path \in Asked /\ running[t] \in Nat
  BY PlanFacts DEF Shape
<1>2. Item(t).path \in Paths /\ Meta(t).size \in Nat
  BY <1>1, CopyAssumption DEF Asked, Meta
<1>3. \A p \in Paths : Copy[p].data \in Seq(STRING)
  BY CopyAssumption
<1>4. ChunkOf(t) \in Seq(STRING)
  <2>1. ASSUME NEW p \in Paths PROVE Chunk(p, running[t], Meta(t).size) \in Seq(STRING)
    <3>1. ASSUME running[t] < Len(Copy[p].data)
          PROVE  Copy[p].data[running[t] + 1] \in STRING
      <4>1. running[t] + 1 \in 1 .. Len(Copy[p].data)
        BY <1>1, <1>3, <3>1, LenProperties
      <4>2. QED BY <1>3, <4>1, ElementOfSeq
    <3>2. FileChunk(p, running[t], Meta(t).size) \in Seq(STRING)
      <4>1. CASE running[t] < Len(Copy[p].data) /\ running[t] < Meta(t).size
        <5>1. <<Copy[p].data[running[t] + 1]>> \in Seq(STRING)
          BY <3>1, <4>1
        <5>2. QED BY <4>1, <5>1 DEF FileChunk
      <4>2. CASE ~ (running[t] < Len(Copy[p].data) /\ running[t] < Meta(t).size)
        <5>1. FileChunk(p, running[t], Meta(t).size) = <<>>
          BY <4>2 DEF FileChunk
        <5>2. QED BY <5>1
      <4>3. QED BY <4>1, <4>2
    <3>3. Copy[p].data \in Seq(STRING)
      BY <1>3
    <3>4. QED BY <3>2, <3>3 DEF Chunk, BlobSlice
  <2>2. <<>> \in Seq(STRING)
    OBVIOUS
  <2>3. QED BY <2>1, <2>2 DEF ChunkOf
<1>5. Len(ChunkOf(t)) \in Nat
  BY <1>4, LenProperties
<1>6. End(t) \in Nat
  BY <1>1, <1>5 DEF End
<1>7. QED BY <1>1, <1>2, <1>4, <1>5, <1>6

LEMMA BlockShape ==
    ASSUME Shape, NEW t \in DOMAIN running, CopyBlock(t)
    PROVE  Shape'
<1>1. /\ UNCHANGED <<phase, config, state, next, waiting>>
      /\ t \notin waiting /\ t[1] \in Subtasks /\ Item(t).kind = "file"
  <2>1. UNCHANGED <<phase, config, state, next, waiting>>
    BY BlockCases
  <2>2. t \notin waiting /\ t \in Entries /\ Item(t).kind = "file"
    BY DEF Shape
  <2>3. QED BY <2>1, <2>2, PlanFacts DEF Shape
<1>2. failing' \subseteq Subtasks
  <2>1. failing' = failing \/ failing' = failing \cup {t[1]}
    BY BlockCases DEF Fail
  <2>2. QED BY <1>1, <2>1 DEF Shape
<1>3. \/ running' = Restrict(running, DOMAIN running \ {t})
      \/ running' = [running EXCEPT ![t] = End(t)]
  BY BlockCases DEF Fail
<1>4. DOMAIN running' \subseteq DOMAIN running /\ \A u \in DOMAIN running' : running'[u] \in Nat
  BY <1>3, ChunkLength DEF Restrict, Shape
<1>5. QED BY <1>1, <1>2, <1>4, TaskShape

LEMMA ShapeHolds == JobSpec => []Shape
<1>1. ASSUME Shape, [JobNext]_jobVars PROVE Shape'
  <2>1. CASE UNCHANGED jobVars
    BY <1>1, <2>1, SamePlan DEF jobVars, config, pipeline, Shape, Planned, Known, Joined
  <2>2. CASE JobNext
    <3>1. CASE Finished
      BY <1>1, <3>1, SamePlan DEF Finished, jobVars, config, pipeline, Shape, Planned, Known, Joined
    <3>2. QED BY <1>1, <2>2, <3>1, PlanShape, JoinShape, OpenShape, ReceiveShape, EndShape, RunShape,
                 BlockShape DEF JobNext
  <2>3. QED BY <1>1, <2>1, <2>2
<1>2. QED BY <1>1, InitShape, PTL DEF JobSpec

-----------------------------------------------------------------------------
(* What is at the target.  An entry is read in its own directory unless    *)
(* the control file was ended between the two: then a link is made in the  *)
(* wrong place, and a file is taken for the one that the copy has there.   *)
(* The theorems are about plans that end no control file before a link,    *)
(* and read no file in the place of another one of the copy.               *)
EntriesApart ==
    \A req \in Requests : \A c \in DOMAIN ControlFiles(req) : \A i \in DOMAIN ControlFiles(req)[c] :
        LET e == ControlFiles(req)[c][i]
        IN e.kind # "dir" => e.place = e.path \/ (e.kind = "file" /\ e.place \notin Paths)

(* An entry whose task has not begun finds what was there before.  A task  *)
(* that runs has a file the policy does not keep.                          *)
AsBefore(p) ==
    IF p \in DOMAIN Existing THEN p \in DOMAIN target /\ target[p] = Existing[p]
    ELSE p \notin DOMAIN target
Pending(t) == t[2] >= next[t[1]] \/ t \in waiting
Fresh == \A t \in Entries : Item(t).kind # "dir" /\ Pending(t) => AsBefore(Item(t).path)
Chosen == \A t \in DOMAIN running : Place(t) = Item(t).path => ~ Kept(Item(t).path)
BeforeInv ==
    (phase = "start" => target = Existing) /\ DOMAIN target \subseteq Paths /\ Fresh /\ Chosen

LEMMA InPlace ==
    ASSUME EntriesApart, Shape, NEW t \in Entries, Item(t).kind # "dir"
    PROVE  Place(t) = Item(t).path \/ (Item(t).kind = "file" /\ Place(t) \notin Paths)
<1>1. t[1] \in Subtasks /\ t[2] \in DOMAIN plan[t[1]] /\ plan # <<>>
  <2>1. t[1] \in Subtasks /\ t[2] \in DOMAIN plan[t[1]]
    BY PlanFacts DEF Shape
  <2>2. DOMAIN <<>> = {}
    OBVIOUS
  <2>3. QED BY <2>1, <2>2 DEF Subtasks
<1>2. plan = ControlFiles(request) /\ request \in Requests
  BY <1>1 DEF Shape, Planned
<1>3. QED BY <1>1, <1>2 DEF EntriesApart, Item, Place, Subtasks

(* A step that writes only what its entry stands for.                      *)
WritesOnly(t) ==
    \/ target' = target
    \/ /\ t \in Entries /\ Item(t).kind # "dir" /\ ~ Kept(Item(t).path) /\ ~ Pending(t)'
       /\ \E v : target' = With(target, Item(t).path, v)

Quiet == \A t \in Entries : Pending(t)' => Pending(t)

LEMMA KeptSame ==
    ASSUME UNCHANGED <<remote, policy>>
    PROVE  \A p : Kept(p)' <=> Kept(p)
BY DEF Kept

LEMMA FreshStep ==
    ASSUME Shape, BeforeInv, UNCHANGED <<plan, remote, policy>>, Quiet, NEW t, WritesOnly(t),
           phase' # "start",
           \A u \in DOMAIN running' :
              u \in DOMAIN running \/ (Place(u) = Item(u).path => ~ Kept(Item(u).path))
    PROVE  BeforeInv'
<1>1. Entries' = Entries /\ \A u : Item(u)' = Item(u) /\ Place(u)' = Place(u)
  BY SamePlan DEF Place
<1>2. ASSUME NEW u \in Entries, Item(u).kind # "dir", Pending(u)'
      PROVE  AsBefore(Item(u).path)'
  <2>1. AsBefore(Item(u).path) /\ Pending(u)
    BY <1>2 DEF BeforeInv, Fresh, Quiet
  <2>2. CASE target' = target
    BY <1>1, <2>1, <2>2 DEF AsBefore
  <2>3. CASE target' # target
    <3>1. /\ t \in Entries /\ Item(t).kind # "dir" /\ ~ Pending(t)'
          /\ \E v : target' = With(target, Item(t).path, v)
      BY <2>3 DEF WritesOnly
    <3>2. u # t
      BY <1>2, <3>1
    <3>3. Item(u).path # Item(t).path
      BY <1>2, <3>1, <3>2, PlanFacts DEF Shape
    <3>4. /\ Item(u).path \in DOMAIN target' <=> Item(u).path \in DOMAIN target
          /\ Item(u).path \in DOMAIN target => target'[Item(u).path] = target[Item(u).path]
      BY <3>1, <3>3 DEF With
    <3>5. QED BY <1>1, <2>1, <3>4 DEF AsBefore
  <2>4. QED BY <2>2, <2>3
<1>3. Fresh'
  BY <1>1, <1>2 DEF Fresh
<1>4. Chosen'
  BY <1>1, KeptSame DEF BeforeInv, Chosen
<1>5. DOMAIN target' \subseteq Paths
  <2>1. CASE target' = target
    BY <2>1 DEF BeforeInv
  <2>2. CASE target' # target
    <3>1. t \in Entries /\ Item(t).kind # "dir" /\ \E v : target' = With(target, Item(t).path, v)
      BY <2>2 DEF WritesOnly
    <3>2. Item(t).path \in Paths
      BY <3>1, PlanFacts DEF Shape, Asked
    <3>3. QED BY <3>1, <3>2 DEF BeforeInv, With
  <2>3. QED BY <2>1, <2>2
<1>6. QED BY <1>3, <1>4, <1>5 DEF BeforeInv

LEMMA PlanBefore ==
    ASSUME Shape, BeforeInv, PlanRestore
    PROVE  BeforeInv' /\ target' = target
<1>1. target' = target /\ target = Existing /\ waiting' = {} /\ DOMAIN running' = {}
      /\ phase' # "start"
  <2>1. UNCHANGED <<target, waiting, running>> /\ phase = "start" /\ phase' # "start"
    BY DEF PlanRestore, disk
  <2>2. waiting = {} /\ DOMAIN running = {}
    <3>1. plan = <<>>
      BY <2>1 DEF Shape, Planned
    <3>2. DOMAIN plan = {}
      BY <3>1
    <3>3. Entries = {}
      BY <3>2 DEF Subtasks, Entries
    <3>4. QED BY <3>3 DEF Shape
  <2>3. QED BY <2>1, <2>2 DEF BeforeInv
<1>2. QED BY <1>1 DEF BeforeInv, Fresh, Chosen, AsBefore

(* Entries that were not received yet.                                     *)
LEMMA ReceiveQuiet ==
    ASSUME Shape, NEW c \in Subtasks, Receive(c), NEW e, e = <<c, next[c]>>
    PROVE  /\ e \in Entries
           /\ Quiet
           /\ \A t \in Entries : Pending(t) /\ ~ Pending(t)' => t = e
           /\ waiting' = waiting => ~ Pending(e)'
           /\ UNCHANGED <<phase, config, running, state>>
<1>1. /\ UNCHANGED <<phase, config, running, state>> /\ next[c] <= Len(plan[c])
      /\ next' = [next EXCEPT ![c] = @ + 1] /\ state[c] = "open"
      /\ waiting' = waiting \/ waiting' = waiting \cup {<<c, next[c]>>}
  BY DEF Receive
<1>2. next[c] \in Nat \ {0} /\ Len(plan[c]) \in Nat /\ next[c] \in 1 .. Len(plan[c])
  BY <1>1, PlanFacts DEF Shape
<1>3. e \in Entries
  BY <1>2, PlanFacts DEF Shape
<1>4. next'[c] = next[c] + 1 /\ \A d \in Subtasks \ {c} : next'[d] = next[d]
  BY <1>1 DEF Shape
<1>5. ASSUME NEW t \in Entries
      PROVE  /\ t[1] \in Subtasks /\ t[2] \in Nat /\ next[t[1]] \in Nat
             /\ t = <<t[1], t[2]>>
  BY PlanFacts DEF Shape
<1>6. ASSUME NEW t \in Entries, Pending(t)' PROVE Pending(t)
  <2>1. CASE t[2] >= next'[t[1]]
    <3>1. next'[t[1]] >= next[t[1]]
      BY <1>2, <1>4, <1>5
    <3>2. t[2] >= next[t[1]]
      BY <1>2, <1>4, <1>5, <2>1, <3>1
    <3>3. QED BY <3>2 DEF Pending
  <2>2. CASE t \in waiting'
    <3>1. CASE t = e
      BY <1>2, <3>1 DEF Pending
    <3>2. CASE t # e
      BY <1>1, <2>2, <3>2 DEF Pending
    <3>3. QED BY <3>1, <3>2
  <2>3. QED BY <1>6, <2>1, <2>2 DEF Pending
<1>7. ASSUME NEW t \in Entries, Pending(t), ~ Pending(t)' PROVE t = e
  <2>1. t \notin waiting
    BY <1>1, <1>7 DEF Pending
  <2>2. t[2] >= next[t[1]] /\ ~ (t[2] >= next'[t[1]])
    BY <1>7, <2>1 DEF Pending
  <2>3. t[1] = c
    BY <1>4, <1>5, <2>2
  <2>4. t[2] = next[c]
    BY <1>2, <1>4, <1>5, <2>2, <2>3
  <2>5. QED BY <1>5, <2>3, <2>4
<1>8. ASSUME waiting' = waiting PROVE ~ Pending(e)'
  <2>1. e \notin waiting
    BY <1>2 DEF Shape
  <2>2. ~ (e[2] >= next'[e[1]])
    BY <1>2, <1>4
  <2>3. QED BY <1>8, <2>1, <2>2 DEF Pending
<1>9. QED BY <1>1, <1>3, <1>6, <1>7, <1>8 DEF Quiet

LEMMA ReceiveWrites ==
    ASSUME EntriesApart, Shape, NEW c \in Subtasks, Receive(c), NEW e, e = <<c, next[c]>>
    PROVE  WritesOnly(e)
<1>1. e \in Entries /\ (waiting' = waiting => ~ Pending(e)')
  BY ReceiveQuiet
<1>2. CASE target' = target
  BY <1>2 DEF WritesOnly
<1>3. CASE target' # target
  <2>1. Item(e).kind = "link" /\ MakeLink(c, Item(e).place) /\ waiting' = waiting
    BY <1>3 DEF Receive, disk, Item
  <2>2. Put(Item(e).place, LinkTo, Now)
    BY <1>3, <2>1 DEF MakeLink, disk
  <2>3. Item(e).place = Item(e).path
    BY <1>1, <2>1, InPlace DEF Place
  <2>4. ~ Kept(Item(e).path)
    BY <1>1, <2>1, PlanFacts DEF Shape, Kept
  <2>5. \E v : target' = With(target, Item(e).path, v)
    BY <2>2, <2>3 DEF Put
  <2>6. QED BY <1>1, <2>1, <2>4, <2>5 DEF WritesOnly
<1>4. QED BY <1>2, <1>3

LEMMA RunBefore ==
    ASSUME EntriesApart, Shape, BeforeInv, NEW t \in waiting, MakeDir(t) \/ StartFile(t)
    PROVE  BeforeInv' /\ target' = target
<1>1. UNCHANGED <<phase, config, next, target>> /\ waiting' = waiting \ {t} /\ t \in Entries
  BY DEF MakeDir, StartFile, disk, Shape
<1>2. UNCHANGED <<plan, remote, policy>> /\ phase' # "start"
  <2>1. t[1] \in Subtasks /\ state[t[1]] = "open"
    BY PlanFacts DEF Shape
  <2>2. phase = "copy"
    BY <2>1, OpenMeansCopy
  <2>3. QED BY <1>1, <2>2 DEF config
<1>3. Quiet /\ WritesOnly(t)
  BY <1>1 DEF Quiet, Pending, WritesOnly
<1>4. ASSUME NEW u \in DOMAIN running', u \notin DOMAIN running, Place(u) = Item(u).path
      PROVE  ~ Kept(Item(u).path)
  <2>1. /\ StartFile(t) /\ Item(t).kind = "file" /\ u = t
        /\ remote \/ ShouldRestore(Item(t).path, Item(t).place, target)
    <3>1. running' # running
      BY <1>4
    <3>2. StartFile(t)
      BY <3>1 DEF MakeDir
    <3>3. Item(t).kind = "file" /\ running' = With(running, t, 0)
          /\ (remote \/ ShouldRestore(Item(t).path, Item(t).place, target))
      BY <3>1, <3>2 DEF StartFile
    <3>4. QED BY <1>4, <3>2, <3>3 DEF With
  <2>2. Item(t).place = Item(t).path
    BY <1>4, <2>1 DEF Place
  <2>3. AsBefore(Item(t).path)
    BY <1>1, <2>1 DEF BeforeInv, Fresh, Pending
  <2>4. SUFFICES ASSUME Kept(Item(t).path) PROVE FALSE
    BY <2>1
  <2> DEFINE p == Item(t).path
  <2>5. /\ ~ remote /\ p \in DOMAIN Existing /\ p \in DOMAIN target /\ target[p] = Existing[p]
        /\ policy = "Skip" \/ (policy = "KeepNewer" /\ Copy[p].time <= Existing[p].time)
    <3>1. /\ ~ remote /\ p \in DOMAIN Existing
          /\ policy = "Skip" \/ (policy = "KeepNewer" /\ Copy[p].time <= Existing[p].time)
      BY <2>4 DEF Kept
    <3>2. p \in DOMAIN target /\ target[p] = Existing[p]
      BY <2>3, <3>1 DEF AsBefore
    <3>3. QED BY <3>1, <3>2
  <2>6. Copy[p].time \in Nat /\ Existing[p].time \in Nat
    BY <2>5, CopyAssumption
  <2>7. ~ (Copy[p].time > Existing[p].time) \/ policy = "Skip"
    BY <2>5, <2>6
  <2>8. policy = "KeepNewer" /\ Copy[p].time > target[p].time
    BY <2>1, <2>2, <2>5 DEF ShouldRestore
  <2>9. QED BY <2>5, <2>7, <2>8
<1>5. QED BY <1>1, <1>2, <1>3, <1>4, FreshStep

LEMMA BlockWrites ==
    ASSUME EntriesApart, Shape, BeforeInv, NEW t \in DOMAIN running, CopyBlock(t)
    PROVE  BeforeInv' /\ WritesOnly(t)
<1>1. /\ t \in Entries /\ Item(t).kind = "file" /\ phase = "copy"
      /\ Place(t) = Item(t).path \/ Place(t) \notin Paths
  <2>1. t \in Entries /\ Item(t).kind = "file" /\ t[1] \in Subtasks /\ state[t[1]] = "open"
    BY PlanFacts DEF Shape
  <2>2. QED BY <2>1, InPlace, OpenMeansCopy
<1>2. UNCHANGED <<phase, config, next, waiting>>
  BY BlockCases
<1>3. Quiet
  BY <1>2 DEF Quiet, Pending
<1>4. ~ Pending(t)'
  <2>1. t \notin waiting /\ t[2] < next[t[1]] /\ Planned
    BY DEF Shape
  <2>2. t[1] \in Subtasks /\ t[2] \in Nat
    BY <1>1, <2>1, PlanFacts
  <2>3. next[t[1]] \in Nat
    BY <2>2 DEF Shape
  <2>4. ~ (t[2] >= next[t[1]])
    BY <2>1, <2>2, <2>3
  <2>5. QED BY <1>2, <2>1, <2>4 DEF Pending
<1>5. WritesOnly(t)
  <2>1. CASE target' = target
    BY <2>1 DEF WritesOnly
  <2>2. CASE target' # target
    <3>1. CanRead(t) /\ \E v : target' = With(target, Place(t), v)
      <4>1. PICK d, m : CanRead(t) /\ Put(Place(t), d, m)
        BY <2>2, BlockCases
      <4>2. QED BY <4>1 DEF Put
    <3>2. Place(t) = Item(t).path
      BY <1>1, <3>1 DEF CanRead
    <3>3. ~ Kept(Item(t).path)
      BY <3>2 DEF BeforeInv, Chosen
    <3>4. QED BY <1>1, <1>4, <3>1, <3>2, <3>3 DEF WritesOnly
  <2>3. QED BY <2>1, <2>2
<1>6. DOMAIN running' \subseteq DOMAIN running
  <2>1. \/ running' = Restrict(running, DOMAIN running \ {t})
        \/ running' = [running EXCEPT ![t] = End(t)]
    BY BlockCases DEF Fail
  <2>2. QED BY <2>1 DEF Restrict
<1>7. QED BY <1>1, <1>2, <1>3, <1>5, <1>6, FreshStep DEF config

LEMMA StillBefore ==
    ASSUME Shape, BeforeInv, phase' # "start",
           UNCHANGED <<plan, remote, policy, next, waiting, running, target>>
    PROVE  BeforeInv' /\ \A t : WritesOnly(t)
<1>1. Quiet /\ \A t : WritesOnly(t)
  BY DEF Quiet, Pending, WritesOnly
<1>2. QED BY <1>1, FreshStep

LEMMA StepWrites ==
    ASSUME EntriesApart, Shape, BeforeInv, JobNext
    PROVE  BeforeInv' /\ \E t : WritesOnly(t)
<1>1. CASE PlanRestore
  BY <1>1, PlanBefore DEF WritesOnly
<1>2. CASE JoinSubtasks \/ RestoreTimes \/ Finished
  <2>1. UNCHANGED <<plan, remote, policy, next, waiting, running, target>> /\ phase' # "start"
    BY <1>2 DEF JoinSubtasks, RestoreTimes, Finished, jobVars, config, pipeline, disk
  <2>2. QED BY <2>1, StillBefore
<1>3. ASSUME NEW c \in Subtasks, OpenSubtask(c) \/ EndSubtask(c)
      PROVE  BeforeInv' /\ \E t : WritesOnly(t)
  <2>1. UNCHANGED <<phase, config, next, waiting, running, target>> /\ state[c] # "ended"
    BY <1>3 DEF OpenSubtask, EndSubtask, disk
  <2>2. phase = "copy"
    BY <2>1, OpenMeansCopy
  <2>3. QED BY <2>1, <2>2, StillBefore DEF config
<1>4. ASSUME NEW c \in Subtasks, Receive(c) PROVE BeforeInv' /\ \E t : WritesOnly(t)
  <2>1. PICK e : e = <<c, next[c]>>
    OBVIOUS
  <2>2. Quiet /\ WritesOnly(e) /\ UNCHANGED <<phase, config, running, state>>
    BY <1>4, <2>1, ReceiveQuiet, ReceiveWrites
  <2>3. phase = "copy"
    BY <1>4, OpenMeansCopy DEF Receive
  <2>4. QED BY <2>2, <2>3, FreshStep DEF config
<1>5. ASSUME NEW t \in waiting, MakeDir(t) \/ StartFile(t) PROVE BeforeInv' /\ \E u : WritesOnly(u)
  BY <1>5, RunBefore DEF WritesOnly
<1>6. ASSUME NEW t \in DOMAIN running, CopyBlock(t) PROVE BeforeInv' /\ \E u : WritesOnly(u)
  BY <1>6, BlockWrites
<1>7. QED BY <1>1, <1>2, <1>3, <1>4, <1>5, <1>6 DEF JobNext

LEMMA BeforeHolds ==
    ASSUME EntriesApart
    PROVE  JobSpec => []BeforeInv
<1>1. JobInit => BeforeInv
  <2>1. SUFFICES ASSUME JobInit PROVE BeforeInv
    OBVIOUS
  <2>2. target = Existing /\ plan = <<>> /\ running = <<>>
    BY <2>1 DEF JobInit
  <2>3. DOMAIN plan = {} /\ DOMAIN running = {}
    BY <2>2
  <2>4. Entries = {}
    BY <2>3 DEF Entries, Subtasks
  <2>5. DOMAIN Existing \subseteq Paths
    BY CopyAssumption
  <2>6. QED BY <2>2, <2>3, <2>4, <2>5 DEF BeforeInv, Fresh, Chosen
<1>2. ASSUME Shape, BeforeInv, [JobNext]_jobVars PROVE BeforeInv'
  <2>1. CASE UNCHANGED jobVars
    BY <1>2, <2>1, SamePlan, KeptSame DEF jobVars, config, pipeline, disk, BeforeInv, Fresh, Chosen,
       AsBefore, Pending, Place
  <2>2. CASE JobNext
    BY <1>2, <2>2, StepWrites
  <2>3. QED BY <1>2, <2>1, <2>2
<1>3. QED BY <1>1, <1>2, ShapeHolds, PTL DEF JobSpec

(* No step of a restore touches a file that was not asked for, nor one     *)
(* that the policy keeps as it was found (OnlyAsked), for every copy,      *)
(* request, target and policy, any shards, permits and errors.             *)
THEOREM OnlyAskedTouched ==
    ASSUME EntriesApart
    PROVE  JobSpec => OnlyAsked
<1> DEFINE Touches ==
        \A p \in DOMAIN target' :
            \/ p \in DOMAIN target /\ target'[p] = target[p]
            \/ p \in Asked /\ ~ Kept(p)
<1>1. ASSUME Shape, BeforeInv, [JobNext]_jobVars PROVE [Touches]_jobVars
  <2>1. CASE UNCHANGED jobVars
    BY <2>1
  <2>2. CASE JobNext
    <3>1. PICK t : WritesOnly(t)
      BY <1>1, <2>2, StepWrites
    <3>2. CASE target' = target
      BY <3>2
    <3>3. CASE target' # target
      <4>1. /\ t \in Entries /\ Item(t).kind # "dir" /\ ~ Kept(Item(t).path)
            /\ \E v : target' = With(target, Item(t).path, v)
        BY <3>1, <3>3 DEF WritesOnly
      <4>2. Item(t).path \in Asked
        BY <1>1, <4>1, PlanFacts DEF Shape
      <4>3. \A p \in DOMAIN target' : p = Item(t).path
                                      \/ (p \in DOMAIN target /\ target'[p] = target[p])
        BY <4>1 DEF With
      <4>4. QED BY <4>1, <4>2, <4>3
    <3>4. QED BY <3>2, <3>3
  <2>3. QED BY <1>1, <2>1, <2>2
<1>2. QED BY <1>1, ShapeHolds, BeforeHolds, PTL DEF JobSpec, OnlyAsked

-----------------------------------------------------------------------------
(* Directory times.  Once all is over nothing happens any more.            *)
LEMMA DoneIsOver ==
    ASSUME Shape, phase \in {"mtime", "done"}, JobNext
    PROVE  \/ RestoreTimes /\ phase = "mtime"
           \/ Finished /\ phase = "done"
<1>1. \A c \in Subtasks : state[c] = "ended"
  BY DEF Shape, Joined
<1>2. waiting = {} /\ DOMAIN running = {}
  <2>1. \A t \in waiting \cup DOMAIN running : t[1] \in Subtasks /\ state[t[1]] = "open"
    BY PlanFacts DEF Shape
  <2>2. QED BY <1>1, <2>1
<1>3. ~ PlanRestore /\ ~ JoinSubtasks
  BY DEF PlanRestore, JoinSubtasks
<1>4. \A c \in Subtasks : ~ (OpenSubtask(c) \/ Receive(c) \/ EndSubtask(c))
  BY <1>1 DEF OpenSubtask, Receive, EndSubtask
<1>5. RestoreTimes \/ Finished
  BY <1>2, <1>3, <1>4 DEF JobNext
<1>6. QED BY <1>5 DEF RestoreTimes, Finished

LEMMA TimesRestored ==
    ASSUME LogicalRoot = <<>>, Shape, RestoreTimes, "times" \notin silent', ~ remote
    PROVE  \A d \in Dirs \cap DOMAIN dirs' :
              DirEntries(d, request) # <<>> => dirs'[d] = DirTime[d]
<1> DEFINE planned == {k \in DOMAIN DirOrder : DirEntries(DirOrder[k], request) # <<>>}
           at(q) == {k \in planned : MtimePlace(DirOrder[k]) = q}
<1>1. dirs' = [q \in DOMAIN dirs |->
                  IF at(q) = {} THEN dirs[q]
                  ELSE DirTime[DirOrder[CHOOSE k \in at(q) : \A j \in at(q) : j <= k]]]
  BY DEF RestoreTimes
<1>2. SUFFICES ASSUME NEW d \in Dirs \cap DOMAIN dirs', DirEntries(d, request) # <<>>
               PROVE  dirs'[d] = DirTime[d]
  OBVIOUS
<1>3. /\ DOMAIN DirOrder = 1 .. Len(DirOrder) /\ Len(DirOrder) \in Nat /\ IsInjective(DirOrder)
      /\ \A k \in DOMAIN DirOrder : DirOrder[k] \in Seq(STRING)
  BY CopyAssumption, LenProperties, ElementOfSeq
<1>4. PICK k \in DOMAIN DirOrder : DirOrder[k] = d
  BY DEF Dirs, Range
<1>5. \A j \in DOMAIN DirOrder : MtimePlace(DirOrder[j]) = DirOrder[j]
  <2>1. \A s \in Seq(STRING) : LogicalRoot \o s = s
    OBVIOUS
  <2>2. QED BY <1>3, <2>1 DEF MtimePlace
<1>6. at(d) = {k}
  BY <1>2, <1>3, <1>4, <1>5 DEF IsInjective
<1> HIDE DEF at
<1>7. (CHOOSE m \in at(d) : \A j \in at(d) : j <= m) = k
  <2>1. k \in Nat
    BY <1>3
  <2>2. QED BY <1>6, <2>1
<1>8. QED BY <1>1, <1>2, <1>4, <1>6, <1>7

(* At the end of a restore to a local target every directory of the plan   *)
(* has its recorded time (DirTimesKept), whichever subtasks wrote into it  *)
(* and in whatever order, if the copy's source was local.                  *)
THEOREM DirTimesRestored ==
    ASSUME LogicalRoot = <<>>
    PROVE  JobSpec => []DirTimesKept
<1>1. JobInit => DirTimesKept
  BY DEF JobInit, DirTimesKept
<1>2. ASSUME Shape, Shape', DirTimesKept, [JobNext]_jobVars PROVE DirTimesKept'
  <2>1. CASE UNCHANGED jobVars \/ Finished
    BY <1>2, <2>1 DEF Finished, jobVars, config, disk, DirTimesKept
  <2>2. CASE JobNext /\ phase \in {"mtime", "done"} /\ ~ Finished
    <3>1. RestoreTimes
      BY <1>2, <2>2, DoneIsOver
    <3>2. UNCHANGED <<request, remote>>
      BY <3>1 DEF RestoreTimes, config
    <3>3. SUFFICES ASSUME "times" \notin silent', ~ remote
                   PROVE  \A d \in Dirs \cap DOMAIN dirs' :
                             DirEntries(d, request) # <<>> => dirs'[d] = DirTime[d]
      BY <3>2 DEF DirTimesKept
    <3>4. QED BY <1>2, <3>1, <3>3, TimesRestored
  <2>3. CASE JobNext /\ phase \notin {"mtime", "done"}
    <3>1. phase' # "done"
      BY <2>3 DEF JobNext, PlanRestore, JoinSubtasks, RestoreTimes, Finished, OpenSubtask, Receive,
         EndSubtask, MakeDir, StartFile, CopyBlock, jobVars
    <3>2. QED BY <3>1 DEF DirTimesKept
  <2>4. QED BY <1>2, <2>1, <2>2, <2>3
<1>3. QED BY <1>1, <1>2, ShapeHolds, PTL DEF JobSpec

-----------------------------------------------------------------------------
(* An honest end.  The hypothesis: what a blob holds for a file is at      *)
(* least as long as the file's recorded size; a shorter one would be read  *)
(* again, at its own end.                                                  *)
BlobsWhole ==
    \A p \in Paths : Copy[p].blob /\ Copy[p].held /\ ~ Copy[p].link => Len(Copy[p].data) >= Copy[p].size

(* A file that is what the copy and the policy make of it.                 *)
Right(f) ==
    \/ remote /\ Copy[f].link
    \/ /\ f \in DOMAIN target
       /\ IF Kept(f) THEN target[f] = Existing[f]
          ELSE target[f].data =
                  IF Copy[f].link THEN LinkTo
                  ELSE IF Copy[f].blob THEN Copy[f].data
                  ELSE SubSeq(Copy[f].data, 1, Copy[f].size)

(* A task that runs has written all it has read; an entry that is over is  *)
(* right, or its subtask fails, or the error was only logged; and so for   *)
(* the entries that a subtask left out when it ended.                      *)
Written(t) ==
    \/ running[t] = 0
    \/ LET p == Item(t).path
       IN /\ Place(t) = p /\ ~ Copy[p].blob /\ p \in DOMAIN target
          /\ running[t] <= Len(Copy[p].data) /\ running[t] < Copy[p].size
          /\ target[p].data = SubSeq(Copy[p].data, 1, running[t])
Lost(c) == c \in failing \/ "files" \in silent
Settled(t) == Right(Item(t).path) \/ Lost(t[1])
Rest == {t \in Entries : Item(t).kind # "dir" /\ ~ Pending(t) /\ t \notin DOMAIN running}
HonestInv ==
    /\ \A t \in DOMAIN running : Written(t)
    /\ \A t \in Rest : Settled(t)
    /\ \A c \in Subtasks : state[c] = "ended" => Lost(c) \/ next[c] > Len(plan[c])

(* Writing one file leaves the others right.                               *)
LEMMA OthersRight ==
    ASSUME UNCHANGED <<remote, policy>>, NEW p, NEW f, f # p,
           target' = target \/ \E v : target' = With(target, p, v)
    PROVE  /\ f \in DOMAIN target => f \in DOMAIN target' /\ target'[f] = target[f]
           /\ Right(f) => Right(f)'
<1>1. f \in DOMAIN target => f \in DOMAIN target' /\ target'[f] = target[f]
  BY DEF With
<1>2. Kept(f)' <=> Kept(f)
  BY KeptSame
<1>3. ASSUME Right(f), ~ (remote /\ Copy[f].link) PROVE Right(f)'
  <2>1. /\ f \in DOMAIN target
        /\ IF Kept(f) THEN target[f] = Existing[f]
           ELSE target[f].data =
                   IF Copy[f].link THEN LinkTo
                   ELSE IF Copy[f].blob THEN Copy[f].data
                   ELSE SubSeq(Copy[f].data, 1, Copy[f].size)
    BY <1>3 DEF Right
  <2>2. f \in DOMAIN target' /\ target'[f] = target[f]
    BY <1>1, <2>1
  <2>3. QED BY <1>2, <2>1, <2>2 DEF Right
<1>4. remote /\ Copy[f].link => Right(f)'
  BY DEF Right
<1>5. QED BY <1>1, <1>3, <1>4

(* A step that does one thing, for one entry.                              *)
LEMMA HonestStep ==
    ASSUME Shape, Shape', HonestInv, UNCHANGED <<plan, remote, policy>>, NEW t,
           failing \subseteq failing', silent \subseteq silent',
           \/ target' = target
           \/ /\ t \in Entries /\ Item(t).kind # "dir"
              /\ \E v : target' = With(target, Item(t).path, v),
           \A u \in Entries : u # t /\ Pending(u) => Pending(u)',
           \A u \in DOMAIN running : u # t => u \in DOMAIN running',
           \A u \in DOMAIN running' : u # t => u \in DOMAIN running /\ running'[u] = running[u],
           t \in DOMAIN running' => Written(t)',
           t \in Rest' => Settled(t)',
           \A c \in Subtasks : state'[c] = "ended" =>
              \/ state[c] = "ended" /\ next'[c] = next[c]
              \/ Lost(c)' \/ next'[c] > Len(plan[c])
    PROVE  HonestInv'
<1>1. Subtasks' = Subtasks /\ Entries' = Entries /\ \A u : Item(u)' = Item(u) /\ Place(u)' = Place(u)
  BY SamePlan DEF Place
<1>2. \A c : Lost(c) => Lost(c)'
  BY DEF Lost
<1>3. ASSUME NEW u \in Entries, u # t, Item(u).kind # "dir"
      PROVE  /\ Item(u).path \in DOMAIN target =>
                   Item(u).path \in DOMAIN target' /\ target'[Item(u).path] = target[Item(u).path]
             /\ Right(Item(u).path) => Right(Item(u).path)'
  <2>1. CASE target' = target
    <3>1. Right(Item(u).path) => Right(Item(u).path)'
      BY <1>1, <2>1 DEF Right, Kept
    <3>2. QED BY <2>1, <3>1
  <2>2. CASE target' # target
    <3>1. /\ t \in Entries /\ Item(t).kind # "dir"
          /\ \E v : target' = With(target, Item(t).path, v)
      BY <2>2
    <3>2. Item(u).path # Item(t).path
      BY <1>3, <3>1, PlanFacts DEF Shape
    <3>3. PICK p, f : p = Item(t).path /\ f = Item(u).path
      OBVIOUS
    <3>4. /\ f \in DOMAIN target => f \in DOMAIN target' /\ target'[f] = target[f]
          /\ Right(f) => Right(f)'
      BY <3>1, <3>2, <3>3, OthersRight
    <3>5. Right(Item(u).path) => Right(Item(u).path)'
      BY <1>1, <3>3, <3>4 DEF Right, Kept
    <3>6. QED BY <3>3, <3>4, <3>5
  <2>3. QED BY <2>1, <2>2
<1>4. ASSUME NEW u \in DOMAIN running' PROVE Written(u)'
  <2>1. CASE u = t
    BY <2>1
  <2>2. CASE u # t
    <3>1. u \in DOMAIN running /\ running'[u] = running[u] /\ u \in Entries
          /\ Item(u).kind = "file"
      BY <2>2 DEF Shape
    <3>2. Written(u)
      BY <3>1 DEF HonestInv
    <3>3. /\ Item(u).path \in DOMAIN target =>
                   Item(u).path \in DOMAIN target' /\ target'[Item(u).path] = target[Item(u).path]
      BY <1>3, <2>2, <3>1
    <3>4. QED BY <1>1, <3>1, <3>2, <3>3 DEF Written
  <2>3. QED BY <2>1, <2>2
<1>5. ASSUME NEW u \in Rest' PROVE Settled(u)'
  <2>1. CASE u = t
    BY <2>1
  <2>2. CASE u # t
    <3>1. u \in Entries /\ Item(u).kind # "dir" /\ ~ Pending(u)' /\ u \notin DOMAIN running'
      BY <1>1 DEF Rest
    <3>2. ~ Pending(u) /\ u \notin DOMAIN running
      BY <2>2, <3>1
    <3>3. Settled(u)
      BY <3>1, <3>2 DEF Rest, HonestInv
    <3>4. Right(Item(u).path)' \/ Lost(u[1])'
      BY <1>2, <1>3, <2>2, <3>1, <3>3 DEF Settled
    <3>5. QED BY <3>4 DEF Settled
  <2>3. QED BY <2>1, <2>2
<1>6. ASSUME NEW c \in Subtasks, state'[c] = "ended"
      PROVE  Lost(c)' \/ next'[c] > Len(plan[c])
  BY <1>2, <1>6 DEF HonestInv
<1>7. QED BY <1>1, <1>4, <1>5, <1>6 DEF HonestInv

(* Where no file and no task changes.                                      *)
LEMMA StillHonest ==
    ASSUME Shape, Shape', HonestInv, silent \subseteq silent', failing \subseteq failing',
           UNCHANGED <<plan, remote, policy, target, next, waiting, running>>,
           \A c \in Subtasks : state'[c] = "ended" =>
              state[c] = "ended" \/ Lost(c)' \/ next[c] > Len(plan[c])
    PROVE  HonestInv'
<1>1. PICK t : t = <<0, 0>>
  OBVIOUS
<1>2. t \notin Entries
  BY <1>1, PlanFacts DEF Shape
<1>3. t \notin DOMAIN running' /\ t \notin Rest'
  BY <1>2, SamePlan DEF Shape, Rest
<1>4. \A u \in Entries : Pending(u) => Pending(u)'
  BY DEF Pending
<1>5. QED BY <1>3, <1>4, HonestStep

LEMMA PlanHonest ==
    ASSUME Shape, PlanRestore
    PROVE  HonestInv'
<1>1. /\ phase = "start" /\ plan = <<>> /\ DOMAIN running' = {}
  <2>1. phase = "start" /\ plan = <<>> /\ running' = running
    BY DEF Shape, Planned, PlanRestore
  <2>2. DOMAIN plan = {}
    BY <2>1
  <2>3. Entries = {}
    BY <2>2 DEF Subtasks, Entries
  <2>4. QED BY <2>1, <2>3 DEF Shape
<1>2. CASE /\ Known /\ plan' = ControlFiles(request)
           /\ state' = [c \in DOMAIN plan' |-> "new"]
           /\ next' = [c \in DOMAIN plan' |-> 1]
  <2>1. PlanRight(plan')
    BY <1>2, PlanOf
  <2>2. ASSUME NEW c \in Subtasks'
        PROVE  next'[c] = 1 /\ state'[c] = "new" /\ DOMAIN plan'[c] = 1 .. Len(plan'[c])
    BY <1>2, <2>1 DEF PlanRight, Subtasks
  <2>3. \A u \in Entries' : Pending(u)'
    BY <2>2 DEF Entries, Pending
  <2>4. Rest' = {}
    BY <2>3 DEF Rest
  <2>5. QED BY <1>1, <2>2, <2>4 DEF HonestInv
<1>3. CASE plan' = plan
  <2>1. DOMAIN plan' = {}
    BY <1>1, <1>3
  <2>2. Subtasks' = {} /\ Rest' = {}
    BY <2>1 DEF Subtasks, Entries, Rest
  <2>3. QED BY <1>1, <2>2 DEF HonestInv
<1>4. QED BY <1>2, <1>3 DEF PlanRestore

LEMMA SubtaskHonest ==
    ASSUME Shape, Shape', HonestInv, NEW c \in Subtasks, OpenSubtask(c) \/ EndSubtask(c)
    PROVE  HonestInv'
<1>1. UNCHANGED <<config, next, waiting, running, target>>
  BY DEF OpenSubtask, EndSubtask, disk
<1>2. UNCHANGED <<plan, remote, policy>>
  BY <1>1 DEF config
<1>3. CASE EndSubtask(c)
  <2>1. /\ UNCHANGED <<failing, silent>> /\ next[c] > Len(plan[c])
        /\ state' = [state EXCEPT ![c] = "ended"] /\ state \in [Subtasks -> {"new", "open", "ended"}]
    BY <1>3 DEF EndSubtask, Shape
  <2>2. \A d \in Subtasks \ {c} : state'[d] = state[d]
    BY <2>1
  <2>3. QED BY <1>1, <1>2, <2>1, <2>2, StillHonest
<1>4. CASE OpenSubtask(c)
  <2>1. failing \subseteq failing' /\ silent \subseteq silent'
    BY <1>4 DEF OpenSubtask, NoStart, NoPipeline
  <2>2. PICK s \in {"open", "ended"} :
           state' = [state EXCEPT ![c] = s] /\ (s = "ended" => Lost(c)')
    BY <1>4 DEF OpenSubtask, NoStart, NoPipeline, Lost
  <2>3. \A d \in Subtasks : state'[d] = IF d = c THEN s ELSE state[d]
    BY <2>2 DEF Shape
  <2>4. QED BY <1>1, <1>2, <2>1, <2>2, <2>3, StillHonest
<1>5. QED BY <1>3, <1>4

LEMMA ReceiveHonest ==
    ASSUME EntriesApart, Shape, Shape', BeforeInv, HonestInv, NEW c \in Subtasks, Receive(c)
    PROVE  HonestInv'
<1>1. PICK e : e = <<c, next[c]>>
  OBVIOUS
<1>2. /\ e \in Entries /\ Quiet /\ WritesOnly(e) /\ UNCHANGED <<config, running, state>>
      /\ \A t \in Entries : Pending(t) /\ ~ Pending(t)' => t = e
      /\ e[1] = c /\ e \notin DOMAIN running
  <2>1. next[c] \in Nat /\ e[2] = next[c]
    BY <1>1 DEF Shape
  <2>2. e \notin DOMAIN running
    BY <1>1, <2>1 DEF Shape
  <2>3. QED BY <1>1, <2>2, ReceiveQuiet, ReceiveWrites
<1>3. UNCHANGED <<plan, remote, policy>>
  BY <1>2 DEF config
<1>4. failing \subseteq failing' /\ silent \subseteq silent'
  BY DEF Receive, MakeLink
<1>5. ASSUME Item(e).kind # "dir", ~ Pending(e)' PROVE Settled(e)'
  <2>1. e \notin waiting'
    BY <1>5 DEF Pending
  <2>2. CASE "files" \in silent'
    BY <2>2 DEF Settled, Lost
  <2>3. CASE Item(e).kind = "link" /\ MakeLink(c, Item(e).place)
    <3>1. CASE c \in failing'
      BY <1>2, <3>1 DEF Settled, Lost
    <3>2. CASE c \notin failing' /\ remote
      <4>1. Copy[Item(e).path].link
        BY <1>2, <2>3, PlanFacts DEF Shape
      <4>2. Item(e)' = Item(e) /\ remote'
        BY <1>3, <3>2, SamePlan
      <4>3. QED BY <4>1, <4>2 DEF Settled, Right
    <3>3. CASE c \notin failing' /\ ~ remote
      <4>1. Put(Item(e).place, LinkTo, Now)
        BY <2>3, <3>3 DEF MakeLink
      <4>2. Item(e).place = Item(e).path /\ Copy[Item(e).path].link
        BY <1>2, <2>3, InPlace, PlanFacts DEF Shape, Place
      <4>3. PICK f : f = Item(e).path
        OBVIOUS
      <4>4. f \in DOMAIN target' /\ target'[f].data = LinkTo /\ Copy[f].link /\ ~ Kept(f)'
        BY <4>1, <4>2, <4>3 DEF Put, With, Kept
      <4>5. Item(e)' = Item(e)
        BY <1>3, SamePlan
      <4>6. QED BY <4>3, <4>4, <4>5 DEF Settled, Right, Kept
    <3>4. QED BY <3>1, <3>2, <3>3
  <2>4. QED BY <1>1, <2>1, <2>2, <2>3 DEF Receive, Item
<1>6. e \in Rest' => Settled(e)'
  BY <1>3, <1>5, SamePlan DEF Rest
<1>7. \A d \in Subtasks : state'[d] = "ended" => state[d] = "ended" /\ next'[d] = next[d]
  BY <1>2 DEF Receive, Shape
<1>8. /\ \A u \in Entries : u # e /\ Pending(u) => Pending(u)'
      /\ target' = target
         \/ (e \in Entries /\ Item(e).kind # "dir" /\ \E v : target' = With(target, Item(e).path, v))
      /\ e \notin DOMAIN running'
  BY <1>2 DEF WritesOnly
<1>9. QED BY <1>2, <1>3, <1>4, <1>6, <1>7, <1>8, HonestStep

LEMMA RunHonest ==
    ASSUME EntriesApart, Shape, Shape', BeforeInv, HonestInv,
           NEW t \in waiting, MakeDir(t) \/ StartFile(t)
    PROVE  HonestInv'
<1>1. /\ UNCHANGED <<config, state, next, failing, target>> /\ waiting' = waiting \ {t}
      /\ t \in Entries /\ t \notin DOMAIN running /\ silent \subseteq silent'
  BY DEF MakeDir, StartFile, disk, Shape
<1>2. UNCHANGED <<plan, remote, policy>>
  BY <1>1 DEF config
<1>3. Item(t)' = Item(t) /\ Place(t)' = Place(t)
  BY <1>2, SamePlan DEF Place
<1>4. CASE MakeDir(t)
  <2>1. running' = running /\ Item(t).kind = "dir"
    BY <1>4 DEF MakeDir
  <2>2. t \notin Rest' /\ t \notin DOMAIN running'
    BY <1>1, <1>3, <2>1 DEF Rest
  <2>3. \A u \in Entries : u # t /\ Pending(u) => Pending(u)'
    BY <1>1 DEF Pending
  <2>4. QED BY <1>1, <1>2, <2>1, <2>2, <2>3, HonestStep
<1>5. CASE StartFile(t)
  <2>1. Item(t).kind = "file"
    BY <1>5 DEF StartFile
  <2>2. \A u \in Entries : u # t /\ Pending(u) => Pending(u)'
    BY <1>1 DEF Pending
  <2>3. CASE running' = With(running, t, 0)
    <3>1. /\ DOMAIN running' = DOMAIN running \cup {t} /\ running'[t] = 0
          /\ \A u \in DOMAIN running : u # t => running'[u] = running[u]
      BY <2>3 DEF With
    <3>2. Written(t)' /\ t \notin Rest'
      BY <3>1 DEF Written, Rest
    <3>3. QED BY <1>1, <1>2, <2>2, <3>1, <3>2, HonestStep
  <2>4. CASE running' = running /\ ~ remote /\ ~ ShouldRestore(Item(t).path, Item(t).place, target)
    <3>1. PICK f : f = Item(t).path
      OBVIOUS
    <3>2. /\ policy # "Replace" /\ Item(t).place \in DOMAIN target
          /\ policy = "KeepNewer" => ~ (Copy[f].time > target[Item(t).place].time)
      BY <2>4, <3>1 DEF ShouldRestore
    <3>3. Item(t).place = f
      BY <1>1, <2>1, <3>1, <3>2, InPlace DEF BeforeInv, Place
    <3>4. /\ f \in DOMAIN Existing /\ f \in DOMAIN target /\ target[f] = Existing[f]
      <4>1. AsBefore(Item(t).path)
        BY <1>1, <2>1 DEF BeforeInv, Fresh, Pending
      <4>2. AsBefore(f)
        BY <3>1, <4>1 DEF AsBefore
      <4>3. QED BY <3>2, <3>3, <4>2 DEF AsBefore
    <3>5. ~ Copy[f].link
      BY <1>1, <2>1, <3>1, PlanFacts DEF Shape
    <3>6. policy = "Skip" \/ (policy = "KeepNewer" /\ Copy[f].time <= Existing[f].time)
      <4>1. Copy[f].time \in Nat /\ Existing[f].time \in Nat
        BY <3>4, CopyAssumption
      <4>2. QED BY <3>2, <3>3, <3>4, <4>1 DEF Shape
    <3>7. Kept(f) /\ Right(f)
      BY <2>4, <3>4, <3>5, <3>6 DEF Kept, Right
    <3>8. Settled(t)'
      <4>1. Right(f)'
        BY <1>1, <1>2, <3>7 DEF Right, Kept
      <4>2. QED BY <1>3, <3>1, <4>1 DEF Settled, Right, Kept
    <3>9. QED BY <1>1, <1>2, <2>2, <2>4, <3>8, HonestStep
  <2>5. QED BY <1>5, <2>3, <2>4 DEF StartFile
<1>6. QED BY <1>4, <1>5

LEMMA FirstChunks ==
    ASSUME NEW D \in Seq(STRING), NEW n \in 0 .. Len(D)
    PROVE  SubSeq(D, 1, n) = [k \in 1 .. n |-> D[k]] /\ Len(SubSeq(D, 1, n)) = n
BY LenProperties

(* What a block that is read leaves: all of the file, or all so far.       *)
LEMMA BlockData ==
    ASSUME BlobsWhole, Shape, NEW t \in DOMAIN running, Written(t), CanRead(t),
           Place(t) = Item(t).path, NEW D, D = Copy[Item(t).path].data
    PROVE  /\ Copy[Item(t).path].blob => End(t) >= Meta(t).size /\ NewData(t) = D
           /\ ~ Copy[Item(t).path].blob =>
                 /\ End(t) <= Len(D) /\ NewData(t) = SubSeq(D, 1, End(t))
                 /\ End(t) >= Meta(t).size => End(t) = Meta(t).size
<1> DEFINE p == Item(t).path
<1>1. /\ D \in Seq(STRING) /\ Len(D) \in Nat /\ DOMAIN D = 1 .. Len(D)
      /\ running[t] \in Nat /\ Meta(t).size \in Nat /\ Meta(t).size = Copy[p].size
      /\ p \in Paths /\ Copy[p].held /\ Place(t) = p /\ ~ Copy[p].link
  <2>1. running[t] \in Nat /\ Meta(t).size \in Nat /\ p \in Paths
    BY ChunkLength
  <2>2. ~ Copy[p].link
    <3>1. t \in Entries /\ Item(t).kind = "file" /\ Planned
      BY DEF Shape
    <3>2. QED BY <3>1, PlanFacts
  <2>3. D \in Seq(STRING)
    BY <2>1, CopyAssumption
  <2>4. QED BY <2>1, <2>2, <2>3, LenProperties DEF CanRead, Meta
<1>2. CASE Copy[p].blob
  <2>1. running[t] = 0
    BY <1>2 DEF Written
  <2>2. ChunkOf(t) = D
    BY <1>1, <1>2 DEF ChunkOf, Chunk, InBlob, BlobSlice
  <2>3. End(t) = Len(D) /\ OldData(t) = <<>>
    BY <1>1, <2>1, <2>2 DEF End, OldData
  <2>4. NewData(t) = [k \in 1 .. Len(D) |-> D[k]]
    BY <1>1, <2>1, <2>2, <2>3 DEF NewData
  <2>5. NewData(t) = D
    BY <1>1, <2>4
  <2>6. Len(D) >= Copy[p].size
    BY <1>1, <1>2 DEF BlobsWhole
  <2>7. QED BY <1>1, <1>2, <2>3, <2>5, <2>6
<1>3. CASE ~ Copy[p].blob
  <2> DEFINE at == running[t]
  <2>1. ChunkOf(t) = IF at < Len(D) /\ at < Meta(t).size THEN <<D[at + 1]>> ELSE <<>>
    BY <1>1, <1>3 DEF ChunkOf, Chunk, InBlob, FileChunk
  <2>2. CASE at < Len(D) /\ at < Meta(t).size
    <3>1. ChunkOf(t) = <<D[at + 1]>> /\ End(t) = at + 1
      BY <1>1, <2>1, <2>2 DEF End
    <3>2. Len(OldData(t)) = at /\ \A k \in 1 .. at : OldData(t)[k] = D[k]
      <4>1. CASE at = 0
        BY <4>1 DEF OldData
      <4>2. CASE at # 0
        <5>1. OldData(t) = SubSeq(D, 1, at)
          BY <1>1, <4>2 DEF OldData, Written
        <5>2. at \in 0 .. Len(D)
          BY <1>1, <2>2
        <5>3. QED BY <5>1, <5>2, <1>1, FirstChunks
      <4>3. QED BY <4>1, <4>2
    <3>3. NewData(t) = [k \in 1 .. at + 1 |->
                           IF k \in at + 1 .. at + 1 THEN <<D[at + 1]>>[k - at] ELSE OldData(t)[k]]
      BY <1>1, <3>1, <3>2 DEF NewData
    <3>4. NewData(t) = [k \in 1 .. at + 1 |-> D[k]]
      <4>1. \A k \in 1 .. at + 1 :
               (IF k \in at + 1 .. at + 1 THEN <<D[at + 1]>>[k - at] ELSE OldData(t)[k]) = D[k]
        <5>1. SUFFICES ASSUME NEW k \in 1 .. at + 1
                       PROVE (IF k \in at + 1 .. at + 1 THEN <<D[at + 1]>>[k - at]
                              ELSE OldData(t)[k]) = D[k]
          OBVIOUS
        <5>2. CASE k = at + 1
          <6>1. k - at = 1 /\ <<D[at + 1]>>[1] = D[at + 1]
            BY <1>1, <5>2
          <6>2. QED BY <5>2, <6>1
        <5>3. CASE k # at + 1
          <6>1. k \in 1 .. at /\ k \notin at + 1 .. at + 1
            BY <1>1, <5>3
          <6>2. QED BY <3>2, <6>1
        <5>4. QED BY <5>2, <5>3
      <4>2. QED BY <3>3, <4>1
    <3>5. at + 1 \in 0 .. Len(D)
      BY <1>1, <2>2
    <3>6. SubSeq(D, 1, at + 1) = [k \in 1 .. at + 1 |-> D[k]]
      BY <1>1, <3>5, FirstChunks
    <3>7. at + 1 >= Meta(t).size => at + 1 = Meta(t).size
      BY <1>1, <2>2
    <3>8. QED BY <1>3, <3>1, <3>4, <3>5, <3>6, <3>7
  <2>3. CASE ~ (at < Len(D) /\ at < Meta(t).size)
    <3>1. ChunkOf(t) = <<>> /\ at >= Meta(t).size
      BY <2>1, <2>3 DEF CanRead
    <3>2. at = 0 /\ Meta(t).size = 0
      BY <1>1, <3>1 DEF Written
    <3>3. End(t) = 0 /\ OldData(t) = <<>>
      BY <3>1, <3>2 DEF End, OldData
    <3>4. NewData(t) = [k \in 1 .. 0 |-> D[k]]
      <4>1. NewData(t) = [k \in 1 .. 0 |-> IF k \in 1 .. 0 THEN ChunkOf(t)[k - 0] ELSE OldData(t)[k]]
        BY <3>2, <3>3 DEF NewData
      <4>2. QED BY <4>1
    <3>5. SubSeq(D, 1, 0) = [k \in 1 .. 0 |-> D[k]]
      BY <1>1, FirstChunks
    <3>6. QED BY <1>1, <1>3, <3>2, <3>3, <3>4, <3>5
  <2>4. QED BY <2>2, <2>3
<1>4. QED BY <1>2, <1>3

LEMMA BlockHonest ==
    ASSUME EntriesApart, BlobsWhole, Shape, Shape', BeforeInv, HonestInv,
           NEW t \in DOMAIN running, CopyBlock(t)
    PROVE  HonestInv'
<1>1. /\ UNCHANGED <<config, state, next, waiting, silent>>
      /\ t \in Entries /\ Item(t).kind = "file" /\ t[1] \in Subtasks
      /\ running[t] \in Nat /\ End(t) \in Nat /\ Meta(t).size \in Nat
  <2>1. UNCHANGED <<config, state, next, waiting, silent>>
    BY BlockCases
  <2>2. t \in Entries /\ Item(t).kind = "file" /\ Planned
    BY DEF Shape
  <2>3. t[1] \in Subtasks
    BY <2>2, PlanFacts
  <2>4. QED BY <2>1, <2>2, <2>3, ChunkLength
<1>2. UNCHANGED <<plan, remote, policy>>
  BY <1>1 DEF config
<1>3. Item(t)' = Item(t) /\ Place(t)' = Place(t)
  BY <1>2, SamePlan DEF Place
<1>4. \A u \in Entries : u # t /\ Pending(u) => Pending(u)'
  BY <1>1 DEF Pending
<1>5. /\ t \in Rest' => Settled(t)'
      /\ t \in DOMAIN running' => Written(t)'
      /\ failing \subseteq failing'
      /\ target' = target
         \/ (t \in Entries /\ Item(t).kind # "dir" /\ \E v : target' = With(target, Item(t).path, v))
      /\ \/ running' = Restrict(running, DOMAIN running \ {t})
         \/ running' = [running EXCEPT ![t] = End(t)]
  <2>1. CASE Fail(t) /\ target' = target
    <3>1. /\ running' = Restrict(running, DOMAIN running \ {t}) /\ t[1] \in failing'
          /\ failing \subseteq failing'
      BY <2>1 DEF Fail
    <3>2. t \notin DOMAIN running'
      BY <3>1 DEF Restrict
    <3>3. Settled(t)'
      BY <3>1 DEF Settled, Lost
    <3>4. QED BY <2>1, <3>1, <3>2, <3>3
  <2>2. CASE ~ (Fail(t) /\ target' = target)
    <3>1. PICK m :
          /\ CanRead(t) /\ Put(Place(t), NewData(t), m)
          /\ running' = IF End(t) >= Meta(t).size
                        THEN Restrict(running, DOMAIN running \ {t})
                        ELSE [running EXCEPT ![t] = End(t)]
          /\ failing' = failing
      BY <2>2, BlockCases
    <3>2. Place(t) = Item(t).path
      BY <1>1, <3>1, InPlace DEF CanRead
    <3>3. PICK f, D : f = Item(t).path /\ D = Copy[f].data
      OBVIOUS
    <3>4. f \in DOMAIN target' /\ target'[f].data = NewData(t)
      BY <3>1, <3>2, <3>3 DEF Put, With
    <3>5. /\ Copy[f].blob => End(t) >= Meta(t).size /\ NewData(t) = D
          /\ ~ Copy[f].blob =>
                /\ End(t) <= Len(D) /\ NewData(t) = SubSeq(D, 1, End(t))
                /\ End(t) >= Meta(t).size => End(t) = Meta(t).size
      BY <3>1, <3>2, <3>3, BlockData DEF HonestInv
    <3>6. ~ Kept(f)' /\ ~ Copy[f].link /\ Meta(t).size = Copy[f].size
      <4>1. ~ Kept(f)
        BY <3>2, <3>3 DEF BeforeInv, Chosen
      <4>2. ~ Kept(f)'
        BY <1>2, <4>1, KeptSame
      <4>3. ~ Copy[f].link
        BY <1>1, <3>3, PlanFacts DEF Shape
      <4>4. QED BY <3>3, <4>2, <4>3 DEF Meta
    <3>7. CASE End(t) >= Meta(t).size
      <4>1. t \notin DOMAIN running'
        BY <3>1, <3>7 DEF Restrict
      <4>2. target'[f].data = IF Copy[f].blob THEN Copy[f].data ELSE SubSeq(Copy[f].data, 1, Copy[f].size)
        BY <3>3, <3>4, <3>5, <3>6, <3>7
      <4>3. Settled(t)'
        BY <1>3, <3>3, <3>4, <3>6, <4>2 DEF Settled, Right, Kept
      <4>4. QED BY <1>1, <3>1, <3>2, <3>7, <4>1, <4>3 DEF Put
    <3>8. CASE ~ (End(t) >= Meta(t).size)
      <4>1. running' = [running EXCEPT ![t] = End(t)]
        BY <3>1, <3>8
      <4>2. /\ ~ Copy[f].blob /\ End(t) <= Len(D) /\ End(t) < Copy[f].size
            /\ target'[f].data = SubSeq(D, 1, End(t))
        BY <1>1, <3>4, <3>5, <3>6, <3>8
      <4>3. running'[t] = End(t) /\ t \in DOMAIN running'
        BY <4>1
      <4>4. Written(t)'
        BY <1>3, <3>2, <3>3, <3>4, <4>2, <4>3 DEF Written
      <4>5. t \notin Rest'
        BY <4>3 DEF Rest
      <4>6. QED BY <1>1, <3>1, <3>2, <4>1, <4>4, <4>5 DEF Put
    <3>9. QED BY <3>7, <3>8
  <2>3. QED BY <2>1, <2>2
<1>6. /\ \A u \in DOMAIN running : u # t => u \in DOMAIN running'
      /\ \A u \in DOMAIN running' : u # t => u \in DOMAIN running /\ running'[u] = running[u]
  BY <1>5 DEF Restrict
<1>7. silent \subseteq silent' /\ \A c \in Subtasks : state'[c] = "ended" =>
                                       state[c] = "ended" /\ next'[c] = next[c]
  BY <1>1
<1>8. QED BY <1>2, <1>4, <1>5, <1>6, <1>7, HonestStep

LEMMA HonestHolds ==
    ASSUME EntriesApart, BlobsWhole
    PROVE  JobSpec => []HonestInv
<1>1. JobInit => HonestInv
  <2>1. SUFFICES ASSUME JobInit PROVE HonestInv
    OBVIOUS
  <2>2. plan = <<>> /\ running = <<>>
    BY <2>1 DEF JobInit
  <2>3. DOMAIN plan = {} /\ DOMAIN running = {}
    BY <2>2
  <2>4. Subtasks = {} /\ Rest = {}
    BY <2>3 DEF Entries, Subtasks, Rest
  <2>5. QED BY <2>3, <2>4 DEF HonestInv
<1>2. ASSUME Shape, Shape', BeforeInv, HonestInv, [JobNext]_jobVars PROVE HonestInv'
  <2>1. CASE UNCHANGED jobVars \/ Finished \/ JoinSubtasks \/ RestoreTimes
    <3>1. /\ UNCHANGED <<plan, remote, policy, target, next, waiting, running, failing, state>>
          /\ silent \subseteq silent'
      BY <2>1 DEF jobVars, config, pipeline, disk, Finished, JoinSubtasks, RestoreTimes
    <3>2. QED BY <1>2, <3>1, StillHonest
  <2>2. CASE JobNext /\ ~ (Finished \/ JoinSubtasks \/ RestoreTimes)
    BY <1>2, <2>2, PlanHonest, SubtaskHonest, ReceiveHonest, RunHonest, BlockHonest DEF JobNext
  <2>3. QED BY <1>2, <2>1, <2>2
<1>3. QED BY <1>1, <1>2, ShapeHolds, BeforeHolds, PTL DEF JobSpec

(* A restore that counts no failed subtask, and had no error that is only  *)
(* logged, has restored every file asked for, whole (RestoreHonest): for   *)
(* every copy and request, whatever was at the target, any shards and      *)
(* permits, in whatever order subtasks, tasks and blocks ran.              *)
THEOREM RestoreIsHonest ==
    ASSUME EntriesApart, BlobsWhole
    PROVE  JobSpec => []RestoreHonest
<1>1. ASSUME Shape, HonestInv PROVE RestoreHonest
  <2>1. SUFFICES ASSUME phase = "done", failed = 0, "files" \notin silent, NEW f \in Asked
                 PROVE  Right(f)
    BY DEF RestoreHonest, Right
  <2>2. failing = {}
    <3>1. failed = Cardinality(failing) /\ failing \subseteq Subtasks /\ IsFiniteSet(Subtasks)
      BY <1>1, <2>1, PlanFacts DEF Shape
    <3>2. IsFiniteSet(failing)
      BY <3>1, FS_Subset
    <3>3. QED BY <2>1, <3>1, <3>2, FS_EmptySet
  <2>3. \A c \in Subtasks : next[c] > Len(plan[c]) /\ state[c] = "ended"
    BY <1>1, <2>1, <2>2 DEF Shape, Joined, HonestInv, Lost
  <2>4. ASSUME NEW t \in Entries, Item(t).kind # "dir" PROVE Right(Item(t).path)
    <3>1. t[1] \in Subtasks /\ t[2] \in 1 .. Len(plan[t[1]])
      BY <1>1, PlanFacts DEF Shape
    <3>2. ~ (t[2] >= next[t[1]])
      <4>1. next[t[1]] \in Nat /\ next[t[1]] > Len(plan[t[1]]) /\ Len(plan[t[1]]) \in Nat
        BY <1>1, <2>3, <3>1, PlanFacts DEF Shape
      <4>2. QED BY <3>1, <4>1
    <3>3. t \notin waiting \cup DOMAIN running
      BY <1>1, <2>3, <3>1 DEF Shape
    <3>4. t \in Rest
      BY <2>4, <3>2, <3>3 DEF Rest, Pending
    <3>5. QED BY <1>1, <2>1, <2>2, <3>4 DEF HonestInv, Settled, Lost
  <2>5. PlanRight(plan)
    BY <1>1, <2>1, PlanOf DEF Shape, Planned
  <2>6. PICK c \in DOMAIN plan : \E i \in DOMAIN plan[c] : plan[c][i].kind # "dir" /\ plan[c][i].path = f
    BY <2>5 DEF PlanRight
  <2>7. PICK i \in DOMAIN plan[c] : plan[c][i].kind # "dir" /\ plan[c][i].path = f
    BY <2>6
  <2>8. PICK t : t = <<c, i>> /\ t \in Entries
    <3>1. <<c, i>> \in Entries
      BY <2>6, <2>7 DEF Entries, Subtasks
    <3>2. QED BY <3>1
  <2>9. Item(t).kind # "dir" /\ Item(t).path = f
    BY <2>7, <2>8 DEF Item
  <2>10. QED BY <2>4, <2>8, <2>9
<1>2. QED BY <1>1, ShapeHolds, HonestHolds, PTL

-----------------------------------------------------------------------------
(* Type correctness: the permits, and the directories of what is there.    *)
Copying(c) == {t \in DOMAIN running : t[1] = c}
PermitsHeld == IsFiniteSet(DOMAIN running) /\ \A c : Cardinality(Copying(c)) <= Permits
Covered == \A p \in DOMAIN target : Prefixes(Front(p)) \subseteq DOMAIN dirs
Counted == phase \notin {"mtime", "done"} => failed = 0
Bounded == silent \subseteq {"files", "times"} /\ faults \in 0 .. MaxFaults
TypeParts == PermitsHeld /\ Covered /\ Counted /\ Bounded

LEMMA FewerCopy ==
    ASSUME PermitsHeld, DOMAIN running' \subseteq DOMAIN running
    PROVE  PermitsHeld'
<1>1. IsFiniteSet(DOMAIN running')
  BY FS_Subset DEF PermitsHeld
<1>2. ASSUME NEW c PROVE Cardinality(Copying(c))' <= Permits
  <2>1. IsFiniteSet(Copying(c)) /\ Copying(c)' \subseteq Copying(c)
    BY FS_Subset DEF PermitsHeld, Copying
  <2>2. /\ Cardinality(Copying(c)') <= Cardinality(Copying(c))
        /\ Cardinality(Copying(c)) \in Nat /\ Cardinality(Copying(c)') \in Nat
    BY <2>1, FS_Subset, FS_CardinalityType
  <2>3. Cardinality(Copying(c)) <= Permits
    BY DEF PermitsHeld
  <2>4. QED BY <2>2, <2>3, BoundsAssumption
<1>3. QED BY <1>1, <1>2 DEF PermitsHeld

LEMMA OneMoreCopies ==
    ASSUME PermitsHeld, NEW t, t \notin DOMAIN running, Permit(t[1]), running' = With(running, t, 0)
    PROVE  PermitsHeld'
<1>1. DOMAIN running' = DOMAIN running \cup {t}
  BY DEF With
<1>2. IsFiniteSet(DOMAIN running')
  BY <1>1, FS_AddElement DEF PermitsHeld
<1>3. ASSUME NEW c PROVE Cardinality(Copying(c))' <= Permits
  <2>1. IsFiniteSet(Copying(c)) /\ Cardinality(Copying(c)) \in Nat
    <3>1. IsFiniteSet(Copying(c))
      BY FS_Subset DEF PermitsHeld, Copying
    <3>2. QED BY <3>1, FS_CardinalityType
  <2>2. CASE c = t[1]
    <3>1. Copying(c)' = Copying(c) \cup {t} /\ t \notin Copying(c)
      BY <1>1, <2>2 DEF Copying
    <3>2. Cardinality(Copying(c)') = Cardinality(Copying(c)) + 1
      BY <2>1, <3>1, FS_AddElement
    <3>3. Cardinality(Copying(c)) < Permits
      BY <2>2 DEF Permit, Copying
    <3>4. QED BY <2>1, <3>2, <3>3, BoundsAssumption
  <2>3. CASE c # t[1]
    <3>1. Copying(c)' = Copying(c)
      BY <1>1, <2>3 DEF Copying
    <3>2. QED BY <3>1 DEF PermitsHeld
  <2>4. QED BY <2>2, <2>3
<1>4. QED BY <1>2, <1>3 DEF PermitsHeld

LEMMA PermitsStep ==
    ASSUME Shape, PermitsHeld, JobNext
    PROVE  PermitsHeld'
<1>1. CASE running' = running
  BY <1>1, FewerCopy
<1>2. CASE running' # running
  <2>1. CASE \E t \in waiting : StartFile(t)
    <3>1. PICK t \in waiting : StartFile(t)
      BY <2>1
    <3>2. running' = With(running, t, 0) /\ Permit(t[1])
      BY <1>2, <3>1 DEF StartFile
    <3>3. t \notin DOMAIN running
      BY DEF Shape
    <3>4. QED BY <3>2, <3>3, OneMoreCopies
  <2>2. CASE \E t \in DOMAIN running : CopyBlock(t)
    <3>1. PICK t \in DOMAIN running : CopyBlock(t)
      BY <2>2
    <3>2. \/ running' = Restrict(running, DOMAIN running \ {t})
          \/ running' = [running EXCEPT ![t] = End(t)]
      BY <3>1, BlockCases DEF Fail
    <3>3. DOMAIN running' \subseteq DOMAIN running
      BY <3>2 DEF Restrict
    <3>4. QED BY <3>3, FewerCopy
  <2>3. QED BY <1>2, <2>1, <2>2 DEF JobNext, PlanRestore, JoinSubtasks, RestoreTimes, Finished,
               OpenSubtask, Receive, EndSubtask, MakeDir, pipeline, jobVars
<1>3. QED BY <1>1, <1>2

LEMMA DirsGrow ==
    ASSUME NEW p, NEW ds, ds = WithDirs(dirs, p)
    PROVE  /\ DOMAIN ds = DOMAIN dirs \cup Prefixes(p)
           /\ DOMAIN Stamped(ds, p) = DOMAIN ds
BY DEF WithDirs, Stamped

LEMMA CoveredMore ==
    ASSUME Covered, NEW p, Prefixes(Front(p)) \cup DOMAIN dirs \subseteq DOMAIN dirs',
           NEW v, target' = With(target, p, v)
    PROVE  Covered'
BY DEF Covered, With

LEMMA CoveredStep ==
    ASSUME Shape, Covered, JobNext
    PROVE  Covered'
<1>1. CASE target' = target /\ DOMAIN dirs \subseteq DOMAIN dirs'
  BY <1>1 DEF Covered
<1>2. ASSUME NEW c \in Subtasks, Receive(c) PROVE Covered'
  <2>1. \/ target' = target /\ dirs' = dirs
        \/ MakeLink(c, plan[c][next[c]].place)
    BY <1>2 DEF Receive, disk
  <2>2. PICK p : MakeLink(c, p) \/ (target' = target /\ dirs' = dirs)
    BY <2>1
  <2>3. \/ target' = target /\ dirs' = dirs
        \/ /\ dirs' = Stamped(WithDirs(dirs, Front(p)), Front(p))
           /\ Put(p, LinkTo, Now)
    BY <2>2 DEF MakeLink, disk
  <2>4. DOMAIN Stamped(WithDirs(dirs, Front(p)), Front(p)) = DOMAIN dirs \cup Prefixes(Front(p))
    BY DirsGrow
  <2>5. QED BY <1>1, <2>3, <2>4, CoveredMore DEF Put
<1>3. ASSUME NEW t \in waiting, MakeDir(t) \/ StartFile(t) PROVE Covered'
  <2>1. target' = target /\ (dirs' = dirs \/ dirs' = WithDirs(dirs, Item(t).place))
    BY <1>3 DEF MakeDir, StartFile, disk
  <2>2. DOMAIN dirs \subseteq DOMAIN dirs'
    BY <2>1, DirsGrow
  <2>3. QED BY <1>1, <2>1, <2>2
<1>4. ASSUME NEW t \in DOMAIN running, CopyBlock(t) PROVE Covered'
  <2>1. \/ target' = target /\ dirs' = dirs
        \/ dirs' = WithEntry(Place(t)) /\ \E d, m : Put(Place(t), d, m)
    BY <1>4 DEF CopyBlock, Place
  <2>2. DOMAIN WithEntry(Place(t)) = DOMAIN dirs \cup Prefixes(Front(Place(t)))
    BY DirsGrow DEF WithEntry
  <2>3. CASE dirs' = WithEntry(Place(t)) /\ \E d, m : Put(Place(t), d, m)
    <3>1. PICK p, d, m : p = Place(t) /\ Put(p, d, m)
      BY <2>3
    <3>2. Prefixes(Front(p)) \cup DOMAIN dirs \subseteq DOMAIN dirs'
      BY <2>2, <2>3, <3>1
    <3>3. QED BY <3>1, <3>2, CoveredMore DEF Put
  <2>4. QED BY <1>1, <2>1, <2>3
<1>5. CASE RestoreTimes
  BY <1>1, <1>5 DEF RestoreTimes
<1>6. CASE PlanRestore \/ JoinSubtasks \/ Finished \/ \E c \in Subtasks : OpenSubtask(c) \/ EndSubtask(c)
  BY <1>1, <1>6 DEF PlanRestore, JoinSubtasks, Finished, OpenSubtask, EndSubtask, disk, jobVars
<1>7. QED BY <1>2, <1>3, <1>4, <1>5, <1>6 DEF JobNext

LEMMA CountedStep ==
    ASSUME Counted, Bounded, JobNext
    PROVE  Counted' /\ Bounded'
<1>1. Counted'
  BY DEF Counted, JobNext, PlanRestore, JoinSubtasks, RestoreTimes, Finished, OpenSubtask, Receive,
     EndSubtask, MakeDir, StartFile, CopyBlock, jobVars
<1>2. silent' \subseteq {"files", "times"}
  BY DEF Bounded, JobNext, PlanRestore, JoinSubtasks, RestoreTimes, Finished, OpenSubtask, Receive,
     EndSubtask, MakeDir, StartFile, CopyBlock, NoStart, NoPipeline, MakeLink, jobVars
<1>3. faults' = faults \/ Fault
  BY DEF JobNext, PlanRestore, JoinSubtasks, RestoreTimes, Finished, OpenSubtask, Receive,
     EndSubtask, MakeDir, StartFile, CopyBlock, NoStart, NoPipeline, MakeLink, jobVars
<1>4. QED BY <1>1, <1>2, <1>3, BoundsAssumption DEF Bounded, Fault

(* Type correctness: tasks belong to open subtasks and hold their permits, *)
(* the job counts no more failed subtasks than there are, and what is at   *)
(* the target has its directories.                                         *)
THEOREM JobTypeCorrect == JobSpec => []JobTypeOK
<1>1. JobInit => TypeParts
  <2>1. SUFFICES ASSUME JobInit PROVE TypeParts
    OBVIOUS
  <2>2. DOMAIN running = {} /\ target = Existing /\ failed = 0 /\ silent = {} /\ faults = 0
        /\ dirs = [d \in {<<>>} \cup UNION {Prefixes(Front(p)) : p \in DOMAIN Existing} |-> 0]
    <3>1. running = <<>>
      BY <2>1 DEF JobInit
    <3>2. DOMAIN running = {}
      BY <3>1
    <3>3. QED BY <2>1, <3>2 DEF JobInit
  <2>3. PermitsHeld
    <3>1. \A c : Copying(c) = {}
      BY <2>2 DEF Copying
    <3>2. QED BY <2>2, <3>1, FS_EmptySet, BoundsAssumption DEF PermitsHeld
  <2>4. QED BY <2>2, <2>3, BoundsAssumption DEF TypeParts, Covered, Counted, Bounded
<1>2. ASSUME Shape, TypeParts, [JobNext]_jobVars PROVE TypeParts'
  <2>1. CASE UNCHANGED jobVars
    BY <1>2, <2>1 DEF jobVars, pipeline, disk, TypeParts, PermitsHeld, Copying, Covered, Counted, Bounded
  <2>2. CASE JobNext
    BY <1>2, <2>2, PermitsStep, CoveredStep, CountedStep DEF TypeParts
  <2>3. QED BY <1>2, <2>1, <2>2
<1>3. ASSUME Shape, TypeParts PROVE JobTypeOK
  <2>1. \A c \in Subtasks : next[c] \in 1 .. Len(plan[c]) + 1
    BY <1>3, PlanFacts DEF Shape
  <2>2. \A t \in waiting \cup DOMAIN running : t[1] \in Subtasks
    BY <1>3, PlanFacts DEF Shape
  <2>3. \A c \in Subtasks : Cardinality({t \in DOMAIN running : t[1] = c}) <= Permits
    BY <1>3 DEF TypeParts, PermitsHeld, Copying
  <2>4. failed \in 0 .. Cardinality(failing)
    <3>1. IsFiniteSet(failing)
      BY <1>3, PlanFacts, FS_Subset DEF Shape
    <3>2. Cardinality(failing) \in Nat
      BY <3>1, FS_CardinalityType
    <3>3. QED BY <1>3, <3>2 DEF Shape, TypeParts, Counted
  <2>5. QED BY <1>3, <2>1, <2>2, <2>3, <2>4 DEF JobTypeOK, Shape, Phases, TypeParts, Covered, Bounded
<1>4. QED BY <1>1, <1>2, <1>3, ShapeHolds, PTL DEF JobSpec
=============================================================================
