---------------------------- MODULE ScanOverSpill ----------------------------
(***************************************************************************)
(* One scan worker over the real directory queue: the loop of              *)
(* native/scanner.rs with SpillQueue in place of ScanWorkers' set.  The    *)
(* tree is unknown: while a directory is processed, any number of          *)
(* subdirectories may turn up.  set_config is public, nobody calls it: it  *)
(* may come at any moment, but for another batch size, as that loses       *)
(* items.                                                                  *)
(***************************************************************************)
EXTENDS SpillQueue

VARIABLE workerPc   \* "start": the root is enqueued; "pop", "process", "done"

scanVars == <<spillVars, workerPc>>

ScanInit == NewQueue /\ workerPc = "start"

EnqueueRoot == workerPc = "start" /\ Push /\ workerPc' = "pop"

(* After Ok(None) the worker leaves if is_empty; alone, it sees no other   *)
(* worker active.  After an error it tries again.                          *)
PopDir ==
    /\ workerPc = "pop"
    /\ SpillPop
    /\ workerPc' = IF result' = "item" THEN "process"
             ELSE IF result' = "none" /\ itemCount' = 0 THEN "done" ELSE "pop"

EnqueueSubdir == workerPc = "process" /\ Push /\ UNCHANGED workerPc

LeaveDir == workerPc = "process" /\ workerPc' = "pop" /\ UNCHANGED spillVars

Reconfigure == SetConfig /\ Batch(config') = Batch(config) /\ UNCHANGED workerPc

Exited == workerPc = "done" /\ UNCHANGED scanVars

ScanNext == EnqueueRoot \/ PopDir \/ EnqueueSubdir \/ LeaveDir \/ Reconfigure \/ Exited

ScanSpec == ScanInit /\ [][ScanNext]_scanVars

(* The worker is a running thread, and trees are finite.                   *)
FairScanSpec == ScanSpec /\ WF_scanVars(EnqueueRoot) /\ WF_scanVars(PopDir) /\ WF_scanVars(LeaveDir)

(* Every directory in the queue is popped or dropped by a reported error:  *)
(* the scan always comes to an end, whatever the errors and settings: no   *)
(* state of the counters and files makes pop fail for ever.                *)
ScanEnds == <>(workerPc = "done")

=============================================================================
