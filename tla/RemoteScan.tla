----------------------------- MODULE RemoteScan -----------------------------
(***************************************************************************)
(* The scan of an NFS export or an SMB share (scanner/engine/aio.rs,       *)
(* nfs/scanner.rs, smb/scanner.rs), with its filters (scanner/filter.rs)   *)
(* and its failure log (failure.rs).  NFS: tasks share a queue of          *)
(* directories and end when it is empty and nobody is at work.  SMB: a     *)
(* coordinator keeps a set of tasks, one for each directory, and takes     *)
(* their results.  Listings go through a channel to a bridge, and from it  *)
(* through a blocking queue to the writer threads of ScanFiles, here one   *)
(* step.  A call that fails has used up its retries (AsyncCopy).           *)
(***************************************************************************)
EXTENDS Naturals, Sequences, FiniteSets, SequencesExt

CONSTANTS
    Dirs, Files,   \* paths: sequences of names; <<>> is the root
    PageOf,        \* the reply of readdirplus that holds an entry
    Hidden,        \* entries that only an SMB scan leaves out
    MaxDepth,      \* of an SMB scan
    Filters,       \* filter sets: dirs and files to include, dirs and files to exclude
    Kinds,         \* "nfs", "smb"
    Formats,       \* of the failure log: "csv", "json"
    Tasks, Writers,
    ChanCap, QueueCap,  \* DEFAULT_SCAN_QUEUE_CAPACITY, and 256
    MaxFaults      \* bound: failing calls and panics

Entries == Dirs \cup Files
Parent(p) == Front(p)
Children(d) == {p \in Entries \ {<<>>} : Parent(p) = d}
Pages == {PageOf[p] : p \in DOMAIN PageOf}

ASSUME TreeAssumption ==
    /\ <<>> \in Dirs /\ Dirs \cap Files = {}
    /\ \A p \in Entries : p \in Seq(ToSet(p)) /\ \A n \in 0 .. Len(p) - 1 : SubSeq(p, 1, n) \in Dirs
    /\ PageOf \in [Entries \ {<<>>} -> Nat \ {0}] /\ Hidden \subseteq Entries \ {<<>>}
    /\ \A f \in Filters : DOMAIN f = {"incDirs", "incFiles", "excDirs", "excFiles"}
    /\ \A f \in Filters : \A x \in f.incDirs \cup f.incFiles \cup f.excDirs \cup f.excFiles : x \in Seq(ToSet(x))

ASSUME BoundsAssumption ==
    /\ Tasks # {} /\ MaxDepth \in Nat /\ ChanCap \in Nat \ {0} /\ QueueCap \in Nat \ {0} /\ MaxFaults \in Nat
    /\ Kinds \subseteq {"nfs", "smb"} /\ Formats \subseteq {"csv", "json"}

VARIABLES
    kind, filter, format,
    work,          \* directories nobody has taken (work_rx, pending)
    task,          \* what each task is at
    inflight,      \* NFS: the count of directories in work
    coord,         \* SMB: the result the coordinator is passing on
    scanner,       \* the scan task
    chan, bridge, queue, closed,
    writer, written, stored,
    log, pos,      \* the failure log, and where each of its two recorders writes
    failed,        \* history: what could not be read
    dropped,       \* history: directories whose listing a panicked writer had
    noted,         \* history: the failures recorded
    result, faults

pipe == <<chan, bridge, queue, closed, writer, written, stored, dropped, result>>
files == <<log, pos, noted>>
walk == <<work, task, inflight, coord, scanner, failed>>
vars == <<kind, filter, format, walk, pipe, files, faults>>
config == <<kind, filter, format>>

Fault == faults < MaxFaults /\ faults' = faults + 1
Idle == [st |-> "idle", dir |-> <<>>, page |-> 0, got |-> {}, subdirs |-> {}, has |-> FALSE]
Nobody == [dir |-> <<>>, files |-> {}, children |-> {}, has |-> FALSE, none |-> TRUE]
-----------------------------------------------------------------------------
(* Filters.  A pattern is a sequence of segments, a segment the set of     *)
(* names that it matches.                                                  *)
Matches(segment, name) == name \in segment

Agree(pattern, path, n) == \A i \in 1 .. n : Matches(pattern[i], path[i])

MatchesExact(pattern, path) == Len(pattern) = Len(path) /\ Agree(pattern, path, Len(path))

MatchesSubtree(pattern, path) == Len(path) >= Len(pattern) /\ Agree(pattern, path, Len(pattern))

CanReachDir(pattern, path) ==
    IF Len(path) <= Len(pattern) THEN Agree(pattern, path, Len(path))
    ELSE MatchesSubtree(pattern, path)

(* Faulty variant: only above the parent of the file.                      *)
CanReachFile_Above(pattern, path) == Len(path) < Len(pattern) - 1 /\ Agree(pattern, path, Len(path))

CanReachFile(pattern, path) ==
    pattern # <<>> /\ Len(path) <= Len(pattern) - 1 /\ Agree(pattern, path, Len(path))

HasIncludes == filter.incDirs \cup filter.incFiles # {}
ExcludedDir(p) == \E x \in filter.excDirs : MatchesSubtree(x, p)
IncludedSubtree(p) == \E x \in filter.incDirs : MatchesSubtree(x, p)

(* should_descend_dir and should_emit_dir are the same.                    *)
Descend(p) ==
    /\ ~ExcludedDir(p)
    /\ \/ ~HasIncludes \/ IncludedSubtree(p)
       \/ \E x \in filter.incDirs : CanReachDir(x, p)
       \/ \E x \in filter.incFiles : CanReachFile(x, p)

EmitFile(p) ==
    /\ ~ExcludedDir(p) /\ ~\E x \in filter.excFiles : MatchesExact(x, p)
    /\ \/ ~HasIncludes \/ IncludedSubtree(p)
       \/ \E x \in filter.incFiles : MatchesExact(x, p)

(* should_skip, and the limit of the depth.                                *)
Skip(p) == kind = "smb" /\ (p \in Hidden \/ (p \in Dirs /\ Len(p) > MaxDepth))

Subdirs(entries) == {p \in entries \cap Dirs : Descend(p) /\ ~Skip(p)}
Admitted(entries) == {p \in entries \cap Files : EmitFile(p) /\ ~Skip(p)}
-----------------------------------------------------------------------------
(* The failure log.  run_nfs_scan and run_smb_scan open it for the         *)
(* scanner, then run_aio_scan opens it again; both write where they stand. *)
(* The second records nothing, but ends with the log.  What is at a place  *)
(* that is written again is torn.                                          *)
Put(cells, n, cell) ==
    IF n < Len(cells) THEN [cells EXCEPT ![n + 1] = <<"torn">>] ELSE Append(cells, cell)

(* Faulty variant: a CSV log ends like the others.                         *)
Footers_All == {"csv", "json"}

Footers == {"json"}

Close(cells, n) == IF format \in Footers THEN Put(cells, n, <<"end">>) ELSE cells

Record(p) ==
    /\ log' = Put(log, pos, <<"failed", p>>) /\ pos' = pos + 1
    /\ noted' = Append(noted, <<"failed", p>>)

(* The status of a reply is recorded, an error of the transport is not.    *)
Note(p) ==
    /\ failed' = failed \cup {p} /\ Fault
    /\ Record(p) \/ (kind = "nfs" /\ UNCHANGED files)

EndScanner(outcome) ==
    /\ scanner' = outcome /\ log' = Close(log, pos)
    /\ UNCHANGED <<pos, noted>>
-----------------------------------------------------------------------------
(* NFS: scan_worker and scan_one_dir.                                      *)
Nfs == kind = "nfs" /\ scanner = "run" /\ UNCHANGED <<config, coord, pipe>>
At(t, st) == task[t].st = st
Go(t, st) == task' = [task EXCEPT ![t].st = st]

Take(t) ==
    /\ Nfs /\ At(t, "idle")
    /\ \E d \in work :
          /\ work' = work \ {d}
          /\ task' = [task EXCEPT ![t] = [Idle EXCEPT !.st = "taken", !.dir = d]]
    /\ UNCHANGED <<inflight, scanner, failed, files, faults>>

Count(t) ==
    /\ Nfs /\ At(t, "taken") /\ inflight' = inflight + 1
    /\ Go(t, IF Descend(task[t].dir) THEN "attrs" ELSE "done")
    /\ UNCHANGED <<work, scanner, failed, files, faults>>

GetAttrs(t) ==
    /\ Nfs /\ At(t, "attrs")
    /\ \/ /\ task' = [task EXCEPT ![t].st = "page", ![t].page = 1]
          /\ UNCHANGED <<failed, files, faults>>
       \/ Go(t, "done") /\ Note(task[t].dir)
    /\ UNCHANGED <<work, inflight, scanner>>

(* One reply.  Of an entry without attributes or handle, which must be     *)
(* asked for, the call may fail: the scan goes on without it.              *)
ReadPage(t) ==
    /\ Nfs /\ At(t, "page")
    /\ LET d == task[t].dir
           page == {p \in Children(d) : PageOf[p] = task[t].page}
           more == \E p \in Children(d) : PageOf[p] > task[t].page
           Read(entries) ==
               /\ work' = work \cup Subdirs(entries)
               /\ task' = [task EXCEPT ![t].got = @ \cup Admitted(entries), ![t].page = @ + 1,
                                       ![t].st = IF more THEN "page" ELSE "send"]
       IN \/ Read(page) /\ UNCHANGED <<failed, files, faults>>
          \/ \E p \in page : Read(page \ {p}) /\ Note(p)
          \/ Go(t, "done") /\ Note(d) /\ UNCHANGED work
    /\ UNCHANGED <<inflight, scanner>>

Send(t) ==
    /\ kind = "nfs" /\ scanner = "run" /\ At(t, "send") /\ Len(chan) < ChanCap
    /\ chan' = Append(chan, [dir |-> task[t].dir, files |-> task[t].got])
    /\ Go(t, "done")
    /\ UNCHANGED <<config, work, inflight, coord, scanner, failed, bridge, queue, closed, writer,
                   written, stored, dropped, result, files, faults>>

(* Faulty variant: the count stays as it is when the directory failed.     *)
Uncounted_Failed(t) == IF task[t].dir \in failed THEN inflight ELSE inflight - 1

Uncounted(t) == inflight - 1

Uncount(t) ==
    /\ Nfs /\ At(t, "done") /\ inflight' = Uncounted(t)
    /\ task' = [task EXCEPT ![t] = Idle]
    /\ UNCHANGED <<work, scanner, failed, files, faults>>

(* The queue is found empty, then the count is read.                       *)
SeeEmpty(t) ==
    /\ Nfs /\ At(t, "idle") /\ work = {} /\ Go(t, "empty")
    /\ UNCHANGED <<work, inflight, scanner, failed, files, faults>>

Exit(t) ==
    /\ Nfs /\ At(t, "empty") /\ Go(t, IF inflight = 0 THEN "gone" ELSE "idle")
    /\ UNCHANGED <<work, inflight, scanner, failed, files, faults>>

NfsPanic(t) ==
    /\ Nfs /\ task[t].st \in {"attrs", "page"} /\ Go(t, "panicked") /\ Fault
    /\ UNCHANGED <<work, inflight, scanner, failed, files>>

JoinTasks ==
    /\ Nfs /\ \A t \in Tasks : task[t].st \in {"gone", "panicked"}
    /\ EndScanner(IF \E t \in Tasks : At(t, "panicked") THEN "err" ELSE "ok")
    /\ UNCHANGED <<work, task, inflight, failed, faults>>
-----------------------------------------------------------------------------
(* SMB: scan, and scan_one_dir in a task of its own.                       *)
Smb == kind = "smb" /\ scanner = "run" /\ UNCHANGED <<config, inflight, pipe>>
Active == {t \in Tasks : ~At(t, "idle")}

Spawn(t) ==
    /\ Smb /\ coord.none /\ At(t, "idle")
    /\ \E d \in work :
          /\ work' = work \ {d}
          /\ task' = [task EXCEPT ![t] = [Idle EXCEPT !.st = "open", !.dir = d]]
    /\ UNCHANGED <<coord, scanner, failed, files, faults>>

Output(t, has, got, subdirs) ==
    task' = [task EXCEPT ![t] = [task[t] EXCEPT !.st = "out", !.has = has, !.got = got, !.subdirs = subdirs]]

(* What was known of a directory from its parent is passed on even when it *)
(* cannot be opened; of the root nothing is.                               *)
OpenDir(t) ==
    /\ Smb /\ At(t, "open")
    /\ LET d == task[t].dir IN
       \/ /\ IF Descend(d) THEN Go(t, "query") ELSE Output(t, FALSE, {}, {})
          /\ UNCHANGED <<failed, files, faults>>
       \/ Descend(d) /\ Output(t, d # <<>>, {}, {}) /\ Note(d)
       \/ /\ Descend(d) /\ Output(t, FALSE, {}, {})
          /\ failed' = failed \cup {d} /\ Fault /\ UNCHANGED files
    /\ UNCHANGED <<work, coord, scanner>>

QueryDir(t) ==
    /\ Smb /\ At(t, "query")
    /\ LET d == task[t].dir
           Read(entries) == Output(t, TRUE, Admitted(entries), Subdirs(entries))
       IN \/ Read(Children(d)) /\ UNCHANGED <<failed, files, faults>>
          \/ Output(t, TRUE, {}, {}) /\ Note(d)
          \/ \E p \in Children(d) :
                /\ Read(Children(d) \ {p}) /\ failed' = failed \cup {p} /\ Fault
                /\ Record(d)
    /\ UNCHANGED <<work, coord, scanner>>

SmbPanic(t) ==
    /\ Smb /\ task[t].st \in {"open", "query"} /\ Go(t, "panicked") /\ Fault
    /\ UNCHANGED <<work, coord, scanner, failed, files>>

(* join_next, when all that can be has been spawned.  A panic ends the     *)
(* scan, and the other tasks with it.                                      *)
JoinNext(t) ==
    /\ Smb /\ coord.none /\ (work = {} \/ Active = Tasks)
    /\ \/ /\ At(t, "out")
          /\ coord' = [dir |-> task[t].dir, files |-> task[t].got, children |-> task[t].subdirs,
                       has |-> task[t].has, none |-> FALSE]
          /\ task' = [task EXCEPT ![t] = Idle]
          /\ UNCHANGED <<scanner, files>>
       \/ /\ At(t, "panicked") /\ EndScanner("err")
          /\ UNCHANGED <<coord, task>>
    /\ UNCHANGED <<work, failed, faults>>

PassOn ==
    /\ kind = "smb" /\ scanner = "run" /\ ~coord.none
    /\ IF coord.has
       THEN /\ Len(chan) < ChanCap
            /\ chan' = Append(chan, [dir |-> coord.dir, files |-> coord.files])
       ELSE UNCHANGED chan
    /\ work' = work \cup coord.children /\ coord' = Nobody
    /\ UNCHANGED <<config, task, inflight, scanner, failed, bridge, queue, closed, writer, written,
                   stored, dropped, result, files, faults>>

CloseClient ==
    /\ Smb /\ coord.none /\ work = {} /\ Active = {}
    /\ \/ EndScanner("ok") /\ UNCHANGED faults
       \/ EndScanner("err") /\ Fault
    /\ UNCHANGED <<work, task, coord, failed>>
-----------------------------------------------------------------------------
(* run_aio_scan: the bridge, and the end.                                  *)
Bridge == UNCHANGED <<config, walk, faults>>

Receive ==
    /\ Bridge /\ bridge = <<>> /\ chan # <<>> /\ result = "run"
    /\ bridge' = <<Head(chan)>> /\ chan' = Tail(chan)
    /\ UNCHANGED <<queue, closed, writer, written, stored, dropped, result, files>>

Forward ==
    /\ Bridge /\ bridge # <<>> /\ Len(queue) < QueueCap
    /\ queue' = queue \o bridge /\ bridge' = <<>>
    /\ UNCHANGED <<chan, closed, writer, written, stored, dropped, result, files>>

(* An error returns at once: the queue stays open and the writers wait.    *)
ScanEnded ==
    /\ Bridge /\ result = "run" /\ ~closed /\ scanner # "run" /\ chan = <<>> /\ bridge = <<>>
    /\ \/ scanner = "ok" /\ closed' = TRUE /\ UNCHANGED <<result, files>>
       \/ /\ scanner = "err" /\ result' = "err" /\ log' = Close(log, 1)
          /\ UNCHANGED <<closed, pos, noted>>
    /\ UNCHANGED <<chan, bridge, queue, writer, written, stored, dropped>>

Write(w) ==
    /\ writer[w] = "pop" /\ queue # <<>> /\ queue' = Tail(queue)
    /\ \/ /\ written' = written \cup {Head(queue)} /\ stored' = stored + 1
          /\ UNCHANGED <<writer, dropped, faults>>
       \/ /\ writer' = [writer EXCEPT ![w] = "panicked"]
          /\ dropped' = dropped \cup {Head(queue).dir} /\ Fault
          /\ UNCHANGED <<written, stored>>
    /\ UNCHANGED <<config, walk, chan, bridge, closed, result, files>>

EndWriter(w) ==
    /\ Bridge /\ writer[w] = "pop" /\ closed /\ queue = <<>>
    /\ writer' = [writer EXCEPT ![w] = "gone"]
    /\ UNCHANGED <<chan, bridge, queue, closed, written, stored, dropped, result, files>>

Generate ==
    /\ closed /\ result = "run" /\ \A w \in Writers : writer[w] # "pop"
    /\ log' = Close(log, 1) /\ UNCHANGED <<pos, noted>>
    /\ dropped' = dropped \cup {queue[i].dir : i \in DOMAIN queue}
    /\ \/ result' = "ok" /\ UNCHANGED faults
       \/ result' = "err" /\ Fault
    /\ UNCHANGED <<config, walk, chan, bridge, queue, closed, writer, written, stored>>
-----------------------------------------------------------------------------
Init ==
    /\ kind \in Kinds /\ filter \in Filters /\ format \in Formats
    /\ work = {<<>>} /\ task = [t \in Tasks |-> Idle] /\ inflight = 0 /\ coord = Nobody
    /\ scanner = "run" /\ chan = <<>> /\ bridge = <<>> /\ queue = <<>> /\ closed = FALSE
    /\ writer = [w \in Writers |-> "pop"] /\ written = {} /\ stored = 0
    /\ log = << <<"begin">> >> /\ pos = 1 /\ failed = {} /\ dropped = {} /\ noted = <<>>
    /\ result = "run" /\ faults = 0

NfsStep(t) ==
    \/ Take(t) \/ Count(t) \/ GetAttrs(t) \/ ReadPage(t) \/ Send(t) \/ Uncount(t)
    \/ SeeEmpty(t) \/ Exit(t)

SmbStep(t) == Spawn(t) \/ OpenDir(t) \/ QueryDir(t) \/ JoinNext(t)

Step ==
    \/ \E t \in Tasks : NfsStep(t) \/ NfsPanic(t) \/ SmbStep(t) \/ SmbPanic(t)
    \/ JoinTasks \/ PassOn \/ CloseClient \/ Receive \/ Forward \/ ScanEnded \/ Generate
    \/ \E w \in Writers : Write(w) \/ EndWriter(w)

(* The scan has returned, or no writer is left to take from a full queue.  *)
Panicked(w) == writer[w] = "panicked"
Done == (result # "run" \/ \A w \in Writers : Panicked(w)) /\ UNCHANGED vars

Next == Step \/ Done

(* Every task of the runtime and every thread goes on if it can.           *)
Fairness ==
    /\ \A t \in Tasks : WF_vars(NfsStep(t)) /\ WF_vars(OpenDir(t) \/ QueryDir(t))
    /\ WF_vars(\E t \in Tasks : Spawn(t) \/ JoinNext(t)) /\ WF_vars(PassOn) /\ WF_vars(CloseClient)
    /\ WF_vars(JoinTasks) /\ WF_vars(Receive) /\ WF_vars(Forward) /\ WF_vars(ScanEnded)
    /\ WF_vars(Generate) /\ \A w \in Writers : WF_vars(Write(w)) /\ WF_vars(EndWriter(w))

Spec == Init /\ [][Next]_vars /\ Fairness
-----------------------------------------------------------------------------
TypeOK ==
    /\ work \subseteq Dirs /\ failed \subseteq Entries /\ dropped \subseteq Dirs
    /\ inflight = Cardinality({t \in Tasks : kind = "nfs" /\
                      task[t].st \in {"attrs", "page", "send", "done", "panicked"}})
    /\ \A t \in Tasks : task[t].dir \in Dirs /\ task[t].got \subseteq Files
    /\ scanner \in {"run", "ok", "err"} /\ result \in {"run", "ok", "err"}
    /\ Len(chan) <= ChanCap /\ Len(queue) <= QueueCap /\ Len(bridge) <= 1
    /\ pos = Len(noted) + 1 /\ faults \in 0 .. MaxFaults

Above(p) == {SubSeq(p, 1, n) : n \in 0 .. Len(p)}
Spoiled(p) == Above(p) \cap (failed \cup dropped) # {}
Skipped(p) == \E q \in Above(p) : Skip(q)

(* A scan that returns Ok has written each file that the filters admit     *)
(* with its own directory, once, and no others, however deep it lies and   *)
(* whatever patterns lead to it, unless it, or a directory above it, could *)
(* not be read, or was lost with a writer; and, when the filters only      *)
(* exclude, each directory.                                                *)
Exhaustive ==
    result = "ok" =>
        /\ stored = Cardinality({b.dir : b \in written})
        /\ \A b \in written : \A f \in b.files : EmitFile(f) /\ ~Skipped(f) /\ Parent(f) = b.dir
        /\ \A f \in Files : EmitFile(f) /\ ~Spoiled(f) /\ ~Skipped(f) =>
               \E b \in written : f \in b.files
        /\ \A d \in Dirs : ~HasIncludes /\ ~ExcludedDir(d) /\ ~Spoiled(d) /\ ~Skipped(d) =>
               \E b \in written : b.dir = d

(* The log of a scan that has returned has every failure that was recorded *)
(* in its order, but for the first in a JSON or an XML log: the end that   *)
(* the second recorder of the file writes falls on it.                     *)
LogKeepsRecords ==
    result # "run" => \A i \in DOMAIN noted : log[i + 1] = noted[i] \/ (i = 1 /\ format # "csv")

(* The scan returns: the tasks find out that nobody is at work any more,   *)
(* and the channel and the queue never keep everybody waiting, unless      *)
(* every writer has panicked, or an NFS task has, which leaves the count   *)
(* up.                                                                     *)
ScanReturns ==
    <>(\/ result # "run" \/ \A w \in Writers : Panicked(w)
       \/ (kind = "nfs" /\ \E t \in Tasks : At(t, "panicked")))
=============================================================================
