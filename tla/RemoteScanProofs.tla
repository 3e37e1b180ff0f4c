-------------------------- MODULE RemoteScanProofs --------------------------
(***************************************************************************)
(* Proofs about RemoteScan: for every tree, set of filters and number of   *)
(* tasks, writers and failing calls, a scan that returns Ok is exhaustive, *)
(* and its failure log keeps the records.                                  *)
(***************************************************************************)
EXTENDS RemoteScan, SequenceTheorems, FiniteSetTheorems, TLAPS

States == {"idle", "taken", "attrs", "page", "send", "done", "empty", "gone", "panicked",
           "open", "query", "out"}
Task == [st : States, dir : Dirs, page : Nat, got : SUBSET Files, subdirs : SUBSET Dirs, has : BOOLEAN]
Result == [dir : Dirs, files : SUBSET Files, children : SUBSET Dirs, has : BOOLEAN, none : BOOLEAN]
Batch == [dir : Dirs, files : SUBSET Files]

Shape ==
    /\ kind \in Kinds /\ filter \in Filters /\ format \in Formats
    /\ work \subseteq Dirs /\ task \in [Tasks -> Task] /\ coord \in Result
    /\ \A t \in Tasks : /\ task[t].st \in {"taken", "attrs", "open", "query"} => task[t].page = 0
                        /\ task[t].st # "out" => task[t].subdirs = {}
                        /\ task[t].subdirs \subseteq Children(task[t].dir)
    /\ coord.none \/ kind = "nfs" => coord = Nobody
    /\ coord.children \subseteq Children(coord.dir)
    /\ chan \in Seq(Batch) /\ bridge \in Seq(Batch) /\ queue \in Seq(Batch)
    /\ written \subseteq Batch /\ failed \subseteq Entries /\ dropped \subseteq Dirs
    /\ scanner \in {"run", "ok", "err"} /\ result \in {"run", "ok", "err"} /\ closed \in BOOLEAN

-----------------------------------------------------------------------------
(* Where a directory is: it waits, a task holds it, or it has been listed. *)
Holding(t) == task[t].st \in {"taken", "attrs", "page", "send", "open", "query", "out", "panicked"}
Reading(t) == task[t].st \in {"taken", "attrs", "page", "open", "query", "panicked"}

Kids == coord.children \cup UNION {task[t].subdirs : t \in Tasks}
Waiting == work \cup Kids
Held == {task[t].dir : t \in {u \in Tasks : Holding(u)}}
Line == queue \o bridge \o chan     \* the listings on their way, oldest first
DirsOf(s) == {s[i].dir : i \in 1 .. Len(s)}
Once(s) == \A i, j \in 1 .. Len(s) : s[i].dir = s[j].dir => i = j
LineDirs == DirsOf(Line)
WrittenDirs == {b.dir : b \in written}
CoordDirs == IF coord.none THEN {} ELSE {coord.dir}
Listed == CoordDirs \cup LineDirs \cup WrittenDirs
Spots == Waiting \cup Held \cup Listed

(* ... in one place only.                                                  *)
Apart ==
    /\ \A t \in Tasks : Holding(t) => task[t].dir \notin Waiting \cup Listed
    /\ \A t, u \in Tasks : Holding(t) /\ Holding(u) /\ t # u => task[t].dir # task[u].dir
    /\ work \cap Kids = {} /\ Waiting \cap Listed = {}
    /\ CoordDirs \cap (LineDirs \cup WrittenDirs) = {} /\ LineDirs \cap WrittenDirs = {}
    /\ Once(Line)
    /\ IsFiniteSet(WrittenDirs) /\ stored = Cardinality(WrittenDirs)

(* What lies below a directory that is not read yet has not been found,    *)
(* and nothing that is to be skipped is.                                   *)
Pre(p, n) == SubSeq(p, 1, n)

Unread(d, c) ==
    \/ d \in Waiting
    \/ \E t \in Tasks : Reading(t) /\ task[t].dir = d /\ task[t].page <= PageOf[c]

Order ==
    \A p \in Spots : /\ ~ Skipped(p)
                     /\ \A n \in 0 .. Len(p) - 1 : ~ Unread(Pre(p, n), Pre(p, n + 1))

(* What has to be found has been, or is below one that is not read yet.    *)
Excused(d) == ~ Descend(d) \/ Skip(d) \/ d \in failed \cup dropped
Wanted(d) == \A n \in 0 .. Len(d) : ~ Excused(Pre(d, n))

Found ==
    \A d \in Dirs : Wanted(d) => d \in Spots \/ \E n \in 0 .. Len(d) - 1 : Unread(Pre(d, n), Pre(d, n + 1))

-----------------------------------------------------------------------------
(* What is in a listing: files to be emitted, and all of them.             *)
Due(d) == {f \in Files \cap Children(d) : EmitFile(f) /\ ~ Skip(f)}
Full(d, fs) == d \notin failed => Due(d) \subseteq fs \cup failed
GivenUp(d) == d \in failed \/ ~ Descend(d)

Listing(b) == b.files \subseteq Due(b.dir) /\ Full(b.dir, b.files)

AllListings(s) == \A i \in 1 .. Len(s) : Listing(s[i])

Progress(t) ==
    /\ Holding(t) => task[t].got \subseteq Due(task[t].dir)
    /\ task[t].st = "page" => {f \in Due(task[t].dir) : PageOf[f] < task[t].page} \subseteq task[t].got \cup failed
    /\ task[t].st = "send" => Full(task[t].dir, task[t].got)
    /\ task[t].st = "out" => IF task[t].has THEN Full(task[t].dir, task[t].got) ELSE GivenUp(task[t].dir)

Passed == ~ coord.none => IF coord.has THEN Listing(coord) ELSE GivenUp(coord.dir)

Listings ==
    /\ \A t \in Tasks : Progress(t)
    /\ Passed
    /\ AllListings(Line)
    /\ \A b \in written : Listing(b)

(* How it ends.  A task that leaves has seen that no directory waits, and  *)
(* one that finds another goes on.                                         *)
Ending ==
    /\ kind = "nfs" /\ work # {} => \E t \in Tasks : task[t].st \notin {"empty", "gone"}
    /\ scanner = "ok" => work = {} /\ coord.none /\ \A t \in Tasks : ~ Holding(t)
    /\ closed => scanner = "ok" /\ chan = <<>> /\ bridge = <<>>
    /\ result = "ok" => closed /\ LineDirs \subseteq dropped

Inv == Shape /\ Apart /\ Order /\ Found /\ Listings /\ Ending

(* The failure log.                                                        *)
Cell == {<<"begin">>, <<"end">>, <<"torn">>} \cup {<<"failed", p>> : p \in Entries}

LogInv ==
    /\ log \in Seq(Cell) /\ noted \in Seq(Cell) /\ pos = Len(noted) + 1 /\ Len(log) >= pos
    /\ format \in Formats
    /\ scanner = "run" => Len(log) = pos
    /\ closed => scanner # "run"
    /\ \A i \in 1 .. Len(noted) : log[i + 1] = noted[i] \/ (i = 1 /\ format # "csv" /\ result # "run")
-----------------------------------------------------------------------------
(* Paths.                                                                  *)

(* A prefix of a sequence.                                                 *)
LEMMA PrefixOfSeq ==
    ASSUME NEW S, NEW p \in Seq(S), NEW m \in 0 .. Len(p)
    PROVE  /\ Len(p) \in Nat /\ m \in Nat
           /\ Pre(p, m) \in Seq(S) /\ Len(Pre(p, m)) = m
           /\ \A i \in 1 .. m : Pre(p, m)[i] = p[i]
<1>1. Len(p) \in Nat /\ \A i \in 1 .. Len(p) : p[i] \in S
    BY LenProperties
<1>2. m \in Nat /\ m <= Len(p)
    BY <1>1
<1>3. \A i \in 1 .. m : p[i] \in S
    BY <1>1, <1>2
<1>4. 1 \in Int /\ m \in Int
    BY <1>2
<1>5. /\ SubSeq(p, 1, m) \in Seq(S)
      /\ Len(SubSeq(p, 1, m)) = IF 1 <= m THEN m - 1 + 1 ELSE 0
      /\ \A i \in 1 .. m - 1 + 1 : SubSeq(p, 1, m)[i] = p[1 + i - 1]
    BY <1>3, <1>4, SubSeqProperties
<1>6. Len(SubSeq(p, 1, m)) = m
    BY <1>2, <1>5
<1>7. \A i \in 1 .. m : SubSeq(p, 1, m)[i] = p[i]
    BY <1>2, <1>5
<1> QED BY <1>1, <1>2, <1>5, <1>6, <1>7 DEF Pre

(* An entry is a sequence, and so is each prefix of it, which is its       *)
(* directory or one above.                                                 *)
LEMMA PathPrefixes ==
    ASSUME NEW p \in Entries, NEW m \in 0 .. Len(p)
    PROVE  /\ Len(p) \in Nat /\ p \in Seq(ToSet(p))
           /\ Pre(p, m) \in Seq(ToSet(p)) /\ Len(Pre(p, m)) = m
           /\ \A i \in 1 .. m : Pre(p, m)[i] = p[i]
           /\ m < Len(p) => Pre(p, m) \in Dirs
           /\ Pre(p, m) \in Entries
           /\ Pre(p, Len(p)) = p
           /\ \A n \in 0 .. m : Pre(Pre(p, m), n) = Pre(p, n)
<1>1. p \in Seq(ToSet(p)) /\ Len(p) \in Nat /\ m \in Nat /\ m <= Len(p)
    BY TreeAssumption, LenProperties
<1>2. Pre(p, m) \in Seq(ToSet(p)) /\ Len(Pre(p, m)) = m /\ \A i \in 1 .. m : Pre(p, m)[i] = p[i]
    BY <1>1, PrefixOfSeq
<1>3. m < Len(p) => Pre(p, m) \in Dirs
    <2> SUFFICES ASSUME m < Len(p) PROVE Pre(p, m) \in Dirs
        OBVIOUS
    <2>1. m \in 0 .. Len(p) - 1
        BY <1>1
    <2> QED BY <2>1, TreeAssumption DEF Pre
<1>4. Pre(p, Len(p)) = p
    <2>1. Pre(p, Len(p)) \in Seq(ToSet(p)) /\ Len(Pre(p, Len(p))) = Len(p)
          /\ \A i \in 1 .. Len(p) : Pre(p, Len(p))[i] = p[i]
        <3>1. Len(p) \in 0 .. Len(p)
            BY <1>1
        <3> QED BY <1>1, <3>1, PrefixOfSeq
    <2> QED BY <1>1, <2>1, SeqEqual
<1>5. Pre(p, m) \in Entries
    <2>1. CASE m < Len(p)
        BY <1>3, <2>1 DEF Entries
    <2>2. CASE m = Len(p)
        BY <1>4, <2>2
    <2> QED BY <1>1, <2>1, <2>2
<1>6. ASSUME NEW n \in 0 .. m PROVE Pre(Pre(p, m), n) = Pre(p, n)
    <2>1. n \in 0 .. Len(p) /\ n \in 0 .. Len(Pre(p, m)) /\ n \in Nat
        BY <1>1, <1>2
    <2>2. Pre(p, n) \in Seq(ToSet(p)) /\ Len(Pre(p, n)) = n /\ \A i \in 1 .. n : Pre(p, n)[i] = p[i]
        BY <1>1, <2>1, PrefixOfSeq
    <2>3. Pre(Pre(p, m), n) \in Seq(ToSet(p)) /\ Len(Pre(Pre(p, m), n)) = n
          /\ \A i \in 1 .. n : Pre(Pre(p, m), n)[i] = Pre(p, m)[i]
        BY <1>2, <2>1, PrefixOfSeq
    <2>4. \A i \in 1 .. n : Pre(Pre(p, m), n)[i] = Pre(p, n)[i]
        BY <1>1, <1>2, <2>1, <2>2, <2>3
    <2> QED BY <2>2, <2>3, <2>4, SeqEqual
<1> QED BY <1>1, <1>2, <1>3, <1>4, <1>5, <1>6

(* A child's path is its directory's and a name.                           *)
LEMMA ChildPath ==
    ASSUME NEW d \in Dirs, NEW c \in Children(d)
    PROVE  /\ c \in Entries /\ c # <<>> /\ PageOf[c] \in Nat /\ PageOf[c] >= 1
           /\ Len(c) = Len(d) + 1 /\ Len(d) \in Nat
           /\ Pre(c, Len(d)) = d /\ Pre(c, Len(d) + 1) = c
<1>1. c \in Entries /\ c # <<>> /\ Front(c) = d
    BY DEF Children, Parent
<1>2. PageOf[c] \in Nat /\ PageOf[c] >= 1
    BY <1>1, TreeAssumption
<1>3. c \in Seq(ToSet(c)) /\ Len(c) \in Nat /\ Len(c) # 0
    BY <1>1, TreeAssumption, LenProperties, EmptySeq
<1>4. Front(c) = Pre(c, Len(c) - 1)
    BY DEF Front, Pre
<1>5. Len(Front(c)) = Len(c) - 1
    BY <1>1, <1>3, <1>4, PathPrefixes
<1>6. Pre(c, Len(c)) = c
    BY <1>1, <1>3, PathPrefixes
<1> QED BY <1>1, <1>2, <1>3, <1>4, <1>5, <1>6

(* Each step down a path is to a child.                                    *)
LEMMA StepDown ==
    ASSUME NEW p \in Entries, NEW n \in 0 .. Len(p) - 1
    PROVE  Pre(p, n) \in Dirs /\ Pre(p, n + 1) \in Children(Pre(p, n))
<1>1. Len(p) \in Nat /\ n \in 0 .. Len(p) /\ n + 1 \in 0 .. Len(p) /\ n \in Nat
    BY TreeAssumption, LenProperties
<1>2. Pre(p, n) \in Dirs
    BY <1>1, PathPrefixes
<1>3. Pre(p, n + 1) \in Entries /\ Len(Pre(p, n + 1)) = n + 1
    BY <1>1, PathPrefixes
<1>4. Pre(p, n + 1) # <<>>
    BY <1>3, <1>1, EmptySeq
<1>5. Front(Pre(p, n + 1)) = Pre(Pre(p, n + 1), n)
    BY <1>3, <1>1 DEF Front, Pre
<1>6. Pre(Pre(p, n + 1), n) = Pre(p, n)
    BY <1>1, PathPrefixes
<1> QED BY <1>2, <1>3, <1>4, <1>5, <1>6 DEF Children, Parent

-----------------------------------------------------------------------------
(* What a step may do, several actions at a time.                          *)
Steady == scanner = "run" /\ UNCHANGED <<kind, filter, format, scanner, pipe>>
Becomes(t, new) == task' = [task EXCEPT ![t] = new]

(* Take, Spawn.                                                            *)
Picks(t) ==
    /\ Steady /\ At(t, "idle") /\ UNCHANGED <<coord, failed>>
    /\ \E d \in work, s \in {"taken", "open"} :
          work' = work \ {d} /\ Becomes(t, [Idle EXCEPT !.st = s, !.dir = d])

(* Count, GetAttrs and OpenDir when they go on, and the panics.            *)
Stays(t) ==
    /\ Steady /\ task[t].st \in {"taken", "attrs", "page", "open", "query"}
    /\ UNCHANGED <<work, coord, failed>>
    /\ \/ Becomes(t, [task[t] EXCEPT !.st = "panicked"])
       \/ /\ task[t].st \in {"taken", "open"}
          /\ \E s \in {"attrs", "query"} : Becomes(t, [task[t] EXCEPT !.st = s])
       \/ At(t, "attrs") /\ Becomes(t, [task[t] EXCEPT !.st = "page", !.page = 1])

(* ReadPage that goes on.                                                  *)
ReadsSome(t) ==
    /\ Steady /\ kind = "nfs" /\ At(t, "page") /\ UNCHANGED coord
    /\ \E entries \in SUBSET Children(task[t].dir), lost \in SUBSET Children(task[t].dir) :
          /\ entries \cup lost = {p \in Children(task[t].dir) : PageOf[p] = task[t].page}
          /\ failed' = failed \cup lost /\ work' = work \cup Subdirs(entries)
          /\ Becomes(t, [task[t] EXCEPT !.got = task[t].got \cup Admitted(entries), !.page = task[t].page + 1,
                            !.st = IF \E p \in Children(task[t].dir) : PageOf[p] > task[t].page
                                   THEN "page" ELSE "send"])

(* OpenDir and QueryDir that end the task.                                 *)
ReadsAll(t) ==
    /\ Steady /\ kind = "smb" /\ task[t].st \in {"open", "query"} /\ UNCHANGED <<work, coord>>
    /\ \E entries \in SUBSET Children(task[t].dir), lost \in SUBSET Entries, has \in BOOLEAN :
          /\ failed' = failed \cup lost
          /\ \/ has /\ entries \cup lost = Children(task[t].dir)
             \/ entries = {} /\ task[t].dir \in lost
             \/ entries = {} /\ ~ has /\ ~ Descend(task[t].dir)
          /\ Becomes(t, [task[t] EXCEPT !.st = "out", !.has = has, !.got = Admitted(entries),
                            !.subdirs = Subdirs(entries)])

(* Count, GetAttrs and ReadPage that give the directory up.                *)
GivesUp(t) ==
    /\ Steady /\ task[t].st \in {"taken", "attrs", "page"} /\ UNCHANGED <<work, coord>>
    /\ \/ failed' = failed \cup {task[t].dir}
       \/ failed' = failed /\ ~ Descend(task[t].dir)
    /\ Becomes(t, [task[t] EXCEPT !.st = "done"])

(* Uncount, SeeEmpty, Exit.                                                *)
Idles(t) ==
    /\ Steady /\ UNCHANGED <<work, coord, failed>>
    /\ \/ At(t, "done") /\ Becomes(t, Idle)
       \/ At(t, "idle") /\ work = {} /\ Becomes(t, [task[t] EXCEPT !.st = "empty"])
       \/ At(t, "empty") /\ \E s \in {"idle", "gone"} : Becomes(t, [task[t] EXCEPT !.st = s])

(* JoinNext that takes a result.                                           *)
Joins(t) ==
    /\ Steady /\ kind = "smb" /\ coord.none /\ At(t, "out") /\ UNCHANGED <<work, failed>>
    /\ coord' = [dir |-> task[t].dir, files |-> task[t].got, children |-> task[t].subdirs,
                 has |-> task[t].has, none |-> FALSE]
    /\ Becomes(t, Idle)

(* JoinTasks, JoinNext that finds a panic, CloseClient, ScanEnded,         *)
(* EndWriter, Generate.                                                    *)
WindsUp ==
    /\ UNCHANGED <<kind, filter, format, work, task, coord, failed, chan, bridge, queue, written, stored>>
    /\ \/ /\ scanner = "run" /\ UNCHANGED <<closed, dropped, result>>
          /\ \/ scanner' = "err"
             \/ scanner' = "ok" /\ kind = "nfs" /\ \A t \in Tasks : task[t].st = "gone"
             \/ scanner' = "ok" /\ coord.none /\ work = {} /\ \A t \in Tasks : task[t].st = "idle"
       \/ UNCHANGED <<scanner, closed, dropped, result>>
       \/ /\ UNCHANGED <<scanner, dropped>> /\ chan = <<>> /\ bridge = <<>>
          /\ \/ scanner = "ok" /\ closed' = TRUE /\ UNCHANGED result
             \/ result' = "err" /\ UNCHANGED closed
       \/ /\ closed /\ UNCHANGED <<scanner, closed>> /\ result' \in {"ok", "err"}
          /\ dropped' = dropped \cup {queue[i].dir : i \in DOMAIN queue}

Moves(t) ==
    \/ Picks(t) \/ Stays(t) \/ ReadsSome(t) \/ ReadsAll(t) \/ GivesUp(t) \/ Idles(t) \/ Joins(t) \/ Send(t)

LEMMA ChildrenAreEntries ==
    ASSUME NEW d PROVE Children(d) \subseteq Entries
BY DEF Children

(* A task of an NFS scan moves.                                            *)
LEMMA NfsMoves ==
    ASSUME Shape, NEW t \in Tasks, NfsStep(t) \/ NfsPanic(t) PROVE Moves(t)
<1>1. CASE Take(t)
    BY <1>1 DEF Take, Nfs, At, Moves, Picks, Steady, Becomes, config
<1>2. CASE Count(t)
    BY <1>2 DEF Count, Nfs, At, Go, Moves, Stays, GivesUp, Steady, Becomes, config, Shape
<1>3. CASE GetAttrs(t)
    BY <1>3 DEF GetAttrs, Nfs, At, Go, Note, Moves, Stays, GivesUp, Steady, Becomes, config, Shape
<1>4. CASE ReadPage(t)
    <2> DEFINE d == task[t].dir
               page == {p \in Children(d) : PageOf[p] = task[t].page}
               more == \E p \in Children(d) : PageOf[p] > task[t].page
               new(entries) == [task[t] EXCEPT !.got = task[t].got \cup Admitted(entries), !.page = task[t].page + 1,
                                    !.st = IF more THEN "page" ELSE "send"]
               Read(entries) == work' = work \cup Subdirs(entries) /\ task' = [task EXCEPT ![t] = new(entries)]
    <2>1. Steady /\ kind = "nfs" /\ At(t, "page") /\ UNCHANGED coord
        BY <1>4 DEF ReadPage, Nfs, Steady, config
    <2>2. task \in [Tasks -> Task]
        BY DEF Shape
    <2>3. \/ Read(page) /\ failed' = failed
          \/ \E p \in page : Read(page \ {p}) /\ failed' = failed \cup {p}
          \/ Go(t, "done") /\ failed' = failed \cup {d} /\ UNCHANGED work
        BY <1>4, <2>2 DEF ReadPage, Note
    <2>4. CASE Read(page) /\ failed' = failed
        <3>1. page \in SUBSET Children(d) /\ {} \in SUBSET Children(d) /\ page \cup {} = page /\ failed' = failed \cup {}
            BY <2>4
        <3>2. ReadsSome(t)
            BY <2>1, <2>4, <3>1 DEF ReadsSome, Becomes
        <3> QED BY <3>2 DEF Moves
    <2>5. CASE \E p \in page : Read(page \ {p}) /\ failed' = failed \cup {p}
        <3>1. PICK p \in page : Read(page \ {p}) /\ failed' = failed \cup {p}
            BY <2>5
        <3>2. page \ {p} \in SUBSET Children(d) /\ {p} \in SUBSET Children(d) /\ (page \ {p}) \cup {p} = page
            OBVIOUS
        <3>3. ReadsSome(t)
            BY <2>1, <3>1, <3>2 DEF ReadsSome, Becomes
        <3> QED BY <3>3 DEF Moves
    <2>6. CASE Go(t, "done") /\ failed' = failed \cup {d} /\ UNCHANGED work
        BY <2>1, <2>6 DEF Moves, GivesUp, Go, Becomes, At
    <2> QED BY <2>3, <2>4, <2>5, <2>6
<1>5. CASE Uncount(t)
    BY <1>5 DEF Uncount, Nfs, At, Moves, Idles, Steady, Becomes, config
<1>6. CASE SeeEmpty(t)
    BY <1>6 DEF SeeEmpty, Nfs, At, Go, Moves, Idles, Steady, Becomes, config
<1>7. CASE Exit(t)
    BY <1>7 DEF Exit, Nfs, At, Go, Moves, Idles, Steady, Becomes, config
<1>8. CASE NfsPanic(t)
    BY <1>8 DEF NfsPanic, Nfs, Go, Moves, Stays, Steady, Becomes, config
<1>9. CASE Send(t)
    BY <1>9 DEF Moves
<1> QED BY <1>1, <1>2, <1>3, <1>4, <1>5, <1>6, <1>7, <1>8, <1>9 DEF NfsStep

(* A task of an SMB scan moves, or the scan winds up.                      *)
LEMMA SmbMoves ==
    ASSUME Shape, NEW t \in Tasks, SmbStep(t) \/ SmbPanic(t) PROVE Moves(t) \/ WindsUp
<1>0. task \in [Tasks -> Task]
    BY DEF Shape
<1>1. CASE Spawn(t)
    BY <1>1 DEF Spawn, Smb, At, Moves, Picks, Steady, Becomes, config
<1>2. CASE OpenDir(t)
    <2> DEFINE d == task[t].dir
    <2>1. Steady /\ kind = "smb" /\ At(t, "open") /\ UNCHANGED <<work, coord>>
        BY <1>2 DEF OpenDir, Smb, Steady, config
    <2>2. \/ Descend(d) /\ Go(t, "query") /\ failed' = failed
          \/ ~ Descend(d) /\ Output(t, FALSE, {}, {}) /\ failed' = failed
          \/ \E has \in BOOLEAN : Output(t, has, {}, {}) /\ failed' = failed \cup {d}
        BY <1>2 DEF OpenDir, Note
    <2>3. CASE Descend(d) /\ Go(t, "query") /\ failed' = failed
        BY <2>1, <2>3 DEF Moves, Stays, Go, At, Becomes
    <2>4. Admitted({}) = {} /\ Subdirs({}) = {}
        BY DEF Admitted, Subdirs
    <2>5. {} \in SUBSET Children(d) /\ {} \in SUBSET Entries /\ failed \cup {} = failed /\ FALSE \in BOOLEAN
        OBVIOUS
    <2>6. CASE ~ Descend(d) /\ Output(t, FALSE, {}, {}) /\ failed' = failed
        <3>1. ReadsAll(t)
            BY <2>1, <2>4, <2>5, <2>6 DEF ReadsAll, Output, At, Becomes
        <3> QED BY <3>1 DEF Moves
    <2>7. CASE \E has \in BOOLEAN : Output(t, has, {}, {}) /\ failed' = failed \cup {d}
        <3>1. PICK has \in BOOLEAN : Output(t, has, {}, {}) /\ failed' = failed \cup {d}
            BY <2>7
        <3>2. {d} \in SUBSET Entries /\ d \in {d}
            BY <1>0 DEF Task, Entries
        <3>3. ReadsAll(t)
            BY <2>1, <2>4, <2>5, <3>1, <3>2 DEF ReadsAll, Output, At, Becomes
        <3> QED BY <3>3 DEF Moves
    <2> QED BY <2>2, <2>3, <2>6, <2>7
<1>3. CASE QueryDir(t)
    <2> DEFINE d == task[t].dir
    <2>1. Steady /\ kind = "smb" /\ At(t, "query") /\ UNCHANGED <<work, coord>>
        BY <1>3 DEF QueryDir, Smb, Steady, config
    <2>2. \/ Output(t, TRUE, Admitted(Children(d)), Subdirs(Children(d))) /\ failed' = failed
          \/ Output(t, TRUE, {}, {}) /\ failed' = failed \cup {d}
          \/ \E p \in Children(d) : /\ Output(t, TRUE, Admitted(Children(d) \ {p}), Subdirs(Children(d) \ {p}))
                                    /\ failed' = failed \cup {p}
        BY <1>3 DEF QueryDir, Note
    <2>3. Children(d) \in SUBSET Entries /\ TRUE \in BOOLEAN
        BY ChildrenAreEntries
    <2>4. CASE Output(t, TRUE, Admitted(Children(d)), Subdirs(Children(d))) /\ failed' = failed
        <3>1. /\ Children(d) \in SUBSET Children(d) /\ {} \in SUBSET Entries /\ Children(d) \cup {} = Children(d)
              /\ failed \cup {} = failed
            OBVIOUS
        <3>2. ReadsAll(t)
            BY <2>1, <2>3, <2>4, <3>1 DEF ReadsAll, Output, At, Becomes
        <3> QED BY <3>2 DEF Moves
    <2>5. CASE Output(t, TRUE, {}, {}) /\ failed' = failed \cup {d}
        <3>1. Admitted({}) = {} /\ Subdirs({}) = {}
            BY DEF Admitted, Subdirs
        <3>2. {d} \in SUBSET Entries /\ d \in {d} /\ {} \in SUBSET Children(d)
            BY <1>0 DEF Task, Entries
        <3>3. ReadsAll(t)
            BY <2>1, <2>3, <2>5, <3>1, <3>2 DEF ReadsAll, Output, At, Becomes
        <3> QED BY <3>3 DEF Moves
    <2>6. ASSUME NEW p \in Children(d), Output(t, TRUE, Admitted(Children(d) \ {p}), Subdirs(Children(d) \ {p})),
                 failed' = failed \cup {p}
          PROVE  Moves(t)
        <3>1. /\ Children(d) \ {p} \in SUBSET Children(d) /\ {p} \in SUBSET Entries
              /\ (Children(d) \ {p}) \cup {p} = Children(d)
            BY <2>3
        <3>2. ReadsAll(t)
            BY <2>1, <2>3, <2>6, <3>1 DEF ReadsAll, Output, At, Becomes
        <3> QED BY <3>2 DEF Moves
    <2> QED BY <2>2, <2>4, <2>5, <2>6
<1>4. CASE JoinNext(t)
    <2>1. \/ At(t, "out") /\ UNCHANGED scanner /\ task' = [task EXCEPT ![t] = Idle]
             /\ coord' = [dir |-> task[t].dir, files |-> task[t].got, children |-> task[t].subdirs,
                          has |-> task[t].has, none |-> FALSE]
          \/ scanner' = "err" /\ UNCHANGED <<coord, task>>
        BY <1>4 DEF JoinNext, EndScanner
    <2> QED BY <1>4, <2>1 DEF JoinNext, Smb, Moves, Joins, WindsUp, Steady, Becomes, config, pipe
<1>5. CASE SmbPanic(t)
    BY <1>5 DEF SmbPanic, Smb, Go, Moves, Stays, Steady, Becomes, config
<1> QED BY <1>1, <1>2, <1>3, <1>4, <1>5 DEF SmbStep

(* Every step is one of these.                                             *)
LEMMA StepKinds ==
    ASSUME Shape, [Next]_vars
    PROVE  \/ \E t \in Tasks : Moves(t)
           \/ WindsUp \/ PassOn \/ Receive \/ Forward \/ \E w \in Writers : Write(w)
<1>1. CASE \E t \in Tasks : NfsStep(t) \/ NfsPanic(t)
    BY <1>1, NfsMoves
<1>2. CASE \E t \in Tasks : SmbStep(t) \/ SmbPanic(t)
    BY <1>2, SmbMoves
<1>3. CASE JoinTasks
    <2>1. /\ scanner = "run" /\ kind = "nfs" /\ UNCHANGED <<config, coord, pipe, work, task, failed>>
          /\ \A t \in Tasks : task[t].st \in {"gone", "panicked"}
          /\ scanner' = IF \E t \in Tasks : task[t].st = "panicked" THEN "err" ELSE "ok"
        BY <1>3 DEF JoinTasks, Nfs, EndScanner, At
    <2>2. CASE \E t \in Tasks : task[t].st = "panicked"
        BY <2>1, <2>2 DEF WindsUp, config, pipe
    <2>3. CASE ~ \E t \in Tasks : task[t].st = "panicked"
        <3>1. scanner' = "ok" /\ \A t \in Tasks : task[t].st = "gone"
            BY <2>1, <2>3
        <3> QED BY <2>1, <3>1 DEF WindsUp, config, pipe
    <2> QED BY <2>2, <2>3
<1>4. CASE CloseClient
    <2>1. /\ scanner = "run" /\ UNCHANGED <<config, coord, pipe, work, task, failed>>
          /\ coord.none /\ work = {} /\ Active = {} /\ scanner' \in {"ok", "err"}
        BY <1>4 DEF CloseClient, Smb, EndScanner
    <2>2. \A t \in Tasks : task[t].st = "idle"
        BY <2>1 DEF Active, At
    <2>3. WindsUp
        BY <2>1, <2>2 DEF WindsUp, config, pipe
    <2> QED BY <2>3
<1>5. CASE ScanEnded
    BY <1>5 DEF ScanEnded, Bridge, config, walk, WindsUp
<1>6. CASE Generate
    BY <1>6 DEF Generate, config, walk, WindsUp
<1>7. CASE \E w \in Writers : EndWriter(w)
    BY <1>7 DEF EndWriter, Bridge, config, walk, WindsUp
<1>8. CASE UNCHANGED vars
    BY <1>8 DEF vars, config, walk, pipe, files, WindsUp
<1>9. Next => Step \/ UNCHANGED vars
    BY DEF Next, Done
<1> QED BY <1>1, <1>2, <1>3, <1>4, <1>5, <1>6, <1>7, <1>8, <1>9 DEF Step
-----------------------------------------------------------------------------
(* The shape of the state.                                                 *)
LEMMA ShapeInit == Init => Shape
<1> SUFFICES ASSUME Init PROVE Shape
    OBVIOUS
<1>1. Idle \in Task
    BY TreeAssumption DEF Idle, Task, States
<1>2. Nobody \in Result
    BY TreeAssumption DEF Nobody, Result
<1>3. <<>> \in Seq(Batch)
    BY EmptySeq
<1>4. task \in [Tasks -> Task] /\ \A t \in Tasks : task[t] = Idle
    BY <1>1 DEF Init
<1> QED BY <1>1, <1>2, <1>3, <1>4, TreeAssumption DEF Init, Shape, Idle, Nobody

(* One task changes, the others do not.                                    *)
LEMMA OneTask ==
    ASSUME task \in [Tasks -> Task], NEW t \in Tasks, NEW new \in Task, Becomes(t, new)
    PROVE  task' \in [Tasks -> Task] /\ task'[t] = new /\ \A u \in Tasks \ {t} : task'[u] = task[u]
BY DEF Becomes

(* What is read below a directory.                                         *)
LEMMA Sorted ==
    ASSUME NEW d, NEW entries \in SUBSET Children(d)
    PROVE  /\ Subdirs(entries) \subseteq Dirs /\ Subdirs(entries) \subseteq Children(d)
           /\ Admitted(entries) \subseteq Due(d) /\ Admitted(entries) \subseteq Files
BY DEF Subdirs, Admitted, Due

ShapeTasks ==
    /\ task \in [Tasks -> Task]
    /\ \A t \in Tasks : /\ task[t].st \in {"taken", "attrs", "open", "query"} => task[t].page = 0
                        /\ task[t].st # "out" => task[t].subdirs = {}
                        /\ task[t].subdirs \subseteq Children(task[t].dir)

(* What a move makes of its task.                                          *)
LEMMA MoveTask ==
    ASSUME Shape, NEW t \in Tasks, Moves(t)
    PROVE  /\ task' \in [Tasks -> Task] /\ \A u \in Tasks \ {t} : task'[u] = task[u]
           /\ task'[t].st \in {"taken", "attrs", "open", "query"} => task'[t].page = 0
           /\ task'[t].st # "out" => task'[t].subdirs = {}
           /\ task'[t].subdirs \subseteq Children(task'[t].dir)
           /\ work' \subseteq Dirs /\ failed' \subseteq Entries
<1>0. /\ task \in [Tasks -> Task] /\ work \subseteq Dirs /\ failed \subseteq Entries
      /\ task[t] \in Task
      /\ task[t].st \in {"taken", "attrs", "open", "query"} => task[t].page = 0
      /\ task[t].st # "out" => task[t].subdirs = {}
      /\ task[t].subdirs \subseteq Children(task[t].dir)
    BY DEF Shape
<1>1. CASE Picks(t)
    <2>1. PICK d \in work, s \in {"taken", "open"} :
              work' = work \ {d} /\ Becomes(t, [Idle EXCEPT !.st = s, !.dir = d])
        BY <1>1 DEF Picks
    <2>2. PICK new : new = [Idle EXCEPT !.st = s, !.dir = d]
        OBVIOUS
    <2>3. new \in Task /\ new.page = 0 /\ new.subdirs = {}
        BY <2>2, <1>0 DEF Idle, Task, States
    <2> QED BY <1>0, <1>1, <2>1, <2>2, <2>3, OneTask DEF Picks
<1>2. CASE Stays(t)
    <2>1. PICK s \in {"attrs", "query", "panicked", "page"}, n \in Nat :
              /\ Becomes(t, [task[t] EXCEPT !.st = s, !.page = n])
              /\ s \in {"attrs", "query"} => n = 0
              /\ task[t].st # "out"
        <3>1. task[t].page \in Nat /\ task[t] = [task[t] EXCEPT !.page = task[t].page]
            BY <1>0 DEF Task
        <3>2. \A s : [task[t] EXCEPT !.st = s] = [task[t] EXCEPT !.st = s, !.page = task[t].page]
            BY <1>0 DEF Task
        <3>3. /\ task[t].st \in {"taken", "open"} => task[t].page = 0
              /\ task[t].st # "out"
            BY <1>0, <1>2 DEF Stays
        <3> QED BY <1>2, <3>1, <3>2, <3>3 DEF Stays
    <2>2. PICK new : new = [task[t] EXCEPT !.st = s, !.page = n]
        OBVIOUS
    <2>3. new \in Task /\ new.page = n /\ new.subdirs = task[t].subdirs /\ new.st = s /\ new.dir = task[t].dir
        BY <2>1, <2>2, <1>0 DEF Task, States
    <2> QED BY <1>0, <1>2, <2>1, <2>2, <2>3, OneTask DEF Stays
<1>3. CASE ReadsSome(t)
    <2>1. PICK entries \in SUBSET Children(task[t].dir), lost \in SUBSET Children(task[t].dir),
               s \in {"page", "send"} :
              /\ failed' = failed \cup lost /\ work' = work \cup Subdirs(entries)
              /\ Becomes(t, [task[t] EXCEPT !.got = task[t].got \cup Admitted(entries),
                                !.page = task[t].page + 1, !.st = s])
        BY <1>3 DEF ReadsSome
    <2>2. task[t].page + 1 \in Nat /\ task[t].got \cup Admitted(entries) \in SUBSET Files
        <3>1. Admitted(entries) \subseteq Files
            BY Sorted
        <3> QED BY <1>0, <3>1 DEF Task
    <2>3. PICK new : new = [task[t] EXCEPT !.got = task[t].got \cup Admitted(entries),
                                !.page = task[t].page + 1, !.st = s]
        OBVIOUS
    <2>4. new \in Task /\ new.subdirs = task[t].subdirs /\ new.st = s /\ new.dir = task[t].dir
        BY <2>1, <2>2, <2>3, <1>0 DEF Task, States
    <2>5. lost \subseteq Entries /\ Subdirs(entries) \subseteq Dirs
        BY Sorted, ChildrenAreEntries
    <2>6. task[t].st = "page"
        BY <1>3 DEF ReadsSome, At
    <2> QED BY <1>0, <2>1, <2>3, <2>4, <2>5, <2>6, OneTask
<1>4. CASE ReadsAll(t)
    <2>1. PICK entries \in SUBSET Children(task[t].dir), lost \in SUBSET Entries, has \in BOOLEAN :
              /\ failed' = failed \cup lost /\ work' = work
              /\ Becomes(t, [task[t] EXCEPT !.st = "out", !.has = has, !.got = Admitted(entries),
                            !.subdirs = Subdirs(entries)])
        BY <1>4 DEF ReadsAll
    <2>2. Admitted(entries) \in SUBSET Files /\ Subdirs(entries) \in SUBSET Dirs
          /\ Subdirs(entries) \subseteq Children(task[t].dir)
        BY Sorted
    <2>3. PICK new : new = [task[t] EXCEPT !.st = "out", !.has = has, !.got = Admitted(entries),
                            !.subdirs = Subdirs(entries)]
        OBVIOUS
    <2>4. new \in Task /\ new.subdirs = Subdirs(entries) /\ new.st = "out" /\ new.dir = task[t].dir
        BY <2>2, <2>3, <1>0 DEF Task, States
    <2>5. task' \in [Tasks -> Task] /\ task'[t] = new /\ \A u \in Tasks \ {t} : task'[u] = task[u]
        BY <1>0, <2>1, <2>3, <2>4, OneTask
    <2>6. work' \subseteq Dirs /\ failed' \subseteq Entries
        BY <1>0, <2>1
    <2> QED BY <2>2, <2>4, <2>5, <2>6
<1>5. CASE GivesUp(t)
    <2>1. PICK new : new = [task[t] EXCEPT !.st = "done"]
        OBVIOUS
    <2>2. new \in Task /\ new.subdirs = task[t].subdirs /\ new.st = "done" /\ new.dir = task[t].dir
        BY <2>1, <1>0 DEF Task, States
    <2>3. Becomes(t, new) /\ task[t].st # "out"
        BY <1>5, <2>1 DEF GivesUp
    <2>4. task[t].dir \in Entries
        BY <1>0 DEF Task, Entries
    <2> QED BY <1>0, <1>5, <2>2, <2>3, <2>4, OneTask DEF GivesUp
<1>6. CASE Idles(t)
    <2>1. Idle \in Task /\ Idle.subdirs = {} /\ Idle.st = "idle"
        BY TreeAssumption DEF Idle, Task, States
    <2>2. CASE Becomes(t, Idle)
        BY <1>0, <1>6, <2>1, <2>2, OneTask DEF Idles
    <2>3. CASE \E s \in {"empty", "idle", "gone"} : /\ Becomes(t, [task[t] EXCEPT !.st = s])
                                                   /\ task[t].st # "out" /\ UNCHANGED <<work, failed>>
        <3>1. PICK s \in {"empty", "idle", "gone"} : Becomes(t, [task[t] EXCEPT !.st = s])
            BY <2>3
        <3>2. PICK new : new = [task[t] EXCEPT !.st = s]
            OBVIOUS
        <3>3. new \in Task /\ new.subdirs = task[t].subdirs /\ new.st = s /\ new.dir = task[t].dir
            BY <3>2, <1>0 DEF Task, States
        <3> QED BY <1>0, <2>3, <3>1, <3>2, <3>3, OneTask
    <2> QED BY <1>6, <2>2, <2>3 DEF Idles, At
<1>7. CASE Joins(t)
    <2>1. Idle \in Task /\ Idle.subdirs = {} /\ Idle.st = "idle"
        BY TreeAssumption DEF Idle, Task, States
    <2> QED BY <1>0, <1>7, <2>1, OneTask DEF Joins
<1>8. CASE Send(t)
    <2>1. PICK new : new = [task[t] EXCEPT !.st = "done"]
        OBVIOUS
    <2>2. new \in Task /\ new.subdirs = task[t].subdirs /\ new.st = "done" /\ new.dir = task[t].dir
        BY <2>1, <1>0 DEF Task, States
    <2>3. Becomes(t, new) /\ task[t].st # "out" /\ UNCHANGED <<work, failed>>
        BY <1>8, <2>1 DEF Send, Becomes, Go, At
    <2> QED BY <1>0, <2>2, <2>3, OneTask
<1> QED BY <1>1, <1>2, <1>3, <1>4, <1>5, <1>6, <1>7, <1>8 DEF Moves

LEMMA ShapeStep == Shape /\ [Next]_vars => Shape'
<1> SUFFICES ASSUME Shape, [Next]_vars PROVE Shape'
    OBVIOUS
<1>0. /\ task \in [Tasks -> Task] /\ coord \in Result
      /\ chan \in Seq(Batch) /\ bridge \in Seq(Batch) /\ queue \in Seq(Batch)
      /\ written \subseteq Batch /\ dropped \subseteq Dirs
    BY DEF Shape
<1>1. ASSUME NEW t \in Tasks, Moves(t) PROVE Shape'
    <2>1. /\ task' \in [Tasks -> Task]
          /\ work' \subseteq Dirs /\ failed' \subseteq Entries
        BY <1>1, MoveTask
    <2>2. \A u \in Tasks : /\ task'[u].st \in {"taken", "attrs", "open", "query"} => task'[u].page = 0
                           /\ task'[u].st # "out" => task'[u].subdirs = {}
                           /\ task'[u].subdirs \subseteq Children(task'[u].dir)
        <3> SUFFICES ASSUME NEW u \in Tasks
                     PROVE  /\ task'[u].st \in {"taken", "attrs", "open", "query"} => task'[u].page = 0
                            /\ task'[u].st # "out" => task'[u].subdirs = {}
                            /\ task'[u].subdirs \subseteq Children(task'[u].dir)
            OBVIOUS
        <3>1. CASE u = t
            BY <1>1, <3>1, MoveTask
        <3>2. CASE u # t
            <4>1. task'[u] = task[u]
                BY <1>1, <3>2, MoveTask
            <4> QED BY <4>1 DEF Shape
        <3> QED BY <3>1, <3>2
    <2>3. CASE Send(t)
        <3>1. /\ UNCHANGED <<kind, filter, format, coord, bridge, queue, written, dropped, scanner, result, closed>>
              /\ chan' = Append(chan, [dir |-> task[t].dir, files |-> task[t].got])
            BY <2>3 DEF Send, config
        <3>2. [dir |-> task[t].dir, files |-> task[t].got] \in Batch
            BY <1>0 DEF Task, Batch
        <3>3. chan' \in Seq(Batch)
            BY <1>0, <3>1, <3>2, AppendProperties
        <3> QED BY <2>1, <2>2, <3>1, <3>3 DEF Shape
    <2>4. CASE Joins(t)
        <3>1. coord' \in Result /\ ~ coord'.none /\ kind = "smb" /\ coord'.children \subseteq Children(coord'.dir)
            BY <1>0, <2>4 DEF Joins, Task, Result, Shape
        <3>2. UNCHANGED <<kind, filter, format, scanner, pipe>>
            BY <2>4 DEF Joins, Steady
        <3> QED BY <2>1, <2>2, <3>1, <3>2 DEF Shape, pipe
    <2>5. CASE UNCHANGED <<kind, filter, format, scanner, pipe, coord>>
        BY <2>1, <2>2, <2>5 DEF Shape, pipe
    <2> QED BY <1>1, <2>3, <2>4, <2>5 DEF Moves, Picks, Stays, ReadsSome, ReadsAll, GivesUp, Idles, Steady
<1>2. CASE WindsUp
    <2>1. scanner' \in {"run", "ok", "err"} /\ result' \in {"run", "ok", "err"} /\ closed' \in BOOLEAN
        BY <1>2 DEF WindsUp, Shape
    <2>2. dropped' \subseteq Dirs
        <3>1. {queue[i].dir : i \in DOMAIN queue} \subseteq Dirs
            <4>1. \A i \in DOMAIN queue : queue[i] \in Batch
                BY <1>0, LenProperties
            <4> QED BY <4>1 DEF Batch
        <3> QED BY <1>0, <1>2, <3>1 DEF WindsUp
    <2>3. UNCHANGED <<kind, filter, format, work, task, coord, failed, chan, bridge, queue, written>>
        BY <1>2 DEF WindsUp
    <2> QED BY <2>1, <2>2, <2>3 DEF Shape
<1>3. CASE PassOn
    <2>1. /\ UNCHANGED <<kind, filter, format, task, scanner, failed, bridge, queue, closed, written, dropped, result>>
          /\ work' = work \cup coord.children /\ coord' = Nobody
          /\ chan' = chan \/ chan' = Append(chan, [dir |-> coord.dir, files |-> coord.files])
        BY <1>3 DEF PassOn, config
    <2>2. [dir |-> coord.dir, files |-> coord.files] \in Batch /\ coord.children \subseteq Dirs
        BY <1>0 DEF Result, Batch
    <2>3. chan' \in Seq(Batch)
        <3>1. Append(chan, [dir |-> coord.dir, files |-> coord.files]) \in Seq(Batch)
            BY <1>0, <2>2, AppendProperties
        <3> QED BY <1>0, <2>1, <3>1
    <2>4. Nobody \in Result /\ Nobody.children = {}
        BY TreeAssumption DEF Nobody, Result
    <2> QED BY <2>1, <2>2, <2>3, <2>4 DEF Shape
<1>4. CASE Receive
    <2>1. /\ UNCHANGED <<kind, filter, format, work, task, coord, failed, scanner, queue, closed, written, dropped, result>>
          /\ chan # <<>> /\ bridge' = <<Head(chan)>> /\ chan' = Tail(chan)
        BY <1>4 DEF Receive, Bridge, config, walk
    <2>2. Head(chan) \in Batch /\ chan' \in Seq(Batch)
        BY <1>0, <2>1, HeadTailProperties
    <2>3. bridge' \in Seq(Batch)
        BY <2>1, <2>2
    <2> QED BY <2>1, <2>2, <2>3 DEF Shape
<1>5. CASE Forward
    <2>1. /\ UNCHANGED <<kind, filter, format, work, task, coord, failed, scanner, chan, closed, written, dropped, result>>
          /\ queue' = queue \o bridge /\ bridge' = <<>>
        BY <1>5 DEF Forward, Bridge, config, walk
    <2>2. queue' \in Seq(Batch) /\ bridge' \in Seq(Batch)
        BY <1>0, <2>1, ConcatProperties, EmptySeq
    <2> QED BY <2>1, <2>2 DEF Shape
<1>6. ASSUME NEW w \in Writers, Write(w) PROVE Shape'
    <2>1. /\ UNCHANGED <<kind, filter, format, work, task, coord, failed, scanner, chan, bridge, closed, result>>
          /\ queue # <<>> /\ queue' = Tail(queue)
          /\ written' \subseteq written \cup {Head(queue)} /\ dropped' \subseteq dropped \cup {Head(queue).dir}
        BY <1>6 DEF Write, config, walk
    <2>2. Head(queue) \in Batch /\ Head(queue).dir \in Dirs /\ queue' \in Seq(Batch)
        <3>1. Head(queue) \in Batch /\ queue' \in Seq(Batch)
            BY <1>0, <2>1, HeadTailProperties
        <3> QED BY <3>1 DEF Batch
    <2>3. written' \subseteq Batch /\ dropped' \subseteq Dirs
        BY <1>0, <2>1, <2>2
    <2> QED BY <2>1, <2>2, <2>3 DEF Shape
<1> QED BY <1>1, <1>2, <1>3, <1>4, <1>5, <1>6, StepKinds
-----------------------------------------------------------------------------
(* The failure log.  What a step may do with it.                           *)
LogRests == UNCHANGED <<files, format, scanner, result>> /\ (closed' = closed \/ scanner # "run")
LogGrows == /\ scanner = "run" /\ UNCHANGED <<format, scanner, closed, result>>
            /\ \E p \in Entries : Record(p)
ScannerEnds == /\ scanner = "run" /\ UNCHANGED <<format, closed, result, pos, noted>>
               /\ log' = Close(log, pos) /\ scanner' # "run"
ScanEnds == /\ scanner # "run" /\ UNCHANGED <<format, scanner, closed, pos, noted>>
            /\ log' = Close(log, 1) /\ result' # "run"

LEMMA LogMoves ==
    ASSUME Shape, LogInv, [Next]_vars
    PROVE  LogRests \/ LogGrows \/ ScannerEnds \/ ScanEnds
<1>0. ASSUME NEW t \in Tasks
      PROVE  task[t].dir \in Entries /\ Children(task[t].dir) \subseteq Entries
    BY ChildrenAreEntries DEF Shape, Task, Entries
<1>1. ASSUME NEW t \in Tasks, NfsStep(t) \/ NfsPanic(t)
      PROVE  LogRests \/ LogGrows
    <2>1. UNCHANGED <<format, scanner, closed, result>> /\ scanner = "run"
        BY <1>1 DEF NfsStep, NfsPanic, Take, Count, GetAttrs, ReadPage, Send, Uncount, SeeEmpty, Exit, Nfs, config, pipe
    <2>2. UNCHANGED files \/ \E p \in Entries : Record(p)
        <3>1. CASE GetAttrs(t)
            BY <1>0, <3>1 DEF GetAttrs, Note
        <3>2. CASE ReadPage(t)
            BY <1>0, <3>2 DEF ReadPage, Note
        <3> QED BY <1>1, <3>1, <3>2 DEF NfsStep, NfsPanic, Take, Count, Send, Uncount, SeeEmpty, Exit, Fault
    <2> QED BY <2>1, <2>2 DEF LogRests, LogGrows
<1>2. ASSUME NEW t \in Tasks, SmbStep(t) \/ SmbPanic(t)
      PROVE  LogRests \/ LogGrows \/ ScannerEnds
    <2>1. UNCHANGED <<format, closed, result>> /\ scanner = "run"
        BY <1>2 DEF SmbStep, SmbPanic, Spawn, OpenDir, QueryDir, JoinNext, Smb, config, pipe
    <2>2. CASE Spawn(t) \/ SmbPanic(t)
        BY <2>1, <2>2 DEF Spawn, SmbPanic, LogRests
    <2>3. CASE OpenDir(t)
        <3>1. UNCHANGED scanner /\ (UNCHANGED files \/ \E p \in Entries : Record(p))
            BY <1>0, <2>3 DEF OpenDir, Note
        <3> QED BY <2>1, <3>1 DEF LogRests, LogGrows
    <2>4. CASE QueryDir(t)
        <3>1. UNCHANGED scanner /\ (UNCHANGED files \/ \E p \in Entries : Record(p))
            BY <1>0, <2>4 DEF QueryDir, Note
        <3> QED BY <2>1, <3>1 DEF LogRests, LogGrows
    <2>5. CASE JoinNext(t)
        BY <2>1, <2>5 DEF JoinNext, EndScanner, LogRests, ScannerEnds
    <2> QED BY <1>2, <2>2, <2>3, <2>4, <2>5 DEF SmbStep
<1>3. CASE JoinTasks
    <2>1. scanner = "run" /\ UNCHANGED <<format, closed, result>> /\ \E o \in {"ok", "err"} : EndScanner(o)
        BY <1>3 DEF JoinTasks, Nfs, config, pipe
    <2> QED BY <2>1 DEF EndScanner, ScannerEnds
<1>4. CASE CloseClient
    BY <1>4 DEF CloseClient, Smb, EndScanner, ScannerEnds, config, pipe
<1>5. CASE PassOn
    BY <1>5 DEF PassOn, LogRests, config
<1>6. CASE Receive \/ Forward
    BY <1>6 DEF Receive, Forward, Bridge, LogRests, config, walk
<1>7. CASE ScanEnded
    BY <1>7 DEF ScanEnded, Bridge, LogRests, ScanEnds, config, walk
<1>8. CASE Generate
    <2>1. scanner # "run"
        BY <1>8 DEF Generate, LogInv
    <2> QED BY <1>8, <2>1 DEF Generate, ScanEnds, config, walk
<1>9. CASE \E w \in Writers : Write(w) \/ EndWriter(w)
    BY <1>9 DEF Write, EndWriter, Bridge, LogRests, config, walk
<1>10. CASE UNCHANGED vars
    BY <1>10 DEF vars, LogRests, config, walk, pipe
<1>11. Next => Step \/ UNCHANGED vars
    BY DEF Next, Done
<1> QED BY <1>1, <1>2, <1>3, <1>4, <1>5, <1>6, <1>7, <1>8, <1>9, <1>10, <1>11 DEF Step

(* Writing in the log: at its end a place is added, before it one is torn. *)
LEMMA PutCell ==
    ASSUME NEW cells \in Seq(Cell), NEW n \in Nat, n <= Len(cells), NEW cell \in Cell
    PROVE  /\ Put(cells, n, cell) \in Seq(Cell) /\ Len(Put(cells, n, cell)) >= Len(cells)
           /\ n = Len(cells) => /\ Len(Put(cells, n, cell)) = Len(cells) + 1
                                /\ Put(cells, n, cell)[n + 1] = cell
           /\ \A i \in 1 .. Len(cells) : i # n + 1 => Put(cells, n, cell)[i] = cells[i]
<1>1. Len(cells) \in Nat
    BY LenProperties
<1>2. CASE n < Len(cells)
    <2>1. Put(cells, n, cell) = [cells EXCEPT ![n + 1] = <<"torn">>]
        BY <1>2 DEF Put
    <2>2. n + 1 \in 1 .. Len(cells) /\ <<"torn">> \in Cell
        BY <1>1, <1>2 DEF Cell
    <2>3. /\ [cells EXCEPT ![n + 1] = <<"torn">>] \in Seq(Cell)
          /\ Len([cells EXCEPT ![n + 1] = <<"torn">>]) = Len(cells)
          /\ \A i \in 1 .. Len(cells) : i # n + 1 => [cells EXCEPT ![n + 1] = <<"torn">>][i] = cells[i]
        BY <2>2, <1>1, ExceptSeq
    <2> DEFINE new == [cells EXCEPT ![n + 1] = <<"torn">>]
    <2>4. new \in Seq(Cell) /\ Len(new) >= Len(cells) /\ \A i \in 1 .. Len(cells) : i # n + 1 => new[i] = cells[i]
        BY <1>1, <2>3
    <2>5. n # Len(cells)
        BY <1>1, <1>2
    <2>6. Put(cells, n, cell) = new
        BY <2>1
    <2> HIDE DEF new
    <2> QED BY <2>4, <2>5, <2>6
<1>3. CASE n = Len(cells)
    <2>1. Put(cells, n, cell) = Append(cells, cell)
        BY <1>1, <1>3 DEF Put
    <2> QED BY <1>1, <1>3, <2>1, AppendProperties
<1> QED BY <1>1, <1>2, <1>3

LEMMA LogStep == Shape /\ LogInv /\ [Next]_vars => LogInv'
<1> SUFFICES ASSUME Shape, LogInv, [Next]_vars PROVE LogInv'
    OBVIOUS
<1>0. /\ log \in Seq(Cell) /\ noted \in Seq(Cell) /\ pos = Len(noted) + 1 /\ Len(log) >= pos
      /\ format \in Formats /\ Len(noted) \in Nat /\ Len(log) \in Nat
      /\ scanner = "run" => Len(log) = pos
      /\ closed => scanner # "run"
    BY LenProperties DEF LogInv
<1>1. CASE LogRests
    BY <1>1 DEF LogRests, LogInv, files
<1>2. CASE LogGrows
    <2>1. PICK p \in Entries : Record(p)
        BY <1>2 DEF LogGrows
    <2>2. <<"failed", p>> \in Cell
        BY DEF Cell
    <2>3. log' = Put(log, pos, <<"failed", p>>) /\ noted' = Append(noted, <<"failed", p>>) /\ pos' = pos + 1
        BY <2>1 DEF Record
    <2>4. pos = Len(log) /\ pos \in Nat /\ pos <= Len(log)
        BY <1>0, <1>2 DEF LogGrows
    <2>5. /\ log' \in Seq(Cell) /\ Len(log') = Len(log) + 1 /\ log'[pos + 1] = <<"failed", p>>
          /\ \A i \in 1 .. Len(log) : log'[i] = log[i]
        <3> DEFINE new == Put(log, pos, <<"failed", p>>)
        <3>1. /\ new \in Seq(Cell)
              /\ pos = Len(log) => Len(new) = Len(log) + 1 /\ new[pos + 1] = <<"failed", p>>
              /\ \A i \in 1 .. Len(log) : i # pos + 1 => new[i] = log[i]
            BY <1>0, <2>2, <2>4, PutCell
        <3>2. \A i \in 1 .. Len(log) : i # pos + 1
            BY <1>0, <2>4
        <3> HIDE DEF new
        <3>3. log' = new
            BY <2>3 DEF new
        <3> QED BY <2>4, <3>1, <3>2, <3>3
    <2>6. /\ noted' \in Seq(Cell) /\ Len(noted') = Len(noted) + 1 /\ noted'[Len(noted) + 1] = <<"failed", p>>
          /\ \A i \in 1 .. Len(noted) : noted'[i] = noted[i]
        BY <1>0, <2>2, <2>3, AppendProperties
    <2>7. ASSUME NEW i \in 1 .. Len(noted')
          PROVE  log'[i + 1] = noted'[i] \/ (i = 1 /\ format # "csv" /\ result # "run")
        <3>1. CASE i = Len(noted) + 1
            BY <1>0, <2>5, <2>6, <3>1
        <3>2. CASE i \in 1 .. Len(noted)
            <4>1. i + 1 \in 1 .. Len(log)
                BY <1>0, <3>2
            <4> QED BY <2>5, <2>6, <3>2, <4>1 DEF LogInv
        <3> QED BY <1>0, <2>6, <3>1, <3>2
    <2>8. /\ pos' = Len(noted') + 1 /\ Len(log') = pos'
          /\ format' = format /\ scanner' = scanner /\ closed' = closed /\ result' = result
        BY <1>0, <1>2, <2>3, <2>4, <2>5, <2>6 DEF LogGrows
    <2>9. Len(log') >= pos'
        BY <1>0, <2>5, <2>8
    <2> QED BY <1>0, <2>5, <2>6, <2>7, <2>8, <2>9 DEF LogInv
<1>3. CASE ScannerEnds
    <2>1. pos = Len(log) /\ pos \in Nat /\ <<"end">> \in Cell
        BY <1>0, <1>3 DEF ScannerEnds, Cell
    <2>2. log' = Put(log, pos, <<"end">>) \/ log' = log
        BY <1>3 DEF ScannerEnds, Close
    <2>3. /\ log' \in Seq(Cell) /\ Len(log') >= Len(log)
          /\ \A i \in 1 .. Len(log) : log'[i] = log[i]
        <3> DEFINE new == Put(log, pos, <<"end">>)
        <3>1. /\ new \in Seq(Cell) /\ Len(new) >= Len(log)
              /\ \A i \in 1 .. Len(log) : i # pos + 1 => new[i] = log[i]
            BY <1>0, <2>1, PutCell
        <3>2. \A i \in 1 .. Len(log) : i # pos + 1
            BY <1>0, <2>1
        <3> HIDE DEF new
        <3>3. log' = new \/ log' = log
            BY <2>2 DEF new
        <3> QED BY <1>0, <3>1, <3>2, <3>3
    <2>4. Len(log') \in Nat
        BY <2>3, LenProperties
    <2>5. ASSUME NEW i \in 1 .. Len(noted)
          PROVE  log'[i + 1] = noted[i] \/ (i = 1 /\ format # "csv" /\ result # "run")
        <3>1. i + 1 \in 1 .. Len(log)
            BY <1>0
        <3> QED BY <2>3, <3>1 DEF LogInv
    <2> QED BY <1>0, <1>3, <2>3, <2>4, <2>5 DEF LogInv, ScannerEnds
<1>4. CASE ScanEnds
    <2>1. 1 \in Nat /\ 1 <= Len(log) /\ <<"end">> \in Cell
        BY <1>0 DEF Cell
    <2>2. log' = IF format \in Footers THEN Put(log, 1, <<"end">>) ELSE log
        BY <1>4 DEF ScanEnds, Close
    <2>3. /\ log' \in Seq(Cell) /\ Len(log') >= Len(log)
          /\ \A i \in 1 .. Len(log) : i # 2 \/ format = "csv" => log'[i] = log[i]
        <3> DEFINE new == Put(log, 1, <<"end">>)
        <3>1. /\ new \in Seq(Cell) /\ Len(new) >= Len(log)
              /\ \A i \in 1 .. Len(log) : i # 1 + 1 => new[i] = log[i]
            BY <1>0, <2>1, PutCell
        <3> HIDE DEF new
        <3>2. IF format = "json" THEN log' = new ELSE log' = log
            BY <2>2 DEF new, Footers
        <3> QED BY <1>0, <3>1, <3>2
    <2>4. Len(log') \in Nat
        BY <2>3, LenProperties
    <2>5. ASSUME NEW i \in 1 .. Len(noted)
          PROVE  log'[i + 1] = noted[i] \/ (i = 1 /\ format # "csv")
        <3>1. i + 1 \in 1 .. Len(log) /\ (i + 1 # 2 \/ i = 1)
            BY <1>0
        <3> QED BY <2>3, <3>1 DEF LogInv
    <2> QED BY <1>0, <1>4, <2>3, <2>4, <2>5 DEF LogInv, ScanEnds
<1> QED BY <1>1, <1>2, <1>3, <1>4, LogMoves

LEMMA LogInit == Init => LogInv
<1> SUFFICES ASSUME Init PROVE LogInv
    OBVIOUS
<1>1. << <<"begin">> >> \in Seq(Cell) /\ Len(<< <<"begin">> >>) = 1 /\ <<>> \in Seq(Cell) /\ Len(<<>>) = 0
    BY DEF Cell
<1> QED BY <1>1 DEF Init, LogInv
-----------------------------------------------------------------------------
(* Where the directories are.                                              *)
LEMMA SpotsAreDirs == Shape => Spots \subseteq Dirs
<1> SUFFICES ASSUME Shape, NEW x \in Spots PROVE x \in Dirs
    OBVIOUS
<1>0. /\ task \in [Tasks -> Task] /\ coord \in Result
      /\ chan \in Seq(Batch) /\ bridge \in Seq(Batch) /\ queue \in Seq(Batch)
      /\ written \subseteq Batch /\ work \subseteq Dirs
    BY DEF Shape
<1>1. Line \in Seq(Batch)
    BY <1>0, ConcatProperties DEF Line
<1>2. \A i \in 1 .. Len(Line) : Line[i] \in Batch
    BY <1>1, LenProperties
<1>3. LineDirs \subseteq Dirs
    BY <1>2 DEF LineDirs, DirsOf, Batch
<1>4. WrittenDirs \subseteq Dirs /\ CoordDirs \subseteq Dirs
    BY <1>0 DEF WrittenDirs, CoordDirs, Batch, Result
<1>5. Waiting \subseteq Dirs
    <2>1. \A t \in Tasks : task[t].subdirs \subseteq Dirs
        BY <1>0 DEF Task
    <2> QED BY <1>0, <2>1 DEF Waiting, Kids, Result
<1>6. Held \subseteq Dirs
    BY <1>0 DEF Held, Task
<1> QED BY <1>3, <1>4, <1>5, <1>6 DEF Spots, Listed

(* A step that takes the children N of a directory d from what is unread.  *)
LEMMA OrderKeeps ==
    ASSUME Shape, Order, NEW d \in Dirs, NEW N \in SUBSET Children(d),
           d \in Spots \/ N = {},
           N \subseteq Dirs,
           Spots' \subseteq Spots \cup N,
           \A a \in Dirs : \A c \in Children(a) : Unread(a, c)' => Unread(a, c) \/ a \in N,
           \A c \in N : Unread(d, c) /\ ~ Unread(d, c)' /\ ~ Skip(c),
           kind' = kind
    PROVE  Order' /\ N \cap Spots = {}
<1>0. Spots \subseteq Dirs
    BY SpotsAreDirs
<1>1. ASSUME NEW p \in Spots, NEW n \in 0 .. Len(p) - 1, Pre(p, n) \in N \/ (n > 0 /\ Pre(p, n) \in N)
      PROVE  FALSE
    <2> DEFINE a == Pre(p, n)
    <2>1. p \in Entries /\ Len(p) \in Nat /\ n \in 0 .. Len(p)
        BY <1>0, PathPrefixes DEF Entries
    <2>2. Len(a) = n
        BY <2>1, PathPrefixes
    <2>3. Len(a) = Len(d) + 1 /\ Len(d) \in Nat /\ Pre(a, Len(d)) = d /\ Unread(d, a)
        BY <1>1, ChildPath
    <2>4. Pre(p, Len(d)) = d
        BY <2>1, <2>2, <2>3, PathPrefixes
    <2>5. Len(d) \in 0 .. Len(p) - 1 /\ Pre(p, Len(d) + 1) = a
        BY <2>1, <2>2, <2>3
    <2> QED BY <2>3, <2>4, <2>5 DEF Order
<1>2. N \cap Spots = {}
    <2> SUFFICES ASSUME NEW p \in N, p \in Spots PROVE FALSE
        OBVIOUS
    <2>1. Len(p) = Len(d) + 1 /\ Len(d) \in Nat /\ Pre(p, Len(d)) = d /\ Pre(p, Len(d) + 1) = p /\ Unread(d, p)
        BY ChildPath
    <2>2. Len(d) \in 0 .. Len(p) - 1
        BY <2>1
    <2> QED BY <2>1, <2>2 DEF Order
<1>3. ASSUME NEW p \in Spots', NEW n \in 0 .. Len(p) - 1
      PROVE  ~ Unread(Pre(p, n), Pre(p, n + 1))'
    <2>0. Pre(p, n) \in Dirs /\ Pre(p, n + 1) \in Children(Pre(p, n))
        BY <1>0, StepDown DEF Entries
    <2>1. CASE p \in Spots
        BY <1>1, <2>0, <2>1 DEF Order
    <2>2. CASE p \in N
        <3>1. Len(p) = Len(d) + 1 /\ Len(d) \in Nat /\ Pre(p, Len(d)) = d /\ Pre(p, Len(d) + 1) = p /\ p \in Entries
            BY <2>2, ChildPath
        <3>2. CASE n = Len(d)
            BY <2>2, <3>1, <3>2
        <3>3. CASE n # Len(d)
            <4>1. n \in 0 .. Len(d) - 1 /\ n \in 0 .. Len(d) /\ n + 1 \in 0 .. Len(d) /\ Len(d) \in 0 .. Len(p)
                BY <3>1, <3>3
            <4>2. Pre(p, n) = Pre(d, n) /\ Pre(p, n + 1) = Pre(d, n + 1)
                BY <3>1, <4>1, PathPrefixes
            <4>3. d \in Entries /\ Len(Pre(d, n)) = n
                BY <4>1, PathPrefixes DEF Entries
            <4>4. Pre(d, n) \notin N
                <5> SUFFICES ASSUME Pre(d, n) \in N PROVE FALSE
                    OBVIOUS
                <5>1. Len(Pre(d, n)) = Len(d) + 1
                    BY ChildPath
                <5> QED BY <3>1, <4>1, <4>3, <5>1
            <4>5. ~ Unread(Pre(d, n), Pre(d, n + 1))
                BY <2>2, <4>1 DEF Order
            <4> QED BY <2>0, <4>2, <4>4, <4>5
        <3> QED BY <3>2, <3>3
    <2> QED BY <2>1, <2>2
<1>4. ASSUME NEW p \in Spots' PROVE ~ Skipped(p)'
    <2>1. \A x : Skip(x)' <=> Skip(x)
        BY DEF Skip
    <2>2. Skipped(p)' <=> Skipped(p)
        BY <2>1 DEF Skipped
    <2>3. CASE p \in Spots
        BY <2>2, <2>3 DEF Order
    <2>4. CASE p \in N
        <3> SUFFICES ASSUME NEW n \in 0 .. Len(p) PROVE ~ Skip(Pre(p, n))
            BY <2>2 DEF Skipped, Above, Pre
        <3>1. /\ Len(p) = Len(d) + 1 /\ Len(d) \in Nat /\ Pre(p, Len(d)) = d /\ Pre(p, Len(d) + 1) = p
              /\ p \in Entries /\ ~ Skip(p) /\ d \in Spots
            BY <2>4, ChildPath
        <3>2. CASE n = Len(d) + 1
            BY <3>1, <3>2
        <3>3. CASE n # Len(d) + 1
            <4>1. n \in 0 .. Len(d) /\ Len(d) \in 0 .. Len(p)
                BY <3>1, <3>3
            <4>2. Pre(p, n) = Pre(d, n)
                BY <3>1, <4>1, PathPrefixes
            <4>3. ~ Skip(Pre(d, n))
                BY <3>1, <4>1 DEF Order, Skipped, Above, Pre
            <4> QED BY <4>2, <4>3
        <3> QED BY <3>2, <3>3
    <2> QED BY <2>3, <2>4
<1> QED BY <1>2, <1>3, <1>4 DEF Order

(* A step that loses no directory that has to be found.                    *)
LEMMA FoundKeeps ==
    ASSUME Shape, Found,
           \A x \in Dirs : Excused(x) => Excused(x)',
           \A x \in Spots : x \in Spots' \/ Excused(x)',
           \A a \in Dirs : \A c \in Children(a) : Unread(a, c) =>
               Unread(a, c)' \/ c \in Waiting' \/ Excused(a)' \/ (c \in Dirs => Excused(c)')
    PROVE  Found'
<1> SUFFICES ASSUME NEW x \in Dirs, Wanted(x)'
             PROVE  x \in Spots' \/ \E n \in 0 .. Len(x) - 1 : Unread(Pre(x, n), Pre(x, n + 1))'
    BY DEF Found
<1>1. x \in Entries /\ Len(x) \in Nat /\ Pre(x, Len(x)) = x
    <2>1. x \in Seq(ToSet(x)) /\ Len(x) \in Nat
        BY TreeAssumption, LenProperties DEF Entries
    <2>2. Len(x) \in 0 .. Len(x)
        BY <2>1
    <2> QED BY <2>1, <2>2, PathPrefixes DEF Entries
<1>2. \A n \in 0 .. Len(x) : Pre(x, n) \in Dirs
    <2> SUFFICES ASSUME NEW n \in 0 .. Len(x) PROVE Pre(x, n) \in Dirs
        OBVIOUS
    <2>1. CASE n = Len(x)
        BY <1>1, <2>1
    <2>2. CASE n < Len(x)
        BY <1>1, <2>2, PathPrefixes
    <2> QED BY <1>1, <2>1, <2>2
<1>3. \A n \in 0 .. Len(x) : ~ Excused(Pre(x, n))' /\ ~ Excused(Pre(x, n))
    BY <1>2 DEF Wanted
<1>4. Wanted(x)
    BY <1>3 DEF Wanted
<1>5. CASE x \in Spots
    <2>1. Len(x) \in 0 .. Len(x)
        BY <1>1
    <2> QED BY <1>1, <1>3, <1>5, <2>1
<1>6. ASSUME NEW n \in 0 .. Len(x) - 1, Unread(Pre(x, n), Pre(x, n + 1))
      PROVE  x \in Spots' \/ \E m \in 0 .. Len(x) - 1 : Unread(Pre(x, m), Pre(x, m + 1))'
    <2>1. n \in 0 .. Len(x) /\ n + 1 \in 0 .. Len(x)
        BY <1>1
    <2>2. Pre(x, n) \in Dirs /\ Pre(x, n + 1) \in Children(Pre(x, n)) /\ Pre(x, n + 1) \in Dirs
        BY <1>1, <1>2, <2>1, StepDown
    <2>3. CASE Unread(Pre(x, n), Pre(x, n + 1))'
        BY <2>3
    <2>4. CASE Pre(x, n + 1) \in Waiting'
        <3>1. CASE n + 1 = Len(x)
            BY <1>1, <2>4, <3>1 DEF Spots
        <3>2. CASE n + 1 # Len(x)
            <4>1. n + 1 \in 0 .. Len(x) - 1
                BY <1>1, <2>1, <3>2
            <4>2. Unread(Pre(x, n + 1), Pre(x, n + 1 + 1))'
                BY <2>4 DEF Unread
            <4> QED BY <4>1, <4>2
        <3> QED BY <3>1, <3>2
    <2> QED BY <1>3, <1>6, <2>1, <2>2, <2>3, <2>4
<1> QED BY <1>4, <1>5, <1>6 DEF Found

(* A step that leaves no task with a directory it did not have, and sends  *)
(* nothing on.                                                             *)
LEMMA ApartKeeps ==
    ASSUME Apart, UNCHANGED <<coord, pipe>>,
           \A u \in Tasks : Holding(u)' => Holding(u) /\ task'[u].dir = task[u].dir,
           NEW N, N \cap Spots = {}, work' \subseteq work \cup N, Kids' \subseteq Kids \cup N,
           work' \subseteq work \/ Kids' \subseteq Kids
    PROVE  Apart'
<1>1. UNCHANGED <<Line, LineDirs, WrittenDirs, CoordDirs, Listed, stored>>
    BY DEF pipe, Line, LineDirs, WrittenDirs, CoordDirs, Listed
<1>2. Waiting' \subseteq Waiting \cup N
    BY DEF Waiting
<1>3. \A u \in Tasks : Holding(u) => task[u].dir \in Spots
    BY DEF Spots, Held
<1>4. \A t \in Tasks : Holding(t)' => task'[t].dir \notin Waiting' \cup Listed'
    BY <1>1, <1>2, <1>3 DEF Apart
<1>5. \A t, u \in Tasks : Holding(t)' /\ Holding(u)' /\ t # u => task'[t].dir # task'[u].dir
    BY DEF Apart
<1>6. work' \cap Kids' = {} /\ Waiting' \cap Listed' = {}
    <2>1. (N \cap work) = {} /\ (N \cap Kids) = {} /\ N \cap Listed = {}
        BY DEF Spots, Waiting
    <2> QED BY <1>1, <1>2, <2>1 DEF Apart
<1>7. /\ CoordDirs' \cap (LineDirs' \cup WrittenDirs') = {} /\ LineDirs' \cap WrittenDirs' = {}
      /\ Once(Line)'
      /\ IsFiniteSet(WrittenDirs') /\ stored' = Cardinality(WrittenDirs')
    BY <1>1 DEF Apart
<1> QED BY <1>4, <1>5, <1>6, <1>7 DEF Apart
-----------------------------------------------------------------------------
(* The scanner moves.  Filters do not change, and failures add up.         *)
LEMMA ExcusedStays ==
    ASSUME UNCHANGED <<kind, filter>>, failed \subseteq failed', dropped \subseteq dropped'
    PROVE  /\ \A x : Excused(x) => Excused(x)'
           /\ \A x : x \in failed' \/ ~ Descend(x) \/ Skip(x) => Excused(x)'
BY DEF Excused, Descend, Skip, ExcludedDir, HasIncludes, IncludedSubtree

(* Only one task changes what it holds or reads.                           *)
LEMMA OthersHold ==
    ASSUME NEW t \in Tasks, \A u \in Tasks \ {t} : task'[u] = task[u]
    PROVE  \A u \in Tasks \ {t} : /\ Holding(u)' <=> Holding(u)
                                  /\ Reading(u)' <=> Reading(u)
BY DEF Holding, Reading

Place == Apart /\ Order /\ Found

LEMMA PicksPlace ==
    ASSUME Shape, Place, NEW t \in Tasks, Picks(t)
    PROVE  Place'
<1>1. PICK d \in work, s \in {"taken", "open"} :
           work' = work \ {d} /\ Becomes(t, [Idle EXCEPT !.st = s, !.dir = d])
    BY DEF Picks
<1>2. /\ task \in [Tasks -> Task] /\ task[t].st = "idle" /\ d \in Dirs /\ d \in Waiting /\ d \in work
      /\ task[t].subdirs = {} /\ UNCHANGED <<kind, filter, coord, failed, pipe>>
    BY <1>1 DEF Shape, Picks, At, Waiting, Steady
<1>3. /\ \A u \in Tasks \ {t} : task'[u] = task[u]
      /\ task'[t].st \in {"taken", "open"} /\ task'[t].dir = d /\ task'[t].page = 0 /\ task'[t].subdirs = {}
    BY <1>1, <1>2 DEF Becomes, Idle
<1>4. Kids' = Kids
    <2>1. \A u \in Tasks : task'[u].subdirs = task[u].subdirs
        BY <1>2, <1>3
    <2> QED BY <1>2, <2>1 DEF Kids
<1>5. UNCHANGED <<Line, LineDirs, WrittenDirs, CoordDirs, Listed, stored>>
    BY <1>2 DEF pipe, Line, LineDirs, WrittenDirs, CoordDirs, Listed
<1>6. Holding(t)' /\ Reading(t)' /\ ~ Holding(t) /\ ~ Reading(t)
    BY <1>2, <1>3 DEF Holding, Reading
<1>7. \A u \in Tasks : u # t => (Holding(u)' <=> Holding(u)) /\ (Reading(u)' <=> Reading(u))
    BY <1>3, OthersHold
<1>8. d \notin Waiting' /\ Waiting' \subseteq Waiting /\ Waiting \subseteq Waiting' \cup {d}
    BY <1>1, <1>2, <1>4 DEF Waiting, Place, Apart
<1>9. Apart'
    <2>1. \A u \in Tasks : Holding(u)' => task'[u].dir \notin Waiting' \cup Listed'
        BY <1>2, <1>3, <1>5, <1>6, <1>7, <1>8 DEF Place, Apart
    <2>2. \A u, v \in Tasks : Holding(u)' /\ Holding(v)' /\ u # v => task'[u].dir # task'[v].dir
        <3>1. \A u \in Tasks : u # t /\ Holding(u)' => task'[u].dir # d
            BY <1>2, <1>3, <1>7 DEF Place, Apart
        <3> QED BY <1>3, <1>6, <1>7, <3>1 DEF Place, Apart
    <2>3. work' \cap Kids' = {} /\ Waiting' \cap Listed' = {}
        BY <1>1, <1>4, <1>5, <1>8 DEF Place, Apart
    <2>4. /\ CoordDirs' \cap (LineDirs' \cup WrittenDirs') = {} /\ LineDirs' \cap WrittenDirs' = {}
          /\ Once(Line)'
          /\ IsFiniteSet(WrittenDirs') /\ stored' = Cardinality(WrittenDirs')
        BY <1>5 DEF Place, Apart
    <2> QED BY <2>1, <2>2, <2>3, <2>4 DEF Apart
<1>10. Spots' \subseteq Spots /\ Spots \subseteq Spots'
    <2>1. Held \subseteq Held' /\ d \in Held'
        BY <1>3, <1>6, <1>7 DEF Held
    <2>2. Held' \subseteq Held \cup {d}
        BY <1>3, <1>6, <1>7 DEF Held
    <2> QED BY <1>2, <1>5, <1>8, <2>1, <2>2 DEF Spots
<1>11. \A a \in Dirs : \A c \in Children(a) : Unread(a, c)' <=> Unread(a, c)
    <2> SUFFICES ASSUME NEW a \in Dirs, NEW c \in Children(a) PROVE Unread(a, c)' <=> Unread(a, c)
        OBVIOUS
    <2>1. PageOf[c] >= 0
        BY ChildPath
    <2>2. CASE a = d
        <3>1. Unread(a, c)
            BY <1>2, <2>2 DEF Unread
        <3>2. Unread(a, c)'
            BY <1>3, <1>6, <2>1, <2>2 DEF Unread
        <3> QED BY <3>1, <3>2
    <2>3. CASE a # d
        BY <1>3, <1>6, <1>7, <1>8, <2>3 DEF Unread
    <2> QED BY <2>2, <2>3
<1>12. Order'
    <2>1. {} \in SUBSET Children(d) /\ {} \subseteq Dirs /\ Spots' \subseteq Spots \cup {}
        BY <1>10
    <2> QED BY <1>2, <1>11, <2>1, OrderKeeps DEF Place
<1>13. Found'
    <2>1. \A x : Excused(x) => Excused(x)'
        BY <1>2, ExcusedStays DEF pipe
    <2> QED BY <1>10, <1>11, <2>1, FoundKeeps DEF Place
<1> QED BY <1>9, <1>12, <1>13 DEF Place

LEMMA StaysPlace ==
    ASSUME Shape, Place, NEW t \in Tasks, Stays(t)
    PROVE  Place'
<1>1. /\ task \in [Tasks -> Task] /\ UNCHANGED <<kind, filter, coord, failed, pipe, work>>
      /\ task[t] \in Task
    BY DEF Shape, Stays, Steady
<1>2. /\ \A u \in Tasks \ {t} : task'[u] = task[u]
      /\ task'[t].dir = task[t].dir /\ task'[t].subdirs = task[t].subdirs
      /\ task[t].st \in {"taken", "attrs", "page", "open", "query"}
      /\ task'[t].st \in {"attrs", "query", "panicked", "page"}
      /\ task'[t].page = task[t].page \/ (task[t].page = 0 /\ task'[t].page = 1)
    <2>1. CASE Becomes(t, [task[t] EXCEPT !.st = "panicked"])
        <3>1. task'[t] = [task[t] EXCEPT !.st = "panicked"] /\ \A u \in Tasks \ {t} : task'[u] = task[u]
            BY <1>1, <2>1 DEF Becomes
        <3> QED BY <1>1, <3>1 DEF Stays, Task
    <2>2. ASSUME NEW s \in {"attrs", "query"}, Becomes(t, [task[t] EXCEPT !.st = s])
          PROVE  /\ \A u \in Tasks \ {t} : task'[u] = task[u]
                 /\ task'[t].dir = task[t].dir /\ task'[t].subdirs = task[t].subdirs
                 /\ task'[t].st = s /\ task'[t].page = task[t].page
        BY <1>1, <2>2 DEF Becomes, Task
    <2>3. CASE At(t, "attrs") /\ Becomes(t, [task[t] EXCEPT !.st = "page", !.page = 1])
        <3>1. task[t].page = 0
            BY <2>3 DEF Shape, At
        <3> QED BY <1>1, <2>3, <3>1 DEF Becomes, Task, At
    <2>4. task[t].st \in {"taken", "attrs", "page", "open", "query"}
        BY DEF Stays
    <2>5. CASE \E s \in {"attrs", "query"} : Becomes(t, [task[t] EXCEPT !.st = s])
        BY <2>2, <2>4, <2>5
    <2> QED BY <2>1, <2>3, <2>5 DEF Stays
<1>3. \A u \in Tasks : task'[u].dir = task[u].dir /\ task'[u].subdirs = task[u].subdirs
    BY <1>2
<1>4. \A u \in Tasks : (Holding(u)' <=> Holding(u)) /\ (Reading(u)' <=> Reading(u))
    <2>1. Holding(t) /\ Holding(t)' /\ Reading(t) /\ Reading(t)'
        BY <1>2 DEF Holding, Reading
    <2> QED BY <1>2, <2>1, OthersHold
<1>5. Kids' = Kids /\ Waiting' = Waiting
    BY <1>1, <1>3 DEF Kids, Waiting
<1>6. Spots' = Spots
    <2>1. Held' = Held
        BY <1>3, <1>4 DEF Held
    <2>2. Listed' = Listed
        BY <1>1 DEF pipe, Line, LineDirs, WrittenDirs, CoordDirs, Listed
    <2> QED BY <1>5, <2>1, <2>2 DEF Spots
<1>7. \A a \in Dirs : \A c \in Children(a) : Unread(a, c)' <=> Unread(a, c)
    <2> SUFFICES ASSUME NEW a \in Dirs, NEW c \in Children(a) PROVE Unread(a, c)' <=> Unread(a, c)
        OBVIOUS
    <2>1. PageOf[c] >= 1 /\ PageOf[c] \in Nat
        BY ChildPath
    <2>2. \A u \in Tasks : task'[u].page <= PageOf[c] <=> task[u].page <= PageOf[c]
        BY <1>2, <2>1
    <2> QED BY <1>3, <1>4, <1>5, <2>2 DEF Unread
<1>8. Apart'
    <2>1. {} \cap Spots = {} /\ work' \subseteq work \cup {} /\ Kids' \subseteq Kids \cup {} /\ work' \subseteq work
        BY <1>1, <1>5
    <2> QED BY <1>1, <1>3, <1>4, <2>1, ApartKeeps DEF Place
<1>9. Order'
    <2>1. <<>> \in Dirs /\ {} \in SUBSET Children(<<>>) /\ {} \subseteq Dirs /\ Spots' \subseteq Spots \cup {}
        BY <1>6, TreeAssumption
    <2> QED BY <1>1, <1>7, <2>1, OrderKeeps DEF Place
<1>10. Found'
    <2>1. \A x : Excused(x) => Excused(x)'
        BY <1>1, ExcusedStays DEF pipe
    <2> QED BY <1>6, <1>7, <2>1, FoundKeeps DEF Place
<1> QED BY <1>8, <1>9, <1>10 DEF Place

(* An NFS task that reads a page, and an SMB task that reads everything.   *)
LEMMA ReadsPlace ==
    ASSUME Shape, Place, NEW t \in Tasks, ReadsSome(t) \/ ReadsAll(t)
    PROVE  Place'
<1>1. /\ task \in [Tasks -> Task] /\ UNCHANGED <<kind, filter, coord, pipe>>
      /\ task[t] \in Task /\ Reading(t) /\ Holding(t)
      /\ failed \subseteq failed' /\ dropped' = dropped
    BY DEF Shape, ReadsSome, ReadsAll, Steady, At, Reading, Holding, pipe
<1>2. PICK d \in Dirs : d = task[t].dir
    BY <1>1 DEF Task
<1>3. PICK N, E \in SUBSET Children(d) :
          /\ N = Subdirs(E)
          /\ (work' = work \cup N /\ Kids' = Kids) \/ (work' = work /\ Kids' = Kids \cup N)
          /\ \A u \in Tasks \ {t} : task'[u] = task[u]
          /\ task'[t].dir = d /\ Holding(t)'
          /\ \A c \in E : task[t].page <= PageOf[c] /\ ~ (Reading(t)' /\ task'[t].page <= PageOf[c])
          /\ \A c \in Children(d) : /\ Reading(t)' /\ task'[t].page <= PageOf[c] => task[t].page <= PageOf[c]
                                    /\ task[t].page <= PageOf[c] =>
                                          \/ Reading(t)' /\ task'[t].page <= PageOf[c]
                                          \/ c \in E \/ c \in failed' \/ d \in failed' \/ ~ Descend(d)
    <2>1. CASE ReadsSome(t)
        <3> DEFINE P == {p \in Children(d) : PageOf[p] = task[t].page}
        <3>1. PICK entries \in SUBSET Children(d), lost \in SUBSET Children(d), s \in {"page", "send"} :
                  /\ entries \cup lost = P
                  /\ failed' = failed \cup lost /\ work' = work \cup Subdirs(entries)
                  /\ s = IF \E p \in Children(d) : PageOf[p] > task[t].page THEN "page" ELSE "send"
                  /\ Becomes(t, [task[t] EXCEPT !.got = task[t].got \cup Admitted(entries),
                                    !.page = task[t].page + 1, !.st = s])
            BY <1>2, <2>1 DEF ReadsSome
        <3>2. /\ \A u \in Tasks \ {t} : task'[u] = task[u]
              /\ task'[t].dir = d /\ task'[t].page = task[t].page + 1 /\ task'[t].st = s
              /\ task'[t].subdirs = task[t].subdirs
            BY <1>1, <1>2, <3>1 DEF Becomes, Task
        <3>3. Kids' = Kids
            <4>1. \A u \in Tasks : task'[u].subdirs = task[u].subdirs
                BY <3>2
            <4> QED BY <1>1, <4>1 DEF Kids
        <3>4. Holding(t)' /\ (Reading(t)' <=> s = "page")
            BY <3>2 DEF Holding, Reading
        <3>5. task[t].page \in Nat
            BY <1>1 DEF Task
        <3>6. \A c \in entries : task[t].page <= PageOf[c] /\ ~ task'[t].page <= PageOf[c]
            BY <3>1, <3>2, <3>5
        <3>7. ASSUME NEW c \in Children(d)
              PROVE  /\ task'[t].page <= PageOf[c] => task[t].page <= PageOf[c]
                     /\ task[t].page <= PageOf[c] =>
                           (s = "page" /\ task'[t].page <= PageOf[c]) \/ c \in entries \/ c \in failed'
            <4>1. PageOf[c] \in Nat
                BY ChildPath
            <4>2. task'[t].page <= PageOf[c] => task[t].page <= PageOf[c]
                BY <3>2, <3>5, <4>1
            <4>3. CASE PageOf[c] = task[t].page
                <5>1. c \in P
                    BY <4>3
                <5>2. c \in entries \/ c \in failed'
                    BY <3>1, <5>1
                <5> QED BY <4>2, <5>2
            <4>4. CASE PageOf[c] > task[t].page
                BY <3>1, <3>2, <3>5, <4>1, <4>2, <4>4
            <4>5. CASE PageOf[c] < task[t].page
                BY <3>5, <4>1, <4>2, <4>5
            <4> QED BY <3>5, <4>1, <4>3, <4>4, <4>5
        <3>8. Subdirs(entries) \in SUBSET Children(d)
            BY Sorted
        <3>9. \A c \in Children(d) :
                  /\ Reading(t)' /\ task'[t].page <= PageOf[c] => task[t].page <= PageOf[c]
                  /\ task[t].page <= PageOf[c] =>
                        \/ Reading(t)' /\ task'[t].page <= PageOf[c]
                        \/ c \in entries \/ c \in failed' \/ d \in failed' \/ ~ Descend(d)
            BY <3>4, <3>7
        <3>10. work' = work \cup Subdirs(entries) /\ Kids' = Kids
            BY <3>1, <3>3
        <3> QED BY <3>2, <3>4, <3>6, <3>8, <3>9, <3>10
    <2>2. CASE ReadsAll(t)
        <3>1. PICK entries \in SUBSET Children(d), lost \in SUBSET Entries, has \in BOOLEAN :
                  /\ failed' = failed \cup lost
                  /\ \/ has /\ entries \cup lost = Children(d)
                     \/ entries = {} /\ d \in lost
                     \/ entries = {} /\ ~ has /\ ~ Descend(d)
                  /\ Becomes(t, [task[t] EXCEPT !.st = "out", !.has = has, !.got = Admitted(entries),
                                    !.subdirs = Subdirs(entries)])
            BY <1>2, <2>2 DEF ReadsAll
        <3>2. /\ \A u \in Tasks \ {t} : task'[u] = task[u]
              /\ task'[t].dir = d /\ task'[t].st = "out" /\ task'[t].subdirs = Subdirs(entries)
            BY <1>1, <1>2, <3>1 DEF Becomes, Task
        <3>3. /\ task[t].subdirs = {} /\ task[t].page = 0 /\ work' = work
            BY <2>2 DEF ReadsAll, Shape
        <3>4. Kids' = Kids \cup Subdirs(entries)
            BY <1>1, <3>2, <3>3 DEF Kids
        <3>5. Holding(t)' /\ ~ Reading(t)'
            BY <3>2 DEF Holding, Reading
        <3>6. \A c \in entries : task[t].page <= PageOf[c]
            BY <3>3, ChildPath
        <3>7. ASSUME NEW c \in Children(d)
              PROVE  c \in entries \/ c \in failed' \/ d \in failed' \/ ~ Descend(d)
            BY <3>1
        <3>8. Subdirs(entries) \in SUBSET Children(d)
            BY Sorted
        <3> QED BY <3>2, <3>3, <3>4, <3>5, <3>6, <3>7, <3>8
    <2> QED BY <1>1, <2>1, <2>2
<1>4. N \in SUBSET Children(d) /\ N \subseteq Dirs /\ N \subseteq E
    BY <1>3 DEF Subdirs
<1>5. \A u \in Tasks : /\ Holding(u)' <=> Holding(u)
                       /\ task'[u].dir = task[u].dir
    BY <1>1, <1>2, <1>3, OthersHold
<1>6. Waiting' = Waiting \cup N
    BY <1>3 DEF Waiting
<1>7. Spots' = Spots \cup N
    <2>1. Held' = Held
        BY <1>5 DEF Held
    <2>2. Listed' = Listed
        BY <1>1 DEF pipe, Line, LineDirs, WrittenDirs, CoordDirs, Listed
    <2> QED BY <1>6, <2>1, <2>2 DEF Spots
<1>8. d \in Spots /\ d \notin Waiting
    BY <1>1, <1>2 DEF Spots, Held, Place, Apart
<1>9. \A u \in Tasks \ {t} : (Reading(u)' <=> Reading(u)) /\ task'[u] = task[u] /\ ~ (Reading(u) /\ task[u].dir = d)
    <2>1. \A u \in Tasks \ {t} : Reading(u) => Holding(u)
        BY DEF Reading, Holding
    <2> QED BY <1>1, <1>2, <1>3, <2>1, OthersHold DEF Place, Apart
<1>10. \A a \in Dirs : \A c \in Children(a) : Unread(a, c)' => Unread(a, c) \/ a \in N
    <2> SUFFICES ASSUME NEW a \in Dirs, NEW c \in Children(a), Unread(a, c)', a \notin N PROVE Unread(a, c)
        OBVIOUS
    <2>1. CASE a \in Waiting'
        BY <1>6, <2>1 DEF Unread
    <2>2. CASE a \notin Waiting'
        <3>1. PICK u \in Tasks : Reading(u)' /\ task'[u].dir = a /\ task'[u].page <= PageOf[c]
            BY <2>2 DEF Unread
        <3>2. CASE u = t
            BY <1>1, <1>2, <1>3, <3>1, <3>2 DEF Unread
        <3>3. CASE u # t
            BY <1>9, <3>1, <3>3 DEF Unread
        <3> QED BY <3>2, <3>3
    <2> QED BY <2>1, <2>2
<1>11. \A c \in N : Unread(d, c) /\ ~ Unread(d, c)'
    <2> SUFFICES ASSUME NEW c \in N PROVE Unread(d, c) /\ ~ Unread(d, c)'
        OBVIOUS
    <2>1. Unread(d, c)
        BY <1>1, <1>2, <1>3, <1>4 DEF Unread
    <2>2. d \notin Waiting'
        <3>1. d \notin N
            <4> SUFFICES ASSUME d \in N PROVE FALSE
                OBVIOUS
            <4>1. Len(d) = Len(d) + 1 /\ Len(d) \in Nat
                BY <1>4, ChildPath
            <4> QED BY <4>1
        <3> QED BY <1>6, <1>8, <3>1
    <2> QED BY <1>3, <1>4, <1>9, <2>1, <2>2 DEF Unread
<1>12. Order' /\ N \cap Spots = {}
    <2>1. Spots' \subseteq Spots \cup N
        BY <1>7
    <2>2. \A c \in N : ~ Skip(c)
        BY <1>3 DEF Subdirs
    <2> QED BY <1>1, <1>4, <1>8, <1>10, <1>11, <2>1, <2>2, OrderKeeps DEF Place
<1>13. Apart'
    <2>1. work' \subseteq work \cup N /\ Kids' \subseteq Kids \cup N /\ (work' \subseteq work \/ Kids' \subseteq Kids)
        BY <1>3
    <2> QED BY <1>1, <1>5, <1>12, <2>1, ApartKeeps DEF Place
<1>14. Found'
    <2>1. (\A x : Excused(x) => Excused(x)') /\ \A x : x \in failed' \/ ~ Descend(x) \/ Skip(x) => Excused(x)'
        BY <1>1, ExcusedStays
    <2>2. ASSUME NEW a \in Dirs, NEW c \in Children(a), Unread(a, c)
          PROVE  Unread(a, c)' \/ c \in Waiting' \/ Excused(a)' \/ (c \in Dirs => Excused(c)')
        <3>1. CASE a \in Waiting
            BY <1>6, <3>1 DEF Unread
        <3>2. CASE a \notin Waiting
            <4>1. PICK u \in Tasks : Reading(u) /\ task[u].dir = a /\ task[u].page <= PageOf[c]
                BY <2>2, <3>2 DEF Unread
            <4>2. CASE u # t
                BY <1>9, <4>1, <4>2 DEF Unread
            <4>3. CASE u = t
                <5>1. a = d
                    BY <1>2, <4>1, <4>3
                <5>2. CASE Reading(t)' /\ task'[t].page <= PageOf[c]
                    BY <1>3, <5>1, <5>2 DEF Unread
                <5>3. CASE c \in E
                    <6>1. c \in Dirs => c \in N \/ ~ Descend(c) \/ Skip(c)
                        BY <1>3, <5>3 DEF Subdirs
                    <6> QED BY <1>6, <2>1, <6>1
                <5>4. CASE c \in failed' \/ d \in failed' \/ ~ Descend(d)
                    BY <2>1, <5>1, <5>4
                <5> QED BY <1>3, <4>1, <4>3, <5>1, <5>2, <5>3, <5>4
            <4> QED BY <4>2, <4>3
        <3> QED BY <3>1, <3>2
    <2> QED BY <1>7, <2>1, <2>2, FoundKeeps DEF Place
<1> QED BY <1>12, <1>13, <1>14 DEF Place
-----------------------------------------------------------------------------
(* The listings on their way: one more at the end, one less at the front.  *)
LEMMA OneMore ==
    ASSUME NEW s \in Seq(Batch), NEW b \in Batch
    PROVE  /\ Append(s, b) \in Seq(Batch) /\ Len(Append(s, b)) = Len(s) + 1 /\ Len(s) \in Nat
           /\ Append(s, b)[Len(s) + 1] = b /\ \A i \in 1 .. Len(s) : Append(s, b)[i] = s[i]
           /\ DirsOf(Append(s, b)) = DirsOf(s) \cup {b.dir}
           /\ Once(s) /\ b.dir \notin DirsOf(s) => Once(Append(s, b))
<1> DEFINE new == Append(s, b)
<1>1. /\ new \in Seq(Batch) /\ Len(new) = Len(s) + 1 /\ Len(s) \in Nat
      /\ new[Len(s) + 1] = b /\ \A i \in 1 .. Len(s) : new[i] = s[i]
    BY AppendProperties, LenProperties
<1> HIDE DEF new
<1>2. \A i \in 1 .. Len(new) : i \in 1 .. Len(s) \/ i = Len(s) + 1
    BY <1>1
<1>3. Len(s) + 1 \in 1 .. Len(new) /\ \A i \in 1 .. Len(s) : i \in 1 .. Len(new)
    BY <1>1
<1>4. DirsOf(new) \subseteq DirsOf(s) \cup {b.dir}
    BY <1>1, <1>2 DEF DirsOf
<1>5. DirsOf(s) \cup {b.dir} \subseteq DirsOf(new)
    <2>1. DirsOf(s) \subseteq DirsOf(new)
        BY <1>1, <1>3 DEF DirsOf
    <2>2. b.dir \in DirsOf(new)
        BY <1>1, <1>3 DEF DirsOf
    <2> QED BY <2>1, <2>2
<1>6. ASSUME Once(s), b.dir \notin DirsOf(s) PROVE Once(new)
    <2>1. \A i \in 1 .. Len(s) : s[i].dir # b.dir
        BY <1>6 DEF DirsOf
    <2> QED BY <1>1, <1>2, <1>6, <2>1 DEF Once
<1>7. new = Append(s, b)
    BY DEF new
<1> QED BY <1>1, <1>4, <1>5, <1>6, <1>7

LEMMA OneLess ==
    ASSUME NEW s \in Seq(Batch), s # <<>>
    PROVE  /\ Head(s) \in Batch /\ Tail(s) \in Seq(Batch) /\ s[1] = Head(s) /\ 1 \in 1 .. Len(s)
           /\ Len(Tail(s)) = Len(s) - 1 /\ \A i \in 1 .. Len(Tail(s)) : i + 1 \in 1 .. Len(s) /\ Tail(s)[i] = s[i + 1]
           /\ DirsOf(s) = DirsOf(Tail(s)) \cup {Head(s).dir}
           /\ Once(s) => Once(Tail(s)) /\ Head(s).dir \notin DirsOf(Tail(s))
<1> DEFINE rest == Tail(s)
           first == Head(s)
<1>1. /\ first \in Batch /\ rest \in Seq(Batch) /\ Len(rest) = Len(s) - 1 /\ s[1] = first
      /\ Len(s) \in Nat /\ Len(s) # 0
      /\ \A i \in 1 .. Len(rest) : rest[i] = s[i + 1]
    <2>1. Len(s) \in Nat /\ Len(s) # 0
        BY LenProperties, EmptySeq
    <2> QED BY <2>1, HeadTailProperties
<1> HIDE DEF rest, first
<1>2. \A i \in 1 .. Len(s) : i = 1 \/ i - 1 \in 1 .. Len(rest)
    BY <1>1
<1>3. 1 \in 1 .. Len(s) /\ \A i \in 1 .. Len(rest) : i + 1 \in 1 .. Len(s)
    BY <1>1
<1>4. DirsOf(s) \subseteq DirsOf(rest) \cup {first.dir}
    <2> SUFFICES ASSUME NEW i \in 1 .. Len(s) PROVE s[i].dir \in DirsOf(rest) \cup {first.dir}
        BY DEF DirsOf
    <2>1. CASE i = 1
        BY <1>1, <2>1
    <2>2. CASE i # 1
        <3>1. i - 1 \in 1 .. Len(rest) /\ rest[i - 1] = s[i]
            BY <1>1, <1>2, <2>2
        <3> QED BY <3>1 DEF DirsOf
    <2> QED BY <2>1, <2>2
<1>5. DirsOf(rest) \cup {first.dir} \subseteq DirsOf(s)
    BY <1>1, <1>3 DEF DirsOf
<1>6. ASSUME Once(s) PROVE Once(rest) /\ first.dir \notin DirsOf(rest)
    <2>1. Once(rest)
        BY <1>1, <1>3, <1>6 DEF Once
    <2>2. \A i \in 1 .. Len(rest) : rest[i].dir # first.dir
        <3> SUFFICES ASSUME NEW i \in 1 .. Len(rest), rest[i].dir = first.dir PROVE FALSE
            OBVIOUS
        <3>1. s[i + 1].dir = s[1].dir /\ i + 1 \in 1 .. Len(s) /\ i + 1 # 1
            BY <1>1, <1>3
        <3> QED BY <1>3, <1>6, <3>1 DEF Once
    <2> QED BY <2>1, <2>2 DEF DirsOf
<1>7. rest = Tail(s) /\ first = Head(s)
    BY DEF rest, first
<1> QED BY <1>1, <1>3, <1>4, <1>5, <1>6, <1>7

LEMMA LineIsSeq == Shape => Line \in Seq(Batch)
BY ConcatProperties DEF Shape, Line

(* Passing a listing from one to the next leaves the line as it is.        *)
LEMMA LineSame ==
    ASSUME Shape, Receive \/ Forward
    PROVE  Line' = Line
<1>0. chan \in Seq(Batch) /\ bridge \in Seq(Batch) /\ queue \in Seq(Batch)
    BY DEF Shape
<1>1. CASE Receive
    <2>1. chan # <<>> /\ bridge = <<>> /\ bridge' = <<Head(chan)>> /\ chan' = Tail(chan) /\ queue' = queue
        BY <1>1 DEF Receive
    <2>2. Head(chan) \in Batch /\ Tail(chan) \in Seq(Batch) /\ <<Head(chan)>> \in Seq(Batch)
        BY <1>0, <2>1, HeadTailProperties
    <2>3. chan = <<Head(chan)>> \o Tail(chan)
        BY <1>0, <2>1, <2>2, HeadTailAppend
    <2>4. (queue \o <<Head(chan)>>) \o Tail(chan) = queue \o (<<Head(chan)>> \o Tail(chan))
        BY <1>0, <2>2, ConcatAssociative
    <2>5. queue \o <<>> = queue
        BY <1>0, ConcatEmptySeq
    <2> QED BY <2>1, <2>3, <2>4, <2>5 DEF Line
<1>2. CASE Forward
    <2>1. queue' = queue \o bridge /\ bridge' = <<>> /\ chan' = chan
        BY <1>2 DEF Forward
    <2>2. (queue \o bridge) \o <<>> = queue \o bridge
        BY <1>0, ConcatProperties, ConcatEmptySeq
    <2> QED BY <2>1, <2>2 DEF Line
<1> QED BY <1>1, <1>2

LEMMA LineGrows ==
    ASSUME Shape, NEW b \in Batch, chan' = Append(chan, b), UNCHANGED <<queue, bridge>>
    PROVE  Line' = Append(Line, b)
<1>0. chan \in Seq(Batch) /\ bridge \in Seq(Batch) /\ queue \in Seq(Batch) /\ queue \o bridge \in Seq(Batch)
    BY ConcatProperties DEF Shape
<1>1. Append(chan, b) = chan \o <<b>> /\ <<b>> \in Seq(Batch)
    BY <1>0, AppendIsConcat
<1>2. ((queue \o bridge) \o chan) \o <<b>> = (queue \o bridge) \o (chan \o <<b>>)
    BY <1>0, <1>1, ConcatAssociative
<1>3. (queue \o bridge) \o chan \in Seq(Batch)
    BY <1>0, ConcatProperties
<1>4. Append((queue \o bridge) \o chan, b) = ((queue \o bridge) \o chan) \o <<b>>
    BY <1>3, AppendIsConcat
<1> QED BY <1>1, <1>2, <1>4 DEF Line

LEMMA LineShrinks ==
    ASSUME Shape, queue # <<>>, queue' = Tail(queue), UNCHANGED <<chan, bridge>>
    PROVE  Line # <<>> /\ Line' = Tail(Line) /\ Head(Line) = Head(queue) /\ Head(queue) \in Batch
<1>0. chan \in Seq(Batch) /\ bridge \in Seq(Batch) /\ queue \in Seq(Batch)
    BY DEF Shape
<1>1. Head(queue) \in Batch /\ Tail(queue) \in Seq(Batch) /\ <<Head(queue)>> \in Seq(Batch)
    BY <1>0, HeadTailProperties
<1> DEFINE first == <<Head(queue)>>
           rest == Tail(queue)
<1>2. queue = first \o rest
    BY <1>0, HeadTailAppend
<1>3. first \in Seq(Batch) /\ rest \in Seq(Batch)
    BY <1>1
<1> HIDE DEF first, rest
<1>4. (first \o rest) \o bridge = first \o (rest \o bridge)
    BY <1>0, <1>3, ConcatAssociative
<1>5. rest \o bridge \in Seq(Batch)
    BY <1>0, <1>3, ConcatProperties
<1>6. (first \o (rest \o bridge)) \o chan = first \o ((rest \o bridge) \o chan)
    <2> DEFINE mid == rest \o bridge
    <2> HIDE DEF mid
    <2>1. mid \in Seq(Batch)
        BY <1>5 DEF mid
    <2>2. (first \o mid) \o chan = first \o (mid \o chan)
        BY <1>0, <1>3, <2>1, ConcatAssociative
    <2> QED BY <2>2 DEF mid
<1>7. Line = first \o ((rest \o bridge) \o chan)
    BY <1>2, <1>4, <1>6 DEF Line
<1>8. (rest \o bridge) \o chan \in Seq(Batch)
    BY <1>0, <1>5, ConcatProperties
<1>9. Line' = (rest \o bridge) \o chan
    BY DEF Line, rest
<1> DEFINE u == (rest \o bridge) \o chan
<1>10. u \in Seq(Batch) /\ Line = <<Head(queue)>> \o u /\ Line' = u
    BY <1>7, <1>8, <1>9 DEF first
<1> HIDE DEF u
<1>11. /\ <<Head(queue)>> \o u \in Seq(Batch) /\ Len(<<Head(queue)>> \o u) = 1 + Len(u)
       /\ \A i \in 1 .. 1 + Len(u) : (<<Head(queue)>> \o u)[i] = IF i <= 1 THEN <<Head(queue)>>[i] ELSE u[i - 1]
    BY <1>1, <1>10, ConcatProperties
<1>12. Len(u) \in Nat
    BY <1>10, LenProperties
<1>13. Line # <<>> /\ Line \in Seq(Batch) /\ Len(Line) = 1 + Len(u) /\ Line[1] = Head(queue)
       /\ \A i \in 1 .. Len(u) : Line[i + 1] = u[i]
    BY <1>10, <1>11, <1>12, EmptySeq
<1>14. Head(Line) = Line[1]
    BY <1>13, OneLess
<1>15. Tail(Line) = u
    <2>1. /\ Tail(Line) \in Seq(Batch) /\ Len(Tail(Line)) = Len(Line) - 1
          /\ \A i \in 1 .. Len(Tail(Line)) : Tail(Line)[i] = Line[i + 1]
        BY <1>13, HeadTailProperties
    <2>2. Len(Tail(Line)) = Len(u)
        BY <1>12, <1>13, <2>1
    <2> QED BY <1>10, <1>13, <2>1, <2>2, SeqEqual
<1> QED BY <1>1, <1>10, <1>13, <1>14, <1>15

(* Steps that only pass listings on, or end something.                     *)
LEMMA QuietPlace ==
    ASSUME Shape, Place, UNCHANGED <<kind, filter, work, task, coord, failed, Line, written, stored>>,
           dropped \subseteq dropped'
    PROVE  Place'
<1>1. UNCHANGED <<LineDirs, WrittenDirs, CoordDirs, Listed, Kids, Waiting, Held, Spots>>
    <2>1. UNCHANGED <<LineDirs, WrittenDirs, CoordDirs, Listed>>
        BY DEF LineDirs, WrittenDirs, CoordDirs, Listed
    <2>2. Kids' = Kids
        BY DEF Kids
    <2>3. Held' = Held
        BY DEF Held, Holding
    <2> QED BY <2>1, <2>2, <2>3 DEF Waiting, Spots
<1>2. \A t \in Tasks : (Holding(t)' <=> Holding(t)) /\ (Reading(t)' <=> Reading(t))
    BY DEF Holding, Reading
<1>3. Apart'
    BY <1>1, <1>2 DEF Place, Apart
<1>4. \A a, c : Unread(a, c)' <=> Unread(a, c)
    BY <1>1, <1>2 DEF Unread
<1>5. Order'
    <2>1. <<>> \in Dirs /\ {} \in SUBSET Children(<<>>) /\ {} \subseteq Dirs /\ Spots' \subseteq Spots \cup {}
        BY <1>1, TreeAssumption
    <2> QED BY <1>4, <2>1, OrderKeeps DEF Place
<1>6. Found'
    <2>1. \A x : Excused(x) => Excused(x)'
        BY ExcusedStays
    <2> QED BY <1>1, <1>4, <2>1, FoundKeeps DEF Place
<1> QED BY <1>3, <1>5, <1>6 DEF Place

(* A writer takes the oldest listing.                                      *)
LEMMA WritePlace ==
    ASSUME Shape, Place, NEW w \in Writers, Write(w)
    PROVE  Place'
<1>0. UNCHANGED <<kind, filter, work, task, coord, failed>> /\ queue # <<>> /\ queue' = Tail(queue)
      /\ UNCHANGED <<chan, bridge>>
    BY DEF Write, config, walk
<1>1. PICK b \in Batch : b = Head(queue)
    BY <1>0, LineShrinks
<1>2. /\ Line \in Seq(Batch) /\ DirsOf(Line) = DirsOf(Line') \cup {b.dir}
      /\ Once(Line') /\ b.dir \notin DirsOf(Line')
    <2>1. Line # <<>> /\ Line' = Tail(Line) /\ Head(Line) = b /\ Line \in Seq(Batch)
        BY <1>0, <1>1, LineShrinks, LineIsSeq
    <2>2. Once(Line)
        BY DEF Place, Apart
    <2>3. /\ DirsOf(Line) = DirsOf(Tail(Line)) \cup {Head(Line).dir}
          /\ Once(Tail(Line)) /\ Head(Line).dir \notin DirsOf(Tail(Line))
        BY <2>1, <2>2, OneLess
    <2> QED BY <2>1, <2>3
<1>3. LineDirs = LineDirs' \cup {b.dir} /\ b.dir \notin LineDirs' /\ Once(Line)'
    BY <1>2 DEF LineDirs
<1>4. \/ written' = written \cup {b} /\ stored' = stored + 1 /\ dropped' = dropped
      \/ UNCHANGED <<written, stored>> /\ dropped' = dropped \cup {b.dir}
    BY <1>1 DEF Write
<1>5. /\ b.dir \notin WrittenDirs /\ WrittenDirs \subseteq WrittenDirs'
      /\ WrittenDirs' \subseteq WrittenDirs \cup {b.dir}
      /\ WrittenDirs' = WrittenDirs \cup {b.dir} \/ b.dir \in dropped'
    BY <1>3, <1>4 DEF WrittenDirs, Place, Apart
<1>6. UNCHANGED <<CoordDirs, Kids, Waiting, Held>>
    <2>1. CoordDirs' = CoordDirs
        BY <1>0 DEF CoordDirs
    <2>2. Kids' = Kids
        BY <1>0 DEF Kids
    <2>3. Held' = Held
        BY <1>0 DEF Held, Holding
    <2> QED BY <1>0, <2>1, <2>2, <2>3 DEF Waiting
<1>7. \A t \in Tasks : (Holding(t)' <=> Holding(t)) /\ (Reading(t)' <=> Reading(t)) /\ task'[t] = task[t]
    BY <1>0 DEF Holding, Reading
<1>8. Listed' \subseteq Listed /\ \A x \in Listed : x \in Listed' \/ x \in dropped'
    BY <1>3, <1>5, <1>6 DEF Listed
<1>9. Spots' \subseteq Spots /\ \A x \in Spots : x \in Spots' \/ x \in dropped'
    BY <1>6, <1>8 DEF Spots
<1>10. IsFiniteSet(WrittenDirs') /\ stored' = Cardinality(WrittenDirs')
    <2>1. IsFiniteSet(WrittenDirs) /\ stored = Cardinality(WrittenDirs)
        BY DEF Place, Apart
    <2>2. CASE written' = written \cup {b} /\ stored' = stored + 1
        <3>1. WrittenDirs' = WrittenDirs \cup {b.dir}
            BY <2>2 DEF WrittenDirs
        <3> QED BY <1>5, <2>1, <2>2, <3>1, FS_AddElement
    <2>3. CASE UNCHANGED <<written, stored>>
        BY <2>1, <2>3 DEF WrittenDirs
    <2> QED BY <1>4, <2>2, <2>3
<1>11. Apart'
    <2>1. CoordDirs' \cap (LineDirs' \cup WrittenDirs') = {} /\ LineDirs' \cap WrittenDirs' = {}
        BY <1>3, <1>5, <1>6 DEF Place, Apart
    <2>2. work' \cap Kids' = {} /\ Waiting' \cap Listed' = {}
        BY <1>0, <1>6, <1>8 DEF Place, Apart
    <2> QED BY <1>3, <1>6, <1>7, <1>8, <1>10, <2>1, <2>2 DEF Place, Apart
<1>12. \A a, c : Unread(a, c)' <=> Unread(a, c)
    BY <1>6, <1>7 DEF Unread
<1>13. Order'
    <2>1. <<>> \in Dirs /\ {} \in SUBSET Children(<<>>) /\ {} \subseteq Dirs /\ Spots' \subseteq Spots \cup {}
        BY <1>9, TreeAssumption
    <2> QED BY <1>0, <1>12, <2>1, OrderKeeps DEF Place
<1>14. Found'
    <2>1. \A x : Excused(x) => Excused(x)'
        <3>1. dropped \subseteq dropped' /\ failed \subseteq failed'
            BY <1>0, <1>4
        <3> QED BY <1>0, <3>1, ExcusedStays
    <2>2. \A x \in Spots : x \in Spots' \/ Excused(x)'
        BY <1>9 DEF Excused
    <2> QED BY <1>12, <2>1, <2>2, FoundKeeps DEF Place
<1> QED BY <1>11, <1>13, <1>14 DEF Place

(* A task that gives its directory up, and one that has none.              *)
LEMMA LeavesPlace ==
    ASSUME Shape, Place, NEW t \in Tasks, GivesUp(t) \/ Idles(t)
    PROVE  Place'
<1>1. UNCHANGED <<kind, filter, work, coord, pipe>> /\ failed \subseteq failed' /\ dropped' = dropped
    BY DEF GivesUp, Idles, Steady, pipe
<1>2. /\ \A u \in Tasks \ {t} : task'[u] = task[u]
      /\ task'[t].st # "out" => task'[t].subdirs = {}
    BY MoveTask DEF Moves
<1>3. /\ task'[t].st \in {"done", "idle", "empty", "gone"} /\ task[t].subdirs = {}
      /\ Holding(t) => GivesUp(t)
    <2>1. task \in [Tasks -> Task] /\ task[t] \in Task
        BY DEF Shape
    <2>2. CASE GivesUp(t)
        BY <2>1, <2>2 DEF GivesUp, Becomes, Task, Shape
    <2>3. CASE Idles(t)
        <3>1. PICK s \in {"idle", "empty", "gone"} : Becomes(t, Idle) \/ Becomes(t, [task[t] EXCEPT !.st = s])
            BY <2>3 DEF Idles
        <3>2. task'[t].st \in {"idle", "empty", "gone"}
            BY <2>1, <3>1 DEF Becomes, Task, Idle
        <3>3. task[t].st \in {"done", "idle", "empty"}
            BY <2>3 DEF Idles, At
        <3> QED BY <3>2, <3>3 DEF Shape, Holding
    <2> QED BY <2>2, <2>3
<1>4. ~ Holding(t)' /\ ~ Reading(t)' /\ task'[t].subdirs = {}
    BY <1>2, <1>3 DEF Holding, Reading
<1>5. PICK d : d = task[t].dir
    OBVIOUS
<1>6. Holding(t) => Excused(d)'
    <2>1. Holding(t) => d \in failed' \/ ~ Descend(d)
        BY <1>3, <1>5 DEF GivesUp
    <2> QED BY <1>1, <2>1, ExcusedStays
<1>7. \A u \in Tasks \ {t} : (Holding(u)' <=> Holding(u)) /\ (Reading(u)' <=> Reading(u)) /\ task'[u] = task[u]
    BY <1>2, OthersHold
<1>8. Kids' = Kids
    <2>1. \A u \in Tasks : task'[u].subdirs = task[u].subdirs
        BY <1>2, <1>3, <1>4
    <2> QED BY <1>1, <2>1 DEF Kids
<1>9. Waiting' = Waiting /\ Listed' = Listed
    BY <1>1, <1>8 DEF pipe, Line, LineDirs, WrittenDirs, CoordDirs, Listed, Waiting
<1>10. Spots' \subseteq Spots /\ \A x \in Spots : x \in Spots' \/ (Holding(t) /\ x = d)
    <2>1. Held' \subseteq Held
        BY <1>4, <1>7 DEF Held
    <2>2. \A x \in Held : x \in Held' \/ (Holding(t) /\ x = d)
        BY <1>5, <1>7 DEF Held
    <2> QED BY <1>9, <2>1, <2>2 DEF Spots
<1>11. Apart'
    <2>1. {} \cap Spots = {} /\ work' \subseteq work \cup {} /\ Kids' \subseteq Kids \cup {} /\ work' \subseteq work
        BY <1>1, <1>8
    <2>2. \A u \in Tasks : Holding(u)' => Holding(u) /\ task'[u].dir = task[u].dir
        BY <1>4, <1>7
    <2> QED BY <1>1, <2>1, <2>2, ApartKeeps DEF Place
<1>12. \A a \in Dirs : \A c \in Children(a) : Unread(a, c)' => Unread(a, c)
    BY <1>4, <1>7, <1>9 DEF Unread
<1>13. Order'
    <2>1. <<>> \in Dirs /\ {} \in SUBSET Children(<<>>) /\ {} \subseteq Dirs /\ Spots' \subseteq Spots \cup {}
        BY <1>10, TreeAssumption
    <2> QED BY <1>1, <1>12, <2>1, OrderKeeps DEF Place
<1>14. Found'
    <2>1. \A x : Excused(x) => Excused(x)'
        BY <1>1, ExcusedStays
    <2>2. \A x \in Spots : x \in Spots' \/ Excused(x)'
        BY <1>6, <1>10
    <2>3. Reading(t) => Holding(t)
        BY DEF Reading, Holding
    <2>4. \A a \in Dirs : \A c \in Children(a) : Unread(a, c) => Unread(a, c)' \/ Excused(a)'
        BY <1>5, <1>6, <1>7, <1>9, <2>3 DEF Unread
    <2> QED BY <2>1, <2>2, <2>4, FoundKeeps DEF Place
<1> QED BY <1>11, <1>13, <1>14 DEF Place

(* A task that hands its directory on.                                     *)
LEMMA HandsOn ==
    ASSUME Shape, Place, NEW t \in Tasks, NEW d, d = task[t].dir, Holding(t), ~ Reading(t), ~ Holding(t)', ~ Reading(t)',
           \A u \in Tasks \ {t} : task'[u] = task[u],
           UNCHANGED <<kind, filter, work, failed, written, stored, dropped>>, Kids' = Kids,
           Listed' = Listed \cup {d},
           CoordDirs' \cap (LineDirs' \cup WrittenDirs) = {}, LineDirs' \cap WrittenDirs = {}, Once(Line)'
    PROVE  Place'
<1>1. \A u \in Tasks \ {t} : (Holding(u)' <=> Holding(u)) /\ (Reading(u)' <=> Reading(u)) /\ task'[u] = task[u]
    BY OthersHold
<1>2. Waiting' = Waiting /\ WrittenDirs' = WrittenDirs
    BY DEF Waiting, WrittenDirs
<1>3. Spots' = Spots
    <2>1. Held' \subseteq Held /\ Held \subseteq Held' \cup {d}
        BY <1>1 DEF Held
    <2>2. d \in Held
        BY DEF Held
    <2> QED BY <1>2, <2>1, <2>2 DEF Spots
<1>4. Apart'
    <2>1. d \notin Waiting /\ \A u \in Tasks \ {t} : Holding(u) => task[u].dir # d
        BY DEF Place, Apart
    <2>2. \A u \in Tasks : Holding(u)' => task'[u].dir \notin Waiting' \cup Listed'
        BY <1>1, <1>2, <2>1 DEF Place, Apart
    <2>3. \A u, v \in Tasks : Holding(u)' /\ Holding(v)' /\ u # v => task'[u].dir # task'[v].dir
        BY <1>1 DEF Place, Apart
    <2>4. work' \cap Kids' = {} /\ Waiting' \cap Listed' = {}
        BY <1>2, <2>1 DEF Place, Apart
    <2> QED BY <1>2, <2>2, <2>3, <2>4 DEF Place, Apart
<1>5. \A a \in Dirs : \A c \in Children(a) : Unread(a, c)' <=> Unread(a, c)
    BY <1>1, <1>2 DEF Unread
<1>6. Order'
    <2>1. <<>> \in Dirs /\ {} \in SUBSET Children(<<>>) /\ {} \subseteq Dirs /\ Spots' \subseteq Spots \cup {}
        BY <1>3, TreeAssumption
    <2> QED BY <1>5, <2>1, OrderKeeps DEF Place
<1>7. Found'
    <2>1. \A x : Excused(x) => Excused(x)'
        BY ExcusedStays
    <2> QED BY <1>3, <1>5, <2>1, FoundKeeps DEF Place
<1> QED BY <1>4, <1>6, <1>7 DEF Place

LEMMA JoinsPlace ==
    ASSUME Shape, Place, NEW t \in Tasks, Joins(t)
    PROVE  Place'
<1>1. /\ UNCHANGED <<kind, filter, work, failed, written, stored, dropped, pipe>> /\ coord.none /\ task[t].st = "out"
      /\ coord' = [dir |-> task[t].dir, files |-> task[t].got, children |-> task[t].subdirs,
                   has |-> task[t].has, none |-> FALSE]
    BY DEF Joins, Steady, At, pipe
<1>2. /\ \A u \in Tasks \ {t} : task'[u] = task[u]
      /\ task'[t] = Idle
    BY DEF Shape, Joins, Becomes
<1>3. PICK d : d = task[t].dir
    OBVIOUS
<1>4. Holding(t) /\ ~ Reading(t) /\ ~ Holding(t)' /\ ~ Reading(t)'
    BY <1>1, <1>2 DEF Holding, Reading, Idle
<1>5. UNCHANGED <<Line, LineDirs, WrittenDirs>> /\ CoordDirs = {} /\ CoordDirs' = {d}
    BY <1>1, <1>3 DEF pipe, Line, LineDirs, WrittenDirs, CoordDirs
<1>6. Listed' = Listed \cup {d}
    BY <1>5 DEF Listed
<1>7. d \notin LineDirs \cup WrittenDirs
    BY <1>3, <1>4 DEF Place, Apart, Listed
<1>8. Kids' = Kids
    <2>1. coord.children = {}
        BY <1>1 DEF Shape, Nobody
    <2>2. coord'.children = task[t].subdirs /\ task'[t].subdirs = {}
        BY <1>1, <1>2 DEF Idle
    <2>3. UNION {task[u].subdirs : u \in Tasks} = task[t].subdirs \cup UNION {task[u].subdirs : u \in Tasks \ {t}}
        OBVIOUS
    <2>4. UNION {task'[u].subdirs : u \in Tasks} = task'[t].subdirs \cup UNION {task'[u].subdirs : u \in Tasks \ {t}}
        OBVIOUS
    <2>5. {task'[u].subdirs : u \in Tasks \ {t}} = {task[u].subdirs : u \in Tasks \ {t}}
        BY <1>2
    <2> QED BY <2>1, <2>2, <2>3, <2>4, <2>5 DEF Kids
<1>9. CoordDirs' \cap (LineDirs' \cup WrittenDirs) = {} /\ LineDirs' \cap WrittenDirs = {} /\ Once(Line)'
    BY <1>5, <1>7 DEF Place, Apart
<1> QED BY <1>1, <1>2, <1>3, <1>4, <1>6, <1>8, <1>9, HandsOn

LEMMA SendPlace ==
    ASSUME Shape, Place, NEW t \in Tasks, Send(t)
    PROVE  Place'
<1>1. /\ UNCHANGED <<kind, filter, work, failed, written, stored, dropped, coord, queue, bridge>> /\ task[t].st = "send"
      /\ chan' = Append(chan, [dir |-> task[t].dir, files |-> task[t].got])
      /\ task' = [task EXCEPT ![t].st = "done"]
    BY DEF Send, At, Go, config
<1>2. /\ task \in [Tasks -> Task] /\ task[t] \in Task
      /\ \A u \in Tasks \ {t} : task'[u] = task[u]
      /\ task'[t].st = "done" /\ task'[t].subdirs = task[t].subdirs
    BY <1>1 DEF Shape, Task
<1>3. PICK d : d = task[t].dir
    OBVIOUS
<1>4. PICK b \in Batch : b = [dir |-> task[t].dir, files |-> task[t].got]
    BY <1>2 DEF Task, Batch
<1>5. Holding(t) /\ ~ Reading(t) /\ ~ Holding(t)' /\ ~ Reading(t)'
    BY <1>1, <1>2 DEF Holding, Reading
<1>6. d \notin LineDirs \cup WrittenDirs \cup CoordDirs
    BY <1>3, <1>5 DEF Place, Apart, Listed
<1>7. LineDirs' = LineDirs \cup {d} /\ Once(Line)'
    <2>1. Line' = Append(Line, b) /\ Line \in Seq(Batch) /\ b.dir = d
        BY <1>1, <1>3, <1>4, LineGrows, LineIsSeq
    <2>2. Once(Line) /\ b.dir \notin DirsOf(Line)
        BY <1>6, <2>1 DEF Place, Apart, LineDirs
    <2> QED BY <2>1, <2>2, OneMore DEF LineDirs
<1>8. Kids' = Kids
    <2>1. \A u \in Tasks : task'[u].subdirs = task[u].subdirs
        BY <1>2
    <2> QED BY <1>1, <2>1 DEF Kids
<1>9. CoordDirs' = CoordDirs /\ WrittenDirs' = WrittenDirs
    BY <1>1 DEF CoordDirs, WrittenDirs
<1>10. Listed' = Listed \cup {d}
    BY <1>7, <1>9 DEF Listed
<1>11. CoordDirs' \cap (LineDirs' \cup WrittenDirs) = {} /\ LineDirs' \cap WrittenDirs = {}
    BY <1>6, <1>7, <1>9 DEF Place, Apart
<1> QED BY <1>1, <1>2, <1>3, <1>5, <1>7, <1>8, <1>10, <1>11, HandsOn

LEMMA PassOnPlace ==
    ASSUME Shape, Place, PassOn, ~ coord.has => GivenUp(coord.dir)
    PROVE  Place'
<1>1. /\ UNCHANGED <<kind, filter, task, failed, written, stored, dropped, queue, bridge>> /\ ~ coord.none
      /\ work' = work \cup coord.children /\ coord' = Nobody
      /\ IF coord.has THEN chan' = Append(chan, [dir |-> coord.dir, files |-> coord.files]) ELSE chan' = chan
    BY DEF PassOn, config
<1>2. coord \in Result /\ task \in [Tasks -> Task]
    BY DEF Shape
<1>3. PICK d : d = coord.dir
    OBVIOUS
<1>4. PICK b \in Batch : b = [dir |-> coord.dir, files |-> coord.files]
    BY <1>2 DEF Result, Batch
<1>5. CoordDirs = {d} /\ CoordDirs' = {} /\ WrittenDirs' = WrittenDirs
    BY <1>1, <1>3 DEF CoordDirs, Nobody, WrittenDirs
<1>6. d \notin LineDirs \cup WrittenDirs /\ d \in Listed
    BY <1>5 DEF Place, Apart, Listed
<1>7. /\ Once(Line)' /\ LineDirs' \subseteq LineDirs \cup {d} /\ LineDirs \subseteq LineDirs'
      /\ d \in LineDirs' \/ ~ coord.has
    <2>1. CASE coord.has
        <3>1. Line' = Append(Line, b) /\ Line \in Seq(Batch) /\ b.dir = d
            BY <1>1, <1>3, <1>4, <2>1, LineGrows, LineIsSeq
        <3>2. Once(Line) /\ b.dir \notin DirsOf(Line)
            BY <1>6, <3>1 DEF Place, Apart, LineDirs
        <3> QED BY <3>1, <3>2, OneMore DEF LineDirs
    <2>2. CASE ~ coord.has
        BY <1>1, <2>2 DEF Place, Apart, Line, LineDirs
    <2> QED BY <2>1, <2>2
<1>8. Listed' \subseteq Listed /\ \A x \in Listed : x \in Listed' \/ (x = d /\ ~ coord.has)
    BY <1>5, <1>6, <1>7 DEF Listed
<1>9. Kids = coord.children \cup Kids' /\ Waiting' = Waiting
    <2>1. Kids' = UNION {task[u].subdirs : u \in Tasks}
        BY <1>1 DEF Kids, Nobody
    <2> QED BY <1>1, <2>1 DEF Kids, Waiting
<1>10. coord.children \cap Kids' = {}
    <2> SUFFICES ASSUME NEW c \in coord.children, c \in Kids' PROVE FALSE
        OBVIOUS
    <2>1. c \in UNION {task[u].subdirs : u \in Tasks}
        BY <1>1 DEF Kids, Nobody
    <2>2. PICK u \in Tasks : c \in task[u].subdirs
        BY <2>1
    <2>3. task[u].st = "out" /\ c \in Children(task[u].dir) /\ c \in Children(coord.dir)
        BY <2>2 DEF Shape
    <2>4. task[u].dir = coord.dir /\ Holding(u)
        BY <2>3 DEF Children, Holding
    <2> QED BY <1>3, <1>6, <2>4 DEF Place, Apart
<1>11. Held' = Held /\ \A t \in Tasks : (Holding(t)' <=> Holding(t)) /\ (Reading(t)' <=> Reading(t)) /\ task'[t] = task[t]
    BY <1>1 DEF Held, Holding, Reading
<1>12. Spots' \subseteq Spots /\ \A x \in Spots : x \in Spots' \/ (x = d /\ ~ coord.has)
    BY <1>8, <1>9, <1>11 DEF Spots
<1>13. Apart'
    <2>1. \A t \in Tasks : Holding(t)' => task'[t].dir \notin Waiting' \cup Listed'
        BY <1>8, <1>9, <1>11 DEF Place, Apart
    <2>2. \A t, u \in Tasks : Holding(t)' /\ Holding(u)' /\ t # u => task'[t].dir # task'[u].dir
        BY <1>11 DEF Place, Apart
    <2>3. work' \cap Kids' = {} /\ Waiting' \cap Listed' = {}
        BY <1>1, <1>8, <1>9, <1>10 DEF Place, Apart
    <2>4. CoordDirs' \cap (LineDirs' \cup WrittenDirs') = {} /\ LineDirs' \cap WrittenDirs' = {}
        BY <1>5, <1>6, <1>7 DEF Place, Apart
    <2>5. IsFiniteSet(WrittenDirs') /\ stored' = Cardinality(WrittenDirs')
        BY <1>1, <1>5 DEF Place, Apart
    <2> QED BY <1>7, <2>1, <2>2, <2>3, <2>4, <2>5 DEF Apart
<1>14. \A a, c : Unread(a, c)' <=> Unread(a, c)
    BY <1>9, <1>11 DEF Unread
<1>15. Order'
    <2>1. <<>> \in Dirs /\ {} \in SUBSET Children(<<>>) /\ {} \subseteq Dirs /\ Spots' \subseteq Spots \cup {}
        BY <1>12, TreeAssumption
    <2> QED BY <1>1, <1>14, <2>1, OrderKeeps DEF Place
<1>16. Found'
    <2>1. (\A x : Excused(x) => Excused(x)') /\ \A x : x \in failed' \/ ~ Descend(x) \/ Skip(x) => Excused(x)'
        BY <1>1, ExcusedStays
    <2>2. ~ coord.has => Excused(d)'
        BY <1>1, <1>3, <2>1 DEF GivenUp
    <2>3. \A x \in Spots : x \in Spots' \/ Excused(x)'
        BY <1>12, <2>2
    <2> QED BY <1>14, <2>1, <2>3, FoundKeeps DEF Place
<1> QED BY <1>13, <1>15, <1>16 DEF Place

LEMMA PlaceStep ==
    ASSUME Shape, Place, [Next]_vars, ~ coord.none /\ ~ coord.has => GivenUp(coord.dir)
    PROVE  Place'
<1>1. ASSUME NEW t \in Tasks, Moves(t) PROVE Place'
    BY <1>1, PicksPlace, StaysPlace, ReadsPlace, LeavesPlace, JoinsPlace, SendPlace DEF Moves
<1>2. CASE WindsUp
    <2>1. UNCHANGED <<kind, filter, work, task, coord, failed, Line, written, stored>> /\ dropped \subseteq dropped'
        BY <1>2 DEF WindsUp, Line
    <2> QED BY <2>1, QuietPlace
<1>3. CASE PassOn
    <2>1. ~ coord.none
        BY <1>3 DEF PassOn
    <2> QED BY <1>3, <2>1, PassOnPlace
<1>4. CASE Receive \/ Forward
    <2>1. UNCHANGED <<kind, filter, work, task, coord, failed, written, stored, dropped>>
        BY <1>4 DEF Receive, Forward, Bridge, config, walk
    <2>2. Line' = Line
        BY <1>4, LineSame
    <2> QED BY <2>1, <2>2, QuietPlace
<1>5. ASSUME NEW w \in Writers, Write(w) PROVE Place'
    BY <1>5, WritePlace
<1> QED BY <1>1, <1>2, <1>3, <1>4, <1>5, StepKinds

LEMMA PlaceInit == Init => Place
<1> SUFFICES ASSUME Init PROVE Place
    OBVIOUS
<1>1. task = [t \in Tasks |-> Idle] /\ \A t \in Tasks : task[t] = Idle
    BY DEF Init
<1>2. \A t \in Tasks : ~ Holding(t) /\ task[t].subdirs = {}
    BY <1>1 DEF Holding, Idle
<1>3. Line = <<>>
    <2>1. <<>> \in Seq(Batch)
        BY EmptySeq
    <2>2. <<>> \o <<>> = <<>>
        BY <2>1, ConcatEmptySeq
    <2> QED BY <2>2 DEF Init, Line
<1>4. LineDirs = {} /\ Once(Line) /\ WrittenDirs = {} /\ CoordDirs = {} /\ stored = 0
    <2>1. Len(<<>>) = 0
        BY EmptySeq
    <2> QED BY <1>3, <2>1 DEF Init, LineDirs, DirsOf, Once, WrittenDirs, CoordDirs, Nobody
<1>5. Kids = {} /\ Held = {} /\ Waiting = {<<>>} /\ Listed = {} /\ Spots = {<<>>}
    <2>1. coord.children = {} /\ work = {<<>>}
        BY DEF Init, Nobody
    <2>2. Kids = {}
        BY <1>2, <2>1 DEF Kids
    <2>3. Held = {}
        BY <1>2 DEF Held
    <2> QED BY <1>4, <2>1, <2>2, <2>3 DEF Waiting, Listed, Spots
<1>6. Apart
    BY <1>2, <1>4, <1>5, FS_EmptySet DEF Apart
<1>7. Order
    <2>1. (\A n \in 0 .. Len(<<>>) - 1 : FALSE) /\ \A n \in 0 .. Len(<<>>) : n = 0
        BY EmptySeq
    <2>2. SubSeq(<<>>, 1, 0) = <<>>
        BY SubSeqEmpty
    <2>3. ~ Skip(<<>>)
        BY TreeAssumption, BoundsAssumption, EmptySeq DEF Skip
    <2>4. ~ Skipped(<<>>)
        BY <2>1, <2>2, <2>3 DEF Skipped, Above
    <2> QED BY <1>5, <2>1, <2>4 DEF Order
<1>8. Found
    <2> SUFFICES ASSUME NEW d \in Dirs
                 PROVE  d \in Spots \/ \E n \in 0 .. Len(d) - 1 : Unread(Pre(d, n), Pre(d, n + 1))
        BY DEF Found
    <2>1. d \in Seq(ToSet(d)) /\ Len(d) \in Nat
        BY TreeAssumption, LenProperties DEF Entries
    <2>2. CASE Len(d) = 0
        BY <1>5, <2>1, <2>2, EmptySeq
    <2>3. CASE Len(d) # 0
        <3>1. 0 \in 0 .. Len(d) - 1 /\ 0 \in 0 .. Len(d)
            BY <2>1, <2>3
        <3>2. Pre(d, 0) \in Seq(ToSet(d)) /\ Len(Pre(d, 0)) = 0
            BY <3>1, PathPrefixes DEF Entries
        <3>3. Pre(d, 0) = <<>>
            BY <3>2, EmptySeq
        <3>4. Unread(Pre(d, 0), Pre(d, 0 + 1))
            BY <1>5, <3>3 DEF Unread
        <3> QED BY <3>1, <3>4
    <2> QED BY <2>2, <2>3
<1> QED BY <1>6, <1>7, <1>8 DEF Place
-----------------------------------------------------------------------------
(* What is in the listings.  More failures ask for less.                   *)
LEMMA DuesStay ==
    ASSUME UNCHANGED <<kind, filter>>, failed \subseteq failed'
    PROVE  /\ \A d : Due(d)' = Due(d)
           /\ \A d, fs : Full(d, fs) => Full(d, fs)'
           /\ \A d : GivenUp(d) => GivenUp(d)'
           /\ \A b : Listing(b) => Listing(b)'
<1>1. \A p : (EmitFile(p)' <=> EmitFile(p)) /\ (Skip(p)' <=> Skip(p)) /\ (Descend(p)' <=> Descend(p))
    BY DEF EmitFile, Skip, Descend, ExcludedDir, HasIncludes, IncludedSubtree
<1>2. \A d : Due(d)' = Due(d)
    BY <1>1 DEF Due
<1>3. \A d, fs : Full(d, fs) => Full(d, fs)'
    BY <1>2 DEF Full
<1> QED BY <1>1, <1>2, <1>3 DEF GivenUp, Listing

(* The task that moves keeps what its listing promises.                    *)
LEMMA MoveProgress ==
    ASSUME Shape, NEW t \in Tasks, Moves(t), Progress(t)
    PROVE  Progress(t)'
<1>0. /\ task \in [Tasks -> Task] /\ task[t] \in Task /\ UNCHANGED <<kind, filter>> /\ failed \subseteq failed'
      /\ task[t].st \in {"taken", "attrs", "open", "query"} => task[t].page = 0
    <2>1. task \in [Tasks -> Task] /\ task[t] \in Task
          /\ (task[t].st \in {"taken", "attrs", "open", "query"} => task[t].page = 0)
        BY DEF Shape
    <2>2. UNCHANGED <<kind, filter>>
        BY DEF Moves, Picks, Stays, ReadsSome, ReadsAll, GivesUp, Idles, Joins, Send, Steady, config
    <2>3. failed \subseteq failed'
        BY DEF Moves, Picks, Stays, ReadsSome, ReadsAll, GivesUp, Idles, Joins, Send
    <2> QED BY <2>1, <2>2, <2>3
<1>00. PICK d : d = task[t].dir
    OBVIOUS
<1>1. CASE Picks(t)
    <2>1. /\ task'[t].st \in {"taken", "open"} /\ task'[t].got = {}
        BY <1>0, <1>1 DEF Picks, Becomes, Idle
    <2> QED BY <2>1 DEF Progress
<1>2. CASE Stays(t)
    <2>1. Holding(t)
        BY <1>2 DEF Stays, Holding
    <2>2. task'[t].dir = d /\ task'[t].got = task[t].got
          /\ (task'[t].st \in {"panicked", "attrs", "query"} \/ (task'[t].st = "page" /\ task'[t].page = 1))
        <3>1. PICK new \in {[task[t] EXCEPT !.st = "panicked"], [task[t] EXCEPT !.st = "attrs"],
                            [task[t] EXCEPT !.st = "query"], [task[t] EXCEPT !.st = "page", !.page = 1]} :
                  Becomes(t, new)
            BY <1>2 DEF Stays
        <3>2. task'[t] = new
            BY <1>0, <3>1 DEF Becomes
        <3> QED BY <1>0, <1>00, <3>1, <3>2 DEF Task
    <2>3. {f \in Due(d) : PageOf[f] < 1} = {}
        BY ChildPath, <1>0, <1>00 DEF Due, Task
    <2>4. Due(d)' = Due(d)
        BY <1>0, DuesStay
    <2>5. task[t].got \subseteq Due(d)
        BY <1>00, <2>1 DEF Progress
    <2> QED BY <2>2, <2>3, <2>4, <2>5 DEF Progress
<1>3. CASE ReadsSome(t)
    <2>1. PICK entries \in SUBSET Children(d), lost \in SUBSET Children(d), s \in {"page", "send"} :
              /\ entries \cup lost = {p \in Children(d) : PageOf[p] = task[t].page}
              /\ failed' = failed \cup lost
              /\ s = IF \E p \in Children(d) : PageOf[p] > task[t].page THEN "page" ELSE "send"
              /\ Becomes(t, [task[t] EXCEPT !.got = task[t].got \cup Admitted(entries),
                                !.page = task[t].page + 1, !.st = s])
        BY <1>00, <1>3 DEF ReadsSome
    <2>2. /\ task'[t].dir = d /\ task'[t].page = task[t].page + 1 /\ task'[t].st = s
          /\ task'[t].got = task[t].got \cup Admitted(entries) /\ task[t].page \in Nat
        BY <1>0, <1>00, <2>1 DEF Becomes, Task
    <2>3. task[t].st = "page" /\ Holding(t)
        BY <1>3 DEF ReadsSome, At, Holding
    <2>4. task[t].got \subseteq Due(d) /\ {f \in Due(d) : PageOf[f] < task[t].page} \subseteq task[t].got \cup failed
        BY <1>00, <2>3 DEF Progress
    <2>5. Due(d)' = Due(d) /\ Admitted(entries) \subseteq Due(d)
        BY <1>0, DuesStay, Sorted
    <2>6. {f \in Due(d) : PageOf[f] <= task[t].page} \subseteq task'[t].got \cup failed'
        <3> SUFFICES ASSUME NEW f \in Due(d), PageOf[f] <= task[t].page PROVE f \in task'[t].got \cup failed'
            OBVIOUS
        <3>1. f \in Children(d) /\ PageOf[f] \in Nat /\ f \in Files /\ EmitFile(f) /\ ~ Skip(f)
            BY <1>0, <1>00, ChildPath DEF Due, Task
        <3>2. CASE PageOf[f] = task[t].page
            <4>1. f \in entries \cup lost
                BY <2>1, <3>1, <3>2
            <4>2. f \in entries => f \in Admitted(entries)
                BY <3>1 DEF Admitted
            <4> QED BY <2>1, <2>2, <4>1, <4>2
        <3>3. CASE PageOf[f] < task[t].page
            BY <2>1, <2>2, <2>4, <3>3
        <3> QED BY <2>2, <3>1, <3>2, <3>3
    <2>7. {f \in Due(d) : PageOf[f] < task'[t].page} \subseteq task'[t].got \cup failed'
        <3>1. \A f \in Due(d) : PageOf[f] \in Nat
            BY <1>0, <1>00, ChildPath DEF Due, Task
        <3> QED BY <2>2, <2>6, <3>1
    <2>8. s = "send" => Due(d) \subseteq task'[t].got \cup failed'
        <3> SUFFICES ASSUME s = "send", NEW f \in Due(d) PROVE f \in task'[t].got \cup failed'
            OBVIOUS
        <3>1. f \in Children(d) /\ PageOf[f] \in Nat
            BY <1>0, <1>00, ChildPath DEF Due, Task
        <3>2. ~ PageOf[f] > task[t].page
            BY <2>1, <3>1
        <3>3. PageOf[f] <= task[t].page
            BY <2>2, <3>1, <3>2
        <3> QED BY <2>6, <3>3
    <2> QED BY <2>1, <2>2, <2>4, <2>5, <2>7, <2>8 DEF Progress, Full
<1>4. CASE ReadsAll(t)
    <2>1. PICK entries \in SUBSET Children(d), lost \in SUBSET Entries, has \in BOOLEAN :
              /\ failed' = failed \cup lost
              /\ \/ has /\ entries \cup lost = Children(d)
                 \/ entries = {} /\ d \in lost
                 \/ entries = {} /\ ~ has /\ ~ Descend(d)
              /\ Becomes(t, [task[t] EXCEPT !.st = "out", !.has = has, !.got = Admitted(entries),
                                !.subdirs = Subdirs(entries)])
        BY <1>00, <1>4 DEF ReadsAll
    <2>2. /\ task'[t].dir = d /\ task'[t].st = "out" /\ task'[t].has = has
          /\ task'[t].got = Admitted(entries)
        BY <1>0, <1>00, <2>1 DEF Becomes, Task
    <2>3. Due(d)' = Due(d) /\ Admitted(entries) \subseteq Due(d)
        BY <1>0, DuesStay, Sorted
    <2>4. has => (d \notin failed' => Due(d) \subseteq Admitted(entries) \cup failed')
        <3> SUFFICES ASSUME has, d \notin failed', NEW f \in Due(d) PROVE f \in Admitted(entries) \cup failed'
            OBVIOUS
        <3>1. f \in Children(d) /\ f \in Files /\ EmitFile(f) /\ ~ Skip(f)
            BY DEF Due
        <3>2. f \in entries \cup lost
            BY <2>1, <3>1
        <3>3. f \in entries => f \in Admitted(entries)
            BY <3>1 DEF Admitted
        <3> QED BY <2>1, <3>2, <3>3
    <2>5. ~ has => d \in failed' \/ ~ Descend(d)
        BY <2>1
    <2>6. ~ has => GivenUp(d)'
        <3>1. Descend(d)' <=> Descend(d)
            BY <1>0 DEF Descend, ExcludedDir, HasIncludes, IncludedSubtree
        <3> QED BY <2>5, <3>1 DEF GivenUp
    <2>7. has => (d \notin failed' => Due(d)' \subseteq Admitted(entries) \cup failed')
        BY <2>3, <2>4
    <2> QED BY <2>2, <2>3, <2>6, <2>7 DEF Progress, Full
<1>5. CASE GivesUp(t) \/ Send(t)
    <2>1. task'[t].st = "done"
        BY <1>0, <1>5 DEF GivesUp, Send, Go, Becomes, Task
    <2> QED BY <2>1 DEF Progress, Holding
<1>6. CASE Idles(t) \/ Joins(t)
    <2>1. PICK s \in {"idle", "empty", "gone"} : Becomes(t, Idle) \/ Becomes(t, [task[t] EXCEPT !.st = s])
        BY <1>6 DEF Idles, Joins
    <2>2. task'[t].st \in {"idle", "empty", "gone"}
        BY <1>0, <2>1 DEF Becomes, Task, Idle
    <2> QED BY <2>2 DEF Progress, Holding
<1> QED BY <1>1, <1>2, <1>3, <1>4, <1>5, <1>6 DEF Moves

(* ... and the others do.                                                  *)
LEMMA OthersProgress ==
    ASSUME NEW u \in Tasks, task'[u] = task[u], UNCHANGED <<kind, filter>>, failed \subseteq failed', Progress(u)
    PROVE  Progress(u)'
<1>1. PICK new : new = task[u]
    OBVIOUS
<1>2. /\ \A d : Due(d)' = Due(d)
      /\ \A d, fs : Full(d, fs) => Full(d, fs)'
      /\ \A d : GivenUp(d) => GivenUp(d)'
    BY DuesStay
<1>3. task'[u] = new
    BY <1>1
<1>4. Holding(u)' <=> Holding(u)
    BY DEF Holding
<1>5. /\ Holding(u) => new.got \subseteq Due(new.dir)
      /\ new.st = "page" => {f \in Due(new.dir) : PageOf[f] < new.page} \subseteq new.got \cup failed
      /\ new.st = "send" => Full(new.dir, new.got)
      /\ new.st = "out" => IF new.has THEN Full(new.dir, new.got) ELSE GivenUp(new.dir)
    BY <1>1 DEF Progress
<1>6. /\ Holding(u)' => new.got \subseteq Due(new.dir)'
      /\ new.st = "page" => {f \in Due(new.dir)' : PageOf[f] < new.page} \subseteq new.got \cup failed'
      /\ new.st = "send" => Full(new.dir, new.got)'
      /\ new.st = "out" => IF new.has THEN Full(new.dir, new.got)' ELSE GivenUp(new.dir)'
    <2>1. Due(new.dir)' = Due(new.dir)
        BY <1>2
    <2> QED BY <1>2, <1>4, <1>5, <2>1
<1> QED BY <1>3, <1>6 DEF Progress

LEMMA ListingsStep ==
    ASSUME Shape, Listings, [Next]_vars
    PROVE  Listings'
<1>0. UNCHANGED <<kind, filter>> /\ failed \subseteq failed'
    <2>1. ASSUME NEW t \in Tasks, Moves(t) PROVE UNCHANGED <<kind, filter>> /\ failed \subseteq failed'
        <3>1. UNCHANGED <<kind, filter>>
            BY <2>1 DEF Moves, Picks, Stays, ReadsSome, ReadsAll, GivesUp, Idles, Joins, Send, Steady, config
        <3>2. failed \subseteq failed'
            BY <2>1 DEF Moves, Picks, Stays, ReadsSome, ReadsAll, GivesUp, Idles, Joins, Send
        <3> QED BY <3>1, <3>2
    <2> QED BY <2>1, StepKinds DEF WindsUp, PassOn, Receive, Forward, Write, Bridge, config, walk
<1>1. \A t \in Tasks : Progress(t)'
    <2>1. ASSUME NEW t \in Tasks, Moves(t) PROVE \A u \in Tasks : Progress(u)'
        <3> SUFFICES ASSUME NEW u \in Tasks PROVE Progress(u)'
            OBVIOUS
        <3>1. CASE u = t
            <4>1. Moves(u) /\ Progress(u)
                BY <2>1, <3>1 DEF Listings
            <4> QED BY <4>1, MoveProgress
        <3>2. CASE u # t
            <4>1. task'[u] = task[u] /\ Progress(u)
                BY <2>1, <3>2, MoveTask DEF Listings
            <4> QED BY <1>0, <4>1, OthersProgress
        <3> QED BY <3>1, <3>2
    <2>2. CASE task' = task
        <3> SUFFICES ASSUME NEW u \in Tasks PROVE Progress(u)'
            OBVIOUS
        <3>1. task'[u] = task[u] /\ Progress(u)
            BY <2>2 DEF Listings
        <3> QED BY <1>0, <3>1, OthersProgress
    <2> QED BY <2>1, <2>2, StepKinds DEF WindsUp, PassOn, Receive, Forward, Write, Bridge, walk
<1>2. /\ \A d : Due(d)' = Due(d)
      /\ \A d, fs : Full(d, fs) => Full(d, fs)'
      /\ \A d : GivenUp(d) => GivenUp(d)'
      /\ \A b : Listing(b) => Listing(b)'
    BY <1>0, DuesStay
<1>3. Passed'
    <2>1. ASSUME NEW t \in Tasks, Joins(t) PROVE Passed'
        <3>1. /\ Progress(t) /\ task[t].st = "out"
              /\ coord' = [dir |-> task[t].dir, files |-> task[t].got, children |-> task[t].subdirs,
                           has |-> task[t].has, none |-> FALSE]
            BY <2>1 DEF Joins, At, Listings
        <3>2. PICK c : c = coord'
            OBVIOUS
        <3>3. c.dir = task[t].dir /\ c.files = task[t].got /\ c.has = task[t].has
            BY <3>1, <3>2
        <3>4. IF c.has THEN Listing(c) ELSE GivenUp(c.dir)
            BY <3>1, <3>3 DEF Progress, Holding, Listing
        <3>5. IF c.has THEN Listing(c)' ELSE GivenUp(c.dir)'
            BY <1>2, <3>4
        <3> QED BY <3>2, <3>5 DEF Passed, Listing
    <2>2. CASE coord' = coord
        <3>1. PICK c : c = coord
            OBVIOUS
        <3>2. ~ c.none => IF c.has THEN Listing(c) ELSE GivenUp(c.dir)
            BY <3>1 DEF Listings, Passed
        <3>3. ~ c.none => IF c.has THEN Listing(c)' ELSE GivenUp(c.dir)'
            BY <1>2, <3>2
        <3>4. coord' = c
            BY <2>2, <3>1
        <3> QED BY <3>3, <3>4 DEF Passed, Listing
    <2>3. CASE coord' = Nobody
        BY <2>3 DEF Passed, Nobody
    <2>4. ASSUME NEW t \in Tasks, Moves(t) PROVE Joins(t) \/ coord' = coord
        BY <2>4 DEF Moves, Picks, Stays, ReadsSome, ReadsAll, GivesUp, Idles, Send
    <2> QED BY <2>1, <2>2, <2>3, <2>4, StepKinds DEF WindsUp, PassOn, Receive, Forward, Write, Bridge, walk
<1>4. \A b \in written : Listing(b)'
    BY <1>2 DEF Listings
<1>5. PICK old : old = Line
    OBVIOUS
<1>6. old \in Seq(Batch) /\ \A i \in 1 .. Len(old) : Listing(old[i]) /\ Listing(old[i])'
    BY <1>2, <1>5, LineIsSeq DEF Listings, AllListings
<1>7. PICK new : new = Line'
    OBVIOUS
<1>8. (\A i \in 1 .. Len(new) : Listing(new[i])') /\ \A b \in written' : Listing(b)'
    <2>1. CASE Line' = Line /\ written' = written
        BY <1>4, <1>5, <1>6, <1>7, <2>1
    <2>2. ASSUME NEW b \in Batch, Listing(b), Line' = Append(Line, b), written' = written
          PROVE  (\A i \in 1 .. Len(new) : Listing(new[i])') /\ \A c \in written' : Listing(c)'
        <3>1. new = Append(old, b) /\ Listing(b)'
            BY <1>2, <1>5, <1>7, <2>2
        <3>2. /\ Len(new) = Len(old) + 1 /\ Len(old) \in Nat /\ new[Len(old) + 1] = b
              /\ \A i \in 1 .. Len(old) : new[i] = old[i]
            BY <1>6, <3>1, OneMore
        <3>3. \A i \in 1 .. Len(new) : i \in 1 .. Len(old) \/ i = Len(old) + 1
            BY <3>2
        <3> QED BY <1>4, <1>6, <2>2, <3>1, <3>2, <3>3
    <2>3. ASSUME NEW w \in Writers, Write(w)
          PROVE  (\A i \in 1 .. Len(new) : Listing(new[i])') /\ \A c \in written' : Listing(c)'
        <3>1. queue # <<>> /\ queue' = Tail(queue) /\ UNCHANGED <<chan, bridge>> /\ written' \subseteq written \cup {Head(queue)}
            BY <2>3 DEF Write
        <3>2. old # <<>> /\ new = Tail(old) /\ Head(old) = Head(queue)
            BY <1>5, <1>7, <3>1, LineShrinks
        <3>3. /\ \A i \in 1 .. Len(new) : i + 1 \in 1 .. Len(old) /\ new[i] = old[i + 1]
              /\ 1 \in 1 .. Len(old) /\ old[1] = Head(old)
            BY <1>6, <3>2, OneLess
        <3>4. Listing(Head(old))'
            BY <1>6, <3>3
        <3> QED BY <1>4, <1>6, <3>1, <3>2, <3>3, <3>4
    <2>4. ASSUME NEW t \in Tasks, Moves(t)
          PROVE  (\A i \in 1 .. Len(new) : Listing(new[i])') /\ \A c \in written' : Listing(c)'
        <3>1. CASE Send(t)
            <4>1. /\ UNCHANGED <<queue, bridge, written>> /\ task[t].st = "send" /\ Progress(t)
                  /\ chan' = Append(chan, [dir |-> task[t].dir, files |-> task[t].got])
                BY <3>1 DEF Send, At, Listings
            <4>2. task[t] \in Task
                BY DEF Shape
            <4>3. PICK b \in Batch : b = [dir |-> task[t].dir, files |-> task[t].got]
                BY <4>2 DEF Task, Batch
            <4>4. Listing(b)
                BY <4>1, <4>3 DEF Progress, Listing, Holding
            <4>5. Line' = Append(Line, b)
                BY <4>1, <4>3, LineGrows
            <4> QED BY <2>2, <4>1, <4>4, <4>5
        <3>2. CASE ~ Send(t)
            <4>1. UNCHANGED pipe
                BY <2>4, <3>2 DEF Moves, Picks, Stays, ReadsSome, ReadsAll, GivesUp, Idles, Joins, Steady
            <4> QED BY <2>1, <4>1 DEF pipe, Line
        <3> QED BY <3>1, <3>2
    <2>5. CASE WindsUp
        BY <2>1, <2>5 DEF WindsUp, Line
    <2>6. CASE Receive \/ Forward
        BY <2>1, <2>6, LineSame DEF Receive, Forward
    <2>7. CASE PassOn
        <3>1. /\ UNCHANGED <<queue, bridge, written>> /\ ~ coord.none /\ coord \in Result
              /\ IF coord.has THEN chan' = Append(chan, [dir |-> coord.dir, files |-> coord.files]) ELSE chan' = chan
            BY <2>7 DEF PassOn, Shape
        <3>2. CASE coord.has
            <4>1. PICK b \in Batch : b = [dir |-> coord.dir, files |-> coord.files]
                BY <3>1 DEF Result, Batch
            <4>2. Listing(b)
                BY <3>1, <3>2, <4>1 DEF Listings, Passed, Listing
            <4>3. Line' = Append(Line, b)
                BY <3>1, <3>2, <4>1, LineGrows
            <4> QED BY <2>2, <3>1, <4>2, <4>3
        <3>3. CASE ~ coord.has
            BY <2>1, <3>1, <3>3 DEF Line
        <3> QED BY <3>2, <3>3
    <2> QED BY <2>3, <2>4, <2>5, <2>6, <2>7, StepKinds
<1>9. AllListings(Line)'
    BY <1>7, <1>8 DEF AllListings, Listing
<1> QED BY <1>1, <1>3, <1>8, <1>9 DEF Listings

LEMMA ListingsInit == Init => Listings
<1> SUFFICES ASSUME Init PROVE Listings
    OBVIOUS
<1>1. \A t \in Tasks : task[t] = Idle
    BY DEF Init
<1>2. \A t \in Tasks : Progress(t)
    BY <1>1 DEF Progress, Holding, Idle
<1>3. Line = <<>>
    <2>1. <<>> \in Seq(Batch)
        BY EmptySeq
    <2>2. <<>> \o <<>> = <<>>
        BY <2>1, ConcatEmptySeq
    <2> QED BY <2>2 DEF Init, Line
<1>4. AllListings(Line)
    <2>1. Len(<<>>) = 0
        BY EmptySeq
    <2> QED BY <1>3, <2>1 DEF AllListings
<1> QED BY <1>2, <1>4 DEF Init, Listings, Passed, Nobody

-----------------------------------------------------------------------------
(* How the scan ends.                                                      *)
LEMMA EndingStep ==
    ASSUME Shape, Ending, [Next]_vars
    PROVE  Ending'
<1>1. ASSUME NEW t \in Tasks, Moves(t) PROVE Ending'
    <2>1. /\ UNCHANGED <<kind, scanner, closed, result, dropped>> /\ scanner = "run" /\ ~ closed /\ result # "ok"
        <3>1. UNCHANGED <<kind, scanner, closed, result, dropped>> /\ scanner = "run"
            BY <1>1 DEF Moves, Picks, Stays, ReadsSome, ReadsAll, GivesUp, Idles, Joins, Send, Steady, pipe, config
        <3>2. ~ closed
            BY <3>1 DEF Ending
        <3>3. result # "ok"
            BY <3>2 DEF Ending
        <3> QED BY <3>1, <3>2, <3>3
    <2>2. task \in [Tasks -> Task] /\ task[t] \in Task /\ \A u \in Tasks \ {t} : task'[u] = task[u]
        BY <1>1, MoveTask DEF Shape
    <2>3. kind = "nfs" /\ work' # {} => \E u \in Tasks : task'[u].st \notin {"empty", "gone"}
        <3>1. CASE task'[t].st \notin {"empty", "gone"}
            BY <3>1
        <3>2. CASE task'[t].st \in {"empty", "gone"}
            <4>1. Idles(t) /\ work' = work
                <5>1. CASE Picks(t)
                    BY <2>2, <3>2, <5>1 DEF Picks, Becomes, Idle
                <5>2. CASE Stays(t)
                    <6>1. PICK new \in {[task[t] EXCEPT !.st = "panicked"], [task[t] EXCEPT !.st = "attrs"],
                                        [task[t] EXCEPT !.st = "query"], [task[t] EXCEPT !.st = "page", !.page = 1]} :
                              Becomes(t, new)
                        BY <5>2 DEF Stays
                    <6>2. task'[t] = new
                        BY <2>2, <6>1 DEF Becomes
                    <6> QED BY <2>2, <3>2, <6>1, <6>2 DEF Task
                <5>3. CASE ReadsSome(t)
                    BY <2>2, <3>2, <5>3 DEF ReadsSome, Becomes, Task
                <5>4. CASE ReadsAll(t)
                    BY <2>2, <3>2, <5>4 DEF ReadsAll, Becomes, Task
                <5>5. CASE GivesUp(t) \/ Send(t)
                    BY <2>2, <3>2, <5>5 DEF GivesUp, Send, Go, Becomes, Task
                <5>6. CASE Joins(t)
                    BY <2>2, <3>2, <5>6 DEF Joins, Becomes, Idle
                <5>7. CASE Idles(t)
                    BY <5>7 DEF Idles
                <5> QED BY <1>1, <5>1, <5>2, <5>3, <5>4, <5>5, <5>6, <5>7 DEF Moves
            <4>2. work = {} \/ task[t].st = "empty"
                BY <2>2, <3>2, <4>1 DEF Idles, At, Becomes, Idle
            <4>3. CASE work # {} /\ kind = "nfs"
                <5>1. PICK u \in Tasks : task[u].st \notin {"empty", "gone"}
                    BY <4>3 DEF Ending
                <5>2. u # t
                    BY <4>2, <4>3, <5>1
                <5> QED BY <2>2, <5>1, <5>2
            <4> QED BY <4>1, <4>3
        <3> QED BY <3>1, <3>2
    <2> QED BY <2>1, <2>3 DEF Ending
<1>2. CASE WindsUp
    <2>1. UNCHANGED <<kind, work, task, coord, chan, bridge, queue>>
        BY <1>2 DEF WindsUp
    <2>2. kind' = "nfs" /\ work' # {} => \E u \in Tasks : task'[u].st \notin {"empty", "gone"}
        BY <2>1 DEF Ending
    <2>3. UNCHANGED LineDirs /\ \A u \in Tasks : Holding(u)' <=> Holding(u)
        BY <2>1 DEF LineDirs, Line, Holding
    <2>4. CASE /\ scanner = "run" /\ UNCHANGED <<closed, dropped, result>>
               /\ \/ scanner' = "err"
                  \/ scanner' = "ok" /\ kind = "nfs" /\ \A t \in Tasks : task[t].st = "gone"
                  \/ scanner' = "ok" /\ coord.none /\ work = {} /\ \A t \in Tasks : task[t].st = "idle"
        <3>1. ~ closed /\ result # "ok"
            BY <2>4 DEF Ending
        <3>2. scanner' = "ok" => \A u \in Tasks : ~ Holding(u)
            BY <2>4 DEF Holding
        <3>3. scanner' = "ok" => work = {} /\ coord.none
            <4>1. CASE kind = "nfs" /\ \A t \in Tasks : task[t].st = "gone"
                BY <4>1 DEF Ending, Shape, Nobody
            <4> QED BY <2>4, <4>1
        <3> QED BY <2>1, <2>2, <2>3, <2>4, <3>1, <3>2, <3>3 DEF Ending
    <2>5. CASE UNCHANGED <<scanner, closed, dropped, result>>
        BY <2>1, <2>2, <2>3, <2>5 DEF Ending
    <2>6. CASE /\ UNCHANGED <<scanner, dropped>> /\ chan = <<>> /\ bridge = <<>>
               /\ \/ scanner = "ok" /\ closed' = TRUE /\ UNCHANGED result
                  \/ result' = "err" /\ UNCHANGED closed
        BY <2>1, <2>2, <2>3, <2>6 DEF Ending
    <2>7. CASE /\ closed /\ UNCHANGED <<scanner, closed>> /\ result' \in {"ok", "err"}
               /\ dropped' = dropped \cup {queue[i].dir : i \in DOMAIN queue}
        <3>1. scanner = "ok" /\ chan = <<>> /\ bridge = <<>>
            BY <2>7 DEF Ending
        <3>2. queue \in Seq(Batch) /\ DOMAIN queue = 1 .. Len(queue)
            BY LenProperties DEF Shape
        <3>3. Line = queue
            BY <3>1, <3>2, ConcatEmptySeq DEF Line
        <3>4. LineDirs \subseteq dropped'
            BY <2>7, <3>2, <3>3 DEF LineDirs, DirsOf
        <3> QED BY <2>1, <2>2, <2>3, <2>7, <3>1, <3>4 DEF Ending
    <2> QED BY <1>2, <2>4, <2>5, <2>6, <2>7 DEF WindsUp
<1>3. CASE PassOn
    <2>1. UNCHANGED <<kind, scanner, closed, result>> /\ scanner = "run" /\ kind # "nfs"
        BY <1>3 DEF PassOn, config
    <2>2. ~ closed /\ result # "ok"
        BY <2>1 DEF Ending
    <2> QED BY <2>1, <2>2 DEF Ending
<1>4. CASE Receive \/ Forward
    <2>1. /\ UNCHANGED <<kind, work, task, coord, scanner, closed, result>>
          /\ chan # <<>> \/ bridge # <<>>
        BY <1>4 DEF Receive, Forward, Bridge, config, walk
    <2>2. ~ closed /\ result # "ok"
        BY <2>1 DEF Ending
    <2>3. \A u \in Tasks : Holding(u)' <=> Holding(u)
        BY <2>1 DEF Holding
    <2> QED BY <2>1, <2>2, <2>3 DEF Ending
<1>5. ASSUME NEW w \in Writers, Write(w) PROVE Ending'
    <2>1. /\ UNCHANGED <<kind, work, task, coord, scanner, closed, result, chan, bridge>>
          /\ queue # <<>> /\ queue' = Tail(queue) /\ dropped \subseteq dropped'
        BY <1>5 DEF Write, config, walk
    <2>2. LineDirs' \subseteq LineDirs
        <3>1. Line # <<>> /\ Line' = Tail(Line) /\ Line \in Seq(Batch)
            BY <2>1, LineShrinks, LineIsSeq
        <3>2. DirsOf(Line) = DirsOf(Tail(Line)) \cup {Head(Line).dir}
            BY <3>1, OneLess
        <3>3. DirsOf(Line') \subseteq DirsOf(Line)
            BY <3>1, <3>2
        <3> QED BY <3>3 DEF LineDirs
    <2>3. \A u \in Tasks : Holding(u)' <=> Holding(u)
        BY <2>1 DEF Holding
    <2> QED BY <2>1, <2>2, <2>3 DEF Ending
<1> QED BY <1>1, <1>2, <1>3, <1>4, <1>5, StepKinds

LEMMA EndingInit == Init => Ending
<1> SUFFICES ASSUME Init PROVE Ending
    OBVIOUS
<1>1. task = [t \in Tasks |-> Idle] /\ Tasks # {}
    BY BoundsAssumption DEF Init
<1>2. \E t \in Tasks : task[t].st \notin {"empty", "gone"}
    BY <1>1 DEF Idle
<1> QED BY <1>2 DEF Init, Ending

LEMMA InvInit == Init => Inv
BY ShapeInit, PlaceInit, ListingsInit, EndingInit DEF Inv, Place

LEMMA InvStep == Inv /\ [Next]_vars => Inv'
<1> SUFFICES ASSUME Inv, [Next]_vars PROVE Inv'
    OBVIOUS
<1>1. Shape /\ Place /\ Listings /\ Ending
    BY DEF Inv, Place
<1>2. ~ coord.none /\ ~ coord.has => GivenUp(coord.dir)
    BY <1>1 DEF Listings, Passed
<1>3. Shape'
    BY <1>1, ShapeStep
<1>4. Place'
    BY <1>1, <1>2, PlaceStep
<1>5. Listings'
    BY <1>1, ListingsStep
<1>6. Ending'
    BY <1>1, EndingStep
<1> QED BY <1>3, <1>4, <1>5, <1>6 DEF Inv, Place

(* What the scan knows, whatever its tasks and writers do: each directory  *)
(* that has to be found is somewhere, once, or below one not read yet, and *)
(* each listing is full.                                                   *)
THEOREM Invariance == Spec => []Inv
<1>1. Init => Inv
    BY InvInit
<1>2. Inv /\ [Next]_vars => Inv'
    BY InvStep
<1> QED BY <1>1, <1>2, PTL DEF Spec

-----------------------------------------------------------------------------
(* The log of a scan that has returned keeps its records.                  *)
LEMMA LogInvKeeps == LogInv => LogKeepsRecords
<1> SUFFICES ASSUME LogInv PROVE LogKeepsRecords
    OBVIOUS
<1>1. DOMAIN noted = 1 .. Len(noted)
    BY LenProperties DEF LogInv
<1> QED BY <1>1 DEF LogInv, LogKeepsRecords

(* Whatever fails, and in whatever order, the second recorder of the log   *)
(* costs a JSON or an XML log its first record, and no other.              *)
THEOREM LogKeeps == Spec => []LogKeepsRecords
<1>1. Init => Shape /\ LogInv
    BY ShapeInit, LogInit
<1>2. (Shape /\ LogInv) /\ [Next]_vars => (Shape /\ LogInv)'
    BY ShapeStep, LogStep
<1>3. Shape /\ LogInv => LogKeepsRecords
    BY LogInvKeeps
<1> QED BY <1>1, <1>2, <1>3, PTL DEF Spec

-----------------------------------------------------------------------------
(* Filters.  A filter that lets a path through lets its prefixes through.  *)
LEMMA ExcludedBelow ==
    ASSUME Shape, NEW p \in Entries, NEW n \in 0 .. Len(p), ExcludedDir(Pre(p, n))
    PROVE  ExcludedDir(p)
<1>1. /\ Len(p) \in Nat /\ n <= Len(p) /\ n \in Nat /\ Len(Pre(p, n)) = n
      /\ \A i \in 1 .. n : Pre(p, n)[i] = p[i]
    BY PathPrefixes
<1>2. PICK x \in filter.excDirs : Len(Pre(p, n)) >= Len(x) /\ Agree(x, Pre(p, n), Len(x))
    BY DEF ExcludedDir, MatchesSubtree
<1>3. Len(x) \in Nat
    BY <1>2, TreeAssumption, LenProperties DEF Shape
<1>4. Len(p) >= Len(x) /\ \A i \in 1 .. Len(x) : i \in 1 .. n
    BY <1>1, <1>2, <1>3
<1>5. Agree(x, p, Len(x))
    BY <1>1, <1>2, <1>4 DEF Agree
<1> QED BY <1>2, <1>4, <1>5 DEF ExcludedDir, MatchesSubtree

LEMMA WayToFile ==
    ASSUME Shape, NEW f \in Entries, EmitFile(f), NEW n \in 0 .. Len(f) - 1
    PROVE  Descend(Pre(f, n))
<1> DEFINE p == Pre(f, n)
<1>1. /\ Len(f) \in Nat /\ n < Len(f) /\ n \in Nat /\ Len(p) = n /\ n \in 0 .. Len(f)
      /\ \A i \in 1 .. n : p[i] = f[i]
    <2>1. Len(f) \in Nat
        BY TreeAssumption, LenProperties
    <2>2. n \in 0 .. Len(f) /\ n \in Nat /\ n < Len(f)
        BY <2>1
    <2> QED BY <2>1, <2>2, PathPrefixes
<1>2. ~ ExcludedDir(p)
    BY <1>1, ExcludedBelow DEF EmitFile
<1> HIDE DEF p
<1>3. CASE IncludedSubtree(f)
    <2>1. PICK x \in filter.incDirs : Len(f) >= Len(x) /\ Agree(x, f, Len(x))
        BY <1>3 DEF IncludedSubtree, MatchesSubtree
    <2>2. Len(x) \in Nat
        BY <2>1, TreeAssumption, LenProperties DEF Shape
    <2>3. CASE n <= Len(x)
        <3>1. Agree(x, p, n)
            <4>1. \A i \in 1 .. n : i \in 1 .. Len(x)
                BY <1>1, <2>2, <2>3
            <4> QED BY <1>1, <2>1, <4>1 DEF Agree
        <3>2. CanReachDir(x, p)
            BY <1>1, <2>3, <3>1 DEF CanReachDir
        <3> QED BY <1>2, <2>1, <3>2 DEF Descend, p
    <2>4. CASE ~ n <= Len(x)
        <3>1. Agree(x, p, Len(x))
            <4>1. \A i \in 1 .. Len(x) : i \in 1 .. n
                BY <1>1, <2>2, <2>4
            <4> QED BY <1>1, <2>1, <4>1 DEF Agree
        <3>2. Len(p) >= Len(x)
            BY <1>1, <2>2, <2>4
        <3>3. CanReachDir(x, p)
            BY <1>1, <2>4, <3>1, <3>2 DEF CanReachDir, MatchesSubtree
        <3> QED BY <1>2, <2>1, <3>3 DEF Descend, p
    <2> QED BY <2>3, <2>4
<1>4. CASE \E x \in filter.incFiles : MatchesExact(x, f)
    <2>1. PICK x \in filter.incFiles : Len(x) = Len(f) /\ Agree(x, f, Len(f))
        BY <1>4 DEF MatchesExact
    <2>2. x # <<>> /\ Len(p) <= Len(x) - 1
        BY <1>1, <2>1, EmptySeq
    <2>3. Agree(x, p, Len(p))
        <3>1. \A i \in 1 .. n : i \in 1 .. Len(f)
            BY <1>1
        <3> QED BY <1>1, <2>1, <3>1 DEF Agree
    <2>4. CanReachFile(x, p)
        BY <2>2, <2>3 DEF CanReachFile
    <2> QED BY <1>2, <2>1, <2>4 DEF Descend, p
<1>5. CASE ~ HasIncludes
    BY <1>2, <1>5 DEF Descend, p
<1> QED BY <1>3, <1>4, <1>5 DEF EmitFile

(* When the scan has returned Ok, what had to be found is written.         *)
LEMMA AllFound ==
    ASSUME Inv, result = "ok", NEW d \in Dirs, Wanted(d)
    PROVE  d \in WrittenDirs
<1>1. /\ closed /\ scanner = "ok" /\ work = {} /\ coord.none /\ LineDirs \subseteq dropped
      /\ \A t \in Tasks : ~ Holding(t)
    BY DEF Inv, Ending
<1>2. Kids = {}
    <2>1. coord.children = {}
        BY <1>1 DEF Inv, Shape, Nobody
    <2>2. \A t \in Tasks : task[t].subdirs = {}
        BY <1>1 DEF Inv, Shape, Holding
    <2> QED BY <2>1, <2>2 DEF Kids
<1>3. Waiting = {} /\ Held = {} /\ CoordDirs = {} /\ \A t \in Tasks : ~ Reading(t)
    BY <1>1, <1>2 DEF Waiting, Held, CoordDirs, Holding, Reading
<1>4. \A a, c : ~ Unread(a, c)
    BY <1>3 DEF Unread
<1>5. d \in Spots
    BY <1>4 DEF Inv, Found
<1>6. d \notin dropped
    <2>1. d \in Entries /\ Len(d) \in Nat
        BY TreeAssumption, LenProperties DEF Entries
    <2>2. Len(d) \in 0 .. Len(d)
        BY <2>1
    <2>3. Pre(d, Len(d)) = d
        BY <2>1, <2>2, PathPrefixes
    <2> QED BY <2>2, <2>3 DEF Wanted, Excused
<1> QED BY <1>1, <1>3, <1>5, <1>6 DEF Spots, Listed

LEMMA InvExhaustive == Inv => Exhaustive
<1> SUFFICES ASSUME Inv, result = "ok"
             PROVE  /\ stored = Cardinality({b.dir : b \in written})
                    /\ \A b \in written : \A f \in b.files : EmitFile(f) /\ ~ Skipped(f) /\ Parent(f) = b.dir
                    /\ \A f \in Files : EmitFile(f) /\ ~ Spoiled(f) /\ ~ Skipped(f) => \E b \in written : f \in b.files
                    /\ \A d \in Dirs : ~ HasIncludes /\ ~ ExcludedDir(d) /\ ~ Spoiled(d) /\ ~ Skipped(d) =>
                           \E b \in written : b.dir = d
    BY DEF Exhaustive
<1>0. Shape
    BY DEF Inv
<1>1. stored = Cardinality({b.dir : b \in written})
    BY DEF Inv, Apart, WrittenDirs
<1>2. ASSUME NEW b \in written, NEW f \in b.files
      PROVE  EmitFile(f) /\ ~ Skipped(f) /\ Parent(f) = b.dir
    <2>1. Listing(b) /\ b.dir \in Dirs
        BY DEF Inv, Listings, Shape, Batch
    <2>2. f \in Children(b.dir) /\ EmitFile(f) /\ ~ Skip(f)
        BY <2>1 DEF Listing, Due
    <2>3. ~ Skipped(b.dir)
        BY DEF Inv, Order, Spots, Listed, WrittenDirs
    <2>4. ~ Skipped(f)
        <3> SUFFICES ASSUME NEW n \in 0 .. Len(f) PROVE ~ Skip(Pre(f, n))
            BY DEF Skipped, Above, Pre
        <3>1. /\ Len(f) = Len(b.dir) + 1 /\ Len(b.dir) \in Nat /\ f \in Entries
              /\ Pre(f, Len(b.dir)) = b.dir /\ Pre(f, Len(b.dir) + 1) = f
            BY <2>1, <2>2, ChildPath
        <3>2. CASE n = Len(b.dir) + 1
            BY <2>2, <3>1, <3>2
        <3>3. CASE n # Len(b.dir) + 1
            <4>1. n \in 0 .. Len(b.dir) /\ Len(b.dir) \in 0 .. Len(f)
                BY <3>1, <3>3
            <4>2. Pre(f, n) = Pre(b.dir, n)
                BY <3>1, <4>1, PathPrefixes
            <4> QED BY <2>3, <4>1, <4>2 DEF Skipped, Above, Pre
        <3> QED BY <3>2, <3>3
    <2> QED BY <2>2, <2>4 DEF Children
<1>3. ASSUME NEW f \in Files, EmitFile(f), ~ Spoiled(f), ~ Skipped(f)
      PROVE  \E b \in written : f \in b.files
    <2>1. f \in Entries /\ f # <<>> /\ f \in Seq(ToSet(f)) /\ Len(f) \in Nat
        BY TreeAssumption, LenProperties DEF Entries
    <2>2. Len(f) # 0
        BY <2>1, EmptySeq
    <2>3. Len(f) - 1 \in 0 .. Len(f) /\ Len(f) - 1 \in 0 .. Len(f) - 1 /\ Len(f) \in 0 .. Len(f)
        BY <2>1, <2>2
    <2>4. PICK d : d = Pre(f, Len(f) - 1)
        OBVIOUS
    <2>5. d \in Dirs /\ f \in Children(d) /\ Len(d) = Len(f) - 1 /\ Pre(f, Len(f)) = f
        <3>1. d \in Dirs /\ Len(d) = Len(f) - 1 /\ Pre(f, Len(f)) = f
            BY <2>1, <2>3, <2>4, PathPrefixes
        <3>2. Pre(f, Len(f) - 1 + 1) \in Children(d)
            BY <2>1, <2>3, <2>4, StepDown
        <3>3. Len(f) - 1 + 1 = Len(f)
            BY <2>1
        <3> QED BY <3>1, <3>2, <3>3
    <2>6. \A n \in 0 .. Len(f) : ~ Skip(Pre(f, n)) /\ Pre(f, n) \notin failed \cup dropped
        BY <1>3 DEF Skipped, Spoiled, Above, Pre
    <2>7. Wanted(d)
        <3> SUFFICES ASSUME NEW n \in 0 .. Len(d) PROVE ~ Excused(Pre(d, n))
            BY DEF Wanted
        <3>1. n \in 0 .. Len(f) - 1 /\ n \in 0 .. Len(f)
            BY <2>1, <2>5
        <3>2. Pre(d, n) = Pre(f, n)
            BY <2>1, <2>3, <2>4, <2>5, PathPrefixes
        <3>3. Descend(Pre(f, n))
            BY <1>0, <1>3, <2>1, <3>1, WayToFile
        <3> QED BY <2>6, <3>1, <3>2, <3>3 DEF Excused
    <2>8. PICK b \in written : b.dir = d
        BY <2>5, <2>7, AllFound DEF WrittenDirs
    <2>9. d \notin failed /\ f \notin failed /\ ~ Skip(f)
        BY <2>3, <2>4, <2>5, <2>6
    <2>10. f \in Due(d)
        BY <1>3, <2>5, <2>9 DEF Due
    <2>11. Listing(b)
        BY DEF Inv, Listings
    <2> QED BY <2>8, <2>9, <2>10, <2>11 DEF Listing, Full
<1>4. ASSUME NEW d \in Dirs, ~ HasIncludes, ~ ExcludedDir(d), ~ Spoiled(d), ~ Skipped(d)
      PROVE  \E b \in written : b.dir = d
    <2>1. d \in Entries
        BY DEF Entries
    <2>2. \A n \in 0 .. Len(d) : ~ Skip(Pre(d, n)) /\ Pre(d, n) \notin failed \cup dropped
        BY <1>4 DEF Skipped, Spoiled, Above, Pre
    <2>3. Wanted(d)
        <3> SUFFICES ASSUME NEW n \in 0 .. Len(d) PROVE ~ Excused(Pre(d, n))
            BY DEF Wanted
        <3>1. Descend(Pre(d, n))
            BY <1>0, <1>4, <2>1, ExcludedBelow DEF Descend
        <3> QED BY <2>2, <3>1 DEF Excused
    <2> QED BY <2>3, AllFound DEF WrittenDirs
<1> QED BY <1>1, <1>2, <1>3, <1>4

(* A scan that returns Ok has written each file that the filters admit,    *)
(* with its own directory, once, and no others, unless it, or a directory  *)
(* above it, could not be read or was lost with a writer; and, when the    *)
(* filters only exclude, each directory.                                   *)
THEOREM ScanIsExhaustive == Spec => []Exhaustive
BY Invariance, InvExhaustive, PTL
=============================================================================
