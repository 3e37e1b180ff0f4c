------------------------------ MODULE ScanFiles -----------------------------
(***************************************************************************)
(* The files of a scan (scanner/engine.rs, scanner/metadata, scanner.rs).  *)
(* Writer threads take listings and append to files of their own: metadata *)
(* records, in segments of bounded size; a file cache, with the locators   *)
(* of the files' records; a directory cache, whose entries name a slice of *)
(* the file cache.  When they have ended, one thread reads it all back and *)
(* writes the control files, and then rewrites each with logical paths.    *)
(* A record is one step to write and to read; all files are written        *)
(* through buffers, so that the end of a file is at risk until it is       *)
(* closed, and when it is, an error goes unnoticed.  A full scan into      *)
(* empty directories, without shards (these are in RestoreJob; the diff of *)
(* an incremental scan is in MirrorBackup).                                *)
(***************************************************************************)
EXTENDS Naturals, Sequences, FiniteSets, SequencesExt

CONSTANTS
    MetaWriters,       \* writer threads, each with a shard of its own
    FilesOf,       \* the listing of each directory: a sequence of files
    Inode,         \* the inode of each file
    Size,          \* the size of the metadata record of each directory and file
    Limit,         \* the size of a metadata segment
    Kinds,         \* "native", "remote": who runs the scan
    MaxFaults      \* bound: errors and crashes

Directories == DOMAIN FilesOf
Files == UNION {Range(FilesOf[d]) : d \in Directories}

ASSUME ListingsAssumption ==
    /\ \A d, e \in Directories : Range(FilesOf[d]) \cap Range(FilesOf[e]) # {} => d = e
    /\ \A d \in Directories : FilesOf[d] \in Seq(Files) /\ IsInjective(FilesOf[d])
    /\ DOMAIN Inode = Files /\ \A f \in Files : Inode[f] \in Nat
    /\ DOMAIN Size = Directories \cup Files /\ \A x \in DOMAIN Size : Size[x] \in Nat \ {0}
    /\ Limit \in Nat /\ MaxFaults \in Nat /\ Kinds \subseteq {"native", "remote"}

VARIABLES
    kind, phase,
    queue,         \* listings no writer has taken
    up,            \* writers whose thread runs
    segments,      \* of each writer: its metadata files
    dcache, fcache,  \* of each writer
    groups,        \* the hardlink index: names by inode, with locators
    cut,           \* history: writers that lost the end of a file as they closed it
    dropped,       \* history: directories whose listing a panicked writer had
    left,          \* directory cache files to read, and of the one being read its entries
    ctrl,          \* the control files
    errors,        \* history: errors that are only logged
    faults

scanning == <<kind, queue, up, segments, dcache, fcache, groups, cut, dropped>>
fileVars == <<scanning, phase, left, ctrl, errors, faults>>

Fault == faults < MaxFaults /\ faults' = faults + 1
Controls == {"copy", "mtime", "hardlink"}
Absent == [recs |-> <<>>, torn |-> FALSE, paths |-> "none", count |-> 0]
-----------------------------------------------------------------------------
(* Metadata records.  A locator names the writer, the segment and the      *)
(* place in it (MetaEntryLocator).                                         *)
Ends(segment) ==
    LET end[k \in 0 .. Len(segment)] == IF k = 0 THEN 0 ELSE end[k - 1] + Size[segment[k]]
    IN end

Used(segment) == Ends(segment)[Len(segment)]

(* Faulty variant: only what is there is compared with the limit.          *)
HasRoom_Now(segs, x) == Used(Last(segs)) < Limit

(* check_room *)
HasRoom(segs, x) == Used(Last(segs)) + Size[x] <= Limit

PutMeta(segs, x) ==
    IF HasRoom(segs, x) THEN [segs EXCEPT ![Len(segs)] = Append(@, x)]
    ELSE Append(segs, <<x>>)

(* The segments of w after each of xs.                                     *)
Puts(w, xs) ==
    LET put[k \in 0 .. Len(xs)] == IF k = 0 THEN segments[w] ELSE PutMeta(put[k - 1], xs[k])
    IN put

(* Faulty variant: the segment is taken before there is room.              *)
Locator_Early(w, xs, k) ==
    LET segs == Puts(w, xs)[k]
    IN <<w, Len(Puts(w, xs)[k - 1]), Used(Front(Last(segs)))>>

(* What write_dirmeta and write_filemeta return for the k-th of xs.        *)
Locator(w, xs, k) ==
    LET segs == Puts(w, xs)[k]
    IN <<w, Len(segs), Used(Front(Last(segs)))>>

(* get_meta: the record at a locator, if all of it is there.               *)
Meta(loc) ==
    LET segs == segments[loc[1]]
    IN IF loc[2] > Len(segs) THEN {}
       ELSE {segs[loc[2]][j] : j \in {j \in DOMAIN segs[loc[2]] : Ends(segs[loc[2]])[j - 1] = loc[3]}}

FirstSegment == [w \in MetaWriters |-> << <<>> >>]
-----------------------------------------------------------------------------
(* process_scan_result: a directory and its files.                         *)
CacheEntry(w, xs, k) == [id |-> xs[k], loc |-> Locator(w, xs, k)]

Sorted(entries) ==
    LET order == CHOOSE p \in Bijection(DOMAIN entries, DOMAIN entries) :
                    \A i, j \in DOMAIN entries :
                        i < j => Inode[entries[p[i]].id] <= Inode[entries[p[j]].id]
    IN [i \in DOMAIN entries |-> entries[order[i]]]

Links(f) == Cardinality({g \in Files : Inode[g] = Inode[f]})

(* HardlinkIndex::add_file, for each file of more than one link.           *)
AddFile(index, entry) ==
    LET i == Inode[entry.id]
    IN IF i \in DOMAIN index THEN [index EXCEPT ![i] = Append(@, entry)]
       ELSE [j \in DOMAIN index \cup {i} |-> IF j = i THEN <<entry>> ELSE index[j]]

Index(w, xs, n) ==
    LET add[k \in 0 .. n] ==
            IF k = 0 THEN groups
            ELSE IF k > 1 /\ Links(xs[k]) > 1 THEN AddFile(add[k - 1], CacheEntry(w, xs, k))
            ELSE add[k - 1]
    IN IF kind = "native" THEN add[n] ELSE groups

(* Faulty variant: the slice begins where it ends.                         *)
SliceStart_After(w, d) == Len(fcache[w]) + Len(FilesOf[d])

SliceStart(w, d) == Len(fcache[w])

Slice(w, d, loc) == [id |-> d, loc |-> loc, count |-> Len(FilesOf[d]), from |-> SliceStart(w, d)]

(* A write that fails ends the thread, with any part of the listing        *)
(* written but its directory entry, which is the last.                     *)
WriteListing(w, d) ==
    /\ phase = "scan" /\ w \in up /\ d \in queue
    /\ queue' = queue \ {d}
    /\ LET xs == <<d>> \o FilesOf[d]
           entries == Sorted([k \in 1 .. Len(FilesOf[d]) |-> CacheEntry(w, xs, k + 1)])
       IN \/ /\ segments' = [segments EXCEPT ![w] = Puts(w, xs)[Len(xs)]]
             /\ fcache' = [fcache EXCEPT ![w] = @ \o entries]
             /\ dcache' = [dcache EXCEPT ![w] = Append(@, Slice(w, d, Locator(w, xs, 1)))]
             /\ groups' = Index(w, xs, Len(xs))
             /\ UNCHANGED <<up, dropped, faults>>
          \/ \E n \in 0 .. Len(xs), m \in 0 .. Len(entries) :
                /\ m > 0 => n = Len(xs)
                /\ segments' = [segments EXCEPT ![w] = Puts(w, xs)[n]]
                /\ fcache' = [fcache EXCEPT ![w] = @ \o SubSeq(entries, 1, m)]
                /\ groups' = Index(w, xs, n)
                /\ up' = up \ {w} /\ dropped' = dropped \cup {d} /\ Fault
                /\ UNCHANGED dcache
    /\ UNCHANGED <<kind, phase, cut, left, ctrl, errors>>

(* The queue is closed: the writer closes its files.  What of them is      *)
(* still in a buffer may be lost, without any trace.                       *)
EndWriter(w) ==
    /\ phase = "scan" /\ w \in up /\ queue = {}
    /\ up' = up \ {w}
    /\ \/ UNCHANGED <<segments, dcache, fcache, cut, faults>>
       \/ /\ \/ /\ \E n \in 0 .. Len(dcache[w]) - 1 : dcache' = [dcache EXCEPT ![w] = SubSeq(@, 1, n)]
                /\ UNCHANGED <<segments, fcache>>
             \/ /\ \E n \in 0 .. Len(fcache[w]) - 1 : fcache' = [fcache EXCEPT ![w] = SubSeq(@, 1, n)]
                /\ UNCHANGED <<segments, dcache>>
             \/ /\ \E n \in 0 .. Len(Last(segments[w])) - 1 :
                      segments' = [segments EXCEPT ![w][Len(segments[w])] = SubSeq(@, 1, n)]
                /\ UNCHANGED <<dcache, fcache>>
          /\ cut' = cut \cup {w} /\ Fault
    /\ UNCHANGED <<kind, phase, queue, groups, dropped, left, ctrl, errors>>

(* A thread that panicked is only logged.  That the directory of the       *)
(* control files cannot be made is, too, in a native scan.                 *)
JoinMetaWriters ==
    /\ phase = "scan" /\ up = {}
    /\ dropped' = dropped \cup queue /\ queue' = {}
    /\ \/ /\ phase' = "generate"
          /\ left' = [caches |-> MetaWriters, entries |-> <<>>]
          /\ ctrl' = [c \in Controls |->
                         IF c = "hardlink" THEN Absent ELSE [Absent EXCEPT !.paths = "physical"]]
          /\ UNCHANGED <<errors, faults>>
       \/ /\ phase' = IF kind = "native" THEN "complete" ELSE "failed"
          /\ errors' = errors \cup {"generate"} /\ Fault
          /\ UNCHANGED <<left, ctrl>>
    /\ UNCHANGED <<kind, up, segments, dcache, fcache, groups, cut>>
-----------------------------------------------------------------------------
(* generate_control_files.  Reading a record that is not there, and any    *)
(* failing write, ends the thread: the scan is never complete.             *)
DirRecord(entry) == [kind |-> "dir", id |-> entry.id, loc |-> entry.loc]
FileRecord(entry) == [kind |-> "file", id |-> entry.id, loc |-> entry.loc]
MtimeRecord(entry) == [kind |-> "mtime", id |-> entry.id]
InodeRecord(i) == [kind |-> "inode", id |-> i]

(* The slice of a directory, or what is left of it: the iterator of a      *)
(* cache just ends where it cannot read.                                   *)
FilesIn(w, entry) ==
    [k \in {k \in 1 .. entry.count : entry.from + k <= Len(fcache[w])} |->
        FileRecord(fcache[w][entry.from + k])]

Write(c, recs) == [ctrl[c] EXCEPT !.recs = @ \o recs]
Panic == phase' = "panicked" /\ UNCHANGED <<left, ctrl>>

OpenCache(w) ==
    /\ phase = "generate" /\ left.entries = <<>> /\ w \in left.caches
    /\ left' = [caches |-> left.caches \ {w}, entries |-> dcache[w]]
    /\ UNCHANGED <<scanning, phase, ctrl, errors, faults>>

GenerateDir ==
    /\ phase = "generate" /\ left.entries # <<>>
    /\ LET entry == Head(left.entries)
           w == entry.loc[1]
           recs == FilesIn(w, entry)
           readable == Meta(entry.loc) # {} /\ \A k \in DOMAIN recs : Meta(recs[k].loc) # {}
       IN \/ /\ readable
             /\ ctrl' = [ctrl EXCEPT !["copy"] = Write("copy", <<DirRecord(entry)>> \o recs),
                                     !["mtime"] = Write("mtime", <<MtimeRecord(entry)>>)]
             /\ left' = [left EXCEPT !.entries = Tail(@)]
             /\ UNCHANGED <<phase, faults>>
          \/ ~readable /\ Panic /\ UNCHANGED faults
          \/ Panic /\ Fault
    /\ UNCHANGED <<scanning, errors>>

(* The headers are written again, with the counts, when the file is done.  *)
Finish(file) == [file EXCEPT !.count = Len(file.recs)]

FinishControls ==
    /\ phase = "generate" /\ left = [caches |-> {}, entries |-> <<>>]
    /\ \/ /\ ctrl' = [ctrl EXCEPT !["copy"] = Finish(@), !["mtime"] = Finish(@)]
          /\ phase' = "copy" /\ UNCHANGED <<left, faults>>
       \/ Panic /\ Fault
    /\ UNCHANGED <<scanning, errors>>

(* normalize_control_artifacts: the copy and the mtime control files, then *)
(* those that only other scans have.  Each is read whole, written to a     *)
(* temporary file and renamed.  The first error ends it.                   *)
Readable(file) == ~file.torn

Logical(file) == Finish([file EXCEPT !.paths = "logical"])

Normalize(c, next) ==
    /\ phase = c
    /\ \/ /\ Readable(ctrl[c])
          /\ ctrl' = [ctrl EXCEPT ![c] = Logical(@)]
          /\ phase' = next
          /\ UNCHANGED <<errors, faults>>
       \/ /\ phase' = IF kind = "native" THEN "links" ELSE "failed"
          /\ errors' = errors \cup {"normalize"} /\ Fault
          /\ UNCHANGED ctrl
    /\ UNCHANGED <<scanning, left>>

NormalizeCopy == Normalize("copy", "mtime")
NormalizeMtime == Normalize("mtime", IF kind = "native" THEN "links" ELSE "complete")

(* write_to_file_with_source: each inode followed by its names.  An error  *)
(* leaves what was written, and the next step takes it as it is, unless it *)
(* ends within a record.                                                   *)
GroupOf(i) == <<InodeRecord(i)>> \o [k \in DOMAIN groups[i] |-> FileRecord(groups[i][k])]

GroupRecords ==
    LET order == SetToSeq(DOMAIN groups)
        recs[k \in 0 .. Len(order)] == IF k = 0 THEN <<>> ELSE recs[k - 1] \o GroupOf(order[k])
    IN recs[Len(order)]

WriteLinks ==
    /\ phase = "links"
    /\ LET whole == Finish([Absent EXCEPT !.recs = GroupRecords, !.paths = "physical"])
       IN \/ /\ ctrl' = [ctrl EXCEPT !["hardlink"] = whole]
             /\ UNCHANGED <<errors, faults>>
          \/ \E n \in 0 .. Len(GroupRecords), torn \in BOOLEAN :
                /\ ctrl' = [ctrl EXCEPT !["hardlink"] =
                       [whole EXCEPT !.recs = SubSeq(@, 1, n), !.torn = torn, !.count = 0]]
                /\ errors' = errors \cup {"hardlink"} /\ Fault
    /\ phase' = "relink"
    /\ UNCHANGED <<scanning, left>>

NormalizeLinks ==
    /\ phase = "relink" /\ phase' = "complete"
    /\ \/ /\ Readable(ctrl["hardlink"])
          /\ ctrl' = [ctrl EXCEPT !["hardlink"] = Logical(@)]
          /\ UNCHANGED <<errors, faults>>
       \/ /\ IF Readable(ctrl["hardlink"]) THEN Fault ELSE UNCHANGED faults
          /\ errors' = errors \cup {"normalize"}
          /\ UNCHANGED ctrl
    /\ UNCHANGED <<scanning, left>>

(* The process ends: of the control files being written a part is there.   *)
Ended == phase \in {"complete", "failed", "panicked", "crashed"}

Crash ==
    /\ ~Ended /\ phase' = "crashed" /\ Fault
    /\ IF phase = "generate"
       THEN \E n \in 0 .. Len(ctrl["copy"].recs), m \in 0 .. Len(ctrl["mtime"].recs), torn \in BOOLEAN :
               ctrl' = [ctrl EXCEPT !["copy"].recs = SubSeq(@, 1, n), !["copy"].torn = torn,
                                    !["mtime"].recs = SubSeq(@, 1, m)]
       ELSE UNCHANGED ctrl
    /\ UNCHANGED <<scanning, left, errors>>
-----------------------------------------------------------------------------
FilesInit ==
    /\ kind \in Kinds /\ phase = "scan" /\ queue = Directories /\ up = MetaWriters
    /\ segments = FirstSegment
    /\ dcache = [w \in MetaWriters |-> <<>>] /\ fcache = [w \in MetaWriters |-> <<>>]
    /\ groups = <<>> /\ cut = {} /\ dropped = {}
    /\ left = [caches |-> {}, entries |-> <<>>]
    /\ ctrl = [c \in Controls |-> Absent]
    /\ errors = {} /\ faults = 0

Done == Ended /\ UNCHANGED fileVars

FilesNext ==
    \/ \E w \in MetaWriters : EndWriter(w) \/ OpenCache(w) \/ \E d \in Directories : WriteListing(w, d)
    \/ JoinMetaWriters \/ GenerateDir \/ FinishControls
    \/ NormalizeCopy \/ NormalizeMtime \/ WriteLinks \/ NormalizeLinks
    \/ Crash \/ Done

FilesSpec == FilesInit /\ [][FilesNext]_fileVars
-----------------------------------------------------------------------------
FilesTypeOK ==
    /\ phase \in {"scan", "generate", "copy", "mtime", "links", "relink", "complete", "failed",
                  "panicked", "crashed"}
    /\ queue \subseteq Directories /\ up \subseteq MetaWriters
    /\ cut \subseteq MetaWriters /\ dropped \subseteq Directories
    /\ \A w \in MetaWriters : \A n \in DOMAIN segments[w] :
          /\ segments[w][n] \in Seq(Directories \cup Files)
          /\ Used(segments[w][n]) <= Limit \/ Len(segments[w][n]) = 1
    /\ \A w \in MetaWriters : \A n \in DOMAIN dcache[w] :
          dcache[w][n].from + dcache[w][n].count <= Len(fcache[w]) \/ w \in cut
    /\ DOMAIN ctrl = Controls
    /\ \A c \in Controls : ctrl[c].count \in {0, Len(ctrl[c].recs)}
    /\ faults \in 0 .. MaxFaults

(* The record of the given kind that the i-th one belongs to.              *)
Heading(recs, i, k) ==
    LET before == {j \in 1 .. i : recs[j].kind = k}
    IN recs[CHOOSE j \in before : \A n \in before : n <= j].id

(* What a control file says is right at every moment, also in one that a   *)
(* crash, a full disk or a panicked writer has left: a file follows its    *)
(* own directory, a name its own inode, and a locator leads to the record  *)
(* of just this entry (for names, whose records nobody has read yet, or to *)
(* none).  A directory read before the last one is read with all of its    *)
(* files, unless the writer lost the end of its files.                     *)
SoundEntries ==
    /\ LET recs == ctrl["copy"].recs IN
       \A i \in DOMAIN recs :
          /\ Meta(recs[i].loc) = {recs[i].id}
          /\ recs[i].kind = "file" => recs[i].id \in Range(FilesOf[Heading(recs, i, "dir")])
          /\ recs[i].kind = "dir" /\ recs[i].loc[1] \notin cut =>
                \/ \A f \in Range(FilesOf[recs[i].id]) : \E j \in DOMAIN recs :
                       recs[j].id = f /\ Heading(recs, j, "dir") = recs[i].id
                \/ \A j \in i + 1 .. Len(recs) : recs[j].kind = "file"
    /\ LET recs == ctrl["hardlink"].recs IN
       \A i \in DOMAIN recs : recs[i].kind = "file" =>
          /\ Meta(recs[i].loc) \subseteq {recs[i].id}
          /\ Inode[recs[i].id] = Heading(recs, i, "inode")

OfKind(recs, k) == {i \in DOMAIN recs : recs[i].kind = k}
Ids(recs, k) == {recs[i].id : i \in OfKind(recs, k)}
Once(recs, k) == \A i, j \in OfKind(recs, k) : recs[i].id = recs[j].id => i = j
Listed == Directories \ dropped
ListedFiles == UNION {Range(FilesOf[d]) : d \in Listed}

(* A scan reported complete has every listing in its control files exactly *)
(* once, and every group of links, except for what a panicked writer has   *)
(* dropped and what was lost as files were closed, and if the errors that  *)
(* a native scan only logs do not keep it from writing the files at all.   *)
CompleteUnlessLost ==
    phase = "complete" /\ cut = {} /\ "generate" \notin errors =>
        /\ LET recs == ctrl["copy"].recs IN
           /\ Once(recs, "dir") /\ Ids(recs, "dir") = Listed
           /\ Once(recs, "file") /\ Ids(recs, "file") = ListedFiles
        /\ LET recs == ctrl["mtime"].recs IN Once(recs, "mtime") /\ Ids(recs, "mtime") = Listed
        /\ kind = "native" /\ "hardlink" \notin errors =>
              LET recs == ctrl["hardlink"].recs IN
              /\ Once(recs, "inode") /\ Once(recs, "file")
              /\ {f \in ListedFiles : Links(f) > 1} \subseteq Ids(recs, "file")
=============================================================================
