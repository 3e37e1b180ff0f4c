-------------------------- MODULE RemoteCopyProofs --------------------------
(***************************************************************************)
(* Proofs about RemoteCopy, for every pairing of source and target, every  *)
(* tree and block size, and any number of tasks, connections, retries and  *)
(* failing calls.                                                          *)
(***************************************************************************)
EXTENDS RemoteCopy, SequenceTheorems, TLAPS

Ops == {"none", "open", "gather", "read", "ensure", "note", "lookup", "mkdir", "relookup",
        "create", "lookupfile", "srvcopy", "put", "attrs", "close"}
Outcomes == {"skipped", "made", "copied", "failed"}
Task == [st : {"todo", "run"} \cup Outcomes, op : Ops, seg : Nat, off : Nat, buf : 0 .. Block,
         put : Nat, try : 0 .. MaxRetries, jukebox : Nat, conn : 0 .. Conns]
AnyUnit == (Items \X Nat) \cup ({<<"old">>, <<"hole">>} \X Nat)

(* The task of a directory only makes it.                                  *)
DirOps == {"ensure", "note", "lookup", "mkdir", "relookup"}

(* The shape of the state.                                                 *)
Shape ==
    /\ way \in Ways /\ source \in Sources
    /\ task \in [Items -> Task]
    /\ \A i \in Items : /\ task[i].st = "todo" => task[i] = NewTask
                        /\ i \in Dirs /\ Running(i) => task[i].op \in DirOps
    /\ data \in [DOMAIN data -> Seq(AnyUnit)]
    /\ turn \in 1 .. Conns
    /\ holder \in [1 .. Conns -> (Items \X NfsOps) \cup {Nobody}]
    /\ given \subseteq Files
    /\ phase \in {"copy", "hardlink", "delete", "mtime", "done"}
    /\ at \in Nat \ {0}
    /\ faults \in 0 .. MaxFaults

-----------------------------------------------------------------------------
(* What the steps of a task make of it.                                    *)
LEMMA TaskFields ==
    ASSUME NEW t \in Task
    PROVE  /\ t.st \in {"todo", "run"} \cup Outcomes /\ t.op \in Ops
           /\ t.seg \in Nat /\ t.off \in Nat /\ t.buf \in 0 .. Block /\ t.put \in Nat
           /\ t.try \in 0 .. MaxRetries /\ t.jukebox \in Nat /\ t.conn \in 0 .. Conns
BY DEF Task

(* The record of a task, at an operation, its fields as given.             *)
Becomes(i, st, op, off, buf, put) ==
    /\ task' \in [Items -> Task]
    /\ \A j \in Items \ {i} : task'[j] = task[j]
    /\ task'[i].st = st /\ task'[i].op = op
    /\ task'[i].off = off /\ task'[i].buf = buf /\ task'[i].put = put

(* Where an item is left after a failed attempt.                           *)
Retries(i) == ~ Streamed(i) /\ Becomes(i, task[i].st, Restart(task[i].op), task[i].off, task[i].buf, 0)
Settles(i, st) == Becomes(i, st, "none", 0, 0, 0)
Goes(i, op) == Becomes(i, task[i].st, op, task[i].off, task[i].buf, task[i].put)

LEMMA SettleStep ==
    ASSUME Shape, NEW i \in Items, NEW st \in Outcomes, Settle(i, st)
    PROVE  Settles(i, st)
<1>1. task' = [task EXCEPT ![i] = [NewTask EXCEPT !.st = st]]
  BY DEF Settle
<1>2. [NewTask EXCEPT !.st = st] \in Task /\ Block \in Nat
  BY BoundsAssumption DEF NewTask, Task, Ops
<1>3. QED BY <1>1, <1>2 DEF Settles, Becomes, Shape, NewTask

LEMMA GoStep ==
    ASSUME Shape, NEW i \in Items, NEW op \in Ops, Go(i, op) \/ Then(i, op)
    PROVE  Goes(i, op)
<1>1. task[i] \in Task /\ 0 \in 0 .. Conns
  BY BoundsAssumption DEF Shape
<1>2. CASE Go(i, op)
  <2>1. task' = [task EXCEPT ![i] = [task[i] EXCEPT !.op = op]]
    BY <1>2 DEF Go
  <2>2. [task[i] EXCEPT !.op = op] \in Task
    BY <1>1 DEF Task
  <2>3. QED BY <1>1, <2>1, <2>2 DEF Goes, Becomes, Shape, Task
<1>3. CASE Then(i, op)
  <2>1. task' = [task EXCEPT ![i] = [task[i] EXCEPT !.op = op, !.conn = 0]]
    BY <1>3 DEF Then
  <2>2. [task[i] EXCEPT !.op = op, !.conn = 0] \in Task
    BY <1>1 DEF Task
  <2>3. QED BY <1>1, <2>1, <2>2 DEF Goes, Becomes, Shape, Task
<1>4. QED BY <1>2, <1>3

LEMMA AgainStep ==
    ASSUME Shape, NEW i \in Items, Again(i)
    PROVE  Retries(i) \/ Settles(i, "failed")
<1>1. task[i] \in Task /\ 0 \in 0 .. Conns /\ MaxRetries \in Nat
  BY BoundsAssumption DEF Shape
<1>2. CASE task[i].try < MaxRetries /\ ~ Streamed(i)
  <2> DEFINE new == [task[i] EXCEPT !.op = Restart(task[i].op), !.try = task[i].try + 1, !.seg = 0,
                                    !.put = 0, !.jukebox = 0, !.conn = 0]
  <2>1. task' = [task EXCEPT ![i] = new]
    BY <1>2 DEF Again
  <2>2. Restart(task[i].op) \in Ops /\ task[i].try + 1 \in 0 .. MaxRetries
    BY <1>1, <1>2 DEF Restart, Ops, Task
  <2>3. new \in Task
    BY <1>1, <2>2 DEF Task
  <2>4. QED BY <1>1, <1>2, <2>1, <2>3 DEF Retries, Becomes, Shape, Task
<1>3. CASE ~ (task[i].try < MaxRetries /\ ~ Streamed(i))
  BY <1>3, SettleStep DEF Again, Outcomes
<1>4. QED BY <1>2, <1>3

LEMMA JukeboxStep ==
    ASSUME Shape, NEW i \in Items, Jukebox(i)
    PROVE  Goes(i, task[i].op) \/ Again(i)
<1>1. task[i] \in Task /\ 0 \in 0 .. Conns
  BY BoundsAssumption DEF Shape
<1>2. CASE task[i].jukebox < JukeboxRetries
  <2> DEFINE new == [task[i] EXCEPT !.jukebox = task[i].jukebox + 1, !.conn = 0]
  <2>1. task' = [task EXCEPT ![i] = new]
    BY <1>2 DEF Jukebox
  <2>2. task[i].jukebox + 1 \in Nat
    BY <1>1 DEF Task
  <2>3. new \in Task
    BY <1>1, <2>2 DEF Task
  <2>4. QED BY <1>1, <2>1, <2>3 DEF Goes, Becomes, Shape, Task
<1>3. CASE ~ (task[i].jukebox < JukeboxRetries)
  BY <1>3 DEF Jukebox
<1>4. QED BY <1>2, <1>3

LEMMA WrittenStep ==
    ASSUME Shape, NEW i \in Items, Written(i)
    PROVE  LET end == task[i].off + task[i].buf
           IN \/ end >= source.size[i] /\ Settles(i, "copied")
              \/ ~ (end >= source.size[i]) /\ Becomes(i, task[i].st, "read", end, task[i].buf, task[i].put)
<1> DEFINE end == task[i].off + task[i].buf
<1>1. task[i] \in Task /\ 0 \in 0 .. Conns /\ 0 \in 0 .. MaxRetries /\ Block \in Nat
  BY BoundsAssumption DEF Shape
<1>2. CASE end >= source.size[i]
  BY <1>2, SettleStep DEF Written, Outcomes
<1>3. CASE ~ (end >= source.size[i])
  <2> DEFINE new == [task[i] EXCEPT !.off = end, !.op = "read", !.try = 0, !.conn = 0, !.jukebox = 0]
  <2>1. task' = [task EXCEPT ![i] = new]
    BY <1>3 DEF Written
  <2>2. end \in Nat
    BY <1>1 DEF Task
  <2>3. new \in Task
    BY <1>1, <2>2 DEF Task, Ops
  <2>4. QED BY <1>1, <1>3, <2>1, <2>3 DEF Becomes, Shape, Task
<1>4. QED BY <1>2, <1>3

-----------------------------------------------------------------------------
(* The shape is kept.                                                      *)
LEMMA WriteAtSeq ==
    ASSUME NEW s \in Seq(AnyUnit), NEW off \in Nat, NEW units \in Seq(AnyUnit)
    PROVE  LET end == off + Len(units)
               new == WriteAt(s, off, units)
           IN /\ new \in Seq(AnyUnit)
              /\ Len(new) = IF Len(s) < end THEN end ELSE Len(s)
              /\ \A i \in 1 .. Len(new) :
                    new[i] = IF i > off /\ i <= end THEN units[i - off]
                             ELSE IF i <= Len(s) THEN s[i] ELSE Hole
<1> DEFINE end == off + Len(units)
           size == IF Len(s) < end THEN end ELSE Len(s)
<1>1. Len(s) \in Nat /\ Len(units) \in Nat /\ size \in Nat
  OBVIOUS
<1>2. Hole \in AnyUnit
  BY DEF Hole, AnyUnit
<1>3. ASSUME NEW i \in 1 .. size
      PROVE  (IF i > off /\ i <= end THEN units[i - off] ELSE IF i <= Len(s) THEN s[i] ELSE Hole) \in AnyUnit
  <2>1. CASE i > off /\ i <= end
    <3>1. i - off \in 1 .. Len(units)
      BY <1>1, <2>1
    <3>2. QED BY <2>1, <3>1
  <2>2. CASE ~ (i > off /\ i <= end) /\ i <= Len(s)
    BY <1>1, <2>2
  <2>3. CASE ~ (i > off /\ i <= end) /\ ~ (i <= Len(s))
    BY <1>2, <2>3
  <2>4. QED BY <2>1, <2>2, <2>3
<1>4. WriteAt(s, off, units) \in [1 .. size -> AnyUnit]
  BY <1>3 DEF WriteAt
<1>5. WriteAt(s, off, units) \in Seq(AnyUnit) /\ Len(WriteAt(s, off, units)) = size
  <2>1. \A w : w \in [1 .. size -> AnyUnit] => w \in Seq(AnyUnit) /\ Len(w) = size
    <3> HIDE DEF size
    <3> QED BY <1>1
  <2>2. QED BY <1>4, <2>1
<1>6. QED BY <1>5 DEF WriteAt

LEMMA SourceFacts ==
    ASSUME Shape, NEW f \in Files
    PROVE  source.size[f] \in Nat /\ source.have[f] \in Nat /\ task[f] \in Task /\ f \in Items
<1>1. source.size \in [Files -> Nat] /\ source.have \in [Files -> Nat]
  BY TreeAssumption DEF Shape
<1>2. QED BY <1>1 DEF Shape, Items

(* What is read is left of what the source has and the task wants.         *)
LEMMA LeftFacts ==
    ASSUME Shape, NEW f \in Files
    PROVE  /\ Left(f) \in Nat
           /\ Left(f) > 0 => task[f].off + Left(f) <= source.size[f] /\ task[f].off + Left(f) <= source.have[f]
           /\ Left(f) = 0 => task[f].off >= source.size[f] \/ task[f].off >= source.have[f]
<1>1. source.size[f] \in Nat /\ source.have[f] \in Nat /\ task[f].off \in Nat
  BY SourceFacts, TaskFields
<1>2. QED BY <1>1 DEF Left

-----------------------------------------------------------------------------
(* How far the copy of a file is.  Its first n units are at its place.     *)
HasUnits(f, n, d) ==
    n = 0 \/ /\ MapControl(f) \in DOMAIN d /\ n <= Len(d[MapControl(f)])
             /\ \A k \in 1 .. n : d[MapControl(f)][k] = Unit(f, k)

(* When its place must be there.                                           *)
Placed(f, op, off) ==
    \/ off > 0 \/ op \in {"lookupfile", "srvcopy", "put", "attrs", "close"}
    \/ op = "read" /\ Streams(f)

Reached(op, off, buf, put) ==
    IF op = "read" THEN off ELSE IF op \in {"attrs", "close"} THEN off + buf ELSE off + put
Bound(op, off, buf) == IF op = "read" THEN off ELSE off + buf

(* What the record of its task says of it.                                 *)
Fits(f, op, off, buf, put) ==
    /\ off <= source.size[f] /\ off <= source.have[f]
    /\ op # "read" => off + buf <= source.size[f] /\ off + buf <= source.have[f]
    /\ put <= buf
    /\ op \notin {"read", "put", "attrs", "close"} => put = 0
    /\ op = "open" => way.reader # "source" /\ off = 0 /\ buf = 0
    /\ op = "srvcopy" => Streams(f)
    /\ op \notin {"read", "put"} /\ Streams(f) => off = 0 /\ buf = 0

Good(f, op, off, buf, put, d) ==
    /\ Fits(f, op, off, buf, put)
    /\ HasUnits(f, Reached(op, off, buf, put), d)
    /\ Placed(f, op, off) =>
          /\ MapControl(f) \in DOMAIN d
          /\ way.target = "smb" => Len(d[MapControl(f)]) <= Bound(op, off, buf)

(* The two gaps, and what a copied file is without them.                   *)
Gap(f) ==
    \/ Streams(f) /\ source.have[f] < source.size[f]
    \/ way.reader = "smb" /\ source.size[f] = 0

Complete(f, d) ==
    /\ MapControl(f) \in DOMAIN d /\ HasUnits(f, source.size[f], d)
    /\ way.target = "smb" /\ source.have[f] = source.size[f] =>
          Len(d[MapControl(f)]) = source.size[f]

(* No entry that the delete phase looks for is where a file was copied to. *)
Elsewhere ==
    \A k \in 1 .. Len(GoneFiles), f \in Files : TargetRelative(GoneFiles[k]) # MapControl(f)

FileInv(f) ==
    /\ Running(f) => Good(f, task[f].op, task[f].off, task[f].buf, task[f].put, data)
    /\ task[f].st = "copied" /\ f \notin given /\ ~ Gap(f)
       /\ (phase \in {"copy", "hardlink"} \/ Elsewhere) => Complete(f, data)

(* What is known of directories is so, until the phases begin.             *)
Noting == {"note", "relookup"}

Known ==
    /\ phase # "copy" => \A i \in Items : Ended(i)
    /\ phase = "copy" =>
          /\ cache \subseteq dirs
          /\ \A i \in Items : Running(i) /\ task[i].op \in Noting => Next_(i) \in dirs

Inv == Shape /\ Known /\ \A f \in Files : FileInv(f)

-----------------------------------------------------------------------------
(* Where a step of a task leaves it, and what it writes: its own file.     *)
Lands(i) ==
    \/ \E st \in {"skipped", "made", "failed"} : Settles(i, st)
    \/ /\ i \in Files /\ Settles(i, "copied")
       /\ i \in given' \/ Gap(i) \/ Complete(i, data')
    \/ \E op \in Ops, off \in Nat, buf \in Nat, put \in Nat :
          /\ Becomes(i, "run", op, off, buf, put)
          /\ i \in Dirs => op \in DirOps
          /\ i \in Files => Good(i, op, off, buf, put, data')

Writes(i) ==
    /\ data' \in [DOMAIN data' -> Seq(AnyUnit)]
    /\ \A q \in DOMAIN data : i \in Dirs \/ q # MapControl(i) => q \in DOMAIN data' /\ data'[q] = data[q]
    /\ \A q \in DOMAIN data' \ DOMAIN data : i \in Files /\ q = MapControl(i)

LEMMA WayFacts ==
    ASSUME Shape
    PROVE  /\ way.reader \in {"source", "smb", "stream"} /\ way.target \in {"nfs", "smb"}
           /\ way.reader = "stream" => way.target = "smb"
<1>1. \/ way \in {LocalToSmb, NfsToSmb}
      \/ \E b \in BOOLEAN : way \in {LocalToNfs(b), NfsToNfs(b)}
      \/ \E a, b \in BOOLEAN : way \in {SmbToNfs(a, b), SmbToSmb(a, b)}
  BY WaysAssumption DEF Shape
<1>2. QED BY <1>1 DEF Way, LocalToNfs, NfsToNfs, NfsToSmb, LocalToSmb, SmbToNfs, SmbToSmb

LEMMA Fewer ==
    ASSUME NEW f \in Files, NEW d, NEW n \in Nat, NEW m \in Nat, m <= n, HasUnits(f, n, d),
           MapControl(f) \in DOMAIN d => Len(d[MapControl(f)]) \in Nat
    PROVE  HasUnits(f, m, d)
BY DEF HasUnits

LEMMA ItemFacts ==
    ASSUME Shape, NEW i \in Items
    PROVE  /\ i \in Dirs \/ i \in Files
           /\ ~ (i \in Dirs /\ i \in Files)
           /\ task[i].op \in Ops /\ task[i].off \in Nat /\ task[i].buf \in Nat /\ task[i].put \in Nat
           /\ i \in Dirs /\ Running(i) => task[i].op \in DirOps
           /\ MapControl(i) \in DOMAIN data => Len(data[MapControl(i)]) \in Nat
<1>1. task[i] \in Task /\ Block \in Nat
  BY BoundsAssumption DEF Shape
<1>2. MapControl(i) \in DOMAIN data => data[MapControl(i)] \in Seq(AnyUnit)
  BY DEF Shape
<1>3. QED BY <1>1, <1>2, TreeAssumption DEF Items, Task, Shape

LEMMA Unwritten ==
    ASSUME Shape, NEW i \in Items, data' = data
    PROVE  Writes(i)
BY DEF Shape, Writes

LEMMA RunLands ==
    ASSUME Shape, NEW i \in Items, NEW op \in Ops, NEW off \in Nat, NEW buf \in Nat, NEW put \in Nat,
           Becomes(i, "run", op, off, buf, put), i \in Dirs => op \in DirOps,
           i \in Files => Good(i, op, off, buf, put, data')
    PROVE  Lands(i)
BY DEF Lands

(* A failed attempt begins again without any unit of its block.            *)
LEMMA AgainLands ==
    ASSUME Shape, NEW i \in Items, Running(i), i \in Files => FileInv(i), Again(i), data' = data
    PROVE  Lands(i)
<1>1. CASE Settles(i, "failed")
  BY <1>1 DEF Lands
<1>2. CASE Retries(i)
  <2> DEFINE op == task[i].op
             off == task[i].off
             buf == task[i].buf
  <2>1. op \in Ops /\ off \in Nat /\ buf \in Nat /\ task[i].put \in Nat /\ Restart(op) \in Ops
        /\ (MapControl(i) \in DOMAIN data => Len(data[MapControl(i)]) \in Nat)
    BY ItemFacts DEF Restart, Ops
  <2>2. Becomes(i, "run", Restart(op), off, buf, 0)
    BY <1>2 DEF Retries, Running
  <2>3. i \in Dirs => Restart(op) \in DirOps
    BY ItemFacts DEF Restart, DirOps
  <2>4. ASSUME i \in Files PROVE Good(i, Restart(op), off, buf, 0, data')
    <3>1. Good(i, op, off, buf, task[i].put, data) /\ ~ Streams(i)
      BY <1>2, <2>4 DEF FileInv, Retries, Streamed
    <3>2. source.size[i] \in Nat /\ source.have[i] \in Nat
      BY <2>4, SourceFacts
    <3>3. Fits(i, Restart(op), off, buf, 0)
      BY <2>1, <3>1, <3>2 DEF Good, Fits, Restart
    <3>4. HasUnits(i, off, data)
      BY <2>1, <2>4, <3>1, Fewer DEF Good, Reached
    <3>5. HasUnits(i, Reached(Restart(op), off, buf, 0), data)
      BY <2>1, <3>4 DEF Reached, Restart
    <3>6. Placed(i, Restart(op), off) =>
             /\ MapControl(i) \in DOMAIN data
             /\ way.target = "smb" => Len(data[MapControl(i)]) <= Bound(Restart(op), off, buf)
      BY <2>1, <3>1 DEF Good, Placed, Restart, Bound
    <3>7. QED BY <3>3, <3>5, <3>6 DEF Good
  <2>5. QED BY <2>1, <2>2, <2>3, <2>4, RunLands
<1>3. QED BY <1>1, <1>2, AgainStep

(* A block that is written ends the copy, or the next one is read.         *)
LEMMA WrittenLands ==
    ASSUME Shape, NEW i \in Files, Running(i), NEW op \in {"put", "attrs", "close"}, Written(i),
           Good(i, op, task[i].off, task[i].buf, task[i].buf, data'),
           task[i].put <= task[i].buf, data' \in [DOMAIN data' -> Seq(AnyUnit)]
    PROVE  Lands(i)
<1> DEFINE off == task[i].off
           buf == task[i].buf
           end == off + buf
           p == MapControl(i)
<1>1. off \in Nat /\ buf \in Nat /\ task[i].put \in Nat /\ source.size[i] \in Nat /\ source.have[i] \in Nat
      /\ i \in Items /\ ~ (i \in Dirs)
  BY SourceFacts, ItemFacts DEF Items
<1>2. p \in DOMAIN data' /\ Len(data'[p]) \in Nat /\ HasUnits(i, end, data')
      /\ end <= source.size[i] /\ end <= source.have[i]
      /\ (way.target = "smb" => Len(data'[p]) <= end)
  <2>1. p \in DOMAIN data' /\ HasUnits(i, end, data') /\ end <= source.size[i] /\ end <= source.have[i]
        /\ (way.target = "smb" => Len(data'[p]) <= end)
    BY DEF Good, Fits, Placed, Reached, Bound
  <2>2. QED BY <2>1
<1>3. CASE end >= source.size[i] /\ Settles(i, "copied")
  <2>1. end = source.size[i]
    <3>1. end \in Nat /\ end <= source.size[i] /\ end >= source.size[i]
      BY <1>1, <1>2, <1>3
    <3>2. QED BY <1>1, <3>1
  <2>2. Complete(i, data')
    BY <1>1, <1>2, <2>1 DEF Complete, HasUnits
  <2>3. QED BY <1>3, <2>2 DEF Lands
<1>4. CASE ~ (end >= source.size[i]) /\ Becomes(i, task[i].st, "read", end, buf, task[i].put)
  <2>1. Fits(i, "read", end, buf, task[i].put)
    BY <1>1, <1>2, <1>4 DEF Fits
  <2>2. Good(i, "read", end, buf, task[i].put, data')
    BY <1>2, <2>1 DEF Good, Reached, Bound
  <2>3. Becomes(i, "run", "read", end, buf, task[i].put) /\ "read" \in Ops /\ end \in Nat
    BY <1>1, <1>4 DEF Running, Ops
  <2>4. QED BY <1>1, <2>2, <2>3, RunLands
<1>5. QED BY <1>1, <1>3, <1>4, WrittenStep

(* A file that has the first units of a source file, and the next ones.    *)
LEMMA FunctionIsSeq ==
    ASSUME NEW S, NEW n \in Nat, NEW u \in [1 .. n -> S]
    PROVE  u \in Seq(S) /\ Len(u) = n
OBVIOUS

Begins(f, s, n) == \A k \in 1 .. n : k <= Len(s) /\ s[k] = Unit(f, k)

Follow(f, units, done, n) == Len(units) = n /\ \A k \in 1 .. n : units[k] = Unit(f, done + k)

LEMMA Extended ==
    ASSUME NEW f \in Items, NEW s \in Seq(AnyUnit), NEW done \in Nat, NEW n \in Nat, Begins(f, s, done),
           NEW units \in Seq(AnyUnit), Follow(f, units, done, n)
    PROVE  /\ WriteAt(s, done, units) \in Seq(AnyUnit)
           /\ Len(WriteAt(s, done, units)) = IF Len(s) < done + n THEN done + n ELSE Len(s)
           /\ \A k \in 1 .. done + n : WriteAt(s, done, units)[k] = Unit(f, k)
<1> USE DEF Begins, Follow
<1>2. PICK new : new = WriteAt(s, done, units)
  OBVIOUS
<1>3. /\ new \in Seq(AnyUnit)
      /\ Len(new) = IF Len(s) < done + n THEN done + n ELSE Len(s)
      /\ \A k \in 1 .. Len(new) :
            new[k] = IF k > done /\ k <= done + n THEN units[k - done]
                     ELSE IF k <= Len(s) THEN s[k] ELSE Hole
  <2>1. LET end == done + Len(units)
        IN /\ new \in Seq(AnyUnit)
           /\ Len(new) = IF Len(s) < end THEN end ELSE Len(s)
           /\ \A i \in 1 .. Len(new) :
                 new[i] = IF i > done /\ i <= end THEN units[i - done]
                          ELSE IF i <= Len(s) THEN s[i] ELSE Hole
    BY <1>2, WriteAtSeq
  <2>2. QED BY <2>1
<1>4. Len(s) \in Nat /\ Len(new) \in Nat
  BY <1>3
<1>5. ASSUME NEW k \in 1 .. done + n PROVE new[k] = Unit(f, k)
  <2>1. k \in 1 .. Len(new)
    BY <1>3, <1>4
  <2>2. CASE k > done
    <3>1. k - done \in 1 .. n /\ done + (k - done) = k
      BY <2>2
    <3>2. units[k - done] = Unit(f, k)
      BY <3>1
    <3>3. QED BY <1>3, <2>1, <2>2, <3>2
  <2>3. CASE k <= done
    <3>1. k <= Len(s) /\ s[k] = Unit(f, k) /\ ~ (k > done)
      BY <2>3
    <3>2. QED BY <1>3, <2>1, <3>1
  <2>4. QED BY <2>2, <2>3
<1>6. QED BY <1>2, <1>3, <1>5

(* More units of a block.                                                  *)
LEMMA PutGood ==
    ASSUME Shape, NEW i \in Files, NEW n \in 1 .. task[i].buf - task[i].put, Put(i, n),
           Good(i, "put", task[i].off, task[i].buf, task[i].put, data)
    PROVE  /\ Writes(i)
           /\ Good(i, "put", task[i].off, task[i].buf, task[i].put + n, data')
           /\ task[i].put + n = task[i].buf /\ ~ Streams(i) =>
                 /\ Good(i, "attrs", task[i].off, task[i].buf, task[i].put + n, data')
                 /\ Good(i, "close", task[i].off, task[i].buf, task[i].put, data')
<1>1. PICK off \in Nat, buf \in Nat, put \in Nat : task[i].off = off /\ task[i].buf = buf /\ task[i].put = put
  BY ItemFacts DEF Items
<1>2. PICK p : p = MapControl(i)
  OBVIOUS
<1>3. n \in Nat \ {0} /\ put + n <= buf /\ i \in Items /\ ~ (i \in Dirs)
  BY <1>1, ItemFacts DEF Items
<1>4. p \in DOMAIN data /\ HasUnits(i, off + put, data) /\ (way.target = "smb" => Len(data[p]) <= off + buf)
  BY <1>1, <1>2 DEF Good, Placed, Reached, Bound
<1>5. data[p] \in Seq(AnyUnit)
  BY <1>4 DEF Shape
<1>6. \A k \in 1 .. off + put : k <= Len(data[p]) /\ data[p][k] = Unit(i, k)
  BY <1>1, <1>2, <1>4, <1>5 DEF HasUnits
<1>7. PICK units : units = [k \in 1 .. n |-> Unit(i, (off + put) + k)]
  OBVIOUS
<1>8. PICK new : new = WriteAt(data[p], off + put, units)
  OBVIOUS
<1>9. /\ new \in Seq(AnyUnit)
      /\ Len(new) = IF Len(data[p]) < (off + put) + n THEN (off + put) + n ELSE Len(data[p])
      /\ \A k \in 1 .. (off + put) + n : new[k] = Unit(i, k)
  <2>1. off + put \in Nat
    BY <1>1
  <2>2. PICK done \in Nat : done = off + put
    BY <2>1
  <2>3. PICK old \in Seq(AnyUnit) : old = data[p]
    BY <1>5
  <2>4. n \in Nat
    BY <1>3
  <2>5. units \in Seq(AnyUnit) /\ Len(units) = n
    <3>1. \A k \in 1 .. n : Unit(i, done + k) \in AnyUnit
      BY <1>3 DEF Unit, AnyUnit
    <3>2. units \in [1 .. n -> AnyUnit]
      BY <1>7, <2>2, <3>1
    <3>3. QED BY <2>4, <3>2, FunctionIsSeq
  <2>6. Begins(i, old, done) /\ Follow(i, units, done, n)
    BY <1>6, <1>7, <2>2, <2>3, <2>5 DEF Begins, Follow
  <2>7. /\ WriteAt(old, done, units) \in Seq(AnyUnit)
        /\ Len(WriteAt(old, done, units)) = IF Len(old) < done + n THEN done + n ELSE Len(old)
        /\ \A k \in 1 .. done + n : WriteAt(old, done, units)[k] = Unit(i, k)
    BY <1>3, <2>2, <2>4, <2>5, <2>6, Extended
  <2>8. QED BY <1>8, <2>2, <2>3, <2>7
<1>10. data' = [data EXCEPT ![p] = new]
  BY <1>1, <1>2, <1>7, <1>8 DEF Put, Units
<1>11. DOMAIN data' = DOMAIN data /\ data'[p] = new /\ \A q \in DOMAIN data : q # p => data'[q] = data[q]
  BY <1>4, <1>10
<1>12. Writes(i)
  <2>1. data' \in [DOMAIN data' -> Seq(AnyUnit)]
    BY <1>9, <1>10, <1>11 DEF Shape
  <2>2. QED BY <1>2, <1>3, <1>11, <2>1 DEF Writes
<1>13. HasUnits(i, off + (put + n), data')
  <2>1. (off + put) + n = off + (put + n) /\ (off + put) + n <= Len(new)
    BY <1>1, <1>3, <1>5, <1>9
  <2>2. QED BY <1>2, <1>4, <1>9, <1>11, <2>1 DEF HasUnits
<1>14. way.target = "smb" => Len(new) <= off + buf
  BY <1>1, <1>3, <1>4, <1>5, <1>9
<1>15. Fits(i, "put", off, buf, put)
  BY <1>1 DEF Good
<1>16. Fits(i, "put", off, buf, put + n)
  BY <1>1, <1>3, <1>15 DEF Fits
<1>17. ASSUME NEW op \in {"put", "attrs", "close"}, NEW now \in {put, put + n}, op = "put" => now = put + n,
              op # "put" => put + n = buf /\ ~ Streams(i)
       PROVE  Good(i, op, off, buf, now, data')
  <2>1. Fits(i, op, off, buf, now)
    BY <1>15, <1>16, <1>17 DEF Fits
  <2>2. HasUnits(i, Reached(op, off, buf, now), data')
    BY <1>13, <1>17 DEF Reached
  <2>3. MapControl(i) \in DOMAIN data' /\ (way.target = "smb" => Len(data'[MapControl(i)]) <= Bound(op, off, buf))
    BY <1>2, <1>4, <1>11, <1>14 DEF Bound
  <2>4. QED BY <2>1, <2>2, <2>3 DEF Good
<1>18. QED BY <1>1, <1>12, <1>17

-----------------------------------------------------------------------------
(* Where each of its steps leaves a task: it stays in good order.          *)
PlainOps == DirOps \cup {"gather", "create"}

LEMMA PlainLands ==
    ASSUME Shape, NEW i \in Items, Running(i), i \in Files => FileInv(i), task[i].op \in PlainOps,
           NEW op \in PlainOps, i \in Dirs => op \in DirOps, Goes(i, op), data' = data
    PROVE  Lands(i)
<1>1. op \in Ops /\ task[i].off \in Nat /\ task[i].buf \in Nat /\ task[i].put \in Nat
  BY ItemFacts DEF PlainOps, DirOps, Ops
<1>2. Becomes(i, "run", op, task[i].off, task[i].buf, task[i].put)
  BY DEF Goes, Running
<1>3. ASSUME i \in Files PROVE Good(i, op, task[i].off, task[i].buf, task[i].put, data')
  <2>1. Good(i, task[i].op, task[i].off, task[i].buf, task[i].put, data)
    BY <1>3 DEF FileInv
  <2>2. op \notin {"open", "read", "put", "attrs", "close", "lookupfile", "srvcopy"}
        /\ task[i].op \notin {"open", "read", "put", "attrs", "close", "lookupfile", "srvcopy"}
    BY DEF PlainOps, DirOps
  <2>3. QED BY <2>1, <2>2 DEF Good, Fits, Reached, Placed, Bound
<1>4. QED BY <1>1, <1>2, <1>3, RunLands

LEMMA SameLands ==
    ASSUME Shape, NEW i \in Items, Running(i), i \in Files => FileInv(i), Goes(i, task[i].op), data' = data
    PROVE  Lands(i)
<1>1. Becomes(i, "run", task[i].op, task[i].off, task[i].buf, task[i].put)
  BY DEF Goes, Running
<1>2. QED BY <1>1, ItemFacts, RunLands DEF FileInv

LEMMA JukeboxLands ==
    ASSUME Shape, NEW i \in Items, Running(i), i \in Files => FileInv(i), Jukebox(i), data' = data
    PROVE  Lands(i)
BY JukeboxStep, SameLands, AgainLands

LEMMA StartLands ==
    ASSUME Shape, NEW i \in Items, Start(i)
    PROVE  Lands(i) /\ Writes(i)
<1>1. Writes(i)
  BY Unwritten DEF Start, target
<1>2. CASE i \in source.links
  <2>1. Settle(i, "skipped")
    BY <1>2 DEF Start
  <2>2. QED BY <1>1, <2>1, SettleStep DEF Lands, Outcomes
<1>3. CASE i \notin source.links
  <2>1. task' = [task EXCEPT ![i] = [task[i] EXCEPT !.st = "run", !.op = FirstOp(i)]]
    BY <1>3 DEF Start
  <2>2. task[i] = NewTask /\ NewTask \in Task /\ FirstOp(i) \in Ops
    BY BoundsAssumption DEF Start, Shape, NewTask, Task, Ops, FirstOp
  <2>3. Becomes(i, "run", FirstOp(i), 0, 0, 0)
    <3>1. [task[i] EXCEPT !.st = "run", !.op = FirstOp(i)] \in Task
      BY <2>2 DEF Task
    <3>2. QED BY <2>1, <2>2, <3>1 DEF Becomes, Shape, NewTask
  <2>4. i \in Dirs => FirstOp(i) \in DirOps
    BY DEF FirstOp, DirOps
  <2>5. ASSUME i \in Files PROVE Good(i, FirstOp(i), 0, 0, 0, data')
    <3>1. source.size[i] \in Nat /\ source.have[i] \in Nat /\ i \notin Dirs
      BY <2>5, SourceFacts, ItemFacts
    <3>2. FirstOp(i) \in {"ensure", "read", "open"}
          /\ (FirstOp(i) = "read" => ~ Streams(i)) /\ (FirstOp(i) = "open" => way.reader # "source")
      BY <3>1 DEF FirstOp, Streams
    <3>3. QED BY <3>1, <3>2 DEF Good, Fits, HasUnits, Reached, Placed
  <2>6. QED BY <1>1, <2>2, <2>3, <2>4, <2>5, RunLands
<1>4. QED BY <1>2, <1>3

LEMMA OpenLands ==
    ASSUME Shape, NEW i \in Items, i \in Files => FileInv(i), OpenSource(i)
    PROVE  Lands(i) /\ Writes(i)
<1>1. Running(i) /\ task[i].op = "open" /\ data' = data
  BY DEF OpenSource, Op, target
<1> SUFFICES Lands(i)
  BY <1>1, Unwritten
<1>2. i \in Files /\ i \notin Dirs
  BY <1>1, ItemFacts DEF DirOps
<1>3. task[i].put \in Nat /\ source.size[i] \in Nat /\ source.have[i] \in Nat
  BY <1>2, SourceFacts, ItemFacts
<1>4. Good(i, "open", 0, 0, 0, data) /\ task[i].off = 0 /\ task[i].buf = 0 /\ task[i].put = 0
      /\ way.reader # "source"
  <2>1. Good(i, "open", task[i].off, task[i].buf, task[i].put, data)
    BY <1>1, <1>2 DEF FileInv
  <2>2. QED BY <2>1 DEF Good, Fits
<1>5. ASSUME NEW op \in {"create", "gather", "read"}, op = "read" => ~ Streams(i), Goes(i, op)
      PROVE  Lands(i)
  <2>1. Becomes(i, "run", op, 0, 0, 0) /\ op \in Ops
    BY <1>1, <1>4, <1>5 DEF Goes, Running, Ops
  <2>2. Good(i, op, 0, 0, 0, data')
    BY <1>3, <1>5 DEF Good, Fits, HasUnits, Reached, Placed
  <2>3. QED BY <1>2, <2>1, <2>2, RunLands
<1>6. CASE Go(i, "create") \/ Go(i, "gather") \/ (Go(i, "read") /\ ~ Streams(i))
  <2>1. PICK op \in {"create", "gather", "read"} : Go(i, op) /\ (op = "read" => ~ Streams(i))
    BY <1>6
  <2>2. op \in Ops
    BY DEF Ops
  <2>3. Goes(i, op)
    BY <2>1, <2>2, GoStep
  <2>4. QED BY <1>5, <2>1, <2>3
<1>7. CASE ~ Streams(i) /\ ~ Gathers(i) /\ source.size[i] = 0 /\ Settle(i, "copied")
  <2>1. way.reader # "stream"
    <3>1. SUFFICES ASSUME way.reader = "stream" PROVE FALSE
      OBVIOUS
    <3>2. QED BY <1>4, <1>7, <3>1 DEF Streams, Gathers
  <2>2. Gap(i)
    BY <1>4, <1>7, <2>1, WayFacts DEF Gap
  <2>3. QED BY <1>2, <1>7, <2>2, SettleStep DEF Lands, Outcomes
<1>8. CASE Again(i)
  BY <1>1, <1>8, AgainLands
<1>9. CASE Settle(i, "failed")
  BY <1>9, SettleStep DEF Lands, Outcomes
<1>10. \/ Go(i, "create") \/ Go(i, "gather") \/ (Go(i, "read") /\ ~ Streams(i))
       \/ ~ Streams(i) /\ ~ Gathers(i) /\ source.size[i] = 0 /\ Settle(i, "copied")
       \/ Again(i) \/ Settle(i, "failed")
  BY DEF OpenSource
<1>11. QED BY <1>6, <1>7, <1>8, <1>9, <1>10

LEMMA GatherLands ==
    ASSUME Shape, NEW i \in Items, Gather(i)
    PROVE  Lands(i) /\ Writes(i)
<1>1. Writes(i)
  BY Unwritten DEF Gather, target
<1> SUFFICES Lands(i)
  BY <1>1
<1>2. i \in Files
  BY ItemFacts DEF Gather, Op, DirOps
<1>3. CASE Settle(i, "copied") /\ given' = given \cup {i}
  BY <1>2, <1>3, SettleStep DEF Lands, Outcomes
<1>4. CASE Settle(i, "failed")
  BY <1>4, SettleStep DEF Lands, Outcomes
<1>5. QED BY <1>3, <1>4 DEF Gather

(* A read that ends a streamed copy has come to the end of the file, if it *)
(* has not become shorter.                                                 *)
LEMMA ReadLands ==
    ASSUME Shape, NEW i \in Items, i \in Files => FileInv(i), ReadBlock(i)
    PROVE  Lands(i) /\ Writes(i)
<1> DEFINE off == task[i].off
           n == IF Left(i) < Block THEN Left(i) ELSE Block
<1>1. Running(i) /\ task[i].op = "read" /\ data' = data
  BY DEF ReadBlock, Op, target
<1>2. i \in Files /\ i \notin Dirs
  BY <1>1, ItemFacts DEF DirOps
<1>3. off \in Nat /\ source.size[i] \in Nat /\ source.have[i] \in Nat /\ Block \in Nat \ {0}
  BY <1>2, SourceFacts, ItemFacts, BoundsAssumption
<1>4. Good(i, "read", off, task[i].buf, task[i].put, data)
  BY <1>1, <1>2 DEF FileInv
<1>5. off <= source.size[i] /\ off <= source.have[i] /\ HasUnits(i, off, data)
      /\ (off > 0 \/ Streams(i) => /\ MapControl(i) \in DOMAIN data
                                   /\ way.target = "smb" => Len(data[MapControl(i)]) <= off)
  BY <1>4 DEF Good, Fits, Reached, Placed, Bound
<1>6. /\ n \in Nat /\ n <= Block /\ Left(i) \in Nat
      /\ n > 0 => off + n <= source.size[i] /\ off + n <= source.have[i]
      /\ n = 0 => off >= source.size[i] \/ off >= source.have[i]
  <2>1. /\ Left(i) \in Nat
        /\ Left(i) > 0 => off + Left(i) <= source.size[i] /\ off + Left(i) <= source.have[i]
        /\ Left(i) = 0 => off >= source.size[i] \/ off >= source.have[i]
    BY <1>2, LeftFacts
  <2>2. QED BY <1>3, <2>1
<1>7. CASE /\ n > 0 \/ (off >= source.size[i] /\ ~ Streams(i))
           /\ task' = [task EXCEPT ![i] = [task[i] EXCEPT !.buf = n, !.put = 0, !.seg = 0, !.try = 0,
                                                           !.op = AfterRead(i)]]
  <2>1. AfterRead(i) \in Ops /\ n \in 0 .. Block /\ task[i] \in Task /\ 0 \in 0 .. MaxRetries
    BY <1>3, <1>6, BoundsAssumption DEF AfterRead, Ops, Shape
  <2>2. PICK new : new = [task[i] EXCEPT !.buf = n, !.put = 0, !.seg = 0, !.try = 0, !.op = AfterRead(i)]
    OBVIOUS
  <2>3. new \in Task /\ new.st = task[i].st /\ new.op = AfterRead(i) /\ new.off = off /\ new.buf = n /\ new.put = 0
    BY <2>1, <2>2 DEF Task
  <2>4. Becomes(i, "run", AfterRead(i), off, n, 0)
    BY <1>1, <1>7, <2>2, <2>3 DEF Becomes, Running, Shape
  <2>5. Good(i, AfterRead(i), off, n, 0, data')
    <3>1. off + n <= source.size[i] /\ off + n <= source.have[i]
      BY <1>3, <1>5, <1>6
    <3>2. Fits(i, AfterRead(i), off, n, 0)
      BY <1>3, <1>5, <1>6, <3>1 DEF Fits, AfterRead
    <3>3. HasUnits(i, Reached(AfterRead(i), off, n, 0), data')
      BY <1>1, <1>3, <1>5 DEF Reached, AfterRead
    <3>4. Placed(i, AfterRead(i), off) =>
             /\ MapControl(i) \in DOMAIN data
             /\ way.target = "smb" => Len(data[MapControl(i)]) <= off
      BY <1>5 DEF Placed, AfterRead
    <3>5. MapControl(i) \in DOMAIN data => Len(data[MapControl(i)]) \in Nat
      BY ItemFacts
    <3>6. Bound(AfterRead(i), off, n) = off + n
      BY DEF Bound, AfterRead
    <3>7. QED BY <1>1, <1>3, <1>6, <3>2, <3>3, <3>4, <3>5, <3>6 DEF Good
  <2>6. QED BY <1>1, <1>2, <1>3, <1>6, <2>1, <2>4, <2>5, RunLands, Unwritten
<1>8. CASE n = 0 /\ EndsShort(i)
  <2>1. CASE ~ Streams(i)
    BY <1>1, <1>8, <2>1, SettleStep, Unwritten DEF EndsShort, Lands, Outcomes
  <2>2. CASE Streams(i)
    <3>1. Settles(i, "copied")
      BY <1>8, <2>2, SettleStep DEF EndsShort, Outcomes
    <3>2. ASSUME ~ Gap(i) PROVE Complete(i, data')
      <4>1. off = source.size[i]
        BY <1>3, <1>5, <1>6, <1>8, <2>2, <3>2 DEF Gap
      <4>2. MapControl(i) \in DOMAIN data /\ Len(data[MapControl(i)]) \in Nat
            /\ (way.target = "smb" => Len(data[MapControl(i)]) <= off)
        BY <1>5, <2>2, ItemFacts
      <4>3. off = 0 \/ off <= Len(data[MapControl(i)])
        BY <1>5 DEF HasUnits
      <4>4. QED BY <1>1, <1>3, <1>5, <4>1, <4>2, <4>3 DEF Complete
    <3>3. QED BY <1>1, <1>2, <3>1, <3>2, Unwritten DEF Lands
  <2>3. QED BY <2>1, <2>2
<1>9. CASE Again(i)
  BY <1>1, <1>2, <1>9, AgainLands, Unwritten
<1>10. QED BY <1>7, <1>8, <1>9 DEF ReadBlock

(* The steps of making a directory.                                        *)
LEMMA DirLands ==
    ASSUME Shape, NEW i \in Items, i \in Files => FileInv(i),
           \/ Ensure(i) \/ NoteDir(i) \/ SmbMkdir(i) \/ Acquire(i) \/ Lock(i)
           \/ Lookup(i) \/ Mkdir(i) \/ Relookup(i)
    PROVE  Lands(i) /\ Writes(i)
<1>1. data' = data /\ Running(i)
  BY DEF Ensure, NoteDir, SmbMkdir, Acquire, Lock, Lookup, Mkdir, Relookup, Op, Holds, Calls, target
<1> SUFFICES Lands(i)
  BY <1>1, Unwritten
<1>2. task[i] \in Task /\ 0 \in 0 .. Conns /\ task[i].op \in Ops
  BY BoundsAssumption, ItemFacts DEF Shape
<1>3. ASSUME NEW op \in DirOps, task[i].op \in PlainOps, Go(i, op) \/ Then(i, op)
      PROVE  Lands(i)
  <2>1. op \in Ops /\ op \in PlainOps
    BY DEF DirOps, PlainOps, Ops
  <2>2. Goes(i, op)
    BY <1>3, <2>1, GoStep
  <2>3. QED BY <1>1, <1>3, <2>1, <2>2, PlainLands
<1>4. ASSUME Again(i) PROVE Lands(i)
  BY <1>1, <1>4, AgainLands
<1>5. ASSUME NEW op \in DirOps, NEW new \in Task, task[i].op \in DirOps, task' = [task EXCEPT ![i] = new],
             new.st = "run", new.op = op, new.off = task[i].off, new.buf = task[i].buf,
             new.put = task[i].put
      PROVE  Lands(i)
  <2>1. Goes(i, op)
    BY <1>1, <1>5 DEF Goes, Becomes, Shape, Running
  <2>2. op \in PlainOps /\ task[i].op \in PlainOps
    BY <1>5 DEF DirOps, PlainOps
  <2>3. QED BY <1>1, <2>1, <2>2, PlainLands
<1>6. CASE Ensure(i)
  <2>1. task[i].op = "ensure"
    BY <1>6 DEF Ensure, Op
  <2>2. CASE Made(i)
    <3>1. CASE i \in Dirs
      BY <2>2, <3>1, SettleStep DEF Made, Lands, Outcomes
    <3>2. CASE i \notin Dirs /\ ~ Streams(i)
      <4>1. Goes(i, "create") /\ "create" \in PlainOps /\ task[i].op \in PlainOps
        BY <2>1, <2>2, <3>2, GoStep DEF Made, Ops, PlainOps, DirOps
      <4>2. QED BY <1>1, <3>2, <4>1, PlainLands
    <3>3. CASE i \notin Dirs /\ Streams(i)
      <4>1. Goes(i, "open") /\ "open" \in Ops /\ i \in Files
        BY <2>2, <3>3, GoStep, ItemFacts DEF Made, Ops
      <4>2. Good(i, "ensure", task[i].off, task[i].buf, task[i].put, data)
        BY <1>1, <2>1, <4>1 DEF FileInv
      <4>3. task[i].off = 0 /\ task[i].buf = 0 /\ task[i].put = 0 /\ way.reader # "source"
        BY <3>3, <4>2 DEF Good, Fits, Streams
      <4>4. Good(i, "open", 0, 0, 0, data')
        BY <4>2, <4>3 DEF Good, Fits, HasUnits, Reached, Placed
      <4>5. Becomes(i, "run", "open", 0, 0, 0)
        BY <1>1, <4>1, <4>3 DEF Goes, Running
      <4>6. QED BY <3>3, <4>1, <4>4, <4>5, RunLands
    <3>4. QED BY <3>1, <3>2, <3>3
  <2>3. CASE task' = [task EXCEPT ![i].seg = task[i].seg + 1]
    <3>1. task' = [task EXCEPT ![i] = [task[i] EXCEPT !.seg = task[i].seg + 1]]
      BY <2>3
    <3>2. task[i].seg + 1 \in Nat
      BY <1>2 DEF Task
    <3>3. [task[i] EXCEPT !.seg = task[i].seg + 1] \in Task
      BY <1>2, <3>2 DEF Task
    <3>4. PICK new \in Task : new = [task[i] EXCEPT !.seg = task[i].seg + 1]
      BY <3>3
    <3>5. new.st = "run" /\ new.op = "ensure" /\ new.off = task[i].off /\ new.buf = task[i].buf
          /\ new.put = task[i].put
      BY <1>1, <1>2, <2>1, <3>4 DEF Task, Running
    <3>6. QED BY <1>5, <2>1, <3>1, <3>4, <3>5 DEF DirOps
  <2>4. CASE Go(i, Unknown)
    BY <1>3, <2>1, <2>4 DEF Unknown, DirOps, PlainOps
  <2>5. QED BY <1>6, <2>2, <2>3, <2>4 DEF Ensure
<1>7. CASE NoteDir(i)
  <2>1. task' = [task EXCEPT ![i] = [task[i] EXCEPT !.seg = task[i].seg + 1, !.op = "ensure"]]
        /\ task[i].op = "note"
    BY <1>7 DEF NoteDir, Op
  <2>2. task[i].seg + 1 \in Nat /\ "ensure" \in Ops
    BY <1>2 DEF Task, Ops
  <2>3. [task[i] EXCEPT !.seg = task[i].seg + 1, !.op = "ensure"] \in Task
    BY <1>2, <2>2 DEF Task
  <2>4. PICK new \in Task : new = [task[i] EXCEPT !.seg = task[i].seg + 1, !.op = "ensure"]
    BY <2>3
  <2>5. new.st = "run" /\ new.op = "ensure" /\ new.off = task[i].off /\ new.buf = task[i].buf
        /\ new.put = task[i].put
    BY <1>1, <1>2, <2>4 DEF Task, Running
  <2>6. QED BY <1>5, <2>1, <2>4, <2>5 DEF DirOps
<1>8. CASE SmbMkdir(i)
  <2>1. task[i].op \in PlainOps /\ "note" \in DirOps /\ (Go(i, "note") \/ Again(i))
    BY <1>8 DEF SmbMkdir, Op, PlainOps, DirOps
  <2>2. QED BY <1>3, <1>4, <2>1
<1>9. CASE Acquire(i)
  <2>1. task' = [task EXCEPT ![i] = [task[i] EXCEPT !.conn = turn]] /\ turn \in 0 .. Conns
    BY <1>9, BoundsAssumption DEF Acquire, Shape
  <2>2. [task[i] EXCEPT !.conn = turn] \in Task
    BY <1>2, <2>1 DEF Task
  <2>3. Goes(i, task[i].op)
    BY <1>2, <2>1, <2>2 DEF Goes, Becomes, Shape, Task
  <2>4. QED BY <1>1, <2>3, SameLands
<1>10. CASE Lock(i)
  <2>1. Goes(i, task[i].op)
    BY <1>10 DEF Lock, Goes, Becomes, Shape
  <2>2. QED BY <1>1, <2>1, SameLands
<1>11. CASE Lookup(i) \/ Mkdir(i) \/ Relookup(i)
  <2>1. task[i].op \in PlainOps
    BY <1>11 DEF Lookup, Mkdir, Relookup, Holds, PlainOps, DirOps
  <2>2. Then(i, "note") \/ Then(i, "mkdir") \/ Then(i, "relookup") \/ Again(i)
    BY <1>11 DEF Lookup, Mkdir, Relookup
  <2>3. QED BY <1>3, <1>4, <2>1, <2>2 DEF DirOps
<1>12. QED BY <1>6, <1>7, <1>8, <1>9, <1>10, <1>11

(* A file is opened: it is there, and empty if it is the first time.       *)
LEMMA OpenedFile ==
    ASSUME Shape, NEW i \in Files, NEW p, p = MapControl(i),
           \/ data' = data /\ p \in DOMAIN data
           \/ data' = [q \in DOMAIN data \cup {p} |-> IF q = p THEN <<>> ELSE data[q]]
    PROVE  Writes(i) /\ p \in DOMAIN data'
<1>1. i \in Items
  BY DEF Items
<1>2. CASE data' = data /\ p \in DOMAIN data
  BY <1>1, <1>2, Unwritten
<1>3. CASE data' = [q \in DOMAIN data \cup {p} |-> IF q = p THEN <<>> ELSE data[q]]
  <2>1. data' \in [DOMAIN data' -> Seq(AnyUnit)]
    <3>1. PICK old : old = DOMAIN data
      OBVIOUS
    <3>2. data' = [q \in old \cup {p} |-> IF q = p THEN <<>> ELSE data[q]] /\ DOMAIN data' = old \cup {p}
      BY <1>3, <3>1
    <3>3. \A q \in old \cup {p} : (IF q = p THEN <<>> ELSE data[q]) \in Seq(AnyUnit)
      BY <3>1 DEF Shape
    <3>4. data' \in [old \cup {p} -> Seq(AnyUnit)]
      BY <3>2, <3>3
    <3>5. QED BY <3>2, <3>4
  <2>2. i \notin Dirs
    BY <1>1, ItemFacts
  <2>3. QED BY <1>3, <2>1, <2>2 DEF Writes
<1>4. QED BY <1>2, <1>3

LEMMA NfsLands ==
    ASSUME Shape, NEW i \in Items, i \in Files => FileInv(i),
           NfsCreate(i) \/ LookupFile(i) \/ NfsPut(i) \/ SetAttrs(i)
    PROVE  Lands(i) /\ Writes(i)
<1> DEFINE off == task[i].off
           buf == task[i].buf
           put == task[i].put
<1>1. Running(i) /\ task[i].op \in {"create", "lookupfile", "put", "attrs"} /\ way.target = "nfs"
  BY DEF NfsCreate, LookupFile, NfsPut, SetAttrs, Holds, Calls
<1>2. i \in Files /\ i \notin Dirs
  BY <1>1, ItemFacts DEF DirOps
<1>3. Good(i, task[i].op, off, buf, put, data) /\ ~ Streams(i)
  <2>1. way.reader # "stream"
    BY <1>1, WayFacts
  <2>2. QED BY <1>1, <1>2, <2>1 DEF FileInv, Streams
<1>4. /\ off \in Nat /\ buf \in Nat /\ put \in Nat /\ task[i] \in Task /\ 0 \in 0 .. Conns
      /\ source.size[i] \in Nat /\ source.have[i] \in Nat
  BY <1>2, SourceFacts, ItemFacts, BoundsAssumption
<1>5. ASSUME NEW op \in {"attrs", "put", "lookupfile"}, Then(i, op), Good(i, op, off, buf, put, data')
      PROVE  Lands(i)
  <2>1. op \in Ops
    BY DEF Ops
  <2>2. Goes(i, op)
    BY <1>5, <2>1, GoStep
  <2>3. Becomes(i, "run", op, off, buf, put)
    BY <1>1, <2>2 DEF Goes, Running
  <2>4. QED BY <1>2, <1>4, <1>5, <2>1, <2>3, RunLands
<1>6. ASSUME data' = data, Jukebox(i) \/ Again(i)
      PROVE  Lands(i) /\ Writes(i)
  BY <1>1, <1>2, <1>6, AgainLands, JukeboxLands, Unwritten
<1>7. CASE NfsCreate(i)
  <2> DEFINE p == MapControl(i)
             op == IF way.handles THEN (IF buf = 0 THEN "attrs" ELSE "put") ELSE "lookupfile"
  <2>1. CASE /\ data' = IF p \in DOMAIN data THEN data
                        ELSE [q \in DOMAIN data \cup {p} |-> IF q = p THEN <<>> ELSE data[q]]
             /\ Then(i, op)
    <3>1. Writes(i) /\ p \in DOMAIN data'
      BY <1>2, <2>1, OpenedFile
    <3>2. Good(i, "create", off, buf, put, data)
      BY <1>3, <1>7 DEF NfsCreate, Holds
    <3>3. put = 0 /\ HasUnits(i, off, data) /\ Fits(i, "create", off, buf, 0)
      BY <1>4, <3>2 DEF Good, Fits, Reached
    <3>4. HasUnits(i, off, data')
      BY <1>4, <2>1, <3>3 DEF HasUnits
    <3>5. op \in {"attrs", "put", "lookupfile"} /\ Fits(i, op, off, buf, 0)
          /\ HasUnits(i, Reached(op, off, buf, 0), data')
      BY <1>3, <1>4, <3>3, <3>4 DEF Fits, Reached
    <3>6. Good(i, op, off, buf, put, data')
      BY <1>1, <3>1, <3>3, <3>5 DEF Good
    <3>7. QED BY <1>5, <2>1, <3>1, <3>5, <3>6
  <2>2. CASE (Jukebox(i) \/ Again(i)) /\ data' = data
    BY <1>6, <2>2
  <2>3. QED BY <1>7, <2>1, <2>2 DEF NfsCreate
<1>8. CASE LookupFile(i)
  <2> DEFINE op == IF buf = 0 THEN "attrs" ELSE "put"
  <2>1. data' = data /\ task[i].op = "lookupfile"
    BY <1>8 DEF LookupFile, Holds, target
  <2>2. CASE Then(i, op)
    <3>1. Good(i, "lookupfile", off, buf, put, data)
      BY <1>3, <2>1
    <3>2. put = 0 /\ HasUnits(i, off, data) /\ Fits(i, "lookupfile", off, buf, 0) /\ MapControl(i) \in DOMAIN data
      BY <1>4, <3>1 DEF Good, Fits, Reached, Placed
    <3>3. op \in {"attrs", "put", "lookupfile"} /\ Fits(i, op, off, buf, 0)
          /\ HasUnits(i, Reached(op, off, buf, 0), data')
      BY <1>3, <1>4, <2>1, <3>2 DEF Fits, Reached
    <3>4. Good(i, op, off, buf, put, data')
      BY <1>1, <2>1, <3>2, <3>3 DEF Good
    <3>5. QED BY <1>2, <1>5, <2>1, <2>2, <3>3, <3>4, Unwritten
  <2>3. CASE Again(i)
    BY <1>6, <2>1, <2>3
  <2>4. QED BY <1>8, <2>2, <2>3 DEF LookupFile
<1>9. CASE NfsPut(i)
  <2>1. Good(i, "put", off, buf, put, data)
    BY <1>3, <1>9 DEF NfsPut, Holds
  <2>2. ASSUME NEW n \in 1 .. buf - put, Put(i, n),
               task' = [task EXCEPT ![i] =
                   [task[i] EXCEPT !.put = put + n, !.conn = 0, !.jukebox = 0,
                                   !.op = IF put + n = buf THEN "attrs" ELSE "put"]]
        PROVE  Lands(i) /\ Writes(i)
    <3> DEFINE op == IF put + n = buf THEN "attrs" ELSE "put"
    <3>1. Writes(i) /\ Good(i, op, off, buf, put + n, data')
      BY <1>2, <1>3, <2>1, <2>2, PutGood
    <3>2. put + n \in Nat /\ op \in Ops
      BY <1>4 DEF Ops
    <3>3. PICK new : new = [task[i] EXCEPT !.put = put + n, !.conn = 0, !.jukebox = 0, !.op = op]
      OBVIOUS
    <3>4. new \in Task /\ new.st = "run" /\ new.op = op /\ new.off = off /\ new.buf = buf /\ new.put = put + n
      BY <1>1, <1>4, <3>2, <3>3 DEF Task, Running
    <3>5. Becomes(i, "run", op, off, buf, put + n)
      BY <2>2, <3>3, <3>4 DEF Becomes, Shape
    <3>6. QED BY <1>2, <1>4, <3>1, <3>2, <3>5, RunLands
  <2>3. CASE data' = data /\ Then(i, "put")
    BY <1>2, <1>5, <2>1, <2>3, Unwritten
  <2>4. CASE data' = data /\ (Jukebox(i) \/ Again(i))
    BY <1>6, <2>4
  <2>5. QED BY <1>9, <2>2, <2>3, <2>4 DEF NfsPut
<1>10. CASE SetAttrs(i)
  <2>1. Written(i) /\ data' = data /\ task[i].op = "attrs"
    BY <1>10 DEF SetAttrs, Holds, target
  <2>2. Good(i, "attrs", off, buf, put, data)
    BY <1>3, <2>1
  <2>3. put <= buf /\ Good(i, "attrs", off, buf, buf, data')
    BY <1>4, <2>1, <2>2 DEF Good, Fits, Reached
  <2>4. data' \in [DOMAIN data' -> Seq(AnyUnit)]
    BY <2>1 DEF Shape
  <2>5. Lands(i)
    BY <1>1, <1>2, <2>1, <2>3, <2>4, WrittenLands
  <2>6. QED BY <2>1, <2>5, Unwritten
<1>11. QED BY <1>7, <1>8, <1>9, <1>10

LEMMA SmbLands ==
    ASSUME Shape, NEW i \in Items, i \in Files => FileInv(i),
           SmbCreate(i) \/ SrvCopy(i) \/ SmbPut(i) \/ SmbClose(i)
    PROVE  Lands(i) /\ Writes(i)
<1> DEFINE off == task[i].off
           buf == task[i].buf
           put == task[i].put
           p == MapControl(i)
<1>1. Running(i) /\ task[i].op \in {"create", "srvcopy", "put", "close"}
  BY DEF SmbCreate, SrvCopy, SmbPut, SmbClose, Op
<1>2. i \in Files /\ i \notin Dirs
  BY <1>1, ItemFacts DEF DirOps
<1>3. Good(i, task[i].op, off, buf, put, data)
  BY <1>1, <1>2 DEF FileInv
<1>4. /\ off \in Nat /\ buf \in Nat /\ put \in Nat /\ task[i] \in Task
      /\ source.size[i] \in Nat /\ source.have[i] \in Nat
  BY <1>2, SourceFacts, ItemFacts
<1>5. ASSUME NEW op \in {"srvcopy", "read", "close", "put"}, Go(i, op), Good(i, op, off, buf, put, data')
      PROVE  Lands(i)
  <2>1. op \in Ops
    BY DEF Ops
  <2>2. Goes(i, op)
    BY <1>5, <2>1, GoStep
  <2>3. Becomes(i, "run", op, off, buf, put)
    BY <1>1, <2>2 DEF Goes, Running
  <2>4. QED BY <1>2, <1>4, <1>5, <2>1, <2>3, RunLands
<1>6. ASSUME data' = data, Again(i)
      PROVE  Lands(i) /\ Writes(i)
  BY <1>1, <1>2, <1>6, AgainLands, Unwritten
<1>7. CASE SmbCreate(i)
  <2>1. CASE CanOpen(i) /\ data' = Opened(i) /\ Go(i, AfterCreate(i))
    <3>1. Good(i, "create", off, buf, put, data)
      BY <1>3, <1>7 DEF SmbCreate, Op
    <3>2. /\ put = 0 /\ HasUnits(i, off, data) /\ Fits(i, "create", off, buf, 0)
          /\ Streams(i) => off = 0 /\ buf = 0
          /\ off > 0 => p \in DOMAIN data /\ (way.target = "smb" => Len(data[p]) <= off + buf)
      BY <1>4, <3>1 DEF Good, Fits, Reached, Placed, Bound
    <3>3. AfterCreate(i) \in {"srvcopy", "read", "close", "put"}
          /\ (AfterCreate(i) \in {"srvcopy", "read"} <=> Streams(i))
          /\ (AfterCreate(i) = "close" => buf = 0)
      BY DEF AfterCreate
    <3>4. PICK op \in {"srvcopy", "read", "close", "put"} : op = AfterCreate(i)
      BY <3>3
    <3>5. Fits(i, op, off, buf, 0)
      BY <1>4, <3>2, <3>3, <3>4 DEF Fits
    <3>6. CASE off > 0
      <4>1. data' = data
        BY <2>1, <3>6 DEF Opened
      <4>2. HasUnits(i, Reached(op, off, buf, 0), data')
        BY <1>4, <3>2, <3>3, <3>4, <4>1 DEF Reached
      <4>3. ~ Streams(i) /\ Bound(op, off, buf) = off + buf
        BY <1>4, <3>2, <3>3, <3>4, <3>6 DEF Bound
      <4>4. Good(i, op, off, buf, put, data')
        BY <3>2, <3>5, <3>6, <4>1, <4>2, <4>3 DEF Good
      <4>5. Writes(i)
        BY <4>1, Unwritten
      <4>6. QED BY <1>5, <2>1, <3>4, <4>4, <4>5
    <3>7. CASE off = 0
      <4>1. data' = [q \in DOMAIN data \cup {p} |-> IF q = p THEN <<>> ELSE data[q]]
        BY <2>1, <3>7 DEF Opened
      <4>2. Writes(i) /\ p \in DOMAIN data' /\ Len(data'[p]) = 0
        <5>1. data'[p] = <<>>
          BY <4>1
        <5>2. Writes(i) /\ p \in DOMAIN data'
          BY <1>2, <4>1, OpenedFile
        <5>3. QED BY <5>1, <5>2
      <4>3. Reached(op, off, buf, 0) = 0
        BY <1>4, <3>3, <3>4, <3>7 DEF Reached
      <4>4. Bound(op, off, buf) \in Nat
        BY <1>4 DEF Bound
      <4>5. Good(i, op, off, buf, put, data')
        BY <3>2, <3>5, <4>2, <4>3, <4>4 DEF Good, HasUnits
      <4>6. QED BY <1>5, <2>1, <3>4, <4>2, <4>5
    <3>8. QED BY <1>4, <3>6, <3>7
  <2>2. CASE data' = data /\ Again(i)
    BY <1>6, <2>2
  <2>3. QED BY <1>7, <2>1, <2>2 DEF SmbCreate
<1>8. CASE SrvCopy(i)
  <2>1. Good(i, "srvcopy", off, buf, put, data)
    BY <1>3, <1>8 DEF SrvCopy, Op
  <2>2. p \in DOMAIN data /\ Streams(i) /\ off = 0 /\ buf = 0 /\ put = 0
        /\ (way.target = "smb" => Len(data[p]) <= 0)
    BY <1>4, <2>1 DEF Good, Fits, Placed, Bound
  <2>3. ASSUME data' = [data EXCEPT ![p] = [k \in 1 .. source.have[i] |-> Unit(i, k)]], Settle(i, "copied")
        PROVE  Lands(i) /\ Writes(i)
    <3>1. PICK have \in Nat : have = source.have[i]
      BY <1>4
    <3>2. PICK new : new = [k \in 1 .. have |-> Unit(i, k)]
      OBVIOUS
    <3>3. \A k \in 1 .. have : Unit(i, k) \in AnyUnit
      BY DEF Unit, AnyUnit
    <3>4. new \in [1 .. have -> AnyUnit]
      BY <3>2, <3>3
    <3>5. new \in Seq(AnyUnit) /\ Len(new) = have
      BY <3>4, FunctionIsSeq
    <3>6. data' = [data EXCEPT ![p] = new]
      BY <2>3, <3>1, <3>2
    <3>7. DOMAIN data' = DOMAIN data /\ data'[p] = new /\ \A q \in DOMAIN data : q # p => data'[q] = data[q]
      BY <2>2, <3>6
    <3>8. Writes(i)
      <4>1. data' \in [DOMAIN data' -> Seq(AnyUnit)]
        BY <3>5, <3>6, <3>7 DEF Shape
      <4>2. QED BY <1>2, <3>7, <4>1 DEF Writes
    <3>9. ASSUME ~ Gap(i) PROVE Complete(i, data')
      <4>1. source.size[i] <= have
        BY <1>4, <2>2, <3>1, <3>9 DEF Gap
      <4>2. \A k \in 1 .. source.size[i] : k \in 1 .. have
        BY <1>4, <4>1
      <4>3. HasUnits(i, source.size[i], data')
        BY <2>2, <3>2, <3>5, <3>7, <4>1, <4>2 DEF HasUnits
      <4>4. QED BY <2>2, <3>1, <3>5, <3>7, <4>3 DEF Complete
    <3>10. QED BY <1>2, <2>3, <3>8, <3>9, SettleStep DEF Lands, Outcomes
  <2>4. CASE Go(i, "read") /\ data' = data
    <3>1. Good(i, "read", off, buf, put, data')
      BY <2>1, <2>2, <2>4 DEF Good, Fits, HasUnits, Reached, Bound
    <3>2. QED BY <1>5, <2>4, <3>1, Unwritten
  <2>5. QED BY <1>8, <2>3, <2>4 DEF SrvCopy
<1>9. CASE SmbPut(i)
  <2>1. Good(i, "put", off, buf, put, data)
    BY <1>3, <1>9 DEF SmbPut, Op
  <2>2. ASSUME NEW n \in 1 .. buf - put, Put(i, n),
               IF put + n < buf THEN task' = [task EXCEPT ![i].put = put + n]
               ELSE IF Streams(i) THEN Written(i) ELSE Go(i, "close")
        PROVE  Lands(i) /\ Writes(i)
    <3>1. /\ Writes(i) /\ Good(i, "put", off, buf, put + n, data')
          /\ put + n = buf /\ ~ Streams(i) => Good(i, "close", off, buf, put, data')
      BY <1>2, <2>1, <2>2, PutGood
    <3>2. put + n \in Nat /\ put + n <= buf /\ put <= buf
      BY <1>4
    <3>3. CASE put + n < buf
      <4>1. task' = [task EXCEPT ![i] = [task[i] EXCEPT !.put = put + n]]
        BY <2>2, <3>3
      <4>2. PICK new : new = [task[i] EXCEPT !.put = put + n]
        OBVIOUS
      <4>3. new \in Task /\ new.st = "run" /\ new.op = "put" /\ new.off = off /\ new.buf = buf
            /\ new.put = put + n
        BY <1>1, <1>4, <1>9, <3>2, <4>2 DEF Task, Running, SmbPut, Op
      <4>4. Becomes(i, "run", "put", off, buf, put + n) /\ "put" \in Ops
        BY <4>1, <4>2, <4>3 DEF Becomes, Shape, Ops
      <4>5. QED BY <1>2, <1>4, <3>1, <3>2, <4>4, RunLands
    <3>4. CASE ~ (put + n < buf)
      <4>1. put + n = buf
        BY <1>4, <3>2, <3>4
      <4>2. CASE Streams(i)
        <5>1. Written(i) /\ Good(i, "put", off, buf, buf, data')
          BY <2>2, <3>1, <3>4, <4>1, <4>2
        <5>2. data' \in [DOMAIN data' -> Seq(AnyUnit)]
          BY <3>1 DEF Writes
        <5>3. QED BY <1>1, <1>2, <3>1, <3>2, <5>1, <5>2, WrittenLands
      <4>3. CASE ~ Streams(i)
        BY <1>5, <2>2, <3>1, <3>4, <4>1, <4>3
      <4>4. QED BY <4>2, <4>3
    <3>5. QED BY <3>3, <3>4
  <2>3. CASE data' = data /\ Again(i)
    BY <1>6, <2>3
  <2>4. QED BY <1>9, <2>2, <2>3 DEF SmbPut
<1>10. CASE SmbClose(i)
  <2>1. data' = data /\ task[i].op = "close"
    BY <1>10 DEF SmbClose, Op, target
  <2>2. CASE Written(i)
    <3>1. Good(i, "close", off, buf, put, data)
      BY <1>3, <2>1
    <3>2. put <= buf /\ Good(i, "close", off, buf, buf, data')
      BY <1>4, <2>1, <3>1 DEF Good, Fits, Reached
    <3>3. data' \in [DOMAIN data' -> Seq(AnyUnit)]
      BY <2>1 DEF Shape
    <3>4. QED BY <1>1, <1>2, <2>1, <2>2, <3>2, <3>3, WrittenLands, Unwritten
  <2>3. CASE Again(i)
    BY <1>6, <2>1, <2>3
  <2>4. QED BY <1>10, <2>2, <2>3 DEF SmbClose
<1>11. QED BY <1>7, <1>8, <1>9, <1>10

LEMMA TaskLands ==
    ASSUME Shape, NEW i \in Items, i \in Files => FileInv(i), TaskStep(i)
    PROVE  Lands(i) /\ Writes(i)
<1>1. \/ Ensure(i) \/ NoteDir(i) \/ SmbMkdir(i) \/ Acquire(i) \/ Lock(i)
      \/ Lookup(i) \/ Mkdir(i) \/ Relookup(i)
      => Lands(i) /\ Writes(i)
  BY DirLands
<1>2. NfsCreate(i) \/ LookupFile(i) \/ NfsPut(i) \/ SetAttrs(i) => Lands(i) /\ Writes(i)
  BY NfsLands
<1>3. SmbCreate(i) \/ SrvCopy(i) \/ SmbPut(i) \/ SmbClose(i) => Lands(i) /\ Writes(i)
  BY SmbLands
<1>4. QED BY <1>1, <1>2, <1>3, StartLands, OpenLands, GatherLands, ReadLands DEF TaskStep, SmbStep, NfsStep

-----------------------------------------------------------------------------
(* The connections, the faults and what is handed over.                    *)
LEMMA CallFacts ==
    ASSUME NEW i \in Items, Calls(i)
    PROVE  Call(i) \in (Items \X NfsOps) \cup {Nobody}
BY DEF Calls, Call

LEMMA PoolStep ==
    ASSUME Shape, NEW i \in Items, TaskStep(i)
    PROVE  turn' \in 1 .. Conns /\ holder' \in [1 .. Conns -> (Items \X NfsOps) \cup {Nobody}]
<1>1. turn \in 1 .. Conns /\ holder \in [1 .. Conns -> (Items \X NfsOps) \cup {Nobody}]
      /\ Conns \in Nat \ {0}
  BY BoundsAssumption DEF Shape
<1>2. CASE UNCHANGED pool
  BY <1>1, <1>2 DEF pool
<1>3. CASE Release(i)
  <2>1. holder' = [holder EXCEPT ![task[i].conn] = Nobody] /\ turn' = turn
    BY <1>3 DEF Release
  <2>2. QED BY <1>1, <2>1
<1>4. CASE Acquire(i)
  <2>1. turn' = (turn % Conns) + 1 /\ holder' \in {holder, [holder EXCEPT ![turn] = Call(i)]}
    BY <1>4 DEF Acquire
  <2>2. turn % Conns \in 0 .. Conns - 1
    BY <1>1
  <2>3. turn' \in 1 .. Conns
    BY <1>1, <2>1, <2>2
  <2>4. Call(i) \in (Items \X NfsOps) \cup {Nobody}
    BY <1>4, CallFacts DEF Acquire
  <2>5. QED BY <1>1, <2>1, <2>3, <2>4
<1>5. CASE Lock(i)
  <2>1. turn' = turn /\ holder' = [holder EXCEPT ![task[i].conn] = Call(i)]
    BY <1>5 DEF Lock
  <2>2. Call(i) \in (Items \X NfsOps) \cup {Nobody}
    BY <1>5, CallFacts DEF Lock
  <2>3. QED BY <1>1, <2>1, <2>2
<1>6. UNCHANGED pool \/ Release(i) \/ Acquire(i) \/ Lock(i)
  <2>1. SmbStep(i) => UNCHANGED pool
    BY DEF SmbStep, SmbMkdir, SmbCreate, SrvCopy, SmbPut, SmbClose
  <2>2. NfsStep(i) => Release(i) \/ Acquire(i) \/ Lock(i)
    BY DEF NfsStep, Lookup, Mkdir, DropConn, Relookup, NfsCreate, LookupFile, NfsPut, SetAttrs
  <2>3. QED BY <2>1, <2>2 DEF TaskStep, Start, OpenSource, Gather, ReadBlock, Ensure, NoteDir
<1>7. QED BY <1>2, <1>3, <1>4, <1>5, <1>6

LEMMA FaultStep ==
    ASSUME Shape, NoFault \/ Fault
    PROVE  faults' \in 0 .. MaxFaults /\ (faults' = 0 => faults = 0 /\ ~ Fault)
BY BoundsAssumption DEF Shape, NoFault, Fault

LEMMA TaskFaults ==
    ASSUME Shape, NEW i \in Items, TaskStep(i)
    PROVE  faults' \in 0 .. MaxFaults /\ (faults' = 0 => faults = 0)
<1>1. SmbStep(i) => NoFault \/ Fault
  BY DEF SmbStep, SmbMkdir, SmbCreate, SrvCopy, SmbPut, SmbClose
<1>2. NfsStep(i) => NoFault \/ Fault
  BY DEF NfsStep, Acquire, Lock, Lookup, Mkdir, Relookup, NfsCreate, LookupFile, NfsPut, SetAttrs, NoFault
<1>3. NoFault \/ Fault
  BY <1>1, <1>2 DEF TaskStep, Start, OpenSource, Gather, ReadBlock, Ensure, NoteDir, NoFault
<1>4. QED BY <1>3, FaultStep

LEMMA TaskGives ==
    ASSUME Shape, NEW i \in Items, TaskStep(i)
    PROVE  given \subseteq given' /\ given' \subseteq Files
<1>1. CASE Gather(i)
  BY <1>1, ItemFacts DEF Gather, Op, DirOps, Shape
<1>2. CASE UNCHANGED given
  BY <1>2 DEF Shape
<1>3. SmbStep(i) => UNCHANGED given
  BY DEF SmbStep, SmbMkdir, SmbCreate, SrvCopy, SmbPut, SmbClose
<1>4. NfsStep(i) => UNCHANGED given
  BY DEF NfsStep, Acquire, Lock, Lookup, Mkdir, Relookup, NfsCreate, LookupFile, NfsPut, SetAttrs
<1>5. QED BY <1>1, <1>2, <1>3, <1>4 DEF TaskStep, Start, OpenSource, ReadBlock, Ensure, NoteDir

LEMMA TaskShape ==
    ASSUME Shape, NEW i \in Items, i \in Files => FileInv(i), TaskStep(i)
    PROVE  Shape'
<1>1. Lands(i) /\ Writes(i)
  BY TaskLands
<1>2. /\ task' \in [Items -> Task] /\ \A j \in Items \ {i} : task'[j] = task[j]
      /\ task'[i].st # "todo" /\ (i \in Dirs /\ task'[i].st = "run" => task'[i].op \in DirOps)
  BY <1>1 DEF Lands, Settles, Becomes
<1>3. \A j \in Items : /\ task'[j].st = "todo" => task'[j] = NewTask
                       /\ j \in Dirs /\ task'[j].st = "run" => task'[j].op \in DirOps
  BY <1>2 DEF Shape, Running
<1>4. UNCHANGED <<way, source, phase, at>>
  BY DEF TaskStep, config, post
<1>5. QED BY <1>1, <1>2, <1>3, <1>4, PoolStep, TaskFaults, TaskGives DEF Shape, Running, Writes

-----------------------------------------------------------------------------
(* What is known of directories.  Only one that is there is about to be    *)
(* noted, and the copy takes none away.                                    *)
LEMMA QuietSteps ==
    ASSUME Shape, NEW i \in Items
    PROVE  /\ Again(i) => task'[i].op \notin Noting
           /\ Jukebox(i) /\ task[i].op \notin Noting => task'[i].op \notin Noting
           /\ Written(i) => task'[i].op \notin Noting
           /\ \A st \in Outcomes : Settle(i, st) => task'[i].op \notin Noting
           /\ \A op \in Ops \ Noting : Go(i, op) \/ Then(i, op) => task'[i].op \notin Noting
<1>1. Again(i) => task'[i].op \notin Noting
  BY AgainStep DEF Retries, Settles, Becomes, Noting, Restart
<1>2. Jukebox(i) /\ task[i].op \notin Noting => task'[i].op \notin Noting
  BY <1>1, JukeboxStep DEF Goes, Becomes
<1>3. ASSUME Written(i) PROVE task'[i].op \notin Noting
  <2>1. Settles(i, "copied") \/ \E end : Becomes(i, task[i].st, "read", end, task[i].buf, task[i].put)
    BY <1>3, WrittenStep
  <2>2. QED BY <2>1 DEF Settles, Becomes, Noting
<1>4. ASSUME NEW st \in Outcomes, Settle(i, st) PROVE task'[i].op \notin Noting
  BY <1>4, SettleStep DEF Settles, Becomes, Noting
<1>5. ASSUME NEW op \in Ops \ Noting, Go(i, op) \/ Then(i, op) PROVE task'[i].op \notin Noting
  BY <1>5, GoStep DEF Goes, Becomes
<1>6. QED BY <1>1, <1>2, <1>3, <1>4, <1>5

LEMMA SameSegment ==
    ASSUME Shape, NEW i \in Items, NEW op,
           Go(i, op) \/ Then(i, op) \/ Acquire(i) \/ Lock(i)
    PROVE  Next_(i)' = Next_(i)
<1>1. task[i] \in Task
  BY DEF Shape
<1>2. task'[i].seg = task[i].seg
  BY <1>1 DEF Go, Then, Acquire, Lock, Shape, Task
<1>3. QED BY <1>2 DEF Next_

LEMMA MakeStep ==
    ASSUME Shape, NEW i \in Items, task[i].op \in Noting /\ Running(i) => Next_(i) \in dirs, TaskStep(i)
    PROVE  /\ dirs \subseteq dirs'
           /\ task'[i].op \in Noting => Next_(i)' \in dirs'
           /\ cache' \subseteq cache \cup dirs
<1>1. task[i] \in Task
  BY DEF Shape
<1> DEFINE Quiet == dirs' = dirs /\ cache' = cache /\ task'[i].op \notin Noting
<1>2. Quiet => /\ dirs \subseteq dirs' /\ (task'[i].op \in Noting => Next_(i)' \in dirs')
               /\ cache' \subseteq cache \cup dirs
  OBVIOUS
<1>3. /\ "skipped" \in Outcomes /\ "made" \in Outcomes /\ "copied" \in Outcomes /\ "failed" \in Outcomes
  BY DEF Outcomes
<1>4. /\ Again(i) => task'[i].op \notin Noting
      /\ Jukebox(i) /\ task[i].op \notin Noting => task'[i].op \notin Noting
      /\ Written(i) => task'[i].op \notin Noting
      /\ \A st \in Outcomes : Settle(i, st) => task'[i].op \notin Noting
      /\ \A op \in Ops \ Noting : Go(i, op) \/ Then(i, op) => task'[i].op \notin Noting
  BY <1>3, QuietSteps
<1>5. CASE Start(i)
  <2>1. \/ Settle(i, "skipped")
        \/ task' = [task EXCEPT ![i] = [task[i] EXCEPT !.st = "run", !.op = FirstOp(i)]]
    BY <1>5 DEF Start
  <2>2. task'[i].op \notin Noting
    <3>1. task'[i].op = FirstOp(i) \/ Settle(i, "skipped")
      BY <1>1, <2>1 DEF Task, Shape
    <3>2. FirstOp(i) \notin Noting
      BY DEF FirstOp, Noting
    <3>3. QED BY <1>3, <1>4, <3>1, <3>2
  <2>3. QED BY <1>2, <1>5, <2>2 DEF Start, target
<1>6. CASE OpenSource(i)
  <2>1. \/ Go(i, "create") \/ Go(i, "gather") \/ Go(i, "read")
        \/ Settle(i, "copied") \/ Settle(i, "failed") \/ Again(i)
    BY <1>6 DEF OpenSource
  <2>2. task'[i].op \notin Noting
    BY <1>3, <1>4, <2>1 DEF Noting, Ops
  <2>3. QED BY <1>2, <1>6, <2>2 DEF OpenSource, target
<1>7. CASE Gather(i)
  <2>1. Settle(i, "copied") \/ Settle(i, "failed")
    BY <1>7 DEF Gather
  <2>2. task'[i].op \notin Noting
    BY <1>3, <1>4, <2>1
  <2>3. QED BY <1>2, <1>7, <2>2 DEF Gather, target
<1>8. CASE ReadBlock(i)
  <2>1. \/ task'[i].op = AfterRead(i)
        \/ Settle(i, "copied") \/ Settle(i, "failed") \/ Again(i)
    <3>1. PICK n : \/ task' = [task EXCEPT ![i] = [task[i] EXCEPT !.buf = n, !.put = 0, !.seg = 0, !.try = 0,
                                                               !.op = AfterRead(i)]]
                   \/ EndsShort(i) \/ Again(i)
      BY <1>8 DEF ReadBlock
    <3>2. QED BY <1>1, <3>1 DEF EndsShort, Shape, Task
  <2>2. task'[i].op \notin Noting
    BY <1>3, <1>4, <2>1 DEF AfterRead, Noting
  <2>3. QED BY <1>2, <1>8, <2>2 DEF ReadBlock, target
<1>9. CASE Ensure(i)
  <2>1. Settle(i, "made") \/ (\E op \in {"open", "create", "lookup", "mkdir"} : Go(i, op)) \/ task'[i].op = "ensure"
    BY <1>1, <1>9 DEF Ensure, Made, Unknown, Op, Shape, Task
  <2>2. task'[i].op \notin Noting
    BY <1>3, <1>4, <2>1 DEF Noting, Ops
  <2>3. QED BY <1>2, <1>9, <2>2 DEF Ensure, target
<1>10. CASE NoteDir(i)
  <2>1. task'[i].op = "ensure" /\ cache' = cache \cup {Next_(i)} /\ dirs' = dirs
    BY <1>1, <1>10 DEF NoteDir, Note, Shape, Task, target
  <2>2. Next_(i) \in dirs
    BY <1>10 DEF NoteDir, Op, Noting
  <2>3. QED BY <2>1, <2>2 DEF Noting
<1>11. CASE SmbMkdir(i)
  <2>1. CASE dirs' = dirs \cup {Next_(i)} /\ Go(i, "note")
    BY <1>11, <2>1, SameSegment DEF SmbMkdir
  <2>2. CASE Again(i)
    BY <1>11, <1>4, <2>2 DEF SmbMkdir
  <2>3. QED BY <1>11, <2>1, <2>2 DEF SmbMkdir
<1>12. CASE Acquire(i) \/ Lock(i)
  <2>1. task'[i].op = task[i].op /\ Next_(i)' = Next_(i) /\ dirs' = dirs /\ cache' = cache
    BY <1>1, <1>12, SameSegment DEF Acquire, Lock, target, Shape, Task
  <2>2. QED BY <1>12, <2>1 DEF Acquire, Lock, Calls
<1>13. CASE Lookup(i)
  <2>1. CASE Next_(i) \in dirs /\ Then(i, "note")
    BY <1>13, <2>1, SameSegment DEF Lookup, target
  <2>2. CASE Then(i, "mkdir")
    BY <1>2, <1>13, <1>4, <2>2 DEF Lookup, target, Ops, Noting
  <2>3. QED BY <1>13, <2>1, <2>2 DEF Lookup
<1>14. CASE Mkdir(i)
  <2>1. dirs' \in {dirs \cup {Next_(i)}} \cup (IF faults' = faults THEN {} ELSE {dirs}) /\ cache' = cache
    BY <1>14 DEF Mkdir
  <2>2. CASE NoFault /\ (Then(i, "note") \/ Then(i, "relookup"))
    <3>1. dirs' = dirs \cup {Next_(i)}
      BY <2>1, <2>2 DEF NoFault
    <3>2. QED BY <2>1, <2>2, <3>1, SameSegment
  <2>3. CASE Again(i)
    BY <2>1, <1>4, <2>3
  <2>4. QED BY <1>14, <2>2, <2>3 DEF Mkdir
<1>15. CASE Relookup(i)
  <2>1. dirs' = dirs /\ cache' = cache /\ Next_(i) \in dirs
    BY <1>15 DEF Relookup, target, Holds, Calls, Noting
  <2>2. CASE Then(i, "note")
    BY <2>1, <2>2, SameSegment
  <2>3. CASE Again(i)
    BY <1>2, <2>1, <1>4, <2>3
  <2>4. QED BY <1>15, <2>2, <2>3 DEF Relookup
<1>16. CASE NfsCreate(i) \/ LookupFile(i) \/ NfsPut(i) \/ SetAttrs(i)
  <2>1. dirs' = dirs /\ cache' = cache /\ task[i].op \notin Noting
    BY <1>16 DEF NfsCreate, LookupFile, NfsPut, SetAttrs, target, Holds, Noting
  <2>2. \/ (\E op \in {"lookupfile", "attrs", "put"} : Then(i, op)) \/ task'[i].op \in {"attrs", "put"}
        \/ Jukebox(i) \/ Again(i) \/ Written(i)
    <3>1. CASE NfsPut(i)
      <4>1. \/ (\E n \in 1 .. task[i].buf - task[i].put :
                 task' = [task EXCEPT ![i] =
                     [task[i] EXCEPT !.put = task[i].put + n, !.conn = 0, !.jukebox = 0,
                                     !.op = IF task[i].put + n = task[i].buf THEN "attrs" ELSE "put"]])
            \/ Then(i, "put") \/ Jukebox(i) \/ Again(i)
        BY <3>1 DEF NfsPut
      <4>2. QED BY <1>1, <4>1 DEF Shape, Task
    <3>2. QED BY <1>16, <3>1 DEF NfsCreate, LookupFile, SetAttrs
  <2>3. task'[i].op \notin Noting
    BY <1>4, <2>1, <2>2 DEF Noting, Ops
  <2>4. QED BY <1>2, <2>1, <2>3
<1>17. CASE SmbCreate(i) \/ SrvCopy(i) \/ SmbPut(i) \/ SmbClose(i)
  <2>1. dirs' = dirs /\ cache' = cache /\ task[i].op \notin Noting
    BY <1>17 DEF SmbCreate, SrvCopy, SmbPut, SmbClose, target, Op, Noting
  <2>2. \/ (\E op \in {"srvcopy", "read", "close", "put"} : Go(i, op)) \/ task'[i].op = "put"
        \/ Settle(i, "copied") \/ Again(i) \/ Written(i)
    <3>1. CASE SmbPut(i)
      <4>1. \/ (\E n \in 1 .. task[i].buf - task[i].put :
                 task' = [task EXCEPT ![i] = [task[i] EXCEPT !.put = task[i].put + n]])
            \/ Go(i, "close") \/ Written(i) \/ Again(i)
        BY <3>1 DEF SmbPut
      <4>2. task[i].op = "put"
        BY <3>1 DEF SmbPut, Op
      <4>3. QED BY <1>1, <4>1, <4>2 DEF Shape, Task
    <3>2. QED BY <1>17, <3>1 DEF SmbCreate, AfterCreate, SrvCopy, SmbClose
  <2>3. task'[i].op \notin Noting
    BY <1>3, <1>4, <2>1, <2>2 DEF Noting, Ops
  <2>4. QED BY <1>2, <2>1, <2>3
<1>18. QED
  BY <1>5, <1>6, <1>7, <1>8, <1>9, <1>10, <1>11, <1>12, <1>13, <1>14, <1>15, <1>16, <1>17
  DEF TaskStep, SmbStep, NfsStep

-----------------------------------------------------------------------------
(* A step of a task keeps the invariant.  What it writes is its own file.  *)
LEMMA Kept ==
    ASSUME NEW f \in Files, NEW d, NEW e,
           MapControl(f) \in DOMAIN d => MapControl(f) \in DOMAIN e /\ e[MapControl(f)] = d[MapControl(f)]
    PROVE  /\ \A n : HasUnits(f, n, d) => HasUnits(f, n, e)
           /\ Complete(f, d) => Complete(f, e)
           /\ \A op, off, buf, put : Good(f, op, off, buf, put, d) => Good(f, op, off, buf, put, e)
<1>1. \A n : HasUnits(f, n, d) => HasUnits(f, n, e)
  BY DEF HasUnits
<1>2. Complete(f, d) => Complete(f, e)
  BY <1>1 DEF Complete
<1>3. \A op, off, buf, put : Good(f, op, off, buf, put, d) => Good(f, op, off, buf, put, e)
  BY <1>1 DEF Good
<1>4. QED BY <1>1, <1>2, <1>3

LEMMA OwnFile ==
    ASSUME Shape, NEW f \in Files, TaskStep(f), Lands(f), UNCHANGED config
    PROVE  FileInv(f)'
<1>1. way' = way /\ source' = source
  BY DEF config
<1>2. CASE \E st \in {"skipped", "made", "failed"} : Settles(f, st)
  BY <1>2 DEF Settles, Becomes, FileInv, Running
<1>3. CASE Settles(f, "copied") /\ (f \in given' \/ Gap(f) \/ Complete(f, data'))
  <2>1. task'[f].st = "copied"
    BY <1>3 DEF Settles, Becomes
  <2>2. Gap(f)' <=> Gap(f)
    BY <1>1 DEF Gap, Streams
  <2>3. Complete(f, data') => Complete(f, data)'
    BY <1>1 DEF Complete, HasUnits
  <2>4. QED BY <1>3, <2>1, <2>2, <2>3 DEF FileInv, Running
<1>4. CASE \E op \in Ops, off \in Nat, buf \in Nat, put \in Nat :
              Becomes(f, "run", op, off, buf, put) /\ Good(f, op, off, buf, put, data')
  <2>1. PICK op \in Ops, off \in Nat, buf \in Nat, put \in Nat :
              Becomes(f, "run", op, off, buf, put) /\ Good(f, op, off, buf, put, data')
    BY <1>4
  <2>2. task'[f].st = "run" /\ task'[f].op = op /\ task'[f].off = off /\ task'[f].buf = buf /\ task'[f].put = put
    BY <2>1 DEF Becomes
  <2>3. Good(f, task'[f].op, task'[f].off, task'[f].buf, task'[f].put, data')
    BY <2>1, <2>2
  <2>4. Good(f, task[f].op, task[f].off, task[f].buf, task[f].put, data)'
    BY <1>1, <2>3 DEF Good, Fits, HasUnits, Placed, Streams, Reached, Bound
  <2>5. QED BY <2>2, <2>4 DEF FileInv, Running
<1>5. QED BY <1>2, <1>3, <1>4 DEF Lands

LEMMA OtherFile ==
    ASSUME Shape, NEW f \in Files, NEW i \in Items, i # f, Lands(i), Writes(i), FileInv(f),
           given \subseteq given', UNCHANGED <<config, phase>>
    PROVE  FileInv(f)'
<1>1. way' = way /\ source' = source /\ phase' = phase
  BY DEF config
<1>2. task'[f] = task[f]
  BY DEF Lands, Settles, Becomes, Items
<1>3. MapControl(f) \in DOMAIN data =>
         MapControl(f) \in DOMAIN data' /\ data'[MapControl(f)] = data[MapControl(f)]
  <2>1. i \in Dirs \/ MapControl(f) # MapControl(i)
    BY PlaceAssumption, ItemFacts
  <2>2. QED BY <2>1 DEF Writes
<1>4. Good(f, task[f].op, task[f].off, task[f].buf, task[f].put, data) =>
         Good(f, task[f].op, task[f].off, task[f].buf, task[f].put, data')
  BY <1>3, Kept
<1>5. Good(f, task[f].op, task[f].off, task[f].buf, task[f].put, data) =>
         Good(f, task[f].op, task[f].off, task[f].buf, task[f].put, data)'
  BY <1>1, <1>2, <1>4 DEF Good, Fits, HasUnits, Placed, Streams, Reached, Bound
<1>6. Complete(f, data) => Complete(f, data)'
  <2>1. Complete(f, data) => Complete(f, data')
    BY <1>3, Kept
  <2>2. QED BY <1>1, <2>1 DEF Complete, HasUnits
<1>7. Gap(f)' <=> Gap(f)
  BY <1>1 DEF Gap, Streams
<1>8. (Running(f) => Good(f, task[f].op, task[f].off, task[f].buf, task[f].put, data))'
  BY <1>2, <1>5 DEF FileInv, Running
<1>9. (task[f].st = "copied" /\ f \notin given /\ ~ Gap(f)
         /\ (phase \in {"copy", "hardlink"} \/ Elsewhere) => Complete(f, data))'
  BY <1>1, <1>2, <1>6, <1>7 DEF FileInv, Elsewhere
<1>10. QED BY <1>8, <1>9 DEF FileInv

(* Tasks run in the copy only.                                             *)
LEMMA TaskCopies ==
    ASSUME Known, NEW i \in Items, TaskStep(i)
    PROVE  phase = "copy"
<1>1. task[i].st = "todo" \/ Running(i)
  BY DEF TaskStep, SmbStep, NfsStep, Start, OpenSource, Gather, ReadBlock, Ensure, NoteDir, SmbMkdir, SmbCreate,
         SrvCopy, SmbPut, SmbClose, Acquire, Lock, Lookup, Mkdir, Relookup, NfsCreate, LookupFile, NfsPut,
         SetAttrs, Holds, Calls, Op
<1>2. ~ Ended(i)
  BY <1>1 DEF Ended, Running
<1>3. QED BY <1>2 DEF Known

LEMMA TaskInv ==
    ASSUME Inv, NEW i \in Items, TaskStep(i)
    PROVE  Inv'
<1>1. Shape /\ Known /\ (\A f \in Files : FileInv(f))
  BY DEF Inv
<1>2. Shape' /\ Lands(i) /\ Writes(i) /\ given \subseteq given'
  BY <1>1, TaskShape, TaskLands, TaskGives
<1>3. UNCHANGED <<config, phase>>
  BY DEF TaskStep, post
<1>4. phase = "copy"
  BY <1>1, TaskCopies
<1>5. Known'
  <2>1. /\ dirs \subseteq dirs' /\ cache' \subseteq cache \cup dirs
        /\ task'[i].op \in Noting => Next_(i)' \in dirs'
    BY <1>1, <1>4, MakeStep DEF Known
  <2>2. cache' \subseteq dirs'
    BY <1>1, <1>4, <2>1 DEF Known
  <2>3. ASSUME NEW j \in Items, task'[j].st = "run", task'[j].op \in Noting PROVE Next_(j)' \in dirs'
    <3>1. CASE j = i
      BY <2>1, <2>3, <3>1
    <3>2. CASE j # i
      <4>1. task'[j] = task[j]
        BY <1>2, <3>2 DEF Lands, Settles, Becomes
      <4>2. Next_(j)' = Next_(j)
        BY <4>1 DEF Next_
      <4>3. QED BY <1>1, <1>4, <2>1, <2>3, <4>1, <4>2 DEF Known, Running
    <3>3. QED BY <3>1, <3>2
  <2>4. QED BY <1>3, <1>4, <2>2, <2>3 DEF Known, Running
<1>6. \A f \in Files : FileInv(f)'
  BY <1>1, <1>2, <1>3, OwnFile, OtherFile
<1>7. QED BY <1>2, <1>5, <1>6 DEF Inv

-----------------------------------------------------------------------------
(* The phases add to the target, but for the deletions.                    *)
Preserves ==
    /\ data' \in [DOMAIN data' -> Seq(AnyUnit)]
    /\ \A f \in Files : (phase' = "hardlink" \/ Elsewhere) /\ MapControl(f) \in DOMAIN data =>
          MapControl(f) \in DOMAIN data' /\ data'[MapControl(f)] = data[MapControl(f)]

LEMMA PhaseKeeps ==
    ASSUME Inv, UNCHANGED <<config, cache, task, pool, given>>, \A i \in Items : Ended(i),
           phase' \in {"hardlink", "delete", "mtime", "done"}, at' \in Nat \ {0}, faults' \in 0 .. MaxFaults,
           phase' = "hardlink" => phase \in {"copy", "hardlink"},
           Preserves
    PROVE  Inv'
<1>1. way' = way /\ source' = source /\ turn' = turn /\ holder' = holder
  BY DEF config, pool
<1>2. Shape'
  BY <1>1 DEF Inv, Shape, Running, Preserves
<1>3. Known'
  BY DEF Known, Ended
<1>4. ASSUME NEW f \in Files PROVE FileInv(f)'
  <2>1. ~ Running(f)' /\ task' = task
    BY DEF Ended, Running, Items
  <2>2. Gap(f)' <=> Gap(f)
    BY <1>1 DEF Gap, Streams
  <2>3. ASSUME phase' = "hardlink" \/ Elsewhere, Complete(f, data) PROVE Complete(f, data)'
    <3>1. Complete(f, data')
      BY <2>3, Kept DEF Preserves
    <3>2. QED BY <1>1, <3>1 DEF Complete, HasUnits
  <2>4. FileInv(f)
    BY DEF Inv
  <2>5. (task[f].st = "copied" /\ f \notin given /\ ~ Gap(f)
           /\ (phase \in {"copy", "hardlink"} \/ Elsewhere) => Complete(f, data))'
    BY <2>1, <2>2, <2>3, <2>4 DEF FileInv, Elsewhere
  <2>6. QED BY <2>1, <2>5 DEF FileInv
<1>5. QED BY <1>2, <1>3, <1>4 DEF Inv

LEMMA PhaseInv ==
    ASSUME Inv, CopyDone \/ Phases
    PROVE  Inv'
<1>1. UNCHANGED <<config, cache, task, pool, given>>
  BY DEF CopyDone, Phases, PhaseFails, HardlinkPhase, DeleteFiles, DeleteDirs, DeleteDone, MtimePhase
<1>2. Shape /\ Known
  BY DEF Inv
<1>3. \A i \in Items : Ended(i)
  BY <1>2 DEF CopyDone, Phases, PhaseFails, HardlinkPhase, DeleteFiles, DeleteDirs, DeleteDone, MtimePhase, Known
<1>4. at \in Nat \ {0} /\ data \in [DOMAIN data -> Seq(AnyUnit)]
  BY <1>2 DEF Shape
<1>5. faults' \in 0 .. MaxFaults
  <2>1. NoFault \/ Fault
    BY DEF CopyDone, Phases, PhaseFails, HardlinkPhase, DeleteFiles, DeleteDirs, DeleteDone, MtimePhase, NoFault
  <2>2. QED BY <1>2, <2>1, FaultStep
<1>6. /\ phase' \in {"hardlink", "delete", "mtime", "done"} /\ at' \in Nat \ {0}
      /\ phase' = "hardlink" => phase \in {"copy", "hardlink"}
  <2>1. phase \in {"copy", "hardlink", "delete", "mtime"} /\ Enter =>
           /\ phase' \in {"hardlink", "delete", "mtime", "done"} /\ at' \in Nat \ {0}
           /\ phase' = "hardlink" => phase \in {"copy", "hardlink"}
    BY DEF Enter, After
  <2>2. phase \in {"hardlink", "delete", "mtime"} /\ Continue =>
           /\ phase' \in {"hardlink", "delete", "mtime", "done"} /\ at' \in Nat \ {0}
           /\ phase' = "hardlink" => phase \in {"copy", "hardlink"}
    BY <1>4 DEF Continue
  <2>3. DeleteDirs =>
           /\ phase' \in {"hardlink", "delete", "mtime", "done"} /\ at' \in Nat \ {0}
           /\ phase' = "hardlink" => phase \in {"copy", "hardlink"}
    BY <1>4 DEF DeleteDirs
  <2>4. \/ phase \in {"copy", "hardlink", "delete", "mtime"} /\ Enter
        \/ phase \in {"hardlink", "delete", "mtime"} /\ Continue
        \/ DeleteDirs
    BY DEF CopyDone, Phases, PhaseFails, HardlinkPhase, DeleteFiles, DeleteDone, MtimePhase
  <2>5. QED BY <2>1, <2>2, <2>3, <2>4
<1>7. Preserves
  <2>1. CASE data' = data
    BY <1>4, <2>1 DEF Preserves
  <2>2. ASSUME NEW p, NEW primary \in DOMAIN data, p \notin DOMAIN data, Link(p, primary)
        PROVE  Preserves
    <3>1. PICK old : old = DOMAIN data
      OBVIOUS
    <3>2. data' = [q \in old \cup {p} |-> IF q = p THEN data[primary] ELSE data[q]] /\ DOMAIN data' = old \cup {p}
      BY <2>2, <3>1 DEF Link
    <3>3. \A q \in old \cup {p} : (IF q = p THEN data[primary] ELSE data[q]) \in Seq(AnyUnit)
      BY <1>4, <3>1
    <3>4. data' \in [old \cup {p} -> Seq(AnyUnit)]
      BY <3>2, <3>3
    <3>5. QED BY <2>2, <3>1, <3>2, <3>4 DEF Preserves
  <2>3. ASSUME NEW p, \A f \in Files : Elsewhere => MapControl(f) # p, phase' # "hardlink", DeleteFile(p)
        PROVE  Preserves
    <3>1. PICK old : old = DOMAIN data
      OBVIOUS
    <3>2. data' = [q \in old \ {p} |-> data[q]] /\ DOMAIN data' = old \ {p}
      BY <2>3, <3>1 DEF DeleteFile
    <3>3. \A q \in old \ {p} : data[q] \in Seq(AnyUnit)
      BY <1>4, <3>1
    <3>4. data' \in [old \ {p} -> Seq(AnyUnit)]
      BY <3>2, <3>3
    <3>5. QED BY <2>3, <3>1, <3>2, <3>4 DEF Preserves
  <2>4. CASE HardlinkPhase
    <3>1. \/ data' = data
          \/ \E p : \E primary \in DOMAIN data : p \notin DOMAIN data /\ Link(p, primary)
      BY <2>4 DEF HardlinkPhase, Stay
    <3>2. QED BY <2>1, <2>2, <3>1
  <2>5. CASE DeleteFiles
    <3>1. PICK p : p = TargetRelative(GoneFiles[at])
      OBVIOUS
    <3>2. phase' # "hardlink" /\ (data' = data \/ DeleteFile(p))
      BY <2>5, <3>1 DEF DeleteFiles, Stay, Continue
    <3>3. at \in 1 .. Len(GoneFiles)
      <4>1. at <= Len(GoneFiles) /\ Len(GoneFiles) \in Nat
        BY <2>5, TreeAssumption DEF DeleteFiles
      <4>2. QED BY <1>4, <4>1
    <3>4. \A f \in Files : Elsewhere => MapControl(f) # p
      BY <3>1, <3>3 DEF Elsewhere
    <3>5. QED BY <2>1, <2>3, <3>2, <3>4
  <2>6. CASE CopyDone \/ PhaseFails \/ DeleteDirs \/ DeleteDone \/ MtimePhase
    BY <2>1, <2>6 DEF CopyDone, PhaseFails, DeleteDirs, DeleteDone, MtimePhase, DeleteDir, Stay, target
  <2>7. QED BY <2>4, <2>5, <2>6 DEF Phases
<1>8. QED BY <1>1, <1>3, <1>5, <1>6, <1>7, PhaseKeeps

LEMMA InitInv == Init => Inv
<1> SUFFICES ASSUME Init PROVE Inv
  OBVIOUS
<1>1. /\ NewTask \in Task
      /\ NewTask.st = "todo" /\ NewTask.op = "none"
  BY BoundsAssumption DEF NewTask, Task, Ops
<1>2. task = [i \in Items |-> NewTask] /\ phase = "copy" /\ cache = {}
  BY DEF Init
<1>3. data \in [DOMAIN data -> Seq(AnyUnit)]
  <2>1. ASSUME NEW n \in Nat PROVE OldUnits(n) \in Seq(AnyUnit)
    <3>1. \A k \in 1 .. n : <<<<"old">>, k>> \in AnyUnit
      BY DEF AnyUnit
    <3>2. OldUnits(n) \in [1 .. n -> AnyUnit]
      BY <3>1 DEF OldUnits
    <3>3. QED BY <3>2, FunctionIsSeq
  <2>2. PICK places : places = DOMAIN OldFiles
    OBVIOUS
  <2>3. \A p \in places : OldUnits(OldFiles[p]) \in Seq(AnyUnit)
    BY <2>1, <2>2, TreeAssumption
  <2>4. data = [p \in places |-> OldUnits(OldFiles[p])] /\ DOMAIN data = places
    BY <2>2 DEF Init
  <2>5. data \in [places -> Seq(AnyUnit)]
    BY <2>3, <2>4
  <2>6. QED BY <2>4, <2>5
<1>4. Shape
  <2>1. turn \in 1 .. Conns /\ holder \in [1 .. Conns -> (Items \X NfsOps) \cup {Nobody}]
        /\ faults \in 0 .. MaxFaults
    BY BoundsAssumption DEF Init
  <2>2. QED BY <1>1, <1>2, <1>3, <2>1 DEF Init, Shape, Running
<1>5. Known
  BY <1>1, <1>2 DEF Known, Running
<1>6. \A f \in Files : FileInv(f)
  BY <1>1, <1>2 DEF FileInv, Running, Items
<1>7. QED BY <1>4, <1>5, <1>6 DEF Inv

(* The state stays in good order: every task holds what its record says,   *)
(* whatever calls fail and however tasks interleave.                       *)
THEOREM Invariance == Spec => []Inv
<1>1. Inv /\ [Next]_vars => Inv'
  <2> SUFFICES ASSUME Inv, [Next]_vars PROVE Inv'
    OBVIOUS
  <2>1. ASSUME NEW i \in Items, TaskStep(i) PROVE Inv'
    BY <2>1, TaskInv
  <2>2. CASE CopyDone \/ Phases
    BY <2>2, PhaseInv
  <2>3. CASE UNCHANGED vars
    BY <2>3 DEF Inv, Shape, Known, FileInv, Running, Ended, Next_, Good, Fits, HasUnits, Placed, Streams, Gap,
                Complete, Elsewhere, vars, config, target, pool, post
  <2>4. QED BY <2>1, <2>2, <2>3 DEF Next, Done
<1>2. QED BY InitInv, <1>1, PTL DEF Spec

(* What the cache of directories holds exists, though tasks look, make and *)
(* note at the same time, and calls that made a directory seem to fail.    *)
THEOREM CachedDirsExist == Spec => []CachedExist
<1>1. Inv => CachedExist
  BY DEF Inv, Known, CachedExist
<1>2. QED BY Invariance, <1>1, PTL

(* HonestCopy, as long as the delete phase has not begun.                  *)
HonestSoFar == phase \in {"copy", "hardlink"} => HonestCopy

LEMMA Honesty ==
    ASSUME Inv, phase \in {"copy", "hardlink"} \/ Elsewhere
    PROVE  HonestCopy
<1> SUFFICES ASSUME NEW f \in Files, task[f].st = "copied", f \notin given, ~ Gap(f)
             PROVE  /\ MapControl(f) \in DOMAIN data
                    /\ IsPrefix([k \in 1 .. source.size[f] |-> Unit(f, k)], data[MapControl(f)])
                    /\ way.target = "smb" /\ source.have[f] = source.size[f] =>
                          Len(data[MapControl(f)]) = source.size[f]
  BY DEF HonestCopy, Gap
<1>1. Shape /\ Complete(f, data)
  BY DEF Inv, FileInv
<1>2. PICK size \in Nat : size = source.size[f]
  BY <1>1, SourceFacts
<1>3. PICK s : s = data[MapControl(f)]
  OBVIOUS
<1>4. s \in Seq(AnyUnit) /\ MapControl(f) \in DOMAIN data /\ HasUnits(f, size, data)
  BY <1>1, <1>2, <1>3 DEF Complete, Shape
<1>5. PICK wanted : wanted = [k \in 1 .. size |-> Unit(f, k)]
  OBVIOUS
<1>6. wanted \in Seq(AnyUnit) /\ Len(wanted) = size
  <2>1. \A k \in 1 .. size : Unit(f, k) \in AnyUnit
    BY DEF Unit, AnyUnit, Items
  <2>2. wanted \in [1 .. size -> AnyUnit]
    BY <1>5, <2>1
  <2>3. QED BY <2>2, FunctionIsSeq
<1>7. IsPrefix(wanted, s)
  <2>1. Len(wanted) <= Len(s) /\ \A k \in 1 .. size : wanted[k] = s[k]
    BY <1>3, <1>4, <1>5, <1>6 DEF HasUnits
  <2>2. SubSeq(wanted, 1, Len(wanted)) = SubSeq(s, 1, Len(wanted))
    BY <1>4, <1>6, <2>1
  <2>3. QED BY <2>1, <2>2 DEF IsPrefix
<1>8. QED BY <1>1, <1>2, <1>3, <1>4, <1>5, <1>7 DEF Complete

(* A file counted as copied is on the target unit by unit, but for the two *)
(* gaps that HonestCopy names, whatever calls failed, were short or were   *)
(* tried again, through the copy and the hardlink phase.                   *)
THEOREM CopyIsHonest == Spec => []HonestSoFar
<1>1. Inv => HonestSoFar
  BY Honesty DEF HonestSoFar
<1>2. QED BY Invariance, <1>1, PTL

(* ... and to the end, where the delete phase never looks for one of its   *)
(* entries at the place of a copied file: where it does, it takes the copy *)
(* away (RemovesOnlyGone).                                                 *)
THEOREM CopyStaysHonest ==
    ASSUME Elsewhere
    PROVE  Spec => []HonestCopy
<1>1. Inv => HonestCopy
  BY Honesty
<1>2. QED BY Invariance, <1>1, PTL

-----------------------------------------------------------------------------
(* What the delete phase takes away.  A task takes nothing away.           *)
LEMMA FileStep ==
    ASSUME Shape, NEW i \in Items, TaskStep(i)
    PROVE  /\ DOMAIN data \subseteq DOMAIN data'
           /\ \/ DOMAIN data' = DOMAIN data
              \/ NfsCreate(i) /\ DOMAIN data' = DOMAIN data \cup {MapControl(i)}
              \/ SmbCreate(i) /\ CanOpen(i) /\ DOMAIN data' = DOMAIN data \cup {MapControl(i)}
<1>1. PICK old, p : old = DOMAIN data /\ p = MapControl(i)
  OBVIOUS
<1>2. CASE NfsCreate(i)
  <2>1. data' = data \/ data' = [q \in old \cup {p} |-> IF q = p THEN <<>> ELSE data[q]]
    BY <1>1, <1>2 DEF NfsCreate
  <2>2. DOMAIN data' = old \/ DOMAIN data' = old \cup {p}
    BY <1>1, <2>1
  <2>3. QED BY <1>1, <1>2, <2>2
<1>3. CASE SmbCreate(i)
  <2>1. data' = data \/ (CanOpen(i) /\ data' = [q \in old \cup {p} |-> IF q = p THEN <<>> ELSE data[q]])
    BY <1>1, <1>3 DEF SmbCreate, Opened
  <2>2. DOMAIN data' = old \/ (CanOpen(i) /\ DOMAIN data' = old \cup {p})
    BY <1>1, <2>1
  <2>3. QED BY <1>1, <1>3, <2>2
<1>4. CASE NfsPut(i) \/ SrvCopy(i) \/ SmbPut(i)
  <2>1. data' = data \/ \E u : data' = [data EXCEPT ![p] = u]
    BY <1>1, <1>4 DEF NfsPut, SrvCopy, SmbPut, Put
  <2>2. DOMAIN data' = old
    BY <1>1, <2>1
  <2>3. QED BY <1>1, <2>2
<1>5. CASE \/ Start(i) \/ OpenSource(i) \/ Gather(i) \/ ReadBlock(i) \/ Ensure(i) \/ NoteDir(i)
           \/ SmbMkdir(i) \/ SmbClose(i) \/ Acquire(i) \/ Lock(i) \/ Lookup(i) \/ Mkdir(i) \/ Relookup(i)
           \/ LookupFile(i) \/ SetAttrs(i)
  <2>1. data' = data
    BY <1>5 DEF Start, OpenSource, Gather, ReadBlock, Ensure, NoteDir, SmbMkdir, SmbClose, Acquire, Lock, Lookup,
                Mkdir, Relookup, LookupFile, SetAttrs, target
  <2>2. QED BY <2>1
<1>6. QED BY <1>2, <1>3, <1>4, <1>5 DEF TaskStep, SmbStep, NfsStep

DeletesInPlace ==
    \A k \in 1 .. Len(GoneFiles) : TargetRelative(GoneFiles[k]) = MapControl(GoneFiles[k])

LEMMA GoneFacts ==
    /\ Len(GoneFiles) \in Nat
    /\ \A k \in 1 .. Len(GoneFiles) : GoneFiles[k] \in ToSet(GoneFiles)
    /\ \A p \in ToSet(GoneFiles) : \E k \in 1 .. Len(GoneFiles) : GoneFiles[k] = p
<1>1. Len(GoneFiles) \in Nat /\ DOMAIN GoneFiles = 1 .. Len(GoneFiles)
  BY PathAssumption
<1>2. QED BY <1>1 DEF ToSet

(* Where the phase looks for its entries at the places the copy gives      *)
(* them, it never takes the copy of anything else away, whatever calls     *)
(* fail.  (For a local source it looks elsewhere.)                         *)
THEOREM OnlyGoneRemoved ==
    ASSUME DeletesInPlace
    PROVE  Spec => RemovesOnlyGone
<1> DEFINE Safe == \A p \in DOMAIN data \ DOMAIN data' : \E f \in ToSet(GoneFiles) : MapControl(f) = p
<1>1. ASSUME Inv, [Next]_vars PROVE [Safe]_vars
  <2>1. ASSUME NEW i \in Items, TaskStep(i) PROVE Safe
    BY <1>1, <2>1, FileStep DEF Inv
  <2>2. CASE HardlinkPhase
    <3>1. data' = data \/ \E p, primary : Link(p, primary)
      BY <2>2 DEF HardlinkPhase, Stay
    <3>2. DOMAIN data \subseteq DOMAIN data'
      BY <3>1 DEF Link
    <3>3. QED BY <3>2
  <2>3. CASE DeleteFiles
    <3>1. at \in 1 .. Len(GoneFiles)
      BY <1>1, <2>3, GoneFacts DEF DeleteFiles, Inv, Shape
    <3>2. PICK p : p = TargetRelative(GoneFiles[at])
      OBVIOUS
    <3>3. GoneFiles[at] \in ToSet(GoneFiles) /\ MapControl(GoneFiles[at]) = p
      BY <3>1, <3>2, GoneFacts DEF DeletesInPlace
    <3>4. data' = data \/ DeleteFile(p)
      BY <2>3, <3>2 DEF DeleteFiles, Stay
    <3>5. DOMAIN data \ DOMAIN data' \subseteq {p}
      BY <3>4 DEF DeleteFile
    <3>6. QED BY <3>3, <3>5
  <2>4. CASE CopyDone \/ PhaseFails \/ DeleteDirs \/ DeleteDone \/ MtimePhase
    <3>1. data' = data
      BY <2>4 DEF CopyDone, PhaseFails, DeleteDirs, DeleteDone, MtimePhase, DeleteDir, Stay, target
    <3>2. QED BY <3>1
  <2>5. CASE UNCHANGED vars
    BY <2>5
  <2>6. QED BY <1>1, <2>1, <2>2, <2>3, <2>4, <2>5 DEF Next, Done, Phases
<1>2. QED BY Invariance, <1>1, PTL DEF Spec, RemovesOnlyGone

-----------------------------------------------------------------------------
(* The times of directories.                                               *)
TimesInPlace ==
    \A k \in 1 .. Len(TimedDirs) : TargetRelative(TimedDirs[k]) = MapControl(TimedDirs[k])

HasTime(k) == LET p == TargetRelative(TimedDirs[k]) IN Present(p) => p \in timed

TimesSoFar ==
    /\ phase = "mtime" /\ faults = 0 => \A k \in 1 .. Len(TimedDirs) : k < at => HasTime(k)
    /\ phase = "done" /\ faults = 0 => \A k \in 1 .. Len(TimedDirs) : HasTime(k)

LEMMA TimesStep ==
    ASSUME Inv, TimesSoFar, [Next]_vars
    PROVE  TimesSoFar'
<1>1. at \in Nat \ {0} /\ Len(TimedDirs) \in Nat /\ Shape
  BY PathAssumption DEF Inv, Shape
<1>2. CASE phase' \notin {"mtime", "done"} \/ faults' # 0
  BY <1>2 DEF TimesSoFar
<1>3. CASE UNCHANGED vars
  BY <1>3 DEF TimesSoFar, HasTime, Present, vars, post, target
<1>4. CASE DeleteDone /\ faults' = 0
  <2>1. phase' = "mtime" /\ at' = 1
    BY <1>4 DEF DeleteDone, Enter, After
  <2>2. QED BY <2>1 DEF TimesSoFar
<1>5. CASE MtimePhase /\ faults' = 0
  <2>1. phase = "mtime" /\ faults = 0 /\ dirs' = dirs /\ ~ Fault
    BY <1>1, <1>5, FaultStep DEF MtimePhase, target
  <2>2. CASE at > Len(TimedDirs) /\ Enter /\ timed' = timed
    <3>1. phase' = "done" /\ \A k \in 1 .. Len(TimedDirs) : k < at
      BY <1>1, <2>1, <2>2 DEF Enter, After
    <3>2. \A k \in 1 .. Len(TimedDirs) : HasTime(k)'
      BY <2>1, <2>2, <3>1 DEF TimesSoFar, HasTime, Present
    <3>3. QED BY <3>1, <3>2 DEF TimesSoFar
  <2>3. CASE at <= Len(TimedDirs) /\ Continue /\ SetTime(TargetRelative(TimedDirs[at]))
    <3>1. PICK p : p = TargetRelative(TimedDirs[at])
      OBVIOUS
    <3>2. at' = at + 1 /\ phase' = "mtime" /\ timed \subseteq timed' /\ (Present(p) => p \in timed')
      BY <2>1, <2>3, <3>1 DEF Continue, SetTime
    <3>3. ASSUME NEW k \in 1 .. Len(TimedDirs), k < at' PROVE HasTime(k)'
      <4>1. CASE k = at
        BY <2>1, <3>1, <3>2, <4>1 DEF HasTime, Present
      <4>2. CASE k < at
        BY <2>1, <3>2, <4>2 DEF TimesSoFar, HasTime, Present
      <4>3. QED BY <1>1, <3>2, <3>3, <4>1, <4>2
    <3>4. QED BY <3>2, <3>3 DEF TimesSoFar
  <2>4. QED BY <1>5, <2>1, <2>2, <2>3 DEF MtimePhase
<1>6. CASE phase = "copy" \/ CopyDone \/ PhaseFails \/ HardlinkPhase \/ DeleteFiles \/ DeleteDirs
  <2>1. ASSUME NEW i \in Items, TaskStep(i) PROVE phase' = phase
    BY <2>1 DEF TaskStep, post
  <2>2. ASSUME phase = "copy", CopyDone \/ [Next]_vars PROVE phase' \in {"copy", "hardlink"}
    BY <2>1, <2>2 DEF Next, Done, Phases, CopyDone, PhaseFails, HardlinkPhase, DeleteFiles, DeleteDirs, DeleteDone,
                      MtimePhase, Enter, After, vars, post
  <2>3. PhaseFails => faults' # 0
    BY <1>1, FaultStep DEF PhaseFails
  <2>4. CopyDone \/ HardlinkPhase \/ DeleteFiles \/ DeleteDirs => phase' \notin {"mtime", "done"}
    BY DEF CopyDone, HardlinkPhase, DeleteFiles, DeleteDirs, Enter, Continue, After
  <2>5. QED BY <1>2, <1>6, <2>2, <2>3, <2>4
<1>7. ASSUME NEW i \in Items, TaskStep(i) PROVE phase = "copy"
  BY <1>7, TaskCopies DEF Inv
<1>8. QED BY <1>1, <1>2, <1>3, <1>4, <1>5, <1>6, <1>7 DEF Next, Done, Phases

(* The times of directories are the last to be set: without failures every *)
(* directory of the mtime control file that is there has its time at the   *)
(* end, where the phase looks for it in its place.                         *)
THEOREM TimesHoldToTheEnd ==
    ASSUME TimesInPlace
    PROVE  Spec => []TimesHold
<1>1. Init => TimesSoFar
  BY DEF Init, TimesSoFar
<1>2. Inv /\ TimesSoFar => TimesHold
  <2> SUFFICES ASSUME TimesSoFar, phase = "done", faults = 0, NEW d \in ToSet(TimedDirs), Present(MapControl(d))
               PROVE  MapControl(d) \in timed
    BY DEF TimesHold
  <2>1. PICK k \in 1 .. Len(TimedDirs) : TimedDirs[k] = d
    BY PathAssumption DEF ToSet
  <2>2. QED BY <2>1 DEF TimesSoFar, HasTime, TimesInPlace
<1>3. QED BY Invariance, TimesStep, <1>1, <1>2, PTL DEF Spec

-----------------------------------------------------------------------------
(* Files lie in directories.  A task climbs down the path of its directory *)
(* segment by segment, each known to exist, and creates a file on NFS only *)
(* where it has arrived.                                                   *)
Below == {"note", "lookup", "mkdir", "relookup"}

Climbs(i) ==
    /\ task[i].seg <= Len(Tree(i))
    /\ task[i].seg > 0 => SubSeq(Tree(i), 1, task[i].seg) \in dirs
    /\ task[i].op \in Below => task[i].seg < Len(Tree(i))
    /\ task[i].op = "create" /\ way.target = "nfs" => Tree(i) \in dirs \cup {<<>>}

Rooted == \A p \in DOMAIN data : p \in Seq(STRING) /\ Parent(p) \in dirs \cup {<<>>}

Climbing ==
    /\ \A i \in Items : Running(i) => Climbs(i)
    /\ \A i \in Items : ~ Running(i) \/ i \in Dirs => task[i].put = 0
    /\ Rooted
    /\ phase = "hardlink" => at <= Len(Group)

LEMMA StripPath ==
    ASSUME NEW base \in Seq(STRING), NEW p \in Seq(STRING), Len(base) <= Len(p)
    PROVE  Strip(base, p) \in Seq(STRING)
BY DEF Strip

LEMMA FrontPath ==
    ASSUME NEW p \in Seq(STRING)
    PROVE  /\ Parent(p) \in Seq(STRING)
           /\ Len(p) <= 1 => Parent(p) = <<>>
           /\ Len(p) > 1 => Parent(p) \in Parents(p)
           /\ p # <<>> => IsStrictPrefix(Parent(p), p)
<1>1. PICK n \in Nat : n = Len(p)
  OBVIOUS
<1>2. Parent(p) \in Seq(STRING) /\ (n > 0 => Len(Parent(p)) = n - 1)
  BY <1>1 DEF Parent, Front
<1>3. n <= 1 => Parent(p) = <<>>
  BY <1>1 DEF Parent, Front
<1>4. n > 1 => Parent(p) \in Parents(p)
  BY <1>1 DEF Parent, Front, Parents
<1>5. ASSUME p # <<>> PROVE IsStrictPrefix(Parent(p), p)
  <2>1. n > 0
    BY <1>1, <1>5
  <2>2. PICK q \in Seq(STRING) : q = Parent(p)
    BY <1>2
  <2>3. Len(q) = n - 1 /\ \A k \in 1 .. n - 1 : q[k] = p[k]
    BY <1>1, <2>1, <2>2 DEF Parent, Front
  <2>4. SubSeq(q, 1, Len(q)) = SubSeq(p, 1, Len(q))
    BY <1>1, <2>1, <2>3
  <2>5. QED BY <1>1, <2>1, <2>2, <2>3, <2>4 DEF IsStrictPrefix, IsPrefix
<1>6. QED BY <1>1, <1>2, <1>3, <1>4, <1>5

LEMMA MapPath ==
    ASSUME NEW p \in Seq(STRING)
    PROVE  MapControl(p) \in Seq(STRING)
<1>1. Origin.root \in Seq(STRING)
  BY PathAssumption
<1>2. QED BY <1>1, StripPath DEF MapControl, IsPrefix

LEMMA TreePath ==
    ASSUME NEW i \in Items
    PROVE  /\ Tree(i) \in Seq(STRING) /\ MapControl(i) \in Seq(STRING)
           /\ i \in Files => Tree(i) = Parent(MapControl(i))
<1>1. i \in Seq(STRING)
  BY PathAssumption
<1>2. MapControl(i) \in Seq(STRING) /\ Parent(MapControl(i)) \in Seq(STRING)
  BY <1>1, MapPath, FrontPath
<1>3. QED BY <1>2, TreeAssumption DEF Tree

LEMMA TargetPath ==
    ASSUME NEW p \in Seq(STRING)
    PROVE  /\ TargetRelative(p) \in Seq(STRING) \/ Len(TargetRelative(p)) = 1
           /\ p # <<>> => TargetRelative(p) \in Seq(STRING)
<1>1. Origin.base \in Seq(STRING)
  BY PathAssumption
<1>2. CASE IsPrefix(Origin.base, p)
  BY <1>1, <1>2, StripPath DEF TargetRelative, IsPrefix
<1>3. CASE ~ IsPrefix(Origin.base, p)
  <2>1. p # <<>> => Last(p) \in STRING
    BY DEF Last
  <2>2. PICK x : x = Last(p)
    OBVIOUS
  <2>3. Len(<<x>>) = 1 /\ (x \in STRING => <<x>> \in Seq(STRING))
    OBVIOUS
  <2>4. TargetRelative(p) = p \/ TargetRelative(p) = <<x>>
    BY <1>3, <2>2 DEF TargetRelative
  <2>5. QED BY <2>1, <2>2, <2>3, <2>4
<1>4. QED BY <1>2, <1>3

(* What a step does to a task's place on its path.                         *)
Stays(i) == task'[i].st = task[i].st /\ task'[i].seg = task[i].seg /\ task'[i].put \in {0, task[i].put}
Rests(i) == task'[i].seg = 0 /\ task'[i].put = 0

LEMMA SegmentSteps ==
    ASSUME Shape, NEW i \in Items
    PROVE  /\ \A st \in Outcomes : Settle(i, st) => Rests(i) /\ task'[i].st = st /\ task'[i].op = "none"
           /\ Again(i) => Rests(i) /\ task'[i].op \notin Below \cup {"create"}
           /\ \A op : Go(i, op) \/ Then(i, op) => Stays(i) /\ task'[i].op = op
           /\ Jukebox(i) => \/ Again(i)
                            \/ Stays(i) /\ task'[i].op = task[i].op
           /\ Written(i) => \/ Settle(i, "copied")
                            \/ task'[i].st = task[i].st /\ task'[i].seg = task[i].seg /\ task'[i].op = "read"
<1>1. task[i] \in Task /\ task \in [Items -> Task]
  BY DEF Shape
<1>2. ASSUME NEW st \in Outcomes, Settle(i, st)
      PROVE  Rests(i) /\ task'[i].st = st /\ task'[i].op = "none"
  BY <1>1, <1>2 DEF Settle, NewTask, Rests
<1>3. ASSUME Again(i) PROVE Rests(i) /\ task'[i].op \notin Below \cup {"create"}
  <2>1. CASE Settle(i, "failed")
    BY <1>2, <2>1 DEF Below, Outcomes
  <2>2. CASE task' = [task EXCEPT ![i] =
             [task[i] EXCEPT !.op = Restart(task[i].op), !.try = task[i].try + 1, !.seg = 0, !.put = 0,
                             !.jukebox = 0, !.conn = 0]]
    <3>1. task'[i].op = Restart(task[i].op) /\ Rests(i)
      BY <1>1, <2>2 DEF Task, Rests
    <3>2. QED BY <3>1 DEF Restart, Below
  <2>3. QED BY <1>3, <2>1, <2>2 DEF Again
<1>4. ASSUME NEW op, Go(i, op) \/ Then(i, op) PROVE Stays(i) /\ task'[i].op = op
  BY <1>1, <1>4 DEF Go, Then, Task, Stays
<1>5. ASSUME Jukebox(i), ~ Again(i) PROVE Stays(i) /\ task'[i].op = task[i].op
  BY <1>1, <1>5 DEF Jukebox, Task, Stays
<1>6. ASSUME Written(i)
      PROVE  \/ Settle(i, "copied")
             \/ task'[i].st = task[i].st /\ task'[i].seg = task[i].seg /\ task'[i].op = "read"
  <2>1. PICK end : end = task[i].off + task[i].buf
    OBVIOUS
  <2>2. \/ Settle(i, "copied")
        \/ task' = [task EXCEPT ![i] = [task[i] EXCEPT !.off = end, !.op = "read", !.try = 0, !.conn = 0,
                                                      !.jukebox = 0]]
    BY <1>6, <2>1 DEF Written
  <2>3. QED BY <1>1, <2>2 DEF Task
<1>7. QED BY <1>2, <1>3, <1>4, <1>5, <1>6

(* Where a step leaves a task on its path.                                 *)
Arrives(i) ==
    \/ Rests(i) /\ task'[i].op \notin Below \cup {"create"}
    \/ /\ Running(i) /\ task'[i].st = "run" /\ (i \in Dirs => task'[i].put = 0)
       /\ \/ task'[i].seg = task[i].seg /\ task'[i].op \notin Below \cup {"create"}
          \/ task'[i].seg = task[i].seg /\ task[i].op \in Below /\ task'[i].op \in Below
          \/ task'[i].seg = task[i].seg /\ task'[i].op \in Below /\ task[i].seg < Len(Tree(i))
          \/ /\ task'[i].seg = task[i].seg /\ task'[i].op = "create"
             /\ way.target = "nfs" => task[i].op = "create" \/ Tree(i) \in cache \/ task[i].seg = Len(Tree(i))
          \/ /\ task'[i].seg = task[i].seg + 1 /\ task'[i].op = "ensure"
             /\ task[i].seg < Len(Tree(i)) /\ Next_(i) \in dirs

LEMMA ArriveStep ==
    ASSUME Shape, NEW i \in Items, Running(i) => Climbs(i), ~ Running(i) \/ i \in Dirs => task[i].put = 0,
           cache \subseteq dirs, task[i].op \in Noting /\ Running(i) => Next_(i) \in dirs, TaskStep(i)
    PROVE  Arrives(i)
<1>1. task[i] \in Task /\ task \in [Items -> Task] /\ Len(Tree(i)) \in Nat /\ task[i].seg \in Nat
  BY TreePath DEF Shape, Task
<1>2. /\ "skipped" \in Outcomes /\ "made" \in Outcomes /\ "copied" \in Outcomes /\ "failed" \in Outcomes
  BY DEF Outcomes
<1>3. /\ \A st \in Outcomes : Settle(i, st) => Arrives(i)
      /\ Again(i) => Arrives(i)
      /\ \A op : Go(i, op) \/ Then(i, op) => Stays(i) /\ task'[i].op = op
      /\ Jukebox(i) => Again(i) \/ (Stays(i) /\ task'[i].op = task[i].op)
      /\ Written(i) => \/ Arrives(i)
                       \/ task'[i].st = task[i].st /\ task'[i].seg = task[i].seg /\ task'[i].op = "read"
  <2>1. \A st \in Outcomes : Settle(i, st) => Arrives(i)
    BY SegmentSteps DEF Arrives, Below
  <2>2. QED BY <1>2, <2>1, SegmentSteps DEF Arrives
<1>4. ASSUME Running(i), NEW op, op \notin Below \cup {"create"}, Go(i, op) \/ Then(i, op)
      PROVE  Arrives(i)
  BY <1>3, <1>4 DEF Arrives, Stays, Running
<1>5. ASSUME Running(i), NEW op \in Below, task[i].op \in Below, Go(i, op) \/ Then(i, op)
      PROVE  Arrives(i)
  BY <1>3, <1>5 DEF Arrives, Stays, Running
<1>6. CASE Start(i)
  <2>1. ~ Running(i) /\ task[i].seg = 0 /\ task[i].put = 0
    BY <1>6 DEF Start, Running, Shape, NewTask
  <2>2. CASE task' = [task EXCEPT ![i] = [task[i] EXCEPT !.st = "run", !.op = FirstOp(i)]]
    <3>1. task'[i].seg = 0 /\ task'[i].put = 0 /\ task'[i].op = FirstOp(i)
      BY <1>1, <2>1, <2>2 DEF Task
    <3>2. QED BY <3>1 DEF FirstOp, Arrives, Rests, Below
  <2>3. QED BY <1>2, <1>3, <1>6, <2>2 DEF Start
<1>7. CASE OpenSource(i)
  <2>1. Running(i) /\ \/ Streams(i) /\ Go(i, "create")
                      \/ Go(i, "gather") \/ Go(i, "read")
                      \/ Settle(i, "copied") \/ Settle(i, "failed") \/ Again(i)
    BY <1>7 DEF OpenSource, Op
  <2>2. ASSUME Streams(i), Go(i, "create") PROVE Arrives(i)
    <3>1. way.target # "nfs"
      BY <2>2, WayFacts DEF Streams
    <3>2. Stays(i) /\ task'[i].op = "create"
      BY <1>3, <2>2
    <3>3. i \in Dirs => task'[i].put = 0
      BY <3>2 DEF Stays
    <3>4. QED BY <2>1, <3>1, <3>2, <3>3 DEF Arrives, Stays, Running
  <2>3. QED BY <1>2, <1>3, <1>4, <2>1, <2>2 DEF Below
<1>8. CASE Gather(i) \/ SrvCopy(i)
  <2>1. Running(i) /\ (Go(i, "read") \/ Settle(i, "copied") \/ Settle(i, "failed"))
    BY <1>8 DEF Gather, SrvCopy, Op
  <2>2. QED BY <1>2, <1>3, <1>4, <2>1 DEF Below
<1>9. CASE ReadBlock(i)
  <2>1. PICK n : \/ task' = [task EXCEPT ![i] = [task[i] EXCEPT !.buf = n, !.put = 0, !.seg = 0, !.try = 0,
                                                           !.op = AfterRead(i)]]
                 \/ EndsShort(i) \/ Again(i)
    BY <1>9 DEF ReadBlock
  <2>2. CASE task' = [task EXCEPT ![i] = [task[i] EXCEPT !.buf = n, !.put = 0, !.seg = 0, !.try = 0,
                                                      !.op = AfterRead(i)]]
    <3>1. task'[i].seg = 0 /\ task'[i].put = 0 /\ task'[i].op = AfterRead(i)
      BY <1>1, <2>2 DEF Task
    <3>2. QED BY <3>1 DEF Arrives, Rests, AfterRead, Below
  <2>3. QED BY <1>2, <1>3, <2>1, <2>2 DEF EndsShort
<1>10. CASE Ensure(i)
  <2>1. Running(i) /\ task[i].op = "ensure"
    BY <1>10 DEF Ensure, Op
  <2>2. CASE Tree(i) \in cache \/ task[i].seg = Len(Tree(i))
    <3>1. Settle(i, "made") \/ Go(i, "open") \/ Go(i, "create")
      BY <1>10, <2>2 DEF Ensure, Made
    <3>2. ASSUME Go(i, "create") PROVE Arrives(i)
      <4>1. Stays(i) /\ task'[i].op = "create"
        BY <1>3, <3>2
      <4>2. QED BY <2>1, <2>2, <4>1 DEF Arrives, Stays, Running
    <3>3. QED BY <1>2, <1>3, <1>4, <2>1, <3>1, <3>2 DEF Below
  <2>3. CASE ~ (Tree(i) \in cache \/ task[i].seg = Len(Tree(i))) /\ Next_(i) \in cache
    <3>1. task' = [task EXCEPT ![i] = [task[i] EXCEPT !.seg = task[i].seg + 1]]
      BY <1>10, <2>3 DEF Ensure
    <3>2. /\ task'[i].seg = task[i].seg + 1 /\ task'[i].op = "ensure" /\ task'[i].put = task[i].put
          /\ task'[i].st = "run"
      BY <1>1, <2>1, <3>1 DEF Task, Running
    <3>3. task[i].seg < Len(Tree(i)) /\ Next_(i) \in dirs
      BY <1>1, <2>1, <2>3 DEF Climbs
    <3>4. QED BY <2>1, <3>2, <3>3 DEF Arrives
  <2>4. CASE ~ (Tree(i) \in cache \/ task[i].seg = Len(Tree(i))) /\ Next_(i) \notin cache
    <3>1. Go(i, Unknown) /\ Unknown \in Below
      BY <1>10, <2>4 DEF Ensure, Unknown, Below
    <3>2. Stays(i) /\ task'[i].op \in Below
      BY <1>3, <3>1
    <3>3. task[i].seg < Len(Tree(i))
      BY <1>1, <2>1, <2>4 DEF Climbs
    <3>4. QED BY <2>1, <3>2, <3>3 DEF Arrives, Stays, Running
  <2>5. QED BY <2>2, <2>3, <2>4
<1>11. CASE NoteDir(i)
  <2>1. task' = [task EXCEPT ![i] = [task[i] EXCEPT !.seg = task[i].seg + 1, !.op = "ensure"]]
        /\ Running(i) /\ task[i].op = "note"
    BY <1>11 DEF NoteDir, Op
  <2>2. /\ task'[i].seg = task[i].seg + 1 /\ task'[i].op = "ensure" /\ task'[i].put = task[i].put
        /\ task'[i].st = "run"
    BY <1>1, <2>1 DEF Task, Running
  <2>3. task[i].seg < Len(Tree(i)) /\ Next_(i) \in dirs
    BY <2>1 DEF Climbs, Below, Noting
  <2>4. QED BY <2>1, <2>2, <2>3 DEF Arrives
<1>12. CASE SmbMkdir(i) \/ Lookup(i) \/ Mkdir(i) \/ Relookup(i)
  <2>1. Running(i) /\ task[i].op \in Below
    BY <1>12 DEF SmbMkdir, Lookup, Mkdir, Relookup, Holds, Calls, Op, Below
  <2>2. \/ Go(i, "note") \/ Then(i, "note") \/ Then(i, "mkdir") \/ Then(i, "relookup") \/ Again(i)
    BY <1>12 DEF SmbMkdir, Lookup, Mkdir, Relookup
  <2>3. QED BY <1>3, <1>5, <2>1, <2>2 DEF Below
<1>13. CASE Acquire(i) \/ Lock(i)
  <2>1. /\ Running(i) /\ task'[i].seg = task[i].seg /\ task'[i].op = task[i].op
        /\ task'[i].put = task[i].put /\ task'[i].st = "run"
    BY <1>1, <1>13 DEF Acquire, Lock, Calls, Task, Running
  <2>2. QED BY <2>1 DEF Arrives
<1>14. CASE NfsCreate(i)
  <2>1. Running(i) /\ task[i].op = "create"
    BY <1>14 DEF NfsCreate, Holds, Calls
  <2>2. (\E op \in {"lookupfile", "attrs", "put"} : Then(i, op)) \/ Jukebox(i) \/ Again(i)
    BY <1>14 DEF NfsCreate
  <2>3. Stays(i) /\ task'[i].op = task[i].op => Arrives(i)
    BY <2>1 DEF Arrives, Stays, Running
  <2>4. QED BY <1>3, <1>4, <2>1, <2>2, <2>3 DEF Below
<1>15. CASE LookupFile(i) \/ SmbClose(i) \/ SetAttrs(i)
  <2>1. Running(i) /\ i \notin Dirs
    BY <1>15, ItemFacts DEF LookupFile, SmbClose, SetAttrs, Holds, Calls, Op, DirOps
  <2>2. (\E op \in {"attrs", "put"} : Then(i, op)) \/ Written(i) \/ Again(i)
    BY <1>15 DEF LookupFile, SmbClose, SetAttrs
  <2>3. task'[i].st = task[i].st /\ task'[i].seg = task[i].seg /\ task'[i].op = "read" => Arrives(i)
    BY <2>1 DEF Arrives, Below, Running
  <2>4. QED BY <1>3, <1>4, <2>1, <2>2, <2>3 DEF Below
<1>16. CASE SmbCreate(i)
  <2>1. Running(i) /\ (Go(i, AfterCreate(i)) \/ Again(i)) /\ AfterCreate(i) \notin Below \cup {"create"}
    BY <1>16 DEF SmbCreate, Op, AfterCreate, Below
  <2>2. QED BY <1>3, <1>4, <2>1
<1>17. CASE NfsPut(i) \/ SmbPut(i)
  <2>1. Running(i) /\ task[i].op = "put" /\ i \notin Dirs
    BY <1>17, ItemFacts DEF NfsPut, SmbPut, Holds, Calls, Op, DirOps
  <2>2. \/ \E n : task' = [task EXCEPT ![i] =
                     [task[i] EXCEPT !.put = task[i].put + n, !.conn = 0, !.jukebox = 0,
                                     !.op = IF task[i].put + n = task[i].buf THEN "attrs" ELSE "put"]]
        \/ \E n : task' = [task EXCEPT ![i] = [task[i] EXCEPT !.put = task[i].put + n]]
        \/ Then(i, "put") \/ Jukebox(i) \/ Go(i, "close") \/ Written(i) \/ Again(i)
    BY <1>17 DEF NfsPut, SmbPut
  <2>3. Arrives(i) \/ (task'[i].st = task[i].st /\ task'[i].seg = task[i].seg
                       /\ task'[i].op \in {"attrs", "put", "close", "read"})
    <3>1. ASSUME NEW n, NEW op \in {"attrs", "put"},
                 task' = [task EXCEPT ![i] = [task[i] EXCEPT !.put = n, !.conn = 0, !.jukebox = 0, !.op = op]]
          PROVE  task'[i].st = task[i].st /\ task'[i].seg = task[i].seg /\ task'[i].op = op
      BY <1>1, <3>1 DEF Task
    <3>2. ASSUME NEW n, task' = [task EXCEPT ![i] = [task[i] EXCEPT !.put = n]]
          PROVE  task'[i].st = task[i].st /\ task'[i].seg = task[i].seg /\ task'[i].op = "put"
      BY <1>1, <2>1, <3>2 DEF Task
    <3>3. Then(i, "put") \/ Jukebox(i) \/ Go(i, "close") \/ Written(i) \/ Again(i)
          => Arrives(i) \/ (task'[i].st = task[i].st /\ task'[i].seg = task[i].seg
                            /\ task'[i].op \in {"attrs", "put", "close", "read"})
      BY <1>3, <2>1 DEF Stays
    <3>4. QED BY <2>2, <3>1, <3>2, <3>3
  <2>4. task'[i].st = task[i].st /\ task'[i].seg = task[i].seg
        /\ task'[i].op \in {"attrs", "put", "close", "read"} => Arrives(i)
    BY <2>1 DEF Arrives, Below, Running
  <2>5. QED BY <2>3, <2>4
<1>18. QED
  BY <1>6, <1>7, <1>8, <1>9, <1>10, <1>11, <1>12, <1>13, <1>14, <1>15, <1>16, <1>17
  DEF TaskStep, SmbStep, NfsStep

(* What a task knows of its path stays so, and a file is made only where   *)
(* its directory is.                                                       *)
LEMMA ArrivesClimbs ==
    ASSUME Shape, NEW i \in Items, Running(i) => Climbs(i), cache \subseteq dirs, dirs \subseteq dirs',
           Arrives(i), UNCHANGED config
    PROVE  Running(i)' => Climbs(i)'
<1> SUFFICES ASSUME task'[i].st = "run" PROVE Climbs(i)'
  BY DEF Running
<1>1. PICK t \in Seq(STRING) : t = Tree(i)
  BY TreePath
<1>2. PICK old \in Nat : old = task[i].seg
  BY DEF Shape, Task
<1>3. PICK new : new = task'[i].seg
  OBVIOUS
<1>4. way' = way /\ Tree(i)' = t
  BY <1>1 DEF config, Tree
<1>5. SubSeq(t, 1, Len(t)) = t /\ Len(t) \in Nat
  BY <1>1
<1>6. /\ Running(i) => old <= Len(t) /\ (old > 0 => SubSeq(t, 1, old) \in dirs')
      /\ Running(i) /\ task[i].op = "create" /\ way.target = "nfs" => t \in dirs' \cup {<<>>}
      /\ Running(i) /\ task[i].op \in Below => old < Len(t)
  BY <1>1, <1>2 DEF Climbs
<1>7. new <= Len(t) /\ (new > 0 => SubSeq(t, 1, new) \in dirs')
  <2>1. CASE new = 0
    BY <1>5, <2>1
  <2>2. CASE new = old /\ Running(i)
    BY <1>6, <2>2
  <2>3. CASE new = old + 1 /\ old < Len(t) /\ Next_(i) \in dirs
    <3>1. Next_(i) = SubSeq(t, 1, new)
      BY <1>1, <1>2, <2>3 DEF Next_
    <3>2. QED BY <1>2, <1>5, <2>3, <3>1
  <2>4. \/ new = 0 \/ (new = old /\ Running(i))
        \/ (new = old + 1 /\ old < Len(t) /\ Next_(i) \in dirs)
    BY <1>1, <1>2, <1>3 DEF Arrives, Rests
  <2>5. QED BY <2>1, <2>2, <2>3, <2>4
<1>8. task'[i].op \in Below => new < Len(t)
  BY <1>1, <1>2, <1>3, <1>6 DEF Arrives, Below
<1>9. task'[i].op = "create" /\ way.target = "nfs" => t \in dirs' \cup {<<>>}
  <2> SUFFICES ASSUME task'[i].op = "create", way.target = "nfs" PROVE t \in dirs' \cup {<<>>}
    OBVIOUS
  <2>1. Running(i) /\ (task[i].op = "create" \/ t \in cache \/ old = Len(t))
    BY <1>1, <1>2 DEF Arrives, Below
  <2>2. old = Len(t) => t \in dirs' \cup {<<>>}
    <3>1. Len(t) = 0 => t = <<>>
      BY <1>1
    <3>2. Len(t) > 0 /\ old = Len(t) => t \in dirs'
      BY <1>5, <1>6, <2>1
    <3>3. QED BY <1>5, <3>1, <3>2
  <2>3. QED BY <1>6, <2>1, <2>2
<1>10. QED BY <1>3, <1>4, <1>7, <1>8, <1>9 DEF Climbs

LEMMA TaskClimbs ==
    ASSUME Inv, Climbing, NEW i \in Items, TaskStep(i)
    PROVE  Climbing'
<1>1. Shape /\ Known /\ (\A f \in Files : FileInv(f)) /\ phase = "copy" /\ UNCHANGED config
  BY TaskCopies DEF Inv, TaskStep
<1>2. cache \subseteq dirs /\ (Running(i) /\ task[i].op \in Noting => Next_(i) \in dirs)
  BY <1>1 DEF Known
<1>3. dirs \subseteq dirs' /\ Arrives(i)
  BY <1>1, <1>2, MakeStep, ArriveStep DEF Climbing
<1>4. Lands(i)
  BY <1>1, TaskLands
<1>5. \A j \in Items : j # i => task'[j] = task[j]
  BY <1>4 DEF Lands, Settles, Becomes
<1>6. ASSUME NEW j \in Items, Running(j)' PROVE Climbs(j)'
  <2>1. CASE j = i
    BY <1>1, <1>2, <1>3, <1>6, <2>1, ArrivesClimbs DEF Climbing
  <2>2. CASE j # i
    <3>1. task'[j] = task[j] /\ way' = way /\ Running(j)
      BY <1>1, <1>5, <1>6, <2>2 DEF config, Running
    <3>2. Climbs(j)
      BY <3>1 DEF Climbing
    <3>3. PICK t, s : t = Tree(j) /\ s = task[j]
      OBVIOUS
    <3>4. Tree(j)' = t /\ task'[j] = s
      BY <3>1, <3>3 DEF Tree
    <3>5. /\ s.seg <= Len(t) /\ (s.seg > 0 => SubSeq(t, 1, s.seg) \in dirs')
          /\ s.op \in Below => s.seg < Len(t)
          /\ s.op = "create" /\ way.target = "nfs" => t \in dirs' \cup {<<>>}
      BY <1>3, <3>2, <3>3 DEF Climbs
    <3>6. way.target' = way.target
      BY <3>1
    <3>7. QED BY <3>4, <3>5, <3>6 DEF Climbs
  <2>3. QED BY <2>1, <2>2
<1>7. ASSUME NEW j \in Items, ~ Running(j)' \/ j \in Dirs PROVE task'[j].put = 0
  <2>1. CASE j = i
    BY <1>3, <1>7, <2>1 DEF Arrives, Rests, Running
  <2>2. CASE j # i
    BY <1>5, <1>7, <2>2 DEF Climbing, Running
  <2>3. QED BY <2>1, <2>2
<1>8. Rooted'
  <2>1. Rooted
    BY DEF Climbing
  <2>2. CASE DOMAIN data' = DOMAIN data
    BY <1>3, <2>1, <2>2 DEF Rooted
  <2>3. ASSUME i \in Files, Parent(MapControl(i)) \in dirs \cup {<<>>},
               DOMAIN data' = DOMAIN data \cup {MapControl(i)}
        PROVE  Rooted'
    BY <1>3, <2>1, <2>3, TreePath DEF Rooted
  <2>4. NfsCreate(i) => i \in Files /\ Parent(MapControl(i)) \in dirs \cup {<<>>}
    <3> SUFFICES ASSUME NfsCreate(i) PROVE i \in Files /\ Parent(MapControl(i)) \in dirs \cup {<<>>}
      OBVIOUS
    <3>1. Running(i) /\ task[i].op = "create" /\ way.target = "nfs"
      BY DEF NfsCreate, Holds, Calls
    <3>2. i \in Files
      BY <1>1, <3>1, ItemFacts DEF DirOps
    <3>3. QED BY <3>1, <3>2, TreePath DEF Climbing, Climbs
  <2>5. SmbCreate(i) /\ CanOpen(i) => i \in Files /\ Parent(MapControl(i)) \in dirs \cup {<<>>}
    BY <1>1, ItemFacts DEF SmbCreate, CanOpen, Op, DirOps
  <2>6. QED BY <1>1, <2>2, <2>3, <2>4, <2>5, FileStep
<1>9. phase' = phase
  BY DEF TaskStep, post
<1>10. QED BY <1>1, <1>6, <1>7, <1>8, <1>9 DEF Climbing

LEMMA GroupPath ==
    ASSUME NEW k \in 1 .. Len(Group)
    PROVE  Group[k] \in Files /\ Group[k] \in Seq(STRING) /\ TargetRelative(Group[k]) \in Seq(STRING)
<1>1. Group[k] \in ToSet(Group)
  BY PathAssumption DEF ToSet
<1>2. Group[k] \in Files /\ Group[k] \in Seq(STRING)
  BY <1>1, TreeAssumption, PathAssumption DEF Items
<1>3. QED BY <1>2, TargetPath, PathAssumption

(* What the phases do to the target.                                       *)
LEMMA PhaseTarget ==
    ASSUME Inv, Climbing, CopyDone \/ Phases
    PROVE  \/ UNCHANGED target
           \/ \E k \in 1 .. Len(Group) : \E primary :
                 HardlinkPhase /\ Link(TargetRelative(Group[k]), primary)
           \/ DeleteFiles /\ at \in 1 .. Len(GoneFiles) /\ DeleteFile(TargetRelative(GoneFiles[at]))
           \/ DeleteDirs /\ \E d \in left : Empty(TargetRelative(d)) /\ DeleteDir(TargetRelative(d))
<1>1. at \in Nat \ {0} /\ Len(Group) \in Nat \ {0}
  BY PathAssumption, TreeAssumption DEF Inv, Shape
<1>2. CASE HardlinkPhase
  <2>1. phase = "hardlink" /\ at <= Len(Group)
    BY <1>2 DEF HardlinkPhase, Climbing
  <2>2. CASE at = Len(Group) \/ TargetRelative(Group[1]) \notin DOMAIN data
    BY <1>2, <2>2 DEF HardlinkPhase, Stay, target
  <2>3. CASE ~ (at = Len(Group) \/ TargetRelative(Group[1]) \notin DOMAIN data)
    <3>1. Stay \/ Link(TargetRelative(Group[at + 1]), TargetRelative(Group[1]))
      BY <1>2, <2>3 DEF HardlinkPhase
    <3>2. at + 1 \in 1 .. Len(Group)
      BY <1>1, <2>1, <2>3
    <3>3. QED BY <1>2, <3>1, <3>2 DEF Stay, target
  <2>4. QED BY <2>2, <2>3
<1>3. CASE DeleteFiles
  <2>1. at \in 1 .. Len(GoneFiles)
    BY <1>1, <1>3, GoneFacts DEF DeleteFiles
  <2>2. QED BY <1>3, <2>1 DEF DeleteFiles, Stay, target
<1>4. CASE DeleteDirs
  BY <1>4 DEF DeleteDirs, Stay, target
<1>5. CASE CopyDone \/ PhaseFails \/ DeleteDone \/ MtimePhase
  BY <1>5 DEF CopyDone, PhaseFails, DeleteDone, MtimePhase, target
<1>6. QED BY <1>2, <1>3, <1>4, <1>5 DEF Phases

LEMMA PhaseClimbs ==
    ASSUME Inv, Climbing, CopyDone \/ Phases
    PROVE  Climbing'
<1>1. task' = task
  BY DEF CopyDone, Phases, PhaseFails, HardlinkPhase, DeleteFiles, DeleteDirs, DeleteDone, MtimePhase
<1>2. \A i \in Items : Ended(i)
  BY DEF CopyDone, Phases, PhaseFails, HardlinkPhase, DeleteFiles, DeleteDirs, DeleteDone, MtimePhase, Inv, Known
<1>3. /\ \A i \in Items : Running(i)' => Climbs(i)'
      /\ \A i \in Items : ~ Running(i)' \/ i \in Dirs => task'[i].put = 0
  BY <1>1, <1>2 DEF Running, Ended, Climbing
<1>4. (phase = "hardlink" => at <= Len(Group))'
  <2>1. at \in Nat \ {0} /\ Len(Group) \in Nat \ {0}
    BY PathAssumption, TreeAssumption DEF Inv, Shape
  <2>2. CASE HardlinkPhase
    BY <2>1, <2>2 DEF HardlinkPhase, Enter, Continue, After, Climbing
  <2>3. CASE CopyDone
    BY <2>1, <2>3 DEF CopyDone, Enter, After
  <2>4. CASE PhaseFails \/ DeleteFiles \/ DeleteDirs \/ DeleteDone \/ MtimePhase
    <3>1. phase' # "hardlink"
      BY <2>4 DEF PhaseFails, DeleteFiles, DeleteDirs, DeleteDone, MtimePhase, Enter, Continue, After
    <3>2. QED BY <3>1
  <2>5. QED BY <2>2, <2>3, <2>4 DEF Phases
<1>5. Rooted'
  <2>1. Rooted
    BY DEF Climbing
  <2>2. CASE UNCHANGED target
    BY <2>1, <2>2 DEF Rooted, target
  <2>3. ASSUME NEW k \in 1 .. Len(Group), NEW primary, Link(TargetRelative(Group[k]), primary)
        PROVE  Rooted'
    <3>1. PICK p \in Seq(STRING) : p = TargetRelative(Group[k])
      BY GroupPath
    <3>2. dirs' = dirs \cup Parents(p) /\ DOMAIN data' = DOMAIN data \cup {p}
      BY <2>3, <3>1 DEF Link
    <3>3. Parent(p) \in dirs' \cup {<<>>}
      <4>1. Len(p) <= 1 \/ Len(p) > 1
        BY <3>1
      <4>2. QED BY <3>2, <4>1, FrontPath
    <3>4. QED BY <2>1, <3>2, <3>3 DEF Rooted
  <2>4. ASSUME NEW p, DeleteFile(p) PROVE Rooted'
    <3>1. dirs' = dirs /\ DOMAIN data' \subseteq DOMAIN data
      BY <2>4 DEF DeleteFile
    <3>2. QED BY <2>1, <3>1 DEF Rooted
  <2>5. ASSUME NEW p, Empty(p), DeleteDir(p) PROVE Rooted'
    <3>1. dirs' = dirs \ {p} /\ data' = data
      BY <2>5 DEF DeleteDir
    <3>2. ASSUME NEW q \in DOMAIN data PROVE Parent(q) \in dirs' \cup {<<>>}
      <4>1. q \in Seq(STRING) /\ Parent(q) \in dirs \cup {<<>>}
        BY <2>1 DEF Rooted
      <4>2. CASE q = <<>>
        <5>1. Len(q) <= 1
          BY <4>2
        <5>2. QED BY <4>1, <5>1, FrontPath
      <4>3. CASE q # <<>>
        <5>1. IsStrictPrefix(Parent(q), q)
          BY <4>1, <4>3, FrontPath
        <5>2. Parent(q) # p
          BY <2>5, <5>1 DEF Empty
        <5>3. QED BY <3>1, <4>1, <5>2
      <4>4. QED BY <4>2, <4>3
    <3>3. QED BY <2>1, <3>1, <3>2 DEF Rooted
  <2>6. QED BY <2>2, <2>3, <2>4, <2>5, PhaseTarget
<1>6. QED BY <1>3, <1>4, <1>5 DEF Climbing

LEMMA InitClimbs == Init => Climbing
<1> SUFFICES ASSUME Init PROVE Climbing
  OBVIOUS
<1>1. \A i \in Items : task[i] = NewTask
  BY DEF Init
<1>2. \A i \in Items : ~ Running(i) /\ task[i].put = 0
  BY <1>1 DEF NewTask, Running
<1>3. phase = "copy"
  BY DEF Init
<1>4. Rooted
  <2>1. DOMAIN data = DOMAIN OldFiles /\ dirs = OldDirs
    BY DEF Init
  <2>2. QED BY <2>1, PathAssumption DEF Rooted
<1>5. QED BY <1>2, <1>3, <1>4 DEF Climbing

LEMMA ClimbingHolds == Spec => []Climbing
<1>1. Inv /\ Climbing /\ [Next]_vars => Climbing'
  <2> SUFFICES ASSUME Inv, Climbing, [Next]_vars PROVE Climbing'
    OBVIOUS
  <2>1. ASSUME NEW i \in Items, TaskStep(i) PROVE Climbing'
    BY <2>1, TaskClimbs
  <2>2. CASE CopyDone \/ Phases
    BY <2>2, PhaseClimbs
  <2>3. CASE UNCHANGED vars
    <3>1. dirs' = dirs /\ data' = data /\ task' = task /\ way' = way /\ phase' = phase /\ at' = at
      BY <2>3 DEF vars, config, target, post
    <3>2. QED BY <3>1 DEF Climbing, Climbs, Running, Rooted, Tree
  <2>4. QED BY <2>1, <2>2, <2>3 DEF Next, Done
<1>2. QED BY Invariance, InitClimbs, <1>1, PTL DEF Spec

(* The variables keep their types, no attempt is one too many, no part of  *)
(* a block is written that was not read, and every file of the target lies *)
(* in a directory of it, through the copy and all phases.                  *)
THEOREM TypeCorrect == Spec => []TypeOK
<1>1. Inv /\ Climbing => TypeOK
  <2> SUFFICES ASSUME Inv, Climbing PROVE TypeOK
    OBVIOUS
  <2>1. Shape /\ (\A f \in Files : FileInv(f))
    BY DEF Inv
  <2>2. ASSUME NEW i \in Items
        PROVE  /\ task[i].conn \in 0 .. Conns /\ task[i].try \in 0 .. MaxRetries
               /\ task[i].put <= task[i].buf /\ task[i].buf <= Block
    <3>1. task[i] \in Task /\ Block \in Nat
      BY <2>1, BoundsAssumption DEF Shape
    <3>2. task[i].buf \in 0 .. Block /\ task[i].conn \in 0 .. Conns /\ task[i].try \in 0 .. MaxRetries
      BY <3>1, TaskFields
    <3>3. CASE ~ Running(i) \/ i \in Dirs
      BY <3>1, <3>2, <3>3 DEF Climbing
    <3>4. CASE Running(i) /\ i \in Files
      BY <2>1, <3>1, <3>2, <3>4 DEF FileInv, Good, Fits
    <3>5. QED BY <3>3, <3>4 DEF Items
  <2>3. \A p \in DOMAIN data : Parent(p) \in dirs \cup {<<>>}
    BY DEF Climbing, Rooted
  <2>4. DOMAIN task = Items
    BY <2>1 DEF Shape
  <2>5. QED BY <2>1, <2>2, <2>3, <2>4 DEF TypeOK, Shape
<1>2. QED BY Invariance, ClimbingHolds, <1>1, PTL

-----------------------------------------------------------------------------
(* What is gone.  Nothing is copied or linked at or below an entry of the  *)
(* delete control file, what was there before is an entry itself, and the  *)
(* phases look for the entries in their places.                            *)
GonePlaces == {TargetRelative(p) : p \in ToSet(GoneFiles) \cup GoneDirs}
Under(q) == \E g \in GonePlaces : IsPrefix(g, q)

GoneFile(q, k) == TargetRelative(GoneFiles[k]) = q

GoneApart ==
    /\ \A p \in ToSet(GoneFiles) \cup GoneDirs : TargetRelative(p) = MapControl(p)
    /\ \A q \in OldDirs : Under(q) => \E d \in GoneDirs : TargetRelative(d) = q
    /\ \A q \in DOMAIN OldFiles : Under(q) => \E k \in 1 .. Len(GoneFiles) : GoneFile(q, k)
    /\ \A i \in Items : ~ Under(MapControl(i))
    /\ \A k \in 1 .. Len(Group) : ~ Under(TargetRelative(Group[k]))
    /\ \A d, e \in GoneDirs :
          IsStrictPrefix(TargetRelative(d), TargetRelative(e)) => IsStrictPrefix(d, e)

(* What is still there of it: entries that the phase has yet to reach.     *)
Waiting == {"copy", "hardlink", "delete"}

DirsGo ==
    \A q \in dirs : Under(q) => phase \in Waiting /\ \E d \in left : TargetRelative(d) = q

FilesGo ==
    \A q \in DOMAIN data : Under(q) =>
        /\ phase \in Waiting
        /\ \E k \in 1 .. Len(GoneFiles) : GoneFile(q, k) /\ (phase = "delete" => k >= at)

Going == left \subseteq GoneDirs /\ (faults = 0 => DirsGo /\ FilesGo)

LEMMA GoneLength ==
    ASSUME NEW g \in GonePlaces
    PROVE  Len(g) \in Nat
<1>1. PICK p \in ToSet(GoneFiles) \cup GoneDirs : g = TargetRelative(p)
  BY DEF GonePlaces
<1>2. p \in Seq(STRING)
  BY PathAssumption DEF ToSet
<1>3. g \in Seq(STRING) \/ Len(g) = 1
  BY <1>1, <1>2, TargetPath
<1>4. QED BY <1>3

LEMMA UnderPrefix ==
    ASSUME NEW q \in Seq(STRING), NEW n \in 0 .. Len(q), Under(SubSeq(q, 1, n))
    PROVE  Under(q)
<1>1. PICK g \in GonePlaces : IsPrefix(g, SubSeq(q, 1, n))
  BY DEF Under
<1>2. PICK m \in Nat : m = Len(g)
  BY GoneLength
<1>3. Len(SubSeq(q, 1, n)) = n /\ Len(q) \in Nat
  OBVIOUS
<1>4. m <= n /\ SubSeq(g, 1, m) = SubSeq(SubSeq(q, 1, n), 1, m)
  BY <1>1, <1>2, <1>3 DEF IsPrefix
<1>5. SubSeq(SubSeq(q, 1, n), 1, m) = SubSeq(q, 1, m)
  BY <1>2, <1>3, <1>4
<1>6. IsPrefix(g, q)
  BY <1>2, <1>3, <1>4, <1>5 DEF IsPrefix
<1>7. QED BY <1>6 DEF Under

(* A directory that a task or a link makes is above what is copied there.  *)
LEMMA TreeNotGone ==
    ASSUME GoneApart, NEW i \in Items, NEW n \in 0 .. Len(Tree(i))
    PROVE  ~ Under(SubSeq(Tree(i), 1, n))
<1>1. PICK p \in Seq(STRING) : p = MapControl(i)
  BY TreePath
<1>2. ~ Under(p)
  BY <1>1 DEF GoneApart
<1>3. Tree(i) \in Seq(STRING) /\ (Tree(i) = p \/ Tree(i) = Parent(p))
  BY <1>1, TreePath DEF Tree
<1>4. CASE Tree(i) = p
  BY <1>1, <1>2, <1>4, UnderPrefix
<1>5. CASE Tree(i) = Parent(p) /\ p # <<>>
  <2>1. Tree(i) = SubSeq(p, 1, Len(p) - 1) /\ Len(p) - 1 \in 0 .. Len(p)
    BY <1>1, <1>5 DEF Parent, Front
  <2>2. ~ Under(Tree(i))
    BY <1>2, <2>1, UnderPrefix
  <2>3. QED BY <1>3, <2>2, UnderPrefix
<1>6. CASE Tree(i) = Parent(p) /\ p = <<>>
  <2>1. Len(p) <= 1
    BY <1>6
  <2>2. Tree(i) = p
    BY <1>6, <2>1, FrontPath
  <2>3. QED BY <1>4, <2>2
<1>7. QED BY <1>3, <1>4, <1>5, <1>6

LEMMA ParentsNotGone ==
    ASSUME NEW p \in Seq(STRING), ~ Under(p), NEW q \in Parents(p)
    PROVE  ~ Under(q)
<1>1. PICK k \in 1 .. Len(p) - 1 : q = SubSeq(p, 1, k)
  BY DEF Parents
<1>2. k \in 0 .. Len(p)
  OBVIOUS
<1>3. QED BY <1>1, <1>2, UnderPrefix

LEMMA NewDirs ==
    ASSUME Shape, Climbing, NEW i \in Items, TaskStep(i)
    PROVE  \/ dirs' \subseteq dirs
           \/ dirs' \subseteq dirs \cup {Next_(i)} /\ task[i].seg + 1 \in 0 .. Len(Tree(i))
<1>1. CASE SmbMkdir(i) \/ Mkdir(i)
  <2>1. Running(i) /\ task[i].op = "mkdir"
    BY <1>1 DEF SmbMkdir, Mkdir, Holds, Calls, Op
  <2>2. task[i].seg < Len(Tree(i)) /\ task[i].seg \in Nat /\ Len(Tree(i)) \in Nat
    BY <2>1, TreePath, TaskFields DEF Climbing, Climbs, Below, Shape
  <2>3. dirs' \subseteq dirs \cup {Next_(i)}
    BY <1>1 DEF SmbMkdir, Mkdir
  <2>4. QED BY <2>2, <2>3
<1>2. CASE ~ (SmbMkdir(i) \/ Mkdir(i))
  <2>1. dirs' = dirs
    BY <1>2 DEF TaskStep, SmbStep, NfsStep, Start, OpenSource, Gather, ReadBlock, Ensure, NoteDir, SmbCreate,
         SrvCopy, SmbPut, SmbClose, Acquire, Lock, Lookup, Relookup, NfsCreate, LookupFile, NfsPut, SetAttrs, target
  <2>2. QED BY <2>1
<1>3. QED BY <1>1, <1>2

LEMMA TaskGoing ==
    ASSUME GoneApart, Inv, Climbing, Going, NEW i \in Items, TaskStep(i)
    PROVE  Going'
<1>1. Shape /\ UNCHANGED <<left, phase, at>> /\ phase = "copy"
  BY TaskCopies DEF Inv, TaskStep, post
<1>2. faults' = 0 => faults = 0
  BY <1>1, TaskFaults
<1>3. \A q \in dirs' \ dirs : ~ Under(q)
  <2>1. task[i].seg + 1 \in 0 .. Len(Tree(i)) => ~ Under(Next_(i))
    BY TreeNotGone DEF Next_
  <2>2. QED BY <1>1, <2>1, NewDirs
<1>4. \A q \in DOMAIN data' \ DOMAIN data : ~ Under(q)
  BY <1>1, FileStep DEF GoneApart
<1>5. faults' = 0 => DirsGo' /\ FilesGo'
  BY <1>1, <1>2, <1>3, <1>4 DEF Going, DirsGo, FilesGo
<1>6. QED BY <1>1, <1>5 DEF Going

LEMMA PhaseGoing ==
    ASSUME GoneApart, Inv, Climbing, Going, CopyDone \/ Phases
    PROVE  Going'
<1>1. Shape /\ at \in Nat \ {0} /\ Len(GoneFiles) \in Nat
  BY GoneFacts DEF Inv, Shape
<1>2. faults' = 0 => faults = 0 /\ ~ Fault
  <2>1. NoFault \/ Fault
    BY DEF CopyDone, Phases, PhaseFails, HardlinkPhase, DeleteFiles, DeleteDirs, DeleteDone, MtimePhase, NoFault
  <2>2. QED BY <1>1, <2>1, FaultStep
<1>3. left' \subseteq GoneDirs
  <2>1. left' \subseteq left
    BY DEF CopyDone, Phases, PhaseFails, HardlinkPhase, DeleteFiles, DeleteDirs, DeleteDone, MtimePhase
  <2>2. QED BY <2>1 DEF Going
<1> SUFFICES ASSUME faults' = 0 PROVE DirsGo' /\ FilesGo'
  BY <1>3 DEF Going
<1>4. faults = 0 /\ ~ Fault /\ DirsGo /\ FilesGo
  BY <1>2 DEF Going
<1>5. CASE CopyDone
  <2>1. phase = "copy" /\ phase' = "hardlink" /\ UNCHANGED <<dirs, data, left>>
    BY <1>5 DEF CopyDone, Enter, After, target
  <2>2. QED BY <1>4, <2>1 DEF DirsGo, FilesGo, Waiting
<1>6. CASE HardlinkPhase
  <2>1. phase = "hardlink" /\ left' = left /\ (phase' = "hardlink" \/ (phase' = "delete" /\ at' = 1))
    BY <1>6 DEF HardlinkPhase, Enter, Continue, After
  <2> DEFINE NoneNew == /\ \A q \in dirs' : Under(q) => q \in dirs
                        /\ \A q \in DOMAIN data' : Under(q) => q \in DOMAIN data
  <2>2. NoneNew
    <3>1. CASE UNCHANGED target
      BY <3>1 DEF target
    <3>2. ASSUME NEW k \in 1 .. Len(Group), NEW primary, Link(TargetRelative(Group[k]), primary)
          PROVE  NoneNew
      <4>1. PICK p \in Seq(STRING) : p = TargetRelative(Group[k])
        BY GroupPath
      <4>2. dirs' = dirs \cup Parents(p) /\ DOMAIN data' = DOMAIN data \cup {p}
        BY <3>2, <4>1 DEF Link
      <4>3. ~ Under(p)
        BY <4>1 DEF GoneApart
      <4>4. \A q \in Parents(p) : ~ Under(q)
        BY <4>1, <4>3, ParentsNotGone
      <4>5. QED BY <4>2, <4>3, <4>4
    <3>3. ~ DeleteFiles /\ ~ DeleteDirs
      BY <2>1 DEF DeleteFiles, DeleteDirs
    <3>4. QED BY <1>6, <3>1, <3>2, <3>3, PhaseTarget DEF Phases
  <2>3. DirsGo'
    BY <1>4, <2>1, <2>2 DEF DirsGo, Waiting
  <2>4. FilesGo'
    BY <1>4, <2>1, <2>2 DEF FilesGo, Waiting
  <2>5. QED BY <2>3, <2>4
<1>7. CASE DeleteFiles
  <2>1. /\ phase = "delete" /\ phase' = "delete" /\ at' = at + 1 /\ UNCHANGED <<dirs, left>>
        /\ at <= Len(GoneFiles)
    BY <1>7 DEF DeleteFiles, Continue, Stay, DeleteFile
  <2>2. PICK p : p = TargetRelative(GoneFiles[at])
    OBVIOUS
  <2>3. p \notin DOMAIN data' /\ DOMAIN data' \subseteq DOMAIN data
    BY <1>4, <1>7, <2>2 DEF DeleteFiles, Stay, DeleteFile
  <2>4. DirsGo'
    BY <1>4, <2>1 DEF DirsGo
  <2>5. ASSUME NEW q \in DOMAIN data', Under(q)
        PROVE  \E k \in 1 .. Len(GoneFiles) : GoneFile(q, k) /\ k >= at + 1
    <3>1. PICK k \in 1 .. Len(GoneFiles) : GoneFile(q, k) /\ k >= at
      BY <1>4, <2>1, <2>3, <2>5 DEF FilesGo
    <3>2. k # at
      BY <2>2, <2>3, <3>1 DEF GoneFile
    <3>3. QED BY <1>1, <3>1, <3>2
  <2>6. FilesGo'
    BY <2>1, <2>5 DEF FilesGo, Waiting
  <2>7. QED BY <2>4, <2>6
<1>8. CASE DeleteDirs
  <2>1. phase = "delete" /\ UNCHANGED <<phase, at>> /\ at > Len(GoneFiles)
    BY <1>8 DEF DeleteDirs
  <2>2. PICK d \in left :
           /\ Deepest(d) /\ left' = left \ {d}
           /\ LET p == TargetRelative(d)
              IN \/ p \in dirs /\ Empty(p) /\ DeleteDir(p)
                 \/ ~ (p \in dirs /\ Empty(p)) /\ Stay
    BY <1>4, <1>8 DEF DeleteDirs
  <2>3. PICK p : p = TargetRelative(d)
    OBVIOUS
  <2>4. d \in GoneDirs /\ p \in GonePlaces
    BY <2>2, <2>3 DEF Going, GonePlaces
  <2>5. \A q \in DOMAIN data : ~ Under(q)
    BY <1>1, <1>4, <2>1 DEF FilesGo
  <2>6. Empty(p)
    <3> SUFFICES ASSUME NEW q \in dirs \cup DOMAIN data, IsStrictPrefix(p, q) PROVE FALSE
      BY DEF Empty
    <3>1. Under(q)
      BY <2>4 DEF Under, IsStrictPrefix
    <3>2. q \in dirs
      BY <2>5, <3>1
    <3>3. PICK e \in left : TargetRelative(e) = q
      BY <1>4, <3>1, <3>2 DEF DirsGo
    <3>4. e \in GoneDirs
      BY DEF Going
    <3>5. IsStrictPrefix(d, e)
      BY <2>3, <2>4, <3>3, <3>4 DEF GoneApart
    <3>6. QED BY <2>2, <3>3, <3>5 DEF Deepest
  <2>7. p \notin dirs' /\ dirs' \subseteq dirs /\ data' = data
    BY <2>2, <2>3, <2>6 DEF DeleteDir, Stay
  <2>8. DirsGo'
    BY <1>4, <2>1, <2>2, <2>3, <2>7 DEF DirsGo
  <2>9. FilesGo'
    BY <2>5, <2>7 DEF FilesGo
  <2>10. QED BY <2>8, <2>9
<1>9. CASE DeleteDone
  <2>1. phase = "delete" /\ at > Len(GoneFiles) /\ left = {} /\ dirs' = dirs /\ data' = data
    BY <1>9 DEF DeleteDone, target
  <2>2. (\A q \in dirs : ~ Under(q)) /\ (\A q \in DOMAIN data : ~ Under(q))
    BY <1>1, <1>4, <2>1 DEF DirsGo, FilesGo
  <2>3. QED BY <2>1, <2>2 DEF DirsGo, FilesGo
<1>10. CASE MtimePhase
  <2>1. phase = "mtime" /\ dirs' = dirs /\ data' = data
    BY <1>10 DEF MtimePhase, target
  <2>2. (\A q \in dirs : ~ Under(q)) /\ (\A q \in DOMAIN data : ~ Under(q))
    BY <1>4, <2>1 DEF DirsGo, FilesGo, Waiting
  <2>3. QED BY <2>1, <2>2 DEF DirsGo, FilesGo
<1>11. CASE PhaseFails
  BY <1>4, <1>11 DEF PhaseFails
<1>12. QED BY <1>5, <1>6, <1>7, <1>8, <1>9, <1>10, <1>11 DEF Phases

(* Without failures everything that the delete control file names is gone  *)
(* when the delete phase ends, directories with all that lay in them.      *)
THEOREM DeletesComplete ==
    ASSUME GoneApart
    PROVE  Spec => []GoneEntriesGo
<1>1. Init => Going
  <2> SUFFICES ASSUME Init PROVE Going
    OBVIOUS
  <2>1. dirs = OldDirs /\ DOMAIN data = DOMAIN OldFiles /\ left = GoneDirs /\ phase = "copy"
    BY DEF Init
  <2>2. DirsGo
    BY <2>1 DEF DirsGo, Waiting, GoneApart
  <2>3. FilesGo
    BY <2>1 DEF FilesGo, Waiting, GoneApart
  <2>4. QED BY <2>1, <2>2, <2>3 DEF Going
<1>2. Inv /\ Climbing /\ Going /\ [Next]_vars => Going'
  <2> SUFFICES ASSUME Inv, Climbing, Going, [Next]_vars PROVE Going'
    OBVIOUS
  <2>1. ASSUME NEW i \in Items, TaskStep(i) PROVE Going'
    BY <2>1, TaskGoing
  <2>2. CASE CopyDone \/ Phases
    BY <2>2, PhaseGoing
  <2>3. CASE UNCHANGED vars
    BY <2>3 DEF vars, target, post, Going, DirsGo, FilesGo
  <2>4. QED BY <2>1, <2>2, <2>3 DEF Next, Done
<1>3. Going => GoneEntriesGo
  <2> SUFFICES ASSUME Going, phase \in {"mtime", "done"}, faults = 0, NEW p \in ToSet(GoneFiles) \cup GoneDirs
               PROVE  MapControl(p) \notin dirs \cup DOMAIN data
    BY DEF GoneEntriesGo
  <2>1. PICK g : g = TargetRelative(p)
    OBVIOUS
  <2>2. g \in GonePlaces /\ MapControl(p) = g
    BY <2>1 DEF GonePlaces, GoneApart
  <2>3. Under(g)
    <3>1. Len(g) \in Nat
      BY <2>2, GoneLength
    <3>2. IsPrefix(g, g)
      BY <3>1 DEF IsPrefix
    <3>3. QED BY <2>2, <3>2 DEF Under
  <2>4. QED BY <2>2, <2>3 DEF Going, DirsGo, FilesGo, Waiting
<1>4. QED BY Invariance, ClimbingHolds, <1>1, <1>2, <1>3, PTL DEF Spec
=============================================================================
