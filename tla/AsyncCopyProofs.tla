-------------------------- MODULE AsyncCopyProofs ---------------------------
(***************************************************************************)
(* Proofs about AsyncCopy, for every plan, layout, number of permits and   *)
(* of attempts, and any number of errors.                                  *)
(***************************************************************************)
EXTENDS AsyncCopy, SequenceTheorems, FiniteSetTheorems, WellFoundedInduction, TLAPS

(* What the index is chosen by: a set of blob numbers has a greatest.      *)
LEMMA GreatestExists ==
    ASSUME NEW n \in Nat, NEW S \in SUBSET (1 .. n), S # {}
    PROVE  \E m \in S : \A k \in S : k <= m
<1> DEFINE From(k) == {j \in S : k <= j}
           Finite == FiniteSubsetsOf(1 .. n)
<1>1. IsWellFoundedOn(StrictSubsetOrdering(1 .. n), Finite)
  BY FS_StrictSubsetOrderingWellFounded
<1>2. {From(k) : k \in S} \subseteq Finite /\ {From(k) : k \in S} # {}
  <2>1. IsFiniteSet(1 .. n)
    BY FS_Interval
  <2>2. \A k \in S : From(k) \in SUBSET (1 .. n)
    OBVIOUS
  <2>3. \A k \in S : IsFiniteSet(From(k))
    BY <2>1, <2>2, FS_Subset
  <2>4. QED BY <2>2, <2>3 DEF FiniteSubsetsOf
<1>3. PICK X \in {From(k) : k \in S} :
         \A Y \in {From(k) : k \in S} : ~(<<Y, X>> \in StrictSubsetOrdering(1 .. n))
  BY <1>1, <1>2, WFMin
<1>4. PICK m \in S : X = From(m)
  OBVIOUS
<1>5. ASSUME NEW k \in S, m < k PROVE FALSE
  <2>1. m \in Int /\ \A j \in S : j \in Int
    OBVIOUS
  <2>2. \A j \in S : k <= j => m <= j
    BY <1>5, <2>1
  <2>3. From(k) \subseteq From(m)
    BY <2>2
  <2>4. m \in From(m) /\ m \notin From(k)
    BY <1>5, <2>1
  <2>5. From(m) \in SUBSET (1 .. n) /\ From(k) \in SUBSET (1 .. n)
    OBVIOUS
  <2>6. <<From(k), From(m)>> \in StrictSubsetOrdering(1 .. n)
    BY <2>3, <2>4, <2>5 DEF StrictSubsetOrdering
  <2>7. QED BY <1>3, <1>4, <2>6
<1>6. QED BY <1>5

LEMMA LastBlobHolds ==
    ASSUME blobs \in Seq(Seq(Small)), NEW f \in Small
    PROVE  /\ LastBlob(f) \in 0 .. Len(blobs)
           /\ InBlobs(f) => LastBlob(f) # 0 /\ f \in ToSet(blobs[LastBlob(f)])
<1> DEFINE holding == {n \in 1 .. Len(blobs) : f \in ToSet(blobs[n])}
<1>1. CASE holding = {}
  BY <1>1 DEF LastBlob, InBlobs
<1>2. CASE holding # {}
  <2>1. Len(blobs) \in Nat /\ holding \in SUBSET (1 .. Len(blobs))
    OBVIOUS
  <2>2. \E n \in holding : \A k \in holding : k <= n
    BY <1>2, <2>1, GreatestExists
  <2>3. LastBlob(f) \in holding
    BY <1>2, <2>2 DEF LastBlob
  <2>4. QED BY <2>3
<1>3. QED BY <1>1, <1>2

LEMMA BucketKnown ==
    ASSUME layout \in Layouts, NEW f \in Small, NEW seen \in Nat
    PROVE  BucketOf(f, seen) \in Buckets
<1>1. seen \div MaxBlob \in Nat /\ Shards \in Nat \ {0}
  BY LimitsAssumption
<1>2. ShardsInUse(seen) \in 1 .. Shards
  BY <1>1 DEF ShardsInUse
<1>3. Hash[f] \in Nat
  BY FilesAssumption
<1>4. Hash[f] % ShardsInUse(seen) \in 0 .. Shards - 1
  BY <1>1, <1>2, <1>3
<1>5. QED BY <1>4 DEF BucketOf, Buckets

-----------------------------------------------------------------------------
(* Type correctness.  Each kind of item goes its own way, and a large file *)
(* that is still to be read or written has a block left.                   *)
Kinds ==
    /\ \A i \in Dirs : step[i] \in Ended \cup {"planned", "mkdir"}
    /\ \A i \in Links : step[i] \in Ended \cup {"planned"}
    /\ \A f \in Large : step[f] \in Ended \cup {"planned", "read", "write"}

BlockLeft == \A f \in Large : step[f] \in {"planned", "read", "write"} => block[f] < Blocks[f]

TypeInv == TypeOK /\ Kinds /\ BlockLeft

(* The steps, each with the items that can take it.                        *)
LEMMA Steps ==
    ASSUME TypeInv, [Next]_vars
    PROVE  \/ UNCHANGED layout /\ \E i \in Items : Start(i) \/ Skip(i)
           \/ UNCHANGED layout /\ \E i \in Dirs : MakeDir(i)
           \/ UNCHANGED layout /\ \E f \in Files : Read(f)
           \/ UNCHANGED layout /\ \E f \in Large : WriteDirect(f)
           \/ UNCHANGED layout /\ \E f \in Small : Count(f) \/ Push(f) \/ Take(f) \/ WriteBlob(f)
           \/ Main
           \/ UNCHANGED vars
<1>1. ASSUME NEW i \in Dirs \cup Links, CopyDir(i)
      PROVE  UNCHANGED layout /\ (Start(i) \/ Skip(i) \/ (i \in Dirs /\ MakeDir(i)))
  <2>1. i \in Links => step[i] # "mkdir"
    BY DEF TypeInv, Kinds, Ended
  <2>2. MakeDir(i) => i \in Dirs
    BY <2>1 DEF MakeDir
  <2>3. QED BY <1>1, <2>2 DEF CopyDir
<1>2. ASSUME NEW f \in Files, CopyFile(f)
      PROVE  /\ UNCHANGED layout
             /\ \/ Start(f) \/ Skip(f) \/ Read(f)
                \/ f \in Large /\ WriteDirect(f)
                \/ f \in Small /\ (Count(f) \/ Push(f) \/ Take(f) \/ WriteBlob(f))
  <2>1. f \in Large => step[f] \notin {"push", "take", "blob"}
    BY DEF TypeInv, Kinds, Ended
  <2>2. QED BY <1>2, <2>1 DEF CopyFile, WriteDirect, Count, Push, Take, WriteBlob, Files
<1>3. Items = Dirs \cup Links \cup Files /\ Files = Large \cup Small
  BY DEF Items, Files
<1>4. CASE \E i \in Dirs \cup Links : CopyDir(i)
  BY <1>1, <1>3, <1>4
<1>5. CASE \E f \in Files : CopyFile(f)
  BY <1>2, <1>3, <1>5
<1>6. QED BY <1>4, <1>5 DEF Next, Finished

(* A task moves itself only.                                               *)
LEMMA Moves ==
    ASSUME TypeInv, NEW i \in Items, NEW s \in Running \cup Ended, Go(i, s)
    PROVE  /\ step' \in [Items -> Running \cup Ended \cup {"planned"}]
           /\ step'[i] = s
           /\ \A j \in Items \ {i} : step'[j] = step[j]
BY DEF TypeInv, TypeOK, Go

LEMMA TypeInit == Init => TypeInv
<1> SUFFICES ASSUME Init PROVE TypeInv
  OBVIOUS
<1> USE DEF Init
<1>1. bucket \in [Small -> Buckets]
  BY BucketKnown
<1>2. /\ layout \in Layouts
      /\ step \in [Items -> Running \cup Ended \cup {"planned"}]
      /\ attempt \in [Items -> 1 .. MaxAttempts]
  BY LimitsAssumption
<1>3. block \in [Large -> Nat] /\ \A f \in Large : block[f] <= Blocks[f]
  BY FilesAssumption
<1>4. pending \in [Buckets -> Seq(Small)] /\ pendingSize \in [Buckets -> Nat]
  OBVIOUS
<1>5. blobs \in Seq(Seq(Small)) /\ hand \in [Small -> Seq(Small)]
  OBVIOUS
<1>6. indexed \in [Small -> Nat] /\ \A f \in Small : indexed[f] <= Len(blobs)
  OBVIOUS
<1>7. faults \in 0 .. MaxFaults
  BY LimitsAssumption
<1>8. TypeOK
  BY <1>1, <1>2, <1>3, <1>4, <1>5, <1>6, <1>7 DEF TypeOK
<1>9. Kinds /\ BlockLeft
  BY FilesAssumption DEF Kinds, BlockLeft, Items, Files
<1>10. QED BY <1>8, <1>9 DEF TypeInv

(* A call that ends, well or not, leaves the number of its attempt within  *)
(* the policy's.                                                           *)
LEMMA Attempts ==
    ASSUME TypeInv, NEW i \in Items, NEW s \in Running \cup Ended, Succeed(i, s) \/ Retry(i, s)
    PROVE  /\ attempt' \in [Items -> 1 .. MaxAttempts]
           /\ \E r \in {s, "failed"} : Go(i, r)
<1>1. attempt \in [Items -> 1 .. MaxAttempts] /\ MaxAttempts \in Nat \ {0}
  BY LimitsAssumption DEF TypeInv, TypeOK
<1>2. CASE Succeed(i, s)
  BY <1>1, <1>2 DEF Succeed
<1>3. CASE Retry(i, s) /\ attempt[i] < MaxAttempts
  BY <1>1, <1>3 DEF Retry
<1>4. CASE Retry(i, s) /\ ~(attempt[i] < MaxAttempts)
  BY <1>1, <1>4 DEF Retry
<1>5. QED BY <1>2, <1>3, <1>4

LEMMA FaultsBounded ==
    ASSUME TypeInv, Fault PROVE faults' \in 0 .. MaxFaults
BY LimitsAssumption DEF TypeInv, TypeOK, Fault

(* What every move of a task of its kind preserves.                        *)
LEMMA MovesTyped ==
    ASSUME TypeInv, NEW i \in Items, NEW s \in Running \cup Ended, Go(i, s),
           i \in Dirs => s \in Ended \cup {"mkdir"},
           i \in Links => s \in Ended,
           i \in Large => s \in Ended \cup {"read", "write"},
           block' \in [Large -> Nat], \A f \in Large : block'[f] <= Blocks[f],
           \A f \in Large \ {i} : block'[f] = block[f],
           i \in Large /\ s \in {"read", "write"} => block'[i] < Blocks[i]
    PROVE  Kinds' /\ BlockLeft' /\ step' \in [Items -> Running \cup Ended \cup {"planned"}]
<1>1. Dirs \subseteq Items /\ Links \subseteq Items /\ Large \subseteq Items
  BY DEF Items, Files
<1>2. Kinds'
  BY <1>1, Moves DEF TypeInv, Kinds
<1>3. BlockLeft'
  BY <1>1, Moves DEF TypeInv, BlockLeft, Ended
<1>4. QED BY <1>2, <1>3, Moves

LEMMA Grows ==
    ASSUME blobs \in Seq(Seq(Small)), NEW files \in Seq(Small), Recorded(files) \/ UNCHANGED blobs
    PROVE  blobs' \in Seq(Seq(Small)) /\ Len(blobs') >= Len(blobs)
BY DEF Recorded

LEMMA Apart ==
    /\ Items = Dirs \cup Links \cup Small \cup Large /\ Files = Small \cup Large
    /\ \A f \in Small : f \notin Dirs /\ f \notin Links /\ f \notin Large
    /\ \A f \in Large : f \notin Dirs /\ f \notin Links
    /\ \A i \in Dirs : i \notin Links
BY SetsAssumption DEF Items, Files

LEMMA TypeStep == TypeInv /\ [Next]_vars => TypeInv'
<1> SUFFICES ASSUME TypeInv, [Next]_vars PROVE TypeInv'
  OBVIOUS
<1> USE DEF taskVars, bufferVars, mainVars
<1>1. ASSUME NEW i \in Items, Start(i) \/ Skip(i), UNCHANGED layout PROVE TypeInv'
  <2>1. PICK s \in {"mkdir", "read", "ignored"} :
           /\ Go(i, s)
           /\ s = "mkdir" => i \in Dirs
           /\ s = "read" => i \in Files
    BY <1>1, Apart DEF Start, Skip
  <2>2. step[i] = "planned" /\ UNCHANGED block
    BY <1>1 DEF Start, Skip
  <2>3. i \in Large => block[i] < Blocks[i]
    BY <2>2 DEF TypeInv, BlockLeft
  <2>4. Kinds' /\ BlockLeft' /\ step' \in [Items -> Running \cup Ended \cup {"planned"}]
    BY <2>1, <2>2, <2>3, MovesTyped, Apart DEF TypeInv, TypeOK, Running, Ended
  <2>5. faults' \in 0 .. MaxFaults
    BY <1>1, FaultsBounded DEF Start, Skip, TypeInv, TypeOK
  <2>6. QED BY <1>1, <2>4, <2>5 DEF Start, Skip, TypeInv, TypeOK, Buckets
<1>2. ASSUME NEW i \in Dirs, MakeDir(i), UNCHANGED layout PROVE TypeInv'
  <2>1. attempt' \in [Items -> 1 .. MaxAttempts] /\ \E r \in {"made", "mkdir", "failed"} : Go(i, r)
    BY <1>2, Attempts, Apart DEF MakeDir, Running, Ended
  <2>2. Kinds' /\ BlockLeft' /\ step' \in [Items -> Running \cup Ended \cup {"planned"}]
    BY <1>2, <2>1, MovesTyped, Apart DEF MakeDir, TypeInv, TypeOK, Running, Ended
  <2>3. faults' \in 0 .. MaxFaults
    BY <1>2, FaultsBounded DEF MakeDir, TypeInv, TypeOK
  <2>4. QED BY <1>2, <2>1, <2>2, <2>3 DEF MakeDir, TypeInv, TypeOK, Buckets
<1>3. ASSUME NEW f \in Files, Read(f), UNCHANGED layout PROVE TypeInv'
  <2>1. /\ attempt' \in [Items -> 1 .. MaxAttempts]
        /\ \E r \in {"write", "read", "failed"} : Go(f, r)
    BY <1>3, Attempts, Apart DEF Read, Running, Ended
  <2>2. f \in Large => block[f] < Blocks[f]
    BY <1>3 DEF Read, TypeInv, BlockLeft
  <2>3. Kinds' /\ BlockLeft' /\ step' \in [Items -> Running \cup Ended \cup {"planned"}]
    BY <1>3, <2>1, <2>2, MovesTyped, Apart DEF Read, TypeInv, TypeOK, Running, Ended
  <2>4. faults' \in 0 .. MaxFaults
    BY <1>3, FaultsBounded DEF Read, TypeInv, TypeOK
  <2>5. QED BY <1>3, <2>1, <2>3, <2>4 DEF Read, TypeInv, TypeOK, Buckets
<1>4. ASSUME NEW f \in Large, WriteDirect(f), UNCHANGED layout PROVE TypeInv'
  <2>1. block[f] < Blocks[f] /\ block[f] \in Nat /\ Blocks[f] \in Nat
    BY <1>4, FilesAssumption DEF WriteDirect, TypeInv, TypeOK, BlockLeft
  <2>2. CASE UNCHANGED block
    <3>1. /\ attempt' \in [Items -> 1 .. MaxAttempts]
          /\ \E r \in {"write", "failed"} : Go(f, r)
      BY <1>4, <2>1, <2>2, Attempts, Apart DEF WriteDirect, Running, Ended, TypeInv, TypeOK
    <3>2. Kinds' /\ BlockLeft' /\ step' \in [Items -> Running \cup Ended \cup {"planned"}]
      BY <2>1, <2>2, <3>1, MovesTyped, Apart DEF TypeInv, TypeOK, Running, Ended
    <3>3. faults' \in 0 .. MaxFaults
      BY <1>4, FaultsBounded DEF WriteDirect, TypeInv, TypeOK
    <3>4. QED BY <1>4, <2>2, <3>1, <3>2, <3>3 DEF WriteDirect, TypeInv, TypeOK, Buckets
  <2>3. CASE block' = [block EXCEPT ![f] = @ + 1] /\ UNCHANGED faults
    <3>1. /\ Succeed(f, IF block[f] + 1 = Blocks[f] THEN "copied" ELSE "read")
      BY <1>4, <2>1, <2>3 DEF WriteDirect, TypeInv, TypeOK, Fault
    <3>2. /\ attempt' \in [Items -> 1 .. MaxAttempts]
          /\ Go(f, IF block[f] + 1 = Blocks[f] THEN "copied" ELSE "read")
      BY <3>1, Attempts, Apart DEF Running, Ended, Succeed
    <3>3. /\ block' \in [Large -> Nat] /\ \A g \in Large : block'[g] <= Blocks[g]
          /\ \A g \in Large \ {f} : block'[g] = block[g]
          /\ block'[f] = block[f] + 1
      BY <2>1, <2>3 DEF TypeInv, TypeOK
    <3>4. Kinds' /\ BlockLeft' /\ step' \in [Items -> Running \cup Ended \cup {"planned"}]
      BY <2>1, <3>2, <3>3, MovesTyped, Apart DEF Running, Ended
    <3>5. QED BY <1>4, <2>3, <3>2, <3>3, <3>4 DEF WriteDirect, TypeInv, TypeOK, Buckets
  <2>4. QED BY <1>4, <2>2, <2>3 DEF WriteDirect
<1>5. ASSUME NEW f \in Small, Count(f) \/ Push(f) \/ Take(f) \/ WriteBlob(f), UNCHANGED layout
      PROVE  TypeInv'
  <2>1. /\ f \in Items /\ f \notin Dirs \cup Links \cup Large
        /\ UNCHANGED block
    BY <1>5, Apart DEF Count, Push, Take, WriteBlob
  <2>2. ASSUME NEW s \in Running \cup Ended, Go(f, s)
        PROVE  Kinds' /\ BlockLeft' /\ step' \in [Items -> Running \cup Ended \cup {"planned"}]
    BY <2>1, <2>2, MovesTyped DEF TypeInv, TypeOK
  <2>3. bucket[f] \in Buckets /\ pending[bucket[f]] \in Seq(Small) /\ Size[f] \in Nat
    BY FilesAssumption DEF TypeInv, TypeOK
  <2>4. CASE Count(f)
    <3>1. bytesSeen' \in Nat
      BY <2>3, <2>4 DEF Count, TypeInv, TypeOK
    <3>2. BucketOf(f, bytesSeen') \in Buckets
      BY <3>1, BucketKnown DEF TypeInv, TypeOK
    <3>3. Kinds' /\ BlockLeft' /\ step' \in [Items -> Running \cup Ended \cup {"planned"}]
      BY <2>2, <2>4 DEF Count, Running
    <3>4. QED BY <1>5, <2>4, <3>1, <3>2, <3>3 DEF Count, TypeInv, TypeOK, Buckets
  <2>5. CASE Push(f)
    <3>1. \E s \in {"take", "copied"} : Go(f, s)
      BY <2>5 DEF Push, Succeed
    <3>2. attempt' \in [Items -> 1 .. MaxAttempts]
      BY <2>1, <2>5, Attempts DEF Push, Ended, TypeInv, TypeOK
    <3>3. Kinds' /\ BlockLeft' /\ step' \in [Items -> Running \cup Ended \cup {"planned"}]
      BY <2>2, <3>1 DEF Running, Ended
    <3>4. pending' \in [Buckets -> Seq(Small)] /\ pendingSize' \in [Buckets -> Nat]
      BY <2>3, <2>5 DEF Push, TypeInv, TypeOK
    <3>5. QED BY <1>5, <2>5, <3>2, <3>3, <3>4 DEF Push, TypeInv, TypeOK, Buckets
  <2>6. CASE Take(f)
    <3>1. Kinds' /\ BlockLeft' /\ step' \in [Items -> Running \cup Ended \cup {"planned"}]
      BY <2>2, <2>6 DEF Take, Running
    <3>2. pending' \in [Buckets -> Seq(Small)] /\ pendingSize' \in [Buckets -> Nat]
      BY <2>3, <2>6 DEF Take, Emptied, TypeInv, TypeOK
    <3>3. hand' \in [Small -> Seq(Small)]
      BY <2>3, <2>6 DEF Take, TypeInv, TypeOK
    <3>4. QED BY <1>5, <2>6, <3>1, <3>2, <3>3 DEF Take, TypeInv, TypeOK, Buckets
  <2>7. CASE WriteBlob(f)
    <3>1. /\ attempt' \in [Items -> 1 .. MaxAttempts]
          /\ \E s \in {"copied", "write", "failed"} : Go(f, s)
      BY <2>1, <2>7, Attempts DEF WriteBlob, Running, Ended
    <3>2. Kinds' /\ BlockLeft' /\ step' \in [Items -> Running \cup Ended \cup {"planned"}]
      BY <2>2, <3>1 DEF Running, Ended
    <3>3. hand' \in [Small -> Seq(Small)] /\ hand[f] \in Seq(Small)
      BY <2>7 DEF WriteBlob, TypeInv, TypeOK
    <3>4. blobs' \in Seq(Seq(Small)) /\ Len(blobs') >= Len(blobs)
      BY <2>7, <3>3, Grows DEF WriteBlob, TypeInv, TypeOK
    <3>5. lost' \subseteq Small /\ faults' \in 0 .. MaxFaults
      BY <2>7, <3>3, FaultsBounded DEF WriteBlob, TypeInv, TypeOK, ToSet
    <3>6. indexed' \in [Small -> Nat] /\ \A g \in Small : indexed'[g] <= Len(blobs')
      BY <2>7, <3>4 DEF WriteBlob, TypeInv, TypeOK
    <3>7. QED BY <1>5, <2>7, <3>1, <3>2, <3>3, <3>4, <3>5, <3>6 DEF WriteBlob, TypeInv, TypeOK, Buckets
  <2>8. QED BY <1>5, <2>4, <2>5, <2>6, <2>7
<1>6. ASSUME Main PROVE TypeInv'
  <2>0. UNCHANGED <<layout, taskVars, bytesSeen>> /\ Buckets' = Buckets
    BY <1>6 DEF Main, JoinTasks, FinishBucket, BuffersDone, WriteIndex, IndexDone, Buckets
  <2>1. Kinds' /\ BlockLeft'
    BY <2>0 DEF TypeInv, Kinds, BlockLeft
  <2>2. CASE JoinTasks \/ BuffersDone \/ IndexDone
    BY <2>0, <2>1, <2>2 DEF JoinTasks, BuffersDone, IndexDone, TypeInv, TypeOK
  <2>3. ASSUME NEW b \in Buckets, FinishBucket(b) PROVE TypeInv'
    <3>1. pending[b] \in Seq(Small)
      BY DEF TypeInv, TypeOK
    <3>2. pending' \in [Buckets -> Seq(Small)] /\ pendingSize' \in [Buckets -> Nat]
      BY <2>3 DEF FinishBucket, Emptied, TypeInv, TypeOK
    <3>3. blobs' \in Seq(Seq(Small)) /\ Len(blobs') >= Len(blobs)
      BY <2>3, <3>1, Grows DEF FinishBucket, Abandon, TypeInv, TypeOK
    <3>4. lost' \subseteq Small /\ faults' \in 0 .. MaxFaults
      BY <2>3, <3>1, FaultsBounded DEF FinishBucket, Abandon, TypeInv, TypeOK, ToSet
    <3>5. UNCHANGED indexed
      BY <2>3 DEF FinishBucket, Abandon
    <3>6. \A g \in Small : indexed'[g] <= Len(blobs')
      BY <3>3, <3>5 DEF TypeInv, TypeOK
    <3>7. main' \in {"tasks", "buffers", "index", "done"} /\ finishFailed' \in BOOLEAN
      BY <2>3 DEF FinishBucket, Abandon, TypeInv, TypeOK
    <3>8. QED BY <2>0, <2>1, <3>2, <3>3, <3>4, <3>5, <3>6, <3>7 DEF TypeInv, TypeOK
  <2>4. ASSUME NEW files \in IndexFiles, WriteIndex(files) PROVE TypeInv'
    <3>1. \A g \in Small : LastBlob(g) \in 0 .. Len(blobs)
      BY LastBlobHolds DEF TypeInv, TypeOK
    <3>2. \/ UNCHANGED indexed
          \/ indexed' = [f \in Small |-> IF f \in files THEN LastBlob(f) ELSE indexed[f]]
      BY <2>4 DEF WriteIndex, Abandon
    <3>3. UNCHANGED blobs
      BY <2>4 DEF WriteIndex, Abandon
    <3>4. indexed' \in [Small -> Nat] /\ \A g \in Small : indexed'[g] <= Len(blobs)
      <4>1. \A g \in Small : LastBlob(g) \in Nat /\ LastBlob(g) <= Len(blobs)
        BY <3>1
      <4>2. indexed \in [Small -> Nat] /\ \A g \in Small : indexed[g] <= Len(blobs)
        BY DEF TypeInv, TypeOK
      <4>3. QED BY <3>2, <4>1, <4>2
    <3>5. faults' \in 0 .. MaxFaults
      <4>1. Fault \/ UNCHANGED faults
        BY <2>4 DEF WriteIndex, Abandon
      <4>2. QED BY <4>1, FaultsBounded DEF TypeInv, TypeOK
    <3>6. main' \in {"tasks", "buffers", "index", "done"} /\ finishFailed' \in BOOLEAN
      BY <2>4 DEF WriteIndex, Abandon, TypeInv, TypeOK
    <3>7. QED BY <2>0, <2>1, <2>4, <3>3, <3>4, <3>5, <3>6 DEF WriteIndex, TypeInv, TypeOK
  <2>5. QED BY <1>6, <2>2, <2>3, <2>4 DEF Main
<1>7. CASE UNCHANGED vars
  BY <1>7 DEF vars, TypeInv, TypeOK, Kinds, BlockLeft, Buckets
<1>8. QED BY <1>1, <1>2, <1>3, <1>4, <1>5, <1>6, <1>7, Steps

(* The plan's items, the buffers and the pipeline keep their types.        *)
THEOREM TypeSafe == Spec => []TypeOK
BY TypeInit, TypeStep, PTL DEF Spec, TypeInv

-----------------------------------------------------------------------------
(* Where a small file that was put into a bucket can be.                   *)
Kept(f) == InBuffers(f) \/ InHands(f) \/ InBlobs(f) \/ f \in lost

(* From its insertion into the bucket on a file is kept, while its own     *)
(* task may still find the bucket full: that task takes what is there by   *)
(* then, which need not be its own file.  Only a task that writes a blob   *)
(* has files in its hands, so taking a bucket drops nothing.               *)
Keeping ==
    /\ \A f \in Small : step[f] \in {"take", "blob", "copied"} => Kept(f)
    /\ \A f \in Small : step[f] # "blob" => hand[f] = <<>>

(* finish runs when all tasks have ended, empties the buckets and writes   *)
(* the index, unless it gives up.                                          *)
Finishing ==
    /\ main # "tasks" => \A i \in Items : step[i] \in Ended
    /\ finishFailed => main = "done"
    /\ main \in {"index", "done"} /\ ~finishFailed => \A b \in Buckets : pending[b] = <<>>
    /\ main = "done" /\ ~finishFailed => \A f \in Small : indexed[f] = LastBlob(f)

Inv == TypeInv /\ Keeping /\ Finishing

LEMMA ToSetAppend ==
    ASSUME NEW S, NEW s \in Seq(S), NEW x \in S
    PROVE  ToSet(Append(s, x)) = ToSet(s) \cup {x}
BY AppendProperties DEF ToSet

LEMMA ToSetEmpty == ToSet(<<>>) = {}
BY DEF ToSet

(* A blob written holds its files, and the earlier blobs are as before.    *)
LEMMA BlobsKept ==
    ASSUME TypeOK, NEW files \in Seq(Small), Recorded(files), NEW f \in Small,
           InBlobs(f) \/ f \in ToSet(files)
    PROVE  InBlobs(f)'
<1>1. /\ Len(blobs) \in Nat /\ Len(blobs') = Len(blobs) + 1
      /\ blobs'[Len(blobs) + 1] = files
      /\ \A n \in 1 .. Len(blobs) : blobs'[n] = blobs[n]
  BY AppendProperties DEF Recorded, TypeOK
<1>2. QED BY <1>1 DEF InBlobs

(* Whatever happens, a file that is kept stays kept.                       *)
LEMMA KeptStays ==
    ASSUME Inv, [Next]_vars, NEW f \in Small, Kept(f)
    PROVE  Kept(f)'
<1> USE DEF taskVars, bufferVars, mainVars
<1>0. Buckets' = Buckets
  BY Steps DEF Inv, Main, JoinTasks, FinishBucket, BuffersDone, WriteIndex, IndexDone, vars, Buckets
<1>1. CASE UNCHANGED <<pending, hand, blobs, lost>>
  BY <1>0, <1>1 DEF Kept, InBuffers, InHands, InBlobs
<1>2. ASSUME NEW g \in Small, Push(g) PROVE Kept(f)'
  <2>1. \A b \in Buckets : ToSet(pending[b]) \subseteq ToSet(pending'[b])
    BY <1>2, ToSetAppend DEF Push, Inv, TypeInv, TypeOK
  <2>2. InBuffers(f) => InBuffers(f)'
    BY <1>0, <2>1 DEF InBuffers
  <2>3. UNCHANGED <<hand, blobs, lost>>
    BY <1>2 DEF Push
  <2>4. QED BY <2>2, <2>3 DEF Kept, InHands, InBlobs
<1>3. ASSUME NEW g \in Small, Take(g) PROVE Kept(f)'
  <2>1. ToSet(hand[g]) = {}
    BY <1>3, ToSetEmpty DEF Take, Inv, Keeping
  <2>2. hand'[g] = pending[bucket[g]] /\ \A h \in Small \ {g} : hand'[h] = hand[h]
    BY <1>3 DEF Take, Inv, TypeInv, TypeOK
  <2>3. \A b \in Buckets \ {bucket[g]} : pending'[b] = pending[b]
    BY <1>3 DEF Take, Emptied, Inv, TypeInv, TypeOK
  <2>4. InBuffers(f) => InBuffers(f)' \/ InHands(f)'
    BY <1>0, <2>2, <2>3 DEF InBuffers, InHands
  <2>5. InHands(f) => InHands(f)'
    BY <2>1, <2>2 DEF InHands
  <2>6. UNCHANGED <<blobs, lost>>
    BY <1>3 DEF Take
  <2>7. QED BY <2>4, <2>5, <2>6 DEF Kept, InBlobs
<1>4. ASSUME NEW g \in Small, WriteBlob(g) PROVE Kept(f)'
  <2>1. \A h \in Small \ {g} : hand'[h] = hand[h]
    BY <1>4 DEF WriteBlob, Inv, TypeInv, TypeOK
  <2>2. UNCHANGED pending
    BY <1>4 DEF WriteBlob
  <2>3. CASE Recorded(hand[g]) /\ UNCHANGED lost
    <3>1. InBlobs(f) \/ f \in ToSet(hand[g]) => InBlobs(f)'
      BY <2>3, BlobsKept DEF Inv, TypeInv, TypeOK
    <3>2. QED BY <1>0, <2>1, <2>2, <2>3, <3>1 DEF Kept, InBuffers, InHands
  <2>4. CASE lost' = lost \cup ToSet(hand[g]) /\ UNCHANGED blobs
    BY <1>0, <2>1, <2>2, <2>4 DEF Kept, InBuffers, InHands, InBlobs
  <2>5. QED BY <1>4, <2>3, <2>4 DEF WriteBlob
<1>5. ASSUME NEW c \in Buckets, FinishBucket(c) PROVE Kept(f)'
  <2>1. \A b \in Buckets \ {c} : pending'[b] = pending[b]
    BY <1>5 DEF FinishBucket, Emptied, Inv, TypeInv, TypeOK
  <2>2. UNCHANGED hand
    BY <1>5 DEF FinishBucket
  <2>3. CASE Recorded(pending[c]) /\ UNCHANGED lost
    <3>1. InBlobs(f) \/ f \in ToSet(pending[c]) => InBlobs(f)'
      BY <2>3, BlobsKept DEF Inv, TypeInv, TypeOK
    <3>2. QED BY <1>0, <2>1, <2>2, <2>3, <3>1 DEF Kept, InBuffers, InHands
  <2>4. CASE lost' = lost \cup ToSet(pending[c]) /\ UNCHANGED blobs
    BY <1>0, <2>1, <2>2, <2>4 DEF Kept, InBuffers, InHands, InBlobs
  <2>5. QED BY <1>5, <2>3, <2>4 DEF FinishBucket, Abandon
<1>6. \/ UNCHANGED <<pending, hand, blobs, lost>>
      \/ \E g \in Small : Push(g) \/ Take(g) \/ WriteBlob(g)
      \/ \E c \in Buckets : FinishBucket(c)
  BY Steps DEF Inv, Start, Skip, MakeDir, Read, WriteDirect, Count, Main, JoinTasks, BuffersDone,
               WriteIndex, Abandon, IndexDone, vars
<1>7. QED BY <1>1, <1>2, <1>3, <1>4, <1>5, <1>6

(* Only its own task moves a file.                                         *)
LEMMA OwnSteps ==
    ASSUME TypeInv, [Next]_vars, NEW f \in Small, step'[f] # step[f]
    PROVE  /\ UNCHANGED layout
           /\ Start(f) \/ Skip(f) \/ Read(f) \/ Count(f) \/ Push(f) \/ Take(f) \/ WriteBlob(f)
<1> USE DEF taskVars, bufferVars, mainVars
<1>1. f \in Items /\ step \in [Items -> Running \cup Ended \cup {"planned"}]
  BY Apart DEF TypeInv, TypeOK
<1>2. ASSUME NEW i \in Items, NEW s, Go(i, s) PROVE i = f
  BY <1>1, <1>2 DEF Go
<1>3. ASSUME NEW i \in Items, Start(i) \/ Skip(i) PROVE i = f
  BY <1>2, <1>3 DEF Start, Skip
<1>4. ASSUME NEW i \in Items, MakeDir(i) \/ Read(i) PROVE i = f
  BY <1>2, <1>4 DEF MakeDir, Read, Succeed, Retry
<1>5. ASSUME NEW i \in Items, WriteDirect(i) \/ Count(i) PROVE i = f
  BY <1>2, <1>5 DEF WriteDirect, Count, Succeed, Retry
<1>6. ASSUME NEW i \in Items, Push(i) \/ Take(i) \/ WriteBlob(i) PROVE i = f
  BY <1>2, <1>6 DEF Push, Take, WriteBlob, Succeed, Retry
<1>7. ~Main /\ ~UNCHANGED vars
  BY DEF Main, JoinTasks, FinishBucket, BuffersDone, WriteIndex, IndexDone, vars
<1>8. QED BY <1>3, <1>4, <1>5, <1>6, <1>7, Steps, Apart

LEMMA KeepingStep == Inv /\ [Next]_vars => Keeping'
<1> SUFFICES ASSUME Inv, [Next]_vars, NEW f \in Small
             PROVE  /\ step'[f] \in {"take", "blob", "copied"} => Kept(f)'
                    /\ step'[f] # "blob" => hand'[f] = <<>>
  BY DEF Keeping
<1>1. f \in Items /\ step \in [Items -> Running \cup Ended \cup {"planned"}]
  BY Apart DEF Inv, TypeInv, TypeOK
<1>2. ASSUME step'[f] \in {"take", "blob", "copied"} PROVE Kept(f)'
  <2>1. CASE step[f] \in {"take", "blob", "copied"}
    BY <2>1, KeptStays DEF Inv, Keeping
  <2>2. CASE step[f] \notin {"take", "blob", "copied"}
    <3>1. UNCHANGED layout /\ Push(f)
      BY <1>1, <1>2, <2>2, OwnSteps
         DEF Inv, Start, Skip, Read, Count, Take, WriteBlob, Succeed, Retry, Go
    <3>2. bucket[f] \in Buckets /\ pending[bucket[f]] \in Seq(Small)
      BY DEF Inv, TypeInv, TypeOK
    <3>3. f \in ToSet(pending'[bucket[f]])
      BY <3>1, <3>2, ToSetAppend DEF Push, Inv, TypeInv, TypeOK
    <3>4. QED BY <3>1, <3>2, <3>3 DEF Kept, InBuffers, Buckets
  <2>3. QED BY <2>1, <2>2
<1>3. ASSUME step'[f] # "blob" PROVE hand'[f] = <<>>
  <2>1. step[f] # "blob" => hand[f] = <<>>
    BY DEF Inv, Keeping
  <2>2. CASE step'[f] # step[f]
    <3>1. \/ UNCHANGED hand /\ step[f] # "blob"
          \/ WriteBlob(f)
      BY <1>1, <1>3, <2>2, OwnSteps
         DEF Inv, Start, Skip, Read, Count, Push, Take, Go
    <3>2. QED BY <2>1, <3>1 DEF WriteBlob, Inv, TypeInv, TypeOK
  <2>3. CASE step'[f] = step[f]
    <3>1. ASSUME NEW g \in Small, Take(g) \/ WriteBlob(g) PROVE g # f
      BY <1>1, <2>3, <3>1, <1>3 DEF Take, WriteBlob, Succeed, Retry, Go
    <3>2. \/ UNCHANGED hand
          \/ \E g \in Small : Take(g) \/ WriteBlob(g)
      BY Steps DEF Inv, Start, Skip, MakeDir, Read, WriteDirect, Count, Push, Main, JoinTasks,
                   FinishBucket, BuffersDone, WriteIndex, IndexDone, vars, taskVars
    <3>3. hand'[f] = hand[f]
      BY <3>1, <3>2 DEF Take, WriteBlob, Inv, TypeInv, TypeOK
    <3>4. QED BY <1>3, <2>1, <2>3, <3>3
  <2>4. QED BY <2>2, <2>3
<1>4. QED BY <1>2, <1>3

LEMMA FinishingStep == Inv /\ [Next]_vars => Finishing'
<1> SUFFICES ASSUME Inv, [Next]_vars PROVE Finishing'
  OBVIOUS
<1> USE DEF taskVars, bufferVars, mainVars
<1>1. CASE UNCHANGED <<layout, step, pending, blobs, indexed, main, finishFailed>>
  BY <1>1, Steps DEF Inv, Finishing, Buckets, LastBlob
<1>2. CASE main = "tasks" /\ UNCHANGED <<main, finishFailed>>
  BY <1>2 DEF Inv, Finishing
<1>3. CASE Main
  <2>1. UNCHANGED <<layout, step>> /\ Buckets' = Buckets
    BY <1>3 DEF Main, JoinTasks, FinishBucket, BuffersDone, WriteIndex, IndexDone, Buckets
  <2>2. main # "done" => ~finishFailed
    BY DEF Inv, Finishing
  <2>3. CASE JoinTasks
    BY <2>1, <2>2, <2>3 DEF JoinTasks, Inv, Finishing
  <2>4. CASE BuffersDone
    BY <2>1, <2>2, <2>4 DEF BuffersDone, Inv, Finishing
  <2>5. CASE IndexDone
    BY <2>1, <2>2, <2>5 DEF IndexDone, Inv, Finishing, LastBlob
  <2>6. ASSUME NEW b \in Buckets, FinishBucket(b) PROVE Finishing'
    BY <2>1, <2>2, <2>6 DEF FinishBucket, Abandon, Inv, Finishing
  <2>7. ASSUME NEW files \in IndexFiles, WriteIndex(files) PROVE Finishing'
    BY <2>1, <2>2, <2>7 DEF WriteIndex, Abandon, Inv, Finishing
  <2>8. QED BY <1>3, <2>3, <2>4, <2>5, <2>6, <2>7 DEF Main
<1>4. ASSUME main # "tasks" PROVE Main \/ UNCHANGED vars
  <2>1. \A i \in Items : step[i] \in Ended
    BY <1>4 DEF Inv, Finishing
  <2>2. QED
    BY <2>1, Steps, Apart DEF Inv, Start, Skip, MakeDir, Read, WriteDirect, Count, Push, Take,
                              WriteBlob, Ended
<1>5. ASSUME main = "tasks" PROVE Main \/ UNCHANGED <<main, finishFailed>>
  BY Steps DEF Inv, Start, Skip, MakeDir, Read, WriteDirect, Count, Push, Take, WriteBlob, vars
<1>6. QED BY <1>1, <1>2, <1>3, <1>4, <1>5 DEF vars

(* The inductive invariant: a file put into a bucket stays where finish or *)
(* a task will find it, and finish ends only when all of it is done.       *)
THEOREM Invariance == Spec => []Inv
<1>1. Init => Inv
  BY TypeInit, Apart DEF Init, Inv, Keeping, Finishing
<1>2. Inv /\ [Next]_vars => Inv'
  BY TypeStep, KeepingStep, FinishingStep DEF Inv
<1>3. QED BY <1>1, <1>2, PTL DEF Spec

(* A small file reported copied is in a buffer, in the hands of a task or  *)
(* in a blob, unless the write of a blob it was put in failed.             *)
THEOREM CopiedFilesKept == Spec => []CopiedKept
<1>1. Inv => CopiedKept
  BY DEF Inv, Keeping, Kept, CopiedKept
<1>2. QED BY <1>1, Invariance, PTL

(* If finish succeeds, a restore finds every file that was reported copied *)
(* and not lost with a blob, in the blob its index names.                  *)
THEOREM CopiedFilesRestorable == Spec => []Restorable
<1>1. Inv => Restorable
  <2> SUFFICES ASSUME Inv, main = "done", ~finishFailed,
                      NEW f \in Small \ lost, step[f] = "copied"
               PROVE  indexed[f] # 0 /\ f \in ToSet(blobs[indexed[f]])
    BY DEF Restorable
  <2>1. Kept(f)
    BY DEF Inv, Keeping
  <2>2. ~InBuffers(f)
    BY ToSetEmpty DEF Inv, Finishing, InBuffers
  <2>3. ~InHands(f)
    <3>1. \A g \in Small : step[g] # "blob"
      BY Apart DEF Inv, Finishing, Ended
    <3>2. QED BY <3>1, ToSetEmpty DEF Inv, Keeping, InHands
  <2>4. InBlobs(f)
    BY <2>1, <2>2, <2>3 DEF Kept
  <2>5. indexed[f] = LastBlob(f)
    BY DEF Inv, Finishing
  <2>6. QED BY <2>4, <2>5, LastBlobHolds DEF Inv, TypeInv, TypeOK
<1>2. QED BY <1>1, Invariance, PTL
=============================================================================
