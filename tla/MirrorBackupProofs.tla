------------------------- MODULE MirrorBackupProofs -------------------------
(***************************************************************************)
(* Proofs about MirrorBackup, for every tree, any number of workers,       *)
(* changes, backups and errors, as long as a directory keeps its path and  *)
(* no other gets it.                                                       *)
(***************************************************************************)
EXTENDS MirrorBackup, SequenceTheorems, FiniteSetTheorems, TLAPS

(* Hypotheses of the theorems.  A directory keeps its path, and no other   *)
(* ever has it: what the diff, which knows directories by inode, needs.    *)
OnePlace == \A i, j \in Inodes : \A p \in Places[i], q \in Places[j] : p = q <=> i = j

(* The path of the source is not the beginning of a path inside it.        *)
DeletesInPlace == \A p \in Paths : DeletePlace(p) = p

(* Every record is of a directory at its inode's place.                    *)
Placed == \A t \in {tree, prev, cur} : \A i \in DOMAIN t : t[i].path \in Places[i]

(* Files have a content and a time.                                        *)
Genuine ==
    /\ second >= 1 /\ Root \in DOMAIN tree
    /\ \A i \in DOMAIN tree, n \in Names :
          tree[i].files[n] = NoFile \/ (tree[i].files[n].data # 0 /\ tree[i].files[n].time # 0)
    /\ \A t \in {prev, cur} : \A i \in DOMAIN t, n \in Names :
          t[i].files[n].time = 0 => t[i].files[n] = Absent

(* Whoever has a directory has those above it.                             *)
Closed(t) == \A i \in DOMAIN t : \A q \in Prefixes(t[i].path) : DirsAt(t, q) # {}
AllNested ==
    /\ Closed(tree) /\ Closed(cur)
    /\ \A p \in queue : \A q \in Prefixes(p) : q = p \/ DirsAt(cur, q) # {}

Stages ==
    /\ phase # "copy" => plan = <<>> /\ jobs = {} /\ open = <<>>
    /\ phase \notin {"copy", "delete"} => deletes = {} /\ doomed = {}

Planned(p, n) == \E k \in DOMAIN plan : cur[plan[k].dir].path = p /\ n \in plan[k].files
PlannedDir(p) == \E k \in DOMAIN plan : cur[plan[k].dir].path = p
Changed(p, n) == InScan(prev, p, n) # InScan(cur, p, n)

(* Only what the diff found is worked on.                                  *)
Tasks ==
    /\ \A k \in DOMAIN plan : plan[k].dir \in DOMAIN cur
    /\ \A p \in Paths, n \in Names :
          /\ Planned(p, n) \/ <<p, n>> \in jobs \/ <<p, n>> \in DOMAIN open =>
                /\ InScan(cur, p, n) # Absent /\ Changed(p, n) /\ <<p, n>> \notin deletes
          /\ <<p, n>> \in deletes =>
                <<p, n>> \in suspect \/ (InScan(cur, p, n) = Absent /\ Changed(p, n))
          /\ <<p, n>> \in DOMAIN open => InTarget(target, p, n) = Torn
    /\ \A p \in doomed : DirsAt(prev, p) # {} /\ DirsAt(cur, p) = {}

(* A file that was not there at the scan is not in the target, and one     *)
(* that is as the scan found it is in the target.                          *)
Right(t, p, n) ==
    /\ InScan(t, p, n) = Absent => InTarget(target, p, n) = NoData
    /\ InTree(p, n).time = InScan(t, p, n).time => InTarget(target, p, n) = InTree(p, n).data

(* What remains to be done for a file.                                     *)
Pending(p, n) ==
    \/ Planned(p, n) \/ <<p, n>> \in jobs \/ <<p, n>> \in deletes
    \/ /\ <<p, n>> \in DOMAIN open
       /\ InTree(p, n).time = InScan(cur, p, n).time => open[<<p, n>>] = InTree(p, n).data
    \/ p \in doomed /\ (InScan(prev, p, n) = Absent => InTarget(target, p, n) = NoData)

FilesRight ==
    \A p \in Paths, n \in Names :
        <<p, n>> \in suspect \/ IF phase = "scan" THEN Right(prev, p, n)
                                ELSE Pending(p, n) \/ Right(cur, p, n)

Listed(t, p) ==
    /\ DirsAt(t, p) # {} => p \in DOMAIN target
    /\ p \in DOMAIN target /\ p # <<>> => DirsAt(t, p) # {}

DirsRight ==
    \A p \in Paths :
        <<p, "dir">> \in suspect \/ IF phase = "scan" THEN Listed(prev, p)
                                    ELSE PlannedDir(p) \/ p \in doomed \/ Listed(cur, p)

(* Undisturbed, a scan records every directory, or has yet to visit one on *)
(* the way to it, and every file.                                          *)
Exact ==
    ~edited /\ ~scanFault =>
        /\ \A i \in DOMAIN cur :
              i \in DOMAIN tree /\ \A n \in Names : cur[i].files[n].time = tree[i].files[n].time
        /\ \A i \in DOMAIN tree :
              \/ i \in DOMAIN cur \/ rounds = 0
              \/ phase = "scan" /\ \E q \in Prefixes(tree[i].path) : q \in queue

Inv ==
    /\ TypeOK /\ Placed /\ Genuine /\ AllNested /\ Stages /\ Tasks
    /\ FilesRight /\ DirsRight /\ Exact /\ TimesKept
-----------------------------------------------------------------------------
(* Paths and their prefixes.                                               *)
LEMMA PrefixOf ==
    ASSUME NEW p \in Seq(STRING), NEW m \in 0 .. Len(p)
    PROVE  /\ SubSeq(p, 1, m) \in Seq(STRING) /\ Len(SubSeq(p, 1, m)) = m
           /\ \A i \in 1 .. m : SubSeq(p, 1, m)[i] = p[i]
           /\ SubSeq(p, 1, m) \in Prefixes(p)
<1>1. Len(p) \in Nat /\ m \in Nat /\ m <= Len(p) /\ \A i \in 1 .. Len(p) : p[i] \in STRING
    BY LenProperties
<1>2. \A i \in 1 .. m : p[i] \in STRING
    BY <1>1
<1>3. /\ SubSeq(p, 1, m) \in Seq(STRING)
      /\ Len(SubSeq(p, 1, m)) = IF 1 <= m THEN m - 1 + 1 ELSE 0
      /\ \A i \in 1 .. m - 1 + 1 : SubSeq(p, 1, m)[i] = p[1 + i - 1]
    BY <1>1, <1>2, SubSeqProperties
<1> QED BY <1>1, <1>3 DEF Prefixes

LEMMA PrefixOfPrefix ==
    ASSUME NEW p \in Seq(STRING), NEW m \in 0 .. Len(p), NEW k \in 0 .. m
    PROVE  SubSeq(SubSeq(p, 1, m), 1, k) = SubSeq(p, 1, k)
<1>1. m \in Nat /\ k \in Nat /\ k \in 0 .. Len(p) /\ Len(p) \in Nat
    BY LenProperties
<1>2. /\ SubSeq(p, 1, m) \in Seq(STRING) /\ Len(SubSeq(p, 1, m)) = m
      /\ \A i \in 1 .. m : SubSeq(p, 1, m)[i] = p[i]
    BY PrefixOf
<1>3. /\ SubSeq(p, 1, k) \in Seq(STRING) /\ Len(SubSeq(p, 1, k)) = k
      /\ \A i \in 1 .. k : SubSeq(p, 1, k)[i] = p[i]
    BY <1>1, PrefixOf
<1>4. k \in 0 .. Len(SubSeq(p, 1, m))
    BY <1>1, <1>2
<1>5. /\ SubSeq(SubSeq(p, 1, m), 1, k) \in Seq(STRING)
      /\ Len(SubSeq(SubSeq(p, 1, m), 1, k)) = k
      /\ \A i \in 1 .. k : SubSeq(SubSeq(p, 1, m), 1, k)[i] = SubSeq(p, 1, m)[i]
    BY <1>2, <1>4, PrefixOf
<1>6. \A i \in 1 .. k : SubSeq(SubSeq(p, 1, m), 1, k)[i] = SubSeq(p, 1, k)[i]
    BY <1>1, <1>2, <1>3, <1>5
<1> QED BY <1>3, <1>5, <1>6, SeqEqual

(* The directories on the way to a path: itself, those on the way to its   *)
(* parent, and no others.                                                  *)
LEMMA PathFacts ==
    ASSUME NEW p \in Seq(STRING)
    PROVE  /\ p \in Prefixes(p) /\ <<>> \in Prefixes(p) /\ Prefixes(p) \subseteq Seq(STRING)
           /\ Parent(p) \in Prefixes(p) /\ Parent(p) \in Seq(STRING)
           /\ p # <<>> => Parent(p) # p /\ Prefixes(p) = Prefixes(Parent(p)) \cup {p}
           /\ \A q \in Prefixes(p) :
                 /\ Prefixes(q) \subseteq Prefixes(p)
                 /\ q # p => \E c \in Prefixes(p) : c # <<>> /\ Parent(c) = q
           /\ \A q \in Seq(STRING) : IsPrefix(q, p) <=> q \in Prefixes(p)
<1>1. Len(p) \in Nat /\ (p = <<>> <=> Len(p) = 0)
    BY LenProperties, EmptySeq
<1>2. SubSeq(p, 1, Len(p)) = p
    BY SubSeqFull
<1>3. SubSeq(p, 1, 0) = <<>>
    BY SubSeqEmpty
<1>4. p \in Prefixes(p) /\ <<>> \in Prefixes(p)
    <2>1. 0 \in 0 .. Len(p) /\ Len(p) \in 0 .. Len(p)
        BY <1>1
    <2> QED BY <2>1, <1>2, <1>3 DEF Prefixes
<1>5. Prefixes(p) \subseteq Seq(STRING)
    BY PrefixOf DEF Prefixes
<1>6. \A m \in 0 .. Len(p) : Prefixes(SubSeq(p, 1, m)) = {SubSeq(p, 1, k) : k \in 0 .. m}
    <2> SUFFICES ASSUME NEW m \in 0 .. Len(p)
                 PROVE  Prefixes(SubSeq(p, 1, m)) = {SubSeq(p, 1, k) : k \in 0 .. m}
        OBVIOUS
    <2>1. Len(SubSeq(p, 1, m)) = m
        BY PrefixOf
    <2>2. Prefixes(SubSeq(p, 1, m)) = {SubSeq(SubSeq(p, 1, m), 1, k) : k \in 0 .. m}
        BY <2>1 DEF Prefixes
    <2>3. \A k \in 0 .. m : SubSeq(SubSeq(p, 1, m), 1, k) = SubSeq(p, 1, k)
        BY PrefixOfPrefix
    <2> QED BY <2>2, <2>3
<1>7. p # <<>> => Parent(p) = SubSeq(p, 1, Len(p) - 1) /\ Len(p) - 1 \in 0 .. Len(p)
    BY <1>1 DEF Parent, Front
<1>8. p = <<>> => Parent(p) = <<>>
    <2>1. SubSeq(p, 1, -1) = <<>>
        BY SubSeqEmpty
    <2> QED BY <2>1, <1>1 DEF Parent, Front
<1>9. Parent(p) \in Prefixes(p)
    BY <1>4, <1>7, <1>8 DEF Prefixes
<1>10. ASSUME p # <<>> PROVE Parent(p) # p /\ Prefixes(p) = Prefixes(Parent(p)) \cup {p}
    <2>1. Len(Parent(p)) = Len(p) - 1
        BY <1>7, <1>10, PrefixOf
    <2>2. Parent(p) # p
        BY <2>1, <1>1
    <2>3. Prefixes(Parent(p)) = {SubSeq(p, 1, k) : k \in 0 .. Len(p) - 1}
        BY <1>6, <1>7, <1>10
    <2>4. 0 .. Len(p) = (0 .. Len(p) - 1) \cup {Len(p)}
        BY <1>1, <1>10
    <2>5. Prefixes(p) = {SubSeq(p, 1, k) : k \in 0 .. Len(p)}
        BY DEF Prefixes
    <2>6. Prefixes(p) = {SubSeq(p, 1, k) : k \in 0 .. Len(p) - 1} \cup {SubSeq(p, 1, Len(p))}
        BY <2>4, <2>5
    <2> QED BY <2>2, <2>3, <2>6, <1>2
<1>11. ASSUME NEW q \in Prefixes(p)
       PROVE  /\ Prefixes(q) \subseteq Prefixes(p)
              /\ q # p => \E c \in Prefixes(p) : c # <<>> /\ Parent(c) = q
    <2>1. PICK m \in 0 .. Len(p) : q = SubSeq(p, 1, m)
        BY DEF Prefixes
    <2>2. m \in Nat /\ m <= Len(p) /\ 0 .. m \subseteq 0 .. Len(p)
        BY <1>1
    <2>3. Prefixes(q) \subseteq Prefixes(p)
        BY <1>6, <2>1, <2>2 DEF Prefixes
    <2>4. ASSUME q # p PROVE \E c \in Prefixes(p) : c # <<>> /\ Parent(c) = q
        <3>1. m # Len(p)
            BY <2>1, <2>4, <1>2
        <3>2. m + 1 \in 0 .. Len(p) /\ m \in 0 .. m + 1
            BY <3>1, <2>2, <1>1
        <3> DEFINE c == SubSeq(p, 1, m + 1)
        <3>3. c \in Prefixes(p) /\ Len(c) = m + 1
            BY <3>2, PrefixOf
        <3>4. c # <<>>
            <4>1. Len(c) # 0
                BY <3>3, <2>2
            <4> QED BY <4>1, EmptySeq, Zenon
        <3>5. Parent(c) = SubSeq(c, 1, m)
            <4>1. Len(c) - 1 = m
                BY <3>3, <2>2
            <4>2. Parent(c) = SubSeq(c, 1, Len(c) - 1)
                BY DEF Parent, Front
            <4> QED BY <4>1, <4>2, Zenon
        <3>6. SubSeq(c, 1, m) = q
            BY <3>2, <2>1, PrefixOfPrefix
        <3> QED BY <3>3, <3>4, <3>5, <3>6
    <2> QED BY <2>3, <2>4
<1>12. ASSUME NEW q \in Seq(STRING) PROVE IsPrefix(q, p) <=> q \in Prefixes(p)
    <2>1. Len(q) \in Nat /\ SubSeq(q, 1, Len(q)) = q
        BY LenProperties, SubSeqFull
    <2>2. ASSUME IsPrefix(q, p) PROVE q \in Prefixes(p)
        <3>1. Len(q) <= Len(p) /\ q = SubSeq(p, 1, Len(q))
            BY <2>1, <2>2 DEF IsPrefix
        <3>2. Len(q) \in 0 .. Len(p)
            BY <3>1, <2>1, <1>1
        <3> QED BY <3>1, <3>2 DEF Prefixes
    <2>3. ASSUME q \in Prefixes(p) PROVE IsPrefix(q, p)
        <3>1. PICK m \in 0 .. Len(p) : q = SubSeq(p, 1, m)
            BY <2>3 DEF Prefixes
        <3>2. Len(q) = m /\ m <= Len(p)
            BY <3>1, <1>1, PrefixOf
        <3> QED BY <3>1, <3>2, <2>1 DEF IsPrefix
    <2> QED BY <2>2, <2>3
<1>13. Parent(p) \in Seq(STRING)
    BY <1>5, <1>9
<1> QED BY <1>4, <1>5, <1>9, <1>10, <1>11, <1>12, <1>13

LEMMA RootPath == Prefixes(<<>>) = {<<>>} /\ <<>> \in Seq(STRING) /\ <<>> \in Paths
<1>1. <<>> \in Seq(STRING) /\ Len(<<>>) = 0
    OBVIOUS
<1>2. Prefixes(<<>>) = {SubSeq(<<>>, 1, k) : k \in 0 .. 0} /\ 0 .. 0 = {0}
    BY <1>1 DEF Prefixes
<1>3. SubSeq(<<>>, 1, 0) = <<>>
    BY SubSeqEmpty
<1>4. <<>> \in Places[Root] /\ Root \in Inodes
    BY TreeAssumption
<1>5. Prefixes(<<>>) = {<<>>}
    BY <1>2, <1>3
<1> QED BY <1>1, <1>4, <1>5 DEF Paths

LEMMA PathsClosed ==
    /\ Paths \subseteq Seq(STRING)
    /\ \A p \in Paths : Prefixes(p) \subseteq Paths
    /\ \A i \in Inodes : Places[i] \subseteq Paths
<1>1. \A i \in Inodes : Places[i] \subseteq Seq(STRING)
    BY TreeAssumption
<1>2. \A p \in Paths : \E i \in Inodes : \E r \in Places[i] : p \in Prefixes(r)
    BY DEF Paths
<1>3. \A i \in Inodes : \A r \in Places[i] : Prefixes(r) \subseteq Paths
    BY DEF Paths
<1>4. \A i \in Inodes : \A r \in Places[i] :
        /\ r \in Prefixes(r) /\ Prefixes(r) \subseteq Seq(STRING)
        /\ \A q \in Prefixes(r) : Prefixes(q) \subseteq Prefixes(r)
    BY <1>1, PathFacts
<1> QED BY <1>2, <1>3, <1>4

-----------------------------------------------------------------------------
(* Lookups.                                                                *)
PlacedIn(t) == DOMAIN t \subseteq Inodes /\ \A i \in DOMAIN t : t[i].path \in Places[i]

(* A directory is the only one at its path.                                *)
LEMMA AtPlace ==
    ASSUME OnePlace, NEW t, PlacedIn(t), NEW i \in DOMAIN t
    PROVE  /\ t[i].path \in Paths /\ DirsAt(t, t[i].path) = {i}
           /\ \A n : InScan(t, t[i].path, n) = t[i].files[n]
<1>1. t[i].path \in Paths
    BY PathsClosed DEF PlacedIn
<1>2. \A j \in DOMAIN t : t[j].path = t[i].path <=> j = i
    BY DEF PlacedIn, OnePlace
<1>3. DirsAt(t, t[i].path) = {i}
    BY <1>2 DEF DirsAt
<1> QED BY <1>1, <1>3 DEF InScan

LEMMA SameDir ==
    ASSUME OnePlace, NEW t, PlacedIn(t), NEW u, PlacedIn(u), NEW i \in DOMAIN t, NEW j \in DOMAIN u
    PROVE  t[i].path = u[j].path <=> i = j
BY DEF PlacedIn, OnePlace

LEMMA NotThere ==
    ASSUME NEW t, NEW p, DirsAt(t, p) = {}
    PROVE  \A n : InScan(t, p, n) = Absent
BY DEF InScan, Absent

FileAt(t, p, n) ==
    IF DirsAt(t, p) = {} THEN NoFile ELSE t[CHOOSE i \in DirsAt(t, p) : TRUE].files[n]

LEMMA InTreeIs ==
    \A p, n : InTree(p, n) = FileAt(tree, p, n) /\ InTree(p, n)' = FileAt(tree', p, n)
BY DEF InTree, FileAt, DirsAt

LEMMA TreeAt ==
    ASSUME OnePlace, NEW t, PlacedIn(t)
    PROVE  /\ \A i \in DOMAIN t : \A n : FileAt(t, t[i].path, n) = t[i].files[n]
           /\ \A p, n : DirsAt(t, p) = {} => FileAt(t, p, n) = NoFile
<1>1. \A i \in DOMAIN t : DirsAt(t, t[i].path) = {i}
    BY AtPlace
<1> QED BY <1>1 DEF FileAt
-----------------------------------------------------------------------------
LEMMA WithAdds ==
    ASSUME NEW t, NEW i, NEW v
    PROVE  /\ DOMAIN With(t, i, v) = DOMAIN t \cup {i} /\ With(t, i, v)[i] = v
           /\ \A j \in DOMAIN t : j # i => With(t, i, v)[j] = t[j]
BY DEF With

-----------------------------------------------------------------------------
(* What the operations on the target do to its directories and files.      *)
Item == [stamp : 0 .. MaxVersion, files : [Names -> 0 .. Torn]]
IsTarget(t) ==
    /\ DOMAIN t \subseteq Paths
    /\ \A p \in DOMAIN t : Prefixes(p) \subseteq DOMAIN t /\ t[p] \in Item

(* Another target with the same directories and files.                     *)
SameContent(t, u) == DOMAIN u = DOMAIN t /\ \A p \in DOMAIN t : u[p].files = t[p].files

LEMMA SameContentFiles ==
    ASSUME NEW t, NEW u, SameContent(t, u)
    PROVE  \A p, n : InTarget(u, p, n) = InTarget(t, p, n)
BY DEF SameContent, InTarget

LEMMA TouchedKeeps ==
    ASSUME NEW t, IsTarget(t), NEW p
    PROVE  IsTarget(Touched(t, p)) /\ SameContent(t, Touched(t, p))
<1>1. 0 \in 0 .. MaxVersion
    BY BoundsAssumption
<1>2. CASE p \in DOMAIN t
    <2> DEFINE u == [t EXCEPT ![p].stamp = 0]
    <2>1. Touched(t, p) = u
        BY <1>2 DEF Touched
    <2>2. DOMAIN u = DOMAIN t /\ \A q \in DOMAIN t : u[q] = IF q = p THEN [t[q] EXCEPT !.stamp = 0] ELSE t[q]
        OBVIOUS
    <2>3. \A q \in DOMAIN t : t[q] \in Item
        BY DEF IsTarget
    <2>4. \A q \in DOMAIN t : u[q] \in Item /\ u[q].files = t[q].files
        BY <2>2, <2>3, <1>1 DEF Item
    <2> HIDE DEF u
    <2> QED BY <2>1, <2>2, <2>4 DEF IsTarget, SameContent
<1>3. CASE p \notin DOMAIN t
    BY <1>3 DEF Touched, SameContent
<1> QED BY <1>2, <1>3

LEMMA WithDirMakes ==
    ASSUME NEW t, IsTarget(t), NEW p \in Paths
    PROVE  /\ IsTarget(WithDir(t, p)) /\ DOMAIN WithDir(t, p) = DOMAIN t \cup Prefixes(p)
           /\ \A q, n : n \in Names => InTarget(WithDir(t, p), q, n) = InTarget(t, q, n)
<1> DEFINE missing == Prefixes(p) \ DOMAIN t
           parents == {Parent(q) : q \in missing}
           u == WithDir(t, p)
<1>1. u = [q \in DOMAIN t \cup missing |->
             IF q \in missing THEN Empty
             ELSE IF q \in parents THEN [t[q] EXCEPT !.stamp = 0] ELSE t[q]]
    BY DEF WithDir
<1>2. 0 \in 0 .. MaxVersion /\ NoData \in 0 .. Torn
    BY BoundsAssumption DEF NoData, Torn
<1>3. Empty \in Item /\ \A n \in Names : Empty.files[n] = NoData
    BY <1>2 DEF Empty, Item
<1>4. Prefixes(p) \subseteq Paths /\ \A q \in Prefixes(p) : Prefixes(q) \subseteq Prefixes(p)
    BY PathsClosed, PathFacts
<1> DEFINE par(q) == q \in parents
<1>5. /\ DOMAIN u = DOMAIN t \cup missing
      /\ \A q \in missing : u[q] = Empty
      /\ \A q \in DOMAIN t : u[q] = IF par(q) THEN [t[q] EXCEPT !.stamp = 0] ELSE t[q]
    BY <1>1
<1>6. missing \subseteq Prefixes(p) /\ DOMAIN t \cup missing = DOMAIN t \cup Prefixes(p)
    OBVIOUS
<1> HIDE DEF u, missing, par
<1>7. \A q \in DOMAIN t : t[q] \in Item /\ Prefixes(q) \subseteq DOMAIN t /\ q \in Paths
    BY DEF IsTarget
<1>8. \A q \in DOMAIN t : u[q] \in Item /\ u[q].files = t[q].files
    <2> SUFFICES ASSUME NEW q \in DOMAIN t PROVE u[q] \in Item /\ u[q].files = t[q].files
        OBVIOUS
    <2>1. t[q] \in Item /\ (u[q] = t[q] \/ u[q] = [t[q] EXCEPT !.stamp = 0])
        BY <1>5, <1>7
    <2> QED BY <2>1, <1>2 DEF Item
<1>9. IsTarget(u)
    <2>1. DOMAIN u \subseteq Paths
        BY <1>4, <1>5, <1>6, <1>7
    <2>2. \A q \in DOMAIN u : Prefixes(q) \subseteq DOMAIN u
        BY <1>4, <1>5, <1>6, <1>7
    <2>3. \A q \in DOMAIN u : u[q] \in Item
        BY <1>3, <1>5, <1>8
    <2> QED BY <2>1, <2>2, <2>3 DEF IsTarget
<1>10. ASSUME NEW q, NEW n \in Names PROVE InTarget(u, q, n) = InTarget(t, q, n)
    <2>1. CASE q \in DOMAIN t
        BY <2>1, <1>5, <1>8 DEF InTarget
    <2>2. CASE q \in missing
        <3>1. q \notin DOMAIN t
            BY <2>2 DEF missing
        <3> QED BY <2>2, <3>1, <1>3, <1>5 DEF InTarget
    <2>3. CASE q \notin DOMAIN t /\ q \notin missing
        BY <2>3, <1>5 DEF InTarget
    <2> QED BY <2>1, <2>2, <2>3
<1> QED BY <1>5, <1>6, <1>9, <1>10 DEF u

Put(t, p, n, v) == [t EXCEPT ![p].files[n] = v]

LEMMA SetFile ==
    ASSUME NEW t, IsTarget(t), NEW p \in DOMAIN t, NEW n \in Names, NEW v \in 0 .. Torn
    PROVE  /\ IsTarget(Put(t, p, n, v)) /\ DOMAIN Put(t, p, n, v) = DOMAIN t
           /\ InTarget(Put(t, p, n, v), p, n) = v
           /\ \A q, k : k \in Names /\ (q # p \/ k # n) =>
                 InTarget(Put(t, p, n, v), q, k) = InTarget(t, q, k)
<1> DEFINE u == Put(t, p, n, v)
<1>1. \A q \in DOMAIN t : t[q] \in Item /\ Prefixes(q) \subseteq DOMAIN t /\ q \in Paths
    BY DEF IsTarget
<1>2. DOMAIN u = DOMAIN t
      /\ \A q \in DOMAIN t : u[q] = IF q = p THEN [t[p] EXCEPT !.files[n] = v] ELSE t[q]
    BY DEF Put
<1> HIDE DEF u
<1>3. t[p].files \in [Names -> 0 .. Torn] /\ t[p].stamp \in 0 .. MaxVersion
      /\ t[p] \in [stamp : 0 .. MaxVersion, files : [Names -> 0 .. Torn]]
    BY <1>1 DEF Item
<1>4. u[p].files = [t[p].files EXCEPT ![n] = v] /\ u[p] \in Item
    BY <1>2, <1>3 DEF Item
<1>5. u[p].files[n] = v /\ \A k \in Names : k # n => u[p].files[k] = t[p].files[k]
    BY <1>3, <1>4
<1>6. IsTarget(u)
    BY <1>1, <1>2, <1>4 DEF IsTarget
<1>7. \A q, k : k \in Names /\ (q # p \/ k # n) => InTarget(u, q, k) = InTarget(t, q, k)
    BY <1>2, <1>5 DEF InTarget
<1> QED BY <1>2, <1>5, <1>6, <1>7 DEF InTarget, u

LEMMA WithFileSets ==
    ASSUME NEW t, IsTarget(t), NEW p \in DOMAIN t, NEW n \in Names, NEW v \in 0 .. Torn
    PROVE  /\ IsTarget(WithFile(t, p, n, v)) /\ DOMAIN WithFile(t, p, n, v) = DOMAIN t
           /\ InTarget(WithFile(t, p, n, v), p, n) = v
           /\ \A q, k : k \in Names /\ (q # p \/ k # n) =>
                 InTarget(WithFile(t, p, n, v), q, k) = InTarget(t, q, k)
<1> DEFINE s == IF t[p].files[n] = NoData THEN Touched(t, p) ELSE t
<1>1. IsTarget(s) /\ SameContent(t, s)
    BY TouchedKeeps DEF SameContent
<1>2. WithFile(t, p, n, v) = Put(s, p, n, v)
    BY DEF WithFile, Put
<1> HIDE DEF s
<1>3. p \in DOMAIN s /\ DOMAIN s = DOMAIN t
    BY <1>1 DEF SameContent
<1>4. \A q, k : InTarget(s, q, k) = InTarget(t, q, k)
    BY <1>1, SameContentFiles
<1>5. PICK u : u = WithFile(t, p, n, v)
    OBVIOUS
<1>6. /\ IsTarget(u) /\ DOMAIN u = DOMAIN s
      /\ InTarget(u, p, n) = v
      /\ \A q, k : k \in Names /\ (q # p \/ k # n) => InTarget(u, q, k) = InTarget(s, q, k)
    BY <1>1, <1>2, <1>3, <1>5, SetFile
<1> QED BY <1>3, <1>4, <1>5, <1>6

Cleared(t, p, n) ==
    IF InTarget(t, p, n) = NoData THEN t ELSE Touched(Put(t, p, n, NoData), p)

LEMMA ClearedFile ==
    ASSUME NEW t, IsTarget(t), NEW p \in Paths, NEW n \in Names
    PROVE  /\ IsTarget(Cleared(t, p, n)) /\ DOMAIN Cleared(t, p, n) = DOMAIN t
           /\ InTarget(Cleared(t, p, n), p, n) = NoData
           /\ \A q, k : k \in Names /\ (q # p \/ k # n) =>
                 InTarget(Cleared(t, p, n), q, k) = InTarget(t, q, k)
<1> DEFINE u == Cleared(t, p, n)
<1>1. CASE InTarget(t, p, n) = NoData
    BY <1>1 DEF Cleared
<1>2. CASE InTarget(t, p, n) # NoData
    <2>1. p \in DOMAIN t /\ NoData \in 0 .. Torn
        BY <1>2, BoundsAssumption DEF InTarget, NoData, Torn
    <2> DEFINE s == Put(t, p, n, NoData)
    <2>3. /\ IsTarget(s) /\ DOMAIN s = DOMAIN t
          /\ InTarget(s, p, n) = NoData
          /\ \A q, k : k \in Names /\ (q # p \/ k # n) => InTarget(s, q, k) = InTarget(t, q, k)
        BY <2>1, SetFile
    <2>4. u = Touched(s, p)
        BY <1>2 DEF Cleared
    <2> HIDE DEF s, u
    <2>5. IsTarget(u) /\ SameContent(s, u)
        BY <2>3, <2>4, TouchedKeeps
    <2>6. \A q, k : InTarget(u, q, k) = InTarget(s, q, k)
        BY <2>5, SameContentFiles
    <2> QED BY <2>3, <2>5, <2>6 DEF SameContent, u
<1> QED BY <1>1, <1>2

LEMMA WithoutRemoves ==
    ASSUME IsTarget(target), NEW p \in Paths
    PROVE  /\ IsTarget(Without(target, p))
           /\ DOMAIN Without(target, p) = DOMAIN target \ Below(p)
           /\ Below(p) = {q \in DOMAIN target : p \in Prefixes(q)}
           /\ \A q, n : InTarget(Without(target, p), q, n) =
                           IF q \in Below(p) THEN NoData ELSE InTarget(target, q, n)
<1>1. \A q \in DOMAIN target : target[q] \in Item /\ Prefixes(q) \subseteq DOMAIN target /\ q \in Paths
    BY DEF IsTarget
<1>2. Below(p) = {q \in DOMAIN target : p \in Prefixes(q)}
    BY <1>1, PathsClosed, PathFacts DEF Below
<1> DEFINE s == Restrict(target, DOMAIN target \ Below(p))
<1>3. DOMAIN s = DOMAIN target \ Below(p) /\ \A q \in DOMAIN s : s[q] = target[q]
    BY DEF Restrict
<1> HIDE DEF s
<1>4. ASSUME NEW q \in DOMAIN s PROVE Prefixes(q) \subseteq DOMAIN s
    <2> SUFFICES ASSUME NEW r \in Prefixes(q), r \in Below(p) PROVE FALSE
        BY <1>1, <1>3
    <2>1. p \in Prefixes(r) /\ Prefixes(r) \subseteq Prefixes(q)
        BY <1>1, <1>2, <1>3, PathsClosed, PathFacts
    <2> QED BY <2>1, <1>2, <1>3
<1>5. IsTarget(s)
    BY <1>1, <1>3, <1>4 DEF IsTarget
<1>6. Without(target, p) = Touched(s, Parent(p))
    BY DEF Without, s
<1>7. PICK u : u = Without(target, p)
    OBVIOUS
<1>8. IsTarget(u) /\ SameContent(s, u)
    BY <1>5, <1>6, <1>7, TouchedKeeps
<1>9. \A q, n : InTarget(u, q, n) = InTarget(s, q, n)
    BY <1>8, SameContentFiles
<1>10. \A q, n : InTarget(s, q, n) = IF q \in Below(p) THEN NoData ELSE InTarget(target, q, n)
    BY <1>2, <1>3 DEF InTarget
<1>11. DOMAIN u = DOMAIN s
    BY <1>8 DEF SameContent
<1>12. \A q, n : InTarget(u, q, n) = IF q \in Below(p) THEN NoData ELSE InTarget(target, q, n)
    BY <1>9, <1>10
<1> QED BY <1>2, <1>3, <1>7, <1>8, <1>11, <1>12
-----------------------------------------------------------------------------
(* The source changes.                                                     *)
LEMMA TypesOfInv ==
    ASSUME OnePlace, Inv
    PROVE  /\ PlacedIn(tree) /\ PlacedIn(prev) /\ PlacedIn(cur) /\ IsTarget(target)
           /\ \A i \in DOMAIN tree : tree[i] \in Dir
           /\ \A i \in DOMAIN prev : prev[i] \in Record
           /\ \A i \in DOMAIN cur : cur[i] \in Record
BY DEF Inv, TypeOK, Is, Placed, PlacedIn, IsTarget, Item

(* What a change does to a file: nothing, or it removes it, or it gives it *)
(* a time no scan has recorded, or else the file is suspect.               *)
FileEdited(i, n) ==
    LET f == tree'[i].files[n] IN
    \/ i \in DOMAIN tree /\ f = tree[i].files[n]
    \/ f = NoFile
    \/ /\ i \in DOMAIN tree /\ f.data # 0 /\ f.time # 0
       /\ \/ <<tree[i].path, n>> \in suspect'
          \/ \A t \in {prev, cur} : i \in DOMAIN t => t[i].files[n].time # f.time

Edited ==
    /\ PlacedIn(tree') /\ Root \in DOMAIN tree'
    /\ \A i \in DOMAIN tree' : tree'[i] \in Dir /\ \A n \in Names : FileEdited(i, n)
    /\ Closed(tree')
    /\ suspect \subseteq suspect' /\ suspect' \subseteq suspect \cup (Paths \X Names)
    /\ version \in Nat /\ version < MaxVersion /\ version' = version + 1
    /\ second' \in {second, second + 1} /\ edited' = TRUE
    /\ UNCHANGED <<phase, scanVars, copyVars, deleteVars, target, faults>>

LEMMA TimeOfEdit ==
    ASSUME Inv, version < MaxVersion, NEW s \in Instants
    PROVE  /\ s \in Times /\ s # 0 /\ version \in Nat
           /\ version + 1 \in 0 .. MaxVersion /\ version + 1 # 0
           /\ NoFile \in Files /\ NoFile.data = 0 /\ NoFile.time = 0
BY BoundsAssumption DEF Inv, TypeOK, Genuine, Instants, Times, NoFile, Files

LEMMA WriteFileEdits ==
    ASSUME OnePlace, Inv, NEW s \in Instants, NEW i \in DOMAIN tree, NEW n \in Names, WriteFile(i, n, s)
    PROVE  Edited
<1> DEFINE old == tree[i].files[n]
           new == [data |-> version + 1, time |-> s, read |-> old.read /\ old.time = s]
           stamp == IF old = NoFile THEN s ELSE tree[i].stamp
<1>1. /\ version < MaxVersion /\ version' = version + 1 /\ second' = s /\ edited' = TRUE
      /\ UNCHANGED <<phase, scanVars, copyVars, deleteVars, target, faults>>
      /\ tree' = [tree EXCEPT ![i].files[n] = new,
                              ![i].stamp = IF old = NoFile THEN s ELSE @]
      /\ suspect' = IF Racy(i, n, s) THEN suspect \cup {<<tree[i].path, n>>} ELSE suspect
    BY DEF WriteFile, Edit
<1>2. /\ s \in Times /\ s # 0 /\ version \in Nat
      /\ version + 1 \in 0 .. MaxVersion /\ version + 1 # 0
      /\ NoFile \in Files /\ NoFile.data = 0 /\ NoFile.time = 0
    BY <1>1, TimeOfEdit
<1>3. PlacedIn(tree) /\ \A j \in DOMAIN tree : tree[j] \in Dir
    BY TypesOfInv
<1>4. new \in Files /\ new.data # 0 /\ new.time = s
    BY <1>2, <1>3 DEF Files, Dir
<1> HIDE DEF new, old
<1>5. /\ DOMAIN tree' = DOMAIN tree
      /\ \A j \in DOMAIN tree : j # i => tree'[j] = tree[j]
      /\ tree'[i].path = tree[i].path
      /\ tree'[i].files = [tree[i].files EXCEPT ![n] = new]
      /\ tree'[i].stamp \in Times
      /\ tree'[i] \in Dir
    BY <1>1, <1>2, <1>3, <1>4 DEF Dir
<1>6. tree'[i].files[n] = new /\ \A k \in Names : k # n => tree'[i].files[k] = tree[i].files[k]
    BY <1>3, <1>5 DEF Dir
<1>7. \A j \in DOMAIN tree : tree'[j].path = tree[j].path
    BY <1>5
<1>8. PlacedIn(tree')
    BY <1>3, <1>5, <1>7 DEF PlacedIn
<1>9. Closed(tree')
    BY <1>5, <1>7 DEF Inv, AllNested, Closed, DirsAt
<1>10. tree[i].path \in Paths
    BY <1>3, AtPlace
<1>11. FileEdited(i, n)
    BY <1>1, <1>2, <1>4, <1>6 DEF FileEdited, Racy
<1>12. \A j \in DOMAIN tree', k \in Names : FileEdited(j, k)
    BY <1>5, <1>6, <1>11 DEF FileEdited
<1>13. \A j \in DOMAIN tree' : tree'[j] \in Dir
    BY <1>3, <1>5
<1>14. suspect \subseteq suspect' /\ suspect' \subseteq suspect \cup (Paths \X Names)
    BY <1>1, <1>10
<1>15. Root \in DOMAIN tree' /\ s \in {second, second + 1}
    BY <1>5 DEF Inv, Genuine, Instants
<1> QED BY <1>1, <1>2, <1>8, <1>9, <1>12, <1>13, <1>14, <1>15 DEF Edited

LEMMA RemoveFileEdits ==
    ASSUME OnePlace, Inv, NEW s \in Instants, NEW i \in DOMAIN tree, NEW n \in Names, RemoveFile(i, n, s)
    PROVE  Edited
<1>1. /\ version < MaxVersion /\ version' = version + 1 /\ second' = s /\ edited' = TRUE
      /\ UNCHANGED <<phase, scanVars, copyVars, deleteVars, target, faults>>
      /\ tree' = [tree EXCEPT ![i].files[n] = NoFile, ![i].stamp = s]
      /\ suspect' = suspect
    BY DEF RemoveFile, Edit
<1>2. s \in Times /\ version \in Nat /\ NoFile \in Files
    BY <1>1, TimeOfEdit
<1>3. PlacedIn(tree) /\ \A j \in DOMAIN tree : tree[j] \in Dir
    BY TypesOfInv
<1>4. /\ DOMAIN tree' = DOMAIN tree
      /\ \A j \in DOMAIN tree : j # i => tree'[j] = tree[j]
      /\ tree'[i].path = tree[i].path
      /\ tree'[i].files = [tree[i].files EXCEPT ![n] = NoFile]
      /\ tree'[i] \in Dir
    BY <1>1, <1>2, <1>3 DEF Dir
<1>5. tree'[i].files[n] = NoFile /\ \A k \in Names : k # n => tree'[i].files[k] = tree[i].files[k]
    BY <1>3, <1>4 DEF Dir
<1>6. \A j \in DOMAIN tree : tree'[j].path = tree[j].path
    BY <1>4
<1>7. PlacedIn(tree') /\ Closed(tree')
    BY <1>3, <1>4, <1>6 DEF PlacedIn, Inv, AllNested, Closed, DirsAt
<1>8. \A j \in DOMAIN tree' : tree'[j] \in Dir /\ \A k \in Names : FileEdited(j, k)
    BY <1>3, <1>4, <1>5 DEF FileEdited
<1>9. Root \in DOMAIN tree' /\ s \in {second, second + 1}
    BY <1>4 DEF Inv, Genuine, Instants
<1> QED BY <1>1, <1>2, <1>7, <1>8, <1>9 DEF Edited

LEMMA StampAtKeeps ==
    ASSUME NEW t, NEW p, NEW s \in Times, \A i \in DOMAIN t : t[i] \in Dir
    PROVE  /\ DOMAIN StampAt(t, p, s) = DOMAIN t
           /\ \A i \in DOMAIN t : /\ StampAt(t, p, s)[i] \in Dir
                                  /\ StampAt(t, p, s)[i].path = t[i].path
                                  /\ StampAt(t, p, s)[i].files = t[i].files
<1> SUFFICES ASSUME NEW i \in DOMAIN t
             PROVE  /\ StampAt(t, p, s)[i] \in Dir
                    /\ StampAt(t, p, s)[i].path = t[i].path
                    /\ StampAt(t, p, s)[i].files = t[i].files
    BY DEF StampAt
<1>1. StampAt(t, p, s)[i] = t[i] \/ StampAt(t, p, s)[i] = [t[i] EXCEPT !.stamp = s]
    BY DEF StampAt
<1> QED BY <1>1 DEF Dir

LEMMA MakeDirEdits ==
    ASSUME OnePlace, Inv, NEW s \in Instants, NEW i \in Inodes, NEW p \in Places[i], MakeDir(i, p, s)
    PROVE  Edited
<1> DEFINE t == StampAt(tree, Parent(p), s)
           new == [path |-> p, stamp |-> s, files |-> [n \in Names |-> NoFile]]
<1>1. /\ version < MaxVersion /\ version' = version + 1 /\ second' = s /\ edited' = TRUE
      /\ UNCHANGED <<phase, scanVars, copyVars, deleteVars, target, faults>>
      /\ tree' = With(t, i, new)
      /\ suspect' = suspect
      /\ i \notin DOMAIN tree /\ DirsAt(tree, Parent(p)) # {}
    BY DEF MakeDir, Edit
<1>2. s \in Times /\ version \in Nat /\ NoFile \in Files
    BY <1>1, TimeOfEdit
<1>3. PlacedIn(tree) /\ \A j \in DOMAIN tree : tree[j] \in Dir
    BY TypesOfInv
<1>4. p \in Paths /\ p \in Seq(STRING)
    BY PathsClosed
<1>5. /\ DOMAIN t = DOMAIN tree
      /\ \A j \in DOMAIN tree : t[j] \in Dir /\ t[j].path = tree[j].path /\ t[j].files = tree[j].files
    BY <1>2, <1>3, StampAtKeeps
<1>6. new \in Dir /\ new.path = p /\ \A n \in Names : new.files[n] = NoFile
    BY <1>2, <1>4 DEF Dir
<1> HIDE DEF t, new
<1>7. DOMAIN tree' = DOMAIN tree \cup {i} /\ tree'[i] = new /\ \A j \in DOMAIN tree : tree'[j] = t[j]
    <2>1. /\ DOMAIN With(t, i, new) = DOMAIN t \cup {i} /\ With(t, i, new)[i] = new
          /\ \A j \in DOMAIN t : j # i => With(t, i, new)[j] = t[j]
        BY DEF With
    <2> QED BY <2>1, <1>1, <1>5
<1>8. \A j \in DOMAIN tree : tree'[j] \in Dir /\ tree'[j].path = tree[j].path /\ tree'[j].files = tree[j].files
    BY <1>5, <1>7
<1>9. PlacedIn(tree')
    BY <1>3, <1>6, <1>7, <1>8 DEF PlacedIn
<1>10. \A q : DirsAt(tree, q) # {} => DirsAt(tree', q) # {}
    BY <1>7, <1>8 DEF DirsAt
<1>11. Closed(tree)
    BY DEF Inv, AllNested
<1>12. ASSUME NEW j \in DOMAIN tree', NEW q \in Prefixes(tree'[j].path)
       PROVE  DirsAt(tree', q) # {}
    <2>1. CASE j \in DOMAIN tree
        BY <2>1, <1>8, <1>10, <1>11, <1>12 DEF Closed
    <2>2. CASE j = i /\ q = p
        BY <2>2, <1>6, <1>7 DEF DirsAt
    <2>3. CASE j = i /\ q # p
        <3>1. q \in Prefixes(p)
            BY <2>3, <1>6, <1>7, <1>12
        <3>2. \A r \in Prefixes(p) : r # p => r \in Prefixes(Parent(p))
            <4>1. CASE p = <<>>
                BY <4>1, RootPath
            <4>2. CASE p # <<>>
                BY <4>2, <1>4, PathFacts
            <4> QED BY <4>1, <4>2
        <3>3. PICK k \in DOMAIN tree : tree[k].path = Parent(p)
            BY <1>1 DEF DirsAt
        <3>4. DirsAt(tree, q) # {}
            BY <2>3, <3>1, <3>2, <3>3, <1>11 DEF Closed
        <3> QED BY <3>4, <1>10
    <2> QED BY <2>1, <2>2, <2>3, <1>7
<1>13. Closed(tree')
    BY <1>12 DEF Closed
<1>14. \A j \in DOMAIN tree' : tree'[j] \in Dir /\ \A k \in Names : FileEdited(j, k)
    BY <1>6, <1>7, <1>8 DEF FileEdited
<1>15. Root \in DOMAIN tree' /\ s \in {second, second + 1}
    BY <1>7 DEF Inv, Genuine, Instants
<1> QED BY <1>1, <1>2, <1>9, <1>13, <1>14, <1>15 DEF Edited

LEMMA RemoveDirEdits ==
    ASSUME OnePlace, Inv, NEW s \in Instants, NEW i \in DOMAIN tree, RemoveDir(i, s)
    PROVE  Edited
<1> DEFINE t == StampAt(tree, Parent(tree[i].path), s)
<1>1. /\ version < MaxVersion /\ version' = version + 1 /\ second' = s /\ edited' = TRUE
      /\ UNCHANGED <<phase, scanVars, copyVars, deleteVars, target, faults>>
      /\ tree' = Restrict(t, DOMAIN tree \ {i})
      /\ suspect' = suspect
      /\ i # Root /\ \A j \in DOMAIN tree : ~IsStrictPrefix(tree[i].path, tree[j].path)
    BY DEF RemoveDir, Edit
<1>2. s \in Times /\ version \in Nat
    BY <1>1, TimeOfEdit
<1>3. PlacedIn(tree) /\ \A j \in DOMAIN tree : tree[j] \in Dir
    BY TypesOfInv
<1>4. /\ DOMAIN t = DOMAIN tree
      /\ \A j \in DOMAIN tree : t[j] \in Dir /\ t[j].path = tree[j].path /\ t[j].files = tree[j].files
    BY <1>2, <1>3, StampAtKeeps
<1> HIDE DEF t
<1>5. DOMAIN tree' = DOMAIN tree \ {i} /\ \A j \in DOMAIN tree' : tree'[j] = t[j]
    BY <1>1, <1>4 DEF Restrict
<1>6. \A j \in DOMAIN tree' : /\ j \in DOMAIN tree /\ tree'[j] \in Dir
                              /\ tree'[j].path = tree[j].path /\ tree'[j].files = tree[j].files
    BY <1>4, <1>5
<1>7. PlacedIn(tree')
    BY <1>3, <1>5, <1>6 DEF PlacedIn
<1>8. ASSUME NEW j \in DOMAIN tree', NEW q \in Prefixes(tree'[j].path)
      PROVE  DirsAt(tree', q) # {}
    <2>1. q \in Prefixes(tree[j].path) /\ j # i
        BY <1>5, <1>6
    <2>2. PICK k \in DOMAIN tree : tree[k].path = q
        BY <2>1, <1>6 DEF Inv, AllNested, Closed, DirsAt
    <2>3. k # i
        <3> SUFFICES ASSUME k = i PROVE FALSE
            OBVIOUS
        <3>1. q = tree[i].path /\ q # tree[j].path
            BY <2>1, <2>2, <1>3, <1>6, SameDir
        <3>2. tree[j].path \in Seq(STRING) /\ q \in Seq(STRING)
            BY <3>1, <1>3, <1>6, AtPlace, PathsClosed
        <3>3. IsPrefix(q, tree[j].path)
            BY <3>2, <2>1, PathFacts
        <3> QED BY <3>1, <3>3, <1>1, <1>6 DEF IsStrictPrefix
    <2>4. k \in DOMAIN tree' /\ tree'[k].path = q
        BY <2>2, <2>3, <1>5, <1>6
    <2> QED BY <2>4 DEF DirsAt
<1>9. Closed(tree')
    BY <1>8 DEF Closed
<1>10. \A j \in DOMAIN tree' : tree'[j] \in Dir /\ \A k \in Names : FileEdited(j, k)
    BY <1>6 DEF FileEdited
<1>11. Root \in DOMAIN tree' /\ s \in {second, second + 1}
    BY <1>1, <1>5 DEF Inv, Genuine, Instants
<1> QED BY <1>1, <1>2, <1>7, <1>9, <1>10, <1>11 DEF Edited

LEMMA ChangeSourceEdits ==
    ASSUME OnePlace, Inv, ChangeSource
    PROVE  Edited
<1>1. PICK s \in Instants :
        \/ \E i \in DOMAIN tree, n \in Names : WriteFile(i, n, s) \/ RemoveFile(i, n, s)
        \/ \E i \in Inodes : \E p \in Places[i] : MakeDir(i, p, s)
        \/ \E i \in DOMAIN tree : RemoveDir(i, s)
    BY DEF ChangeSource
<1> QED BY <1>1, WriteFileEdits, RemoveFileEdits, MakeDirEdits, RemoveDirEdits

(* Of a file that is not suspect, a change is seen at the next scan.       *)
LEMMA FileAfterEdit ==
    ASSUME OnePlace, Inv, Edited, NEW p \in Paths, NEW n \in Names, <<p, n>> \notin suspect'
    PROVE  \/ InTree(p, n)' = InTree(p, n)
           \/ InTree(p, n)' = NoFile
           \/ \A t \in {prev, cur} : InScan(t, p, n).time # InTree(p, n)'.time
<1>1. PlacedIn(tree) /\ PlacedIn(tree') /\ PlacedIn(prev) /\ PlacedIn(cur)
    BY TypesOfInv DEF Edited
<1>2. CASE DirsAt(tree', p) = {}
    BY <1>1, <1>2, TreeAt, InTreeIs
<1>3. CASE DirsAt(tree', p) # {}
    <2>1. PICK i \in DOMAIN tree' : tree'[i].path = p
        BY <1>3 DEF DirsAt
    <2>2. InTree(p, n)' = tree'[i].files[n]
        BY <2>1, <1>1, TreeAt, InTreeIs
    <2>3. FileEdited(i, n)
        BY <2>1 DEF Edited
    <2>4. i \in DOMAIN tree => tree[i].path = p /\ InTree(p, n) = tree[i].files[n]
        BY <2>1, <1>1, SameDir, TreeAt, InTreeIs
    <2>5. ASSUME NEW t \in {prev, cur}, i \in DOMAIN t => t[i].files[n].time # tree'[i].files[n].time,
                 tree'[i].files[n].time # 0
          PROVE  InScan(t, p, n).time # tree'[i].files[n].time
        <3>1. PlacedIn(t)
            BY <1>1
        <3>2. CASE DirsAt(t, p) = {}
            BY <3>2, <2>5, NotThere DEF Absent, Hash, NoFile
        <3>3. CASE DirsAt(t, p) # {}
            <4>1. PICK j \in DOMAIN t : t[j].path = p
                BY <3>3 DEF DirsAt
            <4>2. j = i
                BY <4>1, <2>1, <3>1, <1>1, SameDir
            <4>3. InScan(t, p, n) = t[i].files[n]
                BY <4>1, <4>2, <3>1, AtPlace
            <4> QED BY <4>1, <4>2, <4>3, <2>5
        <3> QED BY <3>2, <3>3
    <2> QED BY <2>2, <2>3, <2>4, <2>5 DEF FileEdited
<1> QED BY <1>2, <1>3

(* What a scan records as of no time is no file.                           *)
LEMMA NoTime ==
    ASSUME OnePlace, Inv, NEW t \in {prev, cur}, NEW p \in Paths, NEW n \in Names
    PROVE  InScan(t, p, n).time = 0 => InScan(t, p, n) = Absent
<1>1. PlacedIn(t)
    BY TypesOfInv
<1>2. CASE DirsAt(t, p) = {}
    BY <1>2, NotThere
<1>3. CASE DirsAt(t, p) # {}
    <2>1. PICK i \in DOMAIN t : t[i].path = p
        BY <1>3 DEF DirsAt
    <2>2. InScan(t, p, n) = t[i].files[n]
        BY <2>1, <1>1, AtPlace
    <2> QED BY <2>1, <2>2 DEF Inv, Genuine
<1> QED BY <1>2, <1>3

LEMMA EditKeepsFiles ==
    ASSUME OnePlace, Inv, Edited
    PROVE  FilesRight'
<1>1. /\ UNCHANGED <<phase, prev, cur, plan, jobs, open, deletes, doomed, target>>
      /\ suspect \subseteq suspect'
    BY DEF Edited, scanVars, copyVars, deleteVars
<1> SUFFICES ASSUME NEW p \in Paths, NEW n \in Names, <<p, n>> \notin suspect'
             PROVE  IF phase = "scan" THEN Right(prev, p, n)' ELSE Pending(p, n)' \/ Right(cur, p, n)'
    BY <1>1 DEF FilesRight
<1>2. IF phase = "scan" THEN Right(prev, p, n) ELSE Pending(p, n) \/ Right(cur, p, n)
    BY <1>1 DEF Inv, FilesRight
<1> DEFINE f == InTree(p, n)
           g == InTree(p, n)'
<1>3. f = g \/ g = NoFile \/ \A t \in {prev, cur} : InScan(t, p, n).time # g.time
    BY FileAfterEdit
<1>4. NoFile.data = NoData /\ NoFile.time = 0
    BY DEF NoFile, NoData
<1>5. \A t \in {prev, cur} : InScan(t, p, n).time = 0 => InScan(t, p, n) = Absent
    BY NoTime
<1>6. /\ InTarget(target, p, n)' = InTarget(target, p, n)
      /\ InScan(prev, p, n)' = InScan(prev, p, n) /\ InScan(cur, p, n)' = InScan(cur, p, n)
    BY <1>1 DEF InTarget, InScan, DirsAt
<1> HIDE DEF f, g
<1>7. ASSUME NEW t \in {prev, cur}, Right(t, p, n)
      PROVE  /\ InScan(t, p, n) = Absent => InTarget(target, p, n) = NoData
             /\ g.time = InScan(t, p, n).time => InTarget(target, p, n) = g.data
    BY <1>3, <1>4, <1>5, <1>7 DEF Right, f
<1>8. Right(prev, p, n) => Right(prev, p, n)'
    BY <1>6, <1>7 DEF Right, g
<1>9. Right(cur, p, n) => Right(cur, p, n)'
    BY <1>6, <1>7 DEF Right, g
<1>10. Pending(p, n) => Pending(p, n)'
    <2>1. Planned(p, n)' = Planned(p, n)
        BY <1>1 DEF Planned
    <2>2. <<p, n>> \in DOMAIN open => InScan(cur, p, n) # Absent
        BY DEF Inv, Tasks
    <2>3. ASSUME <<p, n>> \in DOMAIN open, f.time = InScan(cur, p, n).time => open[<<p, n>>] = f.data
          PROVE  g.time = InScan(cur, p, n).time => open[<<p, n>>] = g.data
        BY <2>2, <2>3, <1>3, <1>4, <1>5
    <2> QED BY <2>1, <2>3, <1>1, <1>6 DEF Pending, f, g
<1> QED BY <1>2, <1>8, <1>9, <1>10

LEMMA EditKeeps ==
    ASSUME OnePlace, Inv, Edited
    PROVE  Inv'
<1>1. /\ UNCHANGED <<phase, queue, prev, cur, scanFault, rounds, plan, jobs, open, deletes, doomed, target, faults>>
      /\ suspect \subseteq suspect' /\ suspect' \subseteq suspect \cup (Paths \X Names)
      /\ version \in Nat /\ version < MaxVersion /\ version' = version + 1
      /\ second' \in {second, second + 1} /\ edited' = TRUE
      /\ PlacedIn(tree') /\ Root \in DOMAIN tree' /\ Closed(tree')
      /\ \A i \in DOMAIN tree' : tree'[i] \in Dir /\ \A n \in Names : FileEdited(i, n)
    BY DEF Edited, scanVars, copyVars, deleteVars
<1>2. TypeOK'
    <2>1. \A i, j \in DOMAIN tree' : tree'[i].path = tree'[j].path => i = j
        BY <1>1, SameDir
    <2>2. Is(tree', Dir)
        BY <1>1 DEF Is, PlacedIn
    <2>3. version' \in 0 .. MaxVersion /\ second' \in 0 .. version'
        BY <1>1, BoundsAssumption DEF Inv, TypeOK
    <2>4. suspect' \subseteq Paths \X (Names \cup {"dir", "times"})
        BY <1>1 DEF Inv, TypeOK
    <2> QED BY <2>1, <2>2, <2>3, <2>4, <1>1 DEF Inv, TypeOK, Is
<1>3. Placed'
    BY <1>1 DEF Inv, Placed, PlacedIn
<1>4. Genuine'
    <2>1. second' >= 1
        BY <1>1 DEF Inv, Genuine, TypeOK
    <2>2. ASSUME NEW i \in DOMAIN tree', NEW n \in Names
          PROVE  tree'[i].files[n] = NoFile \/ (tree'[i].files[n].data # 0 /\ tree'[i].files[n].time # 0)
        <3>1. FileEdited(i, n)
            BY <1>1
        <3> QED BY <3>1 DEF FileEdited, Inv, Genuine
    <2> QED BY <2>1, <2>2, <1>1 DEF Inv, Genuine, Absent
<1>5. AllNested'
    BY <1>1 DEF Inv, AllNested, Closed, DirsAt
<1>6. Stages'
    BY <1>1 DEF Inv, Stages
<1>7. Tasks'
    <2>1. \A p, n : /\ InScan(prev, p, n)' = InScan(prev, p, n) /\ InScan(cur, p, n)' = InScan(cur, p, n)
                    /\ Planned(p, n)' = Planned(p, n) /\ Changed(p, n)' = Changed(p, n)
        BY <1>1 DEF InScan, DirsAt, Planned, Changed
    <2>2. \A p : DirsAt(prev, p)' = DirsAt(prev, p) /\ DirsAt(cur, p)' = DirsAt(cur, p)
        BY <1>1 DEF DirsAt
    <2> QED BY <2>1, <2>2, <1>1 DEF Inv, Tasks, Absent
<1>8. FilesRight'
    BY EditKeepsFiles
<1>9. DirsRight'
    <2>1. \A p : DirsAt(prev, p)' = DirsAt(prev, p) /\ DirsAt(cur, p)' = DirsAt(cur, p)
        BY <1>1 DEF DirsAt
    <2>2. \A p : /\ Listed(prev, p)' = Listed(prev, p) /\ Listed(cur, p)' = Listed(cur, p)
                 /\ PlannedDir(p)' = PlannedDir(p)
        BY <2>1, <1>1 DEF Listed, PlannedDir
    <2> QED BY <2>2, <1>1 DEF Inv, DirsRight
<1>10. Exact'
    BY <1>1 DEF Exact
<1>11. TimesKept'
    BY <1>1 DEF Inv, TimesKept
<1> QED BY <1>2, <1>3, <1>4, <1>5, <1>6, <1>7, <1>8, <1>9, <1>10, <1>11 DEF Inv
-----------------------------------------------------------------------------
(* Scanning.                                                               *)
LEMMA NothingPending ==
    ASSUME plan = <<>>, jobs = {}, open = <<>>, deletes = {}, doomed = {}
    PROVE  \A p, n : ~Pending(p, n) /\ ~Planned(p, n) /\ ~PlannedDir(p)
<1>1. DOMAIN plan = {} /\ DOMAIN open = {}
    OBVIOUS
<1>2. \A p, n : ~Planned(p, n) /\ ~PlannedDir(p)
    BY <1>1 DEF Planned, PlannedDir
<1>3. \A p, n : <<p, n>> \notin jobs /\ <<p, n>> \notin deletes /\ p \notin doomed
    OBVIOUS
<1> SUFFICES ASSUME NEW p, NEW n PROVE ~Pending(p, n)
    BY <1>2
<1> QED BY <1>1, <1>2, <1>3 DEF Pending

LEMMA StartScanKeeps ==
    ASSUME OnePlace, Inv, StartScan
    PROVE  Inv'
<1>1. /\ phase = "idle" /\ rounds < MaxRounds /\ phase' = "scan" /\ rounds' = rounds + 1
      /\ prev' = cur /\ cur' = <<>> /\ queue' = {<<>>} /\ ~edited' /\ ~scanFault'
      /\ edited' = FALSE /\ scanFault' = FALSE
      /\ UNCHANGED <<tree, version, second, plan, jobs, open, deletes, doomed, target, suspect, faults>>
    BY DEF StartScan, copyVars, deleteVars, historyVars
<1>2. plan = <<>> /\ jobs = {} /\ open = <<>> /\ deletes = {} /\ doomed = {}
    BY <1>1 DEF Inv, Stages
<1>3. DOMAIN <<>> = {}
    OBVIOUS
<1>4. TypeOK'
    <2>1. rounds' \in 0 .. MaxRounds
        BY <1>1, BoundsAssumption DEF Inv, TypeOK
    <2>2. Is(cur', Record) /\ Is(prev', Record)
        BY <1>1, <1>3 DEF Inv, TypeOK, Is
    <2>3. queue' \subseteq Paths /\ edited' \in BOOLEAN /\ scanFault' \in BOOLEAN
        BY <1>1, RootPath
    <2> QED BY <2>1, <2>2, <2>3, <1>1 DEF Inv, TypeOK
<1>5. Placed' /\ Genuine'
    BY <1>1, <1>3 DEF Inv, Placed, Genuine, Absent
<1>6. AllNested'
    BY <1>1, <1>3, RootPath DEF Inv, AllNested, Closed, DirsAt
<1>7. Stages'
    BY <1>1, <1>2 DEF Stages
<1>8. Tasks'
    <2>1. \A p, n : ~Planned(p, n)'
        BY <1>1, <1>2, <1>3 DEF Planned
    <2> QED BY <2>1, <1>1, <1>2, <1>3 DEF Tasks
<1>9. FilesRight'
    <2>1. \A p \in Paths, n \in Names : <<p, n>> \notin suspect => Right(cur, p, n)
        BY <1>1, <1>2, NothingPending DEF Inv, FilesRight
    <2>2. \A p, n : Right(cur, p, n) => Right(prev, p, n)'
        BY <1>1 DEF Right, InScan, InTree, InTarget, DirsAt
    <2> QED BY <2>1, <2>2, <1>1 DEF FilesRight
<1>10. DirsRight'
    <2>1. \A p \in Paths : <<p, "dir">> \notin suspect => Listed(cur, p)
        BY <1>1, <1>2, NothingPending DEF Inv, DirsRight
    <2>2. \A p : Listed(cur, p) => Listed(prev, p)'
        BY <1>1 DEF Listed, DirsAt
    <2> QED BY <2>1, <2>2, <1>1 DEF DirsRight
<1>11. Exact'
    <2>1. \A i \in DOMAIN tree : <<>> \in Prefixes(tree[i].path)
        BY TypesOfInv, AtPlace, PathsClosed, PathFacts
    <2> QED BY <2>1, <1>1, <1>3 DEF Exact
<1>12. TimesKept'
    BY <1>1 DEF TimesKept
<1> QED BY <1>4, <1>5, <1>6, <1>7, <1>8, <1>9, <1>10, <1>11, <1>12 DEF Inv

(* A directory recorded, with some files or none left out.                 *)
LEMMA RecordedAdds ==
    ASSUME OnePlace, Inv, NEW p \in Paths, NEW i \in DirsAt(tree, p), NEW u, Recorded(i, u)
    PROVE  /\ i \in DOMAIN tree /\ tree[i].path = p
           /\ DOMAIN cur' = DOMAIN cur \cup {i} /\ \A j \in DOMAIN cur : j # i => cur'[j] = cur[j]
           /\ cur'[i] \in Record /\ cur'[i].path = p
           /\ \A n \in Names : cur'[i].files[n] = Hash(IF n \in u THEN NoFile ELSE tree[i].files[n])
<1>1. i \in DOMAIN tree /\ tree[i].path = p /\ tree[i] \in Dir
    BY TypesOfInv DEF DirsAt
<1> DEFINE files == [n \in Names |-> Hash(IF n \in u THEN NoFile ELSE tree[i].files[n])]
           rec == [tree[i] EXCEPT !.files = files]
<1>2. cur' = With(cur, i, rec)
    BY DEF Recorded
<1>3. NoFile \in Files
    BY BoundsAssumption DEF NoFile, Files, Times
<1>4. files \in [Names -> Hashes]
    BY <1>1, <1>3 DEF Dir, Hashes
<1> HIDE DEF files
<1>5. rec \in Record /\ rec.path = p /\ rec.files = files
    BY <1>1, <1>4 DEF Dir, Record
<1> HIDE DEF rec
<1>6. /\ DOMAIN cur' = DOMAIN cur \cup {i} /\ cur'[i] = rec
      /\ \A j \in DOMAIN cur : j # i => cur'[j] = cur[j]
    BY <1>2 DEF With
<1> QED BY <1>1, <1>5, <1>6 DEF files

(* What visiting a path may do.                                            *)
Visited(p) ==
    \/ cur' = cur /\ queue' = queue \ {p}
    \/ \E i \in DirsAt(tree, p), u \in {{}, Names} \cup {{n} : n \in Names} :
          Recorded(i, u) /\ queue' \subseteq (queue \ {p}) \cup Subdirs(p)

VisitedWell(p) ==
    \/ DirsAt(tree, p) = {} /\ cur' = cur /\ queue' = queue \ {p}
    \/ \E i \in DirsAt(tree, p) : Recorded(i, {}) /\ queue' = (queue \ {p}) \cup Subdirs(p)

LEMMA ScanDirVisits ==
    ASSUME Inv, NEW p, ScanDir(p)
    PROVE  /\ phase = "scan" /\ p \in queue /\ Visited(p)
           /\ scanFault' \in BOOLEAN /\ faults' \in 0 .. MaxFaults
           /\ ~scanFault' => ~scanFault /\ VisitedWell(p)
           /\ UNCHANGED <<tree, version, second, edited, phase, prev, rounds, plan, jobs, open,
                          deletes, doomed, target, suspect>>
<1>1. scanFault \in BOOLEAN /\ faults \in 0 .. MaxFaults /\ MaxFaults \in Nat
    BY BoundsAssumption DEF Inv, TypeOK
<1>2. Visited(p)
    BY DEF ScanDir, Visited
<1>3. scanFault' \in BOOLEAN /\ faults' \in 0 .. MaxFaults
    <2>1. UNCHANGED <<scanFault, faults>> \/ (Fault /\ scanFault' = TRUE)
        BY DEF ScanDir
    <2>2. Fault => faults' = faults + 1 /\ faults < MaxFaults
        BY DEF Fault
    <2>3. faults' \in 0 .. MaxFaults
        BY <2>1, <2>2, <1>1
    <2>4. scanFault' \in BOOLEAN
        BY <2>1, <1>1
    <2> QED BY <2>3, <2>4
<1>4. ~scanFault' => ~scanFault /\ VisitedWell(p)
    BY DEF ScanDir, VisitedWell
<1> QED BY <1>2, <1>3, <1>4 DEF ScanDir, sourceVars, copyVars, deleteVars

LEMMA VisitedNests ==
    ASSUME OnePlace, Inv, NEW p \in queue, Visited(p), tree' = tree
    PROVE  AllNested'
<1>1. /\ Closed(tree) /\ Closed(cur)
      /\ \A r \in queue : \A q \in Prefixes(r) : q = r \/ DirsAt(cur, q) # {}
    BY DEF Inv, AllNested
<1>2. queue \subseteq Paths
    BY DEF Inv, TypeOK
<1>3. Closed(tree')
    BY <1>1 DEF Closed, DirsAt
<1>4. CASE cur' = cur /\ queue' = queue \ {p}
    BY <1>1, <1>3, <1>4 DEF AllNested, Closed, DirsAt
<1>5. ASSUME NEW i \in DirsAt(tree, p), NEW u, Recorded(i, u),
             queue' \subseteq (queue \ {p}) \cup Subdirs(p)
      PROVE  AllNested'
    <2>1. /\ DOMAIN cur' = DOMAIN cur \cup {i} /\ \A j \in DOMAIN cur : j # i => cur'[j] = cur[j]
          /\ cur'[i].path = p
        BY <1>2, <1>5, RecordedAdds
    <2>2. \A j \in DOMAIN cur : cur'[j].path = cur[j].path
        <3>1. i \in DOMAIN cur => cur[i].path = p
            BY <2>1, <1>5, TypesOfInv, SameDir DEF DirsAt
        <3> QED BY <3>1, <2>1
    <2>3. \A q : DirsAt(cur, q) # {} => DirsAt(cur', q) # {}
        BY <2>1, <2>2 DEF DirsAt
    <2>4. DirsAt(cur', p) # {}
        BY <2>1 DEF DirsAt
    <2>5. \A q \in Prefixes(p) : DirsAt(cur', q) # {}
        BY <2>3, <2>4, <1>1
    <2>6. Closed(cur')
        BY <2>1, <2>2, <2>3, <2>5, <1>1 DEF Closed
    <2>7. ASSUME NEW r \in queue', NEW q \in Prefixes(r)
          PROVE  q = r \/ DirsAt(cur', q) # {}
        <3>1. CASE r \in queue
            BY <3>1, <2>3, <2>7, <1>1
        <3>2. CASE r \in Subdirs(p)
            <4>1. PICK k \in DOMAIN tree : r = tree[k].path /\ r # <<>> /\ Parent(r) = p
                BY <3>2 DEF Subdirs
            <4>2. r \in Seq(STRING)
                BY <4>1, TypesOfInv, AtPlace, PathsClosed
            <4>3. Prefixes(r) = Prefixes(p) \cup {r}
                BY <4>1, <4>2, PathFacts
            <4> QED BY <4>3, <2>5, <2>7
        <3> QED BY <3>1, <3>2, <1>5
    <2> QED BY <2>6, <2>7, <1>3 DEF AllNested
<1> QED BY <1>4, <1>5 DEF Visited

LEMMA VisitedTypes ==
    ASSUME OnePlace, Inv, NEW p \in queue, Visited(p)
    PROVE  /\ queue' \subseteq Paths /\ PlacedIn(cur') /\ Is(cur', Record)
           /\ \A i \in DOMAIN cur', n \in Names :
                 cur'[i].files[n].time = 0 => cur'[i].files[n] = Absent
<1>1. queue \subseteq Paths /\ PlacedIn(cur) /\ Is(cur, Record) /\ PlacedIn(tree)
    BY TypesOfInv DEF Inv, TypeOK
<1>2. \A i \in DOMAIN cur, n \in Names : cur[i].files[n].time = 0 => cur[i].files[n] = Absent
    BY DEF Inv, Genuine
<1>3. CASE cur' = cur /\ queue' = queue \ {p}
    BY <1>1, <1>2, <1>3
<1>4. ASSUME NEW i \in DirsAt(tree, p), NEW u, Recorded(i, u),
             queue' \subseteq (queue \ {p}) \cup Subdirs(p)
      PROVE  /\ queue' \subseteq Paths /\ PlacedIn(cur') /\ Is(cur', Record)
             /\ \A j \in DOMAIN cur', n \in Names :
                   cur'[j].files[n].time = 0 => cur'[j].files[n] = Absent
    <2>1. /\ DOMAIN cur' = DOMAIN cur \cup {i} /\ \A j \in DOMAIN cur : j # i => cur'[j] = cur[j]
          /\ i \in DOMAIN tree /\ tree[i].path = p
          /\ cur'[i] \in Record /\ cur'[i].path = p
          /\ \A n \in Names : cur'[i].files[n] = Hash(IF n \in u THEN NoFile ELSE tree[i].files[n])
        BY <1>1, <1>4, RecordedAdds
    <2>2. queue' \subseteq Paths
        <3>1. Subdirs(p) \subseteq Paths
            BY <1>1, AtPlace DEF Subdirs
        <3> QED BY <3>1, <1>1, <1>4
    <2>3. PlacedIn(cur')
        BY <2>1, <1>1 DEF PlacedIn
    <2>4. Is(cur', Record)
        BY <2>1, <2>3, <1>1 DEF Is, PlacedIn
    <2>5. \A n \in Names : cur'[i].files[n].time = 0 => cur'[i].files[n] = Absent
        <3> SUFFICES ASSUME NEW n \in Names, cur'[i].files[n].time = 0 PROVE cur'[i].files[n] = Absent
            OBVIOUS
        <3>1. tree[i].files[n] = NoFile \/ (tree[i].files[n].data # 0 /\ tree[i].files[n].time # 0)
            BY <2>1 DEF Inv, Genuine
        <3>2. cur'[i].files[n] = Hash(NoFile) \/ cur'[i].files[n] = Hash(tree[i].files[n])
            BY <2>1
        <3>3. Hash(tree[i].files[n]).time = tree[i].files[n].time
            BY DEF Hash
        <3> QED BY <3>1, <3>2, <3>3 DEF Absent
    <2> QED BY <2>1, <2>2, <2>3, <2>4, <2>5, <1>2
<1> QED BY <1>3, <1>4 DEF Visited

LEMMA VisitedExact ==
    ASSUME OnePlace, Inv, NEW p \in queue, phase = "scan", ~edited, ~scanFault, VisitedWell(p),
           tree' = tree
    PROVE  /\ \A i \in DOMAIN cur' :
                 i \in DOMAIN tree /\ \A n \in Names : cur'[i].files[n].time = tree[i].files[n].time
           /\ \A i \in DOMAIN tree :
                 i \in DOMAIN cur' \/ rounds = 0 \/ \E q \in Prefixes(tree[i].path) : q \in queue'
<1>1. /\ \A i \in DOMAIN cur :
            i \in DOMAIN tree /\ \A n \in Names : cur[i].files[n].time = tree[i].files[n].time
      /\ \A i \in DOMAIN tree :
            i \in DOMAIN cur \/ rounds = 0 \/ \E q \in Prefixes(tree[i].path) : q \in queue
    BY DEF Inv, Exact
<1>2. PlacedIn(tree) /\ Closed(tree) /\ queue \subseteq Paths
    BY TypesOfInv DEF Inv, AllNested, TypeOK
<1>3. CASE DirsAt(tree, p) = {} /\ cur' = cur /\ queue' = queue \ {p}
    <2>1. \A i \in DOMAIN tree : p \notin Prefixes(tree[i].path)
        BY <1>2, <1>3 DEF Closed
    <2> QED BY <2>1, <1>1, <1>3
<1>4. ASSUME NEW d \in DirsAt(tree, p), Recorded(d, {}), queue' = (queue \ {p}) \cup Subdirs(p)
      PROVE  /\ \A i \in DOMAIN cur' :
                   i \in DOMAIN tree /\ \A n \in Names : cur'[i].files[n].time = tree[i].files[n].time
             /\ \A i \in DOMAIN tree :
                   i \in DOMAIN cur' \/ rounds = 0 \/ \E q \in Prefixes(tree[i].path) : q \in queue'
    <2>1. /\ DOMAIN cur' = DOMAIN cur \cup {d} /\ \A j \in DOMAIN cur : j # d => cur'[j] = cur[j]
          /\ d \in DOMAIN tree /\ tree[d].path = p
          /\ \A n \in Names : cur'[d].files[n] = Hash(IF n \in {} THEN NoFile ELSE tree[d].files[n])
        BY <1>2, <1>4, RecordedAdds
    <2>2. \A n \in Names : cur'[d].files[n].time = tree[d].files[n].time
        <3>1. \A n \in Names : cur'[d].files[n] = Hash(tree[d].files[n])
            BY <2>1
        <3>2. \A f : Hash(f).time = f.time
            BY DEF Hash
        <3> QED BY <3>1, <3>2
    <2>3. ASSUME NEW i \in DOMAIN cur'
          PROVE  i \in DOMAIN tree /\ \A n \in Names : cur'[i].files[n].time = tree[i].files[n].time
        BY <2>1, <2>2, <1>1
    <2>4. ASSUME NEW i \in DOMAIN tree, i \notin DOMAIN cur', rounds # 0
          PROVE  \E q \in Prefixes(tree[i].path) : q \in queue'
        <3>1. PICK q \in Prefixes(tree[i].path) : q \in queue
            BY <2>1, <2>4, <1>1
        <3>2. CASE q # p
            BY <3>1, <3>2, <1>4
        <3>3. CASE q = p
            <4>1. tree[i].path # p
                BY <2>1, <2>4, <1>2, SameDir
            <4>2. tree[i].path \in Seq(STRING)
                BY <1>2, AtPlace, PathsClosed
            <4>3. PICK c \in Prefixes(tree[i].path) : c # <<>> /\ Parent(c) = p
                BY <3>1, <3>3, <4>1, <4>2, PathFacts
            <4>4. PICK k \in DOMAIN tree : tree[k].path = c
                BY <4>3, <1>2 DEF Closed, DirsAt
            <4>5. c \in Subdirs(p)
                BY <4>3, <4>4 DEF Subdirs
            <4> QED BY <4>3, <4>5, <1>4
        <3> QED BY <3>2, <3>3
    <2> QED BY <2>3, <2>4
<1> QED BY <1>3, <1>4 DEF VisitedWell

LEMMA ScanDirKeeps ==
    ASSUME OnePlace, Inv, NEW p \in queue, ScanDir(p)
    PROVE  Inv'
<1>1. /\ phase = "scan" /\ Visited(p)
      /\ scanFault' \in BOOLEAN /\ faults' \in 0 .. MaxFaults
      /\ ~scanFault' => ~scanFault /\ VisitedWell(p)
      /\ UNCHANGED <<tree, version, second, edited, phase, prev, rounds, plan, jobs, open,
                     deletes, doomed, target, suspect>>
    BY ScanDirVisits
<1>2. plan = <<>> /\ jobs = {} /\ open = <<>> /\ deletes = {} /\ doomed = {} /\ DOMAIN <<>> = {}
    BY <1>1 DEF Inv, Stages
<1>3. /\ queue' \subseteq Paths /\ PlacedIn(cur') /\ Is(cur', Record)
      /\ \A i \in DOMAIN cur', n \in Names : cur'[i].files[n].time = 0 => cur'[i].files[n] = Absent
    BY <1>1, VisitedTypes
<1>4. TypeOK'
    BY <1>1, <1>3 DEF Inv, TypeOK, Is
<1>5. Placed' /\ Genuine'
    BY <1>1, <1>3 DEF Inv, Placed, Genuine, PlacedIn, Absent
<1>6. AllNested'
    BY <1>1, VisitedNests
<1>7. Stages'
    BY <1>1, <1>2 DEF Stages
<1>8. Tasks'
    <2>1. \A q, n : ~Planned(q, n)'
        BY <1>1, <1>2 DEF Planned
    <2> QED BY <2>1, <1>1, <1>2 DEF Tasks
<1>9. FilesRight'
    <2>1. \A q, n : Right(prev, q, n) => Right(prev, q, n)'
        BY <1>1 DEF Right, InScan, InTree, InTarget, DirsAt
    <2> QED BY <2>1, <1>1 DEF Inv, FilesRight
<1>10. DirsRight'
    <2>1. \A q : Listed(prev, q) => Listed(prev, q)'
        BY <1>1 DEF Listed, DirsAt
    <2> QED BY <2>1, <1>1 DEF Inv, DirsRight
<1>11. Exact'
    BY <1>1, VisitedExact DEF Exact
<1>12. TimesKept'
    BY <1>1 DEF TimesKept
<1> QED BY <1>4, <1>5, <1>6, <1>7, <1>8, <1>9, <1>10, <1>11, <1>12 DEF Inv
-----------------------------------------------------------------------------
(* The diff, with at most one cache unread.                                *)
LEMMA PlanBackupDiffs ==
    ASSUME Inv, PlanBackup
    PROVE  /\ phase = "scan" /\ queue = {} /\ phase' = "copy"
           /\ UNCHANGED <<tree, version, second, edited, queue, prev, cur, scanFault, rounds, jobs, open, target>>
           /\ faults' \in 0 .. MaxFaults
           /\ suspect \subseteq suspect'
           /\ \E unread \in SUBSET DOMAIN cur :
                 /\ Diff(unread)
                 /\ \A i \in unread : Entries(cur[i].path) \subseteq suspect'
                 /\ suspect' \subseteq suspect \cup UNION {Entries(cur[i].path) : i \in unread}
<1>1. faults \in 0 .. MaxFaults /\ MaxFaults \in Nat
    BY BoundsAssumption DEF Inv, TypeOK
<1>2. /\ phase = "scan" /\ queue = {} /\ phase' = "copy"
      /\ UNCHANGED <<tree, version, second, edited, queue, prev, cur, scanFault, rounds, jobs, open, target>>
    BY DEF PlanBackup, sourceVars, scanVars
<1>3. CASE Diff({}) /\ UNCHANGED historyVars
    BY <1>1, <1>2, <1>3 DEF historyVars
<1>4. CASE \E i \in DOMAIN cur :
              Fault /\ Diff({i}) /\ suspect' = suspect \cup Entries(cur[i].path)
    <2>1. PICK i \in DOMAIN cur : Fault /\ Diff({i}) /\ suspect' = suspect \cup Entries(cur[i].path)
        BY <1>4
    <2>2. faults' \in 0 .. MaxFaults
        BY <2>1, <1>1 DEF Fault
    <2> QED BY <2>1, <2>2, <1>2
<1> QED BY <1>3, <1>4 DEF PlanBackup

LEMMA DiffPlans ==
    ASSUME OnePlace, Inv, NEW unread \in SUBSET DOMAIN cur, Diff(unread)
    PROVE  /\ plan' \in Seq([dir : Inodes, files : SUBSET Names])
           /\ \A k \in DOMAIN plan' :
                 plan'[k].dir \in DOMAIN cur /\ plan'[k].files = ToCopy(plan'[k].dir, unread)
           /\ \A i \in DOMAIN cur : HasEntry(i, unread) => \E k \in DOMAIN plan' : plan'[k].dir = i
<1> DEFINE entries == {i \in DOMAIN cur : HasEntry(i, unread)}
<1>1. PICK order \in Ascending(entries) :
        plan' = [k \in DOMAIN order |-> [dir |-> order[k], files |-> ToCopy(order[k], unread)]]
    BY DEF Diff
<1>2. DOMAIN cur \subseteq Inodes
    BY TypesOfInv DEF PlacedIn
<1>3. IsFiniteSet(entries)
    BY <1>2, TreeAssumption, FS_Subset
<1> DEFINE N == Cardinality(entries)
<1>4. N \in Nat
    BY <1>3, FS_CardinalityType
<1>5. order \in [1 .. N -> entries] /\ \A i \in entries : \E k \in 1 .. N : order[k] = i
    BY DEF Ascending, Surjection
<1> HIDE DEF N, entries
<1>6. entries \subseteq DOMAIN cur /\ \A i \in DOMAIN cur : HasEntry(i, unread) => i \in entries
    BY DEF entries
<1>7. \A i : ToCopy(i, unread) \subseteq Names
    BY DEF ToCopy
<1>8. DOMAIN plan' = 1 .. N
      /\ \A k \in 1 .. N : plan'[k] = [dir |-> order[k], files |-> ToCopy(order[k], unread)]
    BY <1>1, <1>5
<1>9. \A k \in 1 .. N : plan'[k] \in [dir : Inodes, files : SUBSET Names]
    BY <1>2, <1>5, <1>6, <1>7, <1>8
<1>10. plan' \in Seq([dir : Inodes, files : SUBSET Names])
    <2>1. plan' \in [1 .. N -> [dir : Inodes, files : SUBSET Names]]
        BY <1>1, <1>5, <1>8, <1>9
    <2>2. \A S : [1 .. N -> S] \subseteq Seq(S)
        BY <1>4, SeqDef
    <2> QED BY <2>1, <2>2
<1> QED BY <1>5, <1>6, <1>8, <1>10

(* The directory at a path in the two scans is the same.                   *)
LEMMA TwoScans ==
    ASSUME OnePlace, Inv, NEW p \in Paths
    PROVE  /\ \A i \in DOMAIN cur : cur[i].path = p =>
                 /\ DirsAt(cur, p) = {i} /\ \A n : InScan(cur, p, n) = cur[i].files[n]
                 /\ i \in DOMAIN prev => prev[i].path = p /\ \A n : InScan(prev, p, n) = prev[i].files[n]
                 /\ i \notin DOMAIN prev => DirsAt(prev, p) = {} /\ \A n : InScan(prev, p, n) = Absent
                 /\ \A j \in DOMAIN cur : cur[j].path = p => j = i
           /\ \A i \in DOMAIN prev : prev[i].path = p /\ DirsAt(cur, p) = {} => i \notin DOMAIN cur
<1>1. PlacedIn(prev) /\ PlacedIn(cur)
    BY TypesOfInv
<1>2. ASSUME NEW i \in DOMAIN cur, cur[i].path = p
      PROVE  /\ DirsAt(cur, p) = {i} /\ \A n : InScan(cur, p, n) = cur[i].files[n]
             /\ i \in DOMAIN prev => prev[i].path = p /\ \A n : InScan(prev, p, n) = prev[i].files[n]
             /\ i \notin DOMAIN prev => DirsAt(prev, p) = {} /\ \A n : InScan(prev, p, n) = Absent
             /\ \A j \in DOMAIN cur : cur[j].path = p => j = i
    <2>1. DirsAt(cur, p) = {i} /\ \A n : InScan(cur, p, n) = cur[i].files[n]
        BY <1>1, <1>2, AtPlace
    <2>2. \A j \in DOMAIN prev : prev[j].path = p <=> j = i
        BY <1>1, <1>2, SameDir
    <2>3. i \in DOMAIN prev => prev[i].path = p /\ \A n : InScan(prev, p, n) = prev[i].files[n]
        BY <2>2, <1>1, AtPlace
    <2>4. i \notin DOMAIN prev => DirsAt(prev, p) = {}
        BY <2>2 DEF DirsAt
    <2>5. \A j \in DOMAIN cur : cur[j].path = p => j = i
        BY <1>1, <1>2, SameDir
    <2> QED BY <2>1, <2>3, <2>4, <2>5, NotThere
<1>3. ASSUME NEW i \in DOMAIN prev, prev[i].path = p, DirsAt(cur, p) = {} PROVE i \notin DOMAIN cur
    BY <1>1, <1>3, SameDir DEF DirsAt
<1> QED BY <1>2, <1>3

(* What the diff decides about a file of a directory there is.             *)
LEMMA DiffOfFile ==
    ASSUME OnePlace, Inv, NEW unread \in SUBSET DOMAIN cur, Diff(unread),
           NEW i \in DOMAIN cur, NEW p \in Paths, cur[i].path = p, NEW n \in Names
    PROVE  /\ n \in ToCopy(i, unread) => /\ InScan(cur, p, n) # Absent /\ Changed(p, n)
                                         /\ \E k \in DOMAIN plan' : plan'[k].dir = i /\ n \in plan'[k].files
           /\ <<p, n>> \in deletes' => n \notin ToCopy(i, unread)
           /\ <<p, n>> \in deletes' /\ i \notin unread => InScan(cur, p, n) = Absent /\ Changed(p, n)
           /\ i \in unread \/ n \in ToCopy(i, unread) \/ <<p, n>> \in deletes' \/ ~Changed(p, n)
<1>1. /\ DirsAt(cur, p) = {i} /\ InScan(cur, p, n) = cur[i].files[n]
      /\ i \in DOMAIN prev => prev[i].path = p /\ InScan(prev, p, n) = prev[i].files[n]
      /\ i \notin DOMAIN prev => InScan(prev, p, n) = Absent
      /\ \A j \in DOMAIN cur : cur[j].path = p => j = i
    BY TwoScans
<1>2. Listing(i, unread)[n] = IF i \in unread THEN Absent ELSE cur[i].files[n]
    BY DEF Listing
<1>3. n \in ToCopy(i, unread) <=> /\ Listing(i, unread)[n] # Absent
                                  /\ i \in DOMAIN prev => prev[i].files[n] # Listing(i, unread)[n]
    BY DEF ToCopy
<1>4. n \in ToDelete(i, unread) <=> prev[i].files[n] # Absent /\ Listing(i, unread)[n] = Absent
    BY DEF ToDelete
<1>5. <<p, n>> \in deletes' <=> i \in DOMAIN prev /\ n \in ToDelete(i, unread)
    <2>1. deletes' = UNION {{<<cur[j].path, m>> : m \in ToDelete(j, unread)} : j \in DOMAIN prev \cap DOMAIN cur}
        BY DEF Diff
    <2>2. <<p, n>> \in deletes' <=> \E j \in DOMAIN prev \cap DOMAIN cur : \E m \in ToDelete(j, unread) :
                                      <<p, n>> = <<cur[j].path, m>>
        BY <2>1
    <2> QED BY <2>2, <1>1
<1>6. ASSUME n \in ToCopy(i, unread)
      PROVE  \E k \in DOMAIN plan' : plan'[k].dir = i /\ n \in plan'[k].files
    <2>1. HasEntry(i, unread)
        BY <1>6 DEF HasEntry
    <2> QED BY <2>1, <1>6, DiffPlans
<1> QED BY <1>1, <1>2, <1>3, <1>4, <1>5, <1>6 DEF Changed

LEMMA PlanBackupKeepsFiles ==
    ASSUME OnePlace, Inv, PlanBackup
    PROVE  Tasks' /\ FilesRight' /\ DirsRight'
<1>1. /\ phase = "scan" /\ queue = {} /\ phase' = "copy"
      /\ UNCHANGED <<tree, version, second, edited, queue, prev, cur, scanFault, rounds, jobs, open, target>>
      /\ suspect \subseteq suspect'
    BY PlanBackupDiffs
<1>2. PICK unread \in SUBSET DOMAIN cur :
        /\ Diff(unread)
        /\ \A i \in unread : Entries(cur[i].path) \subseteq suspect'
    BY PlanBackupDiffs
<1>3. jobs = {} /\ open = <<>> /\ DOMAIN open = {}
    BY <1>1 DEF Inv, Stages
<1>4. /\ \A k \in DOMAIN plan' :
            plan'[k].dir \in DOMAIN cur /\ plan'[k].files = ToCopy(plan'[k].dir, unread)
      /\ \A i \in DOMAIN cur : HasEntry(i, unread) => \E k \in DOMAIN plan' : plan'[k].dir = i
    BY <1>2, DiffPlans
<1>5. \A p, n : /\ InScan(prev, p, n)' = InScan(prev, p, n) /\ InScan(cur, p, n)' = InScan(cur, p, n)
                /\ Changed(p, n)' = Changed(p, n)
                /\ InTree(p, n)' = InTree(p, n) /\ InTarget(target, p, n)' = InTarget(target, p, n)
    BY <1>1 DEF InScan, DirsAt, Changed, InTree, InTarget
<1>6. \A p : /\ DirsAt(prev, p)' = DirsAt(prev, p) /\ DirsAt(cur, p)' = DirsAt(cur, p)
             /\ Listed(prev, p)' = Listed(prev, p) /\ Listed(cur, p)' = Listed(cur, p)
    BY <1>1 DEF Listed, DirsAt
<1>7. \A p, n : /\ Planned(p, n)' <=> \E k \in DOMAIN plan' : cur[plan'[k].dir].path = p /\ n \in plan'[k].files
                /\ PlannedDir(p)' <=> \E k \in DOMAIN plan' : cur[plan'[k].dir].path = p
    BY <1>1 DEF Planned, PlannedDir
<1>8. doomed' = {prev[i].path : i \in DOMAIN prev \ DOMAIN cur}
    BY <1>2 DEF Diff
<1>9. PlacedIn(prev) /\ PlacedIn(cur)
    BY TypesOfInv
<1>10. \A p \in doomed' : DirsAt(prev, p) # {} /\ DirsAt(cur, p) = {}
    <2> SUFFICES ASSUME NEW i \in DOMAIN prev \ DOMAIN cur, NEW p, p = prev[i].path
                 PROVE  DirsAt(prev, p) # {} /\ DirsAt(cur, p) = {}
        BY <1>8
    <2>1. \A j \in DOMAIN cur : cur[j].path # p
        BY <1>9, SameDir
    <2> QED BY <2>1 DEF DirsAt
<1>11. ASSUME NEW p \in Paths, DirsAt(prev, p) # {}, DirsAt(cur, p) = {}
       PROVE  p \in doomed'
    <2>1. PICK i \in DOMAIN prev : prev[i].path = p
        BY <1>11 DEF DirsAt
    <2>2. i \notin DOMAIN cur
        BY <2>1, <1>11, TwoScans
    <2> QED BY <2>1, <2>2, <1>8
<1>12. Tasks'
    <2>1. ASSUME NEW p \in Paths, NEW n \in Names, Planned(p, n)'
          PROVE  InScan(cur, p, n) # Absent /\ Changed(p, n) /\ <<p, n>> \notin deletes'
        <3>1. PICK k \in DOMAIN plan' : cur[plan'[k].dir].path = p /\ n \in plan'[k].files
            BY <2>1, <1>7
        <3> DEFINE i == plan'[k].dir
        <3>2. i \in DOMAIN cur /\ cur[i].path = p /\ n \in ToCopy(i, unread)
            BY <3>1, <1>4
        <3> HIDE DEF i
        <3> QED BY <3>2, <1>2, DiffOfFile
    <2>2. ASSUME NEW p \in Paths, NEW n \in Names, <<p, n>> \in deletes'
          PROVE  <<p, n>> \in suspect' \/ (InScan(cur, p, n) = Absent /\ Changed(p, n))
        <3>1. deletes' = UNION {{<<cur[j].path, m>> : m \in ToDelete(j, unread)} : j \in DOMAIN prev \cap DOMAIN cur}
            BY <1>2 DEF Diff
        <3>2. PICK i \in DOMAIN cur : cur[i].path = p
            BY <2>2, <3>1
        <3>3. i \notin unread => InScan(cur, p, n) = Absent /\ Changed(p, n)
            BY <3>2, <2>2, <1>2, DiffOfFile
        <3>4. i \in unread => <<p, n>> \in suspect'
            BY <3>2, <1>2 DEF Entries
        <3> QED BY <3>3, <3>4
    <2> QED BY <2>1, <2>2, <1>1, <1>3, <1>4, <1>5, <1>6, <1>10 DEF Tasks, Absent
<1>13. FilesRight'
    <2> SUFFICES ASSUME NEW p \in Paths, NEW n \in Names, <<p, n>> \notin suspect'
                 PROVE  Pending(p, n)' \/ Right(cur, p, n)'
        BY <1>1 DEF FilesRight
    <2>1. Right(prev, p, n)
        BY <1>1 DEF Inv, FilesRight
    <2>2. ~Changed(p, n) => Right(cur, p, n)'
        BY <2>1, <1>5 DEF Right, Changed, Absent
    <2>3. CASE DirsAt(cur, p) = {} /\ DirsAt(prev, p) = {}
        BY <2>2, <2>3, NotThere DEF Changed
    <2>4. CASE DirsAt(cur, p) = {} /\ DirsAt(prev, p) # {}
        <3>1. p \in doomed'
            BY <2>4, <1>11
        <3>2. InScan(prev, p, n) = Absent => InTarget(target, p, n) = NoData
            BY <2>1 DEF Right
        <3> QED BY <3>1, <3>2, <1>5 DEF Pending, Absent
    <2>5. CASE DirsAt(cur, p) # {}
        <3>1. PICK i \in DOMAIN cur : cur[i].path = p
            BY <2>5 DEF DirsAt
        <3>2. i \notin unread
            BY <3>1, <1>2 DEF Entries
        <3>3. n \in ToCopy(i, unread) \/ <<p, n>> \in deletes' \/ ~Changed(p, n)
            BY <3>1, <3>2, <1>2, DiffOfFile
        <3>4. n \in ToCopy(i, unread) => Planned(p, n)'
            <4>1. n \in ToCopy(i, unread) => \E k \in DOMAIN plan' : plan'[k].dir = i /\ n \in plan'[k].files
                BY <3>1, <1>2, DiffOfFile
            <4> QED BY <4>1, <3>1, <1>7
        <3> QED BY <3>3, <3>4, <2>2 DEF Pending
    <2> QED BY <2>3, <2>4, <2>5
<1>14. DirsRight'
    <2> SUFFICES ASSUME NEW p \in Paths, <<p, "dir">> \notin suspect'
                 PROVE  PlannedDir(p)' \/ p \in doomed' \/ Listed(cur, p)'
        BY <1>1 DEF DirsRight
    <2>1. Listed(prev, p)
        BY <1>1 DEF Inv, DirsRight
    <2>2. (DirsAt(prev, p) = {} <=> DirsAt(cur, p) = {}) => Listed(cur, p)'
        BY <2>1, <1>6 DEF Listed
    <2>3. DirsAt(prev, p) # {} /\ DirsAt(cur, p) = {} => p \in doomed'
        BY <1>11
    <2>4. ASSUME DirsAt(prev, p) = {}, DirsAt(cur, p) # {} PROVE PlannedDir(p)'
        <3>1. PICK i \in DOMAIN cur : cur[i].path = p
            BY <2>4 DEF DirsAt
        <3>2. i \notin DOMAIN prev
            BY <3>1, <2>4, TwoScans DEF DirsAt
        <3>3. HasEntry(i, unread)
            BY <3>2 DEF HasEntry
        <3> QED BY <3>1, <3>3, <1>4, <1>7
    <2> QED BY <2>2, <2>3, <2>4
<1> QED BY <1>12, <1>13, <1>14

LEMMA PlanBackupKeeps ==
    ASSUME OnePlace, Inv, PlanBackup
    PROVE  Inv'
<1>1. /\ phase = "scan" /\ queue = {} /\ phase' = "copy"
      /\ UNCHANGED <<tree, version, second, edited, queue, prev, cur, scanFault, rounds, jobs, open, target>>
      /\ faults' \in 0 .. MaxFaults
      /\ suspect \subseteq suspect'
    BY PlanBackupDiffs
<1>2. PICK unread \in SUBSET DOMAIN cur :
        /\ Diff(unread)
        /\ suspect' \subseteq suspect \cup UNION {Entries(cur[i].path) : i \in unread}
    BY PlanBackupDiffs
<1>3. /\ PlacedIn(prev) /\ PlacedIn(cur)
      /\ \A i \in DOMAIN cur : cur[i].path \in Paths
      /\ \A i \in DOMAIN prev : prev[i].path \in Paths
    BY TypesOfInv, AtPlace
<1>4. TypeOK'
    <2>1. plan' \in Seq([dir : Inodes, files : SUBSET Names])
        BY <1>2, DiffPlans
    <2>2. deletes' \subseteq Paths \X Names
        <3>1. deletes' = UNION {{<<cur[j].path, m>> : m \in ToDelete(j, unread)} : j \in DOMAIN prev \cap DOMAIN cur}
            BY <1>2 DEF Diff
        <3>2. \A j : ToDelete(j, unread) \subseteq Names
            BY DEF ToDelete
        <3> QED BY <3>1, <3>2, <1>3
    <2>3. doomed' \subseteq Paths
        BY <1>2, <1>3 DEF Diff
    <2>4. suspect' \subseteq Paths \X (Names \cup {"dir", "times"})
        BY <1>2, <1>3 DEF Entries, Inv, TypeOK
    <2> QED BY <2>1, <2>2, <2>3, <2>4, <1>1 DEF Inv, TypeOK, Is
<1>5. Placed' /\ Genuine'
    BY <1>1 DEF Inv, Placed, Genuine, Absent
<1>6. AllNested'
    BY <1>1 DEF Inv, AllNested, Closed, DirsAt
<1>7. Stages'
    BY <1>1 DEF Stages
<1>8. Tasks' /\ FilesRight' /\ DirsRight'
    BY PlanBackupKeepsFiles
<1>9. Exact'
    BY <1>1 DEF Inv, Exact
<1>10. TimesKept'
    BY <1>1 DEF TimesKept
<1> QED BY <1>4, <1>5, <1>6, <1>7, <1>8, <1>9, <1>10 DEF Inv
-----------------------------------------------------------------------------
(* Copying.                                                                *)
LEMMA HeadIsFirst ==
    ASSUME NEW S, NEW s \in Seq(S), s # <<>>
    PROVE  1 \in DOMAIN s /\ Head(s) = s[1] /\ s[1] \in S
<1>1. 1 \in DOMAIN s
    OBVIOUS
<1>2. s[1] \in S
    BY <1>1, ElementOfSeq
<1> QED BY <1>1, <1>2

LEMMA ProduceDirMakes ==
    ASSUME OnePlace, Inv, ProduceDir
    PROVE  \E i \in DOMAIN cur, p \in Paths :
              /\ i = Head(plan).dir /\ cur[i].path = p /\ plan # <<>> /\ plan' = Tail(plan)
              /\ phase = "copy" /\ jobs' = jobs \cup {<<p, n>> : n \in Head(plan).files}
              /\ Head(plan).files \subseteq Names
              /\ IsTarget(target') /\ faults' \in 0 .. MaxFaults
              /\ \A q, n : n \in Names => InTarget(target', q, n) = InTarget(target, q, n)
              /\ \/ /\ DOMAIN target' = DOMAIN target \cup Prefixes(p)
                    /\ suspect' = suspect \ {<<p, "dir">>}
                 \/ target' = target /\ suspect' = suspect \cup {<<p, "dir">>}
<1> DEFINE i == Head(plan).dir
           p == cur[i].path
           t == WithDir(target, p)
           u == [t EXCEPT ![p].stamp = cur[i].stamp]
<1>1. /\ phase = "copy" /\ plan # <<>> /\ plan' = Tail(plan)
      /\ jobs' = jobs \cup {<<p, n>> : n \in Head(plan).files}
      /\ \/ target' = u /\ suspect' = suspect \ {<<p, "dir">>} /\ UNCHANGED faults
         \/ Fault /\ suspect' = suspect \cup {<<p, "dir">>} /\ UNCHANGED target
    BY DEF ProduceDir
<1>2. plan \in Seq([dir : Inodes, files : SUBSET Names])
    BY DEF Inv, TypeOK
<1>3. 1 \in DOMAIN plan /\ Head(plan) = plan[1] /\ plan[1] \in [dir : Inodes, files : SUBSET Names]
    BY <1>1, <1>2, HeadIsFirst
<1>4. i \in DOMAIN cur
    BY <1>3 DEF Inv, Tasks
<1>5. p \in Paths /\ cur[i].stamp \in 0 .. MaxVersion
    BY <1>4, TypesOfInv, AtPlace DEF Record, Times
<1>6. Head(plan).files \subseteq Names
    BY <1>3
<1> HIDE DEF i
<1>7. /\ IsTarget(t) /\ DOMAIN t = DOMAIN target \cup Prefixes(p)
      /\ \A q, n : n \in Names => InTarget(t, q, n) = InTarget(target, q, n)
    BY <1>5, TypesOfInv, WithDirMakes
<1>8. p \in Prefixes(p)
    BY <1>5, PathsClosed, PathFacts
<1> HIDE DEF t
<1>9. /\ DOMAIN u = DOMAIN t /\ p \in DOMAIN t
      /\ \A q \in DOMAIN t : q # p => u[q] = t[q]
      /\ u[p] = [t[p] EXCEPT !.stamp = cur[i].stamp]
    BY <1>7, <1>8
<1> HIDE DEF u
<1>10. \A q \in DOMAIN t : t[q] \in Item
    BY <1>7 DEF IsTarget
<1>11. u[p] \in Item /\ u[p].files = t[p].files
    BY <1>5, <1>9, <1>10 DEF Item
<1>12. IsTarget(u) /\ SameContent(t, u)
    BY <1>7, <1>9, <1>10, <1>11 DEF IsTarget, SameContent
<1>13. \A q, n : InTarget(u, q, n) = InTarget(t, q, n)
    BY <1>12, SameContentFiles
<1>14. faults' \in 0 .. MaxFaults
    <2>1. faults \in 0 .. MaxFaults /\ MaxFaults \in Nat
        BY BoundsAssumption DEF Inv, TypeOK
    <2> QED BY <2>1, <1>1 DEF Fault
<1>15. CASE target' = u /\ suspect' = suspect \ {<<p, "dir">>}
    BY <1>1, <1>4, <1>5, <1>6, <1>7, <1>9, <1>12, <1>13, <1>14, <1>15 DEF i
<1>16. CASE target' = target /\ suspect' = suspect \cup {<<p, "dir">>}
    BY <1>1, <1>4, <1>5, <1>6, <1>14, <1>16, TypesOfInv DEF i
<1> QED BY <1>1, <1>15, <1>16

LEMMA ProduceDirKeeps ==
    ASSUME OnePlace, Inv, ProduceDir
    PROVE  Inv'
<1>1. PICK i \in DOMAIN cur, p \in Paths :
              /\ i = Head(plan).dir /\ cur[i].path = p /\ plan # <<>> /\ plan' = Tail(plan)
              /\ phase = "copy" /\ jobs' = jobs \cup {<<p, n>> : n \in Head(plan).files}
              /\ Head(plan).files \subseteq Names
              /\ IsTarget(target') /\ faults' \in 0 .. MaxFaults
              /\ \A q, n : n \in Names => InTarget(target', q, n) = InTarget(target, q, n)
              /\ \/ /\ DOMAIN target' = DOMAIN target \cup Prefixes(p)
                    /\ suspect' = suspect \ {<<p, "dir">>}
                 \/ target' = target /\ suspect' = suspect \cup {<<p, "dir">>}
    BY ProduceDirMakes
<1>2. UNCHANGED <<tree, version, second, edited, phase, queue, prev, cur, scanFault, rounds, open, deletes, doomed>>
    BY DEF ProduceDir, sourceVars, scanVars, deleteVars
<1>3. plan \in Seq([dir : Inodes, files : SUBSET Names])
    BY DEF Inv, TypeOK
<1>4. /\ plan' \in Seq([dir : Inodes, files : SUBSET Names])
      /\ 1 \in DOMAIN plan /\ Head(plan) = plan[1]
      /\ \A k \in DOMAIN plan' : k + 1 \in DOMAIN plan /\ plan'[k] = plan[k + 1]
      /\ \A k \in DOMAIN plan : k = 1 \/ (k - 1 \in DOMAIN plan' /\ plan'[k - 1] = plan[k])
    BY <1>1, <1>3
<1>5. \A q, n : /\ InScan(prev, q, n)' = InScan(prev, q, n) /\ InScan(cur, q, n)' = InScan(cur, q, n)
                /\ Changed(q, n)' = Changed(q, n) /\ InTree(q, n)' = InTree(q, n)
    BY <1>2 DEF InScan, DirsAt, Changed, InTree
<1>6. \A q : DirsAt(prev, q)' = DirsAt(prev, q) /\ DirsAt(cur, q)' = DirsAt(cur, q)
    BY <1>2 DEF DirsAt
<1>7. \A n \in Names : \A q : InTarget(target, q, n)' = InTarget(target, q, n)
    BY <1>1 DEF InTarget
<1>8. \A q, n : Planned(q, n)' => Planned(q, n)
    BY <1>2, <1>4 DEF Planned
<1>9. \A q, n : Planned(q, n) => Planned(q, n)' \/ <<q, n>> \in jobs'
    <2> SUFFICES ASSUME NEW q, NEW n, NEW k \in DOMAIN plan, cur[plan[k].dir].path = q, n \in plan[k].files
                 PROVE  Planned(q, n)' \/ <<q, n>> \in jobs'
        BY Zenon DEF Planned
    <2>1. CASE k = 1
        BY <2>1, <1>1, <1>4
    <2>2. CASE k # 1
        BY <2>2, <1>2, <1>4 DEF Planned
    <2> QED BY <2>1, <2>2
<1>10. \A q : PlannedDir(q) => q = p \/ PlannedDir(q)'
    <2> SUFFICES ASSUME NEW q, NEW k \in DOMAIN plan, cur[plan[k].dir].path = q, q # p
                 PROVE  PlannedDir(q)'
        BY Zenon DEF PlannedDir
    <2>1. k # 1
        BY <1>1, <1>4
    <2> QED BY <2>1, <1>2, <1>4 DEF PlannedDir
<1>11. \A q, n : <<q, n>> \in jobs' => <<q, n>> \in jobs \/ Planned(q, n)
    <2> SUFFICES ASSUME NEW n \in Head(plan).files PROVE Planned(p, n)
        BY <1>1
    <2> QED BY <1>1, <1>4 DEF Planned
<1>12. jobs' \subseteq Paths \X Names
    BY <1>1 DEF Inv, TypeOK
<1>13. \A q, n : n \in Names => (<<q, n>> \in suspect' <=> <<q, n>> \in suspect)
    BY <1>1, TreeAssumption
<1>14. TypeOK'
    <2>1. suspect' \subseteq Paths \X (Names \cup {"dir", "times"})
        BY <1>1 DEF Inv, TypeOK
    <2> QED BY <2>1, <1>1, <1>2, <1>4, <1>12 DEF Inv, TypeOK, IsTarget, Item
<1>15. Placed' /\ Genuine'
    BY <1>2 DEF Inv, Placed, Genuine, Absent
<1>16. AllNested'
    BY <1>2 DEF Inv, AllNested, Closed, DirsAt
<1>17. Stages'
    BY <1>1, <1>2 DEF Inv, Stages
<1>18. Tasks'
    <2>1. \A k \in DOMAIN plan' : plan'[k].dir \in DOMAIN cur'
        BY <1>2, <1>4 DEF Inv, Tasks
    <2>2. \A q \in Paths, n \in Names : <<q, n>> \in suspect => <<q, n>> \in suspect'
        BY <1>13
    <2> QED BY <2>1, <2>2, <1>2, <1>5, <1>6, <1>7, <1>8, <1>11 DEF Inv, Tasks, Absent, Torn
<1>19. FilesRight'
    <2>1. \A q, n : n \in Names => (Right(cur, q, n) => Right(cur, q, n)')
        BY <1>5, <1>7 DEF Right, Absent
    <2>2. \A q, n : n \in Names => (Pending(q, n) => Pending(q, n)')
        <3> SUFFICES ASSUME NEW q, NEW n \in Names, Pending(q, n) PROVE Pending(q, n)'
            OBVIOUS
        <3>1. Planned(q, n) \/ <<q, n>> \in jobs => Planned(q, n)' \/ <<q, n>> \in jobs'
            BY <1>1, <1>9
        <3> QED BY <3>1, <1>2, <1>5, <1>7 DEF Pending, Absent
    <2> QED BY <2>1, <2>2, <1>1, <1>2, <1>13 DEF Inv, FilesRight
<1>20. DirsRight'
    <2> SUFFICES ASSUME NEW q \in Paths, <<q, "dir">> \notin suspect'
                 PROVE  PlannedDir(q)' \/ q \in doomed \/ Listed(cur, q)'
        BY <1>1, <1>2 DEF DirsRight
    <2>1. \A r \in Prefixes(p) : DirsAt(cur, r) # {}
        BY <1>1 DEF Inv, AllNested, Closed
    <2>2. CASE q = p
        <3>1. p \in DOMAIN target' /\ DirsAt(cur, p) # {}
            BY <2>1, <2>2, <1>1, PathsClosed, PathFacts
        <3> QED BY <2>2, <3>1, <1>6 DEF Listed
    <2>3. CASE q # p
        <3>1. PlannedDir(q) \/ q \in doomed \/ Listed(cur, q)
            BY <2>3, <1>1 DEF Inv, DirsRight
        <3>2. Listed(cur, q) => Listed(cur, q)'
            BY <2>1, <1>1, <1>6 DEF Listed
        <3> QED BY <2>3, <3>1, <3>2, <1>10
    <2> QED BY <2>2, <2>3
<1>21. Exact'
    BY <1>2 DEF Inv, Exact
<1>22. TimesKept'
    BY <1>1, <1>2 DEF TimesKept
<1> QED BY <1>14, <1>15, <1>16, <1>17, <1>18, <1>19, <1>20, <1>21, <1>22 DEF Inv

(* Opening a source file may mark it as read, and changes nothing else.    *)
SameTree ==
    /\ DOMAIN tree' = DOMAIN tree
    /\ \A i \in DOMAIN tree :
          /\ tree'[i] \in Dir /\ tree'[i].path = tree[i].path
          /\ \A n \in Names :
                /\ tree'[i].files[n].data = tree[i].files[n].data
                /\ tree'[i].files[n].time = tree[i].files[n].time
                /\ tree[i].files[n] = NoFile => tree'[i].files[n] = NoFile

LEMMA ReadingKeeps ==
    ASSUME OnePlace, Inv, NEW p \in Paths, NEW n \in Names, InTree(p, n) # NoFile,
           tree' \in {tree, [i \in DOMAIN tree |-> IF tree[i].path # p THEN tree[i]
                                                   ELSE [tree[i] EXCEPT !.files[n].read = TRUE]]}
    PROVE  SameTree
<1>1. PlacedIn(tree) /\ \A i \in DOMAIN tree : tree[i] \in Dir
    BY TypesOfInv
<1>2. CASE tree' = tree
    BY <1>1, <1>2 DEF SameTree
<1>3. ASSUME tree' = [i \in DOMAIN tree |-> IF tree[i].path # p THEN tree[i]
                                            ELSE [tree[i] EXCEPT !.files[n].read = TRUE]]
      PROVE  SameTree
    <2> SUFFICES ASSUME NEW i \in DOMAIN tree
                 PROVE  /\ tree'[i] \in Dir /\ tree'[i].path = tree[i].path
                        /\ \A k \in Names :
                              /\ tree'[i].files[k].data = tree[i].files[k].data
                              /\ tree'[i].files[k].time = tree[i].files[k].time
                              /\ tree[i].files[k] = NoFile => tree'[i].files[k] = NoFile
        BY <1>3 DEF SameTree
    <2>1. CASE tree[i].path # p
        BY <2>1, <1>1, <1>3
    <2>2. CASE tree[i].path = p
        <3>1. tree'[i] = [tree[i] EXCEPT !.files[n].read = TRUE]
            BY <2>2, <1>3
        <3>2. tree[i] \in Dir
            BY <1>1
        <3>3. tree'[i].files = [tree[i].files EXCEPT ![n].read = TRUE]
              /\ tree'[i].path = tree[i].path /\ tree'[i].stamp = tree[i].stamp
              /\ tree'[i] = [path |-> tree[i].path, stamp |-> tree[i].stamp, files |-> tree'[i].files]
            BY <3>1, <3>2 DEF Dir
        <3>4. tree[i].files \in [Names -> Files] /\ tree[i].files[n] \in Files
            BY <3>2 DEF Dir
        <3>5. \A k \in Names : k # n => tree'[i].files[k] = tree[i].files[k]
            BY <3>3, <3>4
        <3>6. tree'[i].files[n] = [tree[i].files[n] EXCEPT !.read = TRUE]
            BY <3>3, <3>4
        <3>7. /\ tree'[i].files[n] \in Files
              /\ tree'[i].files[n].data = tree[i].files[n].data
              /\ tree'[i].files[n].time = tree[i].files[n].time
            BY <3>4, <3>6 DEF Files
        <3>8. tree'[i].files \in [Names -> Files]
            BY <3>3, <3>4, <3>5, <3>7
        <3>9. tree'[i] \in Dir
            BY <3>2, <3>3, <3>8 DEF Dir
        <3>10. tree[i].files[n] # NoFile
            BY <2>2, <1>1, TreeAt, InTreeIs
        <3> QED BY <3>3, <3>5, <3>7, <3>9, <3>10
    <2> QED BY <2>1, <2>2
<1> QED BY <1>2, <1>3

LEMMA SameTreeFiles ==
    ASSUME OnePlace, Inv, SameTree
    PROVE  /\ PlacedIn(tree') /\ Is(tree', Dir) /\ Root \in DOMAIN tree' /\ Closed(tree')
           /\ \A i, j \in DOMAIN tree' : tree'[i].path = tree'[j].path => i = j
           /\ \A i \in DOMAIN tree', n \in Names :
                 tree'[i].files[n] = NoFile \/ (tree'[i].files[n].data # 0 /\ tree'[i].files[n].time # 0)
           /\ \A p \in Paths, n \in Names :
                 InTree(p, n)'.data = InTree(p, n).data /\ InTree(p, n)'.time = InTree(p, n).time
<1>1. PlacedIn(tree) /\ Closed(tree)
    BY TypesOfInv DEF Inv, AllNested
<1>2. DOMAIN tree' = DOMAIN tree /\ \A i \in DOMAIN tree : tree'[i].path = tree[i].path
    BY DEF SameTree
<1>3. PlacedIn(tree') /\ Is(tree', Dir) /\ Root \in DOMAIN tree'
    BY <1>1, <1>2 DEF PlacedIn, SameTree, Is, Inv, Genuine
<1>4. \A i, j \in DOMAIN tree' : tree'[i].path = tree'[j].path => i = j
    BY <1>3, SameDir
<1>5. \A q : DirsAt(tree', q) = DirsAt(tree, q)
    BY <1>2 DEF DirsAt
<1>6. Closed(tree')
    BY <1>1, <1>2, <1>5 DEF Closed
<1>7. ASSUME NEW i \in DOMAIN tree', NEW n \in Names
      PROVE  tree'[i].files[n] = NoFile \/ (tree'[i].files[n].data # 0 /\ tree'[i].files[n].time # 0)
    <2>1. tree[i].files[n] = NoFile \/ (tree[i].files[n].data # 0 /\ tree[i].files[n].time # 0)
        BY <1>2 DEF Inv, Genuine
    <2> QED BY <2>1, <1>2 DEF SameTree
<1>8. ASSUME NEW p \in Paths, NEW n \in Names
      PROVE  InTree(p, n)'.data = InTree(p, n).data /\ InTree(p, n)'.time = InTree(p, n).time
    <2>1. CASE DirsAt(tree, p) = {}
        BY <2>1, <1>1, <1>3, <1>5, TreeAt, InTreeIs
    <2>2. CASE DirsAt(tree, p) # {}
        <3>1. PICK i \in DOMAIN tree : tree[i].path = p
            BY <2>2 DEF DirsAt
        <3>2. InTree(p, n) = tree[i].files[n]
            BY <3>1, <1>1, TreeAt, InTreeIs
        <3>3. InTree(p, n)' = tree'[i].files[n]
            BY <3>1, <1>2, <1>3, TreeAt, InTreeIs
        <3> QED BY <3>2, <3>3 DEF SameTree
    <2> QED BY <2>1, <2>2
<1> QED BY <1>3, <1>4, <1>6, <1>7, <1>8

LEMMA NoFileZero == NoFile.data = NoData /\ NoFile.time = 0 /\ Absent.time = 0 /\ NoData = 0
BY DEF NoFile, NoData, Absent, Hash

(* A file that is of no time is no file.                                   *)
LEMMA InTreeType ==
    ASSUME OnePlace, Inv, NEW p \in Paths, NEW n \in Names
    PROVE  /\ InTree(p, n).data \in 0 .. MaxVersion
           /\ InTree(p, n).time = 0 => InTree(p, n).data = NoData
           /\ InTree(p, n) # NoFile => InTree(p, n).data # 0
<1>1. PlacedIn(tree) /\ \A i \in DOMAIN tree : tree[i] \in Dir
    BY TypesOfInv
<1>2. CASE DirsAt(tree, p) = {}
    <2>1. InTree(p, n) = NoFile
        BY <1>1, <1>2, TreeAt, InTreeIs
    <2> QED BY <2>1, NoFileZero, BoundsAssumption
<1>3. CASE DirsAt(tree, p) # {}
    <2>1. PICK i \in DOMAIN tree : tree[i].path = p
        BY <1>3 DEF DirsAt
    <2>2. InTree(p, n) = tree[i].files[n]
        BY <2>1, <1>1, TreeAt, InTreeIs
    <2>3. tree[i].files[n] \in Files
        BY <2>1, <1>1 DEF Dir
    <2>4. tree[i].files[n] = NoFile \/ (tree[i].files[n].data # 0 /\ tree[i].files[n].time # 0)
        BY <2>1 DEF Inv, Genuine
    <2>5. tree[i].files[n].data \in 0 .. MaxVersion
        BY <2>3 DEF Files
    <2> QED BY <2>2, <2>4, <2>5, NoFileZero
<1> QED BY <1>2, <1>3

(* What a worker does with the file it takes.                              *)
OpenedOne(p, n) ==
    /\ phase = "copy" /\ <<p, n>> \in jobs /\ jobs' = jobs \ {<<p, n>>}
    /\ InScan(cur, p, n) # Absent
    /\ SameTree /\ IsTarget(target')
    /\ suspect \subseteq suspect' /\ suspect' \subseteq suspect \cup {<<p, n>>}
    /\ faults' \in 0 .. MaxFaults
    /\ DOMAIN target' = DOMAIN target \cup Prefixes(p) \/ target' = target
    /\ \A q, k : k \in Names /\ (q # p \/ k # n) => InTarget(target', q, k) = InTarget(target, q, k)
    /\ \/ /\ open' = With(open, <<p, n>>, InTree(p, n).data)
          /\ InTree(p, n).data \in 1 .. MaxVersion
          /\ InTarget(target', p, n) = Torn
       \/ /\ open' = open /\ InTarget(target', p, n) = InTarget(target, p, n)
          /\ InTree(p, n) = NoFile \/ <<p, n>> \in suspect'

LEMMA OpenFileOpens ==
    ASSUME OnePlace, Inv, NEW p \in Paths, NEW n \in Names, OpenFile(<<p, n>>)
    PROVE  OpenedOne(p, n)
<1>1. /\ <<p, n>> \in jobs /\ jobs' = jobs \ {<<p, n>>}
      /\ \/ /\ InTree(p, n) # NoFile
            /\ open' = With(open, <<p, n>>, InTree(p, n).data)
            /\ tree' \in {tree, [i \in DOMAIN tree |-> IF tree[i].path # p THEN tree[i]
                                    ELSE [tree[i] EXCEPT !.files[n].read = TRUE]]}
            /\ target' = WithFile(WithDir(target, p), p, n, Torn)
            /\ UNCHANGED historyVars
         \/ /\ InTree(p, n) = NoFile
            /\ target' = WithDir(target, p)
            /\ UNCHANGED <<tree, open, historyVars>>
         \/ /\ Fault /\ suspect' = suspect \cup {<<p, n>>}
            /\ UNCHANGED <<tree, open, target>>
    BY DEF OpenFile
<1>2. phase = "copy"
    BY <1>1 DEF Inv, Stages
<1>3. InScan(cur, p, n) # Absent
    BY <1>1 DEF Inv, Tasks
<1>4. IsTarget(target) /\ \A i \in DOMAIN tree : tree[i] \in Dir
    BY TypesOfInv
<1>5. faults \in 0 .. MaxFaults /\ MaxFaults \in Nat
    BY BoundsAssumption DEF Inv, TypeOK
<1>6. PICK t : t = WithDir(target, p)
    OBVIOUS
<1>7. /\ IsTarget(t) /\ DOMAIN t = DOMAIN target \cup Prefixes(p)
      /\ \A q, k : k \in Names => InTarget(t, q, k) = InTarget(target, q, k)
    BY <1>4, <1>6, WithDirMakes
<1>8. p \in DOMAIN t
    BY <1>7, PathsClosed, PathFacts
<1>9. Torn \in 0 .. Torn /\ MaxVersion \in Nat
    BY BoundsAssumption DEF Torn
<1>10. ASSUME /\ InTree(p, n) # NoFile
              /\ open' = With(open, <<p, n>>, InTree(p, n).data)
              /\ tree' \in {tree, [i \in DOMAIN tree |-> IF tree[i].path # p THEN tree[i]
                                      ELSE [tree[i] EXCEPT !.files[n].read = TRUE]]}
              /\ target' = WithFile(t, p, n, Torn)
              /\ UNCHANGED historyVars
       PROVE  OpenedOne(p, n)
    <2>1. SameTree
        BY <1>10, ReadingKeeps
    <2>2. PICK u : u = WithFile(t, p, n, Torn)
        OBVIOUS
    <2>3. /\ IsTarget(u) /\ DOMAIN u = DOMAIN t /\ InTarget(u, p, n) = Torn
          /\ \A q, k : k \in Names /\ (q # p \/ k # n) => InTarget(u, q, k) = InTarget(t, q, k)
        <3>1. IsTarget(t) /\ p \in DOMAIN t /\ Torn \in 0 .. Torn
            BY <1>7, <1>8, <1>9
        <3>2. PICK v \in 0 .. Torn : v = Torn
            BY <3>1
        <3>3. u = WithFile(t, p, n, v)
            BY <2>2, <3>2
        <3> QED BY <3>1, <3>2, <3>3, WithFileSets
    <2>4. InTree(p, n).data \in 1 .. MaxVersion
        <3>1. InTree(p, n).data \in 0 .. MaxVersion /\ InTree(p, n).data # 0
            BY <1>10, InTreeType
        <3> QED BY <3>1, <1>9
    <2>5. UNCHANGED <<suspect, faults>>
        BY <1>10 DEF historyVars
    <2> QED BY <2>1, <2>2, <2>3, <2>4, <2>5, <1>1, <1>2, <1>3, <1>5, <1>7, <1>10 DEF OpenedOne
<1>11. ASSUME InTree(p, n) = NoFile, target' = t, UNCHANGED <<tree, open, historyVars>>
       PROVE  OpenedOne(p, n)
    BY <1>1, <1>2, <1>3, <1>4, <1>5, <1>7, <1>11 DEF OpenedOne, SameTree, historyVars
<1>12. ASSUME Fault, suspect' = suspect \cup {<<p, n>>}, UNCHANGED <<tree, open, target>>
       PROVE  OpenedOne(p, n)
    <2>1. faults' \in 0 .. MaxFaults
        BY <1>5, <1>12 DEF Fault
    <2> QED BY <2>1, <1>1, <1>2, <1>3, <1>4, <1>12 DEF OpenedOne, SameTree
<1> QED BY <1>1, <1>6, <1>10, <1>11, <1>12

LEMMA OpenFileKeeps ==
    ASSUME OnePlace, Inv, NEW p \in Paths, NEW n \in Names, OpenFile(<<p, n>>)
    PROVE  Inv'
<1> DEFINE f == <<p, n>>
<1>1. OpenedOne(p, n)
    BY OpenFileOpens
<1>2. UNCHANGED <<version, second, edited, phase, queue, prev, cur, scanFault, rounds, plan, deletes, doomed>>
    BY DEF OpenFile, scanVars, deleteVars
<1>3. /\ PlacedIn(tree') /\ Is(tree', Dir) /\ Root \in DOMAIN tree' /\ Closed(tree')
      /\ \A i, j \in DOMAIN tree' : tree'[i].path = tree'[j].path => i = j
      /\ \A i \in DOMAIN tree', k \in Names :
            tree'[i].files[k] = NoFile \/ (tree'[i].files[k].data # 0 /\ tree'[i].files[k].time # 0)
      /\ \A q \in Paths, k \in Names :
            InTree(q, k)'.data = InTree(q, k).data /\ InTree(q, k)'.time = InTree(q, k).time
    BY <1>1, SameTreeFiles DEF OpenedOne
<1>4. \A q, k : /\ InScan(prev, q, k)' = InScan(prev, q, k) /\ InScan(cur, q, k)' = InScan(cur, q, k)
                /\ Changed(q, k)' = Changed(q, k)
                /\ Planned(q, k)' = Planned(q, k) /\ PlannedDir(q)' = PlannedDir(q)
    BY <1>2 DEF InScan, DirsAt, Changed, Planned, PlannedDir
<1>5. \A q : DirsAt(prev, q)' = DirsAt(prev, q) /\ DirsAt(cur, q)' = DirsAt(cur, q)
    BY <1>2 DEF DirsAt
<1>6. \A k \in Names : \A q : <<q, k>> # f => InTarget(target, q, k)' = InTarget(target, q, k)
    BY <1>1 DEF InTarget, OpenedOne
<1>7. InTarget(target, p, n)' = InTarget(target', p, n)
    BY DEF InTarget
<1>8. /\ DOMAIN open' \subseteq DOMAIN open \cup {f} /\ DOMAIN open \subseteq DOMAIN open'
      /\ \A g \in DOMAIN open : g # f => open'[g] = open[g]
      /\ \A g \in DOMAIN open' : (open'[g] = open[g] /\ g \in DOMAIN open) \/ (g = f /\ open'[f] = InTree(p, n).data)
    BY <1>1 DEF OpenedOne, With
<1>9. TypeOK'
    <2>1. \A g \in DOMAIN open' : open'[g] \in 1 .. MaxVersion
        <3>1. \A g \in DOMAIN open : open[g] \in 1 .. MaxVersion
            BY DEF Inv, TypeOK
        <3>2. InTree(p, n).data \in 1 .. MaxVersion \/ open' = open
            BY <1>1 DEF OpenedOne
        <3> QED BY <3>1, <3>2, <1>8
    <2>2. DOMAIN open' \subseteq Paths \X Names /\ jobs' \subseteq Paths \X Names
        BY <1>1, <1>8 DEF Inv, TypeOK, OpenedOne
    <2>3. suspect' \subseteq Paths \X (Names \cup {"dir", "times"})
        BY <1>1 DEF Inv, TypeOK, OpenedOne
    <2> QED BY <2>1, <2>2, <2>3, <1>1, <1>2, <1>3 DEF Inv, TypeOK, OpenedOne, IsTarget, Item
<1>10. Placed' /\ Genuine'
    BY <1>2, <1>3 DEF Inv, Placed, PlacedIn, Genuine, Absent
<1>11. AllNested'
    BY <1>2, <1>3 DEF Inv, AllNested, Closed, DirsAt
<1>12. Stages'
    BY <1>1, <1>2 DEF Inv, Stages, OpenedOne
<1>13. Tasks'
    <2>1. \A g \in DOMAIN open' : g \in DOMAIN open \/ g \in jobs
        BY <1>1, <1>8 DEF OpenedOne
    <2>2. ASSUME NEW q \in Paths, NEW k \in Names, <<q, k>> \in DOMAIN open'
          PROVE  InTarget(target', q, k) = Torn
        <3>1. CASE <<q, k>> # f
            BY <3>1, <2>2, <1>8, <1>6, <1>1 DEF OpenedOne, Inv, Tasks
        <3>2. CASE <<q, k>> = f
            <4>1. f \in DOMAIN open => InTarget(target, p, n) = Torn
                BY DEF Inv, Tasks
            <4> QED BY <4>1, <3>2, <2>2, <1>1 DEF OpenedOne
        <3> QED BY <3>1, <3>2
    <2>3. \A q \in Paths, k \in Names : <<q, k>> \in DOMAIN open' => InTarget(target, q, k)' = Torn'
        BY <2>2 DEF InTarget, Torn
    <2>4. suspect \subseteq suspect' /\ jobs' \subseteq jobs
        BY <1>1 DEF OpenedOne
    <2> QED BY <2>1, <2>3, <2>4, <1>2, <1>4, <1>5 DEF Inv, Tasks, Absent
<1>14. FilesRight'
    <2> SUFFICES ASSUME NEW q \in Paths, NEW k \in Names, <<q, k>> \notin suspect'
                 PROVE  Pending(q, k)' \/ Right(cur, q, k)'
        BY <1>1, <1>2 DEF FilesRight, OpenedOne
    <2>1. CASE <<q, k>> # f
        <3>1. Pending(q, k) \/ Right(cur, q, k)
            BY <1>1 DEF Inv, FilesRight, OpenedOne
        <3>2. InTarget(target, q, k)' = InTarget(target, q, k)
            BY <2>1, <1>6
        <3>3. Right(cur, q, k) => Right(cur, q, k)'
            BY <3>2, <1>3, <1>4 DEF Right, Absent
        <3>4. <<q, k>> \in jobs => <<q, k>> \in jobs'
            BY <2>1, <1>1 DEF OpenedOne
        <3>5. <<q, k>> \in DOMAIN open => <<q, k>> \in DOMAIN open' /\ open'[<<q, k>>] = open[<<q, k>>]
            BY <2>1, <1>8
        <3>6. Pending(q, k) => Pending(q, k)'
            BY <3>2, <3>4, <3>5, <1>2, <1>3, <1>4 DEF Pending, Absent
        <3> QED BY <3>1, <3>3, <3>6
    <2>2. CASE <<q, k>> = f
        <3>1. q = p /\ k = n /\ InScan(cur, p, n) # Absent
            BY <2>2, <1>1 DEF OpenedOne
        <3>2. CASE open' = With(open, f, InTree(p, n).data)
            <4>1. f \in DOMAIN open' /\ open'[f] = InTree(p, n)'.data
                BY <3>2, <1>3 DEF With
            <4> QED BY <4>1, <3>1 DEF Pending
        <3>3. CASE InTree(p, n) = NoFile
            <4>1. InTree(p, n)'.time = 0
                BY <3>3, <1>3, NoFileZero
            <4>2. InScan(cur, p, n).time # 0
                BY <3>1, NoTime
            <4> QED BY <4>1, <4>2, <3>1, <1>4 DEF Right, Absent
        <3> QED BY <3>1, <3>2, <3>3, <1>1 DEF OpenedOne
    <2> QED BY <2>1, <2>2
<1>15. DirsRight'
    <2>1. \A r \in Prefixes(p) : DirsAt(cur, r) # {}
        <3>1. DirsAt(cur, p) # {}
            BY <1>1, NotThere DEF OpenedOne
        <3>2. PICK i \in DOMAIN cur : cur[i].path = p
            BY <3>1 DEF DirsAt
        <3> QED BY <3>2 DEF Inv, AllNested, Closed
    <2>2. \A q : Listed(cur, q) => Listed(cur, q)'
        <3>1. /\ DOMAIN target \subseteq DOMAIN target'
              /\ DOMAIN target' \subseteq DOMAIN target \cup Prefixes(p)
            BY <1>1 DEF OpenedOne
        <3> QED BY <3>1, <2>1, <1>5 DEF Listed
    <2>3. \A q \in Paths : <<q, "dir">> \notin suspect' => <<q, "dir">> \notin suspect
        BY <1>1 DEF OpenedOne
    <2> QED BY <2>2, <2>3, <1>1, <1>2, <1>4 DEF Inv, DirsRight, OpenedOne
<1>16. Exact'
    <2>1. \A i \in DOMAIN tree, k \in Names : tree'[i].files[k].time = tree[i].files[k].time
        BY <1>1 DEF OpenedOne, SameTree
    <2>2. DOMAIN tree' = DOMAIN tree /\ \A i \in DOMAIN tree : tree'[i].path = tree[i].path
        BY <1>1 DEF OpenedOne, SameTree
    <2> QED BY <2>1, <2>2, <1>2 DEF Inv, Exact
<1>17. TimesKept'
    BY <1>1, <1>2 DEF TimesKept, OpenedOne
<1> QED BY <1>9, <1>10, <1>11, <1>12, <1>13, <1>14, <1>15, <1>16, <1>17 DEF Inv

(* What ends with the copy of a file.                                      *)
ClosedOne(p, n) ==
    /\ phase = "copy" /\ <<p, n>> \in DOMAIN open
    /\ DOMAIN open' = DOMAIN open \ {<<p, n>>} /\ \A g \in DOMAIN open' : open'[g] = open[g]
    /\ IsTarget(target') /\ DOMAIN target' = DOMAIN target
    /\ suspect' \subseteq suspect \cup {<<p, n>>} /\ suspect \subseteq suspect' \cup {<<p, n>>}
    /\ faults' \in 0 .. MaxFaults
    /\ \A q, k : k \in Names /\ (q # p \/ k # n) => InTarget(target', q, k) = InTarget(target, q, k)
    /\ \/ <<p, n>> \in suspect'
       \/ InTarget(target', p, n) = InTree(p, n).data
       \/ <<p, n>> \notin suspect /\ open[<<p, n>>] # InTree(p, n).data

LEMMA CloseFileCloses ==
    ASSUME OnePlace, Inv, NEW p \in Paths, NEW n \in Names, CloseFile(<<p, n>>)
    PROVE  ClosedOne(p, n)
<1> DEFINE f == <<p, n>>
<1>1. /\ f \in DOMAIN open /\ open' = Restrict(open, DOMAIN open \ {f})
      /\ \/ /\ \E v \in {open[f], Torn} :
                  /\ v = Torn => InTree(p, n).data # open[f]
                  /\ target' = WithFile(target, p, n, v)
                  /\ suspect' = IF v = InTree(p, n).data THEN suspect \ {f} ELSE suspect
            /\ UNCHANGED faults
         \/ Fault /\ suspect' = suspect \cup {f} /\ UNCHANGED target
    BY DEF CloseFile
<1>2. phase = "copy"
    <2>1. open # <<>>
        BY <1>1
    <2> QED BY <2>1 DEF Inv, Stages
<1>3. DOMAIN open' = DOMAIN open \ {f} /\ \A g \in DOMAIN open' : open'[g] = open[g]
    BY <1>1 DEF Restrict
<1>4. IsTarget(target)
    BY TypesOfInv
<1>5. faults \in 0 .. MaxFaults /\ MaxFaults \in Nat /\ MaxVersion \in Nat /\ Torn = MaxVersion + 1
    BY BoundsAssumption DEF Inv, TypeOK, Torn
<1>6. open[f] \in 1 .. MaxVersion /\ InTarget(target, p, n) = Torn
    BY <1>1 DEF Inv, TypeOK, Tasks
<1>7. p \in DOMAIN target
    BY <1>5, <1>6 DEF InTarget, NoData
<1>8. ASSUME NEW v \in {open[f], Torn}, v = Torn => InTree(p, n).data # open[f],
             target' = WithFile(target, p, n, v),
             suspect' = IF v = InTree(p, n).data THEN suspect \ {f} ELSE suspect,
             UNCHANGED faults
      PROVE  ClosedOne(p, n)
    <2>1. v \in 0 .. Torn
        BY <1>5, <1>6, <1>8
    <2>2. PICK u : u = WithFile(target, p, n, v)
        OBVIOUS
    <2>3. /\ IsTarget(u) /\ DOMAIN u = DOMAIN target /\ InTarget(u, p, n) = v
          /\ \A q, k : k \in Names /\ (q # p \/ k # n) => InTarget(u, q, k) = InTarget(target, q, k)
        BY <2>1, <2>2, <1>4, <1>7, WithFileSets
    <2>4. \/ f \in suspect'
          \/ v = InTree(p, n).data
          \/ f \notin suspect /\ open[f] # InTree(p, n).data
        BY <1>8
    <2> QED BY <2>2, <2>3, <2>4, <1>1, <1>2, <1>3, <1>5, <1>8 DEF ClosedOne
<1>9. ASSUME Fault, suspect' = suspect \cup {f}, UNCHANGED target
      PROVE  ClosedOne(p, n)
    <2>1. faults' \in 0 .. MaxFaults
        BY <1>5, <1>9 DEF Fault
    <2> QED BY <2>1, <1>1, <1>2, <1>3, <1>4, <1>9 DEF ClosedOne
<1> QED BY <1>1, <1>8, <1>9

LEMMA CloseFileKeeps ==
    ASSUME OnePlace, Inv, NEW p \in Paths, NEW n \in Names, CloseFile(<<p, n>>)
    PROVE  Inv'
<1> DEFINE f == <<p, n>>
<1>1. ClosedOne(p, n)
    BY CloseFileCloses
<1>2. UNCHANGED <<tree, version, second, edited, phase, queue, prev, cur, scanFault, rounds, plan, jobs, deletes, doomed>>
    BY DEF CloseFile, sourceVars, scanVars, deleteVars
<1>3. \A q, k : /\ InScan(prev, q, k)' = InScan(prev, q, k) /\ InScan(cur, q, k)' = InScan(cur, q, k)
                /\ Changed(q, k)' = Changed(q, k) /\ InTree(q, k)' = InTree(q, k)
                /\ Planned(q, k)' = Planned(q, k) /\ PlannedDir(q)' = PlannedDir(q)
    BY <1>2 DEF InScan, DirsAt, Changed, Planned, PlannedDir, InTree
<1>4. \A q : DirsAt(prev, q)' = DirsAt(prev, q) /\ DirsAt(cur, q)' = DirsAt(cur, q)
    BY <1>2 DEF DirsAt
<1>5. \A k \in Names : \A q : <<q, k>> # f => InTarget(target, q, k)' = InTarget(target, q, k)
    BY <1>1 DEF InTarget, ClosedOne
<1>6. InTarget(target, p, n)' = InTarget(target', p, n)
    BY DEF InTarget
<1>7. \A g : g # f => (g \in suspect' <=> g \in suspect)
    BY <1>1 DEF ClosedOne
<1>8. InScan(cur, p, n) # Absent /\ InTarget(target, p, n) = Torn /\ f \notin deletes
    BY <1>1 DEF Inv, Tasks, ClosedOne
<1>9. TypeOK'
    <2>1. \A g \in DOMAIN open' : g \in Paths \X Names /\ open'[g] \in 1 .. MaxVersion
        BY <1>1 DEF Inv, TypeOK, ClosedOne
    <2>2. suspect' \subseteq Paths \X (Names \cup {"dir", "times"})
        BY <1>1 DEF Inv, TypeOK, ClosedOne
    <2> QED BY <2>1, <2>2, <1>1, <1>2 DEF Inv, TypeOK, ClosedOne, IsTarget, Item
<1>10. Placed' /\ Genuine'
    BY <1>2 DEF Inv, Placed, Genuine, Absent
<1>11. AllNested'
    BY <1>2 DEF Inv, AllNested, Closed, DirsAt
<1>12. Stages'
    BY <1>1, <1>2 DEF Inv, Stages, ClosedOne
<1>13. Tasks'
    <2>1. \A q \in Paths, k \in Names : <<q, k>> \in DOMAIN open' =>
             <<q, k>> \in DOMAIN open /\ InTarget(target, q, k)' = InTarget(target, q, k)
        BY <1>1, <1>5 DEF ClosedOne
    <2>2. \A q \in Paths, k \in Names : <<q, k>> \in deletes => (<<q, k>> \in suspect => <<q, k>> \in suspect')
        BY <1>7, <1>8
    <2> QED BY <2>1, <2>2, <1>2, <1>3, <1>4 DEF Inv, Tasks, Absent, Torn
<1>14. FilesRight'
    <2> SUFFICES ASSUME NEW q \in Paths, NEW k \in Names, <<q, k>> \notin suspect'
                 PROVE  Pending(q, k)' \/ Right(cur, q, k)'
        BY <1>1, <1>2 DEF FilesRight, ClosedOne
    <2>1. CASE <<q, k>> # f
        <3>1. Pending(q, k) \/ Right(cur, q, k)
            BY <2>1, <1>1, <1>7 DEF Inv, FilesRight, ClosedOne
        <3>2. InTarget(target, q, k)' = InTarget(target, q, k)
            BY <2>1, <1>5
        <3>3. Right(cur, q, k) => Right(cur, q, k)'
            BY <3>2, <1>3 DEF Right, Absent
        <3>4. <<q, k>> \in DOMAIN open => <<q, k>> \in DOMAIN open' /\ open'[<<q, k>>] = open[<<q, k>>]
            BY <2>1, <1>1 DEF ClosedOne
        <3>5. Pending(q, k) => Pending(q, k)'
            BY <3>2, <3>4, <1>2, <1>3 DEF Pending, Absent
        <3> QED BY <3>1, <3>3, <3>5
    <2>2. CASE <<q, k>> = f
        <3>1. q = p /\ k = n /\ InScan(cur, p, n)' # Absent'
            BY <2>2, <1>3, <1>8 DEF Absent
        <3>2. CASE InTarget(target', p, n) = InTree(p, n).data
            <4>1. InTarget(target, p, n)' = InTree(p, n)'.data
                BY <3>2, <1>3, <1>6
            <4> QED BY <4>1, <3>1 DEF Right
        <3>3. CASE f \notin suspect /\ open[f] # InTree(p, n).data
            <4>1. Pending(p, n) \/ Right(cur, p, n)
                BY <3>3, <1>1 DEF Inv, FilesRight, ClosedOne
            <4>2. InTree(p, n).data # Torn
                <5>1. InTree(p, n).data \in 0 .. MaxVersion
                    BY InTreeType
                <5> QED BY <5>1, BoundsAssumption DEF Torn
            <4>3. CASE InTree(p, n).time # InScan(cur, p, n).time
                BY <4>3, <3>1, <1>3 DEF Right
            <4>4. CASE InTree(p, n).time = InScan(cur, p, n).time
                <5>1. ~Right(cur, p, n)
                    BY <4>2, <4>4, <1>8 DEF Right
                <5>2. p \notin doomed
                    <6>1. DirsAt(cur, p) # {}
                        BY <1>8, NotThere
                    <6> QED BY <6>1 DEF Inv, Tasks
                <5>3. Planned(p, n) \/ f \in jobs
                    BY <4>1, <4>4, <5>1, <5>2, <3>3, <1>8 DEF Pending
                <5>4. Planned(p, n)' \/ f \in jobs'
                    BY <5>3, <1>2, <1>3
                <5> QED BY <5>4, <3>1 DEF Pending
            <4> QED BY <4>3, <4>4
        <3> QED BY <2>2, <3>2, <3>3, <1>1 DEF ClosedOne
    <2> QED BY <2>1, <2>2
<1>15. DirsRight'
    <2>1. \A q : Listed(cur, q) => Listed(cur, q)'
        BY <1>1, <1>4 DEF Listed, ClosedOne
    <2>2. \A q \in Paths : <<q, "dir">> \notin suspect' => <<q, "dir">> \notin suspect
        <3>1. "dir" # n
            BY TreeAssumption
        <3> QED BY <3>1, <1>7
    <2> QED BY <2>1, <2>2, <1>1, <1>2, <1>3 DEF Inv, DirsRight, ClosedOne
<1>16. Exact'
    BY <1>2 DEF Inv, Exact
<1>17. TimesKept'
    BY <1>1, <1>2 DEF TimesKept, ClosedOne
<1> QED BY <1>9, <1>10, <1>11, <1>12, <1>13, <1>14, <1>15, <1>16, <1>17 DEF Inv

(* From one phase to the next.                                             *)
LEMMA NextPhaseKeeps ==
    ASSUME Inv, UNCHANGED <<sourceVars, scanVars, copyVars, deleteVars, target, historyVars>>,
           \/ phase = "copy" /\ phase' = "delete" /\ plan = <<>> /\ jobs = {} /\ open = <<>>
           \/ phase = "delete" /\ phase' = "times" /\ deletes = {} /\ doomed = {}
    PROVE  Inv'
<1>1. UNCHANGED <<tree, version, second, edited, queue, prev, cur, scanFault, rounds, plan, jobs, open,
                  deletes, doomed, target, suspect, faults>>
    BY DEF sourceVars, scanVars, copyVars, deleteVars, historyVars
<1>2. phase # "scan" /\ phase' \in {"delete", "times"}
    OBVIOUS
<1>3. \A q, k : /\ InScan(prev, q, k)' = InScan(prev, q, k) /\ InScan(cur, q, k)' = InScan(cur, q, k)
                /\ Changed(q, k)' = Changed(q, k) /\ InTree(q, k)' = InTree(q, k)
                /\ Planned(q, k)' = Planned(q, k) /\ PlannedDir(q)' = PlannedDir(q)
                /\ InTarget(target, q, k)' = InTarget(target, q, k)
    BY <1>1 DEF InScan, DirsAt, Changed, Planned, PlannedDir, InTree, InTarget
<1>4. \A q : DirsAt(prev, q)' = DirsAt(prev, q) /\ DirsAt(cur, q)' = DirsAt(cur, q)
    BY <1>1 DEF DirsAt
<1>5. TypeOK' /\ Placed' /\ Genuine'
    <2>1. TypeOK'
        BY <1>1, <1>2 DEF Inv, TypeOK, Is
    <2>2. Placed' /\ Genuine'
        BY <1>1 DEF Inv, Placed, Genuine, Absent
    <2> QED BY <2>1, <2>2
<1>6. AllNested'
    <2>1. Closed(tree)' = Closed(tree) /\ Closed(cur)' = Closed(cur)
        BY <1>1 DEF Closed, DirsAt
    <2> QED BY <2>1, <1>1, <1>4 DEF Inv, AllNested
<1>7. Stages'
    <2>1. plan = <<>> /\ jobs = {} /\ open = <<>>
        BY DEF Inv, Stages
    <2> QED BY <2>1, <1>1 DEF Stages
<1>8. Tasks'
    BY <1>1, <1>3, <1>4 DEF Inv, Tasks, Absent, Torn
<1>9. FilesRight'
    <2>1. \A q, k : Pending(q, k)' = Pending(q, k) /\ Right(cur, q, k)' = Right(cur, q, k)
        BY <1>1, <1>3 DEF Pending, Right, Absent
    <2> QED BY <2>1, <1>1, <1>2 DEF Inv, FilesRight
<1>10. DirsRight'
    <2>1. \A q : Listed(cur, q)' = Listed(cur, q)
        BY <1>1, <1>4 DEF Listed
    <2> QED BY <2>1, <1>1, <1>2, <1>3 DEF Inv, DirsRight
<1>11. Exact'
    BY <1>1, <1>2 DEF Inv, Exact
<1>12. TimesKept'
    BY <1>2 DEF TimesKept
<1> QED BY <1>5, <1>6, <1>7, <1>8, <1>9, <1>10, <1>11, <1>12 DEF Inv

LEMMA JoinWorkersKeeps == ASSUME Inv, JoinWorkers PROVE Inv'
BY NextPhaseKeeps DEF JoinWorkers, PhaseAfter

LEMMA EndDeletesKeeps == ASSUME Inv, EndDeletes PROVE Inv'
BY NextPhaseKeeps DEF EndDeletes, PhaseAfter

-----------------------------------------------------------------------------
(* Deleting.                                                               *)
ClearedOne(p, n) ==
    /\ phase = "delete" /\ <<p, n>> \in deletes /\ deletes' = deletes \ {<<p, n>>}
    /\ IsTarget(target') /\ DOMAIN target' = DOMAIN target
    /\ suspect \subseteq suspect' /\ suspect' \subseteq suspect \cup {<<p, n>>}
    /\ faults' \in 0 .. MaxFaults
    /\ \A q, k : k \in Names /\ (q # p \/ k # n) => InTarget(target', q, k) = InTarget(target, q, k)
    /\ <<p, n>> \in suspect' \/ InTarget(target', p, n) = NoData

LEMMA DeleteFileClears ==
    ASSUME OnePlace, DeletesInPlace, Inv, NEW p \in Paths, NEW n \in Names, DeleteFile(<<p, n>>)
    PROVE  ClearedOne(p, n)
<1>1. DeletePlace(p) = p
    BY DEF DeletesInPlace
<1>2. /\ phase = "delete" /\ <<p, n>> \in deletes /\ deletes' = deletes \ {<<p, n>>}
      /\ \/ target' = Cleared(target, p, n) /\ UNCHANGED historyVars
         \/ Fault /\ suspect' = suspect \cup {<<p, n>>} /\ UNCHANGED target
    BY <1>1 DEF DeleteFile, Cleared, Put
<1>3. IsTarget(target)
    BY TypesOfInv
<1>4. faults \in 0 .. MaxFaults /\ MaxFaults \in Nat
    BY BoundsAssumption DEF Inv, TypeOK
<1>5. CASE target' = Cleared(target, p, n) /\ UNCHANGED historyVars
    <2>1. PICK u : u = Cleared(target, p, n)
        OBVIOUS
    <2>2. /\ IsTarget(u) /\ DOMAIN u = DOMAIN target /\ InTarget(u, p, n) = NoData
          /\ \A q, k : k \in Names /\ (q # p \/ k # n) => InTarget(u, q, k) = InTarget(target, q, k)
        BY <2>1, <1>3, ClearedFile
    <2>3. target' = u /\ UNCHANGED <<suspect, faults>>
        BY <2>1, <1>5 DEF historyVars
    <2> QED BY <2>2, <2>3, <1>2, <1>4 DEF ClearedOne
<1>6. CASE Fault /\ suspect' = suspect \cup {<<p, n>>} /\ UNCHANGED target
    <2>1. faults' \in 0 .. MaxFaults
        BY <1>4, <1>6 DEF Fault
    <2> QED BY <2>1, <1>2, <1>3, <1>6 DEF ClearedOne
<1> QED BY <1>2, <1>5, <1>6

LEMMA DeleteFileKeeps ==
    ASSUME OnePlace, DeletesInPlace, Inv, NEW p \in Paths, NEW n \in Names, DeleteFile(<<p, n>>)
    PROVE  Inv'
<1> DEFINE f == <<p, n>>
<1>1. ClearedOne(p, n)
    BY DeleteFileClears
<1>2. UNCHANGED <<tree, version, second, edited, phase, queue, prev, cur, scanFault, rounds, plan, jobs, open, doomed>>
    BY DEF DeleteFile, sourceVars, scanVars, copyVars
<1>3. \A q, k : /\ InScan(prev, q, k)' = InScan(prev, q, k) /\ InScan(cur, q, k)' = InScan(cur, q, k)
                /\ Changed(q, k)' = Changed(q, k) /\ InTree(q, k)' = InTree(q, k)
                /\ Planned(q, k)' = Planned(q, k) /\ PlannedDir(q)' = PlannedDir(q)
    BY <1>2 DEF InScan, DirsAt, Changed, Planned, PlannedDir, InTree
<1>4. \A q : DirsAt(prev, q)' = DirsAt(prev, q) /\ DirsAt(cur, q)' = DirsAt(cur, q)
    BY <1>2 DEF DirsAt
<1>5. \A k \in Names : \A q : <<q, k>> # f => InTarget(target, q, k)' = InTarget(target, q, k)
    BY <1>1 DEF InTarget, ClearedOne
<1>6. InTarget(target, p, n)' = InTarget(target', p, n)
    BY DEF InTarget
<1>7. open = <<>> /\ DOMAIN open = {}
    BY <1>1 DEF Inv, Stages, ClearedOne
<1>8. TypeOK'
    <2>1. suspect' \subseteq Paths \X (Names \cup {"dir", "times"}) /\ deletes' \subseteq Paths \X Names
        BY <1>1 DEF Inv, TypeOK, ClearedOne
    <2> QED BY <2>1, <1>1, <1>2 DEF Inv, TypeOK, ClearedOne, IsTarget, Item
<1>9. Placed' /\ Genuine'
    BY <1>2 DEF Inv, Placed, Genuine, Absent
<1>10. AllNested'
    BY <1>2 DEF Inv, AllNested, Closed, DirsAt
<1>11. Stages'
    BY <1>1, <1>2 DEF Inv, Stages, ClearedOne
<1>12. Tasks'
    <2>1. suspect \subseteq suspect' /\ deletes' \subseteq deletes
        BY <1>1 DEF ClearedOne
    <2> QED BY <2>1, <1>2, <1>3, <1>4, <1>7 DEF Inv, Tasks, Absent
<1>13. FilesRight'
    <2> SUFFICES ASSUME NEW q \in Paths, NEW k \in Names, <<q, k>> \notin suspect'
                 PROVE  Pending(q, k)' \/ Right(cur, q, k)'
        BY <1>1, <1>2 DEF FilesRight, ClearedOne
    <2>1. <<q, k>> \notin suspect
        BY <1>1 DEF ClearedOne
    <2>2. CASE <<q, k>> # f
        <3>1. Pending(q, k) \/ Right(cur, q, k)
            BY <2>1, <1>1 DEF Inv, FilesRight, ClearedOne
        <3>2. InTarget(target, q, k)' = InTarget(target, q, k)
            BY <2>2, <1>5
        <3>3. Right(cur, q, k) => Right(cur, q, k)'
            BY <3>2, <1>3 DEF Right, Absent
        <3>4. <<q, k>> \in deletes => <<q, k>> \in deletes'
            BY <2>2, <1>1 DEF ClearedOne
        <3>5. Pending(q, k) => Pending(q, k)'
            BY <3>2, <3>4, <1>2, <1>3, <1>7 DEF Pending, Absent
        <3> QED BY <3>1, <3>3, <3>5
    <2>3. CASE <<q, k>> = f
        <3>1. q = p /\ k = n /\ f \notin suspect /\ InTarget(target', p, n) = NoData
            BY <2>1, <2>3, <1>1 DEF ClearedOne
        <3>2. InScan(cur, p, n) = Absent
            BY <3>1, <1>1 DEF Inv, Tasks, ClearedOne
        <3>3. InTree(p, n).time = InScan(cur, p, n).time => InTree(p, n).data = NoData
            BY <3>2, InTreeType, NoFileZero
        <3> QED BY <3>1, <3>2, <3>3, <1>3, <1>6 DEF Right, Absent
    <2> QED BY <2>2, <2>3
<1>14. DirsRight'
    <2>1. \A q : Listed(cur, q) => Listed(cur, q)'
        BY <1>1, <1>4 DEF Listed, ClearedOne
    <2>2. suspect \subseteq suspect'
        BY <1>1 DEF ClearedOne
    <2> QED BY <2>1, <2>2, <1>1, <1>2, <1>3 DEF Inv, DirsRight, ClearedOne
<1>15. Exact'
    BY <1>2 DEF Inv, Exact
<1>16. TimesKept'
    BY <1>1, <1>2 DEF TimesKept, ClearedOne
<1> QED BY <1>8, <1>9, <1>10, <1>11, <1>12, <1>13, <1>14, <1>15, <1>16 DEF Inv

(* What becomes of a doomed directory, and of all that is below it.        *)
RemovedOne(p) ==
    /\ phase = "delete" /\ deletes = {} /\ p \in doomed /\ doomed' = doomed \ {p}
    /\ IsTarget(target') /\ DOMAIN target' \subseteq DOMAIN target
    /\ suspect \subseteq suspect' /\ suspect' \subseteq Paths \X (Names \cup {"dir", "times"})
    /\ faults' \in 0 .. MaxFaults
    /\ \A q \in DOMAIN target : p \notin Prefixes(q) => q \in DOMAIN target'
    /\ p \notin DOMAIN target' \/ \A n \in Names \cup {"dir"} : <<p, n>> \in suspect'
    /\ \A q \in Paths, k \in Names :
          \/ InTarget(target', q, k) = InTarget(target, q, k)
          \/ p \in Prefixes(q) /\ InTarget(target', q, k) = NoData

LEMMA DeleteDirRemoves ==
    ASSUME OnePlace, Inv, NEW p \in Paths, DeleteDir(p)
    PROVE  RemovedOne(p)
<1>1. /\ phase = "delete" /\ deletes = {} /\ p \in doomed /\ doomed' = doomed \ {p}
      /\ \/ /\ target' = IF p \in DOMAIN target THEN Without(target, p) ELSE target
            /\ UNCHANGED historyVars
         \/ /\ Fault /\ UNCHANGED target
            /\ suspect' = suspect \cup Below(p) \X (Names \cup {"dir"})
    BY DEF DeleteDir
<1>2. IsTarget(target) /\ suspect \subseteq Paths \X (Names \cup {"dir", "times"})
    BY TypesOfInv DEF Inv, TypeOK
<1>3. faults \in 0 .. MaxFaults /\ MaxFaults \in Nat
    BY BoundsAssumption DEF Inv, TypeOK
<1>4. PICK u : u = Without(target, p)
    OBVIOUS
<1>5. /\ IsTarget(u) /\ DOMAIN u = DOMAIN target \ Below(p)
      /\ Below(p) = {q \in DOMAIN target : p \in Prefixes(q)}
      /\ \A q, n : InTarget(u, q, n) = IF q \in Below(p) THEN NoData ELSE InTarget(target, q, n)
    BY <1>2, <1>4, WithoutRemoves
<1>6. p \in Prefixes(p)
    BY PathsClosed, PathFacts
<1>7. CASE p \in DOMAIN target /\ target' = u /\ UNCHANGED historyVars
    <2>1. UNCHANGED <<suspect, faults>>
        BY <1>7 DEF historyVars
    <2> QED BY <2>1, <1>1, <1>2, <1>3, <1>5, <1>6, <1>7 DEF RemovedOne
<1>8. CASE p \notin DOMAIN target /\ target' = target /\ UNCHANGED historyVars
    <2>1. UNCHANGED <<suspect, faults>>
        BY <1>8 DEF historyVars
    <2> QED BY <2>1, <1>1, <1>2, <1>3, <1>8 DEF RemovedOne
<1>9. CASE Fault /\ target' = target /\ suspect' = suspect \cup Below(p) \X (Names \cup {"dir"})
    <2>1. faults' \in 0 .. MaxFaults
        BY <1>3, <1>9 DEF Fault
    <2>2. Below(p) \subseteq Paths
        BY <1>2, <1>5 DEF IsTarget
    <2>3. suspect \subseteq suspect' /\ suspect' \subseteq Paths \X (Names \cup {"dir", "times"})
        BY <2>2, <1>2, <1>9
    <2>4. p \in DOMAIN target => \A n \in Names \cup {"dir"} : <<p, n>> \in suspect'
        BY <1>5, <1>6, <1>9
    <2> QED BY <2>1, <2>3, <2>4, <1>1, <1>2, <1>9 DEF RemovedOne
<1> QED BY <1>1, <1>4, <1>7, <1>8, <1>9

LEMMA DeleteDirKeeps ==
    ASSUME OnePlace, Inv, NEW p \in Paths, DeleteDir(p)
    PROVE  Inv'
<1>1. RemovedOne(p)
    BY DeleteDirRemoves
<1>2. /\ UNCHANGED <<tree, version, second, edited, phase, queue, prev, cur, scanFault, rounds,
                     plan, jobs, open, deletes>>
      /\ \A q \in doomed : ~IsStrictPrefix(p, q)
    BY DEF DeleteDir, sourceVars, scanVars, copyVars
<1>3. \A q, k : /\ InScan(prev, q, k)' = InScan(prev, q, k) /\ InScan(cur, q, k)' = InScan(cur, q, k)
                /\ Changed(q, k)' = Changed(q, k) /\ InTree(q, k)' = InTree(q, k)
                /\ Planned(q, k)' = Planned(q, k) /\ PlannedDir(q)' = PlannedDir(q)
    BY <1>2 DEF InScan, DirsAt, Changed, Planned, PlannedDir, InTree
<1>4. \A q : DirsAt(prev, q)' = DirsAt(prev, q) /\ DirsAt(cur, q)' = DirsAt(cur, q)
    BY <1>2 DEF DirsAt
<1>5. plan = <<>> /\ jobs = {} /\ open = <<>> /\ deletes = {} /\ DOMAIN plan = {} /\ DOMAIN open = {}
    BY <1>1 DEF Inv, Stages, RemovedOne
<1>6. DirsAt(cur, p) = {}
    BY <1>1 DEF Inv, Tasks, RemovedOne
<1>7. \A q : p \in Prefixes(q) => DirsAt(cur, q) = {}
    BY <1>6 DEF Inv, AllNested, Closed, DirsAt
<1>8. \A q \in doomed : q # p => p \notin Prefixes(q)
    <2> SUFFICES ASSUME NEW q \in doomed, q # p, p \in Prefixes(q) PROVE FALSE
        OBVIOUS
    <2>1. q \in Seq(STRING) /\ p \in Seq(STRING)
        BY PathsClosed DEF Inv, TypeOK
    <2>2. IsPrefix(p, q)
        BY <2>1, PathFacts
    <2> QED BY <2>2, <1>2 DEF IsStrictPrefix
<1>9. TypeOK'
    <2>1. doomed' \subseteq Paths
        BY <1>1 DEF Inv, TypeOK, RemovedOne
    <2> QED BY <2>1, <1>1, <1>2 DEF Inv, TypeOK, RemovedOne, IsTarget, Item
<1>10. Placed' /\ Genuine'
    BY <1>2 DEF Inv, Placed, Genuine, Absent
<1>11. AllNested'
    BY <1>2 DEF Inv, AllNested, Closed, DirsAt
<1>12. Stages'
    BY <1>1, <1>2 DEF Inv, Stages, RemovedOne
<1>13. Tasks'
    <2>1. doomed' \subseteq doomed
        BY <1>1 DEF RemovedOne
    <2> QED BY <2>1, <1>2, <1>3, <1>4, <1>5 DEF Inv, Tasks, Absent
<1>14. FilesRight'
    <2> SUFFICES ASSUME NEW q \in Paths, NEW k \in Names, <<q, k>> \notin suspect'
                 PROVE  Pending(q, k)' \/ Right(cur, q, k)'
        BY <1>1, <1>2 DEF FilesRight, RemovedOne
    <2>1. Pending(q, k) \/ Right(cur, q, k)
        BY <1>1 DEF Inv, FilesRight, RemovedOne
    <2>2. InTarget(target, q, k)' = InTarget(target', q, k)
        BY DEF InTarget
    <2>3. DirsAt(cur, q) = {} /\ InTarget(target', q, k) = NoData => Right(cur, q, k)'
        <3>1. InTree(q, k).time = 0 => InTree(q, k).data = NoData
            BY InTreeType
        <3>2. DirsAt(cur, q) = {} => InScan(cur, q, k) = Absent /\ Absent.time = 0
            BY NotThere, NoFileZero
        <3> QED BY <3>1, <3>2, <2>2, <1>3 DEF Right, Absent
    <2>4. CASE q = p
        <3>1. p \notin DOMAIN target'
            BY <2>4, <1>1 DEF RemovedOne
        <3>2. InTarget(target', q, k) = NoData
            BY <3>1, <2>4 DEF InTarget
        <3> QED BY <3>2, <2>3, <2>4, <1>6
    <2>5. CASE q # p /\ p \in Prefixes(q)
        <3>1. q \notin doomed /\ DirsAt(cur, q) = {}
            BY <2>5, <1>7, <1>8
        <3>2. Right(cur, q, k)
            BY <2>1, <3>1, <1>5 DEF Pending, Planned
        <3>3. CASE InTarget(target', q, k) = InTarget(target, q, k)
            BY <3>2, <3>3, <2>2, <1>3 DEF Right, Absent
        <3>4. CASE InTarget(target', q, k) = NoData
            BY <3>1, <3>4, <2>3
        <3> QED BY <3>3, <3>4, <1>1 DEF RemovedOne
    <2>6. CASE q # p /\ p \notin Prefixes(q)
        <3>1. InTarget(target, q, k)' = InTarget(target, q, k)
            BY <2>2, <2>6, <1>1 DEF RemovedOne
        <3>2. Right(cur, q, k) => Right(cur, q, k)'
            BY <3>1, <1>3 DEF Right, Absent
        <3>3. q \in doomed => q \in doomed'
            BY <2>6, <1>1 DEF RemovedOne
        <3>4. Pending(q, k) => Pending(q, k)'
            BY <3>1, <3>3, <1>2, <1>3, <1>5 DEF Pending, Absent
        <3> QED BY <3>2, <3>4, <2>1
    <2> QED BY <2>4, <2>5, <2>6
<1>15. DirsRight'
    <2> SUFFICES ASSUME NEW q \in Paths, <<q, "dir">> \notin suspect'
                 PROVE  q \in doomed' \/ Listed(cur, q)'
        BY <1>1, <1>2 DEF DirsRight, RemovedOne
    <2>1. CASE q = p
        <3>1. p \notin DOMAIN target'
            BY <2>1, <1>1 DEF RemovedOne
        <3> QED BY <3>1, <2>1, <1>4, <1>6 DEF Listed
    <2>2. CASE q # p
        <3>1. q \in doomed \/ Listed(cur, q)
            BY <1>1, <1>5 DEF Inv, DirsRight, RemovedOne, PlannedDir
        <3>2. q \in doomed => q \in doomed'
            BY <2>2, <1>1 DEF RemovedOne
        <3>3. Listed(cur, q) => Listed(cur, q)'
            <4>1. DirsAt(cur, q) # {} => p \notin Prefixes(q)
                BY <1>7
            <4> QED BY <4>1, <1>1, <1>4 DEF Listed, RemovedOne
        <3> QED BY <3>1, <3>2, <3>3
    <2> QED BY <2>1, <2>2
<1>16. Exact'
    BY <1>2 DEF Inv, Exact
<1>17. TimesKept'
    BY <1>1, <1>2 DEF TimesKept, RemovedOne
<1> QED BY <1>9, <1>10, <1>11, <1>12, <1>13, <1>14, <1>15, <1>16, <1>17 DEF Inv

-----------------------------------------------------------------------------
(* Restoring the times.                                                    *)
LEMMA RestoreTimesKeeps ==
    ASSUME OnePlace, Inv, RestoreTimes
    PROVE  Inv'
<1>1. PICK failed \in SUBSET DOMAIN cur :
        /\ UNCHANGED faults \/ Fault
        /\ target' = [p \in DOMAIN target |->
              [target[p] EXCEPT !.stamp =
                  IF \E i \in DOMAIN cur \ failed : cur[i].path = p
                  THEN cur[CHOOSE i \in DOMAIN cur \ failed : cur[i].path = p].stamp
                  ELSE @]]
        /\ suspect' = (suspect \ (Paths \X {"times"})) \cup {<<cur[i].path, "times">> : i \in failed}
    BY DEF RestoreTimes
<1>2. /\ phase = "times" /\ phase' = "idle"
      /\ UNCHANGED <<tree, version, second, edited, queue, prev, cur, scanFault, rounds,
                     plan, jobs, open, deletes, doomed>>
    BY DEF RestoreTimes, PhaseAfter, sourceVars, scanVars, copyVars, deleteVars
<1>3. /\ plan = <<>> /\ jobs = {} /\ open = <<>> /\ deletes = {} /\ doomed = {}
      /\ DOMAIN plan = {} /\ DOMAIN open = {}
    BY <1>2 DEF Inv, Stages
<1>4. PlacedIn(cur) /\ IsTarget(target) /\ \A i \in DOMAIN cur : cur[i].path \in Paths /\ cur[i] \in Record
    BY TypesOfInv, AtPlace
<1> DEFINE known(p) == \E i \in DOMAIN cur \ failed : cur[i].path = p
           time(p) == cur[CHOOSE i \in DOMAIN cur \ failed : cur[i].path = p].stamp
<1>5. \A i \in DOMAIN cur \ failed : known(cur[i].path) /\ time(cur[i].path) = cur[i].stamp
    <2> SUFFICES ASSUME NEW i \in DOMAIN cur \ failed PROVE time(cur[i].path) = cur[i].stamp
        OBVIOUS
    <2>1. \A j \in DOMAIN cur \ failed : cur[j].path = cur[i].path => j = i
        BY <1>4, SameDir
    <2> QED BY <2>1
<1>6. \A p : known(p) => time(p) \in 0 .. MaxVersion
    <2>1. \A i \in DOMAIN cur : cur[i].stamp \in 0 .. MaxVersion
        BY <1>4 DEF Record, Times
    <2> QED BY <2>1, <1>5
<1>7. /\ DOMAIN target' = DOMAIN target
      /\ \A p \in DOMAIN target : target'[p] = [target[p] EXCEPT !.stamp = IF known(p) THEN time(p) ELSE @]
    BY <1>1
<1> HIDE DEF known, time
<1>8. ASSUME NEW p \in DOMAIN target
      PROVE  /\ target'[p] \in Item /\ target'[p].files = target[p].files
             /\ known(p) => target'[p].stamp = time(p)
    <2>1. target[p] \in Item
        BY <1>4 DEF IsTarget
    <2>2. target'[p] = [target[p] EXCEPT !.stamp = IF known(p) THEN time(p) ELSE @]
        BY <1>7
    <2> QED BY <2>1, <2>2, <1>6 DEF Item
<1>9. IsTarget(target') /\ SameContent(target, target')
    BY <1>4, <1>7, <1>8 DEF IsTarget, SameContent
<1>10. \A q, k : InTarget(target, q, k)' = InTarget(target, q, k)
    <2>1. \A q, k : InTarget(target', q, k) = InTarget(target, q, k)
        BY <1>9, SameContentFiles
    <2> QED BY <2>1 DEF InTarget
<1>11. \A q, k : k \in Names \cup {"dir"} => (<<q, k>> \in suspect' <=> <<q, k>> \in suspect)
    <2>1. \A k \in Names \cup {"dir"} : k # "times"
        BY TreeAssumption
    <2> QED BY <2>1, <1>1
<1>12. \A q, k : /\ InScan(prev, q, k)' = InScan(prev, q, k) /\ InScan(cur, q, k)' = InScan(cur, q, k)
                 /\ InTree(q, k)' = InTree(q, k)
    BY <1>2 DEF InScan, DirsAt, InTree
<1>13. TypeOK'
    <2>1. suspect' \subseteq Paths \X (Names \cup {"dir", "times"})
        BY <1>1, <1>4 DEF Inv, TypeOK
    <2>2. faults' \in 0 .. MaxFaults
        <3>1. faults \in 0 .. MaxFaults /\ MaxFaults \in Nat
            BY BoundsAssumption DEF Inv, TypeOK
        <3> QED BY <3>1, <1>1 DEF Fault
    <2> QED BY <2>1, <2>2, <1>2, <1>9 DEF Inv, TypeOK, Is, IsTarget, Item
<1>14. Placed' /\ Genuine'
    BY <1>2 DEF Inv, Placed, Genuine, Absent
<1>15. AllNested'
    <2>1. Closed(tree)' = Closed(tree) /\ Closed(cur)' = Closed(cur)
        BY <1>2 DEF Closed, DirsAt
    <2>2. \A q : DirsAt(cur, q)' = DirsAt(cur, q)
        BY <1>2 DEF DirsAt
    <2> QED BY <2>1, <2>2, <1>2 DEF Inv, AllNested
<1>16. Stages'
    BY <1>2, <1>3 DEF Stages
<1>17. Tasks'
    BY <1>2, <1>3 DEF Tasks, Planned
<1>18. FilesRight'
    <2>1. \A q \in Paths, k \in Names : <<q, k>> \notin suspect => Right(cur, q, k)
        BY <1>2, <1>3, NothingPending DEF Inv, FilesRight
    <2>2. \A q, k : Right(cur, q, k) => Right(cur, q, k)'
        BY <1>10, <1>12 DEF Right, Absent
    <2> QED BY <2>1, <2>2, <1>2, <1>11 DEF FilesRight
<1>19. DirsRight'
    <2>1. \A q \in Paths : <<q, "dir">> \notin suspect => Listed(cur, q)
        BY <1>2, <1>3, NothingPending DEF Inv, DirsRight
    <2>2. \A q : Listed(cur, q) => Listed(cur, q)'
        BY <1>2, <1>7 DEF Listed, DirsAt
    <2> QED BY <2>1, <2>2, <1>2, <1>11 DEF DirsRight
<1>20. Exact'
    BY <1>2 DEF Inv, Exact
<1>21. TimesKept'
    <2> SUFFICES ASSUME NEW i \in DOMAIN cur, NEW p, p = cur[i].path, p \in DOMAIN target,
                        <<p, "times">> \notin suspect'
                 PROVE  target'[p].stamp = cur[i].stamp
        BY <1>2, <1>7 DEF TimesKept
    <2>1. i \notin failed
        BY <1>1
    <2> QED BY <2>1, <1>5, <1>8
<1> QED BY <1>13, <1>14, <1>15, <1>16, <1>17, <1>18, <1>19, <1>20, <1>21 DEF Inv

-----------------------------------------------------------------------------
LEMMA InvInit ==
    ASSUME OnePlace, Init
    PROVE  Inv
<1>1. /\ tree = Tree0 /\ version = 1 /\ second = 1 /\ phase = "idle"
      /\ queue = {} /\ prev = <<>> /\ cur = <<>> /\ plan = <<>> /\ jobs = {} /\ open = <<>>
      /\ deletes = {} /\ doomed = {} /\ target = [p \in {<<>>} |-> Empty] /\ rounds = 0
      /\ edited = FALSE /\ scanFault = FALSE /\ suspect = {} /\ faults = 0
    BY DEF Init
<1>2. /\ DOMAIN prev = {} /\ DOMAIN cur = {} /\ DOMAIN plan = {} /\ DOMAIN open = {}
    BY <1>1
<1>3. /\ Root \in DOMAIN tree /\ PlacedIn(tree) /\ \A i \in DOMAIN tree : tree[i] \in Dir
      /\ \A i \in DOMAIN tree, n \in Names :
            tree[i].files[n] = NoFile \/ (tree[i].files[n].data # 0 /\ tree[i].files[n].time # 0)
      /\ \A i \in DOMAIN tree : \A q \in Prefixes(tree[i].path) : \E j \in DOMAIN tree : tree[j].path = q
    BY <1>1, TreeAssumption DEF PlacedIn
<1>4. \A p : DirsAt(prev, p) = {} /\ DirsAt(cur, p) = {}
    BY <1>2 DEF DirsAt
<1>5. DOMAIN target = {<<>>} /\ target[<<>>] = Empty
    BY <1>1
<1>6. Empty \in Item
    <2>1. 0 \in 0 .. MaxVersion /\ NoData \in 0 .. Torn
        BY BoundsAssumption DEF NoData, Torn
    <2> QED BY <2>1 DEF Empty, Item
<1>7. \A p, n : n \in Names => InTarget(target, p, n) = NoData
    BY <1>5 DEF InTarget, Empty
<1>8. TypeOK
    <2>1. \A i, j \in DOMAIN tree : tree[i].path = tree[j].path => i = j
        BY <1>3, SameDir
    <2>2. Is(tree, Dir) /\ Is(prev, Record) /\ Is(cur, Record)
        BY <1>2, <1>3 DEF Is, PlacedIn
    <2>3. DOMAIN target \subseteq Paths
          /\ \A p \in DOMAIN target :
                /\ Prefixes(p) \subseteq DOMAIN target
                /\ target[p] \in [stamp : 0 .. MaxVersion, files : [Names -> 0 .. Torn]]
        BY <1>5, <1>6, RootPath DEF Item
    <2>4. version \in 0 .. MaxVersion /\ second \in 0 .. version /\ rounds \in 0 .. MaxRounds
          /\ faults \in 0 .. MaxFaults
        BY <1>1, BoundsAssumption
    <2>5. plan \in Seq([dir : Inodes, files : SUBSET Names])
        BY <1>1
    <2> QED BY <2>1, <2>2, <2>3, <2>4, <2>5, <1>1, <1>2 DEF TypeOK
<1>9. Placed /\ Genuine
    BY <1>1, <1>2, <1>3 DEF Placed, PlacedIn, Genuine
<1>10. AllNested
    BY <1>1, <1>2, <1>3 DEF AllNested, Closed, DirsAt
<1>11. Stages /\ Tasks
    BY <1>1, <1>2 DEF Stages, Tasks, Planned
<1>12. FilesRight
    <2> SUFFICES ASSUME NEW p \in Paths, NEW n \in Names PROVE Right(cur, p, n)
        BY <1>1 DEF FilesRight
    <2>1. InScan(cur, p, n) = Absent
        BY <1>4, NotThere
    <2>2. InTree(p, n).time = 0 => InTree(p, n).data = NoData
        <3>1. CASE DirsAt(tree, p) = {}
            BY <3>1, <1>3, TreeAt, InTreeIs, NoFileZero
        <3>2. CASE DirsAt(tree, p) # {}
            <4>1. PICK i \in DOMAIN tree : tree[i].path = p
                BY <3>2 DEF DirsAt
            <4>2. InTree(p, n) = tree[i].files[n]
                BY <4>1, <1>3, TreeAt, InTreeIs
            <4> QED BY <4>1, <4>2, <1>3, NoFileZero
        <3> QED BY <3>1, <3>2
    <2> QED BY <2>1, <2>2, <1>7, NoFileZero DEF Right
<1>13. DirsRight
    BY <1>1, <1>4, <1>5 DEF DirsRight, Listed
<1>14. Exact /\ TimesKept
    BY <1>1, <1>2 DEF Exact, TimesKept
<1> QED BY <1>8, <1>9, <1>10, <1>11, <1>12, <1>13, <1>14 DEF Inv

LEMMA InvStutter ==
    ASSUME Inv, UNCHANGED vars
    PROVE  Inv'
<1>1. UNCHANGED <<tree, version, second, edited, phase, queue, prev, cur, scanFault, rounds,
                  plan, jobs, open, deletes, doomed, target, suspect, faults>>
    BY DEF vars, sourceVars, scanVars, copyVars, deleteVars, historyVars
<1>2. \A q, k : /\ InScan(prev, q, k)' = InScan(prev, q, k) /\ InScan(cur, q, k)' = InScan(cur, q, k)
                /\ Changed(q, k)' = Changed(q, k) /\ InTree(q, k)' = InTree(q, k)
                /\ Planned(q, k)' = Planned(q, k) /\ PlannedDir(q)' = PlannedDir(q)
                /\ InTarget(target, q, k)' = InTarget(target, q, k)
    BY <1>1 DEF InScan, DirsAt, Changed, Planned, PlannedDir, InTree, InTarget
<1>3. \A q : DirsAt(prev, q)' = DirsAt(prev, q) /\ DirsAt(cur, q)' = DirsAt(cur, q)
    BY <1>1 DEF DirsAt
<1>4. TypeOK'
    BY <1>1 DEF Inv, TypeOK, Is
<1>5. Placed' /\ Genuine'
    BY <1>1 DEF Inv, Placed, Genuine, Absent
<1>6. AllNested'
    <2>1. Closed(tree)' = Closed(tree) /\ Closed(cur)' = Closed(cur)
        BY <1>1 DEF Closed, DirsAt
    <2> QED BY <2>1, <1>1, <1>3 DEF Inv, AllNested
<1>7. Stages'
    BY <1>1 DEF Inv, Stages
<1>8. Tasks'
    BY <1>1, <1>2, <1>3 DEF Inv, Tasks, Absent, Torn
<1>9. FilesRight'
    <2>1. \A q, k : /\ Pending(q, k)' = Pending(q, k)
                    /\ Right(prev, q, k)' = Right(prev, q, k) /\ Right(cur, q, k)' = Right(cur, q, k)
        BY <1>1, <1>2 DEF Pending, Right, Absent
    <2> QED BY <2>1, <1>1 DEF Inv, FilesRight
<1>10. DirsRight'
    <2>1. \A q : Listed(prev, q)' = Listed(prev, q) /\ Listed(cur, q)' = Listed(cur, q)
        BY <1>1, <1>3 DEF Listed
    <2> QED BY <2>1, <1>1, <1>2 DEF Inv, DirsRight
<1>11. Exact' /\ TimesKept'
    BY <1>1 DEF Inv, Exact, TimesKept
<1> QED BY <1>4, <1>5, <1>6, <1>7, <1>8, <1>9, <1>10, <1>11 DEF Inv

LEMMA InvStep ==
    ASSUME OnePlace, DeletesInPlace, Inv, [Next]_vars
    PROVE  Inv'
<1>1. queue \subseteq Paths /\ jobs \subseteq Paths \X Names /\ DOMAIN open \subseteq Paths \X Names
      /\ deletes \subseteq Paths \X Names /\ doomed \subseteq Paths
    BY DEF Inv, TypeOK
<1>2. CASE ChangeSource
    BY <1>2, ChangeSourceEdits, EditKeeps
<1>3. CASE StartScan
    BY <1>3, StartScanKeeps
<1>4. CASE PlanBackup
    BY <1>4, PlanBackupKeeps
<1>5. CASE ProduceDir
    BY <1>5, ProduceDirKeeps
<1>6. CASE JoinWorkers
    BY <1>6, JoinWorkersKeeps
<1>7. CASE EndDeletes
    BY <1>7, EndDeletesKeeps
<1>8. CASE RestoreTimes
    BY <1>8, RestoreTimesKeeps
<1>9. CASE \E p \in queue : ScanDir(p)
    BY <1>9, ScanDirKeeps
<1>10. ASSUME NEW f \in jobs, OpenFile(f) PROVE Inv'
    <2>1. PICK p \in Paths, n \in Names : f = <<p, n>>
        BY <1>1
    <2> QED BY <2>1, <1>10, OpenFileKeeps
<1>11. ASSUME NEW f \in DOMAIN open, CloseFile(f) PROVE Inv'
    <2>1. PICK p \in Paths, n \in Names : f = <<p, n>>
        BY <1>1
    <2> QED BY <2>1, <1>11, CloseFileKeeps
<1>12. ASSUME NEW f \in deletes, DeleteFile(f) PROVE Inv'
    <2>1. PICK p \in Paths, n \in Names : f = <<p, n>>
        BY <1>1
    <2> QED BY <2>1, <1>12, DeleteFileKeeps
<1>13. ASSUME NEW p \in doomed, DeleteDir(p) PROVE Inv'
    BY <1>1, <1>13, DeleteDirKeeps
<1>14. CASE UNCHANGED vars
    BY <1>14, InvStutter
<1> QED BY <1>2, <1>3, <1>4, <1>5, <1>6, <1>7, <1>8, <1>9, <1>10, <1>11, <1>12, <1>13, <1>14
        DEF Next, Backup, Finished

-----------------------------------------------------------------------------
LEMMA InvAlways == OnePlace /\ DeletesInPlace /\ Spec => []Inv
<1> SUFFICES ASSUME OnePlace, DeletesInPlace PROVE Spec => []Inv
    OBVIOUS
<1>1. Init => Inv
    BY InvInit
<1>2. Inv /\ [Next]_vars => Inv'
    BY InvStep
<1> QED BY <1>1, <1>2, PTL DEF Spec

(* The variables of a backup always have values of their types.            *)
THEOREM TypeCorrect == OnePlace /\ DeletesInPlace /\ Spec => []TypeOK
<1>1. Inv => TypeOK
    BY DEF Inv
<1> QED BY <1>1, InvAlways, PTL

LEMMA InvMirrors ==
    ASSUME OnePlace, Inv
    PROVE  MirrorsTree
<1> SUFFICES ASSUME phase = "idle", rounds > 0, ~edited, ~scanFault, NEW p \in Paths
             PROVE  /\ <<p, "dir">> \notin suspect =>
                          (p \in DOMAIN target <=> DirsAt(tree, p) # {})
                    /\ \A n \in Names :
                          <<p, n>> \notin suspect => InTarget(target, p, n) = InTree(p, n).data
    BY DEF MirrorsTree
<1>1. plan = <<>> /\ jobs = {} /\ open = <<>> /\ deletes = {} /\ doomed = {}
    BY DEF Inv, Stages
<1>2. PlacedIn(tree) /\ PlacedIn(cur)
    BY TypesOfInv
<1>3. rounds # 0
    BY DEF Inv, TypeOK
<1>4. /\ DOMAIN cur = DOMAIN tree
      /\ \A i \in DOMAIN cur, n \in Names : cur[i].files[n].time = tree[i].files[n].time
    BY <1>3 DEF Inv, Exact
<1>5. \A i \in DOMAIN cur : cur[i].path = tree[i].path
    BY <1>2, <1>4, SameDir
<1>6. DirsAt(cur, p) = DirsAt(tree, p)
    BY <1>4, <1>5 DEF DirsAt
<1>7. ASSUME <<p, "dir">> \notin suspect
      PROVE  p \in DOMAIN target <=> DirsAt(tree, p) # {}
    <2>1. Listed(cur, p)
        BY <1>1, <1>7, NothingPending DEF Inv, DirsRight
    <2>2. p = <<>> => DirsAt(tree, p) # {}
        <3>1. Root \in DOMAIN tree /\ tree[Root].path = <<>>
            BY <1>2, TreeAssumption DEF Inv, Genuine, PlacedIn
        <3> QED BY <3>1 DEF DirsAt
    <2> QED BY <2>1, <2>2, <1>6 DEF Listed
<1>8. ASSUME NEW n \in Names, <<p, n>> \notin suspect
      PROVE  InTarget(target, p, n) = InTree(p, n).data
    <2>1. Right(cur, p, n)
        BY <1>1, <1>8, NothingPending DEF Inv, FilesRight
    <2>2. InTree(p, n).time = InScan(cur, p, n).time
        <3>1. CASE DirsAt(tree, p) = {}
            BY <3>1, <1>2, <1>6, TreeAt, InTreeIs, NotThere, NoFileZero
        <3>2. CASE DirsAt(tree, p) # {}
            <4>1. PICK i \in DOMAIN tree : tree[i].path = p
                BY <3>2 DEF DirsAt
            <4>2. InTree(p, n) = tree[i].files[n]
                BY <4>1, <1>2, TreeAt, InTreeIs
            <4>3. InScan(cur, p, n) = cur[i].files[n]
                BY <4>1, <1>2, <1>4, <1>5, AtPlace
            <4> QED BY <4>1, <4>2, <4>3, <1>4
        <3> QED BY <3>1, <3>2
    <2> QED BY <2>1, <2>2 DEF Right
<1> QED BY <1>7, <1>8

(* After a backup whose scan met no error, and if nobody has changed the   *)
(* source since, the target is the source, but for what an error of a copy *)
(* or a deletion, or a change within a recorded second, has left behind:   *)
(* after any history of changes, backups and errors.                       *)
THEOREM IncrementalBackupsMirror == OnePlace /\ DeletesInPlace /\ Spec => []MirrorsTree
<1> SUFFICES ASSUME OnePlace, DeletesInPlace PROVE Spec => []MirrorsTree
    OBVIOUS
<1>1. Inv => MirrorsTree
    BY InvMirrors
<1> QED BY <1>1, InvAlways, PTL

(* When a backup has ended every directory has the time its scan recorded, *)
(* unless setting it failed.                                               *)
THEOREM DirectoryTimesKept == OnePlace /\ DeletesInPlace /\ Spec => []TimesKept
<1>1. Inv => TimesKept
    BY DEF Inv
<1> QED BY <1>1, InvAlways, PTL

-----------------------------------------------------------------------------
(* What a step does to the files of the target.                            *)
LEMMA OnlyChangesStep ==
    ASSUME OnePlace, DeletesInPlace, Inv, [Next]_vars, NEW q \in Paths, NEW k \in Names,
           InTarget(target, q, k) # InTarget(target', q, k)
    PROVE  Changed(q, k) \/ <<q, k>> \in suspect'
<1>1. jobs \subseteq Paths \X Names /\ DOMAIN open \subseteq Paths \X Names
      /\ deletes \subseteq Paths \X Names /\ doomed \subseteq Paths
    BY DEF Inv, TypeOK
<1>2. target' # target
    OBVIOUS
<1>3. CASE ChangeSource
    BY <1>2, <1>3, ChangeSourceEdits DEF Edited
<1>4. CASE StartScan \/ PlanBackup \/ JoinWorkers \/ EndDeletes \/ \E p \in queue : ScanDir(p)
    BY <1>2, <1>4 DEF StartScan, PlanBackup, JoinWorkers, EndDeletes, ScanDir
<1>5. CASE ProduceDir
    BY <1>5, ProduceDirMakes
<1>6. CASE RestoreTimes
    <2>1. DOMAIN target' = DOMAIN target /\ \A p \in DOMAIN target : target'[p].files = target[p].files
        <3>1. IsTarget(target)
            BY TypesOfInv
        <3>2. \A p \in DOMAIN target : target[p] \in Item
            BY <3>1 DEF IsTarget
        <3>3. DOMAIN target' = DOMAIN target
              /\ \A p \in DOMAIN target : \E s : target'[p] = [target[p] EXCEPT !.stamp = s]
            BY <1>6 DEF RestoreTimes
        <3>4. \A p \in DOMAIN target : target'[p].files = target[p].files
            BY <3>2, <3>3 DEF Item
        <3> QED BY <3>3, <3>4
    <2> QED BY <2>1 DEF InTarget
<1>7. ASSUME NEW f \in jobs, OpenFile(f) PROVE Changed(q, k)
    <2>1. PICK p \in Paths, n \in Names : f = <<p, n>>
        BY <1>1
    <2>2. OpenedOne(p, n)
        BY <2>1, <1>7, OpenFileOpens
    <2>3. q = p /\ k = n
        BY <2>2 DEF OpenedOne
    <2> QED BY <2>1, <2>3, <1>7 DEF Inv, Tasks
<1>8. ASSUME NEW f \in DOMAIN open, CloseFile(f) PROVE Changed(q, k)
    <2>1. PICK p \in Paths, n \in Names : f = <<p, n>>
        BY <1>1
    <2>2. ClosedOne(p, n)
        BY <2>1, <1>8, CloseFileCloses
    <2>3. q = p /\ k = n
        BY <2>2 DEF ClosedOne
    <2> QED BY <2>1, <2>3, <1>8 DEF Inv, Tasks
<1>9. ASSUME NEW f \in deletes, DeleteFile(f) PROVE Changed(q, k) \/ <<q, k>> \in suspect'
    <2>1. PICK p \in Paths, n \in Names : f = <<p, n>>
        BY <1>1
    <2>2. ClearedOne(p, n)
        BY <2>1, <1>9, DeleteFileClears
    <2>3. q = p /\ k = n /\ suspect \subseteq suspect'
        BY <2>2 DEF ClearedOne
    <2> QED BY <2>1, <2>3, <1>9 DEF Inv, Tasks
<1>10. ASSUME NEW p \in doomed, DeleteDir(p) PROVE Changed(q, k) \/ <<q, k>> \in suspect'
    <2>1. RemovedOne(p)
        BY <1>1, <1>10, DeleteDirRemoves
    <2>2. p \in Prefixes(q) /\ InTarget(target, q, k) # NoData
        BY <2>1 DEF RemovedOne
    <2>3. InScan(cur, q, k) = Absent
        <3>1. DirsAt(cur, p) = {}
            BY <1>10 DEF Inv, Tasks
        <3>2. DirsAt(cur, q) = {}
            BY <3>1, <2>2 DEF Inv, AllNested, Closed, DirsAt
        <3> QED BY <3>2, NotThere
    <2>4. CASE <<q, k>> \in suspect
        BY <2>1, <2>4 DEF RemovedOne
    <2>5. CASE <<q, k>> \notin suspect
        <3>1. Pending(q, k) \/ Right(cur, q, k)
            BY <2>1, <2>5 DEF RemovedOne, Inv, FilesRight
        <3>2. ~Right(cur, q, k)
            BY <2>2, <2>3 DEF Right
        <3>3. plan = <<>> /\ jobs = {} /\ open = <<>> /\ deletes = {} /\ DOMAIN open = {} /\ DOMAIN plan = {}
            BY <2>1 DEF RemovedOne, Inv, Stages
        <3>4. InScan(prev, q, k) # Absent
            BY <3>1, <3>2, <3>3, <2>2 DEF Pending, Planned
        <3> QED BY <3>4, <2>3 DEF Changed
    <2> QED BY <2>4, <2>5
<1>11. CASE UNCHANGED vars
    BY <1>2, <1>11 DEF vars
<1> QED BY <1>3, <1>4, <1>5, <1>6, <1>7, <1>8, <1>9, <1>10, <1>11 DEF Next, Backup, Finished

(* A step of a backup changes a file of the target only if the diff's two  *)
(* scans recorded it differently, or an error or a change within a         *)
(* recorded second has made it suspect.                                    *)
THEOREM OnlyChangesTouched == OnePlace /\ DeletesInPlace /\ Spec => OnlyChanges
<1> SUFFICES ASSUME OnePlace, DeletesInPlace PROVE Spec => OnlyChanges
    OBVIOUS
<1>1. Inv /\ [Next]_vars =>
        [\A p \in Paths, n \in Names :
            InTarget(target, p, n) # InTarget(target', p, n) =>
                InScan(prev, p, n) # InScan(cur, p, n) \/ <<p, n>> \in suspect']_vars
    BY OnlyChangesStep DEF Changed
<1> QED BY <1>1, InvAlways, PTL DEF Spec, OnlyChanges


=============================================================================
