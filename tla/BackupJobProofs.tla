-------------------------- MODULE BackupJobProofs ---------------------------
(***************************************************************************)
(* Proofs about BackupJob, for every source, every division of it among    *)
(* subtasks, every link structure and format, and any number of errors and *)
(* crashes.                                                                *)
(***************************************************************************)
EXTENDS BackupJob, SequenceTheorems, FiniteSetTheorems, TLAPS

Phases == {"new", "source", "target", "magic", "scan", "spawn", "join", "manifest",
           "upload", "ok", "error", "crashed"}
Stages == {"none", "connect", "copy", "flush", "index", "links", "times", "ended"}
Inodes == DOMAIN Links
Groups == [groups : SUBSET Inodes, to : Files \cup {""}, rest : Seq(Files),
           step : {"check", "remove", "link"}]

(* The shape of the state: what is there for each subtask.                 *)
Shape ==
    /\ phase \in Phases
    /\ ctrl \in Seq(SUBSET Files)
    /\ at \in Nat \ {0}
    /\ stage \in [Subtasks -> Stages]
    /\ todo \in [Subtasks -> SUBSET Files]
    /\ open \in [Subtasks -> SUBSET (Files \X Files)]
    /\ buffer \in [Subtasks -> SUBSET Files]
    /\ blobs \in [Subtasks -> SUBSET SUBSET Files]
    /\ memory \in [Subtasks -> SUBSET Files]
    /\ group \in [Subtasks -> Groups]
    /\ copied \in [Subtasks -> SUBSET Files]
    /\ failed \in [Subtasks -> SUBSET Files]
    /\ DOMAIN names \subseteq Files /\ names \in [DOMAIN names -> Files]
    /\ status \in [Subtasks -> SUBSET {"RUNNING", "DONE", "FAILED"}]
    /\ record \in [Subtasks -> BOOLEAN]

(* The steps of the job, and those of a subtask.                           *)
Prerequisites == CreateDirs \/ CheckSource \/ WriteMagic \/ RemoveMagic

CopyStep(t) ==
    \/ Start(t) \/ JoinWorkers(t) \/ FlushBuffers(t) \/ EndFlush(t) \/ FlushIndexes(t)
    \/ \E f \in Files : Skip(t, f) \/ Open(t, f) \/ Push(t, f)
    \/ \E o \in open[t] : Close(t, o[1], o[2])
    \/ \E b \in blobs[t] : WriteBlob(t, b)

PhaseStep(t) ==
    \/ \E g \in DOMAIN Links : ChooseGroup(t, g)
    \/ CheckName(t) \/ RemoveName(t) \/ LinkName(t) \/ EndLinks(t) \/ RestoreTimes(t)

SubtaskStep(t) == CopyStep(t) \/ PhaseStep(t)

LEMMA Steps ==
    ASSUME [Next]_vars
    PROVE  \/ Prerequisites \/ Scan \/ Spawn \/ Join \/ WriteManifest \/ Upload \/ Crash
           \/ \E t \in Subtasks : SubtaskStep(t)
           \/ UNCHANGED vars
BY DEF Next, Prerequisites, SubtaskStep, CopyStep, PhaseStep, Finished

-----------------------------------------------------------------------------
(* The shape is kept.                                                      *)
LEMMA GroupsKept ==
    ASSUME Shape, NEW t \in Subtasks
    PROVE  /\ GoOn(t, "link") => group' \in [Subtasks -> Groups]
           /\ GoOn(t, "remove") => group' \in [Subtasks -> Groups]
           /\ group[t].rest # <<>> /\ Advance(t) => group' \in [Subtasks -> Groups]
<1>1. group \in [Subtasks -> Groups] /\ group[t] \in Groups
  BY DEF Shape
<1>3. ASSUME group[t].rest # <<>> PROVE Tail(group[t].rest) \in Seq(Files)
  <2>1. group[t].rest \in Seq(Files)
    BY <1>1 DEF Groups
  <2>2. QED BY <1>3, <2>1, HeadTailProperties
<1>4. ASSUME NEW s \in {"link", "remove"}, GoOn(t, s) PROVE group' \in [Subtasks -> Groups]
  <2>1. group' = [group EXCEPT ![t] = [group[t] EXCEPT !.step = s]]
    BY <1>4 DEF GoOn
  <2>2. [group[t] EXCEPT !.step = s] \in Groups
    BY <1>1 DEF Groups
  <2>3. QED BY <1>1, <2>1, <2>2
<1>5. ASSUME group[t].rest # <<>>, Advance(t) PROVE group' \in [Subtasks -> Groups]
  <2>1. group' = [group EXCEPT ![t] = [group[t] EXCEPT !.rest = Tail(group[t].rest), !.step = "check"]]
    BY <1>1, <1>5 DEF Advance, Groups
  <2>2. [group[t] EXCEPT !.rest = Tail(group[t].rest), !.step = "check"] \in Groups
    BY <1>1, <1>3, <1>5 DEF Groups
  <2>3. QED BY <1>1, <2>1, <2>2
<1>6. QED BY <1>4, <1>5

LEMMA ShapeInit == Init => Shape
BY DEF Init, Shape, Phases, Subtasks

LEMMA ShapeStep == Shape /\ [Next]_vars => Shape'
<1> SUFFICES ASSUME Shape, [Next]_vars PROVE Shape'
  OBVIOUS
<1> USE DEF job, copying, report, target, history
<1>1. CASE Prerequisites
  BY <1>1 DEF Prerequisites, CreateDirs, CheckSource, WriteMagic, RemoveMagic, Prereq, Shape, Phases, Subtasks
<1>2. CASE Scan
  <2>1. ctrl' \in Seq(SUBSET Files)
    BY <1>2, SequencesAssumption DEF Scan
  <2>2. NoGroup \in Groups
    BY DEF NoGroup, Groups
  <2>3. todo' \in [Subtasks' -> SUBSET Files]
    BY <1>2, <2>1 DEF Scan, Subtasks
  <2>4. QED BY <1>2, <2>1, <2>2, <2>3 DEF Scan, Shape, Phases, Stages, Subtasks
<1>3. CASE Spawn
  <2>1. UNCHANGED <<ctrl, todo, open, buffer, blobs, memory, group, copied, failed, names, record>>
    BY <1>3 DEF Spawn
  <2>2. CASE at \in Subtasks
    <3>1. stage' \in [Subtasks -> Stages] /\ phase' \in Phases /\ at' \in Nat \ {0}
      BY <1>3, <2>2 DEF Spawn, Shape, Stages
    <3>2. status' \in [Subtasks -> SUBSET {"RUNNING", "DONE", "FAILED"}]
      BY <1>3, <2>2 DEF Spawn, Noted, Shape
    <3>3. QED BY <2>1, <3>1, <3>2 DEF Shape, Subtasks
  <2>3. CASE at \notin Subtasks
    BY <1>3, <2>1, <2>3 DEF Spawn, Shape, Phases, Subtasks
  <2>4. QED BY <2>2, <2>3
<1>4. CASE Join
  <2>1. Succeeded(at) \in BOOLEAN
    BY DEF Succeeded
  <2>2. UNCHANGED <<ctrl, stage, todo, open, buffer, blobs, memory, group, copied, failed, names>>
    BY <1>4 DEF Join
  <2>3. CASE at \in Subtasks
    <3>1. record' \in [Subtasks -> BOOLEAN] /\ phase' \in Phases /\ at' \in Nat \ {0}
      BY <1>4, <2>1, <2>3 DEF Join, Shape
    <3>2. status' \in [Subtasks -> SUBSET {"RUNNING", "DONE", "FAILED"}]
      BY <1>4, <2>3 DEF Join, Noted, Shape
    <3>3. QED BY <2>2, <3>1, <3>2 DEF Shape, Subtasks
  <2>4. CASE at \notin Subtasks
    BY <1>4, <2>2, <2>4 DEF Join, Shape, Phases, Subtasks
  <2>5. QED BY <2>3, <2>4
<1>5. CASE WriteManifest \/ Upload \/ Crash
  BY <1>5 DEF WriteManifest, Upload, Crash, Shape, Phases, Subtasks
<1>6. ASSUME NEW t \in Subtasks, CopyStep(t) PROVE Shape'
  <2>1. CASE Start(t)
    BY <2>1 DEF Start, Shape, Stages, Subtasks
  <2>2. CASE JoinWorkers(t)
    <3>1. group' \in [Subtasks -> Groups]
      <4>1. group' = [group EXCEPT ![t] = [group[t] EXCEPT !.groups = DOMAIN Links]]
        BY <2>2 DEF JoinWorkers
      <4>2. DOMAIN Links \in SUBSET Inodes
        BY DEF Inodes
      <4>3. group[t] \in Groups
        BY DEF Shape
      <4>4. [group[t] EXCEPT !.groups = DOMAIN Links] \in Groups
        BY <4>2, <4>3 DEF Groups
      <4>5. QED BY <4>1, <4>4 DEF Shape
    <3>2. QED BY <2>2, <3>1 DEF JoinWorkers, Shape, Stages, Subtasks
  <2>3. CASE FlushBuffers(t)
    <3>1. PICK own \in SUBSET Files :
             /\ buffer' = [buffer EXCEPT ![t] = @ \ own]
             /\ blobs' = [blobs EXCEPT ![t] = @ \cup {own}]
      BY <2>3 DEF FlushBuffers, Shape
    <3>2. QED BY <2>3, <3>1 DEF FlushBuffers, Shape, Subtasks
  <2>4. CASE EndFlush(t) \/ FlushIndexes(t)
    BY <2>4 DEF EndFlush, FlushIndexes, Shape, Stages, Subtasks
  <2>5. ASSUME NEW f \in Files, Skip(t, f) PROVE Shape'
    BY <2>5 DEF Skip, Shape, Subtasks
  <2>6. ASSUME NEW f \in Files, Open(t, f) PROVE Shape'
    <3>1. DOMAIN names' \subseteq Files /\ names' \in [DOMAIN names' -> Files]
      BY <2>6 DEF Open, Named, Shape
    <3>2. open' \in [Subtasks -> SUBSET (Files \X Files)]
      <4>1. open \in [Subtasks -> SUBSET (Files \X Files)]
        BY DEF Shape
      <4>2. CASE open' = [open EXCEPT ![t] = @ \cup {<<f, names'[f]>>}] /\ f \in DOMAIN names'
        <5>1. names'[f] \in Files
          BY <3>1, <4>2
        <5>2. QED BY <4>1, <4>2, <5>1
      <4>3. CASE open' = open
        BY <4>1, <4>3
      <4>4. \/ open' = open
            \/ open' = [open EXCEPT ![t] = @ \cup {<<f, names'[f]>>}] /\ f \in DOMAIN names'
        BY <2>6 DEF Open, Named
      <4>5. QED BY <4>2, <4>3, <4>4
    <3>3. failed' \in [Subtasks -> SUBSET Files] /\ todo' \in [Subtasks -> SUBSET Files]
      BY <2>6 DEF Open, Fail, Shape
    <3>4. QED BY <2>6, <3>1, <3>2, <3>3 DEF Open, Shape, Subtasks
  <2>7. ASSUME NEW f \in Files, Push(t, f) PROVE Shape'
    <3>1. PICK own \in SUBSET Files :
             \/ buffer' = [buffer EXCEPT ![t] = @ \cup {f}] /\ UNCHANGED blobs
             \/ /\ buffer' = [buffer EXCEPT ![t] = @ \ own]
                /\ blobs' = [blobs EXCEPT ![t] = @ \cup {own}]
      BY <2>7 DEF Push, Shape
    <3>2. buffer' \in [Subtasks -> SUBSET Files] /\ blobs' \in [Subtasks -> SUBSET SUBSET Files]
      <4>1. CASE buffer' = [buffer EXCEPT ![t] = @ \cup {f}] /\ UNCHANGED blobs
        BY <4>1 DEF Shape
      <4>2. CASE /\ buffer' = [buffer EXCEPT ![t] = @ \ own]
                 /\ blobs' = [blobs EXCEPT ![t] = @ \cup {own}]
        <5>1. buffer' \in [Subtasks -> SUBSET Files]
          BY <4>2 DEF Shape
        <5>2. blobs[t] \cup {own} \in SUBSET SUBSET Files
          BY DEF Shape
        <5>3. QED BY <4>2, <5>1, <5>2 DEF Shape
      <4>3. QED BY <3>1, <4>1, <4>2
    <3>3. QED BY <2>7, <3>2 DEF Push, Shape, Subtasks
  <2>8. ASSUME NEW o \in open[t], Close(t, o[1], o[2]) PROVE Shape'
    <3>1. o \in Files \X Files
      BY DEF Shape
    <3>2. QED BY <2>8, <3>1 DEF Close, Fail, Shape, Subtasks
  <2>9. ASSUME NEW b \in blobs[t], WriteBlob(t, b) PROVE Shape'
    <3>1. b \in SUBSET Files
      BY DEF Shape
    <3>2. QED BY <2>9, <3>1 DEF WriteBlob, BlobFailed, AddToIndex, Fail, Shape, Subtasks
  <2>10. QED BY <1>6, <2>1, <2>2, <2>3, <2>4, <2>5, <2>6, <2>7, <2>8, <2>9 DEF CopyStep
<1>7. ASSUME NEW t \in Subtasks, PhaseStep(t) PROVE Shape'
  <2>1. ASSUME NEW g \in DOMAIN Links, ChooseGroup(t, g) PROVE Shape'
    <3>1. Links[g] \in Seq(Files)
      BY SequencesAssumption
    <3>2. group[t].groups \ {g} \in SUBSET Inodes
      BY DEF Shape, Groups
    <3>3. PICK new \in Groups : group' = [group EXCEPT ![t] = new]
      <4>1. [NoGroup EXCEPT !.groups = group[t].groups \ {g}] \in Groups
        BY <3>2, EmptySeq DEF NoGroup, Groups
      <4>2. ASSUME NEW n \in DOMAIN Links[g]
            PROVE  [groups |-> group[t].groups \ {g}, to |-> Links[g][n], rest |-> Links[g],
                    step |-> "check"] \in Groups
        <5>1. Links[g][n] \in Files
          BY <3>1
        <5>2. QED BY <3>1, <3>2, <5>1 DEF Groups
      <4>3. QED BY <2>1, <4>1, <4>2 DEF ChooseGroup
    <3>4. group' \in [Subtasks -> Groups]
      BY <3>3 DEF Shape
    <3>5. QED BY <2>1, <3>4 DEF ChooseGroup, Shape, Subtasks
  <2>2. CASE CheckName(t)
    BY <2>2, GroupsKept DEF CheckName, Shape, Subtasks
  <2>3. CASE RemoveName(t)
    <3>1. DOMAIN names' \subseteq Files /\ names' \in [DOMAIN names' -> Files]
      BY <2>3 DEF RemoveName, Shape, Restrict
    <3>2. group' \in [Subtasks -> Groups]
      BY <2>3, GroupsKept DEF RemoveName
    <3>3. QED BY <2>3, <3>1, <3>2 DEF RemoveName, Shape, Subtasks
  <2>4. CASE LinkName(t)
    <3>1. Head(group[t].rest) \in Files
      <4>1. group[t].rest \in Seq(Files) /\ group[t].rest # <<>>
        BY <2>4 DEF LinkName, Shape, Groups
      <4>2. QED BY <4>1, HeadTailProperties
    <3>2. DOMAIN names' \subseteq Files /\ names' \in [DOMAIN names' -> Files]
      BY <2>4, <3>1 DEF LinkName, Named, Shape
    <3>3. group' \in [Subtasks -> Groups]
      BY <2>4, GroupsKept DEF LinkName
    <3>4. QED BY <2>4, <3>2, <3>3 DEF LinkName, Shape, Subtasks
  <2>5. CASE EndLinks(t) \/ RestoreTimes(t)
    BY <2>5 DEF EndLinks, RestoreTimes, Shape, Stages, Subtasks
  <2>6. QED BY <1>7, <2>1, <2>2, <2>3, <2>4, <2>5 DEF PhaseStep
<1>8. CASE UNCHANGED vars
  BY <1>8 DEF vars, Shape, Subtasks
<1>9. QED BY <1>1, <1>2, <1>3, <1>4, <1>5, <1>6, <1>7, <1>8, Steps DEF SubtaskStep

-----------------------------------------------------------------------------
(* What the job has said of a subtask when it has joined it, and before.   *)
Told(t) ==
    /\ stage[t] = "ended"
    /\ "DONE" \in status[t] => record[t]
    /\ "FAILED" \in status[t] => ~record[t]
    /\ "RUNNING" \in status[t] => "status" \in missed

Untold(t) == status[t] \subseteq {"RUNNING"}

(* The job joins its subtasks in order and uploads the parts of the        *)
(* repositories in order, the manifest last; with it the job has ended.    *)
Orderly ==
    /\ phase \in {"new", "source", "target", "magic", "scan"} => ctrl = <<>>
    /\ phase = "spawn" => \A t \in Subtasks : Untold(t) /\ (at <= t => stage[t] = "none")
    /\ phase = "join" => \A t \in Subtasks : IF t < at THEN Told(t) ELSE Untold(t)
    /\ phase \in {"manifest", "upload", "ok"} => \A t \in Subtasks : Told(t)
    /\ phase = "upload" =>
          /\ at <= Len(Parts) + 1
          /\ \A n \in 1 .. Len(Parts) : n < at => Parts[n] \in placed \cup missed
    /\ phase = "ok" /\ remote => Range(Parts) \subseteq placed \cup missed
    /\ "manifest" \in placed => phase = "ok"

-----------------------------------------------------------------------------
(* Only a subtask that aggregates has files in buffers and blobs, and an   *)
(* index; one that has ended has nothing in progress.                      *)
Progress(t) ==
    /\ t \notin engine => buffer[t] = {} /\ blobs[t] = {} /\ memory[t] = {}
    /\ stage[t] \in {"none", "connect"} =>
          open[t] = {} /\ buffer[t] = {} /\ blobs[t] = {} /\ memory[t] = {}
    /\ stage[t] \in {"flush", "index", "links", "times", "ended"} => todo[t] = {} /\ open[t] = {}
    /\ stage[t] \in {"index", "links", "times", "ended"} => buffer[t] = {} /\ blobs[t] = {}
    /\ stage[t] # "links" => group[t].rest = <<>>
    /\ record[t] => stage[t] = "ended" /\ failed[t] = {}

FormatFits ==
    /\ remote => format = "common"
    /\ engine # {} => format # "common"

(* No file of a subtask is forgotten: it is still to be copied, or on its  *)
(* way, or counted, or an error was logged.                                *)
Opened(t) == {o[1] : o \in open[t]}

Covered(t) ==
    \A f \in ctrl[t] :
        \/ f \in todo[t] \/ f \in Opened(t) \/ f \in buffer[t] \/ (\E b \in blobs[t] : f \in b)
        \/ f \in copied[t] \/ f \in failed[t] \/ f \in lost

Indexed(t) == stage[t] \in {"links", "times", "ended"} => memory[t] \subseteq index \cup lost

(* A file that was written has its name, unless a subtask has just removed *)
(* it to link it, or could not make the link.                              *)
Relinked(f) ==
    \E v \in Subtasks : group[v].rest # <<>> /\ Head(group[v].rest) = f /\ group[v].step = "link"

HasName ==
    \A t \in Subtasks : \A f \in Opened(t) \cup (copied[t] \ memory[t]) :
        f \in DOMAIN names \/ f \in lost \/ Relinked(f)

(* A name leads to an inode of its group, that is whole, or being written, *)
(* or was spoilt by a copy that failed.                                    *)
Grouped ==
    /\ \A n \in DOMAIN names : names[n] \in Alike(n)
    /\ \A t \in Subtasks :
          /\ \A o \in open[t] : o[2] \in Alike(o[1])
          /\ \A f \in Range(group[t].rest) : group[t].to \in Alike(f)

Sound ==
    \A n \in DOMAIN names :
        \/ names[n] \in whole
        \/ \E u \in Subtasks : \E o \in open[u] : o[1] \in Alike(n) /\ o[2] = names[n]
        \/ \E u \in Subtasks : Alike(n) \cap failed[u] # {}

InCharge(t) == Progress(t) /\ Covered(t) /\ Indexed(t)

Inv ==
    /\ Shape /\ Orderly /\ FormatFits /\ HasName /\ Grouped /\ Sound
    /\ \A t \in Subtasks : InCharge(t)

-----------------------------------------------------------------------------
(* A subtask changes nothing of the job and nothing of another subtask,    *)
(* and what it is done with it does not begin again.                       *)
Frame(t) ==
    /\ UNCHANGED <<job, report>>
    /\ missed \subseteq missed' /\ lost \subseteq lost'
    /\ stage[t] \in {"none", "ended"} => stage'[t] = stage[t]
    /\ engine \subseteq engine' /\ engine' \subseteq engine \cup {t}
    /\ engine' # engine => format # "common"
    /\ index \subseteq index' /\ held \subseteq held'
    /\ \A u \in Subtasks \ {t} :
          /\ stage'[u] = stage[u] /\ group'[u] = group[u]
          /\ todo'[u] = todo[u] /\ open'[u] = open[u] /\ buffer'[u] = buffer[u]
          /\ blobs'[u] = blobs[u] /\ memory'[u] = memory[u]
          /\ copied'[u] = copied[u] /\ failed'[u] = failed[u]

LEMMA SubtaskFrame ==
    ASSUME Shape, NEW t \in Subtasks, SubtaskStep(t)
    PROVE  Frame(t)
<1> USE DEF job, copying, report, target, history, Shape, Frame
<1>1. CASE Start(t) \/ JoinWorkers(t) \/ FlushBuffers(t) \/ EndFlush(t) \/ FlushIndexes(t)
  BY <1>1 DEF Start, JoinWorkers, FlushBuffers, EndFlush, FlushIndexes
<1>2. ASSUME NEW f \in Files, Skip(t, f) \/ Open(t, f) \/ Push(t, f) PROVE Frame(t)
  BY <1>2 DEF Skip, Open, Push, Fail
<1>3. ASSUME NEW o \in open[t], Close(t, o[1], o[2]) PROVE Frame(t)
  BY <1>3 DEF Close, Fail
<1>4. ASSUME NEW b \in blobs[t], WriteBlob(t, b) PROVE Frame(t)
  BY <1>4 DEF WriteBlob, BlobFailed, Fail, AddToIndex, HoldBlob
<1>5. ASSUME NEW g \in DOMAIN Links, ChooseGroup(t, g) PROVE Frame(t)
  BY <1>5 DEF ChooseGroup
<1>6. CASE CheckName(t) \/ RemoveName(t) \/ LinkName(t)
  BY <1>6 DEF CheckName, RemoveName, LinkName, Advance, GoOn
<1>7. CASE EndLinks(t) \/ RestoreTimes(t)
  BY <1>7 DEF EndLinks, RestoreTimes
<1>8. QED BY <1>1, <1>2, <1>3, <1>4, <1>5, <1>6, <1>7 DEF SubtaskStep, CopyStep, PhaseStep

LEMMA OrderlyStep == Shape /\ Orderly /\ [Next]_vars => Orderly'
<1> SUFFICES ASSUME Shape, Orderly, [Next]_vars PROVE Orderly'
  OBVIOUS
<1> USE DEF job, copying, report, target, history
<1>1. CASE Prerequisites
  BY <1>1 DEF Prerequisites, CreateDirs, CheckSource, WriteMagic, RemoveMagic, Prereq, Orderly, Subtasks
<1>2. CASE Scan
  BY <1>2 DEF Scan, Orderly, Subtasks, Untold
<1>3. CASE Spawn
  <2>1. UNCHANGED <<ctrl, record, placed, remote>> /\ phase = "spawn" /\ phase' \in {"spawn", "join"}
    BY <1>3 DEF Spawn
  <2>2. \A t \in Subtasks : Untold(t)'
    BY <1>3, <2>1 DEF Spawn, Noted, Orderly, Untold, Shape
  <2>3. phase' = "join" => at' = 1
    BY <1>3 DEF Spawn
  <2>4. Subtasks = 1 .. Len(ctrl) /\ at \in Nat
    BY DEF Subtasks, Shape
  <2>5. phase' = "spawn" => \A t \in Subtasks : at' <= t => stage'[t] = "none"
    <3>1. phase' = "spawn" => at' = at + 1 /\ stage' = [stage EXCEPT ![at] = "connect"]
      BY <1>3, <2>1 DEF Spawn
    <3>2. \A t \in Subtasks : at <= t => stage[t] = "none"
      BY <2>1 DEF Orderly
    <3>3. QED BY <2>4, <3>1, <3>2 DEF Shape
  <2>6. QED BY <2>1, <2>2, <2>3, <2>4, <2>5 DEF Orderly, Subtasks
<1>4. CASE Join
  <2>1. UNCHANGED <<ctrl, placed, remote, stage>> /\ phase = "join" /\ at \in Nat \ {0}
    BY <1>4 DEF Join, Shape
  <2>2. Subtasks = 1 .. Len(ctrl) /\ Len(ctrl) \in Nat
    BY DEF Subtasks, Shape
  <2>3. CASE at \in Subtasks
    <3>1. phase' = phase /\ at' = at + 1 /\ missed \subseteq missed'
      BY <1>4, <2>3 DEF Join, Noted
    <3>2. \A t \in Subtasks \ {at} : status'[t] = status[t] /\ record'[t] = record[t]
      BY <1>4, <2>3 DEF Join, Noted, Shape
    <3>3. \A t \in Subtasks : t < at => Told(t)'
      BY <2>1, <3>1, <3>2 DEF Orderly, Told
    <3>4. \A t \in Subtasks : t > at => Untold(t)'
      BY <2>1, <2>2, <3>2 DEF Orderly, Untold
    <3>5. ASSUME NEW t \in Subtasks, t = at PROVE Told(t)'
      <4>1. Untold(at) /\ stage[at] = "ended" /\ record'[at] = Succeeded(at)
        BY <1>4, <2>1, <2>3 DEF Join, Joinable, Orderly, Shape
      <4>2. \/ status'[at] = {IF Succeeded(at) THEN "DONE" ELSE "FAILED"}
            \/ status'[at] = status[at] /\ "status" \in missed'
        BY <1>4, <2>3 DEF Join, Noted, Shape
      <4>3. Succeeded(at) \in BOOLEAN
        BY DEF Succeeded
      <4>4. CASE status'[at] = status[at] /\ "status" \in missed'
        BY <2>1, <3>5, <4>1, <4>4 DEF Told, Untold
      <4>5. CASE status'[at] = {IF Succeeded(at) THEN "DONE" ELSE "FAILED"}
        BY <2>1, <3>5, <4>1, <4>3, <4>5 DEF Told
      <4>6. QED BY <4>2, <4>4, <4>5
    <3>6. \A t \in Subtasks : IF t < at' THEN Told(t)' ELSE Untold(t)'
      BY <2>1, <2>2, <3>1, <3>3, <3>4, <3>5
    <3>7. QED BY <2>1, <3>1, <3>6 DEF Orderly, Subtasks
  <2>4. CASE at \notin Subtasks
    <3>1. phase' = "manifest" /\ UNCHANGED <<at, record, status, missed>>
      BY <1>4, <2>4 DEF Join
    <3>2. \A t \in Subtasks : t < at
      BY <2>1, <2>2, <2>4
    <3>3. QED BY <2>1, <3>1, <3>2 DEF Orderly, Told, Subtasks
  <2>5. QED BY <2>3, <2>4
<1>5. CASE WriteManifest
  <2>1. \A t \in Subtasks : Told(t)'
    BY <1>5 DEF WriteManifest, Orderly, Told
  <2>2. QED BY <1>5, <2>1 DEF WriteManifest, Orderly, Subtasks
<1>6. CASE Upload
  <2>1. UNCHANGED <<ctrl, remote, stage, status, record>> /\ phase = "upload" /\ missed \subseteq missed'
        /\ placed \subseteq placed' /\ at' = at + 1
    BY <1>6 DEF Upload
  <2>2. \A t \in Subtasks : Told(t)'
    BY <2>1 DEF Orderly, Told
  <2>3. Len(UploadOrder) = Len(Parts) + 1 /\ Len(Parts) \in Nat /\ UploadOrder[Len(Parts) + 1] = "manifest"
        /\ \A n \in 1 .. Len(Parts) : UploadOrder[n] = Parts[n] /\ Parts[n] # "manifest"
    <3>1. Parts \in Seq(Range(Parts)) /\ "manifest" \notin Range(Parts)
      BY SequencesAssumption
    <3>2. Parts \in Seq(Range(Parts) \cup {"manifest"}) /\ Len(Parts) \in Nat
      BY <3>1, SeqMonotonic
    <3>3. \A n \in 1 .. Len(Parts) : Parts[n] \in Range(Parts)
      BY <3>1
    <3>4. QED BY <3>1, <3>2, <3>3, AppendProperties DEF UploadOrder
  <2>4. at \in Nat \ {0} /\ at <= Len(Parts) + 1
    BY <2>1 DEF Orderly, Shape
  <2>5. CASE at = Len(Parts) + 1
    BY <1>6, <2>1, <2>2, <2>3, <2>4, <2>5 DEF Upload, Orderly, Subtasks, Range
  <2>6. CASE at < Len(Parts) + 1
    <3>1. Parts[at] \in placed' \cup missed' \/ phase' = "error"
      BY <1>6, <2>3, <2>4, <2>6 DEF Upload
    <3>2. phase' \in {"upload", "error"} /\ ("manifest" \in placed' => "manifest" \in placed)
      BY <1>6, <2>3, <2>4, <2>6 DEF Upload
    <3>3. \A n \in 1 .. Len(Parts) : n < at' => n < at \/ n = at
      BY <2>1, <2>4
    <3>4. QED BY <2>1, <2>2, <2>3, <2>4, <2>6, <3>1, <3>2, <3>3 DEF Orderly, Subtasks
  <2>7. QED BY <2>3, <2>4, <2>5, <2>6
<1>7. CASE Crash
  BY <1>7 DEF Crash, Orderly
<1>8. ASSUME NEW t \in Subtasks, SubtaskStep(t) PROVE Orderly'
  <2>1. UNCHANGED <<phase, remote, ctrl, at, placed, status, record>> /\ missed \subseteq missed'
    BY <1>8, SubtaskFrame DEF Frame
  <2>2. \A u \in Subtasks : stage[u] \in {"none", "ended"} => stage'[u] = stage[u]
    BY <1>8, SubtaskFrame DEF Frame
  <2>3. \A u \in Subtasks : (Told(u) => Told(u)') /\ (Untold(u) => Untold(u)')
    BY <2>1, <2>2 DEF Told, Untold
  <2>4. QED BY <2>1, <2>2, <2>3 DEF Orderly, Subtasks
<1>9. CASE UNCHANGED vars
  BY <1>9 DEF vars, Orderly, Told, Untold, Subtasks
<1>10. QED BY <1>1, <1>2, <1>3, <1>4, <1>5, <1>6, <1>7, <1>8, <1>9, Steps

-----------------------------------------------------------------------------
(* A step of the job leaves the copying alone: it lets a subtask begin, or *)
(* records that one has succeeded.                                         *)
JobStep == Prerequisites \/ Spawn \/ Join \/ WriteManifest \/ Upload \/ Crash

LEMMA JobFrame ==
    ASSUME Inv, JobStep
    PROVE  /\ UNCHANGED <<format, remote, ctrl, copying, group, copied, failed, target, lost>>
           /\ \A u \in Subtasks :
                 /\ stage'[u] = stage[u] \/ (stage[u] = "none" /\ stage'[u] = "connect")
                 /\ record'[u] => record[u] \/ (stage[u] = "ended" /\ failed[u] = {})
<1> USE DEF Inv, Shape, job, copying, report, target, history
<1>1. CASE Prerequisites
  BY <1>1 DEF Prerequisites, CreateDirs, CheckSource, WriteMagic, RemoveMagic, Prereq
<1>2. CASE Spawn
  <2>1. phase = "spawn" /\ (at \in Subtasks => stage[at] = "none")
    BY <1>2 DEF Spawn, Orderly
  <2>2. QED BY <1>2, <2>1 DEF Spawn
<1>3. CASE Join
  BY <1>3 DEF Join, Succeeded
<1>4. CASE WriteManifest \/ Upload \/ Crash
  BY <1>4 DEF WriteManifest, Upload, Crash
<1>5. QED BY <1>1, <1>2, <1>3, <1>4 DEF JobStep

LEMMA JobKeeps ==
    ASSUME Inv, JobStep
    PROVE  FormatFits' /\ HasName' /\ Grouped' /\ Sound' /\ \A t \in Subtasks : InCharge(t)'
<1>1. UNCHANGED <<format, remote, ctrl, copying, group, copied, failed, target, lost>>
  BY JobFrame
<1> USE DEF copying, target
<1>2. \A u \in Subtasks :
         /\ stage'[u] = stage[u] \/ (stage[u] = "none" /\ stage'[u] = "connect")
         /\ record'[u] => record[u] \/ (stage[u] = "ended" /\ failed[u] = {})
  BY JobFrame
<1>3. FormatFits' /\ HasName' /\ Grouped' /\ Sound'
  BY <1>1 DEF Inv, FormatFits, HasName, Relinked, Opened, Grouped, Alike, Sound, Subtasks
<1>4. \A t \in Subtasks : InCharge(t)'
  BY <1>1, <1>2 DEF Inv, InCharge, Progress, Covered, Opened, Indexed
<1>5. QED BY <1>3, <1>4

(* The scan begins with no subtask, so with no file that is being written. *)
LEMMA ScanKeeps ==
    ASSUME Inv, Scan
    PROVE  FormatFits' /\ HasName' /\ Grouped' /\ Sound' /\ \A t \in Subtasks' : InCharge(t)'
<1> USE DEF target, Scan
<1>1. Subtasks = {}
  BY DEF Inv, Orderly, Subtasks
<1>2. FormatFits' /\ Sound'
  BY <1>1 DEF Inv, FormatFits, Sound
<1>3. \A t \in Subtasks' : /\ group'[t].rest = <<>> /\ Opened(t)' = {} /\ memory'[t] = {}
                           /\ copied'[t] = {} /\ open'[t] = {} /\ todo'[t] = ctrl'[t]
                           /\ buffer'[t] = {} /\ blobs'[t] = {} /\ stage'[t] = "none" /\ ~record'[t]
  BY DEF Subtasks, Opened, NoGroup
<1>4. HasName'
  BY <1>3 DEF HasName
<1>5. Grouped'
  <2>1. \A t \in Subtasks' : Range(group'[t].rest) = {}
    BY <1>3 DEF Range
  <2>2. QED BY <1>3, <2>1 DEF Inv, Grouped, Alike
<1>6. ASSUME NEW t \in Subtasks' PROVE InCharge(t)'
  <2>1. Progress(t)' /\ Indexed(t)'
    BY <1>3 DEF Progress, Indexed
  <2>2. Covered(t)'
    BY <1>3 DEF Covered
  <2>3. QED BY <2>1, <2>2 DEF InCharge
<1>7. QED BY <1>2, <1>4, <1>5, <1>6

-----------------------------------------------------------------------------
(* Names that are alike are the names of one inode.                        *)
LEMMA AlikeClass ==
    ASSUME NEW f \in Files
    PROVE  f \in Alike(f) /\ \A h \in Alike(f) : Alike(h) = Alike(f)
<1>1. f \in Alike(f)
  BY DEF Alike
<1>2. ASSUME NEW h \in Alike(f), h # f PROVE Alike(h) = Alike(f)
  <2>1. PICK g \in DOMAIN Links : f \in Range(Links[g]) /\ h \in Range(Links[g])
    BY <1>2 DEF Alike
  <2>2. \A k \in DOMAIN Links : (f \in Range(Links[k]) \/ h \in Range(Links[k])) => k = g
    BY <2>1, FilesAssumption
  <2>3. QED BY <2>1, <2>2 DEF Alike
<1>3. QED BY <1>1, <1>2

(* A name that is dealt with leaves the names of the group that are left.  *)
LEMMA Advanced ==
    ASSUME Shape, NEW t \in Subtasks, group[t].rest # <<>>, Advance(t)
    PROVE  /\ group'[t].to = group[t].to /\ group'[t].step = "check"
           /\ \A f \in Range(group'[t].rest) : f \in Range(group[t].rest)
<1>1. group'[t] = [group[t] EXCEPT !.rest = Tail(group[t].rest), !.step = "check"] /\ group[t] \in Groups
  BY DEF Advance, Shape, Groups
<1>2. group'[t].rest = Tail(group[t].rest) /\ group'[t].to = group[t].to /\ group'[t].step = "check"
  BY <1>1 DEF Groups
<1>3. group[t].rest \in Seq(Files)
  BY <1>1 DEF Groups
<1>4. ASSUME NEW f \in Range(group'[t].rest) PROVE f \in Range(group[t].rest)
  <2>1. PICK n \in DOMAIN Tail(group[t].rest) : f = Tail(group[t].rest)[n]
    BY <1>2, <1>4 DEF Range
  <2>2. n + 1 \in DOMAIN group[t].rest /\ f = group[t].rest[n + 1]
    BY <1>3, <2>1
  <2>3. QED BY <2>2 DEF Range
<1>5. QED BY <1>2, <1>4

(* Before the hardlink phase, no group is chosen or left.                  *)
LEMMA CopyGroups ==
    ASSUME Shape, NEW t \in Subtasks, CopyStep(t), NEW u \in Subtasks
    PROVE  group'[u].rest = group[u].rest /\ group'[u].to = group[u].to /\ group'[u].step = group[u].step
<1> USE DEF copying, Shape
<1>1. CASE JoinWorkers(t)
  <2>1. group' = [group EXCEPT ![t] = [group[t] EXCEPT !.groups = DOMAIN Links]]
    BY <1>1 DEF JoinWorkers
  <2>2. group[u] \in Groups
    OBVIOUS
  <2>3. QED BY <2>1, <2>2 DEF Groups
<1>2. CASE Start(t) \/ FlushBuffers(t) \/ EndFlush(t) \/ FlushIndexes(t)
  BY <1>2 DEF Start, FlushBuffers, EndFlush, FlushIndexes
<1>3. ASSUME NEW f \in Files, Skip(t, f) \/ Open(t, f) \/ Push(t, f) PROVE group' = group
  BY <1>3 DEF Skip, Open, Push
<1>4. ASSUME NEW o \in open[t], Close(t, o[1], o[2]) PROVE group' = group
  BY <1>4 DEF Close
<1>5. ASSUME NEW b \in blobs[t], WriteBlob(t, b) PROVE group' = group
  BY <1>5 DEF WriteBlob
<1>6. QED BY <1>1, <1>2, <1>3, <1>4, <1>5 DEF CopyStep

-----------------------------------------------------------------------------
(* A subtask keeps what it is in charge of, and that of the others.        *)
LEMMA OwnKept ==
    ASSUME Inv, NEW t \in Subtasks, SubtaskStep(t)
    PROVE  InCharge(t)'
<1>1. Progress(t) /\ Covered(t) /\ Indexed(t) /\ Shape /\ FormatFits
  BY DEF Inv, InCharge
<1> USE DEF Shape, job, copying, report, target, history
<1>2. CASE Start(t)
  <2>1. Progress(t)' /\ Indexed(t)'
    BY <1>1, <1>2 DEF Start, Progress, Indexed, FormatFits
  <2>2. Covered(t)'
    BY <1>1, <1>2 DEF Start, Covered, Opened
  <2>3. QED BY <2>1, <2>2 DEF InCharge
<1>3. CASE JoinWorkers(t)
  <2>1. group'[t].rest = group[t].rest
    BY <1>3, <1>1, CopyGroups DEF CopyStep
  <2>2. stage'[t] \in {"ended", "flush", "links"} /\ (stage'[t] = "ended" => t \notin engine)
        /\ (stage'[t] = "links" => t \notin engine)
    BY <1>1, <1>3 DEF JoinWorkers, FormatFits
  <2>3. Progress(t)' /\ Indexed(t)'
    BY <1>1, <1>3, <2>1, <2>2 DEF JoinWorkers, WorkersDone, Progress, Indexed
  <2>4. Covered(t)'
    BY <1>1, <1>3 DEF JoinWorkers, Covered, Opened
  <2>5. QED BY <2>3, <2>4 DEF InCharge
<1>4. CASE FlushBuffers(t)
  <2>1. PICK h \in buffer[t] :
           LET own == {g \in buffer[t] : Bucket(g) = Bucket(h)}
           IN /\ buffer' = [buffer EXCEPT ![t] = @ \ own]
              /\ blobs' = [blobs EXCEPT ![t] = @ \cup {own}]
    BY <1>4 DEF FlushBuffers
  <2>2. Progress(t)' /\ Indexed(t)'
    BY <1>1, <1>4, <2>1 DEF FlushBuffers, Progress, Indexed
  <2>3. Covered(t)'
    <3>1. PICK own : buffer'[t] = buffer[t] \ own /\ blobs'[t] = blobs[t] \cup {own}
      BY <1>1, <2>1
    <3>2. \A f \in buffer[t] : f \in buffer'[t] \/ (\E b \in blobs'[t] : f \in b)
      BY <3>1
    <3>3. \A b \in blobs[t] : b \in blobs'[t]
      BY <3>1
    <3>4. UNCHANGED <<ctrl, todo, open, copied, failed, lost>>
      BY <1>4 DEF FlushBuffers
    <3>5. QED BY <1>1, <3>2, <3>3, <3>4 DEF Covered, Opened
  <2>4. QED BY <2>2, <2>3 DEF InCharge
<1>5. CASE EndFlush(t) \/ FlushIndexes(t)
  <2>1. Progress(t)'
    BY <1>1, <1>5 DEF EndFlush, FlushIndexes, Progress
  <2>2. Covered(t)'
    BY <1>1, <1>5 DEF EndFlush, FlushIndexes, Covered, Opened
  <2>3. Indexed(t)'
    BY <1>1, <1>5 DEF EndFlush, FlushIndexes, Indexed, RecordsOf
  <2>4. QED BY <2>1, <2>2, <2>3 DEF InCharge
<1>6. ASSUME NEW f \in Files, Skip(t, f) PROVE InCharge(t)'
  <2>1. Progress(t)' /\ Indexed(t)'
    BY <1>1, <1>6 DEF Skip, Progress, Indexed
  <2>2. Covered(t)'
    BY <1>1, <1>6 DEF Skip, Covered, Opened
  <2>3. QED BY <2>1, <2>2 DEF InCharge
<1>7. ASSUME NEW f \in Files, Open(t, f) PROVE InCharge(t)'
  <2>1. Progress(t)' /\ Indexed(t)'
    BY <1>1, <1>7 DEF Open, Fail, Progress, Indexed
  <2>2. \/ open'[t] = open[t] \cup {<<f, names'[f]>>} /\ failed'[t] = failed[t]
        \/ open'[t] = open[t] /\ failed'[t] = failed[t] \cup {f}
    BY <1>1, <1>7 DEF Open, Fail
  <2>3. Opened(t) \subseteq Opened(t)' /\ (f \in Opened(t)' \/ f \in failed'[t])
    BY <2>2 DEF Opened
  <2>4. Covered(t)'
    BY <1>1, <1>7, <2>2, <2>3 DEF Open, Covered
  <2>5. QED BY <2>1, <2>4 DEF InCharge
<1>8. ASSUME NEW f \in Files, Push(t, f) PROVE InCharge(t)'
  <2>1. \/ buffer'[t] = buffer[t] \cup {f} /\ blobs'[t] = blobs[t]
        \/ \E own : /\ f \in own /\ buffer'[t] = buffer[t] \ own
                    /\ blobs'[t] = blobs[t] \cup {own}
    BY <1>1, <1>8 DEF Push
  <2>2. Progress(t)' /\ Indexed(t)'
    BY <1>1, <1>8 DEF Push, Aggregates, Progress, Indexed
  <2>3. Covered(t)'
    BY <1>1, <1>8, <2>1 DEF Push, Covered, Opened
  <2>4. QED BY <2>2, <2>3 DEF InCharge
<1>9. ASSUME NEW o \in open[t], Close(t, o[1], o[2]) PROVE InCharge(t)'
  <2>1. o = <<o[1], o[2]>> /\ open'[t] = open[t] \ {o}
    <3>1. o \in Files \X Files
      BY <1>1
    <3>2. o = <<o[1], o[2]>>
      BY <3>1
    <3>3. open'[t] = open[t] \ {<<o[1], o[2]>>}
      BY <1>1, <1>9 DEF Close
    <3>4. QED BY <3>2, <3>3
  <2>2. Progress(t)' /\ Indexed(t)'
    BY <1>1, <1>9, <2>1 DEF Close, Fail, Progress, Indexed
  <2>3. /\ copied[t] \subseteq copied'[t] /\ failed[t] \subseteq failed'[t]
        /\ o[1] \in copied'[t] \cup failed'[t]
    BY <1>1, <1>9 DEF Close, Fail
  <2>4. \A f \in Opened(t) : f \in Opened(t)' \/ f = o[1]
    BY <2>1 DEF Opened
  <2>5. Covered(t)'
    BY <1>1, <1>9, <2>3, <2>4 DEF Close, Covered
  <2>6. QED BY <2>2, <2>5 DEF InCharge
<1>10. ASSUME NEW b \in blobs[t], WriteBlob(t, b) PROVE InCharge(t)'
  <2>1. t \in engine /\ stage[t] \notin {"none", "connect", "index", "links", "times", "ended"}
    BY <1>1, <1>10 DEF Progress
  <2>2. Progress(t)' /\ Indexed(t)'
    BY <1>1, <1>10, <2>1 DEF WriteBlob, Progress, Indexed
  <2>3. blobs'[t] = blobs[t] \ {b} /\ b \subseteq copied'[t] \cup failed'[t]
        /\ copied[t] \subseteq copied'[t] /\ failed[t] \subseteq failed'[t]
    BY <1>1, <1>10 DEF WriteBlob, BlobFailed, Fail
  <2>4. Covered(t)'
    BY <1>1, <1>10, <2>3 DEF WriteBlob, Covered, Opened
  <2>5. QED BY <2>2, <2>4 DEF InCharge
<1>11. CASE PhaseStep(t)
  <2>1. UNCHANGED <<job, copying, copied, failed, whole, held, index, report>> /\ lost \subseteq lost'
    BY <1>11 DEF PhaseStep, ChooseGroup, CheckName, RemoveName, LinkName, EndLinks, RestoreTimes
  <2>2. /\ stage[t] \in {"links", "times"} /\ stage'[t] \in {"links", "times", "ended"}
        /\ stage'[t] # "links" => group'[t].rest = <<>>
    BY <1>1, <1>11 DEF PhaseStep, ChooseGroup, CheckName, RemoveName, LinkName, EndLinks, RestoreTimes, Progress
  <2>3. Progress(t)'
    BY <1>1, <2>1, <2>2 DEF Progress
  <2>4. Covered(t)' /\ Indexed(t)'
    BY <1>1, <2>1, <2>2 DEF Covered, Opened, Indexed
  <2>5. QED BY <2>3, <2>4 DEF InCharge
<1>12. QED BY <1>2, <1>3, <1>4, <1>5, <1>6, <1>7, <1>8, <1>9, <1>10, <1>11 DEF SubtaskStep, CopyStep

LEMMA ChargesKept ==
    ASSUME Inv, NEW t \in Subtasks, SubtaskStep(t)
    PROVE  FormatFits' /\ \A u \in Subtasks : InCharge(u)'
<1>1. Frame(t)
  BY SubtaskFrame DEF Inv
<1>2. FormatFits'
  BY <1>1 DEF Inv, FormatFits, Frame, job
<1>3. ASSUME NEW u \in Subtasks \ {t} PROVE InCharge(u)'
  <2>1. /\ Progress(u) /\ Covered(u) /\ Indexed(u)
        /\ stage'[u] = stage[u] /\ group'[u] = group[u]
        /\ todo'[u] = todo[u] /\ open'[u] = open[u] /\ buffer'[u] = buffer[u]
        /\ blobs'[u] = blobs[u] /\ memory'[u] = memory[u]
        /\ copied'[u] = copied[u] /\ failed'[u] = failed[u]
        /\ engine \subseteq engine' /\ lost \subseteq lost' /\ index \subseteq index'
        /\ ctrl' = ctrl /\ record' = record
    BY <1>1 DEF Inv, InCharge, Frame, job, report
  <2>2. Progress(u)' /\ Indexed(u)'
    BY <2>1 DEF Progress, Indexed
  <2>3. Covered(u)'
    BY <2>1 DEF Covered, Opened
  <2>4. QED BY <2>2, <2>3 DEF InCharge
<1>4. QED BY <1>2, <1>3, OwnKept

-----------------------------------------------------------------------------
(* What the names of the target are after a step of a subtask: those there *)
(* were, but the one that is removed to be linked again, and those made    *)
(* are of files being written or of links.                                 *)
LEMMA CopyNames ==
    ASSUME Inv, NEW t \in Subtasks, CopyStep(t)
    PROVE  /\ \A f \in DOMAIN names : f \in DOMAIN names' /\ names'[f] = names[f]
           /\ \A f \in DOMAIN names' \ DOMAIN names :
                 \E o \in open'[t] : o[1] = f /\ o[2] = f /\ names'[f] = f
           /\ \A o \in open'[t] \ open[t] :
                 o[1] \in DOMAIN names' /\ o[2] = names'[o[1]]
           /\ \A f \in copied'[t] \ memory'[t] : f \in copied[t] \ memory[t] \/ f \in Opened(t)
           /\ lost \subseteq lost'
<1> USE DEF Inv, Shape, job, copying, report, target, history
<1>1. CASE Start(t) \/ JoinWorkers(t) \/ FlushBuffers(t) \/ EndFlush(t) \/ FlushIndexes(t)
  BY <1>1 DEF Start, JoinWorkers, FlushBuffers, EndFlush, FlushIndexes
<1>2. ASSUME NEW f \in Files, Skip(t, f) \/ Push(t, f)
      PROVE  UNCHANGED <<names, open, copied, memory>> /\ lost \subseteq lost'
  BY <1>2 DEF Skip, Push
<1>3. ASSUME NEW f \in Files, Open(t, f)
      PROVE  /\ UNCHANGED <<copied, memory, lost>>
             /\ \A h \in DOMAIN names : h \in DOMAIN names' /\ names'[h] = names[h]
             /\ \A h \in DOMAIN names' \ DOMAIN names :
                   \E o \in open'[t] : o[1] = h /\ o[2] = h /\ names'[h] = h
             /\ \A o \in open'[t] \ open[t] :
                   o[1] \in DOMAIN names' /\ o[2] = names'[o[1]]
  <2>1. UNCHANGED <<copied, memory, lost>>
    BY <1>3 DEF Open
  <2>2. CASE UNCHANGED <<open, names>>
    BY <2>1, <2>2
  <2>3. CASE f \in DOMAIN names /\ names' = names /\ open'[t] = open[t] \cup {<<f, names'[f]>>}
    BY <2>1, <2>3
  <2>4. CASE f \notin DOMAIN names /\ names' = Named(f, f) /\ open'[t] = open[t] \cup {<<f, names'[f]>>}
    <3>1. DOMAIN names' = DOMAIN names \cup {f} /\ names'[f] = f
      BY <2>4 DEF Named
    <3>2. \A h \in DOMAIN names : names'[h] = names[h]
      BY <2>4 DEF Named
    <3>3. open'[t] = open[t] \cup {<<f, f>>}
      BY <2>4, <3>1
    <3>4. \A h \in DOMAIN names' \ DOMAIN names : h = f
      BY <3>1
    <3>5. <<f, f>>[1] = f /\ <<f, f>>[2] = f /\ <<f, f>> \in open'[t]
      BY <3>3
    <3>6. \A h \in DOMAIN names' \ DOMAIN names :
             \E o \in open'[t] : o[1] = h /\ o[2] = h /\ names'[h] = h
      BY <3>1, <3>4, <3>5
    <3>7. \A o \in open'[t] \ open[t] : o[1] \in DOMAIN names' /\ o[2] = names'[o[1]]
      BY <3>1, <3>3
    <3>8. QED BY <2>1, <3>1, <3>2, <3>6, <3>7
  <2>5. QED BY <1>3, <2>2, <2>3, <2>4 DEF Open
<1>4. ASSUME NEW o \in open[t], Close(t, o[1], o[2])
      PROVE  /\ UNCHANGED <<names, memory, lost>> /\ open'[t] \subseteq open[t]
             /\ \A f \in copied'[t] : f \in copied[t] \/ f \in Opened(t)
  BY <1>4 DEF Close, Fail, Opened
<1>5. ASSUME NEW b \in blobs[t], WriteBlob(t, b)
      PROVE  /\ UNCHANGED <<names, open, lost>>
             /\ \A f \in copied'[t] \ memory'[t] : f \in copied[t] \ memory[t]
  BY <1>5 DEF WriteBlob, AddToIndex, BlobFailed, Fail
<1>6. QED BY <1>1, <1>2, <1>3, <1>4, <1>5 DEF CopyStep

(* A step of the hardlink phase leaves a name, or removes one to link it,  *)
(* and makes one as another of the group.                                  *)
LEMMA PhaseNames ==
    ASSUME Inv, NEW t \in Subtasks, PhaseStep(t)
    PROVE  /\ UNCHANGED <<ctrl, open, memory, copied, failed, whole>> /\ lost \subseteq lost'
           /\ \A f \in DOMAIN names \cap DOMAIN names' : names'[f] = names[f]
           /\ \A f \in DOMAIN names \ DOMAIN names' :
                 group'[t].rest # <<>> /\ Head(group'[t].rest) = f /\ group'[t].step = "link"
           /\ \A f \in DOMAIN names' \ DOMAIN names :
                 /\ group[t].to \in DOMAIN names /\ names'[f] = names[group[t].to]
                 /\ f \in Range(group[t].rest)
           /\ group[t].rest # <<>> /\ group[t].step = "link" =>
                 Head(group[t].rest) \in DOMAIN names' \/ Head(group[t].rest) \in lost'
                 \/ (group'[t].rest = group[t].rest /\ group'[t].step = "link")
           /\ \A f \in Range(group'[t].rest) : group'[t].to \in Alike(f)
<1> USE DEF Shape, job, copying, report, target, history
<1>1. Shape /\ Progress(t) /\ \A f \in Range(group[t].rest) : group[t].to \in Alike(f)
  BY DEF Inv, InCharge, Grouped
<1>2. group[t] \in Groups
  BY <1>1
<1>3. ASSUME NEW g \in DOMAIN Links, ChooseGroup(t, g)
      PROVE  /\ UNCHANGED <<ctrl, open, memory, copied, failed, whole, lost, names>> /\ group[t].rest = <<>>
             /\ \A f \in Range(group'[t].rest) : group'[t].to \in Alike(f)
  <2>1. UNCHANGED <<ctrl, open, memory, copied, failed, whole, lost, names>> /\ group[t].rest = <<>>
    BY <1>3 DEF ChooseGroup
  <2>2. CASE group' = [group EXCEPT ![t] = [NoGroup EXCEPT !.groups = group[t].groups \ {g}]]
    <3>1. group'[t].rest = <<>>
      BY <1>1, <2>2 DEF NoGroup
    <3>2. QED BY <2>1, <3>1 DEF Range
  <2>3. ASSUME NEW n \in DOMAIN Links[g],
               group' = [group EXCEPT ![t] = [groups |-> group[t].groups \ {g}, to |-> Links[g][n],
                                              rest |-> Links[g], step |-> "check"]]
        PROVE  \A f \in Range(group'[t].rest) : group'[t].to \in Alike(f)
    <3>1. group'[t].rest = Links[g] /\ group'[t].to = Links[g][n]
      BY <1>1, <2>3
    <3>2. Links[g][n] \in Range(Links[g])
      BY DEF Range
    <3>3. QED BY <3>1, <3>2 DEF Alike
  <2>4. QED BY <1>3, <2>1, <2>2, <2>3 DEF ChooseGroup
<1>4. ASSUME NEW s \in {"link", "remove"}, GoOn(t, s)
      PROVE  group'[t].rest = group[t].rest /\ group'[t].to = group[t].to /\ group'[t].step = s
  BY <1>1, <1>2, <1>4 DEF GoOn, Groups
<1>5. group[t].rest # <<>> =>
         Head(group[t].rest) \in Range(group[t].rest)
  <2>1. group[t].rest \in Seq(Files)
    BY <1>2 DEF Groups
  <2>2. group[t].rest # <<>> => 1 \in DOMAIN group[t].rest /\ Head(group[t].rest) = group[t].rest[1]
    BY <2>1, HeadTailProperties
  <2>3. QED BY <2>2 DEF Range
<1>6. CASE CheckName(t)
  <2>1. UNCHANGED <<ctrl, open, memory, copied, failed, whole, lost, names>> /\ group[t].step = "check"
        /\ group[t].rest # <<>>
    BY <1>6 DEF CheckName
  <2>2. Advance(t) \/ GoOn(t, "remove") \/ GoOn(t, "link")
    BY <1>6 DEF CheckName
  <2>3. \A f \in Range(group'[t].rest) : f \in Range(group[t].rest) /\ group'[t].to = group[t].to
    BY <1>1, <1>4, <2>1, <2>2, Advanced
  <2>4. QED BY <1>1, <2>1, <2>3
<1>7. CASE RemoveName(t)
  <2>1. UNCHANGED <<ctrl, open, memory, copied, failed, whole, lost>> /\ group[t].step = "remove"
        /\ group[t].rest # <<>>
    BY <1>7 DEF RemoveName
  <2>2. CASE Advance(t) /\ UNCHANGED names
    BY <1>1, <2>1, <2>2, Advanced
  <2>3. CASE GoOn(t, "link") /\ names' = Restrict(names, DOMAIN names \ {Head(group[t].rest)})
    <3>1. DOMAIN names' = DOMAIN names \ {Head(group[t].rest)} /\ \A f \in DOMAIN names' : names'[f] = names[f]
      BY <2>3 DEF Restrict
    <3>2. group'[t].rest = group[t].rest /\ group'[t].to = group[t].to /\ group'[t].step = "link"
      BY <1>4, <2>3
    <3>3. QED BY <1>1, <2>1, <3>1, <3>2
  <2>4. QED BY <1>7, <2>2, <2>3 DEF RemoveName
<1>8. CASE LinkName(t)
  <2>1. UNCHANGED <<ctrl, open, memory, copied, failed, whole>> /\ lost \subseteq lost' /\ group[t].rest # <<>>
        /\ Advance(t)
    BY <1>8 DEF LinkName
  <2>2. \A f \in Range(group'[t].rest) : group'[t].to \in Alike(f)
    BY <1>1, <2>1, Advanced
  <2>3. CASE UNCHANGED names /\ (Head(group[t].rest) \in DOMAIN names \/ Head(group[t].rest) \in lost')
    BY <2>1, <2>2, <2>3
  <2>4. CASE /\ group[t].to \in DOMAIN names /\ Head(group[t].rest) \notin DOMAIN names
             /\ names' = Named(Head(group[t].rest), names[group[t].to])
    <3>1. /\ DOMAIN names' = DOMAIN names \cup {Head(group[t].rest)}
          /\ names'[Head(group[t].rest)] = names[group[t].to]
          /\ \A f \in DOMAIN names : names'[f] = names[f]
      BY <2>4 DEF Named
    <3>2. QED BY <1>5, <2>1, <2>2, <2>4, <3>1
  <2>5. QED BY <1>8, <2>3, <2>4 DEF LinkName
<1>9. CASE EndLinks(t) \/ RestoreTimes(t)
  <2>1. UNCHANGED <<ctrl, open, memory, copied, failed, whole, lost, names, group>>
    BY <1>9 DEF EndLinks, RestoreTimes
  <2>2. QED BY <1>1, <2>1
<1>10. CASE \E g \in DOMAIN Links : ChooseGroup(t, g)
  BY <1>3, <1>10
<1>11. QED BY <1>6, <1>7, <1>8, <1>9, <1>10 DEF PhaseStep

(* An inode that is emptied is being written, and one that was being       *)
(* written is whole or its copy failed.                                    *)
LEMMA CopyInodes ==
    ASSUME Inv, NEW t \in Subtasks, CopyStep(t)
    PROVE  /\ \A i \in whole : i \in whole' \/ \E o \in open'[t] : o[2] = i
           /\ \A o \in open[t] : o \in open'[t] \/ o[2] \in whole' \/ o[1] \in failed'[t]
           /\ \A u \in Subtasks : failed[u] \subseteq failed'[u]
<1> USE DEF Inv, Shape, job, copying, report, target, history
<1>1. CASE Start(t) \/ JoinWorkers(t) \/ FlushBuffers(t) \/ EndFlush(t) \/ FlushIndexes(t)
  BY <1>1 DEF Start, JoinWorkers, FlushBuffers, EndFlush, FlushIndexes
<1>2. ASSUME NEW f \in Files, Skip(t, f) \/ Push(t, f) PROVE UNCHANGED <<whole, open, failed>>
  BY <1>2 DEF Skip, Push
<1>3. ASSUME NEW f \in Files, Open(t, f)
      PROVE  /\ \A i \in whole : i \in whole' \/ \E o \in open'[t] : o[2] = i
             /\ open[t] \subseteq open'[t] /\ \A u \in Subtasks : failed[u] \subseteq failed'[u]
  <2>1. CASE UNCHANGED <<open, names, whole>> /\ Fail(t, {f})
    BY <2>1 DEF Fail
  <2>2. CASE /\ open' = [open EXCEPT ![t] = @ \cup {<<f, names'[f]>>}]
             /\ whole' = whole \ {names'[f]} /\ UNCHANGED failed
    <3>1. <<f, names'[f]>>[2] = names'[f] /\ <<f, names'[f]>> \in open'[t]
      BY <2>2
    <3>2. \A i \in whole : i \in whole' \/ i = names'[f]
      BY <2>2
    <3>3. QED BY <2>2, <3>1, <3>2
  <2>3. QED BY <1>3, <2>1, <2>2 DEF Open
<1>4. ASSUME NEW o \in open[t], Close(t, o[1], o[2])
      PROVE  /\ whole \subseteq whole' /\ \A u \in Subtasks : failed[u] \subseteq failed'[u]
             /\ \A p \in open[t] : p \in open'[t] \/ p = o
             /\ o[2] \in whole' \/ o[1] \in failed'[t]
  <2>1. o \in Files \X Files
    OBVIOUS
  <2>2. o = <<o[1], o[2]>>
    BY <2>1
  <2>3. open' = [open EXCEPT ![t] = @ \ {o}]
    BY <1>4, <2>2 DEF Close
  <2>4. QED BY <1>4, <2>3 DEF Close, Fail
<1>5. ASSUME NEW b \in blobs[t], WriteBlob(t, b)
      PROVE  UNCHANGED <<whole, open>> /\ \A u \in Subtasks : failed[u] \subseteq failed'[u]
  BY <1>5 DEF WriteBlob, BlobFailed, Fail
<1>6. QED BY <1>1, <1>2, <1>3, <1>4, <1>5 DEF CopyStep

LEMMA CopyKeeps ==
    ASSUME Inv, NEW t \in Subtasks, CopyStep(t)
    PROVE  HasName' /\ Grouped' /\ Sound'
<1>1. Shape /\ HasName /\ Grouped /\ Sound
  BY DEF Inv
<1>2. ctrl' = ctrl /\ Subtasks' = Subtasks /\ lost \subseteq lost'
      /\ \A u \in Subtasks \ {t} : open'[u] = open[u] /\ memory'[u] = memory[u] /\ copied'[u] = copied[u]
  BY <1>1, SubtaskFrame DEF SubtaskStep, Frame, job, Subtasks
<1>3. /\ \A f \in DOMAIN names : f \in DOMAIN names' /\ names'[f] = names[f]
      /\ \A f \in DOMAIN names' \ DOMAIN names :
            \E o \in open'[t] : o[1] = f /\ o[2] = f /\ names'[f] = f
      /\ \A o \in open'[t] \ open[t] : o[1] \in DOMAIN names' /\ o[2] = names'[o[1]]
      /\ \A f \in copied'[t] \ memory'[t] : f \in copied[t] \ memory[t] \/ f \in Opened(t)
  BY CopyNames
<1>4. \A u \in Subtasks : group'[u].rest = group[u].rest /\ group'[u].to = group[u].to
                         /\ group'[u].step = group[u].step
  BY <1>1, CopyGroups
<1>5. DOMAIN names' \subseteq Files /\ \A u \in Subtasks : \A o \in open'[u] : o[1] \in Files
  <2>1. Shape'
    BY <1>1, ShapeStep DEF SubtaskStep, CopyStep, Next
  <2>2. QED BY <1>2, <2>1 DEF Shape
<1>6. HasName'
  <2>1. \A f : Relinked(f) => Relinked(f)'
    BY <1>2, <1>4 DEF Relinked
  <2>2. \A f \in Opened(t)' : f \in Opened(t) \/ f \in DOMAIN names'
    BY <1>3 DEF Opened
  <2>3. ASSUME NEW u \in Subtasks, NEW f \in Opened(u)' \cup (copied'[u] \ memory'[u])
        PROVE  f \in DOMAIN names' \/ f \in Opened(u) \cup (copied[u] \ memory[u])
    <3>1. CASE u = t
      BY <1>3, <2>2, <2>3, <3>1
    <3>2. CASE u # t
      BY <1>2, <2>3, <3>2 DEF Opened
    <3>3. QED BY <3>1, <3>2
  <2>4. \A u \in Subtasks : \A f \in Opened(u) \cup (copied[u] \ memory[u]) :
           f \in DOMAIN names' \/ f \in lost' \/ Relinked(f)'
    BY <1>1, <1>2, <1>3, <2>1 DEF HasName
  <2>5. QED BY <1>2, <2>3, <2>4 DEF HasName
<1>7. Grouped'
  <2>1. \A f \in DOMAIN names' : names'[f] \in Alike(f)
    BY <1>1, <1>3, <1>5, AlikeClass DEF Grouped
  <2>2. ASSUME NEW u \in Subtasks, NEW o \in open'[u] PROVE o[2] \in Alike(o[1])
    <3>1. CASE o \in open[u]
      BY <1>1, <3>1 DEF Grouped
    <3>2. CASE o \notin open[u]
      <4>1. u = t
        BY <1>2, <2>2, <3>2
      <4>2. QED BY <1>3, <2>1, <2>2, <3>2, <4>1
    <3>3. QED BY <3>1, <3>2
  <2>3. \A u \in Subtasks : \A f \in Range(group'[u].rest) : group'[u].to \in Alike(f)
    BY <1>1, <1>4 DEF Grouped
  <2>4. QED BY <1>2, <2>1, <2>2, <2>3 DEF Grouped, Alike
<1>8. Sound'
  <2>1. /\ \A i \in whole : i \in whole' \/ \E o \in open'[t] : o[2] = i
        /\ \A o \in open[t] : o \in open'[t] \/ o[2] \in whole' \/ o[1] \in failed'[t]
        /\ \A u \in Subtasks : failed[u] \subseteq failed'[u]
    BY CopyInodes
  <2>2. /\ \A n \in DOMAIN names' : names'[n] \in Alike(n)
        /\ \A u \in Subtasks : \A o \in open'[u] : o[2] \in Alike(o[1])
    BY <1>2, <1>7 DEF Grouped, Alike
  <2>3. ASSUME NEW n \in DOMAIN names'
        PROVE  \/ names'[n] \in whole'
               \/ \E u \in Subtasks : \E o \in open'[u] : o[1] \in Alike(n) /\ o[2] = names'[n]
               \/ \E u \in Subtasks : Alike(n) \cap failed'[u] # {}
    <3>1. n \in Files /\ n \in Alike(n)
      BY <1>5, <2>3, AlikeClass
    <3>2. CASE n \notin DOMAIN names
      BY <1>3, <2>3, <3>1, <3>2
    <3>3. CASE n \in DOMAIN names /\ names[n] \in whole
      <4>1. names'[n] = names[n]
        BY <1>3, <3>3
      <4>2. CASE names[n] \in whole'
        BY <4>1, <4>2
      <4>3. ASSUME NEW o \in open'[t], o[2] = names[n] PROVE o[1] \in Alike(n)
        <5>1. o[1] \in Files /\ o[2] \in Alike(o[1]) /\ o[2] \in Alike(n)
          BY <1>5, <2>2, <2>3, <4>1, <4>3
        <5>2. o[1] \in Alike(o[1]) /\ Alike(o[2]) = Alike(o[1]) /\ Alike(o[2]) = Alike(n)
          BY <3>1, <5>1, AlikeClass
        <5>3. QED BY <5>2
      <4>4. QED BY <2>1, <3>3, <4>1, <4>2, <4>3
    <3>4. ASSUME NEW u \in Subtasks, NEW o \in open[u], n \in DOMAIN names, o[1] \in Alike(n), o[2] = names[n]
          PROVE  \/ names'[n] \in whole'
                 \/ \E p \in open'[u] : p[1] \in Alike(n) /\ p[2] = names'[n]
                 \/ Alike(n) \cap failed'[u] # {}
      <4>1. names'[n] = names[n]
        BY <1>3, <3>4
      <4>2. o \in open'[u] \/ o[2] \in whole' \/ o[1] \in failed'[u]
        BY <1>2, <2>1, <3>4
      <4>3. QED BY <3>4, <4>1, <4>2
    <3>5. ASSUME NEW u \in Subtasks, Alike(n) \cap failed[u] # {} PROVE Alike(n) \cap failed'[u] # {}
      BY <2>1, <3>5
    <3>6. QED BY <1>1, <3>2, <3>3, <3>4, <3>5 DEF Sound
  <2>4. QED BY <1>2, <2>3 DEF Sound, Alike
<1>9. QED BY <1>6, <1>7, <1>8

LEMMA PhaseKeeps ==
    ASSUME Inv, NEW t \in Subtasks, PhaseStep(t)
    PROVE  HasName' /\ Grouped' /\ Sound'
<1>1. Shape /\ HasName /\ Grouped /\ Sound
  BY DEF Inv
<1>2. /\ UNCHANGED <<ctrl, open, memory, copied, failed, whole>> /\ lost \subseteq lost'
      /\ \A f \in DOMAIN names \cap DOMAIN names' : names'[f] = names[f]
      /\ \A f \in DOMAIN names \ DOMAIN names' :
            group'[t].rest # <<>> /\ Head(group'[t].rest) = f /\ group'[t].step = "link"
      /\ \A f \in DOMAIN names' \ DOMAIN names :
            /\ group[t].to \in DOMAIN names /\ names'[f] = names[group[t].to]
            /\ f \in Range(group[t].rest)
      /\ group[t].rest # <<>> /\ group[t].step = "link" =>
            Head(group[t].rest) \in DOMAIN names' \/ Head(group[t].rest) \in lost'
            \/ (group'[t].rest = group[t].rest /\ group'[t].step = "link")
      /\ \A f \in Range(group'[t].rest) : group'[t].to \in Alike(f)
  BY PhaseNames
<1>3. Subtasks' = Subtasks /\ \A u \in Subtasks \ {t} : group'[u] = group[u]
  BY <1>1, SubtaskFrame DEF SubtaskStep, Frame, job, Subtasks
<1>4. DOMAIN names \subseteq Files /\ DOMAIN names' \subseteq Files
  <2>1. Shape'
    BY <1>1, ShapeStep DEF SubtaskStep, PhaseStep, Next
  <2>2. QED BY <1>1, <2>1 DEF Shape
<1>5. HasName'
  <2>1. \A f : Relinked(f) => Relinked(f)' \/ f \in DOMAIN names' \/ f \in lost'
    BY <1>2, <1>3 DEF Relinked
  <2>2. \A f \in DOMAIN names : f \in DOMAIN names' \/ Relinked(f)'
    BY <1>2, <1>3 DEF Relinked
  <2>3. \A u \in Subtasks : Opened(u)' = Opened(u)
    BY <1>2 DEF Opened
  <2>4. QED BY <1>1, <1>2, <1>3, <2>1, <2>2, <2>3 DEF HasName
(* A name that is made is that of an inode of its group.                   *)
<1>6. \A n \in DOMAIN names' \ DOMAIN names :
         group[t].to \in DOMAIN names /\ names'[n] = names[group[t].to] /\ Alike(group[t].to) = Alike(n)
  BY <1>1, <1>2, <1>4, AlikeClass DEF Grouped
<1>7. Grouped'
  <2>1. \A n \in DOMAIN names' : names'[n] \in Alike(n)
    BY <1>1, <1>2, <1>6 DEF Grouped
  <2>2. \A u \in Subtasks : \A f \in Range(group'[u].rest) : group'[u].to \in Alike(f)
    BY <1>1, <1>2, <1>3 DEF Grouped
  <2>3. QED BY <1>1, <1>2, <1>3, <2>1, <2>2 DEF Grouped, Alike
<1>8. Sound'
  <2>1. ASSUME NEW n \in DOMAIN names'
        PROVE  \/ names'[n] \in whole
               \/ \E u \in Subtasks : \E o \in open[u] : o[1] \in Alike(n) /\ o[2] = names'[n]
               \/ \E u \in Subtasks : Alike(n) \cap failed[u] # {}
    <3>1. PICK m \in DOMAIN names : names'[n] = names[m] /\ Alike(m) = Alike(n)
      BY <1>2, <1>6, <2>1
    <3>2. QED BY <1>1, <3>1 DEF Sound
  <2>2. QED BY <1>2, <1>3, <2>1 DEF Sound, Alike
<1>9. QED BY <1>5, <1>7, <1>8

-----------------------------------------------------------------------------
(* Type correctness of a backup job, and how it accounts for every file.   *)
THEOREM Invariance == Spec => []Inv
<1>1. Init => Inv
  <2> SUFFICES ASSUME Init PROVE Inv
    OBVIOUS
  <2>1. Subtasks = {} /\ DOMAIN names = {}
    BY DEF Init, Subtasks
  <2>2. Orderly
    BY <2>1 DEF Init, Orderly
  <2>3. FormatFits /\ HasName /\ Grouped /\ Sound
    BY <2>1 DEF Init, FormatFits, HasName, Grouped, Sound
  <2>4. QED BY <2>1, <2>2, <2>3, ShapeInit DEF Inv
<1>2. Inv /\ [Next]_vars => Inv'
  <2> SUFFICES ASSUME Inv, [Next]_vars PROVE Inv'
    OBVIOUS
  <2>1. Shape' /\ Orderly'
    BY ShapeStep, OrderlyStep DEF Inv
  <2>2. CASE JobStep
    <3>1. Subtasks' = Subtasks
      BY <2>2, JobFrame DEF Subtasks
    <3>2. QED BY <2>1, <2>2, <3>1, JobKeeps DEF Inv
  <2>3. CASE Scan
    BY <2>1, <2>3, ScanKeeps DEF Inv
  <2>4. ASSUME NEW t \in Subtasks, SubtaskStep(t) PROVE Inv'
    <3>1. Subtasks' = Subtasks
      BY <2>4, SubtaskFrame DEF Inv, Frame, job, Subtasks
    <3>2. HasName' /\ Grouped' /\ Sound'
      BY <2>4, CopyKeeps, PhaseKeeps DEF SubtaskStep
    <3>3. QED BY <2>1, <2>4, <3>1, <3>2, ChargesKept DEF Inv
  <2>5. CASE UNCHANGED vars
    <3>1. FormatFits' /\ HasName' /\ Grouped' /\ Sound' /\ Subtasks' = Subtasks
      BY <2>5 DEF vars, job, copying, report, target, history, Inv, FormatFits, HasName, Relinked, Opened,
                  Grouped, Alike, Sound, Subtasks
    <3>2. \A t \in Subtasks : InCharge(t)'
      BY <2>5 DEF vars, job, copying, report, target, history, Inv, InCharge, Progress, Covered, Opened, Indexed
    <3>3. QED BY <2>1, <3>1, <3>2 DEF Inv
  <2>6. QED BY <2>2, <2>3, <2>4, <2>5, Steps DEF JobStep
<1>3. QED BY <1>1, <1>2, PTL DEF Spec

(* A manifest comes last: a job that crashes or fails before leaves a copy *)
(* that shows it is not complete.                                          *)
THEOREM ManifestComesLast == Spec => []ManifestLast
<1>1. Inv => ManifestLast
  BY DEF Inv, Orderly, Told, ManifestLast
<1>2. QED BY <1>1, Invariance, PTL

(* A file of a subtask without failures is in the copy when all subtasks   *)
(* have ended, but for logged errors and failures of its other names.      *)
LEMMA CountedIsThere ==
    ASSUME Inv, NEW t \in Subtasks, NEW f \in ctrl[t], failed[t] = {},
           \A u \in Subtasks : stage[u] = "ended"
    PROVE  \/ InCopy(f) \/ Alike(f) \cap lost # {}
           \/ \E u \in Subtasks \ {t} : Alike(f) \cap failed[u] # {}
<1>1. Shape /\ Sound /\ HasName /\ \A u \in Subtasks : Progress(u) /\ Covered(u) /\ Indexed(u)
  BY DEF Inv, InCharge
<1>2. \A u \in Subtasks : /\ todo[u] = {} /\ open[u] = {} /\ buffer[u] = {} /\ blobs[u] = {}
                         /\ group[u].rest = <<>>
  BY <1>1 DEF Progress
<1>3. Opened(t) = {}
  BY <1>2 DEF Opened
<1>4. f \in Files
  BY <1>1 DEF Shape, Subtasks
<1>5. f \in copied[t] \/ f \in lost
  BY <1>1, <1>2, <1>3 DEF Covered
<1>6. CASE f \in lost
  BY <1>4, <1>6, AlikeClass
<1>7. CASE f \in memory[t]
  <2>1. f \in index \/ f \in lost
    BY <1>1, <1>7 DEF Indexed
  <2>2. QED BY <1>6, <2>1 DEF InCopy
<1>8. CASE f \in copied[t] \ memory[t] /\ f \notin lost
  <2>1. f \in DOMAIN names
    BY <1>1, <1>2, <1>8 DEF HasName, Relinked
  <2>2. CASE names[f] \in whole
    BY <2>1, <2>2 DEF InCopy
  <2>3. QED BY <1>1, <1>2, <2>1, <2>2 DEF Sound
<1>9. QED BY <1>5, <1>6, <1>7, <1>8

(* The manifest is honest: the files of a subtask it records as succeeded  *)
(* are in the copy, but for errors that are only logged and for copies of  *)
(* another name of the file that failed in another subtask.                *)
THEOREM ManifestHonest == Spec => []HonestManifest
<1>1. Inv => HonestManifest
  <2> SUFFICES ASSUME Inv, "manifest" \in placed, NEW t \in Subtasks, record[t], NEW f \in ctrl[t]
               PROVE  \/ InCopy(f) \/ Alike(f) \cap lost # {}
                      \/ \E u \in Subtasks \ {t} : Alike(f) \cap failed[u] # {}
    BY DEF HonestManifest
  <2>1. \A u \in Subtasks : stage[u] = "ended"
    BY DEF Inv, Orderly, Told
  <2>2. failed[t] = {}
    BY DEF Inv, InCharge, Progress
  <2>3. QED BY <2>1, <2>2, CountedIsThere
<1>2. QED BY <1>1, Invariance, PTL

-----------------------------------------------------------------------------
(* A copy without errors.  No file of it failed; the control files hold    *)
(* every file of the source; and once the directories' times are disturbed *)
(* some subtask is still to restore them.                                  *)
Underway == phase \in {"spawn", "join", "manifest", "upload", "ok"}

Whole ==
    /\ faults \in Nat
    /\ faults = 0 => \A t \in Subtasks : failed[t] = {}
    /\ format = "common" => \A t \in Subtasks : stage[t] \notin {"flush", "index"}
    /\ faults = 0 /\ Underway => Subtasks # {} /\ UNION Range(ctrl) = Files
    /\ faults = 0 /\ Underway /\ ~remote => times \/ \E t \in Subtasks : stage[t] # "ended"

(* Linking a group of two names, x and y.  A subtask is stuck if another   *)
(* one has just made the name it is about to link, or taken the name it is *)
(* about to remove.  One that is to come to the group, or that has its     *)
(* name to link and is not stuck, will link the two or has another do so.  *)
Busy(t, s) == group[t].rest # <<>> /\ group[t].step = s
Current(t) == Head(group[t].rest)

NotItself == \A t \in Subtasks : Busy(t, "remove") \/ Busy(t, "link") => Current(t) # group[t].to

Stuck(t) ==
    \/ Busy(t, "remove") /\ Current(t) \notin DOMAIN names
    \/ Busy(t, "link") /\ Current(t) \in DOMAIN names

Early == {"none", "connect", "copy"}

ToLink(t, f) ==
    /\ f \in Range(group[t].rest) /\ f # group[t].to
    /\ Current(t) = f => ~Stuck(t)

Pending(t, g) ==
    \/ stage[t] \in Early
    \/ /\ stage[t] = "links"
       /\ \/ g \in group[t].groups
          \/ \E f \in Range(Links[g]) : ToLink(t, f)

Linked(g) ==
    /\ Range(Links[g]) \subseteq DOMAIN names
    /\ \A f, h \in Range(Links[g]) : names[f] = names[h]

Couple(g) == \E x, y \in Files : x # y /\ Links[g] = <<x, y>>

Coupled ==
    faults = 0 /\ lost = {} /\ Underway /\ ~remote /\ format = "common" =>
        \A g \in DOMAIN Links : Couple(g) =>
            Linked(g) \/ \E t \in Subtasks : Pending(t, g)

(* Linking by a single subtask: the names of a group that it has dealt     *)
(* with are linked to the one it chose.                                    *)
Dealt(g) == Range(Links[g]) \ Range(group[1].rest)

Led(g) ==
    \/ g \in group[1].groups
    \/ \E to \in Range(Links[g]) :
          /\ to \in DOMAIN names
          /\ \A f \in Dealt(g) : f \in DOMAIN names /\ names[f] = names[to]
          /\ group[1].rest # <<>> /\ group[1].to \in Range(Links[g]) => group[1].to = to

Alone ==
    faults = 0 /\ lost = {} /\ ~remote /\ format = "common" /\ Subtasks = {1} =>
        /\ ~Stuck(1)
        /\ stage[1] \notin Early => \A g \in DOMAIN Links : Led(g)
        /\ stage[1] \in {"times", "ended"} => group[1].groups = {}

Faultless == faults = 0 /\ lost = {} /\ ~remote /\ format = "common"

(* An error is counted.                                                    *)
LEMMA FaultsCount ==
    ASSUME faults \in Nat, [Next]_vars
    PROVE  faults' \in Nat /\ (faults' = 0 => faults = 0 /\ ~Fault)
<1>1. Fault \/ faults' = faults
  <2> USE DEF vars, job, copying, report, target, history
  <2>1. CASE Prerequisites \/ Scan \/ Spawn \/ Join \/ WriteManifest \/ Upload \/ Crash
    BY <2>1 DEF Prerequisites, CreateDirs, CheckSource, WriteMagic, RemoveMagic, Prereq, Scan, Spawn, Join,
                Noted, WriteManifest, Upload, Crash
  <2>2. ASSUME NEW t \in Subtasks, CopyStep(t) PROVE Fault \/ faults' = faults
    BY <2>2 DEF CopyStep, Start, JoinWorkers, FlushBuffers, EndFlush, FlushIndexes, Skip, Open, Push, Close,
                WriteBlob, BlobFailed, Fail
  <2>3. ASSUME NEW t \in Subtasks, PhaseStep(t) PROVE Fault \/ faults' = faults
    BY <2>3 DEF PhaseStep, ChooseGroup, CheckName, RemoveName, LinkName, EndLinks, RestoreTimes
  <2>4. QED BY <2>1, <2>2, <2>3, Steps DEF SubtaskStep
<1>2. Fault => faults' = faults + 1
  BY DEF Fault
<1>3. QED BY <1>1, <1>2

(* The subtasks run between the scan and the end of the job.               *)
LEMMA AtWork ==
    ASSUME Inv, NEW t \in Subtasks, SubtaskStep(t)
    PROVE  Underway
<1>1. Alive
  BY DEF SubtaskStep, CopyStep, PhaseStep, Start, JoinWorkers, FlushBuffers, EndFlush, FlushIndexes, Skip, Open,
         Push, Close, WriteBlob, ChooseGroup, CheckName, RemoveName, LinkName, EndLinks, RestoreTimes
<1>2. phase \notin {"new", "source", "target", "magic", "scan"}
  BY DEF Inv, Orderly, Subtasks
<1>3. QED BY <1>1, <1>2 DEF Inv, Shape, Phases, Alive, Underway

(* In a copy of separate files the copy ends with the hardlink phase, if   *)
(* there was no error and the target is local.                             *)
LEMMA CopyStages ==
    ASSUME Inv, faults \in Nat, faults' = 0, ~remote, NEW t \in Subtasks, CopyStep(t)
    PROVE  /\ stage'[t] # "ended" /\ \A u \in Subtasks : failed'[u] = failed[u]
           /\ format = "common" /\ stage[t] \notin {"flush", "index"} =>
                 /\ stage[t] \in Early /\ group[t].rest = <<>> /\ group'[t].rest = <<>>
                 /\ stage'[t] \in Early \/ (stage'[t] = "links" /\ group'[t].groups = DOMAIN Links)
<1>1. Shape /\ Progress(t) /\ FormatFits
  BY DEF Inv, InCharge
<1>2. ~Fault
  BY DEF Fault
<1>3. group'[t].rest = group[t].rest
  BY <1>1, CopyGroups
<1> USE DEF Shape, Early, job, copying, report, target, history
<1>4. CASE Start(t) \/ FlushBuffers(t) \/ EndFlush(t) \/ FlushIndexes(t)
  BY <1>1, <1>2, <1>3, <1>4 DEF Start, FlushBuffers, EndFlush, FlushIndexes, Progress
<1>5. CASE JoinWorkers(t)
  <2>1. group'[t].groups = DOMAIN Links
    <3>1. group' = [group EXCEPT ![t] = [group[t] EXCEPT !.groups = DOMAIN Links]]
      BY <1>5 DEF JoinWorkers
    <3>2. group[t] \in Groups
      BY <1>1
    <3>3. QED BY <1>1, <3>1, <3>2 DEF Groups
  <2>2. QED BY <1>1, <1>3, <1>5, <2>1 DEF JoinWorkers, Progress, FormatFits
<1>6. ASSUME NEW f \in Files, Skip(t, f) \/ Open(t, f) \/ Push(t, f)
      PROVE  stage[t] = "copy" /\ stage' = stage /\ failed' = failed
  BY <1>2, <1>6 DEF Skip, Open, Push, Fail
<1>7. ASSUME NEW o \in open[t], Close(t, o[1], o[2])
      PROVE  stage[t] \notin {"none", "connect", "flush", "index", "links", "times", "ended"}
             /\ stage' = stage /\ failed' = failed
  BY <1>1, <1>2, <1>7 DEF Close, Fail, Progress
<1>8. ASSUME NEW b \in blobs[t], WriteBlob(t, b)
      PROVE  stage[t] # "ended" /\ format # "common" /\ stage' = stage /\ failed' = failed
  BY <1>1, <1>2, <1>8 DEF WriteBlob, BlobFailed, Fail, Progress, FormatFits
<1>9. stage[t] \in Stages
  BY <1>1
<1>10. QED BY <1>1, <1>3, <1>4, <1>5, <1>6, <1>7, <1>8, <1>9 DEF CopyStep, Stages, Progress

-----------------------------------------------------------------------------
(* What a step of a hardlink phase is, if no call fails for a reason that  *)
(* is not another subtask's link: it chooses a group, is done with a name, *)
(* goes on to remove or link the name, or ends.                            *)
Chosen(t, g) ==
    /\ names' = names /\ stage'[t] = "links"
    /\ group[t].rest = <<>> /\ g \in group[t].groups /\ group'[t].groups = group[t].groups \ {g}
    /\ \/ group'[t].rest = <<>> /\ Range(Links[g]) \cap DOMAIN names = {}
       \/ /\ group'[t].rest = Links[g] /\ group'[t].step = "check"
          /\ group'[t].to \in Range(Links[g]) \cap DOMAIN names

SameInode(f, to) == f \in DOMAIN names /\ to \in DOMAIN names /\ names[f] = names[to]

DoneWith(t, f, to) ==
    /\ stage'[t] = "links" /\ group[t].rest # <<>> /\ f = Current(t) /\ to = group[t].to
    /\ group'[t].rest = Tail(group[t].rest) /\ group'[t].step = "check"
    /\ group'[t].to = to /\ group'[t].groups = group[t].groups
    /\ \/ names' = names /\ (f = to \/ SameInode(f, to) \/ Stuck(t))
       \/ /\ to \in DOMAIN names /\ f \notin DOMAIN names
          /\ names' = Named(f, names[to])

GoneOn(t, f) ==
    /\ stage'[t] = "links" /\ group[t].rest # <<>> /\ f = Current(t)
    /\ group'[t].rest = group[t].rest /\ group'[t].to = group[t].to /\ group'[t].groups = group[t].groups
    /\ \/ /\ names' = names /\ f # group[t].to /\ group[t].step = "check"
          /\ \/ group'[t].step = "remove" /\ f \in DOMAIN names
             \/ group'[t].step = "link" /\ f \notin DOMAIN names
       \/ /\ group[t].step = "remove" /\ group'[t].step = "link"
          /\ DOMAIN names' = DOMAIN names \ {f} /\ \A h \in DOMAIN names' : names'[h] = names[h]

LinksEnded(t) ==
    /\ names' = names /\ group' = group
    /\ \/ /\ stage[t] = "links" /\ group[t].groups = {} /\ group[t].rest = <<>>
          /\ stage'[t] = "times"
       \/ stage[t] = "times" /\ stage'[t] = "ended" /\ times' = TRUE

LEMMA PhaseCases ==
    ASSUME Shape, faults \in Nat, faults' = 0, lost' = {}, NEW t \in Subtasks, PhaseStep(t)
    PROVE  /\ failed' = failed /\ stage[t] \in {"links", "times"}
           /\ stage[t] = "links" \/ LinksEnded(t)
           /\ \/ \E g \in DOMAIN Links : Chosen(t, g)
              \/ DoneWith(t, Current(t), group[t].to)
              \/ GoneOn(t, Current(t))
              \/ LinksEnded(t)
<1>1. ~Fault
  BY DEF Fault
<1>2. group[t] \in Groups /\ stage \in [Subtasks -> Stages]
  BY DEF Shape
<1> USE DEF Shape, job, copying, report, target, history
<1>3. ASSUME group[t].rest # <<>>, Advance(t)
      PROVE  /\ group'[t].rest = Tail(group[t].rest) /\ group'[t].step = "check"
             /\ group'[t].to = group[t].to /\ group'[t].groups = group[t].groups
  <2>1. group' = [group EXCEPT ![t] = [group[t] EXCEPT !.rest = Tail(group[t].rest), !.step = "check"]]
    BY <1>2, <1>3 DEF Advance, Groups
  <2>2. QED BY <1>2, <2>1 DEF Groups
<1>4. ASSUME NEW s \in {"link", "remove"}, GoOn(t, s)
      PROVE  /\ group'[t].rest = group[t].rest /\ group'[t].step = s
             /\ group'[t].to = group[t].to /\ group'[t].groups = group[t].groups
  <2>1. group' = [group EXCEPT ![t] = [group[t] EXCEPT !.step = s]]
    BY <1>2, <1>4 DEF GoOn
  <2>2. QED BY <1>2, <2>1 DEF Groups
<1>5. ASSUME NEW g \in DOMAIN Links, ChooseGroup(t, g)
      PROVE  Chosen(t, g) /\ failed' = failed /\ stage[t] = "links"
  <2>1. /\ names' = names /\ stage' = stage /\ stage[t] = "links" /\ failed' = failed
        /\ group[t].rest = <<>> /\ g \in group[t].groups
    BY <1>5 DEF ChooseGroup
  <2>2. CASE /\ {n \in DOMAIN Links[g] : Links[g][n] \in DOMAIN names} = {}
             /\ group' = [group EXCEPT ![t] = [NoGroup EXCEPT !.groups = group[t].groups \ {g}]]
    <3>1. group'[t].rest = <<>> /\ group'[t].groups = group[t].groups \ {g}
      BY <2>2 DEF NoGroup
    <3>2. \A n \in DOMAIN Links[g] : Links[g][n] \notin DOMAIN names
      BY <2>2
    <3>3. Range(Links[g]) \cap DOMAIN names = {}
      BY <3>2 DEF Range
    <3>4. QED BY <2>1, <3>1, <3>3 DEF Chosen
  <2>3. ASSUME NEW n \in DOMAIN Links[g], Links[g][n] \in DOMAIN names,
               group' = [group EXCEPT ![t] = [groups |-> group[t].groups \ {g}, to |-> Links[g][n],
                                              rest |-> Links[g], step |-> "check"]]
        PROVE  Chosen(t, g)
    <3>1. /\ group'[t].rest = Links[g] /\ group'[t].to = Links[g][n] /\ group'[t].step = "check"
          /\ group'[t].groups = group[t].groups \ {g}
      BY <2>3
    <3>2. Links[g][n] \in Range(Links[g])
      BY DEF Range
    <3>3. QED BY <2>1, <2>3, <3>1, <3>2 DEF Chosen
  <2>4. QED BY <1>5, <2>1, <2>2, <2>3 DEF ChooseGroup
<1>6. CASE CheckName(t)
  <2>1. /\ names' = names /\ stage' = stage /\ stage[t] = "links" /\ failed' = failed
        /\ group[t].rest # <<>> /\ group[t].step = "check"
    BY <1>6 DEF CheckName
  <2>2. CASE Advance(t) /\ (Current(t) = group[t].to \/ SameInode(Current(t), group[t].to))
    BY <1>3, <2>1, <2>2 DEF DoneWith
  <2>3. CASE /\ Current(t) # group[t].to
             /\ GoOn(t, IF Current(t) \in DOMAIN names THEN "remove" ELSE "link")
    BY <1>4, <2>1, <2>3 DEF GoneOn
  <2>4. QED BY <1>6, <2>1, <2>2, <2>3 DEF CheckName, Current, SameInode
<1>7. CASE RemoveName(t)
  <2>1. /\ stage' = stage /\ stage[t] = "links" /\ failed' = failed
        /\ group[t].rest # <<>> /\ group[t].step = "remove"
    BY <1>7 DEF RemoveName
  <2>2. CASE Current(t) \notin DOMAIN names /\ Advance(t) /\ names' = names
    <3>1. Stuck(t)
      BY <2>1, <2>2 DEF Stuck, Busy
    <3>2. QED BY <1>3, <2>1, <2>2, <3>1 DEF DoneWith
  <2>3. CASE /\ Current(t) \in DOMAIN names /\ GoOn(t, "link")
             /\ names' = Restrict(names, DOMAIN names \ {Current(t)})
    <3>1. DOMAIN names' = DOMAIN names \ {Current(t)} /\ \A h \in DOMAIN names' : names'[h] = names[h]
      BY <2>3 DEF Restrict
    <3>2. QED BY <1>4, <2>1, <2>3, <3>1 DEF GoneOn
  <2>4. QED BY <1>1, <1>7, <2>1, <2>2, <2>3 DEF RemoveName, Current
<1>8. CASE LinkName(t)
  <2>1. /\ stage' = stage /\ stage[t] = "links" /\ failed' = failed
        /\ group[t].rest # <<>> /\ group[t].step = "link" /\ Advance(t)
    BY <1>8 DEF LinkName
  <2>2. CASE Current(t) \in DOMAIN names /\ names' = names
    <3>1. Stuck(t)
      BY <2>1, <2>2 DEF Stuck, Busy
    <3>2. QED BY <1>3, <2>1, <2>2, <3>1 DEF DoneWith
  <2>3. CASE /\ group[t].to \in DOMAIN names /\ Current(t) \notin DOMAIN names
             /\ names' = Named(Current(t), names[group[t].to])
    BY <1>3, <2>1, <2>3 DEF DoneWith
  <2>4. QED BY <1>1, <1>8, <2>1, <2>2, <2>3 DEF LinkName, Current
<1>9. CASE EndLinks(t) \/ RestoreTimes(t)
  BY <1>1, <1>2, <1>9 DEF EndLinks, RestoreTimes, LinksEnded
<1>10. QED BY <1>5, <1>6, <1>7, <1>8, <1>9 DEF PhaseStep

-----------------------------------------------------------------------------
LEMMA WholeStep ==
    ASSUME Inv, Whole, [Next]_vars
    PROVE  Whole'
<1>1. faults \in Nat /\ faults' \in Nat /\ (faults' = 0 => faults = 0 /\ ~Fault)
  BY FaultsCount DEF Whole
<1>2. CASE JobStep
  <2>1. /\ UNCHANGED <<format, remote, ctrl, failed, times>>
        /\ \A u \in Subtasks : stage'[u] = stage[u] \/ (stage[u] = "none" /\ stage'[u] = "connect")
    BY <1>2, JobFrame DEF copying, target
  <2>2. Underway' => Underway
    BY <1>2 DEF JobStep, Prerequisites, CreateDirs, CheckSource, WriteMagic, RemoveMagic, Prereq, Spawn, Join,
                WriteManifest, Upload, Crash, Underway
  <2>3. QED BY <1>1, <2>1, <2>2 DEF Whole, Subtasks
<1>3. CASE Scan
  <2>1. \A t \in Subtasks' : failed'[t] = {} /\ stage'[t] = "none"
    BY <1>3 DEF Scan, Subtasks
  <2>2. faults' = 0 => ctrl' \in Splits
    BY <1>1, <1>3 DEF Scan
  <2>3. ASSUME NEW s \in Splits PROVE DOMAIN s # {}
    <3>1. s \in Seq(SUBSET Files) /\ s # <<>>
      BY FilesAssumption, SequencesAssumption
    <3>2. Len(s) # 0 /\ Len(s) \in Nat /\ DOMAIN s = 1 .. Len(s)
      BY <3>1, EmptySeq, LenProperties
    <3>3. QED BY <3>2
  <2>4. faults' = 0 => Subtasks' # {} /\ UNION Range(ctrl') = Files
    BY <2>2, <2>3, FilesAssumption DEF Subtasks
  <2>5. QED BY <1>1, <2>1, <2>4 DEF Whole
<1>4. ASSUME NEW t \in Subtasks, SubtaskStep(t) PROVE Whole'
  <2>1. /\ UNCHANGED <<phase, remote, ctrl, format>>
        /\ \A u \in Subtasks \ {t} : stage'[u] = stage[u]
    BY <1>4, SubtaskFrame DEF Inv, Frame, job
  <2>2. faults' = 0 => \A u \in Subtasks : failed'[u] = {}
    <3>1. CASE CopyStep(t)
      <4>1. faults' = 0 => \A u \in Subtasks : failed'[u] = failed[u]
        <5>1. ~Fault => UNCHANGED failed
          BY <3>1 DEF CopyStep, Start, JoinWorkers, FlushBuffers, EndFlush, FlushIndexes, Skip, Open, Push, Close,
                      WriteBlob, BlobFailed, Fail
        <5>2. QED BY <1>1, <5>1
      <4>2. QED BY <1>1, <4>1 DEF Whole
    <3>2. CASE PhaseStep(t)
      <4>1. failed' = failed
        BY <3>2 DEF PhaseStep, ChooseGroup, CheckName, RemoveName, LinkName, EndLinks, RestoreTimes
      <4>2. QED BY <1>1, <4>1 DEF Whole
    <3>3. QED BY <1>4, <3>1, <3>2 DEF SubtaskStep
  <2>3. format = "common" => stage'[t] \notin {"flush", "index"}
    <3>1. format = "common" => t \notin engine /\ stage[t] \notin {"flush", "index"}
      BY DEF Inv, FormatFits, Whole
    <3>2. Shape
      BY DEF Inv
    <3>3. CASE CopyStep(t)
      BY <3>1, <3>2, <3>3 DEF CopyStep, Start, JoinWorkers, FlushBuffers, EndFlush, FlushIndexes, Skip, Open, Push,
                              Close, WriteBlob, Shape
    <3>4. CASE PhaseStep(t)
      BY <3>1, <3>2, <3>4 DEF PhaseStep, ChooseGroup, CheckName, RemoveName, LinkName, EndLinks, RestoreTimes, Shape
    <3>5. QED BY <1>4, <3>3, <3>4 DEF SubtaskStep
  <2>4. faults' = 0 /\ ~remote => times' = TRUE \/ stage'[t] # "ended"
    <3>1. CASE CopyStep(t)
      BY <1>1, <3>1, CopyStages
    <3>2. CASE PhaseStep(t)
      <4>1. Shape /\ stage[t] \in {"links", "times"}
        BY <3>2 DEF Inv, PhaseStep, ChooseGroup, CheckName, RemoveName, LinkName, EndLinks, RestoreTimes
      <4>2. QED BY <1>1, <3>2, <4>1 DEF Shape, PhaseStep, ChooseGroup, CheckName, RemoveName, LinkName, EndLinks,
                                        RestoreTimes
    <3>3. QED BY <1>4, <3>1, <3>2 DEF SubtaskStep
  <2>5. format' = "common" => \A u \in Subtasks : stage'[u] \notin {"flush", "index"}
    BY <2>1, <2>3 DEF Whole
  <2>6. QED BY <1>1, <2>1, <2>2, <2>4, <2>5 DEF Whole, Underway, Subtasks
<1>5. CASE UNCHANGED vars
  BY <1>1, <1>5 DEF vars, job, target, Whole, Underway, Subtasks
<1>6. QED BY <1>2, <1>3, <1>4, <1>5, Steps DEF JobStep

LEMMA NotItselfStep ==
    ASSUME Inv, NotItself, [Next]_vars
    PROVE  NotItself'
<1> USE DEF NotItself, Busy, Current
<1>1. CASE JobStep
  BY <1>1, JobFrame DEF Subtasks
<1>2. CASE Scan
  BY <1>2 DEF Scan, Subtasks, NoGroup
<1>3. ASSUME NEW t \in Subtasks, SubtaskStep(t) PROVE NotItself'
  <2>1. Subtasks' = Subtasks /\ \A u \in Subtasks \ {t} : group'[u] = group[u]
    BY <1>3, SubtaskFrame DEF Inv, Frame, job, Subtasks
  <2>2. group'[t].rest # <<>> /\ group'[t].step \in {"remove", "link"} => Head(group'[t].rest) # group'[t].to
    <3>1. CASE CopyStep(t)
      BY <3>1, CopyGroups DEF Inv
    <3>2. Shape /\ group[t] \in Groups
      BY DEF Inv, Shape
    <3>3. group[t].rest # <<>> /\ Advance(t) => group'[t].step = "check"
      BY <3>2, Advanced
    <3>4. ASSUME NEW s \in {"link", "remove"}, GoOn(t, s)
          PROVE  group'[t].rest = group[t].rest /\ group'[t].to = group[t].to
      BY <3>2, <3>4 DEF GoOn, Groups, Shape
    <3>5. ASSUME NEW g \in DOMAIN Links, ChooseGroup(t, g) PROVE group'[t].step = "check"
      <4>1. CASE group' = [group EXCEPT ![t] = [NoGroup EXCEPT !.groups = group[t].groups \ {g}]]
        BY <3>2, <4>1 DEF NoGroup, Shape
      <4>2. ASSUME NEW n \in DOMAIN Links[g],
                   group' = [group EXCEPT ![t] = [groups |-> group[t].groups \ {g}, to |-> Links[g][n],
                                                  rest |-> Links[g], step |-> "check"]]
            PROVE  group'[t].step = "check"
        BY <3>2, <4>2 DEF Shape
      <4>3. QED BY <3>5, <4>1, <4>2 DEF ChooseGroup
    <3>6. CASE CheckName(t) \/ RemoveName(t) \/ LinkName(t)
      BY <3>3, <3>4, <3>6 DEF CheckName, RemoveName, LinkName
    <3>7. CASE EndLinks(t) \/ RestoreTimes(t)
      BY <3>7 DEF EndLinks, RestoreTimes
    <3>8. QED BY <1>3, <3>1, <3>5, <3>6, <3>7 DEF SubtaskStep, PhaseStep
  <2>3. QED BY <2>1, <2>2
<1>4. CASE UNCHANGED vars
  BY <1>4 DEF vars, job, Subtasks
<1>5. QED BY <1>1, <1>2, <1>3, <1>4, Steps DEF JobStep

-----------------------------------------------------------------------------
(* A name that is not there is still to be copied, or was removed to be    *)
(* linked.                                                                 *)
LEMMA Absent ==
    ASSUME Inv, Whole, Faultless, Underway, NEW f \in Files, f \notin DOMAIN names
    PROVE  (\E u \in Subtasks : stage[u] \in Early) \/ Relinked(f)
<1>1. Shape /\ HasName /\ FormatFits /\ \A u \in Subtasks : Progress(u) /\ Covered(u)
  BY DEF Inv, InCharge
<1>2. PICK u \in Subtasks : f \in ctrl[u]
  BY DEF Whole, Faultless, Range, Subtasks
<1>3. u \notin engine /\ failed[u] = {} /\ lost = {}
  BY <1>1 DEF FormatFits, Whole, Faultless
<1>4. buffer[u] = {} /\ blobs[u] = {} /\ memory[u] = {}
  BY <1>1, <1>3 DEF Progress
<1>5. f \in todo[u] \/ f \in Opened(u) \/ f \in copied[u]
  BY <1>1, <1>2, <1>3, <1>4 DEF Covered
<1>6. CASE f \in todo[u]
  <2>1. stage[u] \in Stages /\ stage[u] \notin {"flush", "index", "links", "times", "ended"}
    BY <1>1, <1>6 DEF Progress, Shape
  <2>2. QED BY <2>1 DEF Stages, Early
<1>7. CASE f \in Opened(u) \cup (copied[u] \ memory[u])
  BY <1>1, <1>3, <1>7 DEF HasName
<1>8. QED BY <1>4, <1>5, <1>6, <1>7

LEMMA RestNames ==
    ASSUME Shape, NEW t \in Subtasks, group[t].rest # <<>>
    PROVE  /\ Current(t) \in Range(group[t].rest)
           /\ Range(group[t].rest) = {Current(t)} \cup Range(Tail(group[t].rest))
<1>1. group[t].rest \in Seq(Files)
  BY DEF Shape, Groups
<1>2. 1 \in DOMAIN group[t].rest /\ Current(t) = group[t].rest[1]
  BY <1>1, HeadTailProperties DEF Current
<1>3. \A n \in DOMAIN group[t].rest : n = 1 \/ (n - 1 \in DOMAIN Tail(group[t].rest)
                                               /\ Tail(group[t].rest)[n - 1] = group[t].rest[n])
  BY <1>1
<1>4. \A n \in DOMAIN Tail(group[t].rest) : n + 1 \in DOMAIN group[t].rest
                                           /\ Tail(group[t].rest)[n] = group[t].rest[n + 1]
  BY <1>1
<1>5. QED BY <1>2, <1>3, <1>4 DEF Range

(* The names of a group are alike, and no others are.                      *)
LEMMA GroupIsClass ==
    ASSUME NEW g \in DOMAIN Links, NEW f \in Range(Links[g])
    PROVE  Alike(f) = Range(Links[g]) /\ f \in Files
<1>1. f \in Files /\ \A h \in DOMAIN Links : f \in Range(Links[h]) => h = g
  BY FilesAssumption
<1>2. QED BY <1>1 DEF Alike

LEMMA CoupleStep ==
    ASSUME Inv, Whole, NotItself, Faultless, faults' = 0, lost' = {}, NEW t \in Subtasks, PhaseStep(t),
           NEW g \in DOMAIN Links, Couple(g),
           Linked(g) \/ \E u \in Subtasks : Pending(u, g)
    PROVE  Linked(g)' \/ \E u \in Subtasks : Pending(u, g)'
<1>1. PICK x, y \in Files : x # y /\ Links[g] = <<x, y>>
  BY DEF Couple
<1>2. Range(Links[g]) = {x, y}
  BY <1>1 DEF Range
<1>3. \A f \in {x, y} : f \in Files /\ Alike(f) = {x, y}
  BY <1>2, GroupIsClass
<1>4. Shape /\ Grouped /\ \A u \in Subtasks : Progress(u)
  BY DEF Inv, InCharge
<1>5. \A u \in Subtasks \ {t} : stage'[u] = stage[u] /\ group'[u] = group[u]
  BY <1>4, SubtaskFrame DEF SubtaskStep, Frame
<1>6. stage[t] \in {"links", "times"} /\ (stage[t] = "links" \/ LinksEnded(t))
  BY <1>4, PhaseCases DEF Whole
(* Other subtasks see a change only if the step is one to a name of the    *)
(* couple.                                                                 *)
<1>7. ASSUME \A f \in {x, y} : /\ f \in DOMAIN names <=> f \in DOMAIN names'
                               /\ f \in DOMAIN names => names'[f] = names[f]
      PROVE  /\ Linked(g) => Linked(g)'
             /\ \A u \in Subtasks \ {t} : Pending(u, g) => Pending(u, g)'
  <2>1. Linked(g) => Linked(g)'
    BY <1>2, <1>7 DEF Linked
  <2>2. ASSUME NEW u \in Subtasks \ {t}, Pending(u, g) PROVE Pending(u, g)'
    <3>1. \A f \in {x, y} : ToLink(u, f) => ToLink(u, f)'
      BY <1>5, <1>7 DEF ToLink, Stuck, Busy, Current
    <3>2. QED BY <1>2, <1>5, <2>2, <3>1 DEF Pending
  <2>3. QED BY <2>1, <2>2
<1>8. ASSUME NEW h \in DOMAIN Links, Chosen(t, h)
      PROVE  Linked(g)' \/ \E u \in Subtasks : Pending(u, g)'
  <2>1. names' = names /\ stage'[t] = "links" /\ group[t].rest = <<>> /\ group'[t].groups = group[t].groups \ {h}
    BY <1>8 DEF Chosen
  <2>2. Range(group[t].rest) = {}
    BY <2>1 DEF Range
  <2>3. Pending(t, g) => g \in group[t].groups
    BY <1>6, <2>2 DEF Pending, ToLink, LinksEnded, Early
  <2>4. CASE h # g
    <3>1. Pending(t, g) => Pending(t, g)'
      BY <2>1, <2>3, <2>4 DEF Pending
    <3>2. QED BY <1>7, <2>1, <3>1
  <2>5. CASE h = g /\ group'[t].rest = <<>> /\ Range(Links[g]) \cap DOMAIN names = {}
    <3>1. x \notin DOMAIN names /\ x \in Files
      BY <1>2, <1>3, <2>5
    <3>2. Underway
      BY AtWork DEF SubtaskStep
    <3>3. CASE \E u \in Subtasks : stage[u] \in Early
      <4>1. PICK u \in Subtasks : stage[u] \in Early
        BY <3>3
      <4>2. u # t
        BY <1>6, <4>1 DEF Early
      <4>3. QED BY <1>5, <4>1, <4>2 DEF Pending
    <3>4. CASE Relinked(x)
      <4>1. PICK v \in Subtasks : group[v].rest # <<>> /\ Head(group[v].rest) = x /\ group[v].step = "link"
        BY <3>4 DEF Relinked
      <4>2. v # t /\ stage[v] = "links"
        BY <1>4, <2>1, <4>1 DEF Progress
      <4>3. x \in Range(group[v].rest) /\ x # group[v].to
        BY <1>4, <4>1, RestNames DEF Current, NotItself, Busy
      <4>4. ~Stuck(v)
        BY <3>1, <4>1 DEF Stuck, Busy, Current
      <4>5. Pending(v, g)
        BY <1>2, <4>2, <4>3, <4>4 DEF Pending, ToLink
      <4>6. QED BY <1>7, <2>1, <4>2, <4>5
    <3>5. QED BY <3>1, <3>2, <3>3, <3>4, Absent
  <2>6. CASE /\ h = g /\ group'[t].rest = Links[g] /\ group'[t].step = "check"
             /\ group'[t].to \in Range(Links[g])
    <3>1. PICK f \in {x, y} : f # group'[t].to
      BY <1>1
    <3>2. ~Stuck(t)'
      BY <2>6 DEF Stuck, Busy
    <3>3. ToLink(t, f)'
      BY <1>2, <2>6, <3>1, <3>2 DEF ToLink
    <3>4. QED BY <1>2, <2>1, <3>3 DEF Pending
  <2>7. QED BY <1>8, <2>4, <2>5, <2>6 DEF Chosen
<1>9. ASSUME NEW c, NEW to, DoneWith(t, c, to)
      PROVE  Linked(g)' \/ \E u \in Subtasks : Pending(u, g)'
  <2>1. /\ stage'[t] = "links" /\ group[t].rest # <<>> /\ c = Current(t) /\ to = group[t].to
        /\ group'[t].rest = Tail(group[t].rest) /\ group'[t].step = "check"
        /\ group'[t].to = to /\ group'[t].groups = group[t].groups
    BY <1>9 DEF DoneWith
  <2>2. c \in Range(group[t].rest) /\ Range(group[t].rest) = {c} \cup Range(group'[t].rest)
    BY <1>4, <2>1, RestNames
  <2>3. ~Stuck(t)'
    BY <2>1 DEF Stuck, Busy
  <2>4. \A f \in {x, y} : f # c /\ ToLink(t, f) => ToLink(t, f)'
    BY <2>1, <2>2, <2>3 DEF ToLink
  <2>5. c \in {x, y} => to \in {x, y}
    BY <1>3, <1>4, <2>1, <2>2 DEF Grouped
  <2>6. stage[t] = "links"
    BY <1>4, <1>6, <2>1 DEF Progress
  <2>7. CASE names' = names /\ (c = to \/ Stuck(t))
    <3>1. \A f \in {x, y} : ToLink(t, f) => f # c
      BY <2>1, <2>7 DEF ToLink
    <3>2. Pending(t, g) => Pending(t, g)'
      BY <1>2, <2>1, <2>4, <2>6, <3>1 DEF Pending, Early
    <3>3. QED BY <1>7, <2>7, <3>2
  <2>8. CASE names' = names /\ SameInode(c, to) /\ c # to
    <3>1. CASE c \in {x, y}
      <4>1. {c, to} = {x, y}
        BY <2>5, <2>8, <3>1
      <4>2. Linked(g)'
        BY <1>2, <2>8, <4>1 DEF Linked, SameInode
      <4>3. QED BY <4>2
    <3>2. CASE c \notin {x, y}
      <4>1. Pending(t, g) => Pending(t, g)'
        BY <1>2, <2>1, <2>4, <2>6, <3>2 DEF Pending, Early
      <4>2. QED BY <1>7, <2>8, <4>1
    <3>3. QED BY <3>1, <3>2
  <2>9. CASE to \in DOMAIN names /\ c \notin DOMAIN names /\ names' = Named(c, names[to])
    <3>1. /\ DOMAIN names' = DOMAIN names \cup {c} /\ names'[c] = names[to]
          /\ \A f \in DOMAIN names : names'[f] = names[f]
      BY <2>9 DEF Named
    <3>2. CASE c \in {x, y}
      <4>1. {c, to} = {x, y}
        BY <2>5, <2>9, <3>2
      <4>2. Linked(g)'
        BY <1>2, <2>9, <3>1, <4>1 DEF Linked
      <4>3. QED BY <4>2
    <3>3. CASE c \notin {x, y}
      <4>1. Pending(t, g) => Pending(t, g)'
        BY <1>2, <2>1, <2>4, <2>6, <3>3 DEF Pending, Early
      <4>2. \A f \in {x, y} : /\ f \in DOMAIN names <=> f \in DOMAIN names'
                              /\ f \in DOMAIN names => names'[f] = names[f]
        BY <3>1, <3>3
      <4>3. QED BY <1>7, <4>1, <4>2
    <3>4. QED BY <3>2, <3>3
  <2>10. QED BY <1>9, <2>7, <2>8, <2>9 DEF DoneWith
<1>10. ASSUME NEW c, GoneOn(t, c)
       PROVE  Linked(g)' \/ \E u \in Subtasks : Pending(u, g)'
  <2>1. /\ stage'[t] = "links" /\ group[t].rest # <<>> /\ c = Current(t)
        /\ group'[t].rest = group[t].rest /\ group'[t].to = group[t].to /\ group'[t].groups = group[t].groups
    BY <1>10 DEF GoneOn
  <2>2. c \in Range(group[t].rest) /\ Current(t)' = c
    BY <1>4, <2>1, RestNames DEF Current
  <2>3. ~Stuck(t)'
    BY <1>10, <2>1, <2>2 DEF GoneOn, Stuck, Busy
  <2>4. \A f \in {x, y} : ToLink(t, f) => ToLink(t, f)'
    BY <2>1, <2>3 DEF ToLink
  <2>5. stage[t] = "links"
    BY <1>4, <1>6, <2>1 DEF Progress
  <2>6. Pending(t, g) => Pending(t, g)'
    BY <1>2, <2>1, <2>4, <2>5 DEF Pending, Early
  <2>7. CASE names' = names
    BY <1>7, <2>6, <2>7
  <2>8. CASE /\ group[t].step = "remove" /\ DOMAIN names' = DOMAIN names \ {c}
             /\ \A f \in DOMAIN names' : names'[f] = names[f]
    <3>1. CASE c \in {x, y}
      <4>1. c # group[t].to
        BY <2>1, <2>8 DEF NotItself, Busy
      <4>2. ToLink(t, c)'
        BY <2>1, <2>2, <2>3, <4>1 DEF ToLink
      <4>3. QED BY <1>2, <2>1, <3>1, <4>2 DEF Pending
    <3>2. CASE c \notin {x, y}
      <4>1. \A f \in {x, y} : /\ f \in DOMAIN names <=> f \in DOMAIN names'
                              /\ f \in DOMAIN names => names'[f] = names[f]
        BY <2>8, <3>2
      <4>2. QED BY <1>7, <2>6, <4>1
    <3>3. QED BY <3>1, <3>2
  <2>9. QED BY <1>10, <2>7, <2>8 DEF GoneOn
<1>11. CASE LinksEnded(t)
  <2>1. names' = names /\ (stage[t] = "times" \/ (group[t].groups = {} /\ group[t].rest = <<>> /\ stage[t] = "links"))
    BY <1>11 DEF LinksEnded
  <2>2. ~Pending(t, g)
    BY <2>1 DEF Pending, ToLink, Range, Early
  <2>3. QED BY <1>7, <2>1, <2>2
<1>12. QED BY <1>4, <1>8, <1>9, <1>10, <1>11, PhaseCases DEF Whole

LEMMA CoupledStep ==
    ASSUME Inv, Whole, Whole', NotItself, Coupled, [Next]_vars
    PROVE  Coupled'
<1> SUFFICES ASSUME faults' = 0, lost' = {}, Underway', ~remote', format' = "common", NEW g \in DOMAIN Links, Couple(g)
             PROVE  Linked(g)' \/ \E t \in Subtasks' : Pending(t, g)'
  BY DEF Coupled, Couple
<1>1. faults \in Nat /\ faults = 0 /\ ~Fault
  BY FaultsCount DEF Whole
<1>2. CASE JobStep
  <2>1. /\ UNCHANGED <<format, remote, ctrl, group, names, lost>>
        /\ \A u \in Subtasks : stage'[u] = stage[u] \/ (stage[u] = "none" /\ stage'[u] = "connect")
    BY <1>2, JobFrame DEF target
  <2>2. Underway
    BY <1>2 DEF JobStep, Prerequisites, CreateDirs, CheckSource, WriteMagic, RemoveMagic, Prereq, Spawn, Join,
                WriteManifest, Upload, Crash, Underway
  <2>3. Linked(g) \/ \E t \in Subtasks : Pending(t, g)
    BY <1>1, <2>1, <2>2 DEF Coupled
  <2>4. \A t \in Subtasks : Pending(t, g) => Pending(t, g)'
    BY <2>1 DEF Pending, Early, ToLink, Stuck, Busy, Current
  <2>5. Linked(g) => Linked(g)'
    BY <2>1 DEF Linked
  <2>6. QED BY <2>1, <2>3, <2>4, <2>5 DEF Subtasks
<1>3. CASE Scan
  <2>1. \A t \in Subtasks' : Pending(t, g)'
    BY <1>3 DEF Scan, Subtasks, Pending, Early
  <2>2. Subtasks' # {}
    BY DEF Whole
  <2>3. QED BY <2>1, <2>2
<1>4. ASSUME NEW t \in Subtasks, SubtaskStep(t)
      PROVE  Linked(g)' \/ \E u \in Subtasks' : Pending(u, g)'
  <2>1. Subtasks' = Subtasks /\ remote' = remote /\ format' = format /\ lost \subseteq lost'
    BY <1>4, SubtaskFrame DEF Inv, Frame, job, Subtasks
  <2>2. Faultless /\ Underway
    BY <1>1, <1>4, <2>1, AtWork DEF Faultless
  <2>3. Linked(g) \/ \E u \in Subtasks : Pending(u, g)
    BY <2>2 DEF Coupled, Faultless
  <2>4. CASE CopyStep(t)
    <3>1. stage'[t] \in Early \/ (stage'[t] = "links" /\ group'[t].groups = DOMAIN Links)
      BY <1>1, <2>2, <2>4, CopyStages DEF Whole, Faultless
    <3>2. QED BY <2>1, <3>1 DEF Pending
  <2>5. CASE PhaseStep(t)
    BY <2>1, <2>2, <2>3, <2>5, CoupleStep
  <2>6. QED BY <1>4, <2>4, <2>5 DEF SubtaskStep
<1>5. CASE UNCHANGED vars
  <2>1. Linked(g) \/ \E t \in Subtasks : Pending(t, g)
    BY <1>1, <1>5 DEF vars, job, history, Coupled, Underway
  <2>2. QED BY <1>5, <2>1 DEF vars, job, target, Linked, Pending, ToLink, Stuck, Busy, Current, Subtasks
<1>6. QED BY <1>2, <1>3, <1>4, <1>5, Steps DEF JobStep

-----------------------------------------------------------------------------
LEMMA AlonePhase ==
    ASSUME Inv, Whole, NotItself, Faultless, Subtasks = {1}, Alone, faults' = 0, lost' = {}, PhaseStep(1)
    PROVE  ~Stuck(1)' /\ (\A g \in DOMAIN Links : Led(g)')
           /\ (stage'[1] \in {"times", "ended"} => group'[1].groups = {})
<1>1. Shape /\ Grouped /\ Progress(1)
  BY DEF Inv, InCharge
<1>2. stage[1] \in {"links", "times"} /\ (stage[1] = "links" \/ LinksEnded(1))
  BY <1>1, PhaseCases DEF Whole
<1>3. ~Stuck(1) /\ \A g \in DOMAIN Links : Led(g)
  BY <1>2 DEF Alone, Faultless, Early
<1>4. \A g, h \in DOMAIN Links : g # h => Range(Links[g]) \cap Range(Links[h]) = {}
  BY FilesAssumption
<1>5. ASSUME NEW h \in DOMAIN Links, Chosen(1, h)
      PROVE  /\ ~Stuck(1)' /\ \A g \in DOMAIN Links : Led(g)'
             /\ stage'[1] = "links"
  <2>1. /\ names' = names /\ stage'[1] = "links" /\ group[1].rest = <<>>
        /\ h \in group[1].groups /\ group'[1].groups = group[1].groups \ {h}
    BY <1>5 DEF Chosen
  <2>2. \A f \in Files : f \in DOMAIN names
    <3>1. Underway
      BY AtWork DEF SubtaskStep
    <3>2. \A f : ~Relinked(f)
      BY <2>1 DEF Relinked
    <3>3. ~\E u \in Subtasks : stage[u] \in Early
      BY <1>2 DEF Early
    <3>4. QED BY <3>1, <3>2, <3>3, Absent
  <2>3. \E f \in Range(Links[h]) : f \in Files
    <3>1. Links[h] \in Seq(Files) /\ Links[h] # <<>>
      BY FilesAssumption, SequencesAssumption
    <3>2. Links[h][1] \in Range(Links[h])
      <4>1. 1 \in DOMAIN Links[h]
        BY <3>1, EmptySeq, LenProperties
      <4>2. QED BY <4>1 DEF Range
    <3>3. QED BY <3>2, FilesAssumption
  <2>4. /\ group'[1].rest = Links[h] /\ group'[1].step = "check"
        /\ group'[1].to \in Range(Links[h]) \cap DOMAIN names
    BY <1>5, <2>2, <2>3 DEF Chosen
  <2>5. ~Stuck(1)'
    BY <2>4 DEF Stuck, Busy
  <2>6. Led(h)'
    <3>1. Dealt(h)' = {}
      BY <2>4 DEF Dealt
    <3>2. QED BY <2>1, <2>4, <3>1 DEF Led
  <2>7. ASSUME NEW g \in DOMAIN Links, g # h PROVE Led(g)'
    <3>1. CASE g \in group[1].groups
      BY <2>1, <2>7, <3>1 DEF Led
    <3>2. CASE g \notin group[1].groups
      <4>1. Range(group[1].rest) = {}
        BY <2>1 DEF Range
      <4>2. Dealt(g)' \subseteq Dealt(g)
        BY <4>1 DEF Dealt
      <4>3. group'[1].to \notin Range(Links[g])
        BY <1>4, <2>4, <2>7
      <4>4. PICK to \in Range(Links[g]) :
               to \in DOMAIN names /\ \A f \in Dealt(g) : f \in DOMAIN names /\ names[f] = names[to]
        BY <1>3, <3>2 DEF Led
      <4>5. QED BY <2>1, <4>2, <4>3, <4>4 DEF Led
    <3>3. QED BY <3>1, <3>2
  <2>8. QED BY <2>1, <2>5, <2>6, <2>7
(* In the midst of a group, its names are linked to the one chosen.        *)
<1>6. ASSUME group[1].rest # <<>>, NEW g \in DOMAIN Links, Current(1) \in Range(Links[g]), g \notin group[1].groups
      PROVE  /\ group[1].to \in Range(Links[g]) /\ group[1].to \in DOMAIN names
             /\ \A f \in Dealt(g) : f \in DOMAIN names /\ names[f] = names[group[1].to]
  <2>1. Current(1) \in Range(group[1].rest)
    BY <1>1, <1>6, RestNames
  <2>2. group[1].to \in Range(Links[g])
    BY <1>1, <1>6, <2>1, GroupIsClass DEF Grouped
  <2>3. QED BY <1>3, <1>6, <2>2 DEF Led
<1>7. ASSUME NEW c, NEW to, DoneWith(1, c, to)
      PROVE  /\ ~Stuck(1)' /\ \A g \in DOMAIN Links : Led(g)'
             /\ stage'[1] = "links"
  <2>1. /\ stage'[1] = "links" /\ group[1].rest # <<>> /\ c = Current(1) /\ to = group[1].to
        /\ group'[1].rest = Tail(group[1].rest) /\ group'[1].step = "check"
        /\ group'[1].to = to /\ group'[1].groups = group[1].groups
    BY <1>7 DEF DoneWith
  <2>2. Range(group[1].rest) = {c} \cup Range(group'[1].rest)
    BY <1>1, <2>1, RestNames
  <2>3. ~Stuck(1)'
    BY <2>1 DEF Stuck, Busy
  <2>4. /\ \A f \in DOMAIN names : f \in DOMAIN names' /\ names'[f] = names[f]
        /\ to \in DOMAIN names => c \in DOMAIN names' /\ names'[c] = names[to]
    <3>1. CASE names' = names /\ (c = to \/ SameInode(c, to))
      BY <3>1 DEF SameInode
    <3>2. CASE names' = Named(c, names[to]) /\ c \notin DOMAIN names
      BY <3>2 DEF Named
    <3>3. QED BY <1>3, <1>7, <3>1, <3>2 DEF DoneWith
  <2>5. ASSUME NEW g \in DOMAIN Links PROVE Led(g)'
    <3>1. CASE g \in group[1].groups
      BY <2>1, <3>1 DEF Led
    <3>2. CASE g \notin group[1].groups /\ c \in Range(Links[g])
      <4>1. /\ to \in Range(Links[g]) /\ to \in DOMAIN names
            /\ \A f \in Dealt(g) : f \in DOMAIN names /\ names[f] = names[to]
        BY <1>6, <2>1, <3>2
      <4>2. \A f \in Dealt(g)' : f \in Dealt(g) \/ f = c
        BY <2>2 DEF Dealt
      <4>3. \A f \in Dealt(g)' : f \in DOMAIN names' /\ names'[f] = names'[to]
        BY <2>4, <4>1, <4>2
      <4>4. QED BY <2>1, <2>4, <4>1, <4>3 DEF Led
    <3>3. CASE g \notin group[1].groups /\ c \notin Range(Links[g])
      <4>1. Dealt(g)' = Dealt(g)
        BY <2>2, <3>3 DEF Dealt
      <4>2. PICK k \in Range(Links[g]) :
               /\ k \in DOMAIN names
               /\ \A f \in Dealt(g) : f \in DOMAIN names /\ names[f] = names[k]
               /\ group[1].rest # <<>> /\ group[1].to \in Range(Links[g]) => group[1].to = k
        BY <1>3, <3>3 DEF Led
      <4>3. QED BY <2>1, <2>4, <4>1, <4>2 DEF Led
    <3>4. QED BY <3>1, <3>2, <3>3
  <2>6. QED BY <2>1, <2>3, <2>5
<1>8. ASSUME NEW c, GoneOn(1, c)
      PROVE  /\ ~Stuck(1)' /\ \A g \in DOMAIN Links : Led(g)'
             /\ stage'[1] = "links"
  <2>1. /\ stage'[1] = "links" /\ group[1].rest # <<>> /\ c = Current(1)
        /\ group'[1].rest = group[1].rest /\ group'[1].to = group[1].to /\ group'[1].groups = group[1].groups
    BY <1>8 DEF GoneOn
  <2>2. c \in Range(group[1].rest) /\ Current(1)' = c
    BY <1>1, <2>1, RestNames DEF Current
  <2>3. ~Stuck(1)'
    BY <1>8, <2>1, <2>2 DEF GoneOn, Stuck, Busy
  <2>4. /\ \A f \in DOMAIN names : f # c => f \in DOMAIN names' /\ names'[f] = names[f]
        /\ names' = names \/ c # group[1].to
    BY <1>8, <2>1 DEF GoneOn, NotItself, Busy
  <2>5. ASSUME NEW g \in DOMAIN Links PROVE Led(g)'
    <3>1. CASE g \in group[1].groups
      BY <2>1, <3>1 DEF Led
    <3>2. CASE names' = names
      BY <1>3, <2>1, <3>2 DEF Led, Dealt
    <3>3. CASE g \notin group[1].groups /\ c # group[1].to
      <4>1. Dealt(g)' = Dealt(g) /\ c \notin Dealt(g)
        BY <2>1, <2>2 DEF Dealt
      <4>2. PICK k \in Range(Links[g]) :
               /\ k \in DOMAIN names
               /\ \A f \in Dealt(g) : f \in DOMAIN names /\ names[f] = names[k]
               /\ group[1].rest # <<>> /\ group[1].to \in Range(Links[g]) => group[1].to = k
        BY <1>3, <3>3 DEF Led
      <4>3. k # c
        BY <1>6, <2>1, <3>3, <4>2
      <4>4. QED BY <2>1, <2>4, <4>1, <4>2, <4>3 DEF Led
    <3>4. QED BY <2>4, <3>1, <3>2, <3>3
  <2>6. QED BY <2>1, <2>3, <2>5
<1>9. CASE LinksEnded(1)
  <2>1. names' = names /\ group' = group
    BY <1>9 DEF LinksEnded
  <2>2. group[1].groups = {}
    BY <1>9 DEF LinksEnded, Alone, Faultless
  <2>3. QED BY <1>3, <2>1, <2>2 DEF Stuck, Busy, Current, Led, Dealt
<1>10. QED BY <1>1, <1>5, <1>7, <1>8, <1>9, PhaseCases DEF Whole

LEMMA AloneStep ==
    ASSUME Inv, Whole, NotItself, Alone, [Next]_vars
    PROVE  Alone'
<1> SUFFICES ASSUME faults' = 0, lost' = {}, ~remote', format' = "common", Subtasks' = {1}
             PROVE  /\ ~Stuck(1)'
                    /\ stage'[1] \notin Early => \A g \in DOMAIN Links : Led(g)'
                    /\ stage'[1] \in {"times", "ended"} => group'[1].groups = {}
  BY DEF Alone
<1>1. faults \in Nat /\ faults = 0 /\ ~Fault
  BY FaultsCount DEF Whole
<1>2. CASE JobStep
  <2>1. /\ UNCHANGED <<format, remote, ctrl, group, names, lost>>
        /\ \A u \in Subtasks : stage'[u] = stage[u] \/ (stage[u] = "none" /\ stage'[u] = "connect")
    BY <1>2, JobFrame DEF target
  <2>2. Subtasks = {1} /\ Alone
    BY <2>1 DEF Subtasks
  <2>3. /\ ~Stuck(1) /\ (stage[1] \notin Early => \A g \in DOMAIN Links : Led(g))
        /\ stage[1] \in {"times", "ended"} => group[1].groups = {}
    BY <1>1, <2>1, <2>2 DEF Alone
  <2>4. ~Stuck(1)' /\ (stage'[1] \notin Early => stage'[1] = stage[1])
    BY <2>1, <2>2, <2>3 DEF Stuck, Busy, Current, Early
  <2>5. \A g \in DOMAIN Links : Led(g) => Led(g)'
    BY <2>1 DEF Led, Dealt
  <2>6. QED BY <2>1, <2>2, <2>3, <2>4, <2>5 DEF Early
<1>3. CASE Scan
  <2>1. stage'[1] = "none" /\ group'[1].rest = <<>>
    BY <1>3 DEF Scan, Subtasks, NoGroup
  <2>2. QED BY <2>1 DEF Stuck, Busy, Early
<1>4. ASSUME NEW t \in Subtasks, SubtaskStep(t)
      PROVE  /\ ~Stuck(1)'
             /\ stage'[1] \notin Early => \A g \in DOMAIN Links : Led(g)'
             /\ stage'[1] \in {"times", "ended"} => group'[1].groups = {}
  <2>1. Subtasks' = Subtasks /\ remote' = remote /\ format' = format /\ lost \subseteq lost' /\ t = 1
    BY <1>4, SubtaskFrame DEF Inv, Frame, job, Subtasks
  <2>2. Faultless /\ Subtasks = {1}
    BY <1>1, <2>1 DEF Faultless
  <2>3. CASE CopyStep(t)
    <3>1. /\ group'[1].rest = <<>>
          /\ stage'[1] \in Early \/ (stage'[1] = "links" /\ group'[1].groups = DOMAIN Links)
      BY <1>1, <2>1, <2>2, <2>3, CopyStages DEF Whole, Faultless
    <3>2. QED BY <3>1 DEF Stuck, Busy, Early, Led
  <2>4. CASE PhaseStep(t)
    BY <2>1, <2>2, <2>4, AlonePhase
  <2>5. QED BY <1>4, <2>3, <2>4 DEF SubtaskStep
<1>5. CASE UNCHANGED vars
  <2>1. /\ ~Stuck(1) /\ (stage[1] \notin Early => \A g \in DOMAIN Links : Led(g))
        /\ stage[1] \in {"times", "ended"} => group[1].groups = {}
    BY <1>1, <1>5 DEF vars, job, history, Alone, Subtasks
  <2>2. QED BY <1>5, <2>1 DEF vars, job, target, Stuck, Busy, Current, Led, Dealt
<1>6. QED BY <1>2, <1>3, <1>4, <1>5, Steps DEF JobStep

-----------------------------------------------------------------------------
(* A copy without errors is exact: every file is there, the times of the   *)
(* directories are restored, and the names of an inode are linked if there *)
(* are two of them or one subtask.                                         *)
THEOREM CopyIsExact == Spec => []ExactCopy
<1> DEFINE Exactness == Whole /\ NotItself /\ Coupled /\ Alone
<1>1. Init => Exactness
  <2> SUFFICES ASSUME Init PROVE Exactness
    OBVIOUS
  <2>1. Subtasks = {} /\ phase = "new" /\ faults = 0
    BY DEF Init, Subtasks
  <2>2. QED BY <2>1 DEF Whole, NotItself, Coupled, Alone, Underway
<1>2. Inv /\ Exactness /\ [Next]_vars => Exactness'
  BY WholeStep, NotItselfStep, CoupledStep, AloneStep
<1>3. Inv /\ Exactness => ExactCopy
  <2> SUFFICES ASSUME Inv, Exactness, phase = "ok", faults = 0, lost = {}, ~remote
               PROVE  /\ \A f \in Files : InCopy(f)
                      /\ format = "common" =>
                            \A g \in DOMAIN Links : Len(ctrl) = 1 \/ Len(Links[g]) <= 2 => OneInode(g)
                      /\ times
    BY DEF ExactCopy
  <2>1. Underway /\ \A u \in Subtasks : stage[u] = "ended" /\ failed[u] = {}
    BY DEF Inv, Orderly, Told, Underway, Whole
  <2>2. \A u \in Subtasks : group[u].rest = <<>> /\ stage[u] \notin Early
    BY <2>1 DEF Inv, InCharge, Progress, Early
  <2>3. times
    BY <2>1 DEF Whole
  <2>4. ASSUME NEW f \in Files PROVE InCopy(f)
    <3>1. PICK t \in Subtasks : f \in ctrl[t]
      BY <2>1 DEF Whole, Range, Subtasks
    <3>2. QED BY <2>1, <3>1, CountedIsThere
  <2>5. ASSUME format = "common", NEW g \in DOMAIN Links, Len(ctrl) = 1 \/ Len(Links[g]) <= 2
        PROVE  OneInode(g)
    <3>1. Links[g] \in Seq(Files) /\ Links[g] # <<>>
      BY FilesAssumption, SequencesAssumption
    <3>2. Len(Links[g]) \in Nat \ {0} /\ DOMAIN Links[g] = 1 .. Len(Links[g])
      BY <3>1, EmptySeq, LenProperties
    <3>3. Links[g][1] \in Range(Links[g])
      BY <3>2 DEF Range
    <3>4. SUFFICES \A f, h \in Range(Links[g]) : names[f] = names[h]
      <4>1. {names[f] : f \in Range(Links[g])} = {names[Links[g][1]]}
        BY <3>3, <3>4
      <4>2. QED BY <4>1, FS_Singleton DEF OneInode
    <3>5. CASE Len(ctrl) = 1
      <4>1. Subtasks = {1}
        BY <3>5 DEF Inv, Shape, Subtasks
      <4>2. Led(g) /\ group[1].groups = {} /\ Range(group[1].rest) = {}
        BY <2>1, <2>2, <2>5, <4>1 DEF Alone, Range
      <4>3. QED BY <4>2 DEF Led, Dealt
    <3>6. CASE Len(Links[g]) = 1
      <4>1. Range(Links[g]) = {Links[g][1]}
        BY <3>2, <3>6 DEF Range
      <4>2. QED BY <4>1
    <3>7. CASE Len(Links[g]) = 2
      <4>1. Range(Links[g]) = {Links[g][1], Links[g][2]}
        BY <3>2, <3>7 DEF Range
      <4>2. CASE Links[g][1] = Links[g][2]
        BY <4>1, <4>2
      <4>3. CASE Links[g][1] # Links[g][2]
        <5>1. Couple(g)
          BY <3>1, <3>7, <4>3 DEF Couple
        <5>2. \A u \in Subtasks : ~Pending(u, g)
          BY <2>1, <2>2 DEF Pending
        <5>3. Linked(g)
          BY <2>1, <2>5, <5>1, <5>2 DEF Coupled
        <5>4. QED BY <5>3 DEF Linked
      <4>4. QED BY <4>2, <4>3
    <3>8. QED BY <2>5, <3>2, <3>5, <3>6, <3>7
  <2>6. QED BY <2>3, <2>4, <2>5
<1>4. QED BY <1>1, <1>2, <1>3, Invariance, PTL DEF Spec
=============================================================================
