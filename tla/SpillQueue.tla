----------------------------- MODULE SpillQueue -----------------------------
(***************************************************************************)
(* utility/spill_queue.rs: a queue that keeps at most a bounded number of  *)
(* items in memory and writes the excess to batch files.  Every operation  *)
(* holds the one mutex from its first line to its last, so it is a single  *)
(* action, whatever thread makes the call.  An item is its serial number:  *)
(* pushes are numbered in lock order.                                      *)
(***************************************************************************)
EXTENDS Naturals, Sequences, FiniteSets, SequencesExt

CONSTANTS Configs,    \* settings <<upper, lower, batch>> offered to new/set_config
          MaxItems,   \* bound: pushes
          MaxFaults   \* bound: I/O errors of the cache directory

Upper(c) == c[1]    \* memory_upper_bound
Lower(c) == c[2]    \* memory_lower_bound
Batch(c) == c[3]    \* spill_load_batch_size

(* The test both new and set_config make; others return InvalidConfig.     *)
ValidConfig(c) ==
    /\ Lower(c) < Upper(c)
    /\ Batch(c) # 0
    /\ Batch(c) <= Upper(c) - Lower(c)

ASSUME ConfigsAssumption ==
    /\ Configs \subseteq Nat \X Nat \X Nat
    /\ \E c \in Configs : ValidConfig(c)

ASSUME BoundsAssumption == MaxItems \in Nat /\ MaxFaults \in Nat

VARIABLES
    config,     \* the three bounds in force
    memory,     \* memory_queue
    unspilled,  \* unspilled_count
    disk,       \* the batch files, front_cache_id first
    itemCount,  \* item_count
    pushed,     \* pushes made so far; also the last item's number
    out,        \* history: what pop has returned, in order
    result,     \* what the last call returned
    faults      \* I/O errors so far

spillVars == <<config, memory, unspilled, disk, itemCount, pushed, out, result, faults>>

(* The part of the state spill_to_disk and load_from_disk work on.         *)
Store(m, u, d) == [memory |-> m, unspilled |-> u, disk |-> d]

InFiles(d) == UNION {ToSet(batch) : batch \in ToSet(d)}

Least(a, b) == IF a <= b THEN a ELSE b

AllBut(s, n) == SubSeq(s, 1, Len(s) - Least(n, Len(s)))
LastOf(s, n) == SubSeq(s, Len(s) - Least(n, Len(s)) + 1, Len(s))

-----------------------------------------------------------------------------
(* The items on top of the batch to spill, set aside for its duration.     *)
RepushCount(s) == IF s.disk = <<>> THEN 0 ELSE s.unspilled - Batch(config)

(* The two early returns of spill_to_disk with InvalidConfig.              *)
SpillRefused(s) ==
    \/ Len(s.memory) < Upper(config)
    \/ s.disk # <<>> /\ s.unspilled < Batch(config)

(* unspilled_count once the batch is out of it.                            *)
AfterSpillCount(s) == IF s.disk = <<>> THEN s.unspilled ELSE s.unspilled - Batch(config)

(* Faulty variant: the repushed items are not restored.                    *)
Spilled_NotRestored(s) ==
    LET kept == AllBut(s.memory, RepushCount(s))
    IN Store(AllBut(kept, Batch(config)), AfterSpillCount(s),
             Append(s.disk, LastOf(kept, Batch(config))))

(* spill_to_disk when it succeeds: the newest batch, or the oldest batch   *)
(* of the unspilled items if there are files already, goes to a new file.  *)
Spilled(s) ==
    LET kept == AllBut(s.memory, RepushCount(s))
        repush == LastOf(s.memory, RepushCount(s))
    IN Store(AllBut(kept, Batch(config)) \o repush, AfterSpillCount(s),
             Append(s.disk, LastOf(kept, Batch(config))))

(* spill_to_disk when the file cannot be created, or not be written: what  *)
(* has been taken out of memory by then is dropped.                        *)
SpillFailures(s) ==
    LET kept == AllBut(s.memory, RepushCount(s)) IN
    { Store(kept, AfterSpillCount(s), s.disk),
      Store(AllBut(kept, Batch(config)), AfterSpillCount(s), s.disk) }

(* Faulty variant: the comparison with the lower bound is the wrong way.   *)
LoadRefused_Low(s) == Len(s.memory) < Lower(config) \/ s.disk = <<>>

LoadRefused(s) == Len(s.memory) >= Lower(config) \/ s.disk = <<>>

(* Faulty variant: the unspilled items are not restored.                   *)
Loaded_NotRestored(s) ==
    Store(AllBut(s.memory, s.unspilled) \o Head(s.disk),
          IF Len(s.disk) = 1 THEN 0 ELSE s.unspilled, Tail(s.disk))

(* load_from_disk when it succeeds.  It reads at most a batch of today's   *)
(* size and deletes the file; the items of memory counted as unspilled are *)
(* put back behind what it read.                                           *)
Loaded(s) ==
    LET older == AllBut(s.memory, s.unspilled)
        newer == LastOf(s.memory, s.unspilled)
        read == SubSeq(Head(s.disk), 1, Least(Batch(config), Len(Head(s.disk))))
    IN Store(older \o read \o newer,
             IF Len(s.disk) = 1 THEN 0 ELSE s.unspilled, Tail(s.disk))

(* Faulty variant: a batch that cannot be decoded is deleted.              *)
LoadFailures_Deleted(s) == {[Loaded(s) EXCEPT !.memory = s.memory]}

(* load_from_disk when the file cannot be opened (nothing has changed), or *)
(* an item cannot be decoded after n have been: the items set aside are    *)
(* dropped and the file stays.  Failing to delete the file is an error     *)
(* after everything is done.                                               *)
LoadFailures(s) ==
    LET older == AllBut(s.memory, s.unspilled) IN
    {s, Loaded(s)}
      \cup { Store(older \o SubSeq(Head(s.disk), 1, n), s.unspilled, s.disk) :
               n \in 0 .. Least(Batch(config), Len(Head(s.disk))) - 1 }

-----------------------------------------------------------------------------
NewQueue ==
    /\ config \in {c \in Configs : ValidConfig(c)}
    /\ memory = <<>> /\ unspilled = 0 /\ disk = <<>> /\ itemCount = 0
    /\ pushed = 0 /\ out = <<>> /\ result = "pushed" /\ faults = 0

Set(s) == memory' = s.memory /\ unspilled' = s.unspilled /\ disk' = s.disk

Fail == faults < MaxFaults /\ faults' = faults + 1
NoFail == UNCHANGED faults

(* push: the item is in memory before spill_to_disk runs, so an error of   *)
(* the latter leaves it there.                                             *)
Push ==
    LET s == Store(Append(memory, pushed + 1),
                   IF disk = <<>> THEN unspilled ELSE unspilled + 1, disk)
    IN
    /\ pushed < MaxItems
    /\ pushed' = pushed + 1
    /\ itemCount' = itemCount + 1
    /\ \/ Len(s.memory) <= Upper(config) /\ Set(s) /\ result' = "pushed" /\ NoFail
       \/ /\ Len(s.memory) > Upper(config)
          /\ \/ SpillRefused(s) /\ Set(s) /\ result' = "error" /\ NoFail
             \/ ~ SpillRefused(s) /\ Set(Spilled(s)) /\ result' = "pushed" /\ NoFail
             \/ /\ ~ SpillRefused(s) /\ \E f \in SpillFailures(s) : Set(f)
                /\ result' = "error" /\ Fail
    /\ UNCHANGED <<config, out>>

(* The end of pop, from pop_front on.  An error of the second load makes   *)
(* pop return it instead of the item it has taken.                         *)
Take(s) ==
    LET t == Store(IF s.memory = <<>> THEN <<>> ELSE Tail(s.memory), s.unspilled, s.disk)
        short == Len(t.memory) < Lower(config) /\ t.disk # <<>>
        Return == /\ out' = IF s.memory = <<>> THEN out ELSE Append(out, Head(s.memory))
                  /\ result' = IF s.memory = <<>> THEN "none" ELSE "item"
                  /\ NoFail
    IN
    /\ itemCount' = itemCount - 1
    /\ \/ ~ short /\ Set(t) /\ Return
       \/ short /\ Set(Loaded(t)) /\ Return
       \/ /\ short /\ \E f \in LoadFailures(t) : Set(f)
          /\ Fail /\ result' = "error" /\ UNCHANGED out

(* The first load of pop fails: nothing is taken.                          *)
PopFails(s) ==
    /\ \/ LoadRefused(s) /\ Set(s) /\ NoFail
       \/ ~ LoadRefused(s) /\ Fail /\ \E f \in LoadFailures(s) : Set(f)
    /\ result' = "error"
    /\ UNCHANGED <<itemCount, out>>

SpillPop ==
    LET s == Store(memory, unspilled, disk)
        empty == memory = <<>> /\ disk # <<>>
    IN
    /\ \/ /\ itemCount = 0 /\ result' = "none" /\ NoFail
          /\ UNCHANGED <<memory, unspilled, disk, itemCount, out>>
       \/ itemCount > 0 /\ ~ empty /\ Take(s)
       \/ itemCount > 0 /\ empty /\ ~ LoadRefused(s) /\ Take(Loaded(s))
       \/ itemCount > 0 /\ empty /\ PopFails(s)
    /\ UNCHANGED <<config, pushed>>

(* set_config looks only at the numbers, not at what the queue holds.      *)
SetConfig ==
    /\ config' \in {c \in Configs : ValidConfig(c)}
    /\ UNCHANGED <<memory, unspilled, disk, itemCount, pushed, out, result, faults>>

-----------------------------------------------------------------------------
Held == ToSet(memory) \cup InFiles(disk)

(* The counters are counts (usize in the code: never below zero).          *)
SpillTypeOK ==
    /\ config \in Configs
    /\ memory \in Seq(1 .. MaxItems)
    /\ disk \in Seq(Seq(1 .. MaxItems))
    /\ unspilled \in Nat
    /\ itemCount \in Nat
    /\ pushed \in 0 .. MaxItems
    /\ out \in Seq(1 .. MaxItems)
    /\ result \in {"pushed", "item", "none", "error"}
    /\ faults \in 0 .. MaxFaults

(* No file holds an item twice, nor two files the same item.               *)
Separate(d) ==
    \A j, k \in DOMAIN d : IF j = k THEN IsInjective(d[k]) ELSE ToSet(d[j]) \cap ToSet(d[k]) = {}

(* Without I/O errors, spilling, loading, popping and changing the setting *)
(* in any order neither destroy nor double an item: what was pushed has    *)
(* been popped, is in memory or in a file, once.                           *)
NothingLost ==
    faults = 0 =>
        /\ ToSet(out) \cup Held = 1 .. pushed
        /\ IsInjective(out) /\ IsInjective(memory) /\ Separate(disk)
        /\ ToSet(out) \cap Held = {} /\ ToSet(memory) \cap InFiles(disk) = {}

(* Without I/O errors item_count never promises an item the queue has not  *)
(* got: whoever waits for is_empty does not wait for ever.                 *)
CountNotOver == faults = 0 => itemCount <= Cardinality(Held)

(* An error in reading or writing one batch does not reach the files       *)
(* behind it, and costs the front file no more items than the lower bound: *)
(* the one pop was about to return, and those of a batch just loaded that  *)
(* a second load in the same call set aside as unspilled.                  *)
FilesSurvive ==
    [][LET left == ToSet(out') \cup Held' IN
       disk # <<>> => /\ Cardinality(InFiles(disk) \ left) <= Lower(config)
                      /\ InFiles(Tail(disk)) \subseteq left]_spillVars

=============================================================================
