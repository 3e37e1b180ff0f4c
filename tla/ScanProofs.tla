----------------------------- MODULE ScanProofs -----------------------------
(***************************************************************************)
(* Proofs about the scan.  About ScanWorkers, for every tree, every        *)
(* filter, any number of workers and writers and every capacity of the     *)
(* output queue; then about ScanFiles, for every tree, any sizes of the    *)
(* records and of the segments, any links and any number of writers,       *)
(* errors and crashes.                                                     *)
(***************************************************************************)
EXTENDS ScanWorkers, ScanFiles, SequenceTheorems, FunctionTheorems, FiniteSetTheorems,
        WellFoundedInduction, TLAPS

(* active_workers counts the workers between the increment and the         *)
(* decrement.  TypeOK needs it: the decrement must not go below zero.      *)
CountedWorkers == {w \in Workers : pc[w] \in Counted}
ActiveCounts == active = Cardinality(CountedWorkers)

(* A worker that holds a directory holds one of the tree.                  *)
DirHeld == \A w \in Workers : pc[w] \in Holding => dir[w] \in Dirs

TypeInv == TypeOK /\ ActiveCounts /\ DirHeld

LEMMA CountedFinite ==
    /\ IsFiniteSet(CountedWorkers) /\ Cardinality(CountedWorkers) \in Nat
BY PoolAssumption, FS_Subset, FS_CardinalityType DEF CountedWorkers

(* Every action of a worker moves it, and no other worker.                 *)
LEMMA Moves ==
    ASSUME TypeOK, NEW w \in Workers, NEW s \in WorkerState, Goto(w, s)
    PROVE  /\ pc' \in [Workers -> WorkerState]
           /\ pc'[w] = s
           /\ \A u \in Workers \ {w} : pc'[u] = pc[u]
           /\ s \in Counted <=> pc[w] \in Counted => CountedWorkers' = CountedWorkers
BY DEF TypeOK, Goto, CountedWorkers

LEMMA TypeInit == Init => TypeInv
<1> SUFFICES ASSUME Init PROVE TypeInv
  OBVIOUS
<1>1. TypeOK
  BY TreeAssumption DEF Init, TypeOK, WorkerState, Out!Init
<1>2. CountedWorkers = {}
  BY DEF Init, CountedWorkers, Counted
<1>3. DirHeld
  BY DEF Init, DirHeld, Holding
<1>4. QED
  BY <1>1, <1>2, <1>3, FS_EmptySet DEF TypeInv, ActiveCounts, Init

LEMMA TypeStep == TypeInv /\ [Next]_vars => TypeInv'
<1> SUFFICES ASSUME TypeInv, [Next]_vars PROVE TypeInv'
  OBVIOUS
<1> USE DEF TypeInv, ActiveCounts
<1>a. IsFiniteSet(CountedWorkers) /\ IsFiniteSet(Workers) /\ active \in Nat
  BY CountedFinite, PoolAssumption
<1>b. ASSUME NEW w \in Workers, NEW s \in WorkerState, Goto(w, s),
             s \in Counted <=> pc[w] \in Counted,
             UNCHANGED dir, s \in Holding => pc[w] \in Holding
      PROVE  /\ pc' \in [Workers -> WorkerState]
             /\ CountedWorkers' = CountedWorkers
             /\ DirHeld'
  BY <1>b, Moves DEF DirHeld
<1>1. ASSUME NEW w \in Workers, PopDir(w) PROVE TypeInv'
  <2>1. /\ pc' \in [Workers -> WorkerState]
        /\ pc'[w] = "taken"
        /\ \A u \in Workers \ {w} : pc'[u] = pc[u]
        /\ CountedWorkers' = CountedWorkers
    BY <1>1, Moves DEF PopDir, At, WorkerState, Counted
  <2>2. PICK d \in pending : pending' = pending \ {d} /\ dir' = [dir EXCEPT ![w] = d]
    BY <1>1 DEF PopDir
  <2>3. d \in Dirs
    BY DEF TypeOK
  <2>4. dir' \in [Workers -> Dirs \cup {None}] /\ DirHeld'
    BY <2>1, <2>2, <2>3 DEF TypeOK, DirHeld
  <2>5. QED BY <1>1, <2>1, <2>2, <2>4 DEF PopDir, TypeOK, pool, out
<1>2. ASSUME NEW w \in Workers, PopNothing(w) PROVE TypeInv'
  <2>1. pc' \in [Workers -> WorkerState] /\ CountedWorkers' = CountedWorkers /\ DirHeld'
    BY <1>2, <1>b DEF PopNothing, At, WorkerState, Counted, Holding
  <2>2. QED BY <1>2, <2>1 DEF PopNothing, TypeOK, pool, out
<1>3. ASSUME NEW w \in Workers, Activate(w) PROVE TypeInv'
  <2>1. /\ pc' \in [Workers -> WorkerState] /\ CountedWorkers' = CountedWorkers \cup {w}
        /\ DirHeld'
    BY <1>3 DEF Activate, At, Goto, TypeOK, WorkerState, Counted, CountedWorkers,
                DirHeld, Holding
  <2>2. w \notin CountedWorkers
    BY <1>3 DEF Activate, At, Counted, CountedWorkers
  <2>3. Cardinality(CountedWorkers') = Cardinality(CountedWorkers) + 1
    BY <1>a, <2>1, <2>2, FS_AddElement
  <2>4. QED BY <1>3, <1>a, <2>1, <2>3 DEF Activate, TypeOK, pool, out
<1>4. ASSUME NEW w \in Workers, Stat(w) PROVE TypeInv'
  <2>1. pc' \in [Workers -> WorkerState] /\ CountedWorkers' = CountedWorkers /\ DirHeld'
    BY <1>4, <1>b DEF Stat, At, WorkerState, Counted, Holding
  <2>2. dir[w] \in Dirs
    BY <1>4 DEF Stat, At, DirHeld, Holding
  <2>3. failed' \subseteq Dirs
    BY <1>4, <2>2 DEF Stat, TypeOK
  <2>4. QED BY <1>4, <2>1, <2>3 DEF Stat, TypeOK, pool, out
<1>5. ASSUME NEW w \in Workers, List(w) PROVE TypeInv'
  <2>1. pc' \in [Workers -> WorkerState] /\ CountedWorkers' = CountedWorkers /\ DirHeld'
    BY <1>5, <1>b DEF List, At, WorkerState, Counted, Holding
  <2>2. dir[w] \in Dirs /\ Subdirs[dir[w]] \subseteq Dirs
    BY <1>5, TreeAssumption DEF List, At, DirHeld, Holding
  <2>3. failed' \subseteq Dirs /\ listed' \subseteq Dirs
    BY <1>5, <2>2 DEF List, TypeOK
  <2>4. todo' \in [Workers -> SUBSET Dirs]
    <3>1. \/ todo' = todo
          \/ \E bad : todo' = [todo EXCEPT ![w] = (Subdirs[dir[w]] \ Pruned) \ bad]
      BY <1>5 DEF List
    <3>2. QED BY <2>2, <3>1 DEF TypeOK
  <2>5. QED BY <1>5, <2>1, <2>3, <2>4 DEF List, TypeOK, pool, out
<1>6. ASSUME NEW w \in Workers, Enqueue(w) PROVE TypeInv'
  <2>1. PICK d \in todo[w] : /\ pending' = pending \cup {d}
                             /\ enqueued' = enqueued \cup {d}
                             /\ todo' = [todo EXCEPT ![w] = @ \ {d}]
    BY <1>6 DEF Enqueue
  <2>2. d \in Dirs
    BY DEF TypeOK
  <2>3. todo' \in [Workers -> SUBSET Dirs]
    BY <2>1 DEF TypeOK
  <2>4. CountedWorkers' = CountedWorkers /\ DirHeld'
    BY <1>6 DEF Enqueue, CountedWorkers, DirHeld
  <2>5. QED BY <1>6, <2>1, <2>2, <2>3, <2>4 DEF Enqueue, TypeOK, pool, out
<1>7. ASSUME NEW w \in Workers, EntriesDone(w) PROVE TypeInv'
  <2>1. pc' \in [Workers -> WorkerState] /\ CountedWorkers' = CountedWorkers /\ DirHeld'
    BY <1>7, <1>b DEF EntriesDone, At, WorkerState, Counted, Holding
  <2>2. QED BY <1>7, <2>1 DEF EntriesDone, TypeOK, pool, out
<1>8. ASSUME NEW w \in Workers, Emit(w) PROVE TypeInv'
  <2>1. pc' \in [Workers -> WorkerState] /\ CountedWorkers' = CountedWorkers /\ DirHeld'
    BY <1>8, <1>b DEF Emit, At, WorkerState, Counted, Holding
  <2>2. dir[w] \in Dirs
    BY <1>8 DEF Emit, At, DirHeld, Holding
  <2>3. output' \in Seq(Dirs) /\ UNCHANGED <<open, ended>>
    BY <1>8, <2>2 DEF Emit, Out!Send, TypeOK, out
  <2>4. QED BY <1>8, <2>1, <2>3 DEF Emit, TypeOK, pool
<1>9. ASSUME NEW w \in Workers, Deactivate(w) PROVE TypeInv'
  <2>1. /\ pc' \in [Workers -> WorkerState] /\ CountedWorkers' = CountedWorkers \ {w}
        /\ DirHeld' /\ dir' \in [Workers -> Dirs \cup {None}]
    BY <1>9 DEF Deactivate, At, Goto, TypeOK, WorkerState, Counted, CountedWorkers,
                DirHeld, Holding
  <2>2. w \in CountedWorkers
    BY <1>9 DEF Deactivate, At, Counted, CountedWorkers
  <2>3. Cardinality(CountedWorkers') = Cardinality(CountedWorkers) - 1
    BY <1>a, <2>1, <2>2, FS_RemoveElement
  <2>4. IsFiniteSet(CountedWorkers') /\ Cardinality(CountedWorkers') \in Nat
    BY <1>a, <2>1, FS_RemoveElement, FS_CardinalityType
  <2>5. active' = Cardinality(CountedWorkers')
    BY <1>9, <2>3 DEF Deactivate
  <2>6. QED BY <1>9, <2>1, <2>4, <2>5 DEF Deactivate, TypeOK, pool, out
<1>10. ASSUME NEW w \in Workers, ReadQueue(w) PROVE TypeInv'
  <2>1. pc' \in [Workers -> WorkerState] /\ CountedWorkers' = CountedWorkers /\ DirHeld'
    BY <1>10, <1>b DEF ReadQueue, At, WorkerState, Counted, Holding
  <2>2. sawEmpty' \in [Workers -> BOOLEAN]
    BY <1>10 DEF ReadQueue, TypeOK
  <2>3. QED BY <1>10, <2>1, <2>2 DEF ReadQueue, TypeOK, pool, out
<1>11. ASSUME NEW w \in Workers, ReadActive(w) PROVE TypeInv'
  <2>1. pc' \in [Workers -> WorkerState] /\ CountedWorkers' = CountedWorkers /\ DirHeld'
    BY <1>11, <1>b DEF ReadActive, At, WorkerState, Counted, Holding
  <2>2. QED BY <1>11, <2>1 DEF ReadActive, TypeOK, pool, out
<1>12. ASSUME NEW v \in Writers, Writer(v) PROVE TypeInv'
  <2>1. UNCHANGED work /\ UNCHANGED terminator
    BY <1>12 DEF Writer, TakeBatch, StoreBatch, WriterPanic, WriterEnds
  <2>2. CountedWorkers' = CountedWorkers /\ DirHeld'
    BY <2>1 DEF work, CountedWorkers, DirHeld
  <2>3. output' \in Seq(Dirs) /\ open' \in BOOLEAN /\ ended' \subseteq Writers
    <3>1. CASE TakeBatch(v)
      BY <3>1 DEF TakeBatch, Out!Receive, TypeOK
    <3>2. CASE WriterEnds(v)
      BY <3>2 DEF WriterEnds, Out!End, TypeOK
    <3>3. CASE StoreBatch(v) \/ WriterPanic(v)
      BY <3>3 DEF StoreBatch, WriterPanic, TypeOK, out
    <3>4. QED BY <1>12, <3>1, <3>2, <3>3 DEF Writer
  <2>4. batch' \in [Writers -> Dirs \cup {None}] /\ dead' \subseteq Writers /\ stored' \subseteq Dirs
    <3>1. CASE TakeBatch(v)
      <4>1. Head(output) \in Dirs
        BY <3>1 DEF TakeBatch, Out!Receive, TypeOK
      <4>2. QED BY <3>1, <4>1 DEF TakeBatch, TypeOK
    <3>2. CASE StoreBatch(v)
      BY <3>2 DEF StoreBatch, TypeOK
    <3>3. CASE WriterPanic(v) \/ WriterEnds(v)
      BY <3>3 DEF WriterPanic, WriterEnds, TypeOK, pool
    <3>4. QED BY <1>12, <3>1, <3>2, <3>3 DEF Writer
  <2>5. QED BY <2>1, <2>2, <2>3, <2>4 DEF work, TypeOK
<1>13. CASE JoinWorkers \/ JoinWriters \/ UNCHANGED vars
  <2>1. UNCHANGED <<work, pool>>
    BY <1>13 DEF JoinWorkers, JoinWriters, vars
  <2>2. CountedWorkers' = CountedWorkers /\ DirHeld'
    BY <2>1 DEF work, CountedWorkers, DirHeld
  <2>3. /\ output' \in Seq(Dirs) /\ open' \in BOOLEAN /\ ended' \subseteq Writers
        /\ terminator' \in {"workers", "writers", "finished"}
    BY <1>13 DEF JoinWorkers, JoinWriters, Out!Close, vars, out, TypeOK
  <2>4. QED BY <2>1, <2>2, <2>3 DEF work, pool, TypeOK
<1>14. QED
  BY <1>1, <1>2, <1>3, <1>4, <1>5, <1>6, <1>7, <1>8, <1>9, <1>10, <1>11, <1>12, <1>13
     DEF Next, Worker, Finished

LEMMA TypeInvariance == Spec => []TypeInv
BY TypeInit, TypeStep, PTL DEF Spec

(* The state is always well formed; in particular active_workers is never  *)
(* negative.                                                               *)
THEOREM TypeCorrect == Spec => []TypeOK
<1>1. TypeInv => TypeOK
  BY DEF TypeInv
<1>2. QED BY <1>1, TypeInvariance, PTL

-----------------------------------------------------------------------------
(* A worker that may find a directory in the queue is one that has not     *)
(* seen it empty since.  Every action that takes a worker out of Busy sees *)
(* the queue empty, and the worker that fills it is in Busy.               *)
LEMMA StrandedStep == TypeOK /\ NeverStranded /\ [Next]_vars => NeverStranded'
<1> SUFFICES ASSUME TypeOK, NeverStranded, [Next]_vars, pending' # {}
             PROVE  \E u \in Workers : pc'[u] \in Busy
  BY DEF NeverStranded
<1>a. ASSUME pending # {},
             \A u \in Workers : pc[u] \in Busy => pc'[u] \in Busy
      PROVE  \E u \in Workers : pc'[u] \in Busy
  BY <1>a DEF NeverStranded
<1>b. ASSUME NEW w \in Workers, NEW s \in Busy, Goto(w, s)
      PROVE  \E u \in Workers : pc'[u] \in Busy
  BY <1>b DEF Goto, TypeOK
<1>1. ASSUME NEW w \in Workers,
             \/ PopDir(w) \/ Activate(w) \/ Stat(w) \/ List(w)
             \/ EntriesDone(w) \/ Emit(w) \/ Deactivate(w)
      PROVE  \E u \in Workers : pc'[u] \in Busy
  BY <1>1, <1>b DEF PopDir, Activate, Stat, List, EntriesDone, Emit, Deactivate, Busy, Holding
<1>2. ASSUME NEW w \in Workers, PopNothing(w) PROVE FALSE
  BY <1>2 DEF PopNothing
<1>3. ASSUME NEW w \in Workers, Enqueue(w)
      PROVE  \E u \in Workers : pc'[u] \in Busy
  BY <1>3 DEF Enqueue, At, Busy, Holding
<1>4. ASSUME NEW w \in Workers, ReadQueue(w) \/ ReadActive(w)
      PROVE  \E u \in Workers : pc'[u] \in Busy
  <2>1. pending' = pending
    BY <1>4 DEF ReadQueue, ReadActive
  <2>2. pc[w] \notin Busy /\ \A u \in Workers \ {w} : pc'[u] = pc[u]
    BY <1>4 DEF ReadQueue, ReadActive, At, Goto, Busy, Holding, TypeOK
  <2>3. QED BY <1>a, <2>1, <2>2
<1>5. CASE \/ \E v \in Writers : Writer(v)
           \/ JoinWorkers \/ JoinWriters \/ UNCHANGED vars
  <2>1. UNCHANGED work
    BY <1>5 DEF Writer, TakeBatch, StoreBatch, WriterPanic, WriterEnds, JoinWorkers,
                JoinWriters, vars
  <2>2. QED BY <1>a, <2>1 DEF work
<1>6. QED BY <1>1, <1>2, <1>3, <1>4, <1>5 DEF Next, Worker, Finished

LEMMA StrandedInvariance == Spec => [](TypeInv /\ NeverStranded)
<1>1. Init => NeverStranded
  BY PoolAssumption DEF Init, NeverStranded, Busy
<1>2. TypeInv /\ NeverStranded /\ [Next]_vars => (TypeInv /\ NeverStranded)'
  BY TypeStep, StrandedStep DEF TypeInv
<1>3. QED BY <1>1, <1>2, TypeInit, PTL DEF Spec

(* The exits of the workers never leave a directory in the queue that no   *)
(* worker will take.                                                       *)
THEOREM StrandedSafe == Spec => []NeverStranded
BY StrandedInvariance, PTL

-----------------------------------------------------------------------------
(* What the terminator and the writers may rely on: the output queue is    *)
(* closed after the last worker's exit, and a writer that has seen its end *)
(* has nothing left to store.                                              *)
ShutdownInv ==
    /\ open <=> terminator = "workers"
    /\ ~open => \A w \in Workers : pc[w] = "done"
    /\ ended # {} => ~open /\ output = <<>>
    /\ \A v \in ended : batch[v] = None
    /\ Complete => ended \cup dead = Writers

LEMMA ShutdownStep == TypeOK /\ ShutdownInv /\ [Next]_vars => ShutdownInv'
<1> SUFFICES ASSUME TypeOK, ShutdownInv, [Next]_vars PROVE ShutdownInv'
  OBVIOUS
<1> USE DEF ShutdownInv, Complete
<1>1. ASSUME NEW w \in Workers, Worker(w) PROVE ShutdownInv'
  <2>1. pc[w] # "done"
    BY <1>1 DEF Worker, PopDir, PopNothing, Activate, Stat, List, Enqueue, EntriesDone,
                Emit, Deactivate, ReadQueue, ReadActive, At
  <2>2. open
    BY <2>1
  <2>3. UNCHANGED <<open, ended, batch, dead, terminator>>
    BY <1>1 DEF Worker, PopDir, PopNothing, Activate, Stat, List, Enqueue, EntriesDone,
                Emit, Deactivate, ReadQueue, ReadActive, pool, out, Out!Send
  <2>4. QED BY <2>2, <2>3
<1>2. ASSUME NEW v \in Writers, Writer(v) PROVE ShutdownInv'
  <2>1. UNCHANGED <<open, terminator, pc>>
    BY <1>2 DEF Writer, TakeBatch, StoreBatch, WriterPanic, WriterEnds, Out!Receive,
                Out!End, work, out
  <2>2. CASE TakeBatch(v)
    BY <2>1, <2>2 DEF TakeBatch, Out!Receive, TypeOK
  <2>3. CASE StoreBatch(v)
    BY <2>1, <2>3 DEF StoreBatch, TypeOK, out
  <2>4. CASE WriterPanic(v)
    BY <2>1, <2>4 DEF WriterPanic, TypeOK, out
  <2>5. CASE WriterEnds(v)
    BY <2>1, <2>5 DEF WriterEnds, Out!End, TypeOK, pool
  <2>6. QED BY <1>2, <2>2, <2>3, <2>4, <2>5 DEF Writer
<1>3. CASE JoinWorkers
  BY <1>3 DEF JoinWorkers, Out!Close, At, work, pool
<1>4. CASE JoinWriters
  BY <1>4 DEF JoinWriters, work, pool, out
<1>5. CASE UNCHANGED vars
  BY <1>5 DEF vars, work, pool, out
<1>6. QED BY <1>1, <1>2, <1>3, <1>4, <1>5 DEF Next, Finished

-----------------------------------------------------------------------------
(* No step of anyone makes a queued directory disappear.                   *)
Settled == stored \cup failed \cup Pruned \cup Unemitted

LEMMA AccountedStep ==
    TypeInv /\ ShutdownInv /\ Accounted /\ [Next]_vars => Accounted'
<1> SUFFICES ASSUME TypeInv, ShutdownInv, Accounted, [Next]_vars,
                    NEW d \in enqueued'
             PROVE  Held(d)' \/ d \in Settled'
  BY DEF Accounted, Settled
<1> USE DEF TypeInv
<1>a. d \in enqueued => Held(d) \/ d \in Settled
  BY DEF Accounted, Settled
<1>1. ASSUME NEW w \in Workers, PopDir(w) PROVE Held(d)' \/ d \in Settled'
  <2>1. PICK e \in pending : pending' = pending \ {e} /\ dir' = [dir EXCEPT ![w] = e]
    BY <1>1 DEF PopDir
  <2>2. /\ UNCHANGED <<enqueued, output, batch, stored, failed>>
        /\ pc'[w] = "taken" /\ \A u \in Workers \ {w} : pc'[u] = pc[u]
        /\ pc[w] = "pop"
    BY <1>1 DEF PopDir, pool, out, At, Goto, TypeOK
  <2>3. dir'[w] = e /\ \A u \in Workers \ {w} : dir'[u] = dir[u]
    BY <2>1 DEF TypeOK
  <2>4. CASE d = e
    BY <2>2, <2>3, <2>4 DEF Held, Holding
  <2>5. CASE d # e
    BY <1>a, <2>1, <2>2, <2>3, <2>5 DEF Held, Holding, Settled
  <2>6. QED BY <2>4, <2>5
<1>2. ASSUME NEW w \in Workers,
             PopNothing(w) \/ Activate(w) \/ EntriesDone(w) \/ ReadQueue(w) \/ ReadActive(w)
      PROVE  Held(d)' \/ d \in Settled'
  <2>1. UNCHANGED <<pending, dir, output, batch, enqueued, stored, failed>>
    BY <1>2 DEF PopNothing, Activate, EntriesDone, ReadQueue, ReadActive, pool, out
  <2>2. \A u \in Workers : pc[u] \in Holding => pc'[u] \in Holding
    BY <1>2 DEF PopNothing, Activate, EntriesDone, ReadQueue, ReadActive, At, Goto,
                Holding, TypeOK
  <2>3. QED BY <1>a, <2>1, <2>2 DEF Held, Settled
<1>3. ASSUME NEW w \in Workers, Stat(w) PROVE Held(d)' \/ d \in Settled'
  <2>1. /\ UNCHANGED <<pending, dir, output, batch, enqueued, stored>>
        /\ failed \subseteq failed'
    BY <1>3 DEF Stat, pool, out
  <2>2. \A u \in Workers \ {w} : pc'[u] = pc[u]
    BY <1>3 DEF Stat, Goto, TypeOK
  <2>3. dir[w] = d => pc'[w] \in Holding \/ d \in Settled'
    BY <1>3 DEF Stat, Goto, Holding, TypeOK, Settled
  <2>4. QED BY <1>a, <2>1, <2>2, <2>3 DEF Held, Settled
<1>4. ASSUME NEW w \in Workers, List(w) PROVE Held(d)' \/ d \in Settled'
  <2>1. /\ UNCHANGED <<pending, dir, output, batch, enqueued, stored>>
        /\ failed \subseteq failed'
    BY <1>4 DEF List, pool, out
  <2>2. \A u \in Workers : pc[u] \in Holding => pc'[u] \in Holding
    BY <1>4 DEF List, Goto, Holding, TypeOK
  <2>3. QED BY <1>a, <2>1, <2>2 DEF Held, Settled
<1>5. ASSUME NEW w \in Workers, Enqueue(w) PROVE Held(d)' \/ d \in Settled'
  <2>1. PICK e \in todo[w] : pending' = pending \cup {e} /\ enqueued' = enqueued \cup {e}
    BY <1>5 DEF Enqueue
  <2>2. UNCHANGED <<pc, dir, output, batch, stored, failed>>
    BY <1>5 DEF Enqueue, pool, out
  <2>3. QED BY <1>a, <2>1, <2>2 DEF Held, Settled
<1>6. ASSUME NEW w \in Workers, Emit(w) PROVE Held(d)' \/ d \in Settled'
  <2>1. /\ UNCHANGED <<pending, dir, batch, enqueued, stored, failed>>
        /\ pc[w] = "emit" /\ \A u \in Workers \ {w} : pc'[u] = pc[u]
    BY <1>6 DEF Emit, pool, At, Goto, TypeOK
  <2>2. open
    BY <2>1 DEF ShutdownInv
  <2>3. CASE dir[w] \in Unemitted
    <3>1. output' = output
      BY <1>6, <2>3 DEF Emit, out
    <3>2. dir[w] = d => d \in Settled'
      BY <2>1, <2>3 DEF Settled
    <3>3. QED BY <1>a, <2>1, <3>1, <3>2 DEF Held, Settled
  <2>4. CASE dir[w] \notin Unemitted
    <3>1. output' = Append(output, dir[w]) /\ output \in Seq(Dirs) /\ dir[w] \in Dirs
      BY <1>6, <2>1, <2>2, <2>4 DEF Emit, Out!Send, TypeOK, DirHeld, Holding
    <3>2. /\ Len(output') = Len(output) + 1 /\ Len(output) \in Nat
          /\ \A i \in 1 .. Len(output) : output'[i] = output[i]
          /\ output'[Len(output) + 1] = dir[w]
      BY <3>1
    <3>3. (\E i \in 1 .. Len(output) : output[i] = d) \/ dir[w] = d
            => \E i \in 1 .. Len(output') : output'[i] = d
      BY <3>2
    <3>4. QED BY <1>a, <2>1, <3>3 DEF Held, Settled
  <2>5. QED BY <2>3, <2>4
<1>7. ASSUME NEW w \in Workers, Deactivate(w) PROVE Held(d)' \/ d \in Settled'
  <2>1. /\ UNCHANGED <<pending, output, batch, enqueued, stored, failed>>
        /\ pc[w] = "leave"
        /\ \A u \in Workers \ {w} : pc'[u] = pc[u] /\ dir'[u] = dir[u]
    BY <1>7 DEF Deactivate, pool, out, At, Goto, TypeOK
  <2>2. QED BY <1>a, <2>1 DEF Held, Holding, Settled
<1>8. ASSUME NEW v \in Writers, TakeBatch(v) PROVE Held(d)' \/ d \in Settled'
  <2>1. /\ UNCHANGED <<pending, pc, dir, enqueued, stored, failed>>
        /\ output' = Tail(output) /\ output # <<>> /\ output \in Seq(Dirs)
        /\ batch' = [batch EXCEPT ![v] = Head(output)] /\ batch[v] = None
    BY <1>8 DEF TakeBatch, Out!Receive, work, TypeOK
  <2>2. d \in Dirs /\ d # None
    BY <1>a, <2>1, TreeAssumption DEF TypeOK
  <2>3. batch'[v] = Head(output) /\ \A u \in Writers \ {v} : batch'[u] = batch[u]
    BY <2>1 DEF TypeOK
  <2>4. \A i \in 1 .. Len(output) :
           \/ i = 1 /\ output[i] = Head(output)
           \/ (i - 1) \in (1 .. Len(output')) /\ output'[i - 1] = output[i]
    BY <2>1
  <2>5. (\E i \in 1 .. Len(output) : output[i] = d)
           => batch'[v] = d \/ \E j \in 1 .. Len(output') : output'[j] = d
    BY <2>3, <2>4
  <2>6. (\E u \in Writers : batch[u] = d) => \E u \in Writers : batch'[u] = d
    BY <2>1, <2>2, <2>3
  <2>7. QED BY <1>a, <2>1, <2>5, <2>6 DEF Held, Settled
<1>9. ASSUME NEW v \in Writers, StoreBatch(v) PROVE Held(d)' \/ d \in Settled'
  <2>1. /\ UNCHANGED <<pending, pc, dir, output, enqueued, failed>>
        /\ stored' = stored \cup {batch[v]}
        /\ \A u \in Writers \ {v} : batch'[u] = batch[u]
    BY <1>9 DEF StoreBatch, work, out, TypeOK
  <2>2. QED BY <1>a, <2>1 DEF Held, Settled
<1>10. CASE \/ \E v \in Writers : WriterPanic(v) \/ WriterEnds(v)
            \/ JoinWorkers \/ JoinWriters \/ UNCHANGED vars
  <2>1. UNCHANGED <<pending, pc, dir, output, batch, enqueued, stored, failed>>
    BY <1>10 DEF WriterPanic, WriterEnds, JoinWorkers, JoinWriters, vars, work, pool, out,
                 Out!End, Out!Close
  <2>2. QED BY <1>a, <2>1 DEF Held, Settled
<1>11. QED
  BY <1>1, <1>2, <1>3, <1>4, <1>5, <1>6, <1>7, <1>8, <1>9, <1>10
     DEF Next, Worker, Writer, Finished

LEMMA AccountedInvariance == Spec => [](TypeInv /\ ShutdownInv /\ Accounted)
<1>1. Init => ShutdownInv /\ Accounted
  BY DEF Init, Out!Init, ShutdownInv, Complete, Accounted, Held
<1>2. TypeInv /\ ShutdownInv /\ Accounted /\ [Next]_vars
        => (TypeInv /\ ShutdownInv /\ Accounted)'
  BY TypeStep, ShutdownStep, AccountedStep DEF TypeInv
<1>3. QED BY <1>1, <1>2, TypeInit, PTL DEF Spec

(* Every directory put into the queue stays accounted for.                 *)
THEOREM AccountedSafe == Spec => []Accounted
BY AccountedInvariance, PTL

-----------------------------------------------------------------------------
(* The subdirectories of a directory that has been read are in the queue,  *)
(* have been, are about to be put there by the worker that read it, or     *)
(* have been counted as failed.                                            *)
CoverInv ==
    /\ Roots \subseteq enqueued
    /\ \A d \in listed : \A s \in Subdirs[d] \ Pruned :
          s \in enqueued \cup failed \/ \E w \in Workers : pc[w] = "enqueue" /\ s \in todo[w]

LEMMA CoverStep == TypeInv /\ CoverInv /\ [Next]_vars => CoverInv'
<1> SUFFICES ASSUME TypeInv, CoverInv, [Next]_vars PROVE CoverInv'
  OBVIOUS
<1> USE DEF TypeInv, CoverInv
<1>1. ASSUME NEW w \in Workers, List(w) PROVE CoverInv'
  <2>1. /\ UNCHANGED enqueued
        /\ pc[w] = "list" /\ \A u \in Workers \ {w} : pc'[u] = pc[u] /\ todo'[u] = todo[u]
        /\ dir[w] \in Dirs
        /\ failed \subseteq failed'
    BY <1>1 DEF List, At, Goto, TypeOK, DirHeld, Holding
  <2>2. ASSUME NEW d \in listed', NEW s \in Subdirs[d] \ Pruned, d # dir[w] \/ d \in listed
        PROVE  \/ s \in enqueued' \cup failed'
               \/ \E u \in Workers : pc'[u] = "enqueue" /\ s \in todo'[u]
    BY <1>1, <2>1, <2>2 DEF List
  <2>3. ASSUME NEW s \in Subdirs[dir[w]] \ Pruned, listed' # listed
        PROVE  s \in failed' \/ (pc'[w] = "enqueue" /\ s \in todo'[w])
    <3>1. PICK bad : /\ todo' = [todo EXCEPT ![w] = (Subdirs[dir[w]] \ Pruned) \ bad]
                     /\ failed' = failed \cup bad
                     /\ pc' = [pc EXCEPT ![w] = "enqueue"]
      BY <1>1, <2>3 DEF List, Goto
    <3>2. pc'[w] = "enqueue" /\ todo'[w] = (Subdirs[dir[w]] \ Pruned) \ bad
      BY <3>1 DEF TypeOK
    <3>3. QED BY <2>3, <3>1, <3>2
  <2>4. listed' = listed \/ listed' = listed \cup {dir[w]}
    BY <1>1 DEF List
  <2>5. QED BY <2>1, <2>2, <2>3, <2>4
<1>2. ASSUME NEW w \in Workers, Enqueue(w) PROVE CoverInv'
  <2>1. PICK e \in todo[w] : /\ enqueued' = enqueued \cup {e}
                             /\ todo' = [todo EXCEPT ![w] = @ \ {e}]
    BY <1>2 DEF Enqueue
  <2>2. UNCHANGED <<pc, listed, failed>>
    BY <1>2 DEF Enqueue
  <2>3. ASSUME NEW s, NEW u \in Workers, s \in todo[u]
        PROVE  s \in enqueued' \/ s \in todo'[u]
    BY <2>1, <2>3 DEF TypeOK
  <2>4. QED BY <2>1, <2>2, <2>3
<1>3. ASSUME NEW w \in Workers, EntriesDone(w) PROVE CoverInv'
  BY <1>3 DEF EntriesDone, At, Goto, TypeOK
<1>4. ASSUME NEW w \in Workers,
             \/ PopDir(w) \/ PopNothing(w) \/ Activate(w) \/ Stat(w) \/ Emit(w)
             \/ Deactivate(w) \/ ReadQueue(w) \/ ReadActive(w)
      PROVE  CoverInv'
  <2>1. UNCHANGED <<enqueued, listed, todo>> /\ failed \subseteq failed'
    BY <1>4 DEF PopDir, PopNothing, Activate, Stat, Emit, Deactivate, ReadQueue, ReadActive
  <2>2. \A u \in Workers : pc[u] = "enqueue" => pc'[u] = "enqueue"
    BY <1>4 DEF PopDir, PopNothing, Activate, Stat, Emit, Deactivate, ReadQueue, ReadActive,
                At, Goto, TypeOK
  <2>3. QED BY <2>1, <2>2
<1>5. CASE \/ \E v \in Writers : Writer(v)
           \/ JoinWorkers \/ JoinWriters \/ UNCHANGED vars
  <2>1. UNCHANGED work
    BY <1>5 DEF Writer, TakeBatch, StoreBatch, WriterPanic, WriterEnds, JoinWorkers,
                JoinWriters, vars
  <2>2. QED BY <2>1 DEF work
<1>6. QED BY <1>1, <1>2, <1>3, <1>4, <1>5 DEF Next, Worker, Finished

(* Whatever the tree and the threads, a scan that reports completion with  *)
(* no writer dead has covered the tree.                                    *)
THEOREM ExhaustiveSafe == Spec => []Exhaustive
<1> DEFINE Inv == /\ TypeInv /\ NeverStranded /\ ShutdownInv /\ Accounted /\ CoverInv
<1>1. Init => CoverInv
  BY DEF Init, CoverInv
<1>2. CoverInv /\ TypeInv /\ [Next]_vars => CoverInv'
  BY CoverStep
<1>3. Inv => Exhaustive
  <2> SUFFICES ASSUME Inv, Complete, dead = {}
               PROVE  /\ Roots \subseteq enqueued
                      /\ \A d \in listed : Subdirs[d] \ Pruned \subseteq enqueued \cup failed
                      /\ enqueued \subseteq Settled
    BY DEF Exhaustive, Settled
  <2>1. ended = Writers /\ ended # {}
    BY PoolAssumption DEF ShutdownInv, TypeInv, TypeOK
  <2>2. output = <<>> /\ \A v \in Writers : batch[v] = None
    BY <2>1 DEF ShutdownInv
  <2>3. \A w \in Workers : pc[w] = "done"
    BY <2>1 DEF ShutdownInv
  <2>4. pending = {}
    BY <2>3 DEF NeverStranded, Busy, Holding
  <2>5. \A d \in listed : Subdirs[d] \ Pruned \subseteq enqueued \cup failed
    BY <2>3 DEF CoverInv
  <2>6. ASSUME NEW d \in enqueued PROVE ~ Held(d)
    <3>1. d # None
      BY <2>6, TreeAssumption DEF TypeInv, TypeOK
    <3>2. QED BY <2>2, <2>3, <2>4, <3>1 DEF Held, Holding
  <2>7. QED BY <2>5, <2>6 DEF Accounted, CoverInv, Settled
<1>4. QED
  BY <1>1, <1>2, <1>3, StrandedInvariance, AccountedInvariance, PTL DEF Spec

-----------------------------------------------------------------------------
(* The files of a scan.                                                    *)
(* What holds of one number and then of the next holds of all.             *)
LEMMA Upwards ==
    ASSUME NEW S, 0 \in S, \A n \in Nat : n \in S => n + 1 \in S
    PROVE  Nat \subseteq S
<1> DEFINE Missing == Nat \ S
<1>1. SUFFICES ASSUME Missing # {} PROVE FALSE
  OBVIOUS
<1>2. PICK m \in Missing : \A k \in Missing : ~ (<<k, m>> \in OpToRel(<, Nat))
  BY <1>1, NatLessThanWellFounded, WFMin
<1>3. m # 0 /\ m - 1 \in Nat
  OBVIOUS
<1>4. <<m - 1, m>> \in OpToRel(<, Nat)
  BY <1>3 DEF OpToRel
<1>5. m - 1 \in S
  BY <1>2, <1>3, <1>4
<1>6. (m - 1) + 1 \in S
  BY <1>3, <1>5
<1>7. QED BY <1>3, <1>6

(* A function defined step by step.                                        *)
IsStep(A, a, n, step) == a \in A /\ \A x \in A : \A k \in 1 .. n : step[<<x, k>>] \in A

IsResult(A, a, n, step, f) == f \in [0 .. n -> A] /\ f[0] = a /\ \A k \in 1 .. n : f[k] = step[<<f[k - 1], k>>]

LEMMA Recursion ==
    ASSUME NEW A, NEW a, NEW n \in Nat, NEW step, IsStep(A, a, n, step)
    PROVE  \E f : IsResult(A, a, n, step, f)
<1> DEFINE Good(m, f) == f \in [0 .. m -> A] /\ f[0] = a
                         /\ \A k \in 1 .. m : f[k] = step[<<f[k - 1], k>>]
           S == {m \in Nat : m <= n => \E f : Good(m, f)}
<1>1. 0 \in S
  <2> DEFINE f == [k \in 0 .. 0 |-> a]
  <2>1. Good(0, f)
    BY DEF IsStep
  <2> HIDE DEF f, Good
  <2>2. QED BY <2>1
<1>2. ASSUME NEW m \in Nat, m \in S PROVE m + 1 \in S
  <2>1. SUFFICES ASSUME m + 1 <= n PROVE \E f : Good(m + 1, f)
    OBVIOUS
  <2>2. PICK f : Good(m, f)
    BY <1>2, <2>1
  <2> DEFINE g == [k \in 0 .. m + 1 |-> IF k = m + 1 THEN step[<<f[m], m + 1>>] ELSE f[k]]
  <2>3. step[<<f[m], m + 1>>] \in A
    <3>1. f[m] \in A /\ m + 1 \in 1 .. n
      BY <2>1, <2>2
    <3>2. QED BY <3>1 DEF IsStep
  <2>4. g \in [0 .. m + 1 -> A]
    <3>1. ASSUME NEW k \in 0 .. m + 1 PROVE g[k] \in A
      <4>1. k # m + 1 => k \in 0 .. m
        OBVIOUS
      <4>2. k \in 0 .. m => f[k] \in A
        BY <2>2
      <4>3. QED BY <2>3, <4>1, <4>2
    <3>2. QED BY <3>1
  <2>5. g[0] = a
    BY <2>2
  <2>6. ASSUME NEW k \in 1 .. m + 1 PROVE g[k] = step[<<g[k - 1], k>>]
    <3>1. k - 1 \in 0 .. m /\ k - 1 # m + 1 /\ k \in 0 .. m + 1
      OBVIOUS
    <3>2. g[k - 1] = f[k - 1]
      BY <3>1
    <3>3. CASE k = m + 1
      BY <3>1, <3>2, <3>3
    <3>4. CASE k # m + 1
      <4>1. k \in 1 .. m
        BY <3>4
      <4>2. f[k] = step[<<f[k - 1], k>>]
        BY <2>2, <4>1
      <4>3. QED BY <3>1, <3>2, <3>4, <4>2
    <3>5. QED BY <3>3, <3>4
  <2>7. Good(m + 1, g)
    BY <2>4, <2>5, <2>6
  <2> HIDE DEF Good, g
  <2>8. QED BY <2>7
<1>3. Nat \subseteq S
  <2> HIDE DEF S
  <2>1. QED BY <1>1, <1>2, Upwards
<1>4. \E f : Good(n, f)
  <2> HIDE DEF Good
  <2>1. n \in S
    BY <1>3
  <2>2. QED BY <2>1
<1>5. QED BY <1>4 DEF IsResult

Things == Directories \cup Files

LEMMA Listings ==
    /\ \A d \in Directories : /\ FilesOf[d] \in Seq(Files) /\ IsInjective(FilesOf[d])
                              /\ Len(FilesOf[d]) \in Nat
                              /\ DOMAIN FilesOf[d] = 1 .. Len(FilesOf[d])
                              /\ Range(FilesOf[d]) \subseteq Files
    /\ \A f \in Files : Inode[f] \in Nat
    /\ \A x \in Things : Size[x] \in Nat \ {0}
<1>1. \A d \in Directories : FilesOf[d] \in Seq(Files) /\ IsInjective(FilesOf[d])
  BY ListingsAssumption
<1>2. \A d \in Directories : Len(FilesOf[d]) \in Nat /\ DOMAIN FilesOf[d] = 1 .. Len(FilesOf[d])
  BY <1>1, LenProperties
<1>3. \A d \in Directories : Range(FilesOf[d]) \subseteq Files
  BY DEF Files
<1>4. QED BY <1>1, <1>2, <1>3, ListingsAssumption DEF Things

(* Where records end: each begins where the one before it ends, and none   *)
(* is empty.                                                               *)
IsEnds(seg, f) == f = [k \in 0 .. Len(seg) |-> IF k = 0 THEN 0 ELSE f[k - 1] + Size[seg[k]]]

LEMMA EndsOf ==
    ASSUME NEW seg \in Seq(Things)
    PROVE  /\ Ends(seg) \in [0 .. Len(seg) -> Nat] /\ Ends(seg)[0] = 0
           /\ \A k \in 1 .. Len(seg) : /\ seg[k] \in Things
                                       /\ Ends(seg)[k] = Ends(seg)[k - 1] + Size[seg[k]]
           /\ Len(seg) \in Nat /\ DOMAIN seg = 1 .. Len(seg)
           /\ Used(seg) \in Nat
<1> DEFINE n == Len(seg)
           step == [p \in Nat \X (1 .. n) |-> p[1] + Size[seg[p[2]]]]
<1>1. n \in Nat /\ DOMAIN seg = 1 .. n /\ \A k \in 1 .. n : seg[k] \in Things
  BY LenProperties, ElementOfSeq
<1> HIDE DEF n
<1>2. ASSUME NEW x \in Nat, NEW k \in 1 .. n
      PROVE  <<x, k>> \in Nat \X (1 .. n) /\ step[<<x, k>>] = x + Size[seg[k]] /\ step[<<x, k>>] \in Nat
  <2>1. Size[seg[k]] \in Nat
    BY <1>1, Listings
  <2>2. QED BY <2>1
<1>3. PICK f : IsResult(Nat, 0, n, step, f)
  <2>1. IsStep(Nat, 0, n, step)
    BY <1>2 DEF IsStep
  <2> HIDE DEF step
  <2>2. QED BY <1>1, <2>1, Recursion
<1>4. ASSUME NEW k \in 1 .. n PROVE f[k] = f[k - 1] + Size[seg[k]]
  <2>1. f[k - 1] \in Nat
    BY <1>1, <1>3 DEF IsResult
  <2>2. QED BY <1>2, <1>3, <2>1 DEF IsResult
<1> HIDE DEF step
<1>5. IsEnds(seg, f)
  <2> DEFINE g == [k \in 0 .. n |-> IF k = 0 THEN 0 ELSE f[k - 1] + Size[seg[k]]]
  <2>1. ASSUME NEW k \in 0 .. n PROVE f[k] = g[k]
    <3>1. k # 0 => k \in 1 .. n
      BY <1>1
    <3>2. QED BY <1>3, <1>4, <3>1 DEF IsResult
  <2>2. DOMAIN g = 0 .. n /\ g = [k \in 0 .. n |-> g[k]] /\ f = [k \in 0 .. n |-> f[k]]
    BY <1>3 DEF IsResult
  <2> HIDE DEF g
  <2>3. f = g
    BY <2>1, <2>2
  <2>4. QED BY <2>3 DEF IsEnds, g, n
<1>6. IsEnds(seg, Ends(seg))
  <2>1. Ends(seg) = CHOOSE e : IsEnds(seg, e)
    BY DEF Ends, IsEnds
  <2>2. QED BY <1>5, <2>1
<1> DEFINE e == Ends(seg)
<1>7. /\ DOMAIN e = 0 .. n /\ e[0] = 0 /\ e = [k \in 0 .. n |-> e[k]]
      /\ \A k \in 1 .. n : e[k] = e[k - 1] + Size[seg[k]]
  <2>1. e = [k \in 0 .. n |-> IF k = 0 THEN 0 ELSE e[k - 1] + Size[seg[k]]]
    BY <1>6 DEF IsEnds, n
  <2> HIDE DEF e
  <2>2. DOMAIN e = 0 .. n
    BY <2>1
  <2>3. QED BY <1>1, <2>1, <2>2
<1> HIDE DEF e
<1>8. \A k \in 0 .. n : e[k] \in Nat
  <2> DEFINE S == {k \in Nat : k <= n => e[k] \in Nat}
  <2>1. 0 \in S
    BY <1>7
  <2>2. ASSUME NEW k \in Nat, k \in S PROVE k + 1 \in S
    <3>1. SUFFICES ASSUME k + 1 <= n PROVE e[k + 1] \in Nat
      OBVIOUS
    <3>2. k + 1 \in 1 .. n /\ (k + 1) - 1 = k /\ e[k] \in Nat
      BY <1>1, <2>2, <3>1
    <3>3. e[k + 1] = e[k] + Size[seg[k + 1]] /\ Size[seg[k + 1]] \in Nat
      BY <1>1, <1>7, <3>2, Listings
    <3>4. QED BY <3>2, <3>3
  <2>3. Nat \subseteq S
    <3> HIDE DEF S
    <3>1. QED BY <2>1, <2>2, Upwards
  <2>4. QED BY <1>1, <2>3
<1>9. e \in [0 .. n -> Nat]
  BY <1>7, <1>8
<1>10. Used(seg) \in Nat
  BY <1>1, <1>9 DEF Used, e, n
<1>11. QED BY <1>1, <1>7, <1>9, <1>10 DEF e, n

(* Records do not overlap, so that a place belongs to one record.          *)
LEMMA EndsGrow ==
    ASSUME NEW seg \in Seq(Things)
    PROVE  \A i, j \in 0 .. Len(seg) : i < j => Ends(seg)[i] < Ends(seg)[j]
<1> DEFINE e == Ends(seg)
           n == Len(seg)
<1>1. /\ n \in Nat /\ e \in [0 .. n -> Nat]
      /\ \A k \in 1 .. n : seg[k] \in Things /\ e[k] = e[k - 1] + Size[seg[k]]
  BY EndsOf
<1> HIDE DEF e, n
<1>2. \A k \in 1 .. n : e[k - 1] \in Nat /\ e[k] \in Nat /\ e[k - 1] < e[k]
  <2>1. TAKE k \in 1 .. n
  <2>2. Size[seg[k]] \in Nat \ {0} /\ e[k - 1] \in Nat
    BY <1>1, Listings
  <2>3. QED BY <1>1, <2>2
<1> DEFINE S == {m \in Nat : m <= n => \A i \in 0 .. m : i < m => e[i] < e[m]}
<1>3. 0 \in S
  OBVIOUS
<1>4. ASSUME NEW m \in Nat, m \in S PROVE m + 1 \in S
  <2>1. SUFFICES ASSUME m + 1 <= n, NEW i \in 0 .. m + 1, i < m + 1 PROVE e[i] < e[m + 1]
    OBVIOUS
  <2>2. e[m] < e[m + 1] /\ e[m] \in Nat /\ e[m + 1] \in Nat
    <3>1. m + 1 \in 1 .. n /\ (m + 1) - 1 = m
      BY <1>1, <2>1
    <3>2. QED BY <1>2, <3>1
  <2>3. i = m \/ e[i] < e[m]
    BY <1>1, <1>4, <2>1
  <2>4. i \in 0 .. n /\ e[i] \in Nat
    BY <1>1, <2>1
  <2>5. QED BY <2>2, <2>3, <2>4
<1>5. Nat \subseteq S
  <2> HIDE DEF S
  <2>1. QED BY <1>3, <1>4, Upwards
<1>6. ASSUME NEW i \in 0 .. n, NEW j \in 0 .. n, i < j PROVE e[i] < e[j]
  <2>1. j \in S
    BY <1>1, <1>5
  <2>2. QED BY <1>1, <1>6, <2>1
<1>7. QED BY <1>6 DEF e, n

(* Where records end does not depend on what follows them.                 *)
Prefix(s, t) == Len(s) <= Len(t) /\ \A j \in 1 .. Len(s) : t[j] = s[j]

LEMMA EndsPrefix ==
    ASSUME NEW s \in Seq(Things), NEW t \in Seq(Things), Prefix(s, t)
    PROVE  \A k \in 0 .. Len(s) : Ends(s)[k] = Ends(t)[k]
<1> DEFINE S == {k \in Nat : k <= Len(s) => Ends(s)[k] = Ends(t)[k]}
<1>1. 0 \in S
  BY EndsOf
<1>2. ASSUME NEW k \in Nat, k \in S PROVE k + 1 \in S
  <2>1. SUFFICES ASSUME k + 1 <= Len(s) PROVE Ends(s)[k + 1] = Ends(t)[k + 1]
    OBVIOUS
  <2>2. Len(s) \in Nat /\ Len(t) \in Nat /\ Len(s) <= Len(t)
    BY LenProperties DEF Prefix
  <2>3. k + 1 \in 1 .. Len(s) /\ k + 1 \in 1 .. Len(t) /\ (k + 1) - 1 = k
    BY <2>1, <2>2
  <2>4. Ends(s)[k + 1] = Ends(s)[k] + Size[s[k + 1]] /\ Ends(t)[k + 1] = Ends(t)[k] + Size[t[k + 1]]
    BY <2>3, EndsOf
  <2>5. t[k + 1] = s[k + 1] /\ Ends(s)[k] = Ends(t)[k]
    BY <1>2, <2>1, <2>2, <2>3 DEF Prefix
  <2>6. QED BY <2>4, <2>5
<1>3. Nat \subseteq S
  <2> HIDE DEF S
  <2>1. QED BY <1>1, <1>2, Upwards
<1>4. ASSUME NEW k \in 0 .. Len(s) PROVE Ends(s)[k] = Ends(t)[k]
  <2>1. k \in Nat /\ k <= Len(s)
    BY LenProperties
  <2>2. QED BY <1>3, <2>1
<1>5. QED BY <1>4

(* Segments, and what the locators of w say of them.                       *)
Fits(seg) == Used(seg) <= Limit \/ Len(seg) = 1
Segments == {s \in Seq(Seq(Things)) : Len(s) >= 1 /\ \A n \in 1 .. Len(s) : Fits(s[n])}

Record(seg, j, o, x) == seg[j] = x /\ Ends(seg)[j - 1] = o
Leads(segs, loc, x) ==
    /\ loc[2] \in 1 .. Len(segs)
    /\ \E j \in 1 .. Len(segs[loc[2]]) : Record(segs[loc[2]], j, loc[3], x)
Allows(segs, loc, x) ==
    loc[2] \in 1 .. Len(segs) =>
        \A j \in 1 .. Len(segs[loc[2]]) : Ends(segs[loc[2]])[j - 1] = loc[3] => segs[loc[2]][j] = x

LEMMA SegmentFacts ==
    ASSUME NEW segs \in Segments
    PROVE  /\ segs \in Seq(Seq(Things)) /\ Len(segs) \in Nat \ {0} /\ DOMAIN segs = 1 .. Len(segs)
           /\ \A n \in 1 .. Len(segs) : segs[n] \in Seq(Things) /\ Len(segs[n]) \in Nat
                                        /\ DOMAIN segs[n] = 1 .. Len(segs[n])
           /\ Last(segs) = segs[Len(segs)] /\ Last(segs) \in Seq(Things)
<1>1. segs \in Seq(Seq(Things)) /\ Len(segs) >= 1
  BY DEF Segments
<1>2. Len(segs) \in Nat \ {0} /\ DOMAIN segs = 1 .. Len(segs)
  BY <1>1, LenProperties
<1>3. ASSUME NEW n \in 1 .. Len(segs) PROVE segs[n] \in Seq(Things)
  BY <1>1, ElementOfSeq
<1>4. \A n \in 1 .. Len(segs) : Len(segs[n]) \in Nat /\ DOMAIN segs[n] = 1 .. Len(segs[n])
  BY <1>3, LenProperties
<1>5. QED BY <1>1, <1>2, <1>3, <1>4 DEF Last

LEMMA LeadsAllows ==
    ASSUME NEW segs \in Segments, NEW loc, NEW x, Leads(segs, loc, x)
    PROVE  Allows(segs, loc, x)
<1> DEFINE seg == segs[loc[2]]
<1>1. PICK i \in 1 .. Len(seg) : Record(seg, i, loc[3], x)
  BY DEF Leads
<1>2. seg \in Seq(Things) /\ Len(seg) \in Nat
  BY SegmentFacts DEF Leads
<1>3. ASSUME NEW j \in 1 .. Len(seg), Ends(seg)[j - 1] = loc[3] PROVE seg[j] = x
  <2>1. Ends(seg)[i - 1] = Ends(seg)[j - 1] /\ seg[i] = x
    BY <1>1, <1>3 DEF Record
  <2>2. i - 1 \in 0 .. Len(seg) /\ j - 1 \in 0 .. Len(seg)
    BY <1>2
  <2>3. Ends(seg)[i - 1] \in Nat /\ Ends(seg)[j - 1] \in Nat
    BY <1>2, <2>2, EndsOf
  <2>4. ~ (i - 1 < j - 1) /\ ~ (j - 1 < i - 1)
    BY <1>2, <2>1, <2>2, <2>3, EndsGrow
  <2>5. i = j
    BY <1>2, <2>4
  <2>6. QED BY <2>1, <2>5
<1>4. QED BY <1>3 DEF Allows

LEMMA MetaOf ==
    ASSUME NEW loc, NEW x, loc[2] \in Nat \ {0}, segments[loc[1]] \in Segments
    PROVE  /\ Allows(segments[loc[1]], loc, x) => Meta(loc) \subseteq {x}
           /\ Leads(segments[loc[1]], loc, x) => Meta(loc) = {x}
<1> DEFINE segs == segments[loc[1]]
           seg == segs[loc[2]]
<1>1. Len(segs) \in Nat
  BY SegmentFacts
<1>2. CASE loc[2] > Len(segs)
  BY <1>1, <1>2 DEF Meta, Leads
<1>3. CASE loc[2] \in 1 .. Len(segs)
  <2>1. DOMAIN seg = 1 .. Len(seg)
    BY <1>3, SegmentFacts
  <2>2. Meta(loc) = {seg[j] : j \in {j \in 1 .. Len(seg) : Ends(seg)[j - 1] = loc[3]}}
    BY <1>1, <1>3, <2>1 DEF Meta
  <2>3. Allows(segs, loc, x) => Meta(loc) \subseteq {x}
    BY <1>3, <2>2 DEF Allows
  <2>4. ASSUME Leads(segs, loc, x) PROVE Meta(loc) = {x}
    <3>1. Meta(loc) \subseteq {x}
      BY <2>3, <2>4, LeadsAllows
    <3>2. PICK j \in 1 .. Len(seg) : Record(seg, j, loc[3], x)
      BY <2>4 DEF Leads
    <3>3. x \in Meta(loc)
      BY <2>2, <3>2 DEF Record
    <3>4. QED BY <3>1, <3>3
  <2>5. QED BY <2>3, <2>4
<1>4. QED BY <1>1, <1>2, <1>3

(* Segments that grow keep their records in place.                         *)
Grows(s, t) == Len(s) <= Len(t) /\ \A n \in 1 .. Len(s) : Prefix(s[n], t[n])

LEMMA GrowsOrder ==
    ASSUME NEW s \in Segments, NEW t \in Segments, NEW u \in Segments
    PROVE  Grows(s, s) /\ (Grows(s, t) /\ Grows(t, u) => Grows(s, u))
<1>1. Len(s) \in Nat /\ Len(t) \in Nat /\ Len(u) \in Nat
  BY SegmentFacts
<1>2. Grows(s, s)
  <2>1. \A n \in 1 .. Len(s) : Len(s[n]) \in Nat
    BY SegmentFacts
  <2>2. QED BY <1>1, <2>1 DEF Grows, Prefix
<1>3. ASSUME Grows(s, t), Grows(t, u) PROVE Grows(s, u)
  <2>1. ASSUME NEW n \in 1 .. Len(s) PROVE Prefix(s[n], u[n])
    <3>1. n \in 1 .. Len(t) /\ n \in 1 .. Len(u)
      BY <1>1, <1>3 DEF Grows
    <3>2. Len(s[n]) \in Nat /\ Len(t[n]) \in Nat /\ Len(u[n]) \in Nat
      BY <3>1, SegmentFacts
    <3>3. Prefix(s[n], t[n]) /\ Prefix(t[n], u[n])
      BY <1>3, <3>1 DEF Grows
    <3>4. QED BY <3>2, <3>3 DEF Prefix
  <2>2. QED BY <1>1, <1>3, <2>1 DEF Grows
<1>4. QED BY <1>2, <1>3

LEMMA GrowsLeads ==
    ASSUME NEW s \in Segments, NEW t \in Segments, Grows(s, t), NEW loc, NEW x, Leads(s, loc, x)
    PROVE  Leads(t, loc, x)
<1> DEFINE n == loc[2]
<1>1. Len(s) \in Nat /\ Len(t) \in Nat /\ n \in 1 .. Len(s)
  BY SegmentFacts DEF Leads
<1>2. n \in 1 .. Len(t)
  BY <1>1 DEF Grows
<1>3. s[n] \in Seq(Things) /\ t[n] \in Seq(Things) /\ Len(s[n]) \in Nat /\ Len(t[n]) \in Nat
  BY <1>1, <1>2, SegmentFacts
<1>4. Prefix(s[n], t[n])
  BY <1>1 DEF Grows
<1>5. PICK j \in 1 .. Len(s[n]) : Record(s[n], j, loc[3], x)
  BY DEF Leads
<1>6. j \in 1 .. Len(t[n]) /\ j - 1 \in 0 .. Len(s[n])
  BY <1>3, <1>4 DEF Prefix
<1>7. Ends(s[n])[j - 1] = Ends(t[n])[j - 1] /\ t[n][j] = s[n][j]
  BY <1>3, <1>4, <1>6, EndsPrefix DEF Prefix
<1>8. Record(t[n], j, loc[3], x)
  BY <1>5, <1>7 DEF Record
<1>9. QED BY <1>2, <1>6, <1>8 DEF Leads

LEMMA Appending ==
    ASSUME NEW s \in Seq(Things), NEW x \in Things
    PROVE  LET t == Append(s, x) IN
           /\ t \in Seq(Things) /\ Len(t) = Len(s) + 1 /\ Len(s) \in Nat
           /\ Prefix(s, t) /\ t[Len(t)] = x
           /\ Used(t) = Used(s) + Size[x]
           /\ Front(t) = s
<1> DEFINE t == Append(s, x)
<1>1. t \in Seq(Things) /\ Len(t) = Len(s) + 1 /\ Len(s) \in Nat /\ t[Len(t)] = x
      /\ \A j \in 1 .. Len(s) : t[j] = s[j]
  BY AppendProperties, LenProperties
<1> HIDE DEF t
<1>2. Prefix(s, t)
  BY <1>1 DEF Prefix
<1>3. Len(t) \in 1 .. Len(t) /\ Len(t) - 1 = Len(s) /\ Len(s) \in 0 .. Len(s)
  BY <1>1
<1>4. Ends(t)[Len(t)] = Ends(t)[Len(s)] + Size[x]
  BY <1>1, <1>3, EndsOf
<1>5. Ends(t)[Len(s)] = Ends(s)[Len(s)]
  BY <1>1, <1>2, <1>3, EndsPrefix
<1>6. Front(t) = s
  <2>1. \A i \in 1 .. Len(t) - 1 : t[i] \in Things
    BY <1>1, ElementOfSeq
  <2>2. /\ SubSeq(t, 1, Len(t) - 1) \in Seq(Things)
        /\ Len(SubSeq(t, 1, Len(t) - 1)) = Len(s)
        /\ \A i \in 1 .. Len(s) : SubSeq(t, 1, Len(t) - 1)[i] = t[i]
    <3>1. 1 \in Int /\ Len(t) - 1 \in Int
      BY <1>1
    <3>2. /\ SubSeq(t, 1, Len(t) - 1) \in Seq(Things)
          /\ Len(SubSeq(t, 1, Len(t) - 1)) = IF 1 <= Len(t) - 1 THEN (Len(t) - 1) - 1 + 1 ELSE 0
          /\ \A i \in 1 .. (Len(t) - 1) - 1 + 1 : SubSeq(t, 1, Len(t) - 1)[i] = t[1 + i - 1]
      BY <2>1, <3>1, SubSeqProperties
    <3>3. QED BY <1>1, <3>2
  <2>3. QED BY <1>1, <2>2, SeqEqual DEF Front
<1>7. QED BY <1>1, <1>2, <1>4, <1>5, <1>6 DEF t, Used

(* One segment is replaced.                                                *)
Replaces(t, s, k, a) == t = [s EXCEPT ![k] = a]

LEMMA Replaced ==
    ASSUME NEW s \in Segments, NEW k \in 1 .. Len(s), NEW a \in Seq(Things), Fits(a),
           NEW t, Replaces(t, s, k, a)
    PROVE  /\ t \in Segments /\ Len(t) = Len(s) /\ t[k] = a
           /\ \A n \in 1 .. Len(s) : n # k => t[n] = s[n]
<1>1. s \in Seq(Seq(Things)) /\ Len(s) \in Nat \ {0} /\ \A n \in 1 .. Len(s) : Fits(s[n])
  BY SegmentFacts DEF Segments
<1>2. /\ t \in Seq(Seq(Things)) /\ Len(t) = Len(s)
      /\ \A n \in 1 .. Len(s) : t[n] = IF n = k THEN a ELSE s[n]
  BY <1>1, ExceptSeq DEF Replaces
<1>3. t \in Segments
  BY <1>1, <1>2 DEF Segments
<1>4. QED BY <1>2, <1>3

(* A record is put at the end of the last segment, or of a new one.        *)
LEMMA PutOf ==
    ASSUME NEW s \in Segments, NEW x \in Things
    PROVE  LET t == PutMeta(s, x) IN
           /\ t \in Segments /\ Grows(s, t)
           /\ \A w \in MetaWriters : Leads(t, <<w, Len(t), Used(Front(Last(t)))>>, x)
<1> DEFINE t == PutMeta(s, x)
<1>1. /\ s \in Seq(Seq(Things)) /\ Len(s) \in Nat \ {0}
      /\ \A n \in 1 .. Len(s) : s[n] \in Seq(Things) /\ Fits(s[n])
  BY SegmentFacts DEF Segments
<1>2. CASE HasRoom(s, x)
  <2>1. PICK k, l : k = Len(s) /\ l = s[k] /\ k \in 1 .. Len(s) /\ l \in Seq(Things)
    BY <1>1
  <2> DEFINE a == Append(l, x)
  <2>2. /\ a \in Seq(Things) /\ Len(a) = Len(l) + 1 /\ Len(l) \in Nat
        /\ Prefix(l, a) /\ a[Len(a)] = x /\ Used(a) = Used(l) + Size[x] /\ Front(a) = l
    BY <2>1, Appending
  <2>3. Replaces(t, s, k, a)
    <3>1. Last(s) = l
      BY <2>1 DEF Last
    <3>2. t = [s EXCEPT ![Len(s)] = Append(@, x)]
      BY <1>2 DEF PutMeta
    <3>3. QED BY <2>1, <3>2 DEF Replaces
  <2>4. Fits(a)
    <3>1. Used(l) + Size[x] <= Limit
      BY <1>2, <2>1 DEF HasRoom, Last
    <3>2. QED BY <2>2, <3>1 DEF Fits
  <2> HIDE DEF a, t
  <2>5. t \in Segments /\ Len(t) = Len(s) /\ t[k] = a /\ \A n \in 1 .. Len(s) : n # k => t[n] = s[n]
    BY <2>1, <2>2, <2>3, <2>4, Replaced
  <2>6. Grows(s, t)
    <3>1. ASSUME NEW n \in 1 .. Len(s) PROVE Prefix(s[n], t[n])
      <4>1. CASE n = k
        BY <2>1, <2>2, <2>5, <4>1
      <4>2. CASE n # k
        <5>1. t[n] = s[n] /\ Len(s[n]) \in Nat
          BY <2>5, <4>2, SegmentFacts
        <5>2. QED BY <5>1 DEF Prefix
      <4>3. QED BY <4>1, <4>2
    <3>2. Len(s) <= Len(t)
      BY <1>1, <2>5
    <3>3. QED BY <3>1, <3>2 DEF Grows
  <2>7. Last(t) = a /\ Len(t) = k
    BY <2>1, <2>5 DEF Last
  <2>8. Ends(a)[Len(a) - 1] = Used(l)
    <3>1. Len(a) - 1 = Len(l) /\ Len(l) \in 0 .. Len(l)
      BY <2>2
    <3>2. Ends(l)[Len(l)] = Ends(a)[Len(l)]
      BY <2>1, <2>2, <3>1, EndsPrefix
    <3>3. QED BY <3>1, <3>2 DEF Used
  <2>9. Len(a) \in 1 .. Len(a) /\ Record(a, Len(a), Used(l), x)
    BY <2>2, <2>8 DEF Record
  <2>10. \A w \in MetaWriters : Leads(t, <<w, k, Used(l)>>, x)
    BY <2>1, <2>5, <2>9 DEF Leads
  <2>11. QED BY <2>2, <2>5, <2>6, <2>7, <2>10 DEF t
<1>3. CASE ~ HasRoom(s, x)
  <2> DEFINE a == <<x>>
  <2>1. a \in Seq(Things) /\ Len(a) = 1 /\ a[1] = x
    OBVIOUS
  <2> HIDE DEF a
  <2>2. t = Append(s, a)
    BY <1>3 DEF PutMeta, a
  <2>3. /\ t \in Seq(Seq(Things)) /\ Len(t) = Len(s) + 1 /\ t[Len(t)] = a
        /\ \A n \in 1 .. Len(s) : t[n] = s[n]
    BY <1>1, <2>1, <2>2, AppendProperties
  <2> HIDE DEF t
  <2>4. t \in Segments
    <3>1. \A n \in 1 .. Len(t) : n \in 1 .. Len(s) \/ n = Len(t)
      BY <1>1, <2>3
    <3>2. Fits(a)
      BY <2>1 DEF Fits
    <3>3. ASSUME NEW n \in 1 .. Len(t) PROVE Fits(t[n])
      <4>1. CASE n = Len(t)
        BY <2>3, <3>2, <4>1
      <4>2. CASE n \in 1 .. Len(s)
        <5>1. t[n] = s[n] /\ Fits(s[n])
          BY <2>3, <4>2 DEF Segments
        <5>2. QED BY <5>1
      <4>3. QED BY <3>1, <4>1, <4>2
    <3>4. Len(t) >= 1
      BY <1>1, <2>3
    <3>5. QED BY <2>3, <3>3, <3>4 DEF Segments
  <2>5. Grows(s, t)
    <3>1. \A n \in 1 .. Len(s) : Len(s[n]) \in Nat
      BY SegmentFacts
    <3>2. QED BY <1>1, <2>3, <3>1 DEF Grows, Prefix
  <2>6. Last(t) = a
    BY <2>3 DEF Last
  <2>7. Ends(a)[0] = 0 /\ Used(Front(a)) = 0
    <3>1. Front(a) = <<>> /\ <<>> \in Seq(Things) /\ Len(<<>>) = 0
      BY <2>1 DEF Front, a
    <3>2. Ends(<<>>)[0] = 0
      BY <3>1, EndsOf
    <3>3. QED BY <2>1, <3>1, <3>2, EndsOf DEF Used
  <2>8. Len(t) \in 1 .. Len(t) /\ 1 \in 1 .. Len(a)
    BY <1>1, <2>1, <2>3
  <2>9. \A w \in MetaWriters : Leads(t, <<w, Len(t), Used(Front(a))>>, x)
    <3>1. Record(a, 1, Used(Front(a)), x)
      BY <2>1, <2>7 DEF Record
    <3>2. QED BY <2>3, <2>8, <3>1 DEF Leads
  <2>10. QED BY <2>4, <2>5, <2>6, <2>9 DEF t
<1>4. QED BY <1>2, <1>3

(* The segments of a writer, one record after the other.                   *)
IsPuts(w, xs, f) == f = [k \in 0 .. Len(xs) |-> IF k = 0 THEN segments[w] ELSE PutMeta(f[k - 1], xs[k])]

LEMMA PutsOf ==
    ASSUME NEW w, segments[w] \in Segments, NEW xs \in Seq(Things)
    PROVE  /\ Len(xs) \in Nat /\ Puts(w, xs)[0] = segments[w]
           /\ \A k \in 0 .. Len(xs) : Puts(w, xs)[k] \in Segments
           /\ \A k \in 1 .. Len(xs) : /\ xs[k] \in Things
                                      /\ Puts(w, xs)[k] = PutMeta(Puts(w, xs)[k - 1], xs[k])
<1> DEFINE n == Len(xs)
           step == [p \in Segments \X (1 .. n) |-> PutMeta(p[1], xs[p[2]])]
<1>1. n \in Nat /\ \A k \in 1 .. n : xs[k] \in Things
  BY LenProperties, ElementOfSeq
<1> HIDE DEF n
<1>2. ASSUME NEW x \in Segments, NEW k \in 1 .. n
      PROVE  step[<<x, k>>] = PutMeta(x, xs[k]) /\ PutMeta(x, xs[k]) \in Segments
  BY <1>1, PutOf
<1>3. PICK f : IsResult(Segments, segments[w], n, step, f)
  <2>1. IsStep(Segments, segments[w], n, step)
    BY <1>2 DEF IsStep
  <2> HIDE DEF step
  <2>2. QED BY <1>1, <2>1, Recursion
<1> HIDE DEF step
<1>4. ASSUME NEW k \in 1 .. n PROVE f[k] = PutMeta(f[k - 1], xs[k])
  <2>1. f[k - 1] \in Segments /\ f[k] = step[<<f[k - 1], k>>]
    BY <1>1, <1>3 DEF IsResult
  <2>2. QED BY <1>2, <2>1
<1>5. IsPuts(w, xs, f)
  <2> DEFINE g == [k \in 0 .. n |-> IF k = 0 THEN segments[w] ELSE PutMeta(f[k - 1], xs[k])]
  <2>1. ASSUME NEW k \in 0 .. n PROVE f[k] = g[k]
    <3>1. k # 0 => k \in 1 .. n
      BY <1>1
    <3>2. QED BY <1>3, <1>4, <3>1 DEF IsResult
  <2>2. DOMAIN g = 0 .. n /\ g = [k \in 0 .. n |-> g[k]] /\ f = [k \in 0 .. n |-> f[k]]
    BY <1>3 DEF IsResult
  <2> HIDE DEF g
  <2>3. f = g
    BY <2>1, <2>2
  <2>4. QED BY <2>3 DEF IsPuts, g, n
<1>6. IsPuts(w, xs, Puts(w, xs))
  <2>1. Puts(w, xs) = CHOOSE e : IsPuts(w, xs, e)
    BY DEF Puts, IsPuts
  <2>2. QED BY <1>5, <2>1
<1> DEFINE e == Puts(w, xs)
<1>7. e[0] = segments[w] /\ \A k \in 1 .. n : e[k] = PutMeta(e[k - 1], xs[k])
  <2>1. e = [k \in 0 .. n |-> IF k = 0 THEN segments[w] ELSE PutMeta(e[k - 1], xs[k])]
    BY <1>6 DEF IsPuts, n
  <2> HIDE DEF e
  <2>2. 0 \in 0 .. n /\ \A k \in 1 .. n : k \in 0 .. n /\ k # 0
    BY <1>1
  <2>3. QED BY <2>1, <2>2
<1> HIDE DEF e
<1> DEFINE S == {k \in Nat : k <= n => e[k] \in Segments}
<1>8. 0 \in S
  BY <1>7
<1>9. ASSUME NEW k \in Nat, k \in S PROVE k + 1 \in S
  <2>1. SUFFICES ASSUME k + 1 <= n PROVE e[k + 1] \in Segments
    OBVIOUS
  <2>2. k + 1 \in 1 .. n /\ (k + 1) - 1 = k /\ e[k] \in Segments
    BY <1>1, <1>9, <2>1
  <2>3. e[k + 1] = PutMeta(e[k], xs[k + 1]) /\ xs[k + 1] \in Things
    BY <1>1, <1>7, <2>2
  <2>4. PutMeta(e[k], xs[k + 1]) \in Segments
    BY <2>2, <2>3, PutOf
  <2>5. QED BY <2>3, <2>4
<1>10. Nat \subseteq S
  <2> HIDE DEF S
  <2>1. QED BY <1>8, <1>9, Upwards
<1>11. \A k \in 0 .. n : e[k] \in Segments
  BY <1>1, <1>10
<1>12. QED BY <1>1, <1>7, <1>11 DEF e, n

LEMMA PutsGrow ==
    ASSUME NEW w \in MetaWriters, segments[w] \in Segments, NEW xs \in Seq(Things)
    PROVE  /\ \A j, k \in 0 .. Len(xs) : j <= k => Grows(Puts(w, xs)[j], Puts(w, xs)[k])
           /\ \A j \in 1 .. Len(xs), k \in 0 .. Len(xs) :
                  j <= k => Leads(Puts(w, xs)[k], Locator(w, xs, j), xs[j])
<1> DEFINE n == Len(xs)
           e == Puts(w, xs)
<1>1. /\ n \in Nat /\ \A k \in 0 .. n : e[k] \in Segments
      /\ \A k \in 1 .. n : xs[k] \in Things /\ e[k] = PutMeta(e[k - 1], xs[k])
  BY PutsOf
<1> HIDE DEF n, e
<1>2. ASSUME NEW k \in 1 .. n
      PROVE  Grows(e[k - 1], e[k]) /\ Leads(e[k], <<w, Len(e[k]), Used(Front(Last(e[k])))>>, xs[k])
  <2>1. e[k - 1] \in Segments
    BY <1>1
  <2>2. QED BY <1>1, <2>1, PutOf
<1> DEFINE S == {k \in Nat : k <= n => \A j \in 0 .. k : Grows(e[j], e[k])}
<1>3. 0 \in S
  <2>1. 0 \in 0 .. n
    BY <1>1
  <2>2. Grows(e[0], e[0])
    BY <1>1, <2>1, GrowsOrder
  <2>3. QED BY <2>2
<1>4. ASSUME NEW k \in Nat, k \in S PROVE k + 1 \in S
  <2>1. SUFFICES ASSUME k + 1 <= n, NEW j \in 0 .. k + 1 PROVE Grows(e[j], e[k + 1])
    OBVIOUS
  <2>2. k + 1 \in 1 .. n /\ (k + 1) - 1 = k /\ k \in 0 .. n /\ k + 1 \in 0 .. n /\ j \in 0 .. n
    BY <1>1, <2>1
  <2>3. e[k] \in Segments /\ e[k + 1] \in Segments /\ e[j] \in Segments
    BY <1>1, <2>2
  <2>4. Grows(e[k], e[k + 1])
    BY <1>2, <2>2
  <2>5. CASE j = k + 1
    BY <2>3, <2>5, GrowsOrder
  <2>6. CASE j # k + 1
    <3>1. Grows(e[j], e[k])
      BY <1>1, <1>4, <2>1, <2>6
    <3>2. QED BY <2>3, <2>4, <3>1, GrowsOrder
  <2>7. QED BY <2>5, <2>6
<1>5. Nat \subseteq S
  <2> HIDE DEF S
  <2>1. QED BY <1>3, <1>4, Upwards
<1>6. ASSUME NEW k \in 0 .. n, NEW j \in 0 .. n, j <= k PROVE Grows(e[j], e[k])
  <2>1. k \in S
    BY <1>1, <1>5
  <2>2. QED BY <1>1, <1>6, <2>1
<1>7. ASSUME NEW j \in 1 .. n, NEW k \in 0 .. n, j <= k PROVE Leads(e[k], Locator(w, xs, j), xs[j])
  <2>1. j \in 0 .. n /\ e[j] \in Segments /\ e[k] \in Segments
    BY <1>1
  <2>2. Grows(e[j], e[k])
    BY <1>6, <1>7, <2>1
  <2>3. Leads(e[j], Locator(w, xs, j), xs[j])
    BY <1>2 DEF Locator, e
  <2>4. QED BY <2>1, <2>2, <2>3, GrowsLeads
<1>8. QED BY <1>6, <1>7 DEF n, e

(* Locators name the writer and a place.                                   *)
Locators == MetaWriters \X (Nat \ {0}) \X Nat

LEMMA LocatorOf ==
    ASSUME NEW w \in MetaWriters, segments[w] \in Segments, NEW xs \in Seq(Things), NEW k \in 1 .. Len(xs)
    PROVE  Locator(w, xs, k) \in Locators /\ Locator(w, xs, k)[1] = w
<1> DEFINE segs == Puts(w, xs)[k]
<1>1. segs \in Segments
  <2>1. k \in 0 .. Len(xs)
    OBVIOUS
  <2>2. QED BY <2>1, PutsOf
<1>2. Locator(w, xs, k) = <<w, Len(segs), Used(Front(Last(segs)))>>
  BY DEF Locator
<1> HIDE DEF segs
<1>3. Len(segs) \in Nat \ {0} /\ Last(segs) \in Seq(Things)
  BY <1>1, SegmentFacts
<1>4. Front(Last(segs)) \in Seq(Things)
  <2>1. PICK l : l = Last(segs) /\ l \in Seq(Things)
    BY <1>3
  <2>2. Len(l) \in Nat /\ \A i \in 1 .. Len(l) - 1 : l[i] \in Things
    BY <2>1, LenProperties, ElementOfSeq
  <2>3. 1 \in Int /\ Len(l) - 1 \in Int
    BY <2>2
  <2>4. SubSeq(l, 1, Len(l) - 1) \in Seq(Things)
    BY <2>2, <2>3, SubSeqProperties
  <2>5. QED BY <2>1, <2>4 DEF Front
<1>5. Used(Front(Last(segs))) \in Nat
  BY <1>4, EndsOf
<1>6. QED BY <1>2, <1>3, <1>5 DEF Locators

-----------------------------------------------------------------------------
(* A listing in the order of inodes: every listing has such an order.      *)
LEMMA Greatest ==
    ASSUME NEW n \in Nat \ {0}, NEW key \in [1 .. n -> Nat]
    PROVE  \E m \in 1 .. n : \A i \in 1 .. n : key[i] <= key[m]
<1> DEFINE S == {k \in Nat : k + 1 <= n => \E m \in 1 .. k + 1 : \A i \in 1 .. k + 1 : key[i] <= key[m]}
<1>1. 0 \in S
  <2>1. 1 \in 1 .. 0 + 1 /\ \A i \in 1 .. 0 + 1 : i = 1
    OBVIOUS
  <2>2. key[1] \in Nat
    OBVIOUS
  <2>3. QED BY <2>1, <2>2
<1>2. ASSUME NEW k \in Nat, k \in S PROVE k + 1 \in S
  <2>1. SUFFICES ASSUME (k + 1) + 1 <= n
                 PROVE  \E m \in 1 .. (k + 1) + 1 : \A i \in 1 .. (k + 1) + 1 : key[i] <= key[m]
    OBVIOUS
  <2>2. PICK m \in 1 .. k + 1 : \A i \in 1 .. k + 1 : key[i] <= key[m]
    BY <1>2, <2>1
  <2>3. \A i \in 1 .. (k + 1) + 1 : key[i] \in Nat /\ (i \in 1 .. k + 1 \/ i = (k + 1) + 1)
    BY <2>1
  <2>4. CASE key[(k + 1) + 1] <= key[m]
    <3>1. m \in 1 .. (k + 1) + 1
      OBVIOUS
    <3>2. ASSUME NEW i \in 1 .. (k + 1) + 1 PROVE key[i] <= key[m]
      BY <2>2, <2>3, <2>4
    <3>3. QED BY <3>1, <3>2
  <2>5. CASE ~ (key[(k + 1) + 1] <= key[m])
    <3>1. \A i \in 1 .. (k + 1) + 1 : key[i] <= key[(k + 1) + 1]
      BY <2>2, <2>3, <2>5
    <3>2. QED BY <3>1
  <2>6. QED BY <2>4, <2>5
<1>3. Nat \subseteq S
  <2> HIDE DEF S
  <2>1. QED BY <1>1, <1>2, Upwards
<1>4. n - 1 \in Nat /\ (n - 1) + 1 = n
  OBVIOUS
<1>5. n - 1 \in S
  <2> HIDE DEF S
  <2>1. QED BY <1>3, <1>4
<1>6. QED BY <1>4, <1>5

Order(n, key, p) ==
    /\ p \in [1 .. n -> 1 .. n]
    /\ \A i, j \in 1 .. n : p[i] = p[j] => i = j
    /\ \A m \in 1 .. n : \E i \in 1 .. n : p[i] = m
    /\ \A i, j \in 1 .. n : i < j => key[p[i]] <= key[p[j]]

(* The greatest one comes last; the others change places with it.          *)
LEMMA OneMore ==
    ASSUME NEW n \in Nat, NEW key \in [1 .. n + 1 -> Nat],
           \A k \in [1 .. n -> Nat] : \E p : Order(n, k, p)
    PROVE  \E p : Order(n + 1, key, p)
<1>1. PICK m \in 1 .. n + 1 : \A i \in 1 .. n + 1 : key[i] <= key[m]
  <2>1. n + 1 \in Nat \ {0}
    OBVIOUS
  <2>2. QED BY <2>1, Greatest
<1> DEFINE k == [i \in 1 .. n |-> IF i = m THEN key[n + 1] ELSE key[i]]
<1>2. k \in [1 .. n -> Nat]
  OBVIOUS
<1>3. PICK q : Order(n, k, q)
  <2> HIDE DEF k
  <2>1. QED BY <1>2
<1> DEFINE place(i) == IF q[i] = m THEN n + 1 ELSE q[i]
           p == [i \in 1 .. n + 1 |-> IF i = n + 1 THEN m ELSE place(i)]
<1>4. \A i \in 1 .. n : q[i] \in 1 .. n /\ p[i] = place(i) /\ place(i) \in 1 .. n + 1 /\ place(i) # m
                        /\ k[q[i]] = key[place(i)]
  <2>1. TAKE i \in 1 .. n
  <2>2. q[i] \in 1 .. n
    BY <1>3 DEF Order
  <2>3. p[i] = place(i) /\ place(i) \in 1 .. n + 1
    BY <2>2
  <2>4. place(i) # m
    BY <2>2
  <2>5. k[q[i]] = key[place(i)]
    BY <2>2
  <2>6. QED BY <2>2, <2>3, <2>4, <2>5
<1>5. p[n + 1] = m /\ p \in [1 .. n + 1 -> 1 .. n + 1]
  <2>1. p[n + 1] = m
    OBVIOUS
  <2>2. ASSUME NEW i \in 1 .. n + 1 PROVE p[i] \in 1 .. n + 1
    <3>1. i \in 1 .. n \/ i = n + 1
      OBVIOUS
    <3> HIDE DEF p, place
    <3>2. QED BY <1>4, <2>1, <3>1
  <2>3. QED BY <2>1, <2>2
<1>6. \A i, j \in 1 .. n : place(i) = place(j) => i = j
  <2>1. ASSUME NEW i \in 1 .. n, NEW j \in 1 .. n, place(i) = place(j) PROVE i = j
    <3>1. q[i] = q[j]
      BY <1>4, <2>1
    <3>2. QED BY <1>3, <3>1 DEF Order
  <2>2. QED BY <2>1
<1>7. \A l \in 1 .. n + 1 : l # m => \E i \in 1 .. n : place(i) = l
  <2>1. ASSUME NEW l \in 1 .. n + 1, l # m PROVE \E i \in 1 .. n : place(i) = l
    <3>1. CASE l = n + 1
      <4>1. PICK i \in 1 .. n : q[i] = m
        BY <1>3, <2>1, <3>1 DEF Order
      <4>2. QED BY <3>1, <4>1
    <3>2. CASE l # n + 1
      <4>1. PICK i \in 1 .. n : q[i] = l
        BY <1>3, <3>2 DEF Order
      <4>2. QED BY <2>1, <4>1
    <3>3. QED BY <3>1, <3>2
  <2>2. QED BY <2>1
<1>8. \A i, j \in 1 .. n : i < j => key[place(i)] <= key[place(j)]
  <2>1. ASSUME NEW i \in 1 .. n, NEW j \in 1 .. n, i < j PROVE key[place(i)] <= key[place(j)]
    <3>1. k[q[i]] <= k[q[j]]
      BY <1>3, <2>1 DEF Order
    <3>2. QED BY <1>4, <3>1
  <2>2. QED BY <2>1
<1> HIDE DEF p, place
<1>10. \A i, j \in 1 .. n + 1 : p[i] = p[j] => i = j
  <2>1. ASSUME NEW i \in 1 .. n + 1, NEW j \in 1 .. n + 1, p[i] = p[j] PROVE i = j
    <3>1. i \in 1 .. n \/ i = n + 1
      OBVIOUS
    <3>2. j \in 1 .. n \/ j = n + 1
      OBVIOUS
    <3>3. CASE i \in 1 .. n /\ j \in 1 .. n
      <4>1. place(i) = place(j)
        BY <1>4, <2>1, <3>3
      <4>2. QED BY <1>6, <3>3, <4>1
    <3>4. CASE i = n + 1 \/ j = n + 1
      <4>1. (i \in 1 .. n => p[i] # m) /\ (j \in 1 .. n => p[j] # m)
        BY <1>4
      <4>2. QED BY <1>5, <2>1, <3>1, <3>2, <3>4, <4>1
    <3>5. QED BY <3>1, <3>2, <3>3, <3>4
  <2>2. QED BY <2>1
<1>11. \A l \in 1 .. n + 1 : \E i \in 1 .. n + 1 : p[i] = l
  <2>1. n + 1 \in 1 .. n + 1 /\ \A i \in 1 .. n : i \in 1 .. n + 1
    OBVIOUS
  <2>2. ASSUME NEW l \in 1 .. n + 1, l # m PROVE \E i \in 1 .. n + 1 : p[i] = l
    <3>1. PICK i \in 1 .. n : place(i) = l
      BY <1>7, <2>2
    <3>2. p[i] = l /\ i \in 1 .. n + 1
      BY <1>4, <2>1, <3>1
    <3>3. QED BY <3>2
  <2>3. QED BY <1>5, <2>1, <2>2
<1>12. ASSUME NEW i \in 1 .. n + 1, NEW j \in 1 .. n + 1, i < j PROVE key[p[i]] <= key[p[j]]
  <2>1. i \in 1 .. n
    BY <1>12
  <2>2. CASE j = n + 1
    BY <1>1, <1>5, <2>1, <2>2
  <2>3. CASE j # n + 1
    <3>1. j \in 1 .. n
      BY <2>3
    <3>2. QED BY <1>4, <1>8, <1>12, <2>1, <3>1
  <2>4. QED BY <2>2, <2>3
<1>13. QED BY <1>5, <1>10, <1>11, <1>12 DEF Order

LEMMA OrderExists == \A n \in Nat : \A key \in [1 .. n -> Nat] : \E p : Order(n, key, p)
<1> DEFINE S == {n \in Nat : \A key \in [1 .. n -> Nat] : \E p : Order(n, key, p)}
<1>1. 0 \in S
  <2>1. ASSUME NEW key \in [1 .. 0 -> Nat] PROVE \E p : Order(0, key, p)
    <3> DEFINE p == [i \in 1 .. 0 |-> i]
    <3>1. p \in [1 .. 0 -> 1 .. 0] /\ 1 .. 0 = {}
      OBVIOUS
    <3> HIDE DEF p
    <3>2. Order(0, key, p)
      BY <3>1 DEF Order
    <3>3. QED BY <3>2
  <2>2. QED BY <2>1
<1>2. \A n \in Nat : n \in S => n + 1 \in S
  <2>1. ASSUME NEW n \in Nat, n \in S PROVE n + 1 \in S
    <3>1. \A k \in [1 .. n -> Nat] : \E p : Order(n, k, p)
      BY <2>1
    <3>2. \A key \in [1 .. n + 1 -> Nat] : \E p : Order(n + 1, key, p)
      BY <3>1, OneMore
    <3>3. QED BY <3>2
  <2>2. QED BY <2>1
<1>3. Nat \subseteq S
  <2> HIDE DEF S
  <2>1. QED BY <1>1, <1>2, Upwards
<1>4. QED BY <1>3

Keyed(n, entries) == DOMAIN entries = 1 .. n /\ \A k \in 1 .. n : Inode[entries[k].id] \in Nat
Permutes(n, p, s, t) ==
    /\ p \in [1 .. n -> 1 .. n]
    /\ \A i, j \in 1 .. n : p[i] = p[j] => i = j
    /\ \A m \in 1 .. n : \E i \in 1 .. n : p[i] = m
    /\ t = [i \in 1 .. n |-> s[p[i]]]

LEMMA SortedOf ==
    ASSUME NEW n \in Nat, NEW entries, Keyed(n, entries)
    PROVE  \E p : Permutes(n, p, entries, Sorted(entries))
<1> DEFINE key == [i \in 1 .. n |-> Inode[entries[i].id]]
           InOrder(p) == \A i, j \in 1 .. n : i < j => Inode[entries[p[i]].id] <= Inode[entries[p[j]].id]
           p == CHOOSE p \in Bijection(1 .. n, 1 .. n) : InOrder(p)
<1>1. key \in [1 .. n -> Nat]
  BY DEF Keyed
<1>2. PICK q : Order(n, key, q)
  <2> HIDE DEF key
  <2>1. QED BY <1>1, OrderExists
<1>3. q \in Bijection(1 .. n, 1 .. n)
  BY <1>2 DEF Order, Bijection, Injection, Surjection, IsInjective
<1>4. InOrder(q)
  <2>1. ASSUME NEW i \in 1 .. n, NEW j \in 1 .. n, i < j
        PROVE  Inode[entries[q[i]].id] <= Inode[entries[q[j]].id]
    <3>1. q[i] \in 1 .. n /\ q[j] \in 1 .. n /\ key[q[i]] <= key[q[j]]
      BY <1>2, <2>1 DEF Order
    <3>2. QED BY <3>1
  <2>2. QED BY <2>1
<1>5. p \in Bijection(1 .. n, 1 .. n)
  <2> HIDE DEF InOrder
  <2>1. QED BY <1>3, <1>4
<1>6. Sorted(entries) = [i \in 1 .. n |-> entries[p[i]]]
  BY DEF Sorted, Keyed
<1> HIDE DEF p
<1>7. /\ p \in [1 .. n -> 1 .. n]
      /\ \A i, j \in 1 .. n : p[i] = p[j] => i = j
      /\ \A m \in 1 .. n : \E i \in 1 .. n : p[i] = m
  BY <1>5 DEF Bijection, Injection, Surjection, IsInjective
<1>8. QED BY <1>6, <1>7 DEF Permutes

-----------------------------------------------------------------------------
(* What a writer writes of a listing.                                      *)
FileEntry == [id : Files, loc : Locators]
DirEntry == [id : Directories, loc : Locators, count : Nat, from : Nat]

Listing(d) == <<d>> \o FilesOf[d]
Written(w, d) == Sorted([k \in 1 .. Len(FilesOf[d]) |-> CacheEntry(w, Listing(d), k + 1)])

LEMMA ListingOf ==
    ASSUME NEW d \in Directories
    PROVE  /\ Listing(d) \in Seq(Things) /\ Len(Listing(d)) = Len(FilesOf[d]) + 1
           /\ Len(FilesOf[d]) \in Nat /\ Listing(d)[1] = d
           /\ \A k \in 1 .. Len(FilesOf[d]) : /\ Listing(d)[k + 1] = FilesOf[d][k]
                                              /\ FilesOf[d][k] \in Files
                                              /\ FilesOf[d][k] \in Range(FilesOf[d])
           /\ \A f \in Range(FilesOf[d]) : \E k \in 1 .. Len(FilesOf[d]) : FilesOf[d][k] = f
           /\ \A j, k \in 1 .. Len(FilesOf[d]) : FilesOf[d][j] = FilesOf[d][k] => j = k
<1> DEFINE s == FilesOf[d]
<1>1. s \in Seq(Files) /\ IsInjective(s) /\ Len(s) \in Nat /\ DOMAIN s = 1 .. Len(s)
  BY Listings
<1>2. s \in Seq(Things)
  <2>1. Files \subseteq Things
    BY DEF Things
  <2>2. QED BY <1>1, <2>1, SeqMonotonic
<1>3. <<d>> \in Seq(Things) /\ Len(<<d>>) = 1 /\ <<d>>[1] = d
  BY DEF Things
<1> DEFINE xs == Listing(d)
<1>4. /\ xs \in Seq(Things) /\ Len(xs) = 1 + Len(s)
      /\ \A i \in 1 .. 1 + Len(s) : xs[i] = IF i <= 1 THEN <<d>>[i] ELSE s[i - 1]
  <2> HIDE DEF s
  <2>1. PICK t : t = <<d>>
    OBVIOUS
  <2>2. t \in Seq(Things) /\ Len(t) = 1
    BY <1>3, <2>1
  <2>3. /\ t \o s \in Seq(Things) /\ Len(t \o s) = Len(t) + Len(s)
        /\ \A i \in 1 .. Len(t) + Len(s) : (t \o s)[i] = IF i <= Len(t) THEN t[i] ELSE s[i - Len(t)]
    BY <1>2, <2>2, ConcatProperties
  <2>4. xs = t \o s
    BY <2>1 DEF Listing, s
  <2>5. QED BY <2>1, <2>2, <2>3, <2>4
<1> HIDE DEF xs
<1>5. xs[1] = d /\ Len(xs) = Len(s) + 1
  BY <1>1, <1>3, <1>4
<1>6. ASSUME NEW k \in 1 .. Len(s) PROVE xs[k + 1] = s[k] /\ s[k] \in Files /\ s[k] \in Range(s)
  <2>1. k + 1 \in 1 .. 1 + Len(s) /\ ~ (k + 1 <= 1) /\ (k + 1) - 1 = k
    BY <1>1
  <2>2. QED BY <1>1, <1>4, <2>1, ElementOfSeq DEF Range
<1>7. \A f \in Range(s) : \E k \in 1 .. Len(s) : s[k] = f
  BY <1>1 DEF Range
<1>8. \A j, k \in 1 .. Len(s) : s[j] = s[k] => j = k
  BY <1>1 DEF IsInjective
<1>9. QED BY <1>1, <1>4, <1>5, <1>6, <1>7, <1>8 DEF xs

LEMMA WrittenOf ==
    ASSUME NEW w \in MetaWriters, segments[w] \in Segments, NEW d \in Directories
    PROVE  LET n == Len(FilesOf[d])
               segs == Puts(w, Listing(d))[n + 1] IN
           /\ Written(w, d) \in Seq(FileEntry) /\ Len(Written(w, d)) = n
           /\ \A k \in 1 .. n : /\ Written(w, d)[k].id \in Range(FilesOf[d])
                                /\ Written(w, d)[k].loc[1] = w
                                /\ Leads(segs, Written(w, d)[k].loc, Written(w, d)[k].id)
           /\ \A j, k \in 1 .. n : Written(w, d)[j].id = Written(w, d)[k].id => j = k
           /\ \A f \in Range(FilesOf[d]) : \E k \in 1 .. n : Written(w, d)[k].id = f
<1> DEFINE n == Len(FilesOf[d])
           xs == Listing(d)
           segs == Puts(w, xs)[n + 1]
           e == [k \in 1 .. n |-> CacheEntry(w, xs, k + 1)]
<1>1. /\ xs \in Seq(Things) /\ Len(xs) = n + 1 /\ n \in Nat
      /\ \A k \in 1 .. n : xs[k + 1] = FilesOf[d][k] /\ FilesOf[d][k] \in Files /\ FilesOf[d][k] \in Range(FilesOf[d])
      /\ \A f \in Range(FilesOf[d]) : \E k \in 1 .. n : FilesOf[d][k] = f
      /\ \A j, k \in 1 .. n : FilesOf[d][j] = FilesOf[d][k] => j = k
  BY ListingOf
<1> HIDE DEF n, xs
<1>2. ASSUME NEW k \in 1 .. n
      PROVE  /\ e[k].id = FilesOf[d][k] /\ e[k].loc[1] = w /\ e[k] \in FileEntry
             /\ Leads(segs, e[k].loc, e[k].id) /\ Inode[e[k].id] \in Nat
  <2>1. k + 1 \in 1 .. Len(xs) /\ n + 1 \in 0 .. Len(xs) /\ k + 1 <= n + 1
    BY <1>1
  <2>2. e[k] = [id |-> xs[k + 1], loc |-> Locator(w, xs, k + 1)]
    BY DEF CacheEntry
  <2>3. Locator(w, xs, k + 1) \in Locators /\ Locator(w, xs, k + 1)[1] = w
    BY <1>1, <2>1, LocatorOf
  <2>4. Leads(segs, Locator(w, xs, k + 1), xs[k + 1])
    BY <1>1, <2>1, PutsGrow
  <2>5. Inode[FilesOf[d][k]] \in Nat
    BY <1>1, Listings
  <2> HIDE DEF e, segs
  <2>6. QED BY <1>1, <2>2, <2>3, <2>4, <2>5 DEF FileEntry
<1>3. DOMAIN e = 1 .. n /\ Sorted(e) = Written(w, d)
  BY DEF Written, n, xs
<1> HIDE DEF e, segs
<1> DEFINE s == Written(w, d)
<1>4. PICK p : Permutes(n, p, e, s)
  <2>1. Keyed(n, e)
    BY <1>2, <1>3 DEF Keyed
  <2>2. \E p : Permutes(n, p, e, Sorted(e))
    BY <1>1, <2>1, SortedOf
  <2>3. QED BY <1>3, <2>2
<1>5. s = [i \in 1 .. n |-> e[p[i]]]
  BY <1>4 DEF Permutes
<1> HIDE DEF s
<1>6. \A i \in 1 .. n : p[i] \in 1 .. n /\ s[i] = e[p[i]]
  BY <1>4, <1>5 DEF Permutes
<1>7. s \in Seq(FileEntry) /\ Len(s) = n
  <2>1. \A i \in 1 .. n : s[i] \in FileEntry
    BY <1>2, <1>6
  <2>2. DOMAIN s = 1 .. n
    BY <1>5
  <2>3. s = [i \in 1 .. n |-> s[i]]
    BY <1>5, <1>6
  <2>4. s \in [1 .. n -> FileEntry]
    BY <2>1, <2>2, <2>3
  <2>5. s \in Seq(FileEntry)
    BY <1>1, <2>4, SeqDef
  <2>6. Len(s) = n
    BY <1>1, <2>2, <2>5, LenProperties
  <2>7. QED BY <2>5, <2>6
<1>8. \A k \in 1 .. n : s[k].id \in Range(FilesOf[d]) /\ s[k].loc[1] = w /\ Leads(segs, s[k].loc, s[k].id)
  <2>1. TAKE k \in 1 .. n
  <2>2. p[k] \in 1 .. n /\ s[k] = e[p[k]]
    BY <1>6
  <2>3. QED BY <1>1, <1>2, <2>2
<1>9. ASSUME NEW j \in 1 .. n, NEW k \in 1 .. n, s[j].id = s[k].id PROVE j = k
  <2>1. FilesOf[d][p[j]] = FilesOf[d][p[k]]
    BY <1>2, <1>6, <1>9
  <2>2. p[j] = p[k]
    BY <1>1, <1>6, <2>1
  <2>3. QED BY <1>4, <2>2 DEF Permutes
<1>10. ASSUME NEW f \in Range(FilesOf[d]) PROVE \E k \in 1 .. n : s[k].id = f
  <2>1. PICK m \in 1 .. n : FilesOf[d][m] = f
    BY <1>1
  <2>2. PICK k \in 1 .. n : p[k] = m
    BY <1>4 DEF Permutes
  <2>3. s[k].id = f
    BY <1>2, <1>6, <2>1, <2>2
  <2>4. QED BY <2>3
<1>11. QED BY <1>7, <1>8, <1>9, <1>10 DEF s, n, segs, xs

-----------------------------------------------------------------------------
(* The hardlink index.                                                     *)
Indices ==
    {g \in UNION {[I -> Seq(FileEntry)] : I \in SUBSET Nat} :
        /\ IsFiniteSet(DOMAIN g)
        /\ \A i \in DOMAIN g : \A k \in 1 .. Len(g[i]) : Inode[g[i][k].id] = i}

Has(g, f) == \E i \in DOMAIN g : \E k \in 1 .. Len(g[i]) : g[i][k].id = f
Distinct(g) == \A i \in DOMAIN g : \A j, k \in 1 .. Len(g[i]) : g[i][j].id = g[i][k].id => j = k
Kept(g, h, i, k) == i \in DOMAIN g /\ k \in 1 .. Len(g[i]) /\ h[i][k] = g[i][k]

LEMMA IndexFacts ==
    ASSUME NEW g \in Indices
    PROVE  /\ DOMAIN g \subseteq Nat /\ IsFiniteSet(DOMAIN g)
           /\ \A i \in DOMAIN g : /\ g[i] \in Seq(FileEntry) /\ Len(g[i]) \in Nat
                                  /\ DOMAIN g[i] = 1 .. Len(g[i])
                                  /\ \A k \in 1 .. Len(g[i]) : g[i][k] \in FileEntry /\ Inode[g[i][k].id] = i
<1>1. PICK I \in SUBSET Nat : g \in [I -> Seq(FileEntry)]
  BY DEF Indices
<1>2. IsFiniteSet(DOMAIN g) /\ \A i \in DOMAIN g : \A k \in 1 .. Len(g[i]) : Inode[g[i][k].id] = i
  BY DEF Indices
<1>3. ASSUME NEW i \in DOMAIN g
      PROVE  /\ g[i] \in Seq(FileEntry) /\ Len(g[i]) \in Nat /\ DOMAIN g[i] = 1 .. Len(g[i])
             /\ \A k \in 1 .. Len(g[i]) : g[i][k] \in FileEntry
  <2>1. g[i] \in Seq(FileEntry)
    BY <1>1
  <2>2. QED BY <2>1, LenProperties, ElementOfSeq
<1>4. DOMAIN g \subseteq Nat
  BY <1>1
<1>5. QED BY <1>2, <1>3, <1>4

LEMMA IndexSet ==
    ASSUME NEW h, NEW I \in SUBSET Nat, IsFiniteSet(I), DOMAIN h = I, h = [i \in I |-> h[i]],
           \A i \in I : h[i] \in Seq(FileEntry) /\ \A k \in 1 .. Len(h[i]) : Inode[h[i][k].id] = i
    PROVE  h \in Indices
<1>1. h \in [I -> Seq(FileEntry)]
  OBVIOUS
<1>2. QED BY <1>1 DEF Indices

(* The same for one name added.                                            *)
Added(g, e, h) ==
    /\ h \in Indices
    /\ \A i \in DOMAIN h : \A k \in 1 .. Len(h[i]) : h[i][k] = e \/ Kept(g, h, i, k)
    /\ \A i \in DOMAIN g : i \in DOMAIN h /\ \A k \in 1 .. Len(g[i]) : k \in 1 .. Len(h[i]) /\ h[i][k] = g[i][k]
    /\ Has(h, e.id)
    /\ Distinct(g) /\ ~ Has(g, e.id) => Distinct(h)

LEMMA AddOf ==
    ASSUME NEW g \in Indices, NEW e \in FileEntry
    PROVE  Added(g, e, AddFile(g, e))
<1> DEFINE i == Inode[e.id]
           h == AddFile(g, e)
           s == IF i \in DOMAIN g THEN g[i] ELSE <<>>
           t == Append(s, e)
           I == DOMAIN g \cup {i}
<1>1. /\ DOMAIN g \subseteq Nat /\ IsFiniteSet(DOMAIN g)
      /\ \A j \in DOMAIN g : /\ g[j] \in Seq(FileEntry) /\ Len(g[j]) \in Nat
                             /\ \A k \in 1 .. Len(g[j]) : g[j][k] \in FileEntry /\ Inode[g[j][k].id] = j
  BY IndexFacts
<1>2. i \in Nat
  BY Listings DEF FileEntry
<1>3. s \in Seq(FileEntry) /\ Len(s) \in Nat /\ \A k \in 1 .. Len(s) : Kept(g, g, i, k) /\ s[k] = g[i][k]
  BY <1>1 DEF Kept
<1>4. /\ t \in Seq(FileEntry) /\ Len(t) = Len(s) + 1 /\ t[Len(s) + 1] = e
      /\ \A k \in 1 .. Len(s) : t[k] = s[k]
  <2> HIDE DEF s
  <2>1. QED BY <1>3, AppendProperties
<1>5. h = [j \in I |-> IF j = i THEN t ELSE g[j]]
  <2>1. CASE i \in DOMAIN g
    <3>1. h = [g EXCEPT ![i] = Append(@, e)]
      BY <2>1 DEF AddFile
    <3>2. I = DOMAIN g /\ t = Append(g[i], e)
      BY <2>1
    <3>3. g = [j \in DOMAIN g |-> g[j]]
      BY DEF Indices
    <3> HIDE DEF h, t, I
    <3>4. QED BY <3>1, <3>2, <3>3
  <2>2. CASE i \notin DOMAIN g
    <3>1. h = [j \in I |-> IF j = i THEN <<e>> ELSE g[j]]
      BY <2>2 DEF AddFile
    <3>2. t = <<e>>
      BY <2>2
    <3> HIDE DEF h, t, I
    <3>3. QED BY <3>1, <3>2
  <2>3. QED BY <2>1, <2>2
<1> HIDE DEF h, t
<1>6. DOMAIN h = I /\ h[i] = t /\ \A j \in I : j # i => h[j] = g[j]
  BY <1>5
<1>7. \A j \in I : j = i \/ j \in DOMAIN g
  OBVIOUS
<1>8. \A k \in 1 .. Len(t) : k = Len(s) + 1 \/ k \in 1 .. Len(s)
  <2> HIDE DEF s
  <2>1. QED BY <1>3, <1>4
<1>9. \A k \in 1 .. Len(t) : Inode[t[k].id] = i /\ (t[k] = e \/ Kept(g, h, i, k))
  <2>1. TAKE k \in 1 .. Len(t)
  <2>2. CASE k = Len(s) + 1
    BY <1>4, <2>2
  <2>3. CASE k \in 1 .. Len(s)
    <3>1. t[k] = g[i][k] /\ i \in DOMAIN g /\ k \in 1 .. Len(g[i])
      BY <1>3, <1>4, <2>3 DEF Kept
    <3>2. QED BY <1>1, <1>6, <3>1 DEF Kept
  <2>4. QED BY <1>8, <2>2, <2>3
<1> HIDE DEF s
<1>10. h \in Indices
  <2>1. IsFiniteSet(I) /\ I \in SUBSET Nat
    BY <1>1, <1>2, FS_AddElement
  <2>2. ASSUME NEW j \in I PROVE h[j] \in Seq(FileEntry) /\ \A k \in 1 .. Len(h[j]) : Inode[h[j][k].id] = j
    <3>1. CASE j = i
      BY <1>4, <1>6, <1>9, <3>1
    <3>2. CASE j # i
      BY <1>1, <1>6, <1>7, <3>2
    <3>3. QED BY <3>1, <3>2
  <2>3. h = [j \in I |-> h[j]]
    BY <1>5
  <2> HIDE DEF I
  <2>4. QED BY <1>6, <2>1, <2>2, <2>3, IndexSet
<1>11. ASSUME NEW j \in DOMAIN h, NEW k \in 1 .. Len(h[j]) PROVE h[j][k] = e \/ Kept(g, h, j, k)
  <2>1. CASE j = i
    BY <1>6, <1>9, <2>1
  <2>2. CASE j # i
    BY <1>6, <1>7, <2>2 DEF Kept
  <2>3. QED BY <2>1, <2>2
<1>12. ASSUME NEW j \in DOMAIN g
       PROVE  j \in DOMAIN h /\ \A k \in 1 .. Len(g[j]) : k \in 1 .. Len(h[j]) /\ h[j][k] = g[j][k]
  <2>1. CASE j = i
    <3>1. s = g[j] /\ Len(t) = Len(g[j]) + 1 /\ Len(g[j]) \in Nat
      BY <1>1, <1>4, <2>1 DEF s
    <3>2. QED BY <1>4, <1>6, <2>1, <3>1
  <2>2. CASE j # i
    BY <1>6, <2>2
  <2>3. QED BY <2>1, <2>2
<1>13. Has(h, e.id)
  <2>1. i \in DOMAIN h /\ Len(s) + 1 \in 1 .. Len(h[i]) /\ h[i][Len(s) + 1] = e
    BY <1>3, <1>4, <1>6
  <2>2. QED BY <2>1 DEF Has
<1>14. ASSUME Distinct(g), ~ Has(g, e.id) PROVE Distinct(h)
  <2>1. SUFFICES ASSUME NEW j \in DOMAIN h, NEW k \in 1 .. Len(h[j]), NEW l \in 1 .. Len(h[j]),
                        h[j][k].id = h[j][l].id
                 PROVE  k = l
    BY DEF Distinct
  <2>2. CASE j # i
    BY <1>6, <1>7, <1>14, <2>1, <2>2 DEF Distinct
  <2>3. CASE j = i
    <3>1. k \in 1 .. Len(t) /\ l \in 1 .. Len(t) /\ t[k].id = t[l].id
      BY <1>6, <2>1, <2>3
    <3>2. \A m \in 1 .. Len(s) : i \in DOMAIN g /\ m \in 1 .. Len(g[i]) /\ t[m] = g[i][m]
      BY <1>3, <1>4 DEF Kept
    <3>3. \A m \in 1 .. Len(s) : t[m].id # e.id
      BY <1>14, <3>2 DEF Has
    <3>4. CASE k \in 1 .. Len(s) /\ l \in 1 .. Len(s)
      BY <1>14, <3>1, <3>2, <3>4 DEF Distinct
    <3>5. CASE ~ (k \in 1 .. Len(s) /\ l \in 1 .. Len(s))
      BY <1>4, <1>8, <3>1, <3>3, <3>5
    <3>6. QED BY <3>4, <3>5
  <2>4. QED BY <2>2, <2>3
<1>15. QED BY <1>10, <1>11, <1>12, <1>13, <1>14 DEF Added, h

(* The index after the k-th record of a listing.                           *)
After(w, xs, k, g) == IF k > 1 /\ Links(xs[k]) > 1 THEN AddFile(g, CacheEntry(w, xs, k)) ELSE g

IsIndex(w, xs, n, f) == f = [k \in 0 .. n |-> IF k = 0 THEN groups ELSE After(w, xs, k, f[k - 1])]

LEMMA CacheEntryOf ==
    ASSUME NEW w \in MetaWriters, segments[w] \in Segments, NEW d \in Directories,
           NEW k \in 2 .. Len(Listing(d))
    PROVE  LET e == CacheEntry(w, Listing(d), k) IN
           /\ e \in FileEntry /\ e.id = Listing(d)[k] /\ e.loc[1] = w /\ e.id = FilesOf[d][k - 1]
           /\ k - 1 \in 1 .. Len(FilesOf[d]) /\ e.id \in Range(FilesOf[d])
           /\ \A n \in 0 .. Len(Listing(d)) : k <= n => Leads(Puts(w, Listing(d))[n], e.loc, e.id)
<1> DEFINE xs == Listing(d)
<1>1. xs \in Seq(Things) /\ Len(xs) = Len(FilesOf[d]) + 1 /\ Len(FilesOf[d]) \in Nat
  BY ListingOf
<1>2. k - 1 \in 1 .. Len(FilesOf[d]) /\ (k - 1) + 1 = k /\ k \in 1 .. Len(xs)
  BY <1>1
<1>3. xs[k] = FilesOf[d][k - 1] /\ xs[k] \in Files /\ xs[k] \in Range(FilesOf[d])
  <2>1. PICK m \in 1 .. Len(FilesOf[d]) : m = k - 1 /\ m + 1 = k
    BY <1>2
  <2>2. /\ Listing(d)[m + 1] = FilesOf[d][m] /\ FilesOf[d][m] \in Files
        /\ FilesOf[d][m] \in Range(FilesOf[d])
    BY ListingOf
  <2>3. QED BY <2>1, <2>2
<1> HIDE DEF xs
<1>4. Locator(w, xs, k) \in Locators /\ Locator(w, xs, k)[1] = w
  BY <1>1, <1>2, LocatorOf
<1>5. \A n \in 0 .. Len(xs) : k <= n => Leads(Puts(w, xs)[n], Locator(w, xs, k), xs[k])
  BY <1>1, <1>2, PutsGrow
<1>6. PICK e : e = CacheEntry(w, xs, k)
  OBVIOUS
<1>7. e = [id |-> xs[k], loc |-> Locator(w, xs, k)]
  BY <1>6 DEF CacheEntry
<1>8. e.id = xs[k] /\ e.loc = Locator(w, xs, k) /\ e \in FileEntry
  BY <1>3, <1>4, <1>7 DEF FileEntry
<1>9. QED BY <1>2, <1>3, <1>4, <1>5, <1>6, <1>8 DEF xs

(* What the index is by then.                                              *)
Fresh(d) == \A f \in Range(FilesOf[d]) : ~ Has(groups, f)

Built(w, d, k, g) ==
    /\ g \in Indices
    /\ \A i \in DOMAIN g : \A l \in 1 .. Len(g[i]) :
          Kept(groups, g, i, l) \/ \E j \in 2 .. k : g[i][l] = CacheEntry(w, Listing(d), j)
    /\ \A f : Has(groups, f) => Has(g, f)
    /\ \A j \in 2 .. k : Links(Listing(d)[j]) > 1 => Has(g, Listing(d)[j])
    /\ Distinct(groups) /\ Fresh(d) => Distinct(g)

LEMMA AfterBuilt ==
    ASSUME groups \in Indices, NEW w \in MetaWriters, segments[w] \in Segments, NEW d \in Directories,
           NEW k \in Nat, k + 1 <= Len(Listing(d)), NEW g, Built(w, d, k, g)
    PROVE  Built(w, d, k + 1, After(w, Listing(d), k + 1, g))
<1> DEFINE xs == Listing(d)
           h == After(w, xs, k + 1, g)
           e == CacheEntry(w, xs, k + 1)
<1>1. /\ g \in Indices
      /\ \A i \in DOMAIN g : \A l \in 1 .. Len(g[i]) :
            Kept(groups, g, i, l) \/ \E j \in 2 .. k : g[i][l] = CacheEntry(w, xs, j)
      /\ \A f : Has(groups, f) => Has(g, f)
      /\ \A j \in 2 .. k : Links(xs[j]) > 1 => Has(g, xs[j])
      /\ Distinct(groups) /\ Fresh(d) => Distinct(g)
  BY DEF Built
<1>2. \A j \in 2 .. k + 1 : j \in 2 .. k \/ (j = k + 1 /\ k + 1 > 1)
  OBVIOUS
<1>3. \A j \in 2 .. k : j \in 2 .. k + 1
  OBVIOUS
<1>4. CASE ~ (k + 1 > 1 /\ Links(xs[k + 1]) > 1)
  <2>1. h = g
    BY <1>4 DEF After
  <2> HIDE DEF h, xs, e
  <2>2. \A j \in 2 .. k + 1 : Links(xs[j]) > 1 => Has(g, xs[j])
    BY <1>1, <1>2, <1>4
  <2>3. \A i \in DOMAIN g : \A l \in 1 .. Len(g[i]) :
            Kept(groups, g, i, l) \/ \E j \in 2 .. k + 1 : g[i][l] = CacheEntry(w, xs, j)
    BY <1>1, <1>3
  <2>4. Built(w, d, k + 1, g)
    BY <1>1, <2>2, <2>3 DEF Built, xs
  <2>5. QED BY <2>1, <2>4 DEF h, xs
<1>5. CASE k + 1 > 1 /\ Links(xs[k + 1]) > 1
  <2>1. h = AddFile(g, e)
    BY <1>5 DEF After
  <2>2. k + 1 \in 2 .. Len(xs) /\ k + 1 \in 2 .. k + 1 /\ Len(xs) \in Nat
    BY <1>5, ListingOf
  <2>3. /\ e \in FileEntry /\ e.id = xs[k + 1] /\ e.id \in Range(FilesOf[d])
        /\ e.id = FilesOf[d][(k + 1) - 1] /\ (k + 1) - 1 \in 1 .. Len(FilesOf[d])
    BY <2>2, CacheEntryOf
  <2>4. Added(g, e, h)
    BY <1>1, <2>1, <2>3, AddOf
  <2> HIDE DEF h, e
  <2>5. /\ h \in Indices /\ Has(h, e.id) /\ (Distinct(g) /\ ~ Has(g, e.id) => Distinct(h))
        /\ \A i \in DOMAIN h : \A l \in 1 .. Len(h[i]) : h[i][l] = e \/ Kept(g, h, i, l)
        /\ \A i \in DOMAIN g : i \in DOMAIN h /\ \A l \in 1 .. Len(g[i]) : l \in 1 .. Len(h[i]) /\ h[i][l] = g[i][l]
    BY <2>4 DEF Added
  <2>6. \A f : Has(g, f) => Has(h, f)
    BY <2>5 DEF Has
  <2>7. ASSUME NEW i \in DOMAIN h, NEW l \in 1 .. Len(h[i])
        PROVE  Kept(groups, h, i, l) \/ \E j \in 2 .. k + 1 : h[i][l] = CacheEntry(w, xs, j)
    <3>1. CASE h[i][l] = e
      BY <2>2, <3>1 DEF e
    <3>2. CASE Kept(g, h, i, l)
      <4>1. i \in DOMAIN g /\ l \in 1 .. Len(g[i]) /\ h[i][l] = g[i][l]
        BY <3>2 DEF Kept
      <4>2. Kept(groups, g, i, l) \/ \E j \in 2 .. k : g[i][l] = CacheEntry(w, xs, j)
        BY <1>1, <4>1
      <4>3. QED BY <1>3, <4>1, <4>2 DEF Kept
    <3>3. QED BY <2>5, <3>1, <3>2
  <2>8. \A j \in 2 .. k + 1 : Links(xs[j]) > 1 => Has(h, xs[j])
    <3> HIDE DEF xs
    <3>1. QED BY <1>1, <1>2, <2>3, <2>5, <2>6
  <2>9. ASSUME Distinct(groups), Fresh(d) PROVE Distinct(h)
    <3>1. SUFFICES ASSUME Has(g, e.id) PROVE FALSE
      BY <1>1, <2>5, <2>9
    <3>2. PICK i \in DOMAIN g : \E l \in 1 .. Len(g[i]) : g[i][l].id = e.id
      BY <3>1 DEF Has
    <3>3. PICK l \in 1 .. Len(g[i]) : g[i][l].id = e.id
      BY <3>2
    <3>4. ~ Kept(groups, g, i, l)
      BY <2>3, <2>9, <3>3 DEF Kept, Fresh, Has
    <3>5. PICK j \in 2 .. k : g[i][l] = CacheEntry(w, xs, j)
      BY <1>1, <3>4
    <3>6. j \in 2 .. Len(xs)
      BY <2>2
    <3>7. g[i][l].id = FilesOf[d][j - 1] /\ j - 1 \in 1 .. Len(FilesOf[d])
      BY <3>5, <3>6, CacheEntryOf
    <3>8. PICK a, b : a = j - 1 /\ b = (k + 1) - 1
      OBVIOUS
    <3>9. a \in 1 .. Len(FilesOf[d]) /\ b \in 1 .. Len(FilesOf[d]) /\ FilesOf[d][a] = FilesOf[d][b]
      BY <2>3, <3>3, <3>7, <3>8
    <3>10. a = b
      BY <3>9, ListingOf
    <3>11. QED BY <3>8, <3>10
  <2>10. \A f : Has(groups, f) => Has(h, f)
    BY <1>1, <2>6
  <2>11. Built(w, d, k + 1, h)
    BY <2>5, <2>7, <2>8, <2>9, <2>10 DEF Built, xs
  <2>12. QED BY <2>11 DEF h, xs
<1>6. QED BY <1>4, <1>5

LEMMA IndexOf ==
    ASSUME groups \in Indices, NEW w \in MetaWriters, segments[w] \in Segments, NEW d \in Directories,
           NEW n \in 0 .. Len(Listing(d))
    PROVE  IF kind = "native" THEN Built(w, d, n, Index(w, Listing(d), n))
           ELSE Index(w, Listing(d), n) = groups
<1> DEFINE xs == Listing(d)
           add == CHOOSE f : IsIndex(w, xs, n, f)
           step == [p \in Indices \X (1 .. n) |-> After(w, xs, p[2], p[1])]
<1>1. n \in Nat /\ n <= Len(xs) /\ Len(xs) \in Nat
  BY ListingOf
<1>2. ASSUME NEW x \in Indices, NEW k \in 1 .. n
      PROVE  step[<<x, k>>] = After(w, xs, k, x) /\ After(w, xs, k, x) \in Indices
  <2>1. step[<<x, k>>] = After(w, xs, k, x)
    OBVIOUS
  <2> HIDE DEF step
  <2>2. CASE k > 1 /\ Links(xs[k]) > 1
    <3>1. k \in 2 .. Len(xs)
      BY <1>1, <2>2
    <3>2. CacheEntry(w, xs, k) \in FileEntry
      BY <3>1, CacheEntryOf
    <3>3. AddFile(x, CacheEntry(w, xs, k)) \in Indices
      BY <3>2, AddOf DEF Added
    <3>4. QED BY <2>1, <2>2, <3>3 DEF After
  <2>3. CASE ~ (k > 1 /\ Links(xs[k]) > 1)
    BY <2>1, <2>3 DEF After
  <2>4. QED BY <2>2, <2>3
<1> HIDE DEF xs
<1>3. PICK f : IsResult(Indices, groups, n, step, f)
  <2>1. IsStep(Indices, groups, n, step)
    BY <1>2 DEF IsStep
  <2> HIDE DEF step
  <2>2. QED BY <1>1, <2>1, Recursion
<1> HIDE DEF step
<1>4. ASSUME NEW k \in 1 .. n PROVE f[k] = After(w, xs, k, f[k - 1])
  <2>1. f[k - 1] \in Indices /\ f[k] = step[<<f[k - 1], k>>]
    BY <1>1, <1>3 DEF IsResult
  <2>2. QED BY <1>2, <2>1
<1>5. IsIndex(w, xs, n, f)
  <2> DEFINE g == [k \in 0 .. n |-> IF k = 0 THEN groups ELSE After(w, xs, k, f[k - 1])]
  <2>1. ASSUME NEW k \in 0 .. n PROVE f[k] = g[k]
    <3>1. k # 0 => k \in 1 .. n
      BY <1>1
    <3>2. QED BY <1>3, <1>4, <3>1 DEF IsResult
  <2>2. DOMAIN g = 0 .. n /\ g = [k \in 0 .. n |-> g[k]] /\ f = [k \in 0 .. n |-> f[k]]
    BY <1>3 DEF IsResult
  <2> HIDE DEF g
  <2>3. f = g
    BY <2>1, <2>2
  <2>4. QED BY <2>3 DEF IsIndex, g
<1>6. IsIndex(w, xs, n, add)
  BY <1>5
<1> HIDE DEF add
<1>7. add[0] = groups /\ \A k \in 1 .. n : add[k] = After(w, xs, k, add[k - 1])
  <2>1. add = [k \in 0 .. n |-> IF k = 0 THEN groups ELSE After(w, xs, k, add[k - 1])]
    BY <1>6 DEF IsIndex
  <2>2. 0 \in 0 .. n /\ \A k \in 1 .. n : k \in 0 .. n /\ k # 0
    BY <1>1
  <2>3. QED BY <2>1, <2>2
<1> DEFINE S == {k \in Nat : k <= n => Built(w, d, k, add[k])}
<1>8. 0 \in S
  <2>1. Built(w, d, 0, groups)
    <3>1. \A i \in DOMAIN groups : \A l \in 1 .. Len(groups[i]) : Kept(groups, groups, i, l)
      BY DEF Kept
    <3>2. \A j \in 2 .. 0 : FALSE
      OBVIOUS
    <3>3. QED BY <3>1, <3>2 DEF Built
  <2>2. QED BY <1>7, <2>1
<1>9. ASSUME NEW k \in Nat, k \in S PROVE k + 1 \in S
  <2>1. SUFFICES ASSUME k + 1 <= n PROVE Built(w, d, k + 1, add[k + 1])
    OBVIOUS
  <2>2. Built(w, d, k, add[k]) /\ k + 1 <= Len(xs)
    BY <1>1, <1>9, <2>1
  <2>3. add[k + 1] = After(w, xs, k + 1, add[k])
    <3>1. k + 1 \in 1 .. n /\ (k + 1) - 1 = k
      BY <1>1, <2>1
    <3>2. QED BY <1>7, <3>1
  <2>4. QED BY <2>2, <2>3, AfterBuilt DEF xs
<1>10. Nat \subseteq S
  <2> HIDE DEF S
  <2>1. QED BY <1>8, <1>9, Upwards
<1>11. Built(w, d, n, add[n])
  BY <1>1, <1>10
<1>12. Index(w, xs, n) = IF kind = "native" THEN add[n] ELSE groups
  BY DEF Index, IsIndex, After, add
<1>13. QED BY <1>11, <1>12 DEF xs

-----------------------------------------------------------------------------
(* The scan.  A locator leads to the record of its entry; when the end of  *)
(* the writer's files was lost it may lead nowhere.                        *)
Points(e) ==
    /\ Allows(segments[e.loc[1]], e.loc, e.id)
    /\ e.loc[1] \notin cut => Leads(segments[e.loc[1]], e.loc, e.id)

(* A slice of the file cache has the files of its directory, and all of    *)
(* them unless it was cut short.                                           *)
InSlice(w, e, k) == k \in 1 .. e.count /\ e.from + k <= Len(fcache[w])

SliceRight(w, e) ==
    /\ \A k \in 1 .. e.count : InSlice(w, e, k) => fcache[w][e.from + k].id \in Range(FilesOf[e.id])
    /\ \A j, k \in 1 .. e.count :
          InSlice(w, e, j) /\ InSlice(w, e, k) /\ fcache[w][e.from + j].id = fcache[w][e.from + k].id => j = k
    /\ w \notin cut =>
          /\ e.from + e.count <= Len(fcache[w])
          /\ \A f \in Range(FilesOf[e.id]) : \E k \in 1 .. e.count : fcache[w][e.from + k].id = f

DirRight(w, e) == e.loc[1] = w /\ Points(e) /\ e.count = Len(FilesOf[e.id]) /\ SliceRight(w, e)

ScanShape ==
    /\ kind \in {"native", "remote"}
    /\ queue \subseteq Directories /\ dropped \subseteq Directories \ queue
    /\ cut \subseteq MetaWriters /\ up \subseteq MetaWriters \ cut
    /\ segments \in [MetaWriters -> Segments]
    /\ dcache \in [MetaWriters -> Seq(DirEntry)] /\ fcache \in [MetaWriters -> Seq(FileEntry)]
    /\ groups \in Indices

Cached ==
    /\ \A w \in MetaWriters : \A n \in 1 .. Len(dcache[w]) : DirRight(w, dcache[w][n])
    /\ \A w \in MetaWriters : \A n \in 1 .. Len(fcache[w]) :
          fcache[w][n].loc[1] = w /\ Points(fcache[w][n])
    /\ \A i \in DOMAIN groups : \A k \in 1 .. Len(groups[i]) : Points(groups[i][k])

(* Every listing is in one place: it waits, was dropped or is cached.      *)
Apart ==
    /\ \A w, v \in MetaWriters : \A n \in 1 .. Len(dcache[w]), m \in 1 .. Len(dcache[v]) :
          dcache[w][n].id = dcache[v][m].id => w = v /\ n = m
    /\ \A w \in MetaWriters : \A n \in 1 .. Len(dcache[w]) : dcache[w][n].id \notin queue \cup dropped
    /\ cut = {} => \A d \in Directories \ (queue \cup dropped) :
                      \E w \in MetaWriters : \E n \in 1 .. Len(dcache[w]) : dcache[w][n].id = d

Grouped ==
    /\ Distinct(groups)
    /\ \A d \in queue : Fresh(d)
    /\ kind = "native" => \A d \in Directories \ (queue \cup dropped) :
                             \A f \in Range(FilesOf[d]) : Links(f) > 1 => Has(groups, f)

ScanInv == ScanShape /\ Cached /\ Apart /\ Grouped

LEMMA CacheFacts ==
    ASSUME ScanShape, NEW w \in MetaWriters
    PROVE  /\ segments[w] \in Segments
           /\ dcache[w] \in Seq(DirEntry) /\ Len(dcache[w]) \in Nat /\ DOMAIN dcache[w] = 1 .. Len(dcache[w])
           /\ \A n \in 1 .. Len(dcache[w]) : dcache[w][n] \in DirEntry
           /\ fcache[w] \in Seq(FileEntry) /\ Len(fcache[w]) \in Nat /\ DOMAIN fcache[w] = 1 .. Len(fcache[w])
           /\ \A n \in 1 .. Len(fcache[w]) : fcache[w][n] \in FileEntry
<1>1. segments[w] \in Segments /\ dcache[w] \in Seq(DirEntry) /\ fcache[w] \in Seq(FileEntry)
  BY DEF ScanShape
<1>2. QED BY <1>1, LenProperties, ElementOfSeq

LEMMA ScanSame == ScanInv /\ UNCHANGED scanning => ScanInv'
<1> SUFFICES ASSUME ScanInv, UNCHANGED scanning PROVE ScanInv'
  OBVIOUS
<1>1. ScanShape'
  BY DEF ScanInv, ScanShape, scanning
<1>2. Cached'
  BY DEF ScanInv, Cached, DirRight, Points, SliceRight, InSlice, scanning
<1>3. Apart'
  BY DEF ScanInv, Apart, scanning
<1>4. Grouped'
  BY DEF ScanInv, Grouped, Fresh, scanning
<1>5. QED BY <1>1, <1>2, <1>3, <1>4 DEF ScanInv

LEMMA PointsKept ==
    ASSUME ScanShape, NEW w \in MetaWriters, w \notin cut, cut' = cut,
           NEW t \in Segments, Grows(segments[w], t), segments' = [segments EXCEPT ![w] = t],
           NEW e, e.loc[1] \in MetaWriters, Points(e)
    PROVE  Points(e)'
<1>1. CASE e.loc[1] = w
  <2>1. segments[w] \in Segments /\ Leads(segments[w], e.loc, e.id) /\ segments'[w] = t
    BY <1>1 DEF Points, ScanShape
  <2>2. Leads(t, e.loc, e.id)
    BY <2>1, GrowsLeads
  <2>3. Allows(t, e.loc, e.id)
    BY <2>2, LeadsAllows
  <2>4. QED BY <1>1, <2>1, <2>2, <2>3 DEF Points
<1>2. CASE e.loc[1] # w
  BY <1>2 DEF Points, ScanShape
<1>3. QED BY <1>1, <1>2

(* What a writer has done with the first n records of a listing, and m of  *)
(* its entries for the file cache.                                         *)
Wrote(w, d, n, m) ==
    /\ w \in MetaWriters \ cut /\ d \in queue
    /\ n \in 0 .. Len(FilesOf[d]) + 1 /\ m \in 0 .. Len(FilesOf[d])
    /\ m > 0 => n = Len(FilesOf[d]) + 1
    /\ segments' = [segments EXCEPT ![w] = Puts(w, Listing(d))[n]]
    /\ fcache' = [fcache EXCEPT ![w] = @ \o SubSeq(Written(w, d), 1, m)]
    /\ groups' = Index(w, Listing(d), n)
    /\ UNCHANGED <<kind, cut>>

LEMMA WroteCaches ==
    ASSUME ScanShape, NEW w, NEW d, NEW n, NEW m, Wrote(w, d, n, m)
    PROVE  /\ fcache' \in [MetaWriters -> Seq(FileEntry)]
           /\ Len(fcache'[w]) = Len(fcache[w]) + m /\ Len(fcache[w]) \in Nat /\ m \in Nat
           /\ \A k \in 1 .. Len(fcache[w]) : fcache'[w][k] = fcache[w][k]
           /\ \A k \in 1 .. m : fcache'[w][Len(fcache[w]) + k] = Written(w, d)[k]
           /\ \A v \in MetaWriters : v # w => fcache'[v] = fcache[v]
<1> DEFINE s == Written(w, d)
           u == SubSeq(s, 1, m)
           c == fcache[w]
<1>1. w \in MetaWriters /\ d \in Directories /\ segments[w] \in Segments /\ m \in 0 .. Len(FilesOf[d])
  BY DEF Wrote, ScanShape
<1>2. s \in Seq(FileEntry) /\ Len(s) = Len(FilesOf[d]) /\ Len(s) \in Nat
  BY <1>1, WrittenOf, ListingOf
<1>3. c \in Seq(FileEntry) /\ Len(c) \in Nat
  BY <1>1, CacheFacts
<1>4. fcache' = [fcache EXCEPT ![w] = c \o u]
  BY DEF Wrote
<1>5. fcache \in [MetaWriters -> Seq(FileEntry)]
  BY DEF ScanShape
<1> HIDE DEF s, c
<1>6. u \in Seq(FileEntry) /\ Len(u) = m /\ \A k \in 1 .. m : u[k] = s[k]
  <2>1. \A k \in 1 .. m : s[k] \in FileEntry
    BY <1>1, <1>2, ElementOfSeq
  <2>2. 1 \in Int /\ m \in Int /\ m \in Nat
    BY <1>1, <1>2
  <2>3. /\ SubSeq(s, 1, m) \in Seq(FileEntry)
        /\ Len(SubSeq(s, 1, m)) = IF 1 <= m THEN m - 1 + 1 ELSE 0
        /\ \A i \in 1 .. m - 1 + 1 : SubSeq(s, 1, m)[i] = s[1 + i - 1]
    BY <2>1, <2>2, SubSeqProperties
  <2>4. QED BY <2>2, <2>3
<1> HIDE DEF u
<1>7. /\ c \o u \in Seq(FileEntry) /\ Len(c \o u) = Len(c) + Len(u)
      /\ \A i \in 1 .. Len(c) + Len(u) : (c \o u)[i] = IF i <= Len(c) THEN c[i] ELSE u[i - Len(c)]
  BY <1>3, <1>6, ConcatProperties
<1>8. fcache'[w] = c \o u
  BY <1>1, <1>4, <1>5
<1>9. fcache' \in [MetaWriters -> Seq(FileEntry)] /\ \A v \in MetaWriters : v # w => fcache'[v] = fcache[v]
  BY <1>4, <1>5, <1>7
<1>10. m \in Nat
  BY <1>1, <1>2
<1>11. \A k \in 1 .. Len(c) : fcache'[w][k] = c[k]
  <2>1. TAKE k \in 1 .. Len(c)
  <2>2. k \in 1 .. Len(c) + Len(u) /\ k <= Len(c)
    BY <1>3, <1>6, <1>10
  <2>3. QED BY <1>7, <1>8, <2>2
<1>12. \A k \in 1 .. m : fcache'[w][Len(c) + k] = s[k]
  <2>1. TAKE k \in 1 .. m
  <2>2. Len(c) + k \in 1 .. Len(c) + Len(u) /\ ~ (Len(c) + k <= Len(c)) /\ (Len(c) + k) - Len(c) = k
    BY <1>3, <1>6, <1>10
  <2>3. fcache'[w][Len(c) + k] = u[(Len(c) + k) - Len(c)]
    BY <1>7, <1>8, <2>2
  <2>4. QED BY <1>6, <2>2, <2>3
<1>13. QED BY <1>3, <1>6, <1>7, <1>8, <1>9, <1>10, <1>11, <1>12 DEF s, c

(* The records and the index go along.                                     *)
LEMMA WroteRecords ==
    ASSUME ScanShape, Cached, NEW w, NEW d, NEW n, NEW m, Wrote(w, d, n, m)
    PROVE  /\ segments' \in [MetaWriters -> Segments] /\ groups' \in Indices
           /\ \A e : e.loc[1] \in MetaWriters /\ Points(e) => Points(e)'
           /\ \A v \in MetaWriters : \A k \in 1 .. Len(fcache'[v]) :
                 fcache'[v][k].loc[1] = v /\ Points(fcache[v][k])'
           /\ \A i \in DOMAIN groups' : \A k \in 1 .. Len(groups'[i]) : Points(groups[i][k])'
<1> DEFINE xs == Listing(d)
           t == Puts(w, xs)[n]
           L == Len(FilesOf[d])
<1>1. /\ w \in MetaWriters /\ w \notin cut /\ d \in Directories /\ cut' = cut /\ kind' = kind
      /\ segments[w] \in Segments /\ n \in 0 .. L + 1 /\ m \in 0 .. L /\ (m > 0 => n = L + 1)
  BY DEF Wrote, ScanShape
<1>2. xs \in Seq(Things) /\ Len(xs) = L + 1 /\ L \in Nat
  BY <1>1, ListingOf
<1>3. n \in 0 .. Len(xs) /\ 0 \in 0 .. Len(xs)
  BY <1>1, <1>2
<1> HIDE DEF xs, L
<1>4. t \in Segments /\ Grows(segments[w], t)
  BY <1>1, <1>2, <1>3, PutsOf, PutsGrow
<1>5. segments' = [segments EXCEPT ![w] = t]
  BY DEF Wrote, xs
<1> HIDE DEF t
<1>6. segments' \in [MetaWriters -> Segments] /\ segments'[w] = t
  BY <1>1, <1>4, <1>5 DEF ScanShape
<1>7. ASSUME NEW e, e.loc[1] \in MetaWriters, Points(e) PROVE Points(e)'
  BY <1>1, <1>4, <1>5, <1>7, PointsKept
<1>8. ASSUME NEW e, e.loc[1] = w, Leads(t, e.loc, e.id) PROVE Points(e)'
  BY <1>4, <1>6, <1>8, LeadsAllows DEF Points
<1>9. ASSUME NEW v \in MetaWriters, NEW k \in 1 .. Len(fcache'[v])
      PROVE  fcache'[v][k].loc[1] = v /\ Points(fcache[v][k])'
  <2>1. PICK e : e = fcache'[v][k]
    OBVIOUS
  <2>2. ASSUME NEW j \in 1 .. Len(fcache[v]), fcache'[v][k] = fcache[v][j]
        PROVE  e.loc[1] = v /\ Points(e)'
    <3>1. e.loc[1] = v /\ Points(e)
      BY <2>1, <2>2 DEF Cached
    <3>2. QED BY <1>7, <3>1
  <2>3. CASE v # w
    BY <2>1, <2>2, <2>3, WroteCaches
  <2>4. CASE v = w
    <3>1. CASE k \in 1 .. Len(fcache[w])
      BY <2>1, <2>2, <2>4, <3>1, WroteCaches
    <3>2. CASE k \notin 1 .. Len(fcache[w])
      <4>1. PICK j : j = k - Len(fcache[w])
        OBVIOUS
      <4>2. j \in 1 .. m /\ k = Len(fcache[w]) + j /\ j \in 1 .. L /\ n = L + 1
        BY <1>1, <1>2, <2>4, <3>2, <4>1, WroteCaches
      <4>3. e = Written(w, d)[j]
        BY <2>1, <2>4, <4>2, WroteCaches
      <4>4. e.loc[1] = w /\ Leads(t, e.loc, e.id)
        BY <1>1, <4>2, <4>3, WrittenOf DEF t, xs, L
      <4>5. Points(e)'
        BY <1>8, <4>4
      <4>6. QED BY <2>1, <2>4, <4>4, <4>5
    <3>3. QED BY <3>1, <3>2
  <2>5. e.loc[1] = v /\ Points(e)'
    BY <2>1, <2>2, <2>3, <2>4
  <2>6. QED BY <2>1, <2>5
<1>10. IF kind = "native" THEN Built(w, d, n, groups') ELSE groups' = groups
  <2>1. groups \in Indices /\ groups' = Index(w, xs, n)
    BY DEF ScanShape, Wrote, xs
  <2>2. n \in 0 .. Len(Listing(d))
    BY <1>3 DEF xs
  <2>3. QED BY <1>1, <2>1, <2>2, IndexOf DEF xs
<1>11. groups' \in Indices
  BY <1>10 DEF Built, ScanShape
<1>12. ASSUME NEW i \in DOMAIN groups', NEW k \in 1 .. Len(groups'[i]) PROVE Points(groups[i][k])'
  <2>1. PICK e : e = groups'[i][k]
    OBVIOUS
  <2>2. CASE i \in DOMAIN groups /\ k \in 1 .. Len(groups[i]) /\ groups'[i][k] = groups[i][k]
    <3>1. Points(e)
      BY <2>1, <2>2 DEF Cached
    <3>2. e.loc[1] \in MetaWriters
      <4>1. e \in FileEntry
        BY <2>1, <2>2, IndexFacts DEF ScanShape
      <4>2. QED BY <4>1 DEF FileEntry, Locators
    <3>3. QED BY <1>7, <2>1, <3>1, <3>2
  <2>3. CASE \E j \in 2 .. n : groups'[i][k] = CacheEntry(w, xs, j)
    <3>1. PICK j \in 2 .. n : e = CacheEntry(w, xs, j)
      BY <2>1, <2>3
    <3>2. j \in 2 .. Len(xs) /\ j <= n /\ n \in 0 .. Len(xs)
      BY <1>2, <1>3
    <3>3. e.loc[1] = w /\ Leads(t, e.loc, e.id)
      BY <1>1, <3>1, <3>2, CacheEntryOf DEF t, xs
    <3>4. QED BY <1>8, <2>1, <3>3
  <2>4. QED BY <1>10, <2>2, <2>3 DEF Built, Kept, xs
<1>13. QED BY <1>6, <1>7, <1>9, <1>11, <1>12

LEMMA FirstOf ==
    ASSUME NEW S, NEW s \in Seq(S), NEW n \in 0 .. Len(s)
    PROVE  /\ SubSeq(s, 1, n) \in Seq(S) /\ Len(SubSeq(s, 1, n)) = n /\ Len(s) \in Nat /\ n \in Nat
           /\ \A k \in 1 .. n : k \in 1 .. Len(s) /\ SubSeq(s, 1, n)[k] = s[k]
<1>1. Len(s) \in Nat /\ n \in Nat /\ 1 \in Int /\ n \in Int
  BY LenProperties
<1>2. \A k \in 1 .. n : k \in 1 .. Len(s) /\ s[k] \in S
  BY <1>1, ElementOfSeq
<1>3. /\ SubSeq(s, 1, n) \in Seq(S)
      /\ Len(SubSeq(s, 1, n)) = IF 1 <= n THEN n - 1 + 1 ELSE 0
      /\ \A i \in 1 .. n - 1 + 1 : SubSeq(s, 1, n)[i] = s[1 + i - 1]
  BY <1>1, <1>2, SubSeqProperties
<1>4. QED BY <1>1, <1>2, <1>3

LEMMA SliceKept ==
    ASSUME ScanShape, NEW w, NEW d, NEW n, NEW m, Wrote(w, d, n, m),
           NEW v \in MetaWriters, NEW e \in DirEntry, SliceRight(v, e)
    PROVE  SliceRight(v, e)'
<1>1. e.from \in Nat /\ e.count \in Nat
  BY DEF DirEntry
<1>2. /\ Len(fcache[w]) \in Nat /\ m \in Nat /\ Len(fcache'[w]) = Len(fcache[w]) + m
      /\ \A k \in 1 .. Len(fcache[w]) : fcache'[w][k] = fcache[w][k]
      /\ \A u \in MetaWriters : u # w => fcache'[u] = fcache[u]
      /\ cut' = cut /\ w \notin cut
  <2>1. cut' = cut /\ w \notin cut
    BY DEF Wrote
  <2>2. QED BY <2>1, WroteCaches
<1>3. CASE v # w
  <2>1. fcache'[v] = fcache[v]
    BY <1>2, <1>3
  <2>2. QED BY <1>2, <2>1 DEF SliceRight, InSlice
<1>4. CASE v = w
  <2>1. e.from + e.count <= Len(fcache[w])
    BY <1>2, <1>4 DEF SliceRight
  <2>2. \A k \in 1 .. e.count : e.from + k \in 1 .. Len(fcache[w]) /\ InSlice(v, e, k) /\ InSlice(v, e, k)'
    BY <1>1, <1>2, <1>4, <2>1 DEF InSlice
  <2>3. \A k \in 1 .. e.count : fcache'[v][e.from + k] = fcache[v][e.from + k]
    BY <1>2, <1>4, <2>2
  <2>4. /\ \A k \in 1 .. e.count : fcache[v][e.from + k].id \in Range(FilesOf[e.id])
        /\ \A j, k \in 1 .. e.count : fcache[v][e.from + j].id = fcache[v][e.from + k].id => j = k
        /\ \A f \in Range(FilesOf[e.id]) : \E k \in 1 .. e.count : fcache[v][e.from + k].id = f
    BY <1>2, <1>4, <2>2 DEF SliceRight
  <2>5. e.from + e.count <= Len(fcache'[v])
    BY <1>1, <1>2, <1>4, <2>1
  <2>6. QED BY <2>2, <2>3, <2>4, <2>5 DEF SliceRight
<1>5. QED BY <1>3, <1>4

(* Directories that are cached stay so.                                    *)
LEMMA DirsKept ==
    ASSUME ScanShape, Cached, NEW w, NEW d, NEW n, NEW m, Wrote(w, d, n, m)
    PROVE  \A v \in MetaWriters : \A k \in 1 .. Len(dcache[v]) : \A e : e = dcache[v][k] => DirRight(v, e)'
<1>1. SUFFICES ASSUME NEW v \in MetaWriters, NEW k \in 1 .. Len(dcache[v]), NEW e, e = dcache[v][k]
               PROVE  DirRight(v, e)'
  OBVIOUS
<1>2. DirRight(v, e) /\ e \in DirEntry
  BY <1>1, CacheFacts DEF Cached
<1>3. e.loc[1] = v /\ Points(e) /\ e.count = Len(FilesOf[e.id]) /\ SliceRight(v, e)
  BY <1>2 DEF DirRight
<1>4. Points(e)'
  BY <1>3, WroteRecords
<1>5. SliceRight(v, e)'
  BY <1>2, <1>3, SliceKept
<1>6. QED BY <1>3, <1>4, <1>5 DEF DirRight

(* The entry of a listing that is written whole.                           *)
LEMMA NewDir ==
    ASSUME ScanShape, Cached, NEW w, NEW d, Wrote(w, d, Len(FilesOf[d]) + 1, Len(FilesOf[d])),
           NEW e, e = Slice(w, d, Locator(w, Listing(d), 1))
    PROVE  e \in DirEntry /\ e.id = d /\ DirRight(w, e)'
<1> DEFINE n == Len(FilesOf[d])
           xs == Listing(d)
           t == Puts(w, xs)[n + 1]
<1>1. /\ w \in MetaWriters /\ w \notin cut /\ d \in Directories /\ cut' = cut
      /\ segments[w] \in Segments /\ segments' = [segments EXCEPT ![w] = t]
  BY DEF Wrote, ScanShape
<1>2. xs \in Seq(Things) /\ Len(xs) = n + 1 /\ n \in Nat /\ xs[1] = d
  BY <1>1, ListingOf
<1> HIDE DEF n, xs
<1>3. 1 \in 1 .. Len(xs) /\ n + 1 \in 0 .. Len(xs) /\ 1 <= n + 1
  BY <1>2
<1>4. Locator(w, xs, 1) \in Locators /\ Locator(w, xs, 1)[1] = w /\ Leads(t, Locator(w, xs, 1), d)
  BY <1>1, <1>2, <1>3, LocatorOf, PutsGrow
<1>5. t \in Segments
  BY <1>1, <1>2, <1>3, PutsOf
<1> HIDE DEF t
<1>6. e = [id |-> d, loc |-> Locator(w, xs, 1), count |-> n, from |-> Len(fcache[w])]
  BY DEF Slice, SliceStart, n, xs
<1>7. e.id = d /\ e.loc = Locator(w, xs, 1) /\ e.count = n /\ e.from = Len(fcache[w]) /\ e \in DirEntry
  <2>1. Len(fcache[w]) \in Nat
    BY <1>1, CacheFacts
  <2>2. QED BY <1>1, <1>2, <1>4, <1>6, <2>1 DEF DirEntry
<1>8. Points(e)'
  <2>1. segments'[w] = t
    BY <1>1 DEF ScanShape
  <2>2. QED BY <1>4, <1>5, <1>7, <2>1, LeadsAllows DEF Points
<1>9. /\ Len(fcache[w]) \in Nat /\ Len(fcache'[w]) = Len(fcache[w]) + n
      /\ \A k \in 1 .. n : fcache'[w][Len(fcache[w]) + k] = Written(w, d)[k]
  <2>1. PICK m : m = n
    OBVIOUS
  <2>2. Wrote(w, d, m + 1, m)
    BY <2>1 DEF n
  <2> HIDE DEF n
  <2>3. /\ Len(fcache[w]) \in Nat /\ Len(fcache'[w]) = Len(fcache[w]) + m
        /\ \A k \in 1 .. m : fcache'[w][Len(fcache[w]) + k] = Written(w, d)[k]
    BY <2>2, WroteCaches
  <2>4. QED BY <2>1, <2>3
<1>10. /\ \A k \in 1 .. n : Written(w, d)[k].id \in Range(FilesOf[d])
       /\ \A j, k \in 1 .. n : Written(w, d)[j].id = Written(w, d)[k].id => j = k
       /\ \A f \in Range(FilesOf[d]) : \E k \in 1 .. n : Written(w, d)[k].id = f
  BY <1>1, WrittenOf DEF n
<1>11. SliceRight(w, e)'
  <2>1. e.from + e.count <= Len(fcache'[w])
    BY <1>2, <1>7, <1>9
  <2>2. \A k \in 1 .. e.count : fcache'[w][e.from + k] = Written(w, d)[k]
    BY <1>7, <1>9
  <2>3. \A k \in 1 .. e.count : fcache'[w][e.from + k].id \in Range(FilesOf[e.id])
    BY <1>7, <1>10, <2>2
  <2>4. ASSUME NEW j \in 1 .. e.count, NEW k \in 1 .. e.count,
               fcache'[w][e.from + j].id = fcache'[w][e.from + k].id
        PROVE  j = k
    <3>1. Written(w, d)[j].id = Written(w, d)[k].id /\ j \in 1 .. n /\ k \in 1 .. n
      BY <1>7, <2>2, <2>4
    <3>2. QED BY <1>10, <3>1
  <2>5. \A f \in Range(FilesOf[e.id]) : \E k \in 1 .. e.count : fcache'[w][e.from + k].id = f
    <3>1. TAKE f \in Range(FilesOf[e.id])
    <3>2. PICK k \in 1 .. n : Written(w, d)[k].id = f
      BY <1>7, <1>10
    <3>3. k \in 1 .. e.count /\ fcache'[w][e.from + k].id = f
      BY <1>7, <2>2, <3>2
    <3>4. QED BY <3>3
  <2>6. QED BY <2>1, <2>3, <2>4, <2>5 DEF SliceRight
<1>12. QED BY <1>1, <1>4, <1>7, <1>8, <1>11 DEF DirRight, n

(* A step of a writer: the listing is cached, or dropped.                  *)
CachesIt(w, d) ==
    /\ Wrote(w, d, Len(FilesOf[d]) + 1, Len(FilesOf[d]))
    /\ dcache' = [dcache EXCEPT ![w] = Append(@, Slice(w, d, Locator(w, Listing(d), 1)))]
    /\ queue' = queue \ {d} /\ UNCHANGED <<up, dropped>>

DropsIt(w, d) ==
    /\ \E n, m : Wrote(w, d, n, m)
    /\ queue' = queue \ {d} /\ dropped' = dropped \cup {d} /\ up' = up \ {w} /\ UNCHANGED dcache

LEMMA WritesOrDrops ==
    ASSUME ScanShape, NEW w \in MetaWriters, NEW d \in Directories, WriteListing(w, d)
    PROVE  CachesIt(w, d) \/ DropsIt(w, d)
<1> DEFINE L == Len(FilesOf[d])
           xs == <<d>> \o FilesOf[d]
           s == Sorted([k \in 1 .. Len(FilesOf[d]) |-> CacheEntry(w, xs, k + 1)])
<1>1. /\ segments[w] \in Segments /\ w \notin cut /\ d \in queue /\ queue' = queue \ {d}
      /\ UNCHANGED <<kind, cut>>
  BY DEF WriteListing, ScanShape
<1>2. xs = Listing(d) /\ s = Written(w, d)
  BY DEF Listing, Written
<1>3. Len(Listing(d)) = L + 1 /\ L \in Nat
  BY ListingOf
<1>4. Written(w, d) \in Seq(FileEntry) /\ Len(Written(w, d)) = L
  BY <1>1, WrittenOf
<1>5. \/ /\ segments' = [segments EXCEPT ![w] = Puts(w, xs)[Len(xs)]]
         /\ fcache' = [fcache EXCEPT ![w] = @ \o s]
         /\ dcache' = [dcache EXCEPT ![w] = Append(@, Slice(w, d, Locator(w, xs, 1)))]
         /\ groups' = Index(w, xs, Len(xs))
         /\ UNCHANGED <<up, dropped>>
      \/ \E n \in 0 .. Len(xs), m \in 0 .. Len(s) :
            /\ m > 0 => n = Len(xs)
            /\ segments' = [segments EXCEPT ![w] = Puts(w, xs)[n]]
            /\ fcache' = [fcache EXCEPT ![w] = @ \o SubSeq(s, 1, m)]
            /\ groups' = Index(w, xs, n)
            /\ up' = up \ {w} /\ dropped' = dropped \cup {d}
            /\ UNCHANGED dcache
  BY DEF WriteListing
<1> HIDE DEF xs, s
<1>6. CASE /\ segments' = [segments EXCEPT ![w] = Puts(w, xs)[Len(xs)]]
           /\ fcache' = [fcache EXCEPT ![w] = @ \o s]
           /\ dcache' = [dcache EXCEPT ![w] = Append(@, Slice(w, d, Locator(w, xs, 1)))]
           /\ groups' = Index(w, xs, Len(xs))
           /\ UNCHANGED <<up, dropped>>
  <2>1. SubSeq(Written(w, d), 1, L) = Written(w, d)
    BY <1>4, SubSeqFull
  <2>2. fcache' = [fcache EXCEPT ![w] = @ \o SubSeq(Written(w, d), 1, L)]
    BY <1>2, <1>6, <2>1
  <2>3. Wrote(w, d, L + 1, L)
    <3>1. PICK l : l = L
      OBVIOUS
    <3>2. l + 1 \in 0 .. l + 1 /\ l \in 0 .. l
      BY <1>3, <3>1
    <3>3. segments' = [segments EXCEPT ![w] = Puts(w, Listing(d))[l + 1]]
      BY <1>2, <1>3, <1>6, <3>1
    <3>4. groups' = Index(w, Listing(d), l + 1)
      BY <1>2, <1>3, <1>6, <3>1
    <3>5. Wrote(w, d, l + 1, l)
      BY <1>1, <2>2, <3>1, <3>2, <3>3, <3>4 DEF Wrote
    <3>6. QED BY <3>1, <3>5
  <2>4. QED BY <1>1, <1>2, <1>6, <2>3 DEF CachesIt
<1>7. CASE \E n \in 0 .. Len(xs), m \in 0 .. Len(s) :
              /\ m > 0 => n = Len(xs)
              /\ segments' = [segments EXCEPT ![w] = Puts(w, xs)[n]]
              /\ fcache' = [fcache EXCEPT ![w] = @ \o SubSeq(s, 1, m)]
              /\ groups' = Index(w, xs, n)
              /\ up' = up \ {w} /\ dropped' = dropped \cup {d}
              /\ UNCHANGED dcache
  <2>1. PICK n \in 0 .. Len(xs), m \in 0 .. Len(s) :
              /\ m > 0 => n = Len(xs)
              /\ segments' = [segments EXCEPT ![w] = Puts(w, xs)[n]]
              /\ fcache' = [fcache EXCEPT ![w] = @ \o SubSeq(s, 1, m)]
              /\ groups' = Index(w, xs, n)
              /\ up' = up \ {w} /\ dropped' = dropped \cup {d}
              /\ UNCHANGED dcache
    BY <1>7
  <2>2. Wrote(w, d, n, m)
    BY <1>1, <1>2, <1>3, <1>4, <2>1 DEF Wrote
  <2>3. QED BY <1>1, <2>1, <2>2 DEF DropsIt
<1>8. QED BY <1>5, <1>6, <1>7

(* What a writer does with a listing does not touch the other ones.        *)
LEMMA WroteGroups ==
    ASSUME ScanInv, NEW w, NEW d, NEW n, NEW m, Wrote(w, d, n, m)
    PROVE  /\ Distinct(groups)'
           /\ \A e \in Directories : e \in queue /\ e # d => Fresh(e)'
           /\ kind = "native" => \A f : Has(groups, f) => Has(groups', f)
           /\ kind = "native" /\ n = Len(FilesOf[d]) + 1 =>
                 \A f \in Range(FilesOf[d]) : Links(f) > 1 => Has(groups', f)
<1>1. /\ ScanShape /\ Grouped /\ w \in MetaWriters /\ d \in queue /\ d \in Directories
      /\ segments[w] \in Segments /\ groups \in Indices
      /\ Distinct(groups) /\ Fresh(d) /\ \A e \in queue : Fresh(e)
  BY DEF ScanInv, ScanShape, Grouped, Wrote
<1>2. n \in 0 .. Len(Listing(d)) /\ Len(Listing(d)) = Len(FilesOf[d]) + 1 /\ Len(FilesOf[d]) \in Nat
  BY <1>1, ListingOf DEF Wrote
<1>3. IF kind = "native" THEN Built(w, d, n, groups') ELSE groups' = groups
  <2>1. groups' = Index(w, Listing(d), n)
    BY DEF Wrote
  <2>2. QED BY <1>1, <1>2, <2>1, IndexOf
<1>4. Distinct(groups)'
  <2>1. CASE kind = "native"
    BY <1>1, <1>3, <2>1 DEF Built, Distinct
  <2>2. CASE kind # "native"
    BY <1>1, <1>3, <2>2 DEF Distinct
  <2>3. QED BY <2>1, <2>2
<1>5. ASSUME NEW e \in Directories, e \in queue, e # d PROVE Fresh(e)'
  <2>1. SUFFICES ASSUME NEW f \in Range(FilesOf[e]), Has(groups', f) PROVE FALSE
    BY DEF Fresh, Has
  <2>2. ~ Has(groups, f)
    BY <1>1, <1>5, <2>1 DEF Fresh
  <2>3. kind = "native"
    BY <1>3, <2>1, <2>2
  <2>4. PICK i \in DOMAIN groups' : \E l \in 1 .. Len(groups'[i]) : groups'[i][l].id = f
    BY <2>1 DEF Has
  <2>5. PICK l \in 1 .. Len(groups'[i]) : groups'[i][l].id = f
    BY <2>4
  <2>6. ~ Kept(groups, groups', i, l)
    BY <2>2, <2>5 DEF Kept, Has
  <2>7. PICK j \in 2 .. n : groups'[i][l] = CacheEntry(w, Listing(d), j)
    BY <1>3, <2>3, <2>6 DEF Built
  <2>8. j \in 2 .. Len(Listing(d))
    BY <1>2
  <2>9. f \in Range(FilesOf[d])
    BY <1>1, <2>5, <2>7, <2>8, CacheEntryOf
  <2>10. Range(FilesOf[d]) \cap Range(FilesOf[e]) # {}
    BY <2>1, <2>9
  <2>11. QED BY <1>1, <1>5, <2>10, ListingsAssumption
<1>6. ASSUME kind = "native" PROVE \A f : Has(groups, f) => Has(groups', f)
  BY <1>3, <1>6 DEF Built
<1>7. ASSUME kind = "native", n = Len(FilesOf[d]) + 1, NEW f \in Range(FilesOf[d]), Links(f) > 1
      PROVE  Has(groups', f)
  <2>1. PICK k \in 1 .. Len(FilesOf[d]) : FilesOf[d][k] = f
    BY <1>1, ListingOf
  <2>2. k + 1 \in 2 .. n /\ Listing(d)[k + 1] = f
    BY <1>1, <1>2, <1>7, <2>1, ListingOf
  <2>3. PICK j : j = k + 1
    OBVIOUS
  <2>4. j \in 2 .. n /\ Listing(d)[j] = f
    BY <2>2, <2>3
  <2>5. \A i \in 2 .. n : Links(Listing(d)[i]) > 1 => Has(groups', Listing(d)[i])
    BY <1>3, <1>7 DEF Built
  <2>6. QED BY <1>7, <2>4, <2>5
<1>8. QED BY <1>4, <1>5, <1>6, <1>7

(* One more entry in a directory cache.                                    *)
OldDir(v, k) == k \in 1 .. Len(dcache[v]) /\ k \in 1 .. Len(dcache'[v]) /\ dcache'[v][k] = dcache[v][k]

LEMMA MoreDirs ==
    ASSUME ScanShape, NEW w \in MetaWriters, NEW e \in DirEntry,
           dcache' = [dcache EXCEPT ![w] = Append(@, e)]
    PROVE  /\ dcache' \in [MetaWriters -> Seq(DirEntry)]
           /\ \E z : z \in 1 .. Len(dcache'[w]) /\ z = Len(dcache[w]) + 1 /\ dcache'[w][z] = e
           /\ \A v \in MetaWriters : \A k \in 1 .. Len(dcache'[v]) :
                 OldDir(v, k) \/ (v = w /\ k = Len(dcache[w]) + 1 /\ dcache'[v][k] = e)
           /\ \A v \in MetaWriters : \A k \in 1 .. Len(dcache[v]) : OldDir(v, k)
<1> DEFINE s == dcache[w]
           t == Append(s, e)
<1>1. s \in Seq(DirEntry) /\ Len(s) \in Nat
  BY CacheFacts
<1>2. dcache' = [dcache EXCEPT ![w] = t] /\ dcache \in [MetaWriters -> Seq(DirEntry)]
  BY DEF ScanShape
<1> HIDE DEF s
<1>3. /\ t \in Seq(DirEntry) /\ Len(t) = Len(s) + 1 /\ \A k \in 1 .. Len(s) : t[k] = s[k]
      /\ t[Len(s) + 1] = e
  BY <1>1, AppendProperties
<1> HIDE DEF t
<1>4. dcache'[w] = t /\ \A v \in MetaWriters : v # w => dcache'[v] = dcache[v]
  BY <1>2
<1>5. dcache' \in [MetaWriters -> Seq(DirEntry)]
  BY <1>2, <1>3
<1>6. Len(s) + 1 \in 1 .. Len(t) /\ \A k \in 1 .. Len(t) : k \in 1 .. Len(s) \/ k = Len(s) + 1
  BY <1>1, <1>3
<1>7. \A k \in 1 .. Len(s) : k \in 1 .. Len(t)
  BY <1>1, <1>3
<1>8. \A v \in MetaWriters : \A k \in 1 .. Len(dcache[v]) : OldDir(v, k)
  <2>1. TAKE v \in MetaWriters
  <2>2. TAKE k \in 1 .. Len(dcache[v])
  <2>3. CASE v = w
    BY <1>3, <1>4, <1>7, <2>3 DEF OldDir, s
  <2>4. CASE v # w
    BY <1>4, <2>4 DEF OldDir
  <2>5. QED BY <2>3, <2>4
<1>9. \A v \in MetaWriters : \A k \in 1 .. Len(dcache'[v]) :
         OldDir(v, k) \/ (v = w /\ k = Len(s) + 1 /\ dcache'[v][k] = e)
  <2>1. TAKE v \in MetaWriters
  <2>2. TAKE k \in 1 .. Len(dcache'[v])
  <2>3. CASE v = w
    <3>1. k \in 1 .. Len(s) \/ k = Len(s) + 1
      BY <1>4, <1>6, <2>3
    <3>2. CASE k \in 1 .. Len(s)
      BY <1>8, <2>3, <3>2 DEF s
    <3>3. CASE k = Len(s) + 1
      BY <1>3, <1>4, <2>3, <3>3
    <3>4. QED BY <3>1, <3>2, <3>3
  <2>4. CASE v # w
    BY <1>4, <2>4 DEF OldDir
  <2>5. QED BY <2>3, <2>4
<1>10. \E z : z \in 1 .. Len(dcache'[w]) /\ z = Len(s) + 1 /\ dcache'[w][z] = e
  BY <1>3, <1>4, <1>6
<1>11. QED BY <1>5, <1>8, <1>9, <1>10 DEF s

LEMMA CachesInv ==
    ASSUME ScanInv, NEW w \in MetaWriters, NEW d \in Directories, CachesIt(w, d)
    PROVE  ScanInv'
<1>1. PICK n, m : n = Len(FilesOf[d]) + 1 /\ m = Len(FilesOf[d])
  OBVIOUS
<1>2. /\ ScanShape /\ Cached /\ Apart /\ Grouped /\ Wrote(w, d, n, m)
      /\ queue' = queue \ {d} /\ up' = up /\ dropped' = dropped
  BY <1>1 DEF ScanInv, CachesIt
<1>3. kind' = kind /\ cut' = cut /\ d \in queue
  BY <1>2 DEF Wrote
<1>4. PICK e : e = Slice(w, d, Locator(w, Listing(d), 1))
  OBVIOUS
<1>5. e \in DirEntry /\ e.id = d /\ DirRight(w, e)'
  BY <1>1, <1>2, <1>4, NewDir
<1>6. /\ dcache' \in [MetaWriters -> Seq(DirEntry)]
      /\ \E z : z \in 1 .. Len(dcache'[w]) /\ z = Len(dcache[w]) + 1 /\ dcache'[w][z] = e
      /\ \A v \in MetaWriters : \A k \in 1 .. Len(dcache'[v]) :
            OldDir(v, k) \/ (v = w /\ k = Len(dcache[w]) + 1 /\ dcache'[v][k] = e)
      /\ \A v \in MetaWriters : \A k \in 1 .. Len(dcache[v]) : OldDir(v, k)
  <2>1. dcache' = [dcache EXCEPT ![w] = Append(@, e)]
    BY <1>4 DEF CachesIt
  <2>2. QED BY <1>2, <1>5, <2>1, MoreDirs
<1>7. ScanShape'
  <2>1. segments' \in [MetaWriters -> Segments] /\ groups' \in Indices
    BY <1>2, WroteRecords
  <2>2. fcache' \in [MetaWriters -> Seq(FileEntry)]
    BY <1>2, WroteCaches
  <2>3. QED BY <1>2, <1>3, <1>6, <2>1, <2>2 DEF ScanShape
<1>8. Cached'
  <2>1. ASSUME NEW v \in MetaWriters, NEW k \in 1 .. Len(dcache'[v]) PROVE DirRight(v, dcache[v][k])'
    <3>1. PICK x : x = dcache'[v][k]
      OBVIOUS
    <3>2. CASE OldDir(v, k)
      <4>1. DirRight(v, x)'
        BY <1>2, <3>1, <3>2, DirsKept DEF OldDir
      <4>2. QED BY <3>1, <4>1
    <3>3. CASE v = w /\ dcache'[v][k] = e
      BY <1>5, <3>3
    <3>4. QED BY <1>6, <3>2, <3>3
  <2>2. /\ \A v \in MetaWriters : \A k \in 1 .. Len(fcache'[v]) :
              fcache'[v][k].loc[1] = v /\ Points(fcache[v][k])'
        /\ \A i \in DOMAIN groups' : \A k \in 1 .. Len(groups'[i]) : Points(groups[i][k])'
    BY <1>2, WroteRecords
  <2>3. QED BY <2>1, <2>2 DEF Cached
<1>9. Apart'
  <2>1. ASSUME NEW u \in MetaWriters, NEW v \in MetaWriters,
               NEW j \in 1 .. Len(dcache'[u]), NEW k \in 1 .. Len(dcache'[v]),
               dcache'[u][j].id = dcache'[v][k].id
        PROVE  u = v /\ j = k
    <3>1. OldDir(u, j) \/ (u = w /\ j = Len(dcache[w]) + 1 /\ dcache'[u][j] = e)
      BY <1>6
    <3>2. OldDir(v, k) \/ (v = w /\ k = Len(dcache[w]) + 1 /\ dcache'[v][k] = e)
      BY <1>6
    <3>3. \A x \in MetaWriters : \A i : OldDir(x, i) => dcache'[x][i].id # d
      BY <1>2, <1>3 DEF Apart, OldDir
    <3>4. CASE OldDir(u, j) /\ OldDir(v, k)
      BY <1>2, <2>1, <3>4 DEF Apart, OldDir
    <3>5. CASE ~ (OldDir(u, j) /\ OldDir(v, k))
      BY <1>5, <2>1, <3>1, <3>2, <3>3, <3>5
    <3>6. QED BY <3>4, <3>5
  <2>2. ASSUME NEW v \in MetaWriters, NEW k \in 1 .. Len(dcache'[v])
        PROVE  dcache'[v][k].id \notin queue' \cup dropped'
    <3>1. CASE OldDir(v, k)
      BY <1>2, <3>1 DEF Apart, OldDir
    <3>2. CASE dcache'[v][k] = e
      BY <1>2, <1>3, <1>5, <3>2 DEF ScanShape
    <3>3. QED BY <1>6, <3>1, <3>2
  <2>3. ASSUME cut' = {}, NEW x \in Directories \ (queue' \cup dropped')
        PROVE  \E v \in MetaWriters : \E k \in 1 .. Len(dcache'[v]) : dcache'[v][k].id = x
    <3>1. CASE x = d
      BY <1>5, <1>6, <3>1
    <3>2. CASE x # d
      <4>1. PICK v \in MetaWriters : \E k \in 1 .. Len(dcache[v]) : dcache[v][k].id = x
        BY <1>2, <1>3, <2>3, <3>2 DEF Apart
      <4>2. PICK k \in 1 .. Len(dcache[v]) : dcache[v][k].id = x
        BY <4>1
      <4>3. QED BY <1>6, <4>2 DEF OldDir
    <3>3. QED BY <3>1, <3>2
  <2>4. QED BY <2>1, <2>2, <2>3 DEF Apart
<1>10. Grouped'
  <2>1. /\ Distinct(groups)'
        /\ \A x \in Directories : x \in queue /\ x # d => Fresh(x)'
        /\ kind = "native" => \A f : Has(groups, f) => Has(groups', f)
        /\ kind = "native" => \A f \in Range(FilesOf[d]) : Links(f) > 1 => Has(groups', f)
    BY <1>1, <1>2, WroteGroups
  <2>2. \A x \in queue' : Fresh(x)'
    BY <1>2, <2>1 DEF ScanShape
  <2>3. ASSUME kind' = "native", NEW x \in Directories \ (queue' \cup dropped'),
               NEW f \in Range(FilesOf[x]), Links(f) > 1
        PROVE  Has(groups', f)
    <3>1. CASE x = d
      BY <1>3, <2>1, <2>3, <3>1
    <3>2. CASE x # d
      <4>1. Has(groups, f)
        BY <1>2, <1>3, <2>3, <3>2 DEF Grouped
      <4>2. QED BY <1>3, <2>1, <2>3, <4>1
    <3>3. QED BY <3>1, <3>2
  <2>4. QED BY <2>1, <2>2, <2>3 DEF Grouped, Has, Links
<1>11. QED BY <1>7, <1>8, <1>9, <1>10 DEF ScanInv

LEMMA DropsInv ==
    ASSUME ScanInv, NEW w \in MetaWriters, NEW d \in Directories, DropsIt(w, d)
    PROVE  ScanInv'
<1>1. PICK n, m : Wrote(w, d, n, m)
  BY DEF DropsIt
<1>2. /\ ScanShape /\ Cached /\ Apart /\ Grouped
      /\ queue' = queue \ {d} /\ up' = up \ {w} /\ dropped' = dropped \cup {d} /\ dcache' = dcache
  BY DEF ScanInv, DropsIt
<1>3. kind' = kind /\ cut' = cut /\ d \in queue
  BY <1>1 DEF Wrote
<1>4. ScanShape'
  <2>1. segments' \in [MetaWriters -> Segments] /\ groups' \in Indices
    BY <1>1, <1>2, WroteRecords
  <2>2. fcache' \in [MetaWriters -> Seq(FileEntry)]
    BY <1>1, <1>2, WroteCaches
  <2>3. QED BY <1>2, <1>3, <2>1, <2>2 DEF ScanShape
<1>5. Cached'
  <2>1. ASSUME NEW v \in MetaWriters, NEW k \in 1 .. Len(dcache'[v]) PROVE DirRight(v, dcache[v][k])'
    <3>1. PICK x : x = dcache'[v][k]
      OBVIOUS
    <3>2. DirRight(v, x)'
      BY <1>1, <1>2, <3>1, DirsKept
    <3>3. QED BY <3>1, <3>2
  <2>2. /\ \A v \in MetaWriters : \A k \in 1 .. Len(fcache'[v]) :
              fcache'[v][k].loc[1] = v /\ Points(fcache[v][k])'
        /\ \A i \in DOMAIN groups' : \A k \in 1 .. Len(groups'[i]) : Points(groups[i][k])'
    BY <1>1, <1>2, WroteRecords
  <2>3. QED BY <2>1, <2>2 DEF Cached
<1>6. Apart'
  <2>1. \A v \in MetaWriters : \A k \in 1 .. Len(dcache[v]) : dcache[v][k].id \notin queue' \cup dropped'
    BY <1>2, <1>3 DEF Apart
  <2>2. Directories \ (queue' \cup dropped') \subseteq Directories \ (queue \cup dropped)
    BY <1>2, <1>3
  <2>3. QED BY <1>2, <1>3, <2>1, <2>2 DEF Apart
<1>7. Grouped'
  <2>1. /\ Distinct(groups)'
        /\ \A x \in Directories : x \in queue /\ x # d => Fresh(x)'
        /\ kind = "native" => \A f : Has(groups, f) => Has(groups', f)
    BY <1>1, WroteGroups
  <2>2. \A x \in queue' : Fresh(x)'
    BY <1>2, <2>1 DEF ScanShape
  <2>3. ASSUME kind' = "native", NEW x \in Directories \ (queue' \cup dropped'),
               NEW f \in Range(FilesOf[x]), Links(f) > 1
        PROVE  Has(groups', f)
    <3>1. Has(groups, f)
      BY <1>2, <1>3, <2>3 DEF Grouped
    <3>2. QED BY <1>3, <2>1, <2>3, <3>1
  <2>4. QED BY <2>1, <2>2, <2>3 DEF Grouped, Has, Links
<1>8. QED BY <1>4, <1>5, <1>6, <1>7 DEF ScanInv

(* A writer that lost the end of its files.                                *)
Shrunk(w) ==
    /\ segments' \in [MetaWriters -> Segments]
    /\ dcache' \in [MetaWriters -> Seq(DirEntry)] /\ fcache' \in [MetaWriters -> Seq(FileEntry)]
    /\ \A v \in MetaWriters : Prefix(dcache'[v], dcache[v]) /\ Prefix(fcache'[v], fcache[v])
    /\ \A v \in MetaWriters : v # w => segments'[v] = segments[v] /\ fcache'[v] = fcache[v]
    /\ \A loc, x : Allows(segments[w], loc, x) => Allows(segments'[w], loc, x)
    /\ cut' = cut \cup {w} /\ up' = up \ {w} /\ UNCHANGED <<kind, queue, dropped, groups>>

LEMMA ShrunkInv ==
    ASSUME ScanInv, NEW w \in MetaWriters, Shrunk(w)
    PROVE  ScanInv'
<1>1. /\ ScanShape /\ Cached /\ Apart /\ Grouped
      /\ cut' = cut \cup {w} /\ up' = up \ {w}
      /\ kind' = kind /\ queue' = queue /\ dropped' = dropped /\ groups' = groups
      /\ segments' \in [MetaWriters -> Segments]
      /\ dcache' \in [MetaWriters -> Seq(DirEntry)] /\ fcache' \in [MetaWriters -> Seq(FileEntry)]
  BY DEF ScanInv, Shrunk
<1>2. ASSUME NEW v \in MetaWriters
      PROVE  /\ Len(dcache'[v]) \in Nat /\ Len(dcache'[v]) <= Len(dcache[v]) /\ Len(dcache[v]) \in Nat
             /\ Len(fcache'[v]) \in Nat /\ Len(fcache'[v]) <= Len(fcache[v]) /\ Len(fcache[v]) \in Nat
             /\ \A k \in 1 .. Len(dcache'[v]) : k \in 1 .. Len(dcache[v]) /\ dcache'[v][k] = dcache[v][k]
             /\ \A k \in 1 .. Len(fcache'[v]) : k \in 1 .. Len(fcache[v]) /\ fcache'[v][k] = fcache[v][k]
  <2>1. dcache'[v] \in Seq(DirEntry) /\ fcache'[v] \in Seq(FileEntry)
    BY <1>1
  <2>2. Len(dcache'[v]) \in Nat /\ Len(fcache'[v]) \in Nat
    BY <2>1, LenProperties
  <2>3. Len(dcache[v]) \in Nat /\ Len(fcache[v]) \in Nat
    BY <1>1, CacheFacts
  <2>4. Prefix(dcache'[v], dcache[v]) /\ Prefix(fcache'[v], fcache[v])
    BY DEF Shrunk
  <2>5. QED BY <2>2, <2>3, <2>4 DEF Prefix
<1>3. ScanShape'
  BY <1>1 DEF ScanShape
<1>4. ASSUME NEW e, e.loc[1] \in MetaWriters, Points(e) PROVE Points(e)'
  <2>1. CASE e.loc[1] = w
    <3>1. Allows(segments'[w], e.loc, e.id)
      BY <1>4, <2>1 DEF Points, Shrunk
    <3>2. QED BY <1>1, <2>1, <3>1 DEF Points
  <2>2. CASE e.loc[1] # w
    <3>1. segments'[e.loc[1]] = segments[e.loc[1]]
      BY <1>4, <2>2 DEF Shrunk
    <3>2. QED BY <1>1, <1>4, <2>2, <3>1 DEF Points
  <2>3. QED BY <2>1, <2>2
<1>5. ASSUME NEW v \in MetaWriters, NEW e \in DirEntry, SliceRight(v, e) PROVE SliceRight(v, e)'
  <2>1. e.from \in Nat /\ e.count \in Nat
    BY DEF DirEntry
  <2>2. CASE v # w
    <3>1. fcache'[v] = fcache[v] /\ (v \in cut' <=> v \in cut)
      BY <1>1, <2>2 DEF Shrunk
    <3>2. QED BY <1>5, <3>1 DEF SliceRight, InSlice
  <2>3. CASE v = w
    <3>1. v \in cut'
      BY <1>1, <2>3
    <3>2. ASSUME NEW k \in 1 .. e.count, InSlice(v, e, k)'
          PROVE  InSlice(v, e, k) /\ fcache'[v][e.from + k] = fcache[v][e.from + k]
      <4>1. e.from + k \in 1 .. Len(fcache'[v])
        BY <1>2, <2>1, <3>2 DEF InSlice
      <4>2. e.from + k \in 1 .. Len(fcache[v]) /\ fcache'[v][e.from + k] = fcache[v][e.from + k]
        BY <1>2, <4>1
      <4>3. QED BY <1>2, <4>2 DEF InSlice
    <3>3. \A k \in 1 .. e.count : InSlice(v, e, k)' => fcache'[v][e.from + k].id \in Range(FilesOf[e.id])
      BY <1>5, <3>2 DEF SliceRight
    <3>4. ASSUME NEW j \in 1 .. e.count, NEW k \in 1 .. e.count, InSlice(v, e, j)', InSlice(v, e, k)',
                 fcache'[v][e.from + j].id = fcache'[v][e.from + k].id
          PROVE  j = k
      BY <1>5, <3>2, <3>4 DEF SliceRight
    <3>5. QED BY <3>1, <3>3, <3>4 DEF SliceRight, InSlice
  <2>4. QED BY <2>2, <2>3
<1>6. Cached'
  <2>1. ASSUME NEW v \in MetaWriters, NEW k \in 1 .. Len(dcache'[v]) PROVE DirRight(v, dcache[v][k])'
    <3>1. PICK x : x = dcache'[v][k]
      OBVIOUS
    <3>2. k \in 1 .. Len(dcache[v]) /\ x = dcache[v][k]
      BY <1>2, <3>1
    <3>3. x \in DirEntry /\ DirRight(v, x)
      BY <1>1, <3>2, CacheFacts DEF Cached
    <3>4. x.loc[1] = v /\ Points(x) /\ x.count = Len(FilesOf[x.id]) /\ SliceRight(v, x)
      BY <3>3 DEF DirRight
    <3>5. Points(x)' /\ SliceRight(v, x)'
      BY <1>4, <1>5, <3>3, <3>4
    <3>6. DirRight(v, x)'
      BY <3>4, <3>5 DEF DirRight
    <3>7. QED BY <3>1, <3>6
  <2>2. ASSUME NEW v \in MetaWriters, NEW k \in 1 .. Len(fcache'[v])
        PROVE  fcache'[v][k].loc[1] = v /\ Points(fcache[v][k])'
    <3>1. PICK x : x = fcache'[v][k]
      OBVIOUS
    <3>2. k \in 1 .. Len(fcache[v]) /\ x = fcache[v][k]
      BY <1>2, <3>1
    <3>3. x.loc[1] = v /\ Points(x)
      BY <1>1, <3>2 DEF Cached
    <3>4. Points(x)'
      BY <1>4, <3>3
    <3>5. QED BY <3>1, <3>3, <3>4
  <2>3. ASSUME NEW i \in DOMAIN groups', NEW k \in 1 .. Len(groups'[i]) PROVE Points(groups[i][k])'
    <3>1. PICK x : x = groups[i][k]
      OBVIOUS
    <3>2. Points(x) /\ x \in FileEntry
      BY <1>1, <3>1, IndexFacts DEF Cached, ScanShape
    <3>3. x.loc[1] \in MetaWriters
      BY <3>2 DEF FileEntry, Locators
    <3>4. Points(x)'
      BY <1>4, <3>2, <3>3
    <3>5. QED BY <1>1, <3>1, <3>4
  <2>4. QED BY <2>1, <2>2, <2>3 DEF Cached
<1>7. Apart'
  <2>1. cut' # {}
    BY <1>1
  <2>2. ASSUME NEW u \in MetaWriters, NEW v \in MetaWriters,
               NEW j \in 1 .. Len(dcache'[u]), NEW k \in 1 .. Len(dcache'[v]),
               dcache'[u][j].id = dcache'[v][k].id
        PROVE  u = v /\ j = k
    <3>1. j \in 1 .. Len(dcache[u]) /\ dcache'[u][j] = dcache[u][j]
      BY <1>2
    <3>2. k \in 1 .. Len(dcache[v]) /\ dcache'[v][k] = dcache[v][k]
      BY <1>2
    <3>3. dcache[u][j].id = dcache[v][k].id
      BY <2>2, <3>1, <3>2
    <3>4. \A n \in 1 .. Len(dcache[u]), m \in 1 .. Len(dcache[v]) :
             dcache[u][n].id = dcache[v][m].id => u = v /\ n = m
      BY <1>1 DEF Apart
    <3>5. QED BY <3>1, <3>2, <3>3, <3>4
  <2>3. \A v \in MetaWriters : \A k \in 1 .. Len(dcache'[v]) : dcache'[v][k].id \notin queue' \cup dropped'
    BY <1>1, <1>2 DEF Apart
  <2>4. QED BY <2>1, <2>2, <2>3 DEF Apart
<1>8. Grouped'
  BY <1>1 DEF Grouped, Fresh, Distinct, Has
<1>9. QED BY <1>3, <1>6, <1>7, <1>8 DEF ScanInv

(* A segment that is cut short.                                            *)
LEMMA CutSegment ==
    ASSUME NEW s \in Segments, NEW k, k = Len(s), NEW l, l = s[k], NEW n \in 0 .. Len(l) - 1,
           NEW t, Replaces(t, s, k, SubSeq(l, 1, n))
    PROVE  t \in Segments /\ \A loc, x : Allows(s, loc, x) => Allows(t, loc, x)
<1> DEFINE a == SubSeq(l, 1, n)
<1>1. k \in 1 .. Len(s) /\ l \in Seq(Things) /\ Len(l) \in Nat /\ n \in 0 .. Len(l)
  BY SegmentFacts
<1>2. a \in Seq(Things) /\ Len(a) = n /\ n \in Nat /\ \A j \in 1 .. n : j \in 1 .. Len(l) /\ a[j] = l[j]
  BY <1>1, FirstOf
<1> HIDE DEF a
<1>3. Prefix(a, l)
  BY <1>1, <1>2 DEF Prefix
<1>4. \A j \in 0 .. n : Ends(a)[j] = Ends(l)[j]
  BY <1>1, <1>2, <1>3, EndsPrefix
<1>5. Fits(a)
  <2>1. Fits(l)
    BY <1>1 DEF Segments
  <2>2. Used(a) = Ends(l)[n]
    BY <1>2, <1>4 DEF Used
  <2>3. CASE Len(l) = 1
    <3>1. n = 0
      BY <1>1, <1>2, <2>3
    <3>2. Ends(l)[0] = 0
      BY <1>1, EndsOf
    <3>3. Used(a) <= Limit
      BY <2>2, <3>1, <3>2, ListingsAssumption
    <3>4. QED BY <3>3 DEF Fits
  <2>4. CASE Len(l) # 1
    <3>1. Used(l) <= Limit
      BY <2>1, <2>4 DEF Fits
    <3>2. Ends(l)[n] < Ends(l)[Len(l)] /\ Ends(l)[n] \in Nat /\ Ends(l)[Len(l)] \in Nat
      <4>1. n \in 0 .. Len(l) /\ Len(l) \in 0 .. Len(l) /\ n < Len(l)
        BY <1>1, <1>2
      <4>2. QED BY <1>1, <4>1, EndsOf, EndsGrow
    <3>3. Used(a) <= Limit
      BY <2>2, <3>1, <3>2, ListingsAssumption DEF Used
    <3>4. QED BY <3>3 DEF Fits
  <2>5. QED BY <2>3, <2>4
<1>6. t \in Segments /\ Len(t) = Len(s) /\ t[k] = a /\ \A i \in 1 .. Len(s) : i # k => t[i] = s[i]
  <2>1. Replaces(t, s, k, a)
    BY DEF a
  <2>2. QED BY <1>1, <1>2, <1>5, <2>1, Replaced
<1>7. ASSUME NEW loc, NEW x, Allows(s, loc, x), loc[2] \in 1 .. Len(t),
             NEW j \in 1 .. Len(t[loc[2]]), Ends(t[loc[2]])[j - 1] = loc[3]
      PROVE  t[loc[2]][j] = x
  <2>1. \A i \in 1 .. Len(s[loc[2]]) : Ends(s[loc[2]])[i - 1] = loc[3] => s[loc[2]][i] = x
    BY <1>6, <1>7 DEF Allows
  <2>2. CASE loc[2] # k
    BY <1>6, <1>7, <2>1, <2>2
  <2>3. CASE loc[2] = k
    <3>1. j \in 1 .. n /\ j - 1 \in 0 .. n /\ j \in 1 .. Len(l) /\ a[j] = l[j]
      BY <1>2, <1>6, <1>7, <2>3
    <3>2. Ends(l)[j - 1] = loc[3]
      BY <1>4, <1>6, <1>7, <2>3, <3>1
    <3>3. QED BY <1>6, <2>1, <2>3, <3>1, <3>2
  <2>4. QED BY <2>2, <2>3
<1>8. QED BY <1>6, <1>7 DEF Allows

(* A prefix in one place.                                                  *)
Cuts(b, c, w, n) == b = [c EXCEPT ![w] = SubSeq(@, 1, n)]

LEMMA CutOne ==
    ASSUME NEW S, NEW c \in [MetaWriters -> Seq(S)], NEW w \in MetaWriters, NEW n \in 0 .. Len(c[w]),
           NEW b, Cuts(b, c, w, n)
    PROVE  /\ b \in [MetaWriters -> Seq(S)]
           /\ \A v \in MetaWriters : Prefix(b[v], c[v])
           /\ \A v \in MetaWriters : v # w => b[v] = c[v]
<1>1. PICK s : s = c[w] /\ s \in Seq(S)
  OBVIOUS
<1>2. /\ SubSeq(s, 1, n) \in Seq(S) /\ Len(SubSeq(s, 1, n)) = n /\ Len(s) \in Nat /\ n \in Nat
      /\ \A k \in 1 .. n : k \in 1 .. Len(s) /\ SubSeq(s, 1, n)[k] = s[k]
  BY <1>1, FirstOf
<1>3. PICK a : a = SubSeq(s, 1, n)
  OBVIOUS
<1>4. a \in Seq(S) /\ Prefix(a, s)
  BY <1>1, <1>2, <1>3 DEF Prefix
<1>5. b = [c EXCEPT ![w] = a]
  BY <1>1, <1>3 DEF Cuts
<1>6. b \in [MetaWriters -> Seq(S)] /\ b[w] = a /\ \A v \in MetaWriters : v # w => b[v] = c[v]
  BY <1>4, <1>5
<1>7. ASSUME NEW v \in MetaWriters PROVE Prefix(b[v], c[v])
  <2>1. CASE v = w
    BY <1>1, <1>4, <1>6, <2>1
  <2>2. CASE v # w
    <3>1. Len(c[v]) \in Nat
      BY LenProperties
    <3>2. QED BY <1>6, <2>2, <3>1 DEF Prefix
  <2>3. QED BY <2>1, <2>2
<1>8. QED BY <1>6, <1>7

LEMMA PrefixSelf ==
    ASSUME NEW S, NEW c \in [MetaWriters -> Seq(S)]
    PROVE  \A v \in MetaWriters : Prefix(c[v], c[v])
<1>1. \A v \in MetaWriters : Len(c[v]) \in Nat
  BY LenProperties
<1>2. QED BY <1>1 DEF Prefix

LEMMA EndShrinks ==
    ASSUME ScanShape, NEW w \in MetaWriters, EndWriter(w), cut' # cut
    PROVE  Shrunk(w)
<1>1. /\ segments \in [MetaWriters -> Segments]
      /\ dcache \in [MetaWriters -> Seq(DirEntry)] /\ fcache \in [MetaWriters -> Seq(FileEntry)]
      /\ \A v \in MetaWriters : Prefix(dcache[v], dcache[v]) /\ Prefix(fcache[v], fcache[v])
  BY PrefixSelf DEF ScanShape
<1>2. cut' = cut \cup {w} /\ up' = up \ {w} /\ UNCHANGED <<kind, queue, dropped, groups>>
  BY DEF EndWriter
<1>3. \/ /\ \E n \in 0 .. Len(dcache[w]) - 1 : dcache' = [dcache EXCEPT ![w] = SubSeq(@, 1, n)]
         /\ UNCHANGED <<segments, fcache>>
      \/ /\ \E n \in 0 .. Len(fcache[w]) - 1 : fcache' = [fcache EXCEPT ![w] = SubSeq(@, 1, n)]
         /\ UNCHANGED <<segments, dcache>>
      \/ /\ \E n \in 0 .. Len(Last(segments[w])) - 1 :
               segments' = [segments EXCEPT ![w][Len(segments[w])] = SubSeq(@, 1, n)]
         /\ UNCHANGED <<dcache, fcache>>
  BY DEF EndWriter
<1>4. Len(dcache[w]) \in Nat /\ Len(fcache[w]) \in Nat /\ segments[w] \in Segments
  BY CacheFacts
<1>5. CASE /\ \E n \in 0 .. Len(dcache[w]) - 1 : dcache' = [dcache EXCEPT ![w] = SubSeq(@, 1, n)]
           /\ UNCHANGED <<segments, fcache>>
  <2>1. PICK n \in 0 .. Len(dcache[w]) - 1 : dcache' = [dcache EXCEPT ![w] = SubSeq(@, 1, n)]
    BY <1>5
  <2>2. n \in 0 .. Len(dcache[w]) /\ Cuts(dcache', dcache, w, n)
    BY <1>4, <2>1 DEF Cuts
  <2>3. /\ dcache' \in [MetaWriters -> Seq(DirEntry)] /\ \A v \in MetaWriters : Prefix(dcache'[v], dcache[v])
        /\ \A v \in MetaWriters : v # w => dcache'[v] = dcache[v]
    BY <1>1, <2>2, CutOne
  <2>4. QED BY <1>1, <1>2, <1>5, <2>3 DEF Shrunk
<1>6. CASE /\ \E n \in 0 .. Len(fcache[w]) - 1 : fcache' = [fcache EXCEPT ![w] = SubSeq(@, 1, n)]
           /\ UNCHANGED <<segments, dcache>>
  <2>1. PICK n \in 0 .. Len(fcache[w]) - 1 : fcache' = [fcache EXCEPT ![w] = SubSeq(@, 1, n)]
    BY <1>6
  <2>2. n \in 0 .. Len(fcache[w]) /\ Cuts(fcache', fcache, w, n)
    BY <1>4, <2>1 DEF Cuts
  <2>3. /\ fcache' \in [MetaWriters -> Seq(FileEntry)] /\ \A v \in MetaWriters : Prefix(fcache'[v], fcache[v])
        /\ \A v \in MetaWriters : v # w => fcache'[v] = fcache[v]
    BY <1>1, <2>2, CutOne
  <2>4. QED BY <1>1, <1>2, <1>6, <2>3 DEF Shrunk
<1>7. CASE /\ \E n \in 0 .. Len(Last(segments[w])) - 1 :
                 segments' = [segments EXCEPT ![w][Len(segments[w])] = SubSeq(@, 1, n)]
           /\ UNCHANGED <<dcache, fcache>>
  <2>1. PICK s, k, l : s = segments[w] /\ k = Len(s) /\ l = s[k]
    OBVIOUS
  <2>2. Last(segments[w]) = l
    BY <2>1 DEF Last
  <2>3. PICK n \in 0 .. Len(l) - 1 : segments' = [segments EXCEPT ![w][k] = SubSeq(@, 1, n)]
    BY <1>7, <2>1, <2>2
  <2>4. PICK t : t = [s EXCEPT ![k] = SubSeq(l, 1, n)]
    OBVIOUS
  <2>5. segments' = [segments EXCEPT ![w] = t]
    BY <2>1, <2>3, <2>4
  <2>6. Replaces(t, s, k, SubSeq(l, 1, n))
    BY <2>4 DEF Replaces
  <2>7. t \in Segments /\ \A loc, x : Allows(s, loc, x) => Allows(t, loc, x)
    BY <1>4, <2>1, <2>6, CutSegment
  <2>8. /\ segments' \in [MetaWriters -> Segments] /\ segments'[w] = t
        /\ \A v \in MetaWriters : v # w => segments'[v] = segments[v]
    BY <1>1, <2>5, <2>7
  <2>9. QED BY <1>1, <1>2, <1>7, <2>1, <2>7, <2>8 DEF Shrunk
<1>8. QED BY <1>3, <1>5, <1>6, <1>7

(* The scan's part of every step.                                          *)
LEMMA QuietInv ==
    ASSUME ScanInv, UNCHANGED <<kind, queue, segments, dcache, fcache, groups, cut, dropped>>,
           up' \subseteq up
    PROVE  ScanInv'
<1>1. ScanShape'
  BY DEF ScanInv, ScanShape
<1>2. Cached'
  BY DEF ScanInv, Cached, DirRight, Points, SliceRight, InSlice
<1>3. Apart'
  BY DEF ScanInv, Apart
<1>4. Grouped'
  BY DEF ScanInv, Grouped, Fresh
<1>5. QED BY <1>1, <1>2, <1>3, <1>4 DEF ScanInv

LEMMA EndInv ==
    ASSUME ScanInv, NEW w \in MetaWriters, EndWriter(w)
    PROVE  ScanInv'
<1>1. CASE cut' # cut
  BY <1>1, EndShrinks, ShrunkInv DEF ScanInv
<1>2. CASE cut' = cut
  <2>1. w \in up /\ w \notin cut
    BY DEF EndWriter, ScanInv, ScanShape
  <2>2. UNCHANGED <<kind, queue, segments, dcache, fcache, groups, cut, dropped>> /\ up' \subseteq up
    BY <1>2, <2>1 DEF EndWriter
  <2>3. QED BY <2>2, QuietInv
<1>3. QED BY <1>1, <1>2

LEMMA JoinInv == ScanInv /\ JoinMetaWriters => ScanInv'
<1> SUFFICES ASSUME ScanInv, JoinMetaWriters PROVE ScanInv'
  OBVIOUS
<1>1. /\ dropped' = dropped \cup queue /\ queue' = {}
      /\ UNCHANGED <<kind, up, segments, dcache, fcache, groups, cut>>
  BY DEF JoinMetaWriters
<1>2. queue' \cup dropped' = queue \cup dropped
  BY <1>1
<1>3. ScanShape'
  BY <1>1 DEF ScanInv, ScanShape
<1>4. Cached'
  BY <1>1 DEF ScanInv, Cached, DirRight, Points, SliceRight, InSlice
<1>5. Apart'
  BY <1>1, <1>2 DEF ScanInv, Apart
<1>6. Grouped'
  BY <1>1, <1>2 DEF ScanInv, Grouped, Fresh
<1>7. QED BY <1>3, <1>4, <1>5, <1>6 DEF ScanInv

LEMMA ScanFirst == FilesInit => ScanInv
<1> SUFFICES ASSUME FilesInit PROVE ScanInv
  OBVIOUS
<1>1. /\ kind \in Kinds /\ queue = Directories /\ up = MetaWriters /\ segments = FirstSegment
      /\ dcache = [w \in MetaWriters |-> <<>>] /\ fcache = [w \in MetaWriters |-> <<>>]
      /\ groups = <<>> /\ cut = {} /\ dropped = {}
  BY DEF FilesInit
<1>2. << <<>> >> \in Segments
  <2>1. PICK s : s = << <<>> >>
    OBVIOUS
  <2>2. s \in Seq(Seq(Things)) /\ Len(s) = 1 /\ s[1] = <<>>
    BY <2>1
  <2>3. <<>> \in Seq(Things) /\ Len(<<>>) = 0
    OBVIOUS
  <2>4. Used(<<>>) = 0
    BY <2>3, EndsOf DEF Used
  <2>5. Fits(<<>>)
    BY <2>4, ListingsAssumption DEF Fits
  <2>6. QED BY <2>1, <2>2, <2>5 DEF Segments
<1>3. DOMAIN groups = {} /\ groups \in Indices
  <2>1. DOMAIN groups = {} /\ groups = [i \in {} |-> groups[i]]
    BY <1>1
  <2>2. IsFiniteSet({})
    BY FS_EmptySet
  <2>3. QED BY <2>1, <2>2, IndexSet
<1>4. ScanShape
  BY <1>1, <1>2, <1>3, ListingsAssumption DEF ScanShape, FirstSegment
<1>5. \A w \in MetaWriters : Len(dcache[w]) = 0 /\ Len(fcache[w]) = 0
  BY <1>1
<1>6. Cached
  BY <1>3, <1>5 DEF Cached
<1>7. Apart
  BY <1>1, <1>5 DEF Apart
<1>8. Grouped
  BY <1>1, <1>3 DEF Grouped, Distinct, Fresh, Has
<1>9. QED BY <1>4, <1>6, <1>7, <1>8 DEF ScanInv

LEMMA ScanNext == ScanInv /\ [FilesNext]_fileVars => ScanInv'
<1> SUFFICES ASSUME ScanInv, [FilesNext]_fileVars PROVE ScanInv'
  OBVIOUS
<1>1. CASE UNCHANGED scanning
  BY <1>1, ScanSame
<1>2. ASSUME NEW w \in MetaWriters, NEW d \in Directories, WriteListing(w, d) PROVE ScanInv'
  BY <1>2, WritesOrDrops, CachesInv, DropsInv DEF ScanInv
<1>3. ASSUME NEW w \in MetaWriters, EndWriter(w) PROVE ScanInv'
  BY <1>3, EndInv
<1>4. CASE JoinMetaWriters
  BY <1>4, JoinInv
<1>5. \/ UNCHANGED scanning
      \/ \E w \in MetaWriters : EndWriter(w) \/ \E d \in Directories : WriteListing(w, d)
      \/ JoinMetaWriters
  BY DEF FilesNext, OpenCache, GenerateDir, FinishControls, NormalizeCopy, NormalizeMtime, Normalize,
         WriteLinks, NormalizeLinks, Crash, Done, fileVars
<1>6. QED BY <1>1, <1>2, <1>3, <1>4, <1>5

-----------------------------------------------------------------------------
(* The control files.  A record belongs to the last one before it of the   *)
(* kind that heads records like it.                                        *)
CopyRec == [kind : {"dir"}, id : Directories, loc : Locators]
           \cup [kind : {"file"}, id : Files, loc : Locators]
MtimeRec == [kind : {"mtime"}, id : Directories]
LinkRec == [kind : {"inode"}, id : Nat] \cup [kind : {"file"}, id : Files, loc : Locators]

Heads(recs, h, i, k) ==
    /\ h \in 1 .. i /\ recs[h].kind = k
    /\ \A j \in 1 .. i : h < j => recs[j].kind # k

LEMMA HeadingIs ==
    ASSUME NEW recs, NEW i \in Nat, NEW k, NEW h, Heads(recs, h, i, k)
    PROVE  Heading(recs, i, k) = recs[h].id
<1> DEFINE before == {j \in 1 .. i : recs[j].kind = k}
           last == CHOOSE j \in before : \A n \in before : n <= j
<1>1. h \in before /\ \A n \in before : n <= h
  BY DEF Heads
<1>2. last \in before /\ \A n \in before : n <= last
  <2> HIDE DEF before
  <2>1. QED BY <1>1
<1>3. last <= h /\ h <= last /\ last \in Nat /\ h \in Nat
  <2> HIDE DEF last
  <2>1. QED BY <1>1, <1>2
<1>4. last = h
  <2> HIDE DEF last
  <2>1. QED BY <1>3
<1>5. Heading(recs, i, k) = recs[last].id
  BY DEF Heading
<1>6. QED BY <1>4, <1>5

LEMMA HeadsPrefix ==
    ASSUME NEW s, NEW t, Len(s) \in Nat, Prefix(s, t), NEW i \in 1 .. Len(s), NEW h, NEW k
    PROVE  Heads(s, h, i, k) <=> Heads(t, h, i, k)
<1>1. \A j \in 1 .. i : t[j] = s[j]
  BY DEF Prefix
<1>2. QED BY <1>1 DEF Heads

Own(recs, i) == \E h : Heads(recs, h, i, "dir") /\ recs[i].id \in Range(FilesOf[recs[h].id])
WithFiles(recs, i) ==
    \A f \in Range(FilesOf[recs[i].id]) :
        \E j \in 1 .. Len(recs) : recs[j].kind = "file" /\ recs[j].id = f /\ Heads(recs, i, j, "dir")
Tailing(recs, i) == \A j \in 1 .. Len(recs) : i < j => recs[j].kind = "file"
Intact(recs, i) == recs[i].kind = "dir" /\ recs[i].loc[1] \notin cut

CopySound(recs) ==
    /\ recs \in Seq(CopyRec)
    /\ \A i \in 1 .. Len(recs) :
          /\ Meta(recs[i].loc) = {recs[i].id}
          /\ recs[i].kind = "file" => Own(recs, i)
          /\ Intact(recs, i) => WithFiles(recs, i) \/ Tailing(recs, i)

CopyAll(recs) == \A i \in 1 .. Len(recs) : Intact(recs, i) => WithFiles(recs, i)

LEMMA CopySoundFirst ==
    ASSUME NEW recs, CopySound(recs), NEW n \in 0 .. Len(recs)
    PROVE  CopySound(SubSeq(recs, 1, n))
<1>1. recs \in Seq(CopyRec)
  BY DEF CopySound
<1>2. PICK s : s = SubSeq(recs, 1, n)
  OBVIOUS
<1>3. /\ s \in Seq(CopyRec) /\ Len(s) = n /\ Len(recs) \in Nat /\ n \in Nat
      /\ \A k \in 1 .. n : k \in 1 .. Len(recs) /\ s[k] = recs[k]
  BY <1>1, <1>2, FirstOf
<1>4. Prefix(s, recs)
  BY <1>3 DEF Prefix
<1>5. \A i \in 1 .. n : \A h : Heads(s, h, i, "dir") <=> Heads(recs, h, i, "dir")
  BY <1>3, <1>4, HeadsPrefix
<1>6. ASSUME NEW i \in 1 .. n, s[i].kind = "file" PROVE Own(s, i)
  <2>1. PICK h : Heads(recs, h, i, "dir") /\ recs[i].id \in Range(FilesOf[recs[h].id])
    BY <1>3, <1>6 DEF CopySound, Own
  <2>2. h \in 1 .. n
    BY <2>1 DEF Heads
  <2>3. QED BY <1>3, <1>5, <2>1, <2>2 DEF Own
<1>7. ASSUME NEW i \in 1 .. n, Intact(s, i), ~ Tailing(s, i) PROVE WithFiles(s, i)
  <2>1. PICK m \in 1 .. n : i < m /\ s[m].kind # "file"
    BY <1>3, <1>7 DEF Tailing
  <2>2. recs[m].kind = "dir" /\ m \in 1 .. Len(recs)
    <3>1. recs[m] \in CopyRec /\ recs[m] = s[m]
      BY <1>1, <1>3, ElementOfSeq
    <3>2. QED BY <1>3, <2>1, <3>1 DEF CopyRec
  <2>3. WithFiles(recs, i)
    BY <1>3, <1>7, <2>1, <2>2 DEF CopySound, Tailing, Intact
  <2>4. ASSUME NEW f \in Range(FilesOf[s[i].id])
        PROVE  \E j \in 1 .. n : s[j].kind = "file" /\ s[j].id = f /\ Heads(s, i, j, "dir")
    <3>1. PICK j \in 1 .. Len(recs) : recs[j].kind = "file" /\ recs[j].id = f /\ Heads(recs, i, j, "dir")
      BY <1>3, <2>3, <2>4 DEF WithFiles
    <3>2. j < m
      BY <1>3, <2>1, <2>2, <3>1 DEF Heads
    <3>3. j \in 1 .. n
      BY <1>3, <3>1, <3>2
    <3>4. QED BY <1>3, <1>5, <3>1, <3>3
  <2>5. QED BY <1>3, <2>4 DEF WithFiles
<1>8. CopySound(s)
  BY <1>3, <1>6, <1>7 DEF CopySound
<1>9. QED BY <1>2, <1>8

(* What is generated of a directory.                                       *)
IsBlock(b, e) ==
    /\ b \in Seq(CopyRec) /\ Len(b) >= 1 /\ b[1].kind = "dir" /\ b[1].id = e.id /\ b[1].loc = e.loc
    /\ \A k \in 1 .. Len(b) : Meta(b[k].loc) = {b[k].id}
    /\ \A k \in 2 .. Len(b) : b[k].kind = "file" /\ b[k].id \in Range(FilesOf[e.id])
    /\ \A j, k \in 2 .. Len(b) : b[j].id = b[k].id => j = k
    /\ e.loc[1] \notin cut => \A f \in Range(FilesOf[e.id]) : \E k \in 2 .. Len(b) : b[k].id = f

LEMMA MetaIs ==
    ASSUME ScanShape, NEW e, e.loc \in Locators, Points(e), Meta(e.loc) # {}
    PROVE  Meta(e.loc) = {e.id}
<1>1. e.loc[1] \in MetaWriters /\ e.loc[2] \in Nat \ {0}
  BY DEF Locators
<1>2. segments[e.loc[1]] \in Segments
  BY <1>1, CacheFacts
<1>3. Meta(e.loc) \subseteq {e.id}
  BY <1>1, <1>2, MetaOf DEF Points
<1>4. QED BY <1>3

SliceFiles(s, w, e) ==
    /\ s \in Seq(CopyRec) /\ Len(s) \in Nat /\ DOMAIN s = 1 .. Len(s)
    /\ \A k \in 1 .. Len(s) : /\ s[k].kind = "file" /\ s[k].id \in Range(FilesOf[e.id])
                              /\ Meta(s[k].loc) # {} => Meta(s[k].loc) = {s[k].id}
    /\ \A j, k \in 1 .. Len(s) : s[j].id = s[k].id => j = k
    /\ w \notin cut => \A f \in Range(FilesOf[e.id]) : \E k \in 1 .. Len(s) : s[k].id = f

LEMMA FilesInOf ==
    ASSUME ScanShape, Cached, NEW w \in MetaWriters, NEW e \in DirEntry, DirRight(w, e)
    PROVE  SliceFiles(FilesIn(w, e), w, e)
<1> DEFINE s == FilesIn(w, e)
           L == Len(fcache[w])
           D == {k \in 1 .. e.count : e.from + k <= L}
           m == IF e.from + e.count <= L THEN e.count ELSE IF e.from >= L THEN 0 ELSE L - e.from
<1>1. L \in Nat /\ e.from \in Nat /\ e.count \in Nat /\ \A n \in 1 .. L : fcache[w][n] \in FileEntry
  BY CacheFacts DEF DirEntry
<1>2. D = 1 .. m /\ m \in Nat
  <2> HIDE DEF L
  <2>1. CASE e.from + e.count <= L
    BY <1>1, <2>1
  <2>2. CASE ~ (e.from + e.count <= L) /\ e.from >= L
    BY <1>1, <2>2
  <2>3. CASE ~ (e.from + e.count <= L) /\ ~ (e.from >= L)
    BY <1>1, <2>3
  <2>4. QED BY <2>1, <2>2, <2>3
<1>3. s = [k \in D |-> FileRecord(fcache[w][e.from + k])]
  BY DEF FilesIn
<1>4. \A k \in D : k \in 1 .. e.count /\ InSlice(w, e, k) /\ e.from + k \in 1 .. L
  BY <1>1 DEF InSlice
<1> HIDE DEF D, s, m
<1>5. ASSUME NEW k \in D
      PROVE  /\ s[k] = FileRecord(fcache[w][e.from + k]) /\ fcache[w][e.from + k] \in FileEntry
             /\ Points(fcache[w][e.from + k]) /\ fcache[w][e.from + k].id \in Range(FilesOf[e.id])
  BY <1>1, <1>3, <1>4 DEF Cached, DirRight, SliceRight
<1>6. ASSUME NEW k \in D
      PROVE  /\ s[k] \in CopyRec /\ s[k].kind = "file" /\ s[k].id \in Range(FilesOf[e.id])
             /\ s[k].id = fcache[w][e.from + k].id
             /\ Meta(s[k].loc) # {} => Meta(s[k].loc) = {s[k].id}
  <2>1. PICK x : x = fcache[w][e.from + k]
    OBVIOUS
  <2>2. x \in FileEntry /\ Points(x) /\ x.id \in Range(FilesOf[e.id]) /\ s[k] = FileRecord(x)
    BY <1>5, <2>1
  <2>3. x.loc \in Locators /\ x.id \in Files
    BY <2>2 DEF FileEntry
  <2>4. s[k].kind = "file" /\ s[k].id = x.id /\ s[k].loc = x.loc /\ s[k] \in CopyRec
    BY <2>2, <2>3 DEF FileRecord, CopyRec
  <2>5. Meta(x.loc) # {} => Meta(x.loc) = {x.id}
    BY <2>2, <2>3, MetaIs
  <2>6. QED BY <2>1, <2>2, <2>4, <2>5
<1>7. s \in Seq(CopyRec) /\ Len(s) = m /\ DOMAIN s = D
  <2>1. s \in [1 .. m -> CopyRec]
    BY <1>2, <1>3, <1>6
  <2>2. QED BY <1>2, <2>1
<1>8. ASSUME NEW j \in D, NEW k \in D, s[j].id = s[k].id PROVE j = k
  <2>1. fcache[w][e.from + j].id = fcache[w][e.from + k].id
    BY <1>6, <1>8
  <2>2. QED BY <1>4, <2>1 DEF DirRight, SliceRight
<1>9. ASSUME w \notin cut, NEW f \in Range(FilesOf[e.id]) PROVE \E k \in D : s[k].id = f
  <2>1. e.from + e.count <= L
    BY <1>9 DEF DirRight, SliceRight
  <2>2. PICK k \in 1 .. e.count : fcache[w][e.from + k].id = f
    BY <1>9 DEF DirRight, SliceRight
  <2>3. k \in D
    BY <1>1, <2>1 DEF D
  <2>4. QED BY <1>6, <2>2, <2>3
<1>10. QED BY <1>2, <1>6, <1>7, <1>8, <1>9 DEF s, SliceFiles

Older(s, t, i) == i \in 1 .. Len(s) /\ i \in 1 .. Len(t) /\ t[i] = s[i]
Newer(s, t, i, k, b) == k \in 1 .. Len(b) /\ i = Len(s) + k /\ i \in 1 .. Len(t) /\ t[i] = b[k]

IsConcat(S, s, b, t) == s \in Seq(S) /\ b \in Seq(S) /\ t = s \o b
AreJoined(S, s, b, t) ==
    /\ t \in Seq(S) /\ Len(t) = Len(s) + Len(b) /\ Len(s) \in Nat /\ Len(b) \in Nat
    /\ Prefix(s, t)
    /\ \A i \in 1 .. Len(s) : Older(s, t, i)
    /\ \A k \in 1 .. Len(b) : Newer(s, t, Len(s) + k, k, b)
    /\ \A i \in 1 .. Len(t) : Older(s, t, i) \/ \E k \in 1 .. Len(b) : Newer(s, t, i, k, b)

LEMMA Joined ==
    ASSUME NEW S, NEW s, NEW b, NEW t, IsConcat(S, s, b, t)
    PROVE  AreJoined(S, s, b, t)
<1>1. /\ t \in Seq(S) /\ Len(t) = Len(s) + Len(b) /\ Len(s) \in Nat /\ Len(b) \in Nat
      /\ \A i \in 1 .. Len(s) + Len(b) : t[i] = IF i <= Len(s) THEN s[i] ELSE b[i - Len(s)]
  BY ConcatProperties, LenProperties DEF IsConcat
<1>2. \A i \in 1 .. Len(s) : Older(s, t, i)
  BY <1>1 DEF Older
<1>3. ASSUME NEW i \in 1 .. Len(t), i \notin 1 .. Len(s) PROVE \E k \in 1 .. Len(b) : Newer(s, t, i, k, b)
  <2>1. PICK k : k = i - Len(s)
    OBVIOUS
  <2>2. k \in 1 .. Len(b) /\ i = Len(s) + k
    BY <1>1, <1>3, <2>1
  <2>3. t[i] = b[k]
    BY <1>1, <1>3, <2>1, <2>2
  <2>4. QED BY <2>2, <2>3 DEF Newer
<1>4. \A k \in 1 .. Len(b) : Newer(s, t, Len(s) + k, k, b)
  <2>1. TAKE k \in 1 .. Len(b)
  <2>2. PICK i : i = Len(s) + k
    OBVIOUS
  <2>3. i \in 1 .. Len(t) /\ i \notin 1 .. Len(s) /\ i - Len(s) = k
    BY <1>1, <2>2
  <2>4. t[i] = b[k]
    BY <1>1, <2>3
  <2>5. QED BY <2>2, <2>3, <2>4 DEF Newer
<1>5. Prefix(s, t)
  BY <1>1, <1>2 DEF Prefix, Older
<1>6. QED BY <1>1, <1>2, <1>3, <1>4, <1>5 DEF AreJoined

LEMMA BlockOf ==
    ASSUME ScanShape, Cached, NEW e \in DirEntry, DirRight(e.loc[1], e), Meta(e.loc) # {},
           \A k \in DOMAIN FilesIn(e.loc[1], e) : Meta(FilesIn(e.loc[1], e)[k].loc) # {},
           NEW b, b = <<DirRecord(e)>> \o FilesIn(e.loc[1], e)
    PROVE  IsBlock(b, e)
<1>1. PICK w, s, r : w = e.loc[1] /\ s = FilesIn(w, e) /\ r = <<DirRecord(e)>>
  OBVIOUS
<1>2. w \in MetaWriters /\ e.loc \in Locators /\ e.id \in Directories
  BY <1>1 DEF DirEntry, Locators
<1>3. /\ s \in Seq(CopyRec) /\ Len(s) \in Nat /\ DOMAIN s = 1 .. Len(s)
      /\ \A k \in 1 .. Len(s) : /\ s[k].kind = "file" /\ s[k].id \in Range(FilesOf[e.id])
                                /\ Meta(s[k].loc) = {s[k].id}
      /\ \A j, k \in 1 .. Len(s) : s[j].id = s[k].id => j = k
      /\ w \notin cut => \A f \in Range(FilesOf[e.id]) : \E k \in 1 .. Len(s) : s[k].id = f
  <2>1. \A k \in DOMAIN s : Meta(s[k].loc) # {}
    BY <1>1
  <2>2. SliceFiles(s, w, e)
    BY <1>1, <1>2, FilesInOf
  <2>3. QED BY <2>1, <2>2 DEF SliceFiles
<1>4. r \in Seq(CopyRec) /\ Len(r) = 1 /\ r[1] = DirRecord(e)
  BY <1>1, <1>2 DEF DirRecord, CopyRec
<1>5. /\ b \in Seq(CopyRec) /\ Len(b) = 1 + Len(s)
      /\ Older(r, b, 1)
      /\ \A k \in 1 .. Len(s) : Newer(r, b, 1 + k, k, s)
      /\ \A i \in 1 .. Len(b) : Older(r, b, i) \/ \E k \in 1 .. Len(s) : Newer(r, b, i, k, s)
  <2>1. b = r \o s /\ r \in Seq(CopyRec) /\ s \in Seq(CopyRec) /\ Len(r) = 1 /\ 1 \in 1 .. 1
    BY <1>1, <1>3, <1>4
  <2>2. AreJoined(CopyRec, r, s, b)
    BY <2>1, Joined DEF IsConcat
  <2>3. /\ b \in Seq(CopyRec) /\ Len(b) = Len(r) + Len(s)
        /\ \A i \in 1 .. Len(r) : Older(r, b, i)
        /\ \A k \in 1 .. Len(s) : Newer(r, b, Len(r) + k, k, s)
        /\ \A i \in 1 .. Len(b) : Older(r, b, i) \/ \E k \in 1 .. Len(s) : Newer(r, b, i, k, s)
    BY <2>2 DEF AreJoined
  <2>4. QED BY <2>1, <2>3
<1>6. b[1] = DirRecord(e)
  BY <1>4, <1>5 DEF Older
<1>7. b[1].kind = "dir" /\ b[1].id = e.id /\ b[1].loc = e.loc
  BY <1>6 DEF DirRecord
<1>8. \A k \in 2 .. Len(b) : k - 1 \in 1 .. Len(s) /\ b[k] = s[k - 1]
  <2>1. TAKE k \in 2 .. Len(b)
  <2>2. PICK j : j = k - 1
    OBVIOUS
  <2>3. j \in 1 .. Len(s) /\ k = 1 + j
    BY <1>3, <1>5, <2>2
  <2>4. b[1 + j] = s[j]
    BY <1>5, <2>3 DEF Newer
  <2>5. QED BY <2>2, <2>3, <2>4
<1>9. \A k \in 1 .. Len(s) : k + 1 \in 2 .. Len(b) /\ b[k + 1] = s[k]
  <2>1. TAKE k \in 1 .. Len(s)
  <2>2. k + 1 \in 2 .. Len(b) /\ (k + 1) - 1 = k
    BY <1>3, <1>5
  <2>3. QED BY <1>8, <2>2
<1>10. Meta(e.loc) = {e.id}
  <2>1. Points(e)
    BY DEF DirRight
  <2>2. QED BY <1>2, <2>1, MetaIs
<1>11. ASSUME NEW k \in 1 .. Len(b) PROVE Meta(b[k].loc) = {b[k].id}
  <2>1. k = 1 \/ k \in 2 .. Len(b)
    BY <1>3, <1>5
  <2>2. CASE k = 1
    BY <1>7, <1>10, <2>2
  <2>3. CASE k \in 2 .. Len(b)
    <3>1. PICK j \in 1 .. Len(s) : b[k] = s[j]
      BY <1>8, <2>3
    <3>2. QED BY <1>3, <3>1
  <2>4. QED BY <2>1, <2>2, <2>3
<1>12. \A k \in 2 .. Len(b) : b[k].kind = "file" /\ b[k].id \in Range(FilesOf[e.id])
  <2>1. ASSUME NEW k \in 2 .. Len(b) PROVE b[k].kind = "file" /\ b[k].id \in Range(FilesOf[e.id])
    <3>1. PICK j \in 1 .. Len(s) : b[k] = s[j]
      BY <1>8
    <3>2. s[j].kind = "file" /\ s[j].id \in Range(FilesOf[e.id])
      BY <1>3
    <3>3. QED BY <3>1, <3>2
  <2>2. QED BY <2>1
<1>13. ASSUME NEW j \in 2 .. Len(b), NEW k \in 2 .. Len(b), b[j].id = b[k].id PROVE j = k
  <2>1. PICK x, y : x = j - 1 /\ y = k - 1
    OBVIOUS
  <2>2. x \in 1 .. Len(s) /\ y \in 1 .. Len(s) /\ s[x].id = s[y].id
    BY <1>8, <1>13, <2>1
  <2>3. x = y
    BY <1>3, <2>2
  <2>4. QED BY <2>1, <2>3
<1>14. ASSUME e.loc[1] \notin cut, NEW f \in Range(FilesOf[e.id]) PROVE \E k \in 2 .. Len(b) : b[k].id = f
  <2>1. PICK k \in 1 .. Len(s) : s[k].id = f
    BY <1>1, <1>3, <1>14
  <2>2. QED BY <1>9, <2>1
<1>15. Len(b) >= 1
  BY <1>3, <1>5
<1>16. QED BY <1>5, <1>7, <1>11, <1>12, <1>13, <1>14, <1>15 DEF IsBlock

(* One more directory with its files.                                      *)
OneHeading(b, K) == Len(b) >= 1 /\ b[1].kind = K /\ \A j \in 2 .. Len(b) : b[j].kind # K
HeadsBlock(s, b, t, K) ==
    \A k \in 1 .. Len(b) : \A i, h : i = Len(s) + k /\ h = Len(s) + 1 =>
        h \in 1 .. Len(t) /\ i \in 1 .. Len(t) /\ Heads(t, h, i, K) /\ t[h] = b[1]

LEMMA BlockHeads ==
    ASSUME NEW S, NEW s, NEW b, NEW t, IsConcat(S, s, b, t), NEW K, OneHeading(b, K)
    PROVE  HeadsBlock(s, b, t, K)
<1> SUFFICES ASSUME NEW k \in 1 .. Len(b), NEW i, i = Len(s) + k, NEW h, h = Len(s) + 1
             PROVE  h \in 1 .. Len(t) /\ i \in 1 .. Len(t) /\ Heads(t, h, i, K) /\ t[h] = b[1]
  BY DEF HeadsBlock
<1>1. Len(b) >= 1 /\ b[1].kind = K /\ \A j \in 2 .. Len(b) : b[j].kind # K
  BY DEF OneHeading
<1>2. /\ Len(t) = Len(s) + Len(b) /\ Len(s) \in Nat /\ Len(b) \in Nat
      /\ \A j \in 1 .. Len(b) : Newer(s, t, Len(s) + j, j, b)
  <2>1. AreJoined(S, s, b, t)
    BY Joined
  <2>2. QED BY <2>1 DEF AreJoined
<1>3. 1 \in 1 .. Len(b) /\ h \in 1 .. i /\ i \in 1 .. Len(t) /\ h \in 1 .. Len(t)
  BY <1>1, <1>2
<1>4. t[h] = b[1]
  <2>1. Newer(s, t, Len(s) + 1, 1, b)
    BY <1>2, <1>3
  <2>2. QED BY <2>1 DEF Newer
<1>5. ASSUME NEW j \in 1 .. i, h < j PROVE t[j].kind # K
  <2>1. PICK m : m = j - Len(s)
    OBVIOUS
  <2>2. m \in 2 .. Len(b) /\ m \in 1 .. Len(b) /\ j = Len(s) + m
    BY <1>2, <1>5, <2>1
  <2>3. t[j] = b[m]
    <3>1. Newer(s, t, Len(s) + m, m, b)
      BY <1>2, <2>2
    <3>2. QED BY <2>2, <3>1 DEF Newer
  <2>4. QED BY <1>1, <2>2, <2>3
<1>6. Heads(t, h, i, K)
  BY <1>1, <1>3, <1>4, <1>5 DEF Heads
<1>7. QED BY <1>1, <1>3, <1>4, <1>6

LEMMA BlockAdded ==
    ASSUME NEW s, CopySound(s), CopyAll(s), Once(s, "dir"), Once(s, "file"),
           NEW e \in DirEntry, e.id \notin Ids(s, "dir"), NEW b, IsBlock(b, e), NEW t, t = s \o b
    PROVE  /\ CopySound(t) /\ CopyAll(t) /\ Once(t, "dir") /\ Once(t, "file")
           /\ Ids(t, "dir") = Ids(s, "dir") \cup {e.id}
<1>1. s \in Seq(CopyRec) /\ b \in Seq(CopyRec)
  BY DEF CopySound, IsBlock
<1>2. /\ t \in Seq(CopyRec) /\ Len(t) = Len(s) + Len(b) /\ Len(s) \in Nat /\ Len(b) \in Nat
      /\ Prefix(s, t)
      /\ \A i \in 1 .. Len(s) : Older(s, t, i)
      /\ \A k \in 1 .. Len(b) : Newer(s, t, Len(s) + k, k, b)
      /\ \A i \in 1 .. Len(t) : Older(s, t, i) \/ \E k \in 1 .. Len(b) : Newer(s, t, i, k, b)
  <2>1. AreJoined(CopyRec, s, b, t)
    BY <1>1, Joined DEF IsConcat
  <2>2. QED BY <2>1 DEF AreJoined
<1>3. PICK h : h = Len(s) + 1
  OBVIOUS
<1>4. \A k \in 1 .. Len(b) : \A i : i = Len(s) + k =>
         h \in 1 .. Len(t) /\ i \in 1 .. Len(t) /\ Heads(t, h, i, "dir") /\ t[h].id = e.id
  <2>1. OneHeading(b, "dir") /\ b[1].id = e.id
    BY DEF IsBlock, OneHeading
  <2>2. IsConcat(CopyRec, s, b, t)
    BY <1>1 DEF IsConcat
  <2>3. HeadsBlock(s, b, t, "dir")
    BY <2>1, <2>2, BlockHeads
  <2>4. QED BY <1>3, <2>1, <2>3 DEF HeadsBlock
<1>5. /\ Len(b) >= 1 /\ b[1].kind = "dir" /\ b[1].id = e.id /\ b[1].loc = e.loc
      /\ \A k \in 1 .. Len(b) : Meta(b[k].loc) = {b[k].id}
      /\ \A k \in 2 .. Len(b) : b[k].kind = "file" /\ b[k].id \in Range(FilesOf[e.id])
      /\ \A j, k \in 2 .. Len(b) : b[j].id = b[k].id => j = k
      /\ e.loc[1] \notin cut => \A f \in Range(FilesOf[e.id]) : \E k \in 2 .. Len(b) : b[k].id = f
  BY DEF IsBlock
<1>6. \A k \in 1 .. Len(b) : k = 1 \/ k \in 2 .. Len(b)
  BY <1>2
<1>7. ASSUME NEW i \in 1 .. Len(t), NEW k, Newer(s, t, i, k, b)
      PROVE  /\ k \in 1 .. Len(b) /\ i = Len(s) + k /\ t[i] = b[k]
             /\ t[i].kind = "dir" => k = 1 /\ i = h
             /\ t[i].kind = "file" => k \in 2 .. Len(b)
  BY <1>3, <1>5, <1>6, <1>7 DEF Newer
<1>8. h \in 1 .. Len(t) /\ t[h] = b[1] /\ h \notin 1 .. Len(s)
  <2>1. 1 \in 1 .. Len(b)
    BY <1>2, <1>5
  <2>2. Newer(s, t, Len(s) + 1, 1, b)
    BY <1>2, <2>1
  <2>3. QED BY <1>2, <1>3, <2>2 DEF Newer
<1>9. ASSUME NEW i \in 1 .. Len(t) PROVE Meta(t[i].loc) = {t[i].id}
  <2>1. CASE Older(s, t, i)
    BY <2>1 DEF Older, CopySound
  <2>2. CASE \E k \in 1 .. Len(b) : Newer(s, t, i, k, b)
    <3>1. PICK k \in 1 .. Len(b) : Newer(s, t, i, k, b)
      BY <2>2
    <3>2. t[i] = b[k] /\ Meta(b[k].loc) = {b[k].id}
      BY <1>5, <3>1 DEF Newer
    <3>3. QED BY <3>2
  <2>3. QED BY <1>2, <2>1, <2>2
<1>10. ASSUME NEW i \in 1 .. Len(t), t[i].kind = "file" PROVE Own(t, i)
  <2>1. CASE Older(s, t, i)
    <3>1. i \in 1 .. Len(s) /\ t[i] = s[i] /\ Own(s, i)
      BY <1>10, <2>1 DEF Older, CopySound
    <3>2. PICK x : Heads(s, x, i, "dir") /\ s[i].id \in Range(FilesOf[s[x].id])
      BY <3>1 DEF Own
    <3>3. Heads(t, x, i, "dir")
      BY <1>2, <3>1, <3>2, HeadsPrefix
    <3>4. x \in 1 .. Len(s) /\ t[x] = s[x]
      BY <1>2, <3>1, <3>2 DEF Heads, Older
    <3>5. QED BY <3>1, <3>2, <3>3, <3>4 DEF Own
  <2>2. CASE \E k \in 1 .. Len(b) : Newer(s, t, i, k, b)
    <3>1. PICK k \in 1 .. Len(b) : Newer(s, t, i, k, b)
      BY <2>2
    <3>2. k \in 2 .. Len(b) /\ i = Len(s) + k /\ t[i] = b[k]
      BY <1>7, <1>10, <3>1
    <3>3. Heads(t, h, i, "dir") /\ t[h].id = e.id
      BY <1>4, <3>2
    <3>4. t[i].id \in Range(FilesOf[e.id])
      BY <1>5, <3>2
    <3>5. QED BY <3>3, <3>4 DEF Own
  <2>3. QED BY <1>2, <2>1, <2>2
<1>11. ASSUME NEW i \in 1 .. Len(t), Intact(t, i) PROVE WithFiles(t, i)
  <2>1. SUFFICES ASSUME NEW f \in Range(FilesOf[t[i].id])
                 PROVE  \E j \in 1 .. Len(t) : t[j].kind = "file" /\ t[j].id = f /\ Heads(t, i, j, "dir")
    BY DEF WithFiles
  <2>2. CASE Older(s, t, i)
    <3>1. i \in 1 .. Len(s) /\ t[i] = s[i] /\ WithFiles(s, i)
      BY <1>11, <2>2 DEF Older, CopyAll, Intact
    <3>2. PICK j \in 1 .. Len(s) : s[j].kind = "file" /\ s[j].id = f /\ Heads(s, i, j, "dir")
      BY <2>1, <3>1 DEF WithFiles
    <3>3. j \in 1 .. Len(t) /\ t[j] = s[j]
      BY <1>2 DEF Older
    <3>4. Heads(t, i, j, "dir")
      BY <1>2, <3>2, HeadsPrefix
    <3>5. QED BY <3>2, <3>3, <3>4
  <2>3. CASE \E k \in 1 .. Len(b) : Newer(s, t, i, k, b)
    <3>1. PICK k \in 1 .. Len(b) : Newer(s, t, i, k, b)
      BY <2>3
    <3>2. i = h /\ t[i] = b[1]
      BY <1>7, <1>8, <1>11, <3>1 DEF Intact
    <3>3. e.loc[1] \notin cut /\ f \in Range(FilesOf[e.id])
      BY <1>5, <1>11, <2>1, <3>2 DEF Intact
    <3>4. PICK m \in 2 .. Len(b) : b[m].id = f
      BY <1>5, <3>3
    <3>5. PICK j : j = Len(s) + m
      OBVIOUS
    <3>6. m \in 1 .. Len(b)
      BY <1>2
    <3>7. j \in 1 .. Len(t) /\ t[j] = b[m] /\ Heads(t, h, j, "dir")
      <4>1. Newer(s, t, Len(s) + m, m, b)
        BY <1>2, <3>6
      <4>2. QED BY <1>4, <3>5, <3>6, <4>1 DEF Newer
    <3>8. QED BY <1>5, <3>2, <3>4, <3>7
  <2>4. QED BY <1>2, <2>2, <2>3
<1>12. CopySound(t) /\ CopyAll(t)
  BY <1>2, <1>9, <1>10, <1>11 DEF CopySound, CopyAll
<1>13. DOMAIN s = 1 .. Len(s) /\ DOMAIN t = 1 .. Len(t)
  BY <1>1, <1>2, LenProperties
<1>14. \A i \in 1 .. Len(s) : s[i].kind = "dir" => s[i].id # e.id
  BY <1>13 DEF Ids, OfKind
<1>15. Once(t, "dir")
  <2>1. SUFFICES ASSUME NEW i \in 1 .. Len(t), NEW j \in 1 .. Len(t), t[i].kind = "dir", t[j].kind = "dir",
                        t[i].id = t[j].id
                 PROVE  i = j
    BY <1>13 DEF Once, OfKind
  <2>2. CASE Older(s, t, i) /\ Older(s, t, j)
    BY <1>13, <2>1, <2>2 DEF Older, Once, OfKind
  <2>3. CASE Older(s, t, i) /\ ~ Older(s, t, j)
    <3>1. t[j] = b[1]
      BY <1>2, <1>7, <1>8, <2>1, <2>3
    <3>2. QED BY <1>5, <1>14, <2>1, <2>3, <3>1 DEF Older
  <2>4. CASE ~ Older(s, t, i) /\ Older(s, t, j)
    <3>1. t[i] = b[1]
      BY <1>2, <1>7, <1>8, <2>1, <2>4
    <3>2. QED BY <1>5, <1>14, <2>1, <2>4, <3>1 DEF Older
  <2>5. CASE ~ Older(s, t, i) /\ ~ Older(s, t, j)
    BY <1>2, <1>7, <2>1, <2>5
  <2>6. QED BY <2>2, <2>3, <2>4, <2>5
<1>16. \A i \in 1 .. Len(s) : s[i].kind = "file" => s[i].id \notin Range(FilesOf[e.id])
  <2>1. SUFFICES ASSUME NEW i \in 1 .. Len(s), s[i].kind = "file", s[i].id \in Range(FilesOf[e.id]) PROVE FALSE
    OBVIOUS
  <2>2. PICK x : Heads(s, x, i, "dir") /\ s[i].id \in Range(FilesOf[s[x].id])
    BY <2>1 DEF CopySound, Own
  <2>3. x \in 1 .. Len(s) /\ s[x].kind = "dir"
    BY <1>2, <2>2 DEF Heads
  <2>4. s[x].id \in Directories /\ e.id \in Directories
    <3>1. s[x] \in CopyRec
      BY <1>1, <2>3, ElementOfSeq
    <3>2. QED BY <2>3, <3>1 DEF CopyRec, DirEntry
  <2>5. s[x].id = e.id
    BY <2>1, <2>2, <2>4, ListingsAssumption
  <2>6. QED BY <1>14, <2>3, <2>5
<1>17. Once(t, "file")
  <2>1. SUFFICES ASSUME NEW i \in 1 .. Len(t), NEW j \in 1 .. Len(t), t[i].kind = "file", t[j].kind = "file",
                        t[i].id = t[j].id
                 PROVE  i = j
    BY <1>13 DEF Once, OfKind
  <2>2. CASE Older(s, t, i) /\ Older(s, t, j)
    BY <1>13, <2>1, <2>2 DEF Older, Once, OfKind
  <2>3. ASSUME NEW x \in 1 .. Len(t), ~ Older(s, t, x), t[x].kind = "file"
        PROVE  \E k \in 2 .. Len(b) : x = Len(s) + k /\ t[x] = b[k] /\ t[x].id \in Range(FilesOf[e.id])
    <3>1. PICK k \in 1 .. Len(b) : Newer(s, t, x, k, b)
      BY <1>2, <2>3
    <3>2. k \in 2 .. Len(b) /\ x = Len(s) + k /\ t[x] = b[k]
      BY <1>7, <2>3, <3>1
    <3>3. b[k].id \in Range(FilesOf[e.id])
      BY <1>5, <3>2
    <3>4. QED BY <3>2, <3>3
  <2>4. CASE Older(s, t, i) /\ ~ Older(s, t, j)
    BY <1>16, <2>1, <2>3, <2>4 DEF Older
  <2>5. CASE ~ Older(s, t, i) /\ Older(s, t, j)
    BY <1>16, <2>1, <2>3, <2>5 DEF Older
  <2>6. CASE ~ Older(s, t, i) /\ ~ Older(s, t, j)
    <3>1. PICK k \in 2 .. Len(b) : i = Len(s) + k /\ t[i] = b[k]
      BY <2>1, <2>3, <2>6
    <3>2. PICK l \in 2 .. Len(b) : j = Len(s) + l /\ t[j] = b[l]
      BY <2>1, <2>3, <2>6
    <3>3. k = l
      BY <1>5, <2>1, <3>1, <3>2
    <3>4. QED BY <3>1, <3>2, <3>3
  <2>7. QED BY <2>2, <2>4, <2>5, <2>6
<1>18. Ids(t, "dir") = Ids(s, "dir") \cup {e.id}
  <2>1. ASSUME NEW x \in Ids(s, "dir") PROVE x \in Ids(t, "dir")
    <3>1. PICK i \in 1 .. Len(s) : s[i].kind = "dir" /\ s[i].id = x
      BY <1>13, <2>1 DEF Ids, OfKind
    <3>2. i \in 1 .. Len(t) /\ t[i] = s[i]
      BY <1>2 DEF Older
    <3>3. QED BY <1>13, <3>1, <3>2 DEF Ids, OfKind
  <2>2. e.id \in Ids(t, "dir")
    <3>1. h \in OfKind(t, "dir") /\ t[h].id = e.id
      BY <1>5, <1>8, <1>13 DEF OfKind
    <3>2. QED BY <3>1 DEF Ids
  <2>3. ASSUME NEW x \in Ids(t, "dir") PROVE x \in Ids(s, "dir") \cup {e.id}
    <3>1. PICK i \in 1 .. Len(t) : t[i].kind = "dir" /\ t[i].id = x
      BY <1>13, <2>3 DEF Ids, OfKind
    <3>2. CASE Older(s, t, i)
      BY <1>13, <3>1, <3>2 DEF Ids, OfKind, Older
    <3>3. CASE ~ Older(s, t, i)
      <4>1. t[i] = b[1]
        BY <1>2, <1>7, <1>8, <3>1, <3>3
      <4>2. QED BY <1>5, <3>1, <4>1
    <3>4. QED BY <3>2, <3>3
  <2>4. QED BY <2>1, <2>2, <2>3
<1>19. QED BY <1>12, <1>15, <1>17, <1>18

(* The control file of the hardlinks.                                      *)
LEMMA SetInOrder ==
    ASSUME NEW S, IsFiniteSet(S), NEW order, order = SetToSeq(S)
    PROVE  /\ order \in Seq(S) /\ Len(order) \in Nat
           /\ \A i \in 1 .. Len(order) : order[i] \in S
           /\ \A i, j \in 1 .. Len(order) : order[i] = order[j] => i = j
           /\ \A x \in S : \E i \in 1 .. Len(order) : order[i] = x
<1> DEFINE n == Cardinality(S)
<1>1. n \in Nat /\ ExistsBijection(1 .. n, S)
  BY FS_CardinalityType
<1> HIDE DEF n
<1>2. PICK f : f \in Bijection(1 .. n, S)
  BY <1>1 DEF ExistsBijection
<1>3. f \in [1 .. n -> S] /\ IsInjective(f)
  BY <1>2 DEF Bijection, Injection, IsInjective
<1>4. order \in [1 .. n -> S] /\ IsInjective(order)
  BY <1>3 DEF SetToSeq, n
<1>5. order \in Injection(1 .. n, S)
  BY <1>4 DEF Injection, IsInjective
<1>6. order \in Surjection(1 .. n, S)
  <2>1. IsFiniteSet(1 .. n) /\ Cardinality(1 .. n) = n
    <3>1. 1 \in Int /\ n \in Int /\ (n = 0 \/ n >= 1)
      BY <1>1
    <3>2. IsFiniteSet(1 .. n) /\ Cardinality(1 .. n) = IF 1 > n THEN 0 ELSE n - 1 + 1
      BY <3>1, FS_Interval
    <3>3. QED BY <1>1, <3>1, <3>2
  <2>2. Cardinality(1 .. n) = Cardinality(S)
    BY <2>1 DEF n
  <2>3. QED BY <1>5, <2>2, FS_Injection
<1>7. Len(order) = n /\ order \in Seq(S)
  BY <1>1, <1>4
<1>8. \A i, j \in 1 .. n : order[i] = order[j] => i = j
  BY <1>5 DEF Injection, IsInjective
<1>9. \A x \in S : \E i \in 1 .. n : order[i] = x
  BY <1>6 DEF Surjection
<1>10. QED BY <1>1, <1>4, <1>7, <1>8, <1>9

OwnLink(recs, i) == \E h : Heads(recs, h, i, "inode") /\ recs[h].id = Inode[recs[i].id]

LinkSound(recs) ==
    /\ recs \in Seq(LinkRec)
    /\ \A i \in 1 .. Len(recs) : recs[i].kind = "file" => Meta(recs[i].loc) \subseteq {recs[i].id} /\ OwnLink(recs, i)

LEMMA LinkSoundFirst ==
    ASSUME NEW recs, LinkSound(recs), NEW n \in 0 .. Len(recs)
    PROVE  LinkSound(SubSeq(recs, 1, n))
<1>1. recs \in Seq(LinkRec)
  BY DEF LinkSound
<1>2. PICK s : s = SubSeq(recs, 1, n)
  OBVIOUS
<1>3. /\ s \in Seq(LinkRec) /\ Len(s) = n /\ Len(recs) \in Nat /\ n \in Nat
      /\ \A k \in 1 .. n : k \in 1 .. Len(recs) /\ s[k] = recs[k]
  BY <1>1, <1>2, FirstOf
<1>4. Prefix(s, recs)
  BY <1>3 DEF Prefix
<1>5. ASSUME NEW i \in 1 .. n, s[i].kind = "file" PROVE OwnLink(s, i)
  <2>1. PICK h : Heads(recs, h, i, "inode") /\ recs[h].id = Inode[recs[i].id]
    BY <1>3, <1>5 DEF LinkSound, OwnLink
  <2>2. Heads(s, h, i, "inode")
    BY <1>3, <1>4, <2>1, HeadsPrefix
  <2>3. h \in 1 .. n
    BY <2>1 DEF Heads
  <2>4. QED BY <1>3, <2>1, <2>2, <2>3 DEF OwnLink
<1>6. LinkSound(s)
  BY <1>3, <1>5 DEF LinkSound
<1>7. QED BY <1>2, <1>6

(* An inode and its names.                                                 *)
IsGroup(b, i) ==
    /\ b \in Seq(LinkRec) /\ Len(b) >= 1 /\ b[1].kind = "inode" /\ b[1].id = i
    /\ \A k \in 2 .. Len(b) : /\ b[k].kind = "file" /\ Inode[b[k].id] = i
                              /\ Meta(b[k].loc) \subseteq {b[k].id}
    /\ \A j, k \in 2 .. Len(b) : b[j].id = b[k].id => j = k
    /\ \A l \in 1 .. Len(groups[i]) : \E k \in 2 .. Len(b) : b[k].id = groups[i][l].id

LEMMA GroupIs ==
    ASSUME ScanInv, NEW i \in DOMAIN groups, NEW b, b = GroupOf(i)
    PROVE  IsGroup(b, i)
<1>1. PICK g, r, s : g = groups[i] /\ r = <<InodeRecord(i)>> /\ s = [k \in DOMAIN g |-> FileRecord(g[k])]
  OBVIOUS
<1>2. ScanShape /\ Cached /\ Distinct(groups)
  BY DEF ScanInv, Grouped
<1>3. /\ i \in Nat /\ Len(g) \in Nat /\ DOMAIN g = 1 .. Len(g)
      /\ \A k \in 1 .. Len(g) : g[k] \in FileEntry /\ Inode[g[k].id] = i
  <2>1. groups \in Indices
    BY <1>2 DEF ScanShape
  <2>2. QED BY <1>1, <2>1, IndexFacts
<1>4. \A k \in 1 .. Len(g) : Points(g[k])
  BY <1>1, <1>2 DEF Cached
<1>5. \A j, k \in 1 .. Len(g) : g[j].id = g[k].id => j = k
  BY <1>1, <1>2 DEF Distinct
<1>6. \A k \in 1 .. Len(g) : s[k] = FileRecord(g[k])
  BY <1>1, <1>3
<1>7. ASSUME NEW k \in 1 .. Len(g)
      PROVE  /\ s[k] \in LinkRec /\ s[k].kind = "file" /\ s[k].id = g[k].id
             /\ Meta(s[k].loc) \subseteq {s[k].id}
  <2>1. PICK x : x = g[k]
    OBVIOUS
  <2>2. x \in FileEntry /\ Points(x) /\ s[k] = FileRecord(x)
    BY <1>3, <1>4, <1>6, <2>1
  <2>3. x.id \in Files /\ x.loc \in Locators /\ x.loc[1] \in MetaWriters /\ x.loc[2] \in Nat \ {0}
    BY <2>2 DEF FileEntry, Locators
  <2>4. s[k] \in LinkRec /\ s[k].kind = "file" /\ s[k].id = x.id /\ s[k].loc = x.loc
    BY <2>2, <2>3 DEF FileRecord, LinkRec
  <2>5. Allows(segments[x.loc[1]], x.loc, x.id)
    BY <2>2 DEF Points
  <2>6. segments[x.loc[1]] \in Segments
    BY <1>2, <2>3, CacheFacts
  <2>7. Meta(x.loc) \subseteq {x.id}
    BY <2>3, <2>5, <2>6, MetaOf
  <2>8. QED BY <2>1, <2>4, <2>7
<1>8. s \in Seq(LinkRec) /\ Len(s) = Len(g)
  <2>1. DOMAIN s = 1 .. Len(g) /\ s = [k \in 1 .. Len(g) |-> s[k]]
    BY <1>1, <1>3
  <2>2. s \in [1 .. Len(g) -> LinkRec]
    BY <1>7, <2>1
  <2>3. QED BY <1>3, <2>2
<1>9. r \in Seq(LinkRec) /\ Len(r) = 1 /\ r[1] = InodeRecord(i)
  BY <1>1, <1>3 DEF InodeRecord, LinkRec
<1>10. IsConcat(LinkRec, r, s, b)
  <2>1. b = r \o s
    BY <1>1 DEF GroupOf
  <2>2. QED BY <1>8, <1>9, <2>1 DEF IsConcat
<1>11. AreJoined(LinkRec, r, s, b)
  BY <1>10, Joined
<1>12. /\ b \in Seq(LinkRec) /\ Len(b) = 1 + Len(g)
       /\ Older(r, b, 1)
       /\ \A k \in 1 .. Len(g) : Newer(r, b, 1 + k, k, s)
  <2>1. 1 \in 1 .. Len(r)
    BY <1>9
  <2>2. QED BY <1>8, <1>9, <1>11, <2>1 DEF AreJoined
<1>13. b[1].kind = "inode" /\ b[1].id = i /\ Len(b) >= 1
  BY <1>3, <1>9, <1>12 DEF Older, InodeRecord
<1>14. ASSUME NEW k \in 2 .. Len(b) PROVE \E l \in 1 .. Len(g) : k = 1 + l /\ b[k] = s[l]
  <2>1. PICK l : l = k - 1
    OBVIOUS
  <2>2. l \in 1 .. Len(g) /\ k = 1 + l
    BY <1>3, <1>12, <2>1
  <2>3. QED BY <1>12, <2>2 DEF Newer
<1>15. \A k \in 2 .. Len(b) : b[k].kind = "file" /\ Inode[b[k].id] = i /\ Meta(b[k].loc) \subseteq {b[k].id}
  <2>1. TAKE k \in 2 .. Len(b)
  <2>2. PICK l \in 1 .. Len(g) : b[k] = s[l]
    BY <1>14
  <2>3. s[l].kind = "file" /\ s[l].id = g[l].id /\ Meta(s[l].loc) \subseteq {s[l].id}
    BY <1>7
  <2>4. QED BY <1>3, <2>2, <2>3
<1>16. ASSUME NEW j \in 2 .. Len(b), NEW k \in 2 .. Len(b), b[j].id = b[k].id PROVE j = k
  <2>1. PICK l \in 1 .. Len(g) : j = 1 + l /\ b[j] = s[l]
    BY <1>14
  <2>2. PICK m \in 1 .. Len(g) : k = 1 + m /\ b[k] = s[m]
    BY <1>14
  <2>3. g[l].id = g[m].id
    BY <1>7, <1>16, <2>1, <2>2
  <2>4. l = m
    BY <1>5, <2>3
  <2>5. QED BY <2>1, <2>2, <2>4
<1>17. ASSUME NEW l \in 1 .. Len(g) PROVE \E k \in 2 .. Len(b) : b[k].id = g[l].id
  <2>1. 1 + l \in 2 .. Len(b)
    BY <1>3, <1>12
  <2>2. b[1 + l] = s[l]
    BY <1>12 DEF Newer
  <2>3. QED BY <1>7, <2>1, <2>2
<1>18. QED BY <1>1, <1>12, <1>13, <1>15, <1>16, <1>17 DEF IsGroup

LinksOf(recs, I) ==
    /\ LinkSound(recs) /\ Once(recs, "inode") /\ Once(recs, "file") /\ Ids(recs, "inode") = I
    /\ \A i \in I : \A l \in 1 .. Len(groups[i]) : groups[i][l].id \in Ids(recs, "file")

LEMMA GroupAdded ==
    ASSUME NEW s, NEW I, LinksOf(s, I), NEW i, i \notin I, NEW b, IsGroup(b, i), NEW t, t = s \o b
    PROVE  LinksOf(t, I \cup {i})
<1>1. /\ s \in Seq(LinkRec) /\ Once(s, "inode") /\ Once(s, "file") /\ Ids(s, "inode") = I
      /\ \A k \in 1 .. Len(s) : s[k].kind = "file" => Meta(s[k].loc) \subseteq {s[k].id} /\ OwnLink(s, k)
      /\ \A j \in I : \A l \in 1 .. Len(groups[j]) : groups[j][l].id \in Ids(s, "file")
  BY DEF LinksOf, LinkSound
<1>2. /\ b \in Seq(LinkRec) /\ Len(b) >= 1 /\ b[1].kind = "inode" /\ b[1].id = i
      /\ \A k \in 2 .. Len(b) : /\ b[k].kind = "file" /\ Inode[b[k].id] = i
                                /\ Meta(b[k].loc) \subseteq {b[k].id}
      /\ \A j, k \in 2 .. Len(b) : b[j].id = b[k].id => j = k
      /\ \A l \in 1 .. Len(groups[i]) : \E k \in 2 .. Len(b) : b[k].id = groups[i][l].id
  BY DEF IsGroup
<1>3. IsConcat(LinkRec, s, b, t)
  BY <1>1, <1>2 DEF IsConcat
<1>4. /\ t \in Seq(LinkRec) /\ Len(t) = Len(s) + Len(b) /\ Len(s) \in Nat /\ Len(b) \in Nat
      /\ Prefix(s, t)
      /\ \A x \in 1 .. Len(s) : Older(s, t, x)
      /\ \A k \in 1 .. Len(b) : Newer(s, t, Len(s) + k, k, b)
      /\ \A x \in 1 .. Len(t) : Older(s, t, x) \/ \E k \in 1 .. Len(b) : Newer(s, t, x, k, b)
  <2>1. AreJoined(LinkRec, s, b, t)
    BY <1>3, Joined
  <2>2. QED BY <2>1 DEF AreJoined
<1>5. PICK h : h = Len(s) + 1
  OBVIOUS
<1>6. \A k \in 1 .. Len(b) : \A x : x = Len(s) + k =>
         h \in 1 .. Len(t) /\ x \in 1 .. Len(t) /\ Heads(t, h, x, "inode") /\ t[h] = b[1]
  <2>1. OneHeading(b, "inode")
    BY <1>2 DEF OneHeading
  <2>2. HeadsBlock(s, b, t, "inode")
    BY <1>3, <2>1, BlockHeads
  <2>3. QED BY <1>5, <2>2 DEF HeadsBlock
<1>7. h \in 1 .. Len(t) /\ t[h] = b[1]
  <2>1. 1 \in 1 .. Len(b)
    BY <1>2, <1>4
  <2>2. QED BY <1>5, <1>6, <2>1
<1>8. ASSUME NEW x \in 1 .. Len(t), ~ Older(s, t, x)
      PROVE  x = h \/ \E k \in 2 .. Len(b) : x = Len(s) + k /\ t[x] = b[k]
  <2>1. PICK k \in 1 .. Len(b) : Newer(s, t, x, k, b)
    BY <1>4, <1>8
  <2>2. k = 1 \/ k \in 2 .. Len(b)
    BY <1>4
  <2>3. QED BY <1>5, <2>1, <2>2 DEF Newer
<1>9. DOMAIN s = 1 .. Len(s) /\ DOMAIN t = 1 .. Len(t)
  BY <1>1, <1>4, LenProperties
<1>10. \A k \in 1 .. Len(s) : s[k].kind = "inode" => s[k].id # i
  <2>1. TAKE k \in 1 .. Len(s)
  <2>2. s[k].kind = "inode" => s[k].id \in Ids(s, "inode")
    BY <1>9 DEF Ids, OfKind
  <2>3. QED BY <1>1, <2>2
<1>11. \A k \in 1 .. Len(s) : s[k].kind = "file" => Inode[s[k].id] # i
  <2>1. SUFFICES ASSUME NEW k \in 1 .. Len(s), s[k].kind = "file", Inode[s[k].id] = i PROVE FALSE
    OBVIOUS
  <2>2. PICK x : Heads(s, x, k, "inode") /\ s[x].id = Inode[s[k].id]
    BY <1>1, <2>1 DEF OwnLink
  <2>3. x \in 1 .. Len(s) /\ s[x].kind = "inode"
    BY <1>4, <2>2 DEF Heads
  <2>4. QED BY <1>10, <2>1, <2>2, <2>3
<1>12. LinkSound(t)
  <2>1. SUFFICES ASSUME NEW k \in 1 .. Len(t), t[k].kind = "file"
                 PROVE  Meta(t[k].loc) \subseteq {t[k].id} /\ OwnLink(t, k)
    BY <1>4 DEF LinkSound
  <2>2. CASE Older(s, t, k)
    <3>1. k \in 1 .. Len(s) /\ t[k] = s[k]
      BY <2>2 DEF Older
    <3>2. PICK x : Heads(s, x, k, "inode") /\ s[x].id = Inode[s[k].id]
      BY <1>1, <2>1, <3>1 DEF OwnLink
    <3>3. Heads(t, x, k, "inode")
      BY <1>4, <3>1, <3>2, HeadsPrefix
    <3>4. x \in 1 .. Len(s) /\ t[x] = s[x]
      BY <1>4, <3>1, <3>2 DEF Heads, Older
    <3>5. OwnLink(t, k)
      BY <3>1, <3>2, <3>3, <3>4 DEF OwnLink
    <3>6. QED BY <1>1, <2>1, <3>1, <3>5
  <2>3. CASE ~ Older(s, t, k)
    <3>1. PICK m \in 2 .. Len(b) : k = Len(s) + m /\ t[k] = b[m]
      BY <1>2, <1>7, <1>8, <2>1, <2>3
    <3>2. m \in 1 .. Len(b)
      BY <1>4
    <3>3. Heads(t, h, k, "inode") /\ t[h].id = i
      BY <1>2, <1>6, <3>1, <3>2
    <3>4. Inode[t[k].id] = i /\ Meta(t[k].loc) \subseteq {t[k].id}
      BY <1>2, <3>1
    <3>5. QED BY <3>3, <3>4 DEF OwnLink
  <2>4. QED BY <2>2, <2>3
<1>13. Once(t, "inode")
  <2>1. SUFFICES ASSUME NEW j \in 1 .. Len(t), NEW k \in 1 .. Len(t), t[j].kind = "inode", t[k].kind = "inode",
                        t[j].id = t[k].id
                 PROVE  j = k
    BY <1>9 DEF Once, OfKind
  <2>2. CASE Older(s, t, j) /\ Older(s, t, k)
    BY <1>1, <1>9, <2>1, <2>2 DEF Older, Once, OfKind
  <2>3. \A x \in 1 .. Len(t) : t[x].kind = "inode" /\ ~ Older(s, t, x) => x = h /\ t[x].id = i
    BY <1>2, <1>7, <1>8
  <2>4. \A x \in 1 .. Len(t) : t[x].kind = "inode" /\ Older(s, t, x) => t[x].id # i
    BY <1>10 DEF Older
  <2>5. CASE ~ (Older(s, t, j) /\ Older(s, t, k))
    BY <2>1, <2>3, <2>4, <2>5
  <2>6. QED BY <2>2, <2>5
<1>14. Once(t, "file")
  <2>1. SUFFICES ASSUME NEW j \in 1 .. Len(t), NEW k \in 1 .. Len(t), t[j].kind = "file", t[k].kind = "file",
                        t[j].id = t[k].id
                 PROVE  j = k
    BY <1>9 DEF Once, OfKind
  <2>2. CASE Older(s, t, j) /\ Older(s, t, k)
    BY <1>1, <1>9, <2>1, <2>2 DEF Older, Once, OfKind
  <2>3. \A x \in 1 .. Len(t) : t[x].kind = "file" /\ Older(s, t, x) => Inode[t[x].id] # i
    BY <1>11 DEF Older
  <2>4. ASSUME NEW x \in 1 .. Len(t), t[x].kind = "file", ~ Older(s, t, x)
        PROVE  \E m \in 2 .. Len(b) : x = Len(s) + m /\ t[x] = b[m] /\ Inode[t[x].id] = i
    <3>1. PICK m \in 2 .. Len(b) : x = Len(s) + m /\ t[x] = b[m]
      BY <1>2, <1>7, <1>8, <2>4
    <3>2. Inode[b[m].id] = i
      BY <1>2
    <3>3. QED BY <3>1, <3>2
  <2>5. CASE ~ Older(s, t, j) /\ ~ Older(s, t, k)
    <3>1. PICK m \in 2 .. Len(b) : j = Len(s) + m /\ t[j] = b[m]
      BY <2>1, <2>4, <2>5
    <3>2. PICK n \in 2 .. Len(b) : k = Len(s) + n /\ t[k] = b[n]
      BY <2>1, <2>4, <2>5
    <3>3. m = n
      BY <1>2, <2>1, <3>1, <3>2
    <3>4. QED BY <3>1, <3>2, <3>3
  <2>6. (~ Older(s, t, j) => Inode[t[j].id] = i) /\ (~ Older(s, t, k) => Inode[t[k].id] = i)
    BY <2>1, <2>4
  <2>7. CASE (Older(s, t, j) /\ ~ Older(s, t, k)) \/ (~ Older(s, t, j) /\ Older(s, t, k))
    BY <2>1, <2>3, <2>6, <2>7
  <2>8. QED BY <2>2, <2>5, <2>7
<1>15. ASSUME NEW k, NEW x \in Ids(s, k) PROVE x \in Ids(t, k)
  <2>1. PICK j \in 1 .. Len(s) : s[j].kind = k /\ s[j].id = x
    BY <1>9, <1>15 DEF Ids, OfKind
  <2>2. j \in 1 .. Len(t) /\ t[j] = s[j]
    BY <1>4 DEF Older
  <2>3. j \in OfKind(t, k) /\ t[j].id = x
    BY <1>9, <2>1, <2>2 DEF OfKind
  <2>4. QED BY <2>3 DEF Ids
<1>16. Ids(t, "inode") = I \cup {i}
  <2>1. i \in Ids(t, "inode")
    <3>1. h \in OfKind(t, "inode") /\ t[h].id = i
      BY <1>2, <1>7, <1>9 DEF OfKind
    <3>2. QED BY <3>1 DEF Ids
  <2>2. ASSUME NEW x \in Ids(t, "inode") PROVE x \in I \cup {i}
    <3>1. PICK j \in 1 .. Len(t) : t[j].kind = "inode" /\ t[j].id = x
      BY <1>9, <2>2 DEF Ids, OfKind
    <3>2. CASE Older(s, t, j)
      <4>1. j \in OfKind(s, "inode") /\ s[j].id = x
        BY <1>9, <3>1, <3>2 DEF OfKind, Older
      <4>2. QED BY <1>1, <4>1 DEF Ids
    <3>3. CASE ~ Older(s, t, j)
      BY <1>2, <1>7, <1>8, <3>1, <3>3
    <3>4. QED BY <3>2, <3>3
  <2>3. QED BY <1>1, <1>15, <2>1, <2>2
<1>17. ASSUME NEW j \in I \cup {i}, NEW l \in 1 .. Len(groups[j]) PROVE groups[j][l].id \in Ids(t, "file")
  <2>1. CASE j \in I
    BY <1>1, <1>15, <2>1
  <2>2. CASE j = i
    <3>1. PICK k \in 2 .. Len(b) : b[k].id = groups[i][l].id
      BY <1>2, <1>17, <2>2
    <3>2. PICK x : x = Len(s) + k
      OBVIOUS
    <3>3. k \in 1 .. Len(b)
      BY <1>4
    <3>4. x \in 1 .. Len(t) /\ t[x] = b[k]
      <4>1. Newer(s, t, Len(s) + k, k, b)
        BY <1>4, <3>3
      <4>2. QED BY <3>2, <4>1 DEF Newer
    <3>5. x \in OfKind(t, "file") /\ t[x].id = groups[j][l].id
      BY <1>2, <1>9, <2>2, <3>1, <3>4 DEF OfKind
    <3>6. QED BY <3>5 DEF Ids
  <2>3. QED BY <2>1, <2>2
<1>18. QED BY <1>12, <1>13, <1>14, <1>16, <1>17 DEF LinksOf

(* All groups, one after the other.                                        *)
IsRecords(order, n, f) == f = [k \in 0 .. n |-> IF k = 0 THEN <<>> ELSE f[k - 1] \o GroupOf(order[k])]

LEMMA GroupRecordsOf ==
    ASSUME ScanInv
    PROVE  LinksOf(GroupRecords, DOMAIN groups)
<1>1. PICK order : order = SetToSeq(DOMAIN groups)
  OBVIOUS
<1> DEFINE n == Len(order)
           f == CHOOSE f : IsRecords(order, n, f)
           step == [p \in Seq(LinkRec) \X (1 .. n) |-> p[1] \o GroupOf(order[p[2]])]
           Seen(k) == {order[j] : j \in 1 .. k}
<1>2. /\ n \in Nat /\ \A i \in 1 .. n : order[i] \in DOMAIN groups
      /\ \A i, j \in 1 .. n : order[i] = order[j] => i = j
      /\ \A x \in DOMAIN groups : \E i \in 1 .. n : order[i] = x
  <2>1. IsFiniteSet(DOMAIN groups)
    BY IndexFacts DEF ScanInv, ScanShape
  <2>2. QED BY <1>1, <2>1, SetInOrder
<1>3. GroupRecords = f[n]
  BY <1>1 DEF GroupRecords, IsRecords
<1> HIDE DEF n, f
<1>4. \A k \in 1 .. n : IsGroup(GroupOf(order[k]), order[k])
  BY <1>2, GroupIs
<1>5. ASSUME NEW x \in Seq(LinkRec), NEW k \in 1 .. n
      PROVE  step[<<x, k>>] = x \o GroupOf(order[k]) /\ x \o GroupOf(order[k]) \in Seq(LinkRec)
  <2>1. GroupOf(order[k]) \in Seq(LinkRec)
    BY <1>4 DEF IsGroup
  <2>2. step[<<x, k>>] = x \o GroupOf(order[k])
    OBVIOUS
  <2>3. QED BY <2>1, <2>2, ConcatProperties
<1>6. PICK g : IsResult(Seq(LinkRec), <<>>, n, step, g)
  <2>1. IsStep(Seq(LinkRec), <<>>, n, step)
    <3>1. <<>> \in Seq(LinkRec)
      OBVIOUS
    <3> HIDE DEF step
    <3>2. QED BY <1>5, <3>1 DEF IsStep
  <2> HIDE DEF step
  <2>2. QED BY <1>2, <2>1, Recursion
<1> HIDE DEF step
<1>7. ASSUME NEW k \in 1 .. n PROVE g[k] = g[k - 1] \o GroupOf(order[k])
  <2>1. g[k - 1] \in Seq(LinkRec) /\ g[k] = step[<<g[k - 1], k>>]
    BY <1>2, <1>6 DEF IsResult
  <2>2. QED BY <1>5, <2>1
<1>8. IsRecords(order, n, g)
  <2> DEFINE e == [k \in 0 .. n |-> IF k = 0 THEN <<>> ELSE g[k - 1] \o GroupOf(order[k])]
  <2>1. ASSUME NEW k \in 0 .. n PROVE g[k] = e[k]
    <3>1. k # 0 => k \in 1 .. n
      BY <1>2
    <3>2. QED BY <1>6, <1>7, <3>1 DEF IsResult
  <2>2. DOMAIN e = 0 .. n /\ e = [k \in 0 .. n |-> e[k]] /\ g = [k \in 0 .. n |-> g[k]]
    BY <1>6 DEF IsResult
  <2> HIDE DEF e
  <2>3. g = e
    BY <2>1, <2>2
  <2>4. QED BY <2>3 DEF IsRecords, e
<1>9. IsRecords(order, n, f)
  BY <1>8 DEF f
<1>10. f[0] = <<>> /\ \A k \in 1 .. n : f[k] = f[k - 1] \o GroupOf(order[k])
  <2>1. f = [k \in 0 .. n |-> IF k = 0 THEN <<>> ELSE f[k - 1] \o GroupOf(order[k])]
    BY <1>9 DEF IsRecords
  <2>2. 0 \in 0 .. n /\ \A k \in 1 .. n : k \in 0 .. n /\ k # 0
    BY <1>2
  <2>3. QED BY <2>1, <2>2
<1> DEFINE S == {k \in Nat : k <= n => LinksOf(f[k], Seen(k))}
<1>11. 0 \in S
  <2>1. Seen(0) = {}
    OBVIOUS
  <2>2. LinksOf(<<>>, {})
    BY DEF LinksOf, LinkSound, Once, Ids, OfKind
  <2>3. QED BY <1>10, <2>1, <2>2
<1>12. ASSUME NEW k \in Nat, k \in S PROVE k + 1 \in S
  <2>1. SUFFICES ASSUME k + 1 <= n PROVE LinksOf(f[k + 1], Seen(k + 1))
    OBVIOUS
  <2>2. LinksOf(f[k], Seen(k))
    BY <1>2, <1>12, <2>1
  <2>3. k + 1 \in 1 .. n /\ (k + 1) - 1 = k
    BY <1>2, <2>1
  <2>4. PICK i, b : i = order[k + 1] /\ b = GroupOf(i)
    OBVIOUS
  <2>5. f[k + 1] = f[k] \o b /\ IsGroup(b, i)
    BY <1>4, <1>10, <2>3, <2>4
  <2>6. i \notin Seen(k)
    <3>1. SUFFICES ASSUME NEW j \in 1 .. k, order[j] = i PROVE FALSE
      OBVIOUS
    <3>2. j \in 1 .. n /\ j # k + 1
      BY <1>2, <2>1
    <3>3. QED BY <1>2, <2>3, <2>4, <3>1, <3>2
  <2>7. Seen(k + 1) = Seen(k) \cup {i}
    <3>1. 1 .. k + 1 = (1 .. k) \cup {k + 1}
      OBVIOUS
    <3>2. QED BY <2>4, <3>1
  <2> HIDE DEF Seen
  <2>8. LinksOf(f[k + 1], Seen(k) \cup {i})
    BY <2>2, <2>5, <2>6, GroupAdded
  <2>9. QED BY <2>7, <2>8
<1>13. Nat \subseteq S
  <2> HIDE DEF S
  <2>1. QED BY <1>11, <1>12, Upwards
<1>14. LinksOf(f[n], Seen(n))
  <2>1. n \in S
    <3> HIDE DEF S
    <3>1. QED BY <1>2, <1>13
  <2> HIDE DEF Seen
  <2>2. n <= n
    BY <1>2
  <2>3. QED BY <2>1, <2>2
<1>15. Seen(n) = DOMAIN groups
  BY <1>2
<1>16. QED BY <1>3, <1>14, <1>15

-----------------------------------------------------------------------------
(* The phases that follow the scan.                                        *)
LeftIds(entries) == {entries[k].id : k \in 1 .. Len(entries)}
ClosedIds(caches) == UNION {{dcache[w][n].id : n \in 1 .. Len(dcache[w])} : w \in caches}

(* While the control files are generated, every directory is in one place: *)
(* in a cache nobody has opened, in the one being read or in the files.    *)
Placed(copy, caches, entries) ==
    /\ LeftIds(entries) \cap Ids(copy, "dir") = {}
    /\ ClosedIds(caches) \cap (LeftIds(entries) \cup Ids(copy, "dir")) = {}
    /\ LeftIds(entries) \cup Ids(copy, "dir") \subseteq Listed
    /\ cut = {} => Listed \subseteq ClosedIds(caches) \cup LeftIds(entries) \cup Ids(copy, "dir")

Reads(caches, entries) ==
    /\ caches \subseteq MetaWriters /\ entries \in Seq(DirEntry)
    /\ \A k \in 1 .. Len(entries) : DirRight(entries[k].loc[1], entries[k])
    /\ \A j, k \in 1 .. Len(entries) : entries[j].id = entries[k].id => j = k

Times(copy, mtime) ==
    mtime \in Seq(MtimeRec) /\ Once(mtime, "mtime") /\ Ids(mtime, "mtime") = Ids(copy, "dir")

Generating(copy, mtime, caches, entries) ==
    /\ CopySound(copy) /\ CopyAll(copy) /\ Once(copy, "dir") /\ Once(copy, "file")
    /\ Placed(copy, caches, entries) /\ Reads(caches, entries) /\ Times(copy, mtime)

Whole(copy, mtime) ==
    cut = {} =>
       /\ Once(copy, "dir") /\ Ids(copy, "dir") = Listed
       /\ Once(copy, "file") /\ Ids(copy, "file") = ListedFiles
       /\ Once(mtime, "mtime") /\ Ids(mtime, "mtime") = Listed

LinksFirst(links) == \E n \in 0 .. Len(GroupRecords) : links = SubSeq(GroupRecords, 1, n)

(* What was scanned does not change any more, nor what follows from it.    *)
RecordsOf(index) ==
    LET order == SetToSeq(DOMAIN index)
        recs[k \in 0 .. Len(order)] ==
            IF k = 0 THEN <<>>
            ELSE recs[k - 1] \o (<<InodeRecord(order[k])>> \o
                     [j \in DOMAIN index[order[k]] |-> FileRecord(index[order[k]][j])])
    IN recs[Len(order)]

LEMMA SameRecords == groups' = groups => GroupRecords' = GroupRecords
<1>1. GroupRecords = RecordsOf(groups)
  BY DEF GroupRecords, GroupOf, RecordsOf
<1>2. GroupRecords' = RecordsOf(groups')
  BY DEF GroupRecords, GroupOf, RecordsOf
<1>3. QED BY <1>1, <1>2

LEMMA SameCopy ==
    ASSUME UNCHANGED scanning, NEW copy
    PROVE  (CopySound(copy) => CopySound(copy)') /\ (CopyAll(copy) => CopyAll(copy)')
<1>1. UNCHANGED <<segments, cut>>
  BY DEF scanning
<1>2. QED BY <1>1 DEF CopySound, CopyAll, Own, WithFiles, Tailing, Intact, Meta

LEMMA SameGenerating ==
    ASSUME UNCHANGED scanning, NEW copy, NEW mtime, NEW caches, NEW entries,
           Generating(copy, mtime, caches, entries)
    PROVE  Generating(copy, mtime, caches, entries)'
<1>1. UNCHANGED <<segments, cut, dcache, fcache, dropped>>
  BY DEF scanning
<1>2. CopySound(copy)' /\ CopyAll(copy)'
  BY SameCopy DEF Generating
<1>3. ClosedIds(caches)' = ClosedIds(caches)
  BY <1>1 DEF ClosedIds
<1>4. Listed' = Listed
  BY <1>1 DEF Listed
<1>5. Placed(copy, caches, entries)'
  BY <1>1, <1>3, <1>4 DEF Generating, Placed
<1>6. \A k \in 1 .. Len(entries) : DirRight(entries[k].loc[1], entries[k])'
  BY <1>1 DEF Generating, Reads, DirRight, SliceRight, InSlice, Points
<1>7. Reads(caches, entries)'
  BY <1>6 DEF Generating, Reads
<1>8. QED BY <1>2, <1>5, <1>7 DEF Generating

LEMMA SameWhole ==
    ASSUME UNCHANGED scanning, NEW copy, NEW mtime, Whole(copy, mtime)
    PROVE  Whole(copy, mtime)'
<1>1. UNCHANGED <<cut, dropped>>
  BY DEF scanning
<1>2. Listed' = Listed
  BY <1>1 DEF Listed
<1>3. ListedFiles' = ListedFiles
  BY <1>1 DEF ListedFiles, Listed
<1>4. QED BY <1>1, <1>2, <1>3 DEF Whole

LEMMA GeneratingFirst == ScanInv /\ queue = {} => Generating(<<>>, <<>>, MetaWriters, <<>>)
<1> SUFFICES ASSUME ScanInv, queue = {} PROVE Generating(<<>>, <<>>, MetaWriters, <<>>)
  OBVIOUS
<1>1. \A k : Ids(<<>>, k) = {} /\ Once(<<>>, k)
  BY DEF Ids, OfKind, Once
<1>2. CopySound(<<>>) /\ CopyAll(<<>>)
  BY DEF CopySound, CopyAll
<1>3. LeftIds(<<>>) = {}
  BY DEF LeftIds
<1>4. Reads(MetaWriters, <<>>)
  BY DEF Reads
<1>5. Times(<<>>, <<>>)
  <2>1. <<>> \in Seq(MtimeRec)
    BY EmptySeq
  <2>2. QED BY <1>1, <2>1 DEF Times
<1>6. Placed(<<>>, MetaWriters, <<>>)
  <2>1. ASSUME cut = {}, NEW d \in Listed PROVE d \in ClosedIds(MetaWriters)
    <3>1. d \in Directories \ (queue \cup dropped)
      BY <2>1 DEF Listed
    <3>2. PICK w \in MetaWriters : \E n \in 1 .. Len(dcache[w]) : dcache[w][n].id = d
      BY <2>1, <3>1 DEF ScanInv, Apart
    <3>3. QED BY <3>2 DEF ClosedIds
  <2>2. QED BY <1>1, <1>3, <2>1 DEF Placed
<1>7. QED BY <1>1, <1>2, <1>4, <1>5, <1>6 DEF Generating

(* Another directory cache.                                                *)
LEMMA Opened ==
    ASSUME ScanInv, NEW copy, NEW mtime, NEW caches, NEW w \in caches,
           Generating(copy, mtime, caches, <<>>)
    PROVE  Generating(copy, mtime, caches \ {w}, dcache[w])
<1> DEFINE entries == dcache[w]
<1>1. w \in MetaWriters /\ caches \subseteq MetaWriters
  BY DEF Generating, Reads
<1>2. entries \in Seq(DirEntry) /\ Len(entries) \in Nat
  BY <1>1, CacheFacts DEF ScanInv
<1>3. Reads(caches \ {w}, entries)
  <2>1. \A k \in 1 .. Len(entries) : DirRight(entries[k].loc[1], entries[k])
    BY <1>1 DEF ScanInv, Cached, DirRight
  <2>2. \A j, k \in 1 .. Len(entries) : entries[j].id = entries[k].id => j = k
    BY <1>1 DEF ScanInv, Apart
  <2>3. QED BY <1>1, <1>2, <2>1, <2>2 DEF Reads
<1>4. LeftIds(<<>>) = {}
  BY DEF LeftIds
<1>5. LeftIds(entries) \subseteq ClosedIds(caches)
  BY DEF LeftIds, ClosedIds
<1>6. ClosedIds(caches) = ClosedIds(caches \ {w}) \cup LeftIds(entries)
  BY DEF LeftIds, ClosedIds
<1>7. ClosedIds(caches \ {w}) \cap LeftIds(entries) = {}
  <2>1. ASSUME NEW v \in caches \ {w}, NEW n \in 1 .. Len(dcache[v]), NEW m \in 1 .. Len(dcache[w]),
               dcache[v][n].id = dcache[w][m].id
        PROVE  FALSE
    BY <1>1, <2>1 DEF ScanInv, Apart
  <2>2. QED BY <2>1 DEF LeftIds, ClosedIds
<1>8. LeftIds(entries) \subseteq Listed
  <2>1. ASSUME NEW k \in 1 .. Len(dcache[w]) PROVE dcache[w][k].id \in Listed
    <3>1. dcache[w][k] \in DirEntry
      BY <1>1, CacheFacts DEF ScanInv
    <3>2. dcache[w][k].id \in Directories
      BY <3>1 DEF DirEntry
    <3>3. dcache[w][k].id \notin dropped
      BY <1>1 DEF ScanInv, Apart
    <3>4. QED BY <3>2, <3>3 DEF Listed
  <2>2. QED BY <2>1 DEF LeftIds
<1> HIDE DEF entries
<1>9. Placed(copy, caches \ {w}, entries)
  BY <1>4, <1>5, <1>6, <1>7, <1>8 DEF Generating, Placed
<1>10. QED BY <1>3, <1>9 DEF Generating, entries

(* Another modification time.                                              *)
LEMMA TimeAdded ==
    ASSUME NEW s \in Seq(MtimeRec), Once(s, "mtime"), NEW d \in Directories, d \notin Ids(s, "mtime"),
           NEW t, t = s \o <<[kind |-> "mtime", id |-> d]>>
    PROVE  t \in Seq(MtimeRec) /\ Once(t, "mtime") /\ Ids(t, "mtime") = Ids(s, "mtime") \cup {d}
<1> DEFINE r == [kind |-> "mtime", id |-> d]
<1>1. r \in MtimeRec /\ r.kind = "mtime" /\ r.id = d
  BY DEF MtimeRec
<1>2. \A i \in 1 .. Len(s) : s[i] \in MtimeRec /\ s[i].kind = "mtime"
  <2>1. \A i \in 1 .. Len(s) : s[i] \in MtimeRec
    BY ElementOfSeq
  <2>2. QED BY <2>1 DEF MtimeRec
<1>3. Len(s) \in Nat /\ DOMAIN s = 1 .. Len(s)
  BY LenProperties
<1> HIDE DEF r
<1>4. t = Append(s, r)
  BY <1>1, AppendIsConcat DEF r
<1>5. t \in Seq(MtimeRec) /\ Len(t) = Len(s) + 1 /\ t[Len(s) + 1] = r
      /\ \A i \in 1 .. Len(s) : t[i] = s[i]
  BY <1>1, <1>4, AppendProperties
<1>6. DOMAIN t = 1 .. Len(t)
  BY <1>5, LenProperties
<1>7. PICK n : n = Len(s) + 1
  OBVIOUS
<1>8. \A i : i \in DOMAIN t <=> i = n \/ i \in 1 .. Len(s)
  BY <1>3, <1>5, <1>6, <1>7
<1>9. OfKind(s, "mtime") = 1 .. Len(s)
  BY <1>2, <1>3 DEF OfKind
<1>10. OfKind(t, "mtime") = {n} \cup 1 .. Len(s)
  BY <1>1, <1>2, <1>5, <1>7, <1>8 DEF OfKind
<1>11. n \in OfKind(t, "mtime") /\ t[n].id = d
  BY <1>1, <1>5, <1>7, <1>10
<1>12. \A i \in OfKind(s, "mtime") : i \in OfKind(t, "mtime") /\ t[i] = s[i] /\ s[i].id # d
  BY <1>5, <1>9, <1>10 DEF Ids
<1>13. \A i \in OfKind(t, "mtime") : i = n \/ i \in OfKind(s, "mtime")
  BY <1>9, <1>10
<1>14. Ids(t, "mtime") = Ids(s, "mtime") \cup {d}
  <2>1. \A i \in OfKind(t, "mtime") : t[i].id \in Ids(s, "mtime") \cup {d}
    BY <1>11, <1>12, <1>13 DEF Ids
  <2>2. \A i \in OfKind(s, "mtime") : s[i].id \in Ids(t, "mtime")
    BY <1>12 DEF Ids
  <2>3. d \in Ids(t, "mtime")
    BY <1>11 DEF Ids
  <2>4. \A x \in Ids(t, "mtime") : x \in Ids(s, "mtime") \cup {d}
    BY <2>1 DEF Ids
  <2>5. \A x \in Ids(s, "mtime") : x \in Ids(t, "mtime")
    BY <2>2 DEF Ids
  <2>6. QED BY <2>3, <2>4, <2>5
<1>15. Once(t, "mtime")
  <2>1. ASSUME NEW i \in OfKind(t, "mtime"), NEW j \in OfKind(t, "mtime"), t[i].id = t[j].id PROVE i = j
    <3>1. CASE i \in OfKind(s, "mtime") /\ j \in OfKind(s, "mtime")
      <4>1. s[i].id = s[j].id
        BY <1>12, <2>1, <3>1
      <4>2. QED BY <3>1, <4>1 DEF Once
    <3>2. CASE i = n \/ j = n
      BY <1>11, <1>12, <1>13, <2>1, <3>2
    <3>3. QED BY <1>13, <3>1, <3>2
  <2>2. QED BY <2>1 DEF Once
<1>16. QED BY <1>5, <1>14, <1>15

(* The first of the entries that are left.                                 *)
LEMMA HeadTail ==
    ASSUME NEW S, NEW s \in Seq(S), s # <<>>
    PROVE  /\ Tail(s) \in Seq(S) /\ Head(s) \in S /\ Head(s) = s[1] /\ 1 \in 1 .. Len(s)
           /\ \A k \in 1 .. Len(Tail(s)) : k + 1 \in 1 .. Len(s) /\ k + 1 # 1 /\ Tail(s)[k] = s[k + 1]
           /\ \A k \in 1 .. Len(s) : k # 1 => k - 1 \in 1 .. Len(Tail(s)) /\ Tail(s)[k - 1] = s[k]
<1>1. /\ Tail(s) \in Seq(S) /\ Head(s) \in S /\ Head(s) = s[1] /\ Len(s) \in Nat /\ Len(s) # 0
      /\ Len(Tail(s)) = Len(s) - 1
      /\ \A k \in 1 .. Len(Tail(s)) : Tail(s)[k] = s[k + 1]
  BY HeadTailProperties, LenProperties, EmptySeq
<1>2. \A k \in 1 .. Len(Tail(s)) : k + 1 \in 1 .. Len(s) /\ k + 1 # 1
  BY <1>1
<1>3. ASSUME NEW k \in 1 .. Len(s), k # 1 PROVE k - 1 \in 1 .. Len(Tail(s)) /\ Tail(s)[k - 1] = s[k]
  <2>1. k - 1 \in 1 .. Len(Tail(s)) /\ (k - 1) + 1 = k
    BY <1>1, <1>3
  <2>2. QED BY <1>1, <2>1
<1>4. QED BY <1>1, <1>2, <1>3

LEMMA Rest ==
    ASSUME NEW caches, NEW s, Reads(caches, s), s # <<>>
    PROVE  /\ Reads(caches, Tail(s)) /\ LeftIds(s) = LeftIds(Tail(s)) \cup {Head(s).id}
           /\ Head(s).id \notin LeftIds(Tail(s)) /\ Head(s) \in DirEntry
           /\ DirRight(Head(s).loc[1], Head(s))
<1>1. s \in Seq(DirEntry)
  BY DEF Reads
<1>2. PICK t, e : t = Tail(s) /\ e = Head(s)
  OBVIOUS
<1>3. /\ t \in Seq(DirEntry) /\ e \in DirEntry /\ e = s[1] /\ 1 \in 1 .. Len(s)
      /\ \A k \in 1 .. Len(t) : k + 1 \in 1 .. Len(s) /\ k + 1 # 1 /\ t[k] = s[k + 1]
      /\ \A k \in 1 .. Len(s) : k # 1 => k - 1 \in 1 .. Len(t) /\ t[k - 1] = s[k]
  BY <1>1, <1>2, HeadTail
<1>4. \A k \in 1 .. Len(t) : DirRight(t[k].loc[1], t[k])
  <2>1. ASSUME NEW k \in 1 .. Len(t) PROVE DirRight(t[k].loc[1], t[k])
    <3>1. PICK l : l \in 1 .. Len(s) /\ t[k] = s[l]
      BY <1>3
    <3>2. DirRight(s[l].loc[1], s[l])
      BY <3>1 DEF Reads
    <3>3. QED BY <3>1, <3>2
  <2>2. QED BY <2>1
<1>5. \A j, k \in 1 .. Len(t) : t[j].id = t[k].id => j = k
  <2>1. ASSUME NEW j \in 1 .. Len(t), NEW k \in 1 .. Len(t), t[j].id = t[k].id PROVE j = k
    <3>1. PICK l, m : l = j + 1 /\ m = k + 1
      OBVIOUS
    <3>2. l \in 1 .. Len(s) /\ m \in 1 .. Len(s) /\ s[l].id = s[m].id
      BY <1>3, <2>1, <3>1
    <3>3. l = m
      BY <3>2 DEF Reads
    <3>4. QED BY <3>1, <3>3
  <2>2. QED BY <2>1
<1>6. e.id \notin LeftIds(t)
  <2>1. ASSUME NEW k \in 1 .. Len(t), t[k].id = e.id PROVE FALSE
    <3>1. PICK l : l = k + 1
      OBVIOUS
    <3>2. l \in 1 .. Len(s) /\ l # 1 /\ s[l].id = s[1].id
      BY <1>3, <2>1, <3>1
    <3>3. QED BY <1>3, <3>2 DEF Reads
  <2>2. QED BY <2>1 DEF LeftIds
<1>7. LeftIds(s) = LeftIds(t) \cup {e.id}
  <2>1. \A k \in 1 .. Len(s) : s[k].id \in LeftIds(t) \cup {e.id}
    BY <1>3 DEF LeftIds
  <2>2. \A k \in 1 .. Len(t) : t[k].id \in LeftIds(s)
    BY <1>3 DEF LeftIds
  <2>3. e.id \in LeftIds(s)
    BY <1>3 DEF LeftIds
  <2>4. QED BY <2>1, <2>2, <2>3 DEF LeftIds
<1>8. DirRight(e.loc[1], e)
  BY <1>3 DEF Reads
<1>9. Reads(caches, t)
  BY <1>3, <1>4, <1>5 DEF Reads
<1>10. QED BY <1>2, <1>3, <1>6, <1>7, <1>8, <1>9

(* Another directory.                                                      *)
LEMMA DirGenerated ==
    ASSUME ScanInv, NEW copy, NEW mtime, NEW caches, NEW entries,
           Generating(copy, mtime, caches, entries), entries # <<>>,
           NEW e, e = Head(entries), Meta(e.loc) # {},
           \A k \in DOMAIN FilesIn(e.loc[1], e) : Meta(FilesIn(e.loc[1], e)[k].loc) # {}
    PROVE  Generating(copy \o (<<DirRecord(e)>> \o FilesIn(e.loc[1], e)), mtime \o <<MtimeRecord(e)>>,
                      caches, Tail(entries))
<1>1. PICK rest : rest = Tail(entries)
  OBVIOUS
<1>2. /\ Reads(caches, rest) /\ LeftIds(entries) = LeftIds(rest) \cup {e.id}
      /\ e.id \notin LeftIds(rest) /\ e \in DirEntry /\ DirRight(e.loc[1], e)
  BY <1>1, Rest DEF Generating
<1>3. PICK b : b = <<DirRecord(e)>> \o FilesIn(e.loc[1], e)
  OBVIOUS
<1>4. IsBlock(b, e)
  BY <1>2, <1>3, BlockOf DEF ScanInv
<1>5. e.id \in Directories
  BY <1>2 DEF DirEntry
<1>6. e.id \notin Ids(copy, "dir") /\ e.id \notin ClosedIds(caches) /\ e.id \in Listed
  BY <1>2 DEF Generating, Placed
<1>7. PICK t : t = copy \o b
  OBVIOUS
<1>8. /\ CopySound(t) /\ CopyAll(t) /\ Once(t, "dir") /\ Once(t, "file")
      /\ Ids(t, "dir") = Ids(copy, "dir") \cup {e.id}
  BY <1>2, <1>4, <1>6, <1>7, BlockAdded DEF Generating
<1>9. PICK m : m = mtime \o <<MtimeRecord(e)>>
  OBVIOUS
<1>10. Times(t, m)
  <2>1. m = mtime \o <<[kind |-> "mtime", id |-> e.id]>>
    BY <1>9 DEF MtimeRecord
  <2>2. mtime \in Seq(MtimeRec) /\ Once(mtime, "mtime") /\ Ids(mtime, "mtime") = Ids(copy, "dir")
    BY DEF Generating, Times
  <2>3. e.id \notin Ids(mtime, "mtime")
    BY <1>6, <2>2
  <2>4. m \in Seq(MtimeRec) /\ Once(m, "mtime") /\ Ids(m, "mtime") = Ids(mtime, "mtime") \cup {e.id}
    BY <1>5, <2>1, <2>2, <2>3, TimeAdded
  <2>5. QED BY <1>8, <2>2, <2>4 DEF Times
<1>11. Placed(t, caches, rest)
  BY <1>2, <1>6, <1>8 DEF Generating, Placed
<1>12. Generating(t, m, caches, rest)
  BY <1>2, <1>8, <1>10, <1>11 DEF Generating
<1>13. QED BY <1>1, <1>3, <1>7, <1>9, <1>12

(* Everything has been read.                                               *)
LEMMA GeneratedAll ==
    ASSUME ScanInv, NEW copy, NEW mtime, Generating(copy, mtime, {}, <<>>)
    PROVE  Whole(copy, mtime)
<1>1. SUFFICES ASSUME cut = {} PROVE Whole(copy, mtime)
  BY DEF Whole
<1>2. LeftIds(<<>>) = {} /\ ClosedIds({}) = {}
  BY DEF LeftIds, ClosedIds
<1>3. Ids(copy, "dir") = Listed
  BY <1>1, <1>2 DEF Generating, Placed
<1>4. CopySound(copy) /\ CopyAll(copy) /\ copy \in Seq(CopyRec)
  BY DEF Generating, CopySound
<1>5. Len(copy) \in Nat /\ DOMAIN copy = 1 .. Len(copy)
  BY <1>4, LenProperties
<1>6. ASSUME NEW f \in Ids(copy, "file") PROVE f \in ListedFiles
  <2>1. PICK i \in 1 .. Len(copy) : copy[i].kind = "file" /\ copy[i].id = f
    BY <1>5 DEF Ids, OfKind
  <2>2. PICK h : Heads(copy, h, i, "dir") /\ f \in Range(FilesOf[copy[h].id])
    BY <1>4, <2>1 DEF CopySound, Own
  <2>3. h \in 1 .. Len(copy) /\ copy[h].kind = "dir"
    BY <1>5, <2>1, <2>2 DEF Heads
  <2>4. copy[h].id \in Listed
    BY <1>3, <1>5, <2>3 DEF Ids, OfKind
  <2>5. QED BY <2>2, <2>4 DEF ListedFiles
<1>7. ASSUME NEW f \in ListedFiles PROVE f \in Ids(copy, "file")
  <2>1. PICK d \in Listed : f \in Range(FilesOf[d])
    BY DEF ListedFiles
  <2>2. PICK i \in 1 .. Len(copy) : copy[i].kind = "dir" /\ copy[i].id = d
    BY <1>3, <1>5 DEF Ids, OfKind
  <2>3. WithFiles(copy, i)
    BY <1>1, <1>4, <2>2 DEF CopyAll, Intact
  <2>4. PICK j \in 1 .. Len(copy) : copy[j].kind = "file" /\ copy[j].id = f
    BY <2>1, <2>2, <2>3 DEF WithFiles
  <2>5. QED BY <1>5, <2>4 DEF Ids, OfKind
<1>8. Ids(copy, "file") = ListedFiles
  BY <1>6, <1>7
<1>9. QED BY <1>3, <1>8 DEF Generating, Whole, Times

(* What holds of the control files, in each phase.                         *)
Generated(ph, errs) == ph \in {"copy", "mtime", "links", "relink"} \/ (ph = "complete" /\ "generate" \notin errs)
Linked(ph, errs) ==
    "hardlink" \notin errs /\ (ph = "relink" \/ (ph = "complete" /\ kind = "native" /\ "generate" \notin errs))

Controlled(copy, mtime, links, ph, errs, rest) ==
    /\ CopySound(copy)
    /\ ph = "generate" => Generating(copy, mtime, rest.caches, rest.entries)
    /\ Generated(ph, errs) => Whole(copy, mtime)
    /\ links = <<>> \/ LinksFirst(links)
    /\ Linked(ph, errs) => links = GroupRecords
    /\ ph \notin {"scan", "crashed"} => queue = {}

Phases == {"scan", "generate", "copy", "mtime", "links", "relink", "complete", "failed",
           "panicked", "crashed"}

CountsRight(files) == \A c \in Controls : files[c].count \in {0, Len(files[c].recs)}

Shaped(files, rest, ph) ==
    /\ DOMAIN files = Controls /\ \A c \in Controls : DOMAIN files[c] = {"recs", "torn", "paths", "count"}
    /\ CountsRight(files) /\ DOMAIN rest = {"caches", "entries"}
    /\ ph = "scan" => \A c \in Controls : files[c].recs = <<>>
    /\ ph \in {"scan", "generate"} => \A c \in Controls : files[c].count = 0

ControlInv ==
    /\ phase \in Phases /\ faults \in 0 .. MaxFaults /\ Shaped(ctrl, left, phase)
    /\ Controlled(ctrl["copy"].recs, ctrl["mtime"].recs, ctrl["hardlink"].recs, phase, errors, left)

LEMMA SameControlled ==
    ASSUME UNCHANGED scanning, NEW copy, NEW mtime, NEW links, NEW ph, NEW errs, NEW rest,
           Controlled(copy, mtime, links, ph, errs, rest)
    PROVE  Controlled(copy, mtime, links, ph, errs, rest)'
<1>1. CopySound(copy)'
  BY SameCopy DEF Controlled
<1>2. (ph = "generate" => Generating(copy, mtime, rest.caches, rest.entries))'
  BY SameGenerating DEF Controlled
<1>3. (Generated(ph, errs) => Whole(copy, mtime))'
  BY SameWhole DEF Controlled, Generated
<1>4. UNCHANGED <<kind, queue, groups>>
  BY DEF scanning
<1>5. GroupRecords' = GroupRecords
  BY <1>4, SameRecords
<1>6. LinksFirst(links)' <=> LinksFirst(links)
  BY <1>5 DEF LinksFirst
<1>7. Linked(ph, errs)' <=> Linked(ph, errs)
  BY <1>4 DEF Linked
<1>8. QED BY <1>1, <1>2, <1>3, <1>4, <1>5, <1>6, <1>7 DEF Controlled

LEMMA ControlStep ==
    ASSUME UNCHANGED scanning, phase' \in Phases, faults' \in 0 .. MaxFaults, Shaped(ctrl', left', phase'),
           Controlled(ctrl'["copy"].recs, ctrl'["mtime"].recs, ctrl'["hardlink"].recs, phase', errors', left')
    PROVE  ControlInv'
<1>1. PICK c, m, l, p, e, r : /\ c = ctrl'["copy"].recs /\ m = ctrl'["mtime"].recs
                              /\ l = ctrl'["hardlink"].recs
                              /\ p = phase' /\ e = errors' /\ r = left'
  OBVIOUS
<1>2. Controlled(c, m, l, p, e, r)
  BY <1>1
<1>3. Controlled(c, m, l, p, e, r)'
  BY <1>2, SameControlled
<1>4. Controlled(ctrl["copy"].recs, ctrl["mtime"].recs, ctrl["hardlink"].recs, phase, errors, left)'
  BY <1>1, <1>3
<1>5. Shaped(ctrl, left, phase)'
  BY DEF Shaped, CountsRight
<1>6. QED BY <1>4, <1>5 DEF ControlInv

(* Each step that writes a control file.                                   *)
LEMMA Faults == faults \in 0 .. MaxFaults => (Fault => faults' \in 0 .. MaxFaults)
<1>1. MaxFaults \in Nat
  BY ListingsAssumption
<1>2. QED BY <1>1 DEF Fault

(* The files stay as they are.                                             *)
LEMMA StopInv ==
    ASSUME ControlInv, UNCHANGED <<scanning, left, ctrl, errors>>, faults' \in 0 .. MaxFaults,
           phase' \in {"failed", "panicked", "crashed"} \/ phase' = phase, phase = "crashed" => phase' = phase,
           phase' # "crashed" => phase # "scan"
    PROVE  ControlInv'
<1>1. phase' \in Phases
  BY DEF ControlInv, Phases
<1>2. Shaped(ctrl', left', phase')
  BY DEF ControlInv, Shaped
<1>3. Controlled(ctrl'["copy"].recs, ctrl'["mtime"].recs, ctrl'["hardlink"].recs, phase', errors', left')
  <2>1. CASE phase' = phase
    BY <2>1 DEF ControlInv
  <2>2. CASE phase' \in {"failed", "panicked", "crashed"} /\ phase # "crashed"
    BY <2>2 DEF ControlInv, Controlled, Generated, Linked
  <2>3. QED BY <2>1, <2>2
<1>4. QED BY <1>1, <1>2, <1>3, ControlStep

LEMMA OpenInv ==
    ASSUME ScanInv, ControlInv, NEW w \in MetaWriters, OpenCache(w)
    PROVE  ControlInv'
<1>1. /\ phase = "generate" /\ left.entries = <<>> /\ w \in left.caches
      /\ left' = [caches |-> left.caches \ {w}, entries |-> dcache[w]]
      /\ UNCHANGED <<scanning, phase, ctrl, errors, faults>>
  BY DEF OpenCache
<1>2. Generating(ctrl["copy"].recs, ctrl["mtime"].recs, left.caches, <<>>)
  BY <1>1 DEF ControlInv, Controlled
<1>3. Generating(ctrl["copy"].recs, ctrl["mtime"].recs, left.caches \ {w}, dcache[w])
  BY <1>1, <1>2, Opened
<1>4. left'.caches = left.caches \ {w} /\ left'.entries = dcache[w] /\ DOMAIN left' = {"caches", "entries"}
  BY <1>1
<1>5. Shaped(ctrl', left', phase')
  BY <1>1, <1>4 DEF ControlInv, Shaped
<1>6. Controlled(ctrl'["copy"].recs, ctrl'["mtime"].recs, ctrl'["hardlink"].recs, phase', errors', left')
  BY <1>1, <1>3, <1>4 DEF ControlInv, Controlled, Generated, Linked
<1>7. phase' \in Phases /\ faults' \in 0 .. MaxFaults
  BY <1>1 DEF ControlInv
<1>8. QED BY <1>1, <1>5, <1>6, <1>7, ControlStep

LEMMA GenerateInv ==
    ASSUME ScanInv, ControlInv, GenerateDir
    PROVE  ControlInv'
<1> DEFINE entry == Head(left.entries)
           recs == FilesIn(entry.loc[1], entry)
           copied == ctrl["copy"].recs \o (<<DirRecord(entry)>> \o recs)
           timed == ctrl["mtime"].recs \o <<MtimeRecord(entry)>>
<1>1. phase = "generate" /\ left.entries # <<>> /\ UNCHANGED <<scanning, errors>>
  BY DEF GenerateDir
<1>2. CASE Panic /\ (Fault \/ UNCHANGED faults)
  <2>1. phase' = "panicked" /\ UNCHANGED <<left, ctrl>> /\ faults' \in 0 .. MaxFaults
    BY <1>2, Faults DEF Panic, ControlInv
  <2>2. QED BY <1>1, <2>1, StopInv
<1>3. CASE /\ Meta(entry.loc) # {} /\ \A k \in DOMAIN recs : Meta(recs[k].loc) # {}
           /\ ctrl' = [ctrl EXCEPT !["copy"] = Write("copy", <<DirRecord(entry)>> \o recs),
                                   !["mtime"] = Write("mtime", <<MtimeRecord(entry)>>)]
           /\ left' = [left EXCEPT !.entries = Tail(@)] /\ UNCHANGED <<phase, faults>>
  <2>1. DOMAIN ctrl = Controls /\ \A c \in Controls : DOMAIN ctrl[c] = {"recs", "torn", "paths", "count"}
    BY DEF ControlInv, Shaped
  <2>2. /\ ctrl' = [ctrl EXCEPT !["copy"] = [ctrl["copy"] EXCEPT !.recs = copied],
                                !["mtime"] = [ctrl["mtime"] EXCEPT !.recs = timed]]
    BY <1>3, <2>1 DEF Write, Controls
  <2>3. DOMAIN left = {"caches", "entries"}
    BY DEF ControlInv, Shaped
  <2>4. left'.caches = left.caches /\ left'.entries = Tail(left.entries) /\ DOMAIN left' = {"caches", "entries"}
    BY <1>3, <2>3
  <2>5. Generating(ctrl["copy"].recs, ctrl["mtime"].recs, left.caches, left.entries)
    BY <1>1 DEF ControlInv, Controlled
  <2>6. Generating(copied, timed, left.caches, Tail(left.entries))
    <3>1. PICK e : e = entry
      OBVIOUS
    <3>2. /\ Meta(e.loc) # {}
          /\ \A k \in DOMAIN FilesIn(e.loc[1], e) : Meta(FilesIn(e.loc[1], e)[k].loc) # {}
      BY <1>3, <3>1
    <3>3. Generating(ctrl["copy"].recs \o (<<DirRecord(e)>> \o FilesIn(e.loc[1], e)),
                     ctrl["mtime"].recs \o <<MtimeRecord(e)>>, left.caches, Tail(left.entries))
      BY <1>1, <2>5, <3>1, <3>2, DirGenerated
    <3>4. QED BY <3>1, <3>3
  <2> HIDE DEF copied, timed
  <2>7. /\ ctrl'["copy"] = [ctrl["copy"] EXCEPT !.recs = copied]
        /\ ctrl'["mtime"] = [ctrl["mtime"] EXCEPT !.recs = timed]
        /\ ctrl'["hardlink"] = ctrl["hardlink"] /\ DOMAIN ctrl' = Controls
    BY <2>1, <2>2 DEF Controls
  <2>8. /\ ctrl'["copy"].recs = copied /\ ctrl'["mtime"].recs = timed
        /\ \A c \in Controls : /\ DOMAIN ctrl'[c] = {"recs", "torn", "paths", "count"}
                               /\ ctrl'[c].count = ctrl[c].count
    BY <2>1, <2>7 DEF Controls
  <2>9. Shaped(ctrl', left', phase')
    BY <1>1, <1>3, <2>4, <2>7, <2>8 DEF ControlInv, Shaped, CountsRight
  <2>10. CopySound(copied)
    BY <2>6 DEF Generating
  <2>11. Controlled(ctrl'["copy"].recs, ctrl'["mtime"].recs, ctrl'["hardlink"].recs, phase', errors', left')
    BY <1>1, <1>3, <2>4, <2>6, <2>7, <2>8, <2>10 DEF ControlInv, Controlled, Generated, Linked
  <2>12. phase' \in Phases /\ faults' \in 0 .. MaxFaults
    BY <1>3 DEF ControlInv
  <2>13. QED BY <1>1, <2>9, <2>11, <2>12, ControlStep
<1> HIDE DEF copied, timed
<1>4. \/ Panic /\ (Fault \/ UNCHANGED faults)
      \/ /\ Meta(entry.loc) # {} /\ \A k \in DOMAIN recs : Meta(recs[k].loc) # {}
         /\ ctrl' = [ctrl EXCEPT !["copy"] = Write("copy", <<DirRecord(entry)>> \o recs),
                                 !["mtime"] = Write("mtime", <<MtimeRecord(entry)>>)]
         /\ left' = [left EXCEPT !.entries = Tail(@)] /\ UNCHANGED <<phase, faults>>
  BY Zenon DEF GenerateDir
<1>5. QED BY <1>2, <1>3, <1>4

(* The files are finished, or rewritten, with the records they have.       *)
Refiled(files) ==
    /\ DOMAIN files = Controls /\ \A c \in Controls : DOMAIN files[c] = {"recs", "torn", "paths", "count"}
    /\ CountsRight(files) /\ \A c \in Controls : files[c].recs = ctrl[c].recs

LEMMA RefiledOne ==
    ASSUME ControlInv, NEW c \in Controls, NEW files, files = [ctrl EXCEPT ![c] = Logical(@)]
    PROVE  Refiled(files)
<1>1. /\ DOMAIN ctrl = Controls /\ \A b \in Controls : DOMAIN ctrl[b] = {"recs", "torn", "paths", "count"}
      /\ CountsRight(ctrl)
  BY DEF ControlInv, Shaped
<1>2. PICK f : f = Logical(ctrl[c])
  OBVIOUS
<1>3. DOMAIN f = {"recs", "torn", "paths", "count"} /\ f.recs = ctrl[c].recs /\ f.count = Len(f.recs)
  BY <1>1, <1>2 DEF Logical, Finish
<1>4. DOMAIN files = Controls /\ \A b \in Controls : files[b] = IF b = c THEN f ELSE ctrl[b]
  BY <1>1, <1>2
<1>5. QED BY <1>1, <1>3, <1>4 DEF Refiled, CountsRight

LEMMA RefiledInv ==
    ASSUME ControlInv, UNCHANGED <<scanning, left>>, Refiled(ctrl'), faults' \in 0 .. MaxFaults,
           phase \notin {"scan", "crashed"}, phase' \in Phases \ {"scan", "generate", "crashed"},
           Generated(phase', errors') => Whole(ctrl["copy"].recs, ctrl["mtime"].recs),
           Linked(phase', errors') => ctrl["hardlink"].recs = GroupRecords
    PROVE  ControlInv'
<1>1. Shaped(ctrl', left', phase')
  BY DEF ControlInv, Shaped, Refiled
<1>2. /\ ctrl'["copy"].recs = ctrl["copy"].recs /\ ctrl'["mtime"].recs = ctrl["mtime"].recs
      /\ ctrl'["hardlink"].recs = ctrl["hardlink"].recs
  BY DEF Refiled, Controls
<1>3. Controlled(ctrl["copy"].recs, ctrl["mtime"].recs, ctrl["hardlink"].recs, phase', errors', left')
  BY DEF ControlInv, Controlled
<1>4. QED BY <1>1, <1>2, <1>3, ControlStep

LEMMA FinishInv ==
    ASSUME ScanInv, ControlInv, FinishControls
    PROVE  ControlInv'
<1>1. phase = "generate" /\ left = [caches |-> {}, entries |-> <<>>] /\ UNCHANGED <<scanning, errors>>
  BY DEF FinishControls
<1>2. CASE Panic /\ Fault
  <2>1. phase' = "panicked" /\ UNCHANGED <<left, ctrl>> /\ faults' \in 0 .. MaxFaults
    BY <1>2, Faults DEF Panic, ControlInv
  <2>2. QED BY <1>1, <2>1, StopInv
<1>3. CASE /\ ctrl' = [ctrl EXCEPT !["copy"] = Finish(@), !["mtime"] = Finish(@)]
           /\ phase' = "copy" /\ UNCHANGED <<left, faults>>
  <2>1. /\ DOMAIN ctrl = Controls /\ \A c \in Controls : DOMAIN ctrl[c] = {"recs", "torn", "paths", "count"}
        /\ CountsRight(ctrl)
    BY DEF ControlInv, Shaped
  <2>2. PICK f, g : f = Finish(ctrl["copy"]) /\ g = Finish(ctrl["mtime"])
    OBVIOUS
  <2>3. /\ DOMAIN f = {"recs", "torn", "paths", "count"} /\ f.recs = ctrl["copy"].recs /\ f.count = Len(f.recs)
        /\ DOMAIN g = {"recs", "torn", "paths", "count"} /\ g.recs = ctrl["mtime"].recs /\ g.count = Len(g.recs)
    BY <2>1, <2>2 DEF Finish, Controls
  <2>4. DOMAIN ctrl' = Controls /\ ctrl'["copy"] = f /\ ctrl'["mtime"] = g /\ ctrl'["hardlink"] = ctrl["hardlink"]
    BY <1>3, <2>1, <2>2 DEF Controls
  <2>5. Refiled(ctrl')
    BY <2>1, <2>3, <2>4 DEF Refiled, CountsRight, Controls
  <2>6. Generating(ctrl["copy"].recs, ctrl["mtime"].recs, {}, <<>>)
    BY <1>1 DEF ControlInv, Controlled
  <2>7. Whole(ctrl["copy"].recs, ctrl["mtime"].recs)
    BY <2>6, GeneratedAll
  <2>8. ~ Linked(phase', errors') /\ phase' \in Phases \ {"scan", "generate", "crashed"}
    BY <1>3 DEF Linked, Phases
  <2>9. faults' \in 0 .. MaxFaults
    BY <1>3 DEF ControlInv
  <2>10. QED BY <1>1, <1>3, <2>5, <2>7, <2>8, <2>9, RefiledInv
<1>4. QED BY <1>2, <1>3, Zenon DEF FinishControls

LEMMA NormalizeInv ==
    ASSUME ControlInv, NEW c \in {"copy", "mtime"}, NEW next, Normalize(c, next),
           next \in {"mtime", "links"} \/ (next = "complete" /\ kind # "native")
    PROVE  ControlInv'
<1>1. phase = c /\ UNCHANGED <<scanning, left>>
  BY DEF Normalize
<1>2. Whole(ctrl["copy"].recs, ctrl["mtime"].recs)
  BY <1>1 DEF ControlInv, Controlled, Generated
<1>3. CASE ctrl' = [ctrl EXCEPT ![c] = Logical(@)] /\ phase' = next /\ UNCHANGED <<errors, faults>>
  <2>1. Refiled(ctrl')
    BY <1>3, RefiledOne DEF Controls
  <2>2. ~ Linked(phase', errors') /\ phase' \in Phases \ {"scan", "generate", "crashed"}
    BY <1>3 DEF Linked, Phases
  <2>3. faults' \in 0 .. MaxFaults
    BY <1>3 DEF ControlInv
  <2>4. QED BY <1>1, <1>2, <2>1, <2>2, <2>3, RefiledInv
<1>4. CASE /\ phase' = (IF kind = "native" THEN "links" ELSE "failed")
           /\ Fault /\ UNCHANGED ctrl
  <2>1. Refiled(ctrl')
    BY <1>4 DEF ControlInv, Shaped, Refiled, CountsRight
  <2>2. ~ Linked(phase', errors') /\ phase' \in Phases \ {"scan", "generate", "crashed"}
    BY <1>4 DEF Linked, Phases
  <2>3. faults' \in 0 .. MaxFaults
    BY <1>4, Faults DEF ControlInv
  <2>4. QED BY <1>1, <1>2, <2>1, <2>2, <2>3, RefiledInv
<1>5. QED BY <1>3, <1>4 DEF Normalize

LEMMA NormalizeLinksInv ==
    ASSUME ControlInv, NormalizeLinks
    PROVE  ControlInv'
<1>1. phase = "relink" /\ phase' = "complete" /\ UNCHANGED <<scanning, left>>
  BY DEF NormalizeLinks
<1>2. Refiled(ctrl')
  <2>1. CASE ctrl' = [ctrl EXCEPT !["hardlink"] = Logical(@)]
    BY <2>1, RefiledOne DEF Controls
  <2>2. CASE UNCHANGED ctrl
    BY <2>2 DEF ControlInv, Shaped, Refiled, CountsRight
  <2>3. QED BY <2>1, <2>2 DEF NormalizeLinks
<1>3. faults' \in 0 .. MaxFaults
  BY Faults DEF NormalizeLinks, ControlInv
<1>4. errors \subseteq errors'
  BY DEF NormalizeLinks
<1>5. Whole(ctrl["copy"].recs, ctrl["mtime"].recs)
  BY <1>1 DEF ControlInv, Controlled, Generated
<1>6. Linked(phase', errors') => ctrl["hardlink"].recs = GroupRecords
  BY <1>1, <1>4 DEF ControlInv, Controlled, Linked
<1>7. phase' \in Phases \ {"scan", "generate", "crashed"}
  BY <1>1 DEF Phases
<1>8. QED BY <1>1, <1>2, <1>3, <1>5, <1>6, <1>7, RefiledInv

LEMMA LinksInv ==
    ASSUME ScanInv, ControlInv, WriteLinks
    PROVE  ControlInv'
<1>1. phase = "links" /\ phase' = "relink" /\ UNCHANGED <<scanning, left>>
  BY DEF WriteLinks
<1>2. GroupRecords \in Seq(LinkRec)
  BY GroupRecordsOf DEF LinksOf, LinkSound
<1>3. PICK gs : gs = GroupRecords
  OBVIOUS
<1>4. Len(gs) \in Nat /\ SubSeq(gs, 1, Len(gs)) = gs
  BY <1>2, <1>3, LenProperties, SubSeqFull
<1>5. PICK whole : whole = Finish([Absent EXCEPT !.recs = gs, !.paths = "physical"])
  OBVIOUS
<1>6. DOMAIN whole = {"recs", "torn", "paths", "count"} /\ whole.recs = gs /\ whole.count = Len(gs)
  BY <1>5 DEF Finish, Absent
<1>7. /\ DOMAIN ctrl = Controls /\ \A c \in Controls : DOMAIN ctrl[c] = {"recs", "torn", "paths", "count"}
      /\ CountsRight(ctrl)
  BY DEF ControlInv, Shaped
<1>8. ASSUME NEW f, ctrl' = [ctrl EXCEPT !["hardlink"] = f], DOMAIN f = {"recs", "torn", "paths", "count"},
             f.count \in {0, Len(f.recs)}, LinksFirst(f.recs), "hardlink" \notin errors' => f.recs = gs,
             faults' \in 0 .. MaxFaults
      PROVE  ControlInv'
  <2>1. /\ ctrl'["hardlink"] = f /\ ctrl'["copy"] = ctrl["copy"] /\ ctrl'["mtime"] = ctrl["mtime"]
        /\ DOMAIN ctrl' = Controls
    BY <1>7, <1>8 DEF Controls
  <2>2. Shaped(ctrl', left', phase')
    BY <1>1, <1>7, <1>8, <2>1 DEF Shaped, CountsRight, Controls, ControlInv
  <2>3. Controlled(ctrl'["copy"].recs, ctrl'["mtime"].recs, ctrl'["hardlink"].recs, phase', errors', left')
    BY <1>1, <1>3, <1>8, <2>1 DEF ControlInv, Controlled, Generated, Linked
  <2>4. phase' \in Phases
    BY <1>1 DEF Phases
  <2>5. QED BY <1>1, <1>8, <2>2, <2>3, <2>4, ControlStep
<1>9. CASE ctrl' = [ctrl EXCEPT !["hardlink"] = whole] /\ UNCHANGED <<errors, faults>>
  <2>1. LinksFirst(gs)
    <3>1. Len(gs) \in 0 .. Len(gs)
      BY <1>4
    <3>2. \E n \in 0 .. Len(gs) : gs = SubSeq(gs, 1, n)
      BY <1>4, <3>1, Zenon
    <3>3. QED BY <1>3, <3>2, Zenon DEF LinksFirst
  <2>2. faults' \in 0 .. MaxFaults
    BY <1>9 DEF ControlInv
  <2>3. QED BY <1>6, <1>8, <1>9, <2>1, <2>2
<1>10. CASE \E n \in 0 .. Len(gs), torn \in BOOLEAN :
                /\ ctrl' = [ctrl EXCEPT !["hardlink"] =
                       [whole EXCEPT !.recs = SubSeq(@, 1, n), !.torn = torn, !.count = 0]]
                /\ errors' = errors \cup {"hardlink"} /\ Fault
  <2>1. PICK n \in 0 .. Len(gs), torn \in BOOLEAN :
                /\ ctrl' = [ctrl EXCEPT !["hardlink"] =
                       [whole EXCEPT !.recs = SubSeq(@, 1, n), !.torn = torn, !.count = 0]]
                /\ errors' = errors \cup {"hardlink"} /\ Fault
    BY <1>10
  <2>2. PICK f : f = [whole EXCEPT !.recs = SubSeq(@, 1, n), !.torn = torn, !.count = 0]
    OBVIOUS
  <2>3. DOMAIN f = {"recs", "torn", "paths", "count"} /\ f.recs = SubSeq(gs, 1, n) /\ f.count = 0
    BY <1>6, <2>2
  <2>4. LinksFirst(f.recs)
    BY <1>3, <2>3 DEF LinksFirst
  <2>5. faults' \in 0 .. MaxFaults
    BY <2>1, Faults DEF ControlInv
  <2>6. QED BY <1>8, <2>1, <2>2, <2>3, <2>4, <2>5
<1>11. QED BY <1>3, <1>5, <1>9, <1>10 DEF WriteLinks

(* What a crash leaves is the beginning of what was written.               *)
LEMMA CrashInv ==
    ASSUME ControlInv, Crash
    PROVE  ControlInv'
<1>1. /\ phase' = "crashed" /\ UNCHANGED <<scanning, left, errors>> /\ faults' \in 0 .. MaxFaults
      /\ phase \notin {"crashed", "complete", "failed", "panicked"}
  BY Faults DEF Crash, ControlInv, Ended
<1>2. CASE phase # "generate"
  <2>1. UNCHANGED ctrl
    BY <1>2 DEF Crash
  <2>2. QED BY <1>1, <2>1, StopInv
<1>3. CASE phase = "generate"
  <2>1. PICK n \in 0 .. Len(ctrl["copy"].recs), m \in 0 .. Len(ctrl["mtime"].recs), torn \in BOOLEAN :
               ctrl' = [ctrl EXCEPT !["copy"].recs = SubSeq(@, 1, n), !["copy"].torn = torn,
                                    !["mtime"].recs = SubSeq(@, 1, m)]
    BY <1>3 DEF Crash
  <2>2. /\ DOMAIN ctrl = Controls /\ \A c \in Controls : DOMAIN ctrl[c] = {"recs", "torn", "paths", "count"}
        /\ \A c \in Controls : ctrl[c].count = 0
    BY <1>3 DEF ControlInv, Shaped
  <2>3. PICK s, t : s = SubSeq(ctrl["copy"].recs, 1, n) /\ t = SubSeq(ctrl["mtime"].recs, 1, m)
    OBVIOUS
  <2>4. /\ ctrl'["copy"].recs = s /\ ctrl'["hardlink"] = ctrl["hardlink"] /\ DOMAIN ctrl' = Controls
        /\ \A c \in Controls : /\ DOMAIN ctrl'[c] = {"recs", "torn", "paths", "count"}
                               /\ ctrl'[c].count = 0
    BY <2>1, <2>2, <2>3 DEF Controls
  <2>5. Shaped(ctrl', left', phase')
    BY <1>1, <2>4 DEF ControlInv, Shaped, CountsRight
  <2>6. CopySound(s)
    BY <2>3, CopySoundFirst DEF ControlInv, Controlled
  <2>7. Controlled(ctrl'["copy"].recs, ctrl'["mtime"].recs, ctrl'["hardlink"].recs, phase', errors', left')
    BY <1>1, <2>4, <2>6 DEF ControlInv, Controlled, Generated, Linked
  <2>8. phase' \in Phases
    BY <1>1 DEF Phases
  <2>9. QED BY <1>1, <2>5, <2>7, <2>8, ControlStep
<1>4. QED BY <1>2, <1>3

(* While the scan runs the control files are empty.                        *)
LEMMA EmptyCopy == CopySound(<<>>) BY DEF CopySound

LEMMA ScanningInv ==
    ASSUME ControlInv, phase = "scan", UNCHANGED <<phase, left, ctrl, errors>>, faults' \in 0 .. MaxFaults
    PROVE  ControlInv'
<1>1. ctrl["copy"].recs = <<>> /\ ctrl["hardlink"].recs = <<>>
  BY DEF ControlInv, Shaped, Controls
<1>2. CopySound(<<>>)'
  BY DEF CopySound
<1>3. CopySound(ctrl["copy"].recs)'
  BY <1>1, <1>2
<1>4. Shaped(ctrl, left, phase)'
  BY DEF ControlInv, Shaped, CountsRight
<1>5. Controlled(ctrl["copy"].recs, ctrl["mtime"].recs, ctrl["hardlink"].recs, phase, errors, left)'
  BY <1>1, <1>3 DEF Controlled, Generated, Linked
<1>6. QED BY <1>4, <1>5 DEF ControlInv

LEMMA JoinControl ==
    ASSUME ScanInv', ControlInv, JoinMetaWriters
    PROVE  ControlInv'
<1>1. phase = "scan" /\ queue' = {}
  BY DEF JoinMetaWriters
<1>2. /\ DOMAIN ctrl = Controls /\ \A c \in Controls : DOMAIN ctrl[c] = {"recs", "torn", "paths", "count"}
      /\ CountsRight(ctrl) /\ \A c \in Controls : ctrl[c].recs = <<>> /\ ctrl[c].count = 0
      /\ DOMAIN left = {"caches", "entries"}
  BY <1>1 DEF ControlInv, Shaped
<1>3. CopySound(<<>>)'
  BY DEF CopySound
<1>4. CASE /\ phase' = "generate" /\ left' = [caches |-> MetaWriters, entries |-> <<>>]
           /\ ctrl' = [c \in Controls |->
                          IF c = "hardlink" THEN Absent ELSE [Absent EXCEPT !.paths = "physical"]]
           /\ UNCHANGED <<errors, faults>>
  <2>1. /\ DOMAIN ctrl' = Controls
        /\ \A c \in Controls : /\ DOMAIN ctrl'[c] = {"recs", "torn", "paths", "count"}
                               /\ ctrl'[c].recs = <<>> /\ ctrl'[c].count = 0
    BY <1>4 DEF Absent
  <2>2. DOMAIN left' = {"caches", "entries"} /\ left'.caches = MetaWriters /\ left'.entries = <<>>
    BY <1>4
  <2>3. Shaped(ctrl, left, phase)'
    BY <1>4, <2>1, <2>2 DEF Shaped, CountsRight
  <2>4. Generating(<<>>, <<>>, MetaWriters, <<>>)'
    <3>1. (ScanInv /\ queue = {} => Generating(<<>>, <<>>, MetaWriters, <<>>))'
      BY GeneratingFirst, PTL
    <3>2. QED BY <1>1, <3>1
  <2>5. ctrl'["copy"].recs = <<>> /\ ctrl'["mtime"].recs = <<>> /\ ctrl'["hardlink"].recs = <<>>
    BY <2>1 DEF Controls
  <2>6. Generating(ctrl["copy"].recs, ctrl["mtime"].recs, left.caches, left.entries)'
    BY <2>2, <2>4, <2>5
  <2>7. CopySound(ctrl["copy"].recs)'
    BY <1>3, <2>5
  <2>8. Controlled(ctrl["copy"].recs, ctrl["mtime"].recs, ctrl["hardlink"].recs, phase, errors, left)'
    BY <1>1, <1>4, <2>5, <2>6, <2>7 DEF Controlled, Generated, Linked
  <2>9. (phase \in Phases /\ faults \in 0 .. MaxFaults)'
    BY <1>4 DEF Phases, ControlInv
  <2>10. QED BY <2>3, <2>8, <2>9 DEF ControlInv
<1>5. CASE /\ phase' = (IF kind = "native" THEN "complete" ELSE "failed")
           /\ errors' = errors \cup {"generate"} /\ Fault /\ UNCHANGED <<left, ctrl>>
  <2>1. ctrl'["copy"].recs = <<>> /\ ctrl'["hardlink"].recs = <<>>
    BY <1>2, <1>5 DEF Controls
  <2>2. Shaped(ctrl, left, phase)'
    BY <1>2, <1>5 DEF Shaped, CountsRight
  <2>3. CopySound(ctrl["copy"].recs)'
    BY <1>3, <2>1
  <2>4. phase' \in {"complete", "failed"} /\ "generate" \in errors'
    BY <1>5
  <2>5. Controlled(ctrl["copy"].recs, ctrl["mtime"].recs, ctrl["hardlink"].recs, phase, errors, left)'
    BY <1>1, <2>1, <2>3, <2>4 DEF Controlled, Generated, Linked
  <2>6. (phase \in Phases /\ faults \in 0 .. MaxFaults)'
    BY <1>5, <2>4, Faults DEF Phases, ControlInv
  <2>7. QED BY <2>2, <2>5, <2>6 DEF ControlInv
<1>6. QED BY <1>4, <1>5 DEF JoinMetaWriters

LEMMA ControlFirst == FilesInit => ControlInv
<1> SUFFICES ASSUME FilesInit PROVE ControlInv
  OBVIOUS
<1>1. /\ DOMAIN ctrl = Controls
      /\ \A c \in Controls : /\ DOMAIN ctrl[c] = {"recs", "torn", "paths", "count"}
                             /\ ctrl[c].recs = <<>> /\ ctrl[c].count = 0
  BY DEF FilesInit, Absent
<1>2. phase = "scan" /\ DOMAIN left = {"caches", "entries"} /\ faults \in 0 .. MaxFaults
  BY ListingsAssumption DEF FilesInit
<1>3. Shaped(ctrl, left, phase)
  BY <1>1, <1>2 DEF Shaped, CountsRight
<1>4. ctrl["copy"].recs = <<>> /\ ctrl["hardlink"].recs = <<>>
  BY <1>1 DEF Controls
<1>5. Controlled(ctrl["copy"].recs, ctrl["mtime"].recs, ctrl["hardlink"].recs, phase, errors, left)
  BY <1>2, <1>4, EmptyCopy DEF Controlled, Generated, Linked
<1>6. QED BY <1>2, <1>3, <1>5 DEF ControlInv, Phases

LEMMA ControlNext == ScanInv /\ ScanInv' /\ ControlInv /\ [FilesNext]_fileVars => ControlInv'
<1> SUFFICES ASSUME ScanInv, ScanInv', ControlInv, [FilesNext]_fileVars PROVE ControlInv'
  OBVIOUS
<1>1. ASSUME NEW w \in MetaWriters, NEW d \in Directories, WriteListing(w, d) PROVE ControlInv'
  <2>1. phase = "scan" /\ UNCHANGED <<phase, left, ctrl, errors>> /\ (Fault \/ UNCHANGED faults)
    BY <1>1, Zenon DEF WriteListing
  <2>2. faults' \in 0 .. MaxFaults
    BY <2>1, Faults DEF ControlInv
  <2>3. QED BY <2>1, <2>2, ScanningInv
<1>2. ASSUME NEW w \in MetaWriters, EndWriter(w) PROVE ControlInv'
  <2>1. phase = "scan" /\ UNCHANGED <<phase, left, ctrl, errors>> /\ (Fault \/ UNCHANGED faults)
    BY <1>2, Zenon DEF EndWriter
  <2>2. faults' \in 0 .. MaxFaults
    BY <2>1, Faults DEF ControlInv
  <2>3. QED BY <2>1, <2>2, ScanningInv
<1>3. CASE NormalizeCopy
  BY <1>3, NormalizeInv DEF NormalizeCopy
<1>4. CASE NormalizeMtime
  BY <1>4, NormalizeInv DEF NormalizeMtime
<1>5. CASE UNCHANGED fileVars
  <2>1. UNCHANGED <<scanning, phase, left, ctrl, errors, faults>>
    BY <1>5 DEF fileVars
  <2>2. CASE phase = "scan"
    BY <2>1, <2>2, ScanningInv DEF ControlInv
  <2>3. CASE phase # "scan"
    BY <2>1, <2>3, StopInv DEF ControlInv
  <2>4. QED BY <2>2, <2>3
<1>6. CASE Done
  BY <1>5, <1>6 DEF Done
<1>7. ASSUME NEW w \in MetaWriters, OpenCache(w) PROVE ControlInv'
  BY <1>7, OpenInv
<1>8. QED
  BY <1>1, <1>2, <1>3, <1>4, <1>5, <1>6, <1>7, JoinControl, GenerateInv, FinishInv, LinksInv,
     NormalizeLinksInv, CrashInv DEF FilesNext

-----------------------------------------------------------------------------
(* In every state of a scan both invariants hold.                          *)
FilesInv == ScanInv /\ ControlInv

LEMMA FilesInductive ==
    /\ FilesInit => FilesInv
    /\ FilesInv /\ [FilesNext]_fileVars => FilesInv'
BY ScanFirst, ScanNext, ControlFirst, ControlNext DEF FilesInv

LEMMA TypeFollows == FilesInv => FilesTypeOK
<1> SUFFICES ASSUME ScanInv, ControlInv PROVE FilesTypeOK
  BY DEF FilesInv
<1>1. \A w \in MetaWriters : \A n \in DOMAIN segments[w] :
          /\ segments[w][n] \in Seq(Directories \cup Files)
          /\ Used(segments[w][n]) <= Limit \/ Len(segments[w][n]) = 1
  <2>1. ASSUME NEW w \in MetaWriters, NEW n \in DOMAIN segments[w]
        PROVE  segments[w][n] \in Seq(Things) /\ Fits(segments[w][n])
    <3>1. segments[w] \in Segments
      BY CacheFacts DEF ScanInv
    <3>2. n \in 1 .. Len(segments[w])
      BY <2>1, <3>1, SegmentFacts
    <3>3. Fits(segments[w][n])
      BY <3>1, <3>2 DEF Segments
    <3>4. QED BY <3>1, <3>2, <3>3, SegmentFacts
  <2>2. QED BY <2>1 DEF Fits, Things
<1>2. \A w \in MetaWriters : \A n \in DOMAIN dcache[w] :
          dcache[w][n].from + dcache[w][n].count <= Len(fcache[w]) \/ w \in cut
  <2>1. ASSUME NEW w \in MetaWriters, NEW n \in DOMAIN dcache[w]
        PROVE  dcache[w][n].from + dcache[w][n].count <= Len(fcache[w]) \/ w \in cut
    <3>1. n \in 1 .. Len(dcache[w])
      BY <2>1, CacheFacts DEF ScanInv
    <3>2. SliceRight(w, dcache[w][n])
      BY <3>1 DEF ScanInv, Cached, DirRight
    <3>3. QED BY <3>2 DEF SliceRight
  <2>2. QED BY <2>1
<1>3. DOMAIN ctrl = Controls /\ \A c \in Controls : ctrl[c].count \in {0, Len(ctrl[c].recs)}
  BY DEF ControlInv, Shaped, CountsRight
<1>4. /\ queue \subseteq Directories /\ up \subseteq MetaWriters
      /\ cut \subseteq MetaWriters /\ dropped \subseteq Directories
  BY DEF ScanInv, ScanShape
<1>5. phase \in Phases /\ faults \in 0 .. MaxFaults
  BY DEF ControlInv
<1>6. QED BY <1>1, <1>2, <1>3, <1>4, <1>5 DEF FilesTypeOK, Phases

(* The files have the records of the listings and of nothing else.         *)
RightCopy(recs) ==
    \A i \in DOMAIN recs :
       /\ Meta(recs[i].loc) = {recs[i].id}
       /\ recs[i].kind = "file" => recs[i].id \in Range(FilesOf[Heading(recs, i, "dir")])
       /\ recs[i].kind = "dir" /\ recs[i].loc[1] \notin cut =>
             \/ \A f \in Range(FilesOf[recs[i].id]) : \E j \in DOMAIN recs :
                    recs[j].id = f /\ Heading(recs, j, "dir") = recs[i].id
             \/ \A j \in i + 1 .. Len(recs) : recs[j].kind = "file"

RightLinks(recs) ==
    \A i \in DOMAIN recs : recs[i].kind = "file" =>
       /\ Meta(recs[i].loc) \subseteq {recs[i].id}
       /\ Inode[recs[i].id] = Heading(recs, i, "inode")

LEMMA CopyFollows ==
    ASSUME NEW recs, CopySound(recs)
    PROVE  RightCopy(recs)
<1>1. Len(recs) \in Nat /\ DOMAIN recs = 1 .. Len(recs)
  BY LenProperties DEF CopySound
<1> SUFFICES ASSUME NEW i \in 1 .. Len(recs)
             PROVE  /\ Meta(recs[i].loc) = {recs[i].id}
                    /\ recs[i].kind = "file" => recs[i].id \in Range(FilesOf[Heading(recs, i, "dir")])
                    /\ recs[i].kind = "dir" /\ recs[i].loc[1] \notin cut =>
                          \/ \A f \in Range(FilesOf[recs[i].id]) : \E j \in 1 .. Len(recs) :
                                 recs[j].id = f /\ Heading(recs, j, "dir") = recs[i].id
                          \/ \A j \in i + 1 .. Len(recs) : recs[j].kind = "file"
  BY <1>1 DEF RightCopy
<1>2. Meta(recs[i].loc) = {recs[i].id}
  BY DEF CopySound
<1>3. ASSUME recs[i].kind = "file" PROVE recs[i].id \in Range(FilesOf[Heading(recs, i, "dir")])
  <2>1. PICK h : Heads(recs, h, i, "dir") /\ recs[i].id \in Range(FilesOf[recs[h].id])
    BY <1>3 DEF CopySound, Own
  <2>2. i \in Nat
    BY <1>1
  <2>3. Heading(recs, i, "dir") = recs[h].id
    BY <2>1, <2>2, HeadingIs
  <2>4. QED BY <2>1, <2>3
<1>4. ASSUME recs[i].kind = "dir", recs[i].loc[1] \notin cut
      PROVE  \/ \A f \in Range(FilesOf[recs[i].id]) : \E j \in 1 .. Len(recs) :
                    recs[j].id = f /\ Heading(recs, j, "dir") = recs[i].id
             \/ \A j \in i + 1 .. Len(recs) : recs[j].kind = "file"
  <2>1. WithFiles(recs, i) \/ Tailing(recs, i)
    BY <1>4 DEF CopySound, Intact
  <2>2. CASE Tailing(recs, i)
    <3>1. \A j \in i + 1 .. Len(recs) : j \in 1 .. Len(recs) /\ i < j
      BY <1>1
    <3>2. QED BY <2>2, <3>1 DEF Tailing
  <2>3. CASE WithFiles(recs, i)
    <3>1. ASSUME NEW f \in Range(FilesOf[recs[i].id])
          PROVE  \E j \in 1 .. Len(recs) : recs[j].id = f /\ Heading(recs, j, "dir") = recs[i].id
      <4>1. PICK j \in 1 .. Len(recs) : recs[j].id = f /\ Heads(recs, i, j, "dir")
        BY <2>3 DEF WithFiles
      <4>2. j \in Nat
        BY <1>1
      <4>3. Heading(recs, j, "dir") = recs[i].id
        BY <4>1, <4>2, HeadingIs
      <4>4. QED BY <4>1, <4>3
    <3>2. QED BY <3>1
  <2>4. QED BY <2>1, <2>2, <2>3
<1>5. QED BY <1>2, <1>3, <1>4

LEMMA LinksFollow ==
    ASSUME NEW recs, LinkSound(recs)
    PROVE  RightLinks(recs)
<1>1. Len(recs) \in Nat /\ DOMAIN recs = 1 .. Len(recs)
  BY LenProperties DEF LinkSound
<1>2. ASSUME NEW i \in 1 .. Len(recs), recs[i].kind = "file"
      PROVE  Meta(recs[i].loc) \subseteq {recs[i].id} /\ Inode[recs[i].id] = Heading(recs, i, "inode")
  <2>1. Meta(recs[i].loc) \subseteq {recs[i].id} /\ OwnLink(recs, i)
    BY <1>2 DEF LinkSound
  <2>2. PICK h : Heads(recs, h, i, "inode") /\ recs[h].id = Inode[recs[i].id]
    BY <2>1 DEF OwnLink
  <2>3. i \in Nat
    BY <1>1
  <2>4. Heading(recs, i, "inode") = recs[h].id
    BY <2>2, <2>3, HeadingIs
  <2>5. QED BY <2>1, <2>2, <2>4
<1>3. QED BY <1>1, <1>2 DEF RightLinks

LEMMA SoundFollows == FilesInv => SoundEntries
<1> SUFFICES ASSUME ScanInv, ControlInv PROVE SoundEntries
  BY DEF FilesInv
<1>1. PICK c, l : c = ctrl["copy"].recs /\ l = ctrl["hardlink"].recs
  OBVIOUS
<1>2. CopySound(c) /\ (l = <<>> \/ LinksFirst(l))
  BY <1>1 DEF ControlInv, Controlled
<1>3. LinkSound(l)
  <2>1. LinkSound(GroupRecords)
    BY GroupRecordsOf DEF LinksOf
  <2>2. CASE l = <<>>
    BY <2>2 DEF LinkSound
  <2>3. CASE LinksFirst(l)
    <3>1. PICK gs : gs = GroupRecords
      OBVIOUS
    <3>2. PICK n \in 0 .. Len(gs) : l = SubSeq(gs, 1, n)
      BY <2>3, <3>1 DEF LinksFirst
    <3>3. QED BY <2>1, <3>1, <3>2, LinkSoundFirst
  <2>4. QED BY <1>2, <2>2, <2>3
<1>4. RightCopy(ctrl["copy"].recs) /\ RightLinks(ctrl["hardlink"].recs)
  BY <1>1, <1>2, <1>3, CopyFollows, LinksFollow
<1>5. QED BY <1>4, Zenon DEF SoundEntries, RightCopy, RightLinks

LEMMA CompleteFollows == FilesInv => CompleteUnlessLost
<1> SUFFICES ASSUME ScanInv, ControlInv, phase = "complete", cut = {}, "generate" \notin errors
             PROVE  CompleteUnlessLost
  BY DEF FilesInv, CompleteUnlessLost
<1>1. PICK c, m, l : c = ctrl["copy"].recs /\ m = ctrl["mtime"].recs /\ l = ctrl["hardlink"].recs
  OBVIOUS
<1>2. Controlled(c, m, l, phase, errors, left)
  BY <1>1 DEF ControlInv
<1>3. /\ Once(c, "dir") /\ Ids(c, "dir") = Listed
      /\ Once(c, "file") /\ Ids(c, "file") = ListedFiles
      /\ Once(m, "mtime") /\ Ids(m, "mtime") = Listed
  BY <1>2 DEF Controlled, Generated, Whole
<1>4. ASSUME kind = "native", "hardlink" \notin errors
      PROVE  Once(l, "inode") /\ Once(l, "file") /\ {f \in ListedFiles : Links(f) > 1} \subseteq Ids(l, "file")
  <2>1. l = GroupRecords /\ queue = {}
    BY <1>2, <1>4 DEF Controlled, Linked
  <2>2. LinksOf(l, DOMAIN groups)
    BY <2>1, GroupRecordsOf
  <2>3. ASSUME NEW f \in ListedFiles, Links(f) > 1 PROVE f \in Ids(l, "file")
    <3>1. PICK d \in Listed : f \in Range(FilesOf[d])
      BY DEF ListedFiles
    <3>2. d \in Directories \ (queue \cup dropped)
      BY <2>1 DEF Listed
    <3>3. Has(groups, f)
      BY <1>4, <2>3, <3>1, <3>2 DEF ScanInv, Grouped
    <3>4. PICK i \in DOMAIN groups : \E k \in 1 .. Len(groups[i]) : groups[i][k].id = f
      BY <3>3 DEF Has
    <3>5. QED BY <2>2, <3>4 DEF LinksOf
  <2>4. QED BY <2>2, <2>3 DEF LinksOf
<1>5. QED BY <1>1, <1>3, <1>4 DEF CompleteUnlessLost

(* A segment of metadata is no larger than the limit, unless it is of one  *)
(* record, and a directory entry names a slice that is there: FilesTypeOK. *)
THEOREM FilesTypeCorrect == FilesSpec => []FilesTypeOK
<1>1. FilesSpec => []FilesInv
  BY FilesInductive, PTL DEF FilesSpec
<1>2. QED BY <1>1, TypeFollows, PTL

(* At every moment, and in whatever a crash leaves, what the control files *)
(* of the scan say is so: SoundEntries.                                    *)
THEOREM EntriesSound == FilesSpec => []SoundEntries
<1>1. FilesSpec => []FilesInv
  BY FilesInductive, PTL DEF FilesSpec
<1>2. QED BY <1>1, SoundFollows, PTL

(* A scan that is reported complete has every listing in its control files *)
(* exactly once, and every link: CompleteUnlessLost.                       *)
THEOREM ScanIsComplete == FilesSpec => []CompleteUnlessLost
<1>1. FilesSpec => []FilesInv
  BY FilesInductive, PTL DEF FilesSpec
<1>2. QED BY <1>1, CompleteFollows, PTL
=============================================================================
