----------------------- MODULE CheckpointedLoadProofs -----------------------
(***************************************************************************)
(* Theorems about CheckpointedLoad: whatever dies or raises, nothing is    *)
(* loaded twice, a resumed run skips only what is loaded, and the load     *)
(* implements ResumableLoad, for any plan, batches, workers and faults.    *)
(***************************************************************************)
EXTENDS CheckpointedLoad, FiniteSetTheorems, TLAPS

USE DEF checkpoint, main

-----------------------------------------------------------------------------
(* The inductive invariants, in layers: each is inductive given those      *)
(* before it.                                                              *)

NodeKinds == {"nodes", "smallNodes"}
PoolKinds == {"nodes", "smallNodes", "stream", "fts"}

\* The main thread is inside a phase only when there is one, and jobs are there
\* only while it is in a pool.
InPhase == pc \in {"pool", "failing", "truncate", "insert"}
JobsAreInPools == pc \notin {"pool", "failing"} => jobs = NoJobs

TypeInv ==
    /\ TypeOK
    /\ InPhase => phase \in Phases
    /\ JobsAreInPools

\* Where the main thread is in a phase, that phase is one it should be in.
PhaseIsCurrent ==
    /\ pc \in {"pool", "failing"} => Plan[phase] \in PoolKinds
    /\ pc \in {"truncate", "insert"} => Plan[phase] = "edges"
    /\ InPhase => phase \notin NoData /\ mem[phase].status # "completed"

\* A phase is completed in memory exactly when the file says so.
CompletionsAreSaved ==
    \A p \in Phases : mem[p].status = "completed" <=> disk[p].status = "completed"

PhasesInOrder ==
    pc # "down" => \A p \in Phases \ NoData : p < phase => disk[p].status = "completed"

\* Only the phases of a pool mark batches, and only phases with data are marked.
MarksArePlanned ==
    \A p \in Phases :
        /\ Plan[p] \notin PoolKinds => mem[p].batches = {} /\ disk[p].batches = {}
        /\ p \in NoData => disk[p].status # "completed"

ControlInv ==
    /\ PhaseIsCurrent
    /\ CompletionsAreSaved
    /\ PhasesInOrder
    /\ MarksArePlanned

\* Row x of phase p is in the database, or was rolled back.
Handled(p, x) == rows[p][x] > 0 \/ x \in lost[p]

JobsAreHandled ==
    \A b \in Batches :
        /\ jobs[b].state = "running" =>
              \A i \in Items : i \in jobs[b].left \cup jobs[b].open \/ <<b, i>> \in lost[phase]
        /\ jobs[b].state = "finished" => \A i \in Items : Handled(phase, <<b, i>>)

MarksAreHandled ==
    \A p \in Phases, b \in Batches :
        b \in mem[p].batches \cup disk[p].batches => \A i \in Items : Handled(p, <<b, i>>)

BatchesAreAccounted ==
    pc = "pool" =>
        \A b \in Batches : b \in todo \/ jobs[b] # NoJob \/ b \in mem[phase].batches

\* An edge phase inserts each chunk once into a table it has emptied.
ChunksAreInsertedOnce ==
    pc = "insert" =>
        \A x \in Rows : /\ x[1] \in todo => rows[phase][x] = 0
                        /\ x \in Resolvable(phase) => x[1] \in todo \/ rows[phase][x] > 0

EmptyPhasesHaveNoRows == \A p \in NoData : \A x \in Rows : rows[p][x] = 0

\* A row of phase p is missing because it, or an end of it, was rolled back.
IsExcused(p, x) == \E q \in Ends[p] \cup {p} : x \in lost[q]

CompletedIsLoaded ==
    \A p \in Phases :
        disk[p].status = "completed" =>
            \A x \in RowsOf[p] : rows[p][x] > 0 \/ IsExcused(p, x)

DataInv ==
    /\ JobsAreHandled
    /\ MarksAreHandled
    /\ BatchesAreAccounted
    /\ ChunksAreInsertedOnce
    /\ EmptyPhasesHaveNoRows
    /\ CompletedIsLoaded
    /\ NoDuplicates

\* The marks that are not in the file: as many as the counter says, at most.
Unsaved == {x \in Phases \X Batches : x[2] \in mem[x[1]].batches \ disk[x[1]].batches}
RiskInv == IsFiniteSet(Unsaved) /\ Cardinality(Unsaved) <= dirty

-----------------------------------------------------------------------------
(* Facts about the constants.                                              *)

LEMMA PhaseFacts ==
    /\ Len(Plan) \in Nat
    /\ Phases = 1..Len(Plan)
    /\ \A p \in Phases : p \in Nat /\ Plan[p] \in Kinds
BY PlanAssumption DEF Phases

LEMMA RowFacts ==
    /\ \A b \in Batches, i \in Items : <<b, i>> \in Rows
    /\ \A x \in Rows : x[1] \in Batches /\ x[2] \in Items /\ x = <<x[1], x[2]>>
BY DEF Rows

-----------------------------------------------------------------------------
(* Type correctness.                                                       *)

LEMMA EmptyType == Empty \in [Phases -> Record]
BY DEF Empty, Record

LEMMA MarkPhaseTypes ==
    ASSUME TypeOK, NEW p \in Phases, MarkPhaseDone(p)
    PROVE  /\ mem' \in [Phases -> Record]
           /\ disk' \in [Phases -> Record]
           /\ dirty' \in 0..FlushInterval - 1
BY DEF TypeOK, MarkPhaseDone, Record

LEMMA MarkBatchTypes ==
    ASSUME TypeOK, NEW p \in Phases, NEW b \in Batches, MarkBatchDone(p, b)
    PROVE  /\ mem' \in [Phases -> Record]
           /\ disk' \in [Phases -> Record]
           /\ dirty' \in 0..FlushInterval - 1
<1>1. mem' \in [Phases -> Record]
  <2>1. mem[p].batches \cup {b} \in SUBSET Batches
    BY DEF TypeOK, Record
  <2>2. [status |-> "in_progress", batches |-> mem[p].batches \cup {b}] \in Record
    BY <2>1 DEF Record
  <2> QED BY <2>2 DEF TypeOK, MarkBatchDone
<1>2. dirty' \in 0..FlushInterval - 1
  BY SizesAssumption DEF TypeOK, MarkBatchDone, FlushDue
<1>3. disk' \in [Phases -> Record]
  BY <1>1 DEF TypeOK, MarkBatchDone
<1> QED BY <1>1, <1>2, <1>3

\* What the main thread leaves alone when it moves on to the next phase.
LEMMA GoOnTypes ==
    ASSUME TypeOK, phase \in Phases, GoOn
    PROVE  /\ phase' \in 1..Len(Plan) + 1
           /\ pc' = "enter" /\ todo' = {}
BY PhaseFacts DEF TypeOK, GoOn

LEMMA WorkingType ==
    ASSUME NEW left \in SUBSET Items, NEW open \in SUBSET Items,
           NEW counted \in SUBSET Items, NEW path \in BOOLEAN
    PROVE  Working(left, open, counted, path) \in Running
BY DEF Working, Running

\* A running batch has the fields of Running, no other job is running.
LEMMA RunningFields ==
    ASSUME TypeOK, NEW b \in Batches, jobs[b].state = "running"
    PROVE  /\ jobs[b] \in Running
           /\ jobs[b].left \subseteq Items /\ jobs[b].open \subseteq Items
           /\ jobs[b].counted \subseteq Items /\ jobs[b].path \in BOOLEAN
<1>1. jobs[b] \in {NoJob, Queued, Failed} \cup Running \cup Finished
  BY DEF TypeOK
<1>2. jobs[b] \in Running
  BY <1>1 DEF NoJob, Queued, Failed, Running, Finished
<1> QED BY <1>2 DEF Running

JobTypes == {NoJob, Queued, Failed} \cup Running \cup Finished

LEMMA TypeInit == Init => TypeInv
BY EmptyType, PhaseFacts, SizesAssumption DEF Init, TypeOK, NoJobs, TypeInv, InPhase, JobsAreInPools

LEMMA JobUpdateType ==
    ASSUME TypeOK, NEW b \in Batches, NEW j \in JobTypes,
           jobs' = [jobs EXCEPT ![b] = j]
    PROVE  jobs' \in [Batches -> JobTypes]
BY DEF TypeOK, JobTypes

LEMMA LostType ==
    ASSUME TypeOK, NEW b \in Batches, NEW X \in SUBSET Items, RolledBack(b, X)
    PROVE  lost' \in [Phases -> SUBSET Rows]
<1>1. {<<b, i>> : i \in X} \subseteq Rows
  BY RowFacts
<1> QED BY <1>1 DEF TypeOK, RolledBack

LEMMA UpsertedType ==
    ASSUME TypeOK, NEW p \in Phases, NEW b, NEW X
    PROVE  Upserted(p, b, X) \in [Phases -> [Rows -> Nat]]
BY DEF TypeOK, Upserted

LEMMA InsertedType ==
    ASSUME TypeOK, NEW p \in Phases, NEW X
    PROVE  Inserted(p, X) \in [Phases -> [Rows -> Nat]]
BY DEF TypeOK, Inserted

LEMMA TruncatedType ==
    ASSUME TypeOK, NEW p \in Phases
    PROVE  Truncated(p) \in [Phases -> [Rows -> Nat]]
BY DEF TypeOK, Truncated

LEMMA TypeMain == TypeInv /\ (Start \/ StartReset \/ Crash \/ MainStep) => TypeInv'
<1> SUFFICES ASSUME TypeInv, Start \/ StartReset \/ Crash \/ MainStep
             PROVE  TypeInv'
  OBVIOUS
<1> NoJobs \in [Batches -> JobTypes]
  BY DEF NoJobs, JobTypes
<1>1. CASE Start
  BY <1>1, PhaseFacts, SizesAssumption DEF Start, TypeOK, TypeInv, InPhase, JobsAreInPools
<1>2. CASE StartReset
  BY <1>2, PhaseFacts, SizesAssumption, EmptyType DEF StartReset, Fault, TypeOK, TypeInv, InPhase, JobsAreInPools
<1>3. CASE Crash
  BY <1>3 DEF Crash, Fault, TypeOK, TypeInv, InPhase, JobsAreInPools, JobTypes
<1>4. CASE SkipPhase
  BY <1>4, GoOnTypes DEF SkipPhase, TypeOK, TypeInv, InPhase, JobsAreInPools
<1>5. CASE RunStep
  BY <1>5, GoOnTypes, MarkPhaseTypes DEF RunStep, Enters, TypeOK, TypeInv, InPhase, JobsAreInPools
<1>6. CASE EnterPool
  BY <1>6 DEF EnterPool, Enters, TypeOK, TypeInv, InPhase, JobsAreInPools
<1>7. CASE PoolDone
  <2>1. jobs = NoJobs
    BY <1>7 DEF PoolDone, InFlight, NoJobs, TypeOK, TypeInv
  <2> QED BY <2>1, <1>7, GoOnTypes, MarkPhaseTypes DEF PoolDone, TypeOK, TypeInv, InPhase, JobsAreInPools
<1>8. CASE IteratorRaises
  BY <1>8 DEF IteratorRaises, Fault, TypeOK, TypeInv, InPhase, JobsAreInPools
<1>9. CASE EnterEdges
  BY <1>9, GoOnTypes, MarkPhaseTypes DEF EnterEdges, Enters, TypeOK, TypeInv, InPhase, JobsAreInPools
<1>10. CASE TruncateEdges
  BY <1>10, TruncatedType DEF TruncateEdges, TypeOK, TypeInv, InPhase, JobsAreInPools
<1>11. CASE EdgesDone
  BY <1>11, GoOnTypes, MarkPhaseTypes DEF EdgesDone, TypeOK, TypeInv, InPhase, JobsAreInPools
<1>12. CASE Exit
  BY <1>12, SizesAssumption DEF Exit, TypeOK, TypeInv, InPhase, JobsAreInPools
<1>13. CASE ExitFailing
  BY <1>13 DEF ExitFailing, TypeOK, TypeInv, InPhase, JobsAreInPools, JobTypes
<1>14. ASSUME NEW b \in Batches, Submit(b)
       PROVE  TypeInv'
  BY <1>14, JobUpdateType DEF Submit, TypeOK, TypeInv, InPhase, JobsAreInPools, JobTypes
<1>15. ASSUME NEW b \in Batches, Collect(b)
       PROVE  TypeInv'
  BY <1>15, JobUpdateType, MarkBatchTypes DEF Collect, Collects, TypeOK, TypeInv, InPhase, JobsAreInPools, JobTypes
<1>16. ASSUME NEW b \in Batches, CollectRaises(b)
       PROVE  TypeInv'
  BY <1>16 DEF CollectRaises, Collects, TypeOK, TypeInv, InPhase, JobsAreInPools
<1>17. ASSUME NEW b \in Batches, InsertChunk(b)
       PROVE  TypeInv'
  BY <1>17, InsertedType DEF InsertChunk, TypeOK, TypeInv, InPhase, JobsAreInPools
<1> QED
  BY <1>1, <1>2, <1>3, <1>4, <1>5, <1>6, <1>7, <1>8, <1>9, <1>10, <1>11, <1>12, <1>13,
     <1>14, <1>15, <1>16, <1>17 DEF MainStep

\* Workers are at work only while the main thread is in a pool.
LEMMA WorkerIsInPool ==
    ASSUME TypeInv, NEW b \in Batches, WorkerStep(b)
    PROVE  pc \in {"pool", "failing"} /\ phase \in Phases
<1>1. jobs[b] = Queued \/ jobs[b].state = "running"
  BY DEF WorkerStep, TakeBatch, MergeItem, MergeRaises, MergeRetried, UpsertBatch,
         CommitBatch, BatchRaises
<1>2. jobs # NoJobs
  BY <1>1 DEF NoJobs, NoJob, Queued
<1> QED BY <1>2 DEF TypeInv, JobsAreInPools, InPhase

LEMMA TypeWorker ==
    ASSUME TypeInv, NEW b \in Batches, WorkerStep(b)
    PROVE  TypeInv'
<1> phase \in Phases /\ pc \in {"pool", "failing"}
  BY WorkerIsInPool
<1> USE DEF TypeInv, InPhase, JobsAreInPools
<1>1. CASE TakeBatch(b)
  <2>1. Working(Items, {}, {}, TRUE) \in JobTypes
    BY WorkingType DEF JobTypes
  <2> QED BY <2>1, <1>1, JobUpdateType DEF TakeBatch, TypeOK, JobTypes
<1>2. ASSUME NEW i \in jobs[b].left, jobs[b].state = "running",
             jobs' = [jobs EXCEPT ![b] =
                Working(@.left \ {i}, @.open \cup {i}, @.counted \cup {i}, TRUE)]
      PROVE  jobs' \in [Batches -> JobTypes]
  <2>1. Working(jobs[b].left \ {i}, jobs[b].open \cup {i}, jobs[b].counted \cup {i}, TRUE)
            \in JobTypes
    BY <1>2, RunningFields, WorkingType DEF JobTypes
  <2> QED BY <2>1, <1>2, JobUpdateType
<1>3. CASE MergeItem(b)
  BY <1>2, <1>3 DEF MergeItem, TypeOK, JobTypes
<1>4. CASE MergeRaises(b)
  <2>1. PICK i \in jobs[b].left, kept \in BOOLEAN :
          /\ jobs' = [jobs EXCEPT ![b] = Working(@.left \ {i}, {}, @.counted, kept)]
          /\ RolledBack(b, jobs[b].open \cup {i})
    BY <1>4 DEF MergeRaises
  <2>2. Working(jobs[b].left \ {i}, {}, jobs[b].counted, kept) \in JobTypes
    BY <1>4, RunningFields, WorkingType DEF JobTypes, MergeRaises
  <2>3. jobs[b].open \cup {i} \in SUBSET Items
    BY <1>4, RunningFields DEF MergeRaises
  <2>4. lost' \in [Phases -> SUBSET Rows]
    BY <2>1, <2>3, LostType
  <2>5. jobs' \in [Batches -> JobTypes]
    BY <2>1, <2>2, JobUpdateType
  <2>6. faults' \in Nat
    BY <1>4 DEF MergeRaises, Fault, TypeOK
  <2> QED BY <2>4, <2>5, <2>6, <1>4 DEF MergeRaises, TypeOK, JobTypes
<1>5. CASE MergeRetried(b)
  <2>1. PICK i \in jobs[b].left :
          jobs' = [jobs EXCEPT ![b] =
                      Working(@.left \ {i}, {i}, @.counted \cup {i}, TRUE)]
    BY <1>5 DEF MergeRetried
  <2>2. Working(jobs[b].left \ {i}, {i}, jobs[b].counted \cup {i}, TRUE) \in JobTypes
    BY <1>5, RunningFields, WorkingType DEF JobTypes, MergeRetried
  <2>3. jobs[b].open \in SUBSET Items
    BY <1>5, RunningFields DEF MergeRetried
  <2>4. lost' \in [Phases -> SUBSET Rows]
    BY <1>5, <2>3, LostType DEF MergeRetried
  <2>5. jobs' \in [Batches -> JobTypes]
    BY <2>1, <2>2, JobUpdateType
  <2>6. faults' \in Nat /\ UNCHANGED <<disk, mem, dirty, phase, pc, todo, rows>>
    BY <1>5 DEF MergeRetried, Fault, TypeOK
  <2> QED BY <2>4, <2>5, <2>6 DEF TypeOK, JobTypes
<1>6. CASE UpsertBatch(b)
  <2>1. Working({}, Items, Items, TRUE) \in JobTypes
    BY WorkingType DEF JobTypes
  <2> QED BY <2>1, <1>6, JobUpdateType DEF UpsertBatch, TypeOK, JobTypes
<1>7. CASE CommitBatch(b)
  <2>1. [state |-> "finished", counted |-> jobs[b].counted] \in JobTypes
    BY <1>7, RunningFields DEF CommitBatch, JobTypes, Finished
  <2>2. jobs' \in [Batches -> JobTypes]
    BY <2>1, <1>7, JobUpdateType DEF CommitBatch
  <2> QED BY <2>2, <1>7, UpsertedType DEF CommitBatch, TypeOK, JobTypes
<1>8. CASE BatchRaises(b)
  BY <1>8, JobUpdateType DEF BatchRaises, Fault, TypeOK, JobTypes
<1> QED BY <1>1, <1>3, <1>4, <1>5, <1>6, <1>7, <1>8 DEF WorkerStep

LEMMA TypeNext == TypeInv /\ [Next]_vars => TypeInv'
<1> SUFFICES ASSUME TypeInv, [Next]_vars PROVE TypeInv'
  OBVIOUS
<1>1. CASE Start \/ StartReset \/ Crash \/ MainStep
  BY <1>1, TypeMain
<1>2. CASE \E b \in Batches : WorkerStep(b)
  BY <1>2, TypeWorker
<1>3. CASE UNCHANGED vars
  BY <1>3 DEF vars, TypeInv, TypeOK, InPhase, JobsAreInPools
<1> QED BY <1>1, <1>2, <1>3 DEF Next

\* TypeOK: every variable of the load keeps its type, and the counter of unsaved
\* marks stays below _FLUSH_INTERVAL.
THEOREM TypeCorrect == Spec => []TypeOK
<1>1. Spec => []TypeInv
  BY TypeInit, TypeNext, PTL DEF Spec
<1>2. TypeInv => TypeOK
  BY DEF TypeInv
<1> QED BY <1>1, <1>2, PTL

-----------------------------------------------------------------------------
(* The phases are recorded in order.                                       *)

LEMMA ControlInit == Init => ControlInv
BY DEF Init, Empty, ControlInv, PhaseIsCurrent, InPhase, CompletionsAreSaved,
       PhasesInOrder, MarksArePlanned

\* What workers leave alone.
LEMMA WorkerFrame ==
    ASSUME NEW b \in Batches, WorkerStep(b)
    PROVE  UNCHANGED <<disk, mem, dirty, phase, pc, todo>>
BY DEF WorkerStep, TakeBatch, MergeItem, MergeRaises, MergeRetried, UpsertBatch,
       CommitBatch, BatchRaises

\* A step that marks the phase it is at and goes on.
LEMMA MarkedPhase ==
    ASSUME TypeInv, NEW p \in Phases, MarkPhaseDone(p)
    PROVE  /\ disk' = mem'
           /\ mem'[p].status = "completed" /\ mem'[p].batches = {}
           /\ \A q \in Phases : q # p => mem'[q] = mem[q]
BY DEF TypeInv, TypeOK, MarkPhaseDone

LEMMA ControlMarked ==
    ASSUME TypeInv, ControlInv, phase \in Phases \ NoData, pc # "down",
           MarkPhaseDone(phase), GoOn
    PROVE  ControlInv'
<1> /\ phase \in Nat
    /\ disk' = mem'
    /\ mem'[phase].status = "completed" /\ mem'[phase].batches = {}
    /\ \A q \in Phases : q # phase => mem'[q] = mem[q]
    /\ \A q \in Phases : q \in Nat
  BY MarkedPhase, PhaseFacts
<1>1. PhaseIsCurrent'
  BY DEF GoOn, PhaseIsCurrent, InPhase
<1>2. CompletionsAreSaved'
  BY DEF CompletionsAreSaved
<1>3. PhasesInOrder'
  <2> SUFFICES ASSUME NEW q \in Phases \ NoData, q < phase + 1
               PROVE  disk'[q].status = "completed"
    BY DEF PhasesInOrder, GoOn
  <2>1. CASE q = phase
    BY <2>1
  <2>2. CASE q # phase
    <3>1. q < phase
      BY <2>2
    <3>2. mem[q].status = "completed"
      BY <3>1 DEF ControlInv, CompletionsAreSaved, PhasesInOrder
    <3> QED BY <2>2, <3>2
  <2> QED BY <2>1, <2>2
<1>4. MarksArePlanned'
  <2> SUFFICES ASSUME NEW q \in Phases
               PROVE  /\ Plan[q] \notin PoolKinds => mem'[q].batches = {}
                      /\ q \in NoData => mem'[q].status # "completed"
    BY DEF MarksArePlanned
  <2> QED BY DEF ControlInv, CompletionsAreSaved, MarksArePlanned
<1> QED BY <1>1, <1>2, <1>3, <1>4 DEF ControlInv

LEMMA ControlCollect ==
    ASSUME TypeInv, ControlInv, NEW b \in Batches, Collect(b)
    PROVE  ControlInv'
<1> USE DEF Collect, Collects, TypeInv, InPhase
<1> /\ phase \in Phases
    /\ mem[phase].status # "completed" /\ disk[phase].status # "completed"
    /\ Plan[phase] \in PoolKinds /\ phase \notin NoData
  BY DEF ControlInv, PhaseIsCurrent, CompletionsAreSaved
<1>1. /\ mem'[phase].status = "in_progress"
      /\ \A q \in Phases : q # phase => mem'[q] = mem[q]
      /\ disk' = mem' \/ disk' = disk
  BY DEF MarkBatchDone, TypeOK
<1>2. PhaseIsCurrent'
  BY <1>1 DEF ControlInv, PhaseIsCurrent
<1>3. CompletionsAreSaved'
  BY <1>1 DEF ControlInv, CompletionsAreSaved
<1>4. PhasesInOrder'
  <2> SUFFICES ASSUME NEW q \in Phases \ NoData, q < phase
               PROVE  disk'[q].status = "completed"
    BY DEF PhasesInOrder
  <2>1. q # phase /\ disk[q].status = "completed" /\ mem[q].status = "completed"
    BY PhaseFacts DEF ControlInv, PhasesInOrder, CompletionsAreSaved
  <2> QED BY <1>1, <2>1
<1>5. MarksArePlanned'
  <2> SUFFICES ASSUME NEW q \in Phases
               PROVE  /\ Plan[q] \notin PoolKinds => mem'[q].batches = {} /\ disk'[q].batches = {}
                      /\ q \in NoData => disk'[q].status # "completed"
    BY DEF MarksArePlanned
  <2> QED BY <1>1 DEF ControlInv, CompletionsAreSaved, MarksArePlanned
<1> QED BY <1>2, <1>3, <1>4, <1>5 DEF ControlInv

\* Steps of the main thread that leave the checkpoint alone, or only reread it.
LEMMA ControlNext == TypeInv /\ ControlInv /\ [Next]_vars => ControlInv'
<1> SUFFICES ASSUME TypeInv, ControlInv, [Next]_vars PROVE ControlInv'
  OBVIOUS
<1> USE DEF ControlInv, PhaseIsCurrent, InPhase, CompletionsAreSaved, PhasesInOrder,
            MarksArePlanned, TypeInv
<1>1. CASE Start
  BY <1>1, PhaseFacts DEF Start
<1>2. CASE StartReset
  BY <1>2, PhaseFacts DEF StartReset, Empty
<1>3. CASE Crash
  BY <1>3 DEF Crash
<1>4. CASE SkipPhase
  BY <1>4, PhaseFacts DEF SkipPhase, GoOn
<1>5. CASE RunStep
  BY <1>5, ControlMarked DEF RunStep, Enters
<1>6. CASE EnterPool
  BY <1>6 DEF EnterPool, Enters, PoolKinds
<1>7. CASE PoolDone
  BY <1>7, ControlMarked DEF PoolDone
<1>8. CASE IteratorRaises
  BY <1>8 DEF IteratorRaises
<1>9. CASE EnterEdges
  BY <1>9, ControlMarked DEF EnterEdges, Enters
<1>10. CASE TruncateEdges
  BY <1>10 DEF TruncateEdges
<1>11. CASE EdgesDone
  BY <1>11, ControlMarked DEF EdgesDone
<1>12. CASE Exit
  BY <1>12 DEF Exit
<1>13. CASE ExitFailing
  BY <1>13 DEF ExitFailing
<1>14. ASSUME NEW b \in Batches, Submit(b) \/ CollectRaises(b) \/ InsertChunk(b)
       PROVE  ControlInv'
  BY <1>14 DEF Submit, CollectRaises, Collects, InsertChunk
<1>15. ASSUME NEW b \in Batches, Collect(b)
       PROVE  ControlInv'
  BY <1>15, ControlCollect
<1>16. ASSUME NEW b \in Batches, WorkerStep(b)
       PROVE  ControlInv'
  BY <1>16, WorkerFrame
<1>17. CASE UNCHANGED vars
  BY <1>17 DEF vars
<1> QED
  BY <1>1, <1>2, <1>3, <1>4, <1>5, <1>6, <1>7, <1>8, <1>9, <1>10, <1>11, <1>12, <1>13,
     <1>14, <1>15, <1>16, <1>17 DEF Next, MainStep

-----------------------------------------------------------------------------
(* What the steps do to the database and to the marks.                     *)

LEMMA DataInit == Init => DataInv
<1> SUFFICES ASSUME Init PROVE DataInv
  OBVIOUS
<1>1. JobsAreHandled
  BY DEF Init, JobsAreHandled, NoJobs, NoJob
<1>2. MarksAreHandled /\ BatchesAreAccounted /\ ChunksAreInsertedOnce /\ CompletedIsLoaded
  BY DEF Init, Empty, MarksAreHandled, BatchesAreAccounted, ChunksAreInsertedOnce,
         CompletedIsLoaded
<1>3. EmptyPhasesHaveNoRows /\ NoDuplicates
  BY NoDataAssumption DEF Init, EmptyPhasesHaveNoRows, NoDuplicates, Phases
<1> QED BY <1>1, <1>2, <1>3 DEF DataInv

LEMMA RowsFrame ==
    ASSUME [Next]_vars, rows' # rows
    PROVE  TruncateEdges \/ \E b \in Batches : CommitBatch(b) \/ InsertChunk(b)
BY DEF Next, Start, StartReset, Crash, MainStep, SkipPhase, RunStep, EnterPool,
       PoolDone, IteratorRaises, EnterEdges, EdgesDone, Exit, ExitFailing, Submit,
       Collect, CollectRaises, WorkerStep, TakeBatch, MergeItem, MergeRaises,
       MergeRetried, UpsertBatch, BatchRaises, vars

LEMMA LostFrame ==
    ASSUME [Next]_vars, lost' # lost
    PROVE  \E b \in Batches : MergeRaises(b) \/ MergeRetried(b)
BY DEF Next, Start, StartReset, Crash, MainStep, SkipPhase, RunStep, EnterPool,
       PoolDone, IteratorRaises, EnterEdges, TruncateEdges, EdgesDone, Exit,
       ExitFailing, Submit, Collect, CollectRaises, InsertChunk, WorkerStep, TakeBatch,
       MergeItem, CommitBatch, UpsertBatch, BatchRaises, vars

LEMMA LostGrows ==
    ASSUME TypeInv, [Next]_vars, NEW p \in Phases
    PROVE  lost[p] \subseteq lost'[p]
<1>1. CASE lost' = lost
  BY <1>1
<1>2. CASE lost' # lost
  <2>1. PICK X : lost' = [lost EXCEPT ![phase] = @ \cup X]
    BY <1>2, LostFrame DEF MergeRaises, MergeRetried, RolledBack
  <2> QED BY <2>1 DEF TypeInv, TypeOK
<1> QED BY <1>1, <1>2

\* The row counts after each of the three steps that change them.
LEMMA UpsertedRows ==
    ASSUME TypeInv, NEW b \in Batches, NEW X, phase \in Phases,
           rows' = Upserted(phase, b, X)
    PROVE  /\ \A p \in Phases : p # phase => rows'[p] = rows[p]
           /\ \A x \in Rows : rows'[phase][x] =
                  IF x[1] = b /\ x[2] \in X THEN 1 ELSE rows[phase][x]
BY DEF Upserted, TypeInv, TypeOK

LEMMA InsertedRows ==
    ASSUME TypeInv, NEW X, phase \in Phases, rows' = Inserted(phase, X)
    PROVE  /\ \A p \in Phases : p # phase => rows'[p] = rows[p]
           /\ \A x \in Rows : rows'[phase][x] =
                  IF x \in X THEN rows[phase][x] + 1 ELSE rows[phase][x]
BY DEF Inserted, TypeInv, TypeOK

LEMMA TruncatedRows ==
    ASSUME TypeInv, phase \in Phases, rows' = Truncated(phase)
    PROVE  /\ \A p \in Phases : p # phase => rows'[p] = rows[p]
           /\ \A x \in Rows : rows'[phase][x] = 0
BY DEF Truncated, TypeInv, TypeOK

\* Rows change only in the phase the main thread is in.
LEMMA OtherRowsFrame ==
    ASSUME TypeInv, [Next]_vars, rows' # rows
    PROVE  /\ InPhase /\ phase \in Phases
           /\ \A p \in Phases : p # phase => rows'[p] = rows[p]
<1>1. CASE TruncateEdges
  BY <1>1, TruncatedRows DEF TruncateEdges, InPhase, TypeInv
<1>2. ASSUME NEW b \in Batches, CommitBatch(b)
      PROVE  /\ InPhase /\ phase \in Phases
             /\ \A p \in Phases : p # phase => rows'[p] = rows[p]
  <2>1. WorkerStep(b)
    BY <1>2 DEF WorkerStep
  <2>2. InPhase /\ phase \in Phases
    BY <2>1, WorkerIsInPool DEF InPhase
  <2> QED BY <1>2, <2>2, UpsertedRows DEF CommitBatch
<1>3. ASSUME NEW b \in Batches, InsertChunk(b)
      PROVE  /\ InPhase /\ phase \in Phases
             /\ \A p \in Phases : p # phase => rows'[p] = rows[p]
  BY <1>3, InsertedRows DEF InsertChunk, InPhase, TypeInv
<1> QED BY <1>1, <1>2, <1>3, RowsFrame

\* A row that is there, or was rolled back, stays so until its table is emptied.
LEMMA HandledStays ==
    ASSUME TypeInv, [Next]_vars, NEW p \in Phases, NEW x \in Rows, Handled(p, x),
           ~(TruncateEdges /\ p = phase)
    PROVE  Handled(p, x)'
<1>1. CASE x \in lost[p]
  BY <1>1, LostGrows DEF Handled
<1>2. CASE rows'[p] = rows[p]
  BY <1>1, <1>2 DEF Handled
<1>3. CASE rows'[p] # rows[p] /\ rows[p][x] > 0
  <2>1. rows' # rows /\ p = phase
    BY <1>3, OtherRowsFrame
  <2>2. PICK b \in Batches : CommitBatch(b) \/ InsertChunk(b)
    BY <2>1, RowsFrame
  <2>3. CASE CommitBatch(b)
    <3>1. rows'[phase][x] = 1 \/ rows'[phase][x] = rows[phase][x]
      BY <2>1, <2>3, UpsertedRows DEF CommitBatch
    <3> QED BY <1>3, <2>1, <3>1 DEF Handled
  <2>4. CASE InsertChunk(b)
    <3>1. rows[phase][x] \in Nat
      BY <2>1 DEF TypeInv, TypeOK
    <3>2. rows'[phase][x] = rows[phase][x] + 1 \/ rows'[phase][x] = rows[phase][x]
      BY <2>1, <2>4, InsertedRows DEF InsertChunk
    <3> QED BY <1>3, <2>1, <3>1, <3>2 DEF Handled
  <2> QED BY <2>2, <2>3, <2>4
<1> QED BY <1>1, <1>2, <1>3 DEF Handled

\* The only new mark is the one of a batch that is collected.
LEMMA MarksFrame ==
    ASSUME TypeInv, [Next]_vars, NEW p \in Phases, NEW b \in Batches,
           b \in mem'[p].batches \cup disk'[p].batches,
           b \notin mem[p].batches \cup disk[p].batches
    PROVE  Collect(b) /\ p = phase
<1>1. ASSUME phase \in Phases, MarkPhaseDone(phase)
      PROVE  FALSE
  BY <1>1, MarkedPhase
<1>2. ASSUME NEW c \in Batches, Collect(c)
      PROVE  c = b /\ p = phase
  <2>1. phase \in Phases /\ MarkBatchDone(phase, c)
    BY <1>2 DEF Collect, Collects, TypeInv, InPhase
  <2>2. /\ mem'[phase].batches = mem[phase].batches \cup {c}
        /\ \A q \in Phases : q # phase => mem'[q] = mem[q]
        /\ disk' = mem' \/ disk' = disk
    BY <2>1 DEF MarkBatchDone, TypeInv, TypeOK
  <2> QED BY <2>2
<1>3. CASE UNCHANGED <<disk, mem>>
  BY <1>3
<1>4. CASE Start
  BY <1>4 DEF Start
<1>5. CASE StartReset
  BY <1>5 DEF StartReset, Empty
<1>6. CASE Exit
  BY <1>6 DEF Exit
<1>7. CASE RunStep \/ EnterEdges
  BY <1>1, <1>3, <1>7 DEF RunStep, EnterEdges, Enters
<1>8. CASE PoolDone \/ EdgesDone
  BY <1>1, <1>8 DEF PoolDone, EdgesDone, TypeInv, InPhase
<1>9. CASE \E c \in Batches : WorkerStep(c)
  BY <1>3, <1>9, WorkerFrame
<1>10. CASE Crash \/ SkipPhase \/ EnterPool \/ IteratorRaises \/ TruncateEdges \/ ExitFailing
            \/ \E c \in Batches : Submit(c) \/ CollectRaises(c) \/ InsertChunk(c)
  BY <1>3, <1>10 DEF Crash, SkipPhase, EnterPool, IteratorRaises, TruncateEdges,
                     ExitFailing, Submit, CollectRaises, InsertChunk
<1> QED
  BY <1>2, <1>3, <1>4, <1>5, <1>6, <1>7, <1>8, <1>9, <1>10 DEF Next, MainStep, vars

\* An edge phase is not in a pool and has no marks.
LEMMA NoMarksWhereTruncated ==
    ASSUME TypeInv, ControlInv, TruncateEdges
    PROVE  /\ phase \in Phases /\ disk[phase].status # "completed"
           /\ mem[phase].batches = {} /\ disk[phase].batches = {}
           /\ jobs = NoJobs
BY DEF TruncateEdges, TypeInv, InPhase, JobsAreInPools, ControlInv, PhaseIsCurrent,
       MarksArePlanned, PoolKinds, CompletionsAreSaved

LEMMA MarksNext ==
    ASSUME TypeInv, ControlInv, DataInv, [Next]_vars
    PROVE  MarksAreHandled'
<1> SUFFICES ASSUME NEW p \in Phases, NEW b \in Batches, NEW i \in Items,
                    b \in mem'[p].batches \cup disk'[p].batches
             PROVE  Handled(p, <<b, i>>)'
  BY DEF MarksAreHandled
<1>1. <<b, i>> \in Rows
  BY RowFacts
<1>2. CASE b \in mem[p].batches \cup disk[p].batches
  <2>1. Handled(p, <<b, i>>)
    BY <1>2 DEF DataInv, MarksAreHandled
  <2>2. ~(TruncateEdges /\ p = phase)
    BY <1>2, NoMarksWhereTruncated
  <2> QED BY <1>1, <2>1, <2>2, HandledStays
<1>3. CASE b \notin mem[p].batches \cup disk[p].batches
  <2>1. Collect(b) /\ p = phase
    BY <1>3, MarksFrame
  <2>2. Handled(p, <<b, i>>)
    BY <2>1 DEF Collect, Answered, DataInv, JobsAreHandled
  <2>3. ~TruncateEdges
    BY <2>1 DEF Collect, Collects, TruncateEdges
  <2> QED BY <1>1, <2>2, <2>3, HandledStays
<1> QED BY <1>2, <1>3

-----------------------------------------------------------------------------
(* Batches: every item of a batch that ends was committed or rolled back.  *)

LEMMA LostRows ==
    ASSUME TypeInv, phase \in Phases, NEW b \in Batches, NEW X, RolledBack(b, X)
    PROVE  \A i \in X : <<b, i>> \in lost'[phase]
<1>1. lost'[phase] = lost[phase] \cup {<<b, i>> : i \in X}
  BY DEF RolledBack, TypeInv, TypeOK
<1> QED BY <1>1

LEMMA UpdatedJob ==
    ASSUME TypeInv, NEW b \in Batches, NEW j, jobs' = [jobs EXCEPT ![b] = j]
    PROVE  jobs'[b] = j
BY DEF TypeInv, TypeOK

\* The job a worker is at after its step.
LEMMA WorkerJob ==
    ASSUME TypeInv, DataInv, [Next]_vars, NEW b \in Batches, WorkerStep(b)
    PROVE  /\ jobs'[b].state = "running" =>
                 \A i \in Items : i \in jobs'[b].left \cup jobs'[b].open
                                    \/ <<b, i>> \in lost'[phase]
           /\ jobs'[b].state = "finished" => \A i \in Items : Handled(phase, <<b, i>>)'
           /\ jobs'[b] # NoJob
<1> phase \in Phases /\ pc \in {"pool", "failing"} /\ phase' = phase
  BY WorkerIsInPool, WorkerFrame
<1> lost[phase] \subseteq lost'[phase]
  BY LostGrows
<1> ~TruncateEdges
  BY DEF TruncateEdges
<1>0. ASSUME jobs[b].state = "running"
      PROVE  \A i \in Items : i \in jobs[b].left \cup jobs[b].open \/ <<b, i>> \in lost'[phase]
  BY <1>0 DEF DataInv, JobsAreHandled
<1>a. ASSUME jobs'[b].state = "running",
             \A i \in Items : i \in jobs'[b].left \cup jobs'[b].open \/ <<b, i>> \in lost'[phase]
      PROVE  /\ jobs'[b].state = "running" =>
                   \A i \in Items : i \in jobs'[b].left \cup jobs'[b].open
                                      \/ <<b, i>> \in lost'[phase]
             /\ jobs'[b].state = "finished" => \A i \in Items : Handled(phase, <<b, i>>)'
             /\ jobs'[b] # NoJob
  BY <1>a DEF NoJob
<1>1. CASE TakeBatch(b)
  <2>1. jobs'[b] = Working(Items, {}, {}, TRUE)
    BY <1>1, UpdatedJob DEF TakeBatch
  <2>2. jobs'[b].state = "running" /\ jobs'[b].left = Items
    BY <2>1 DEF Working
  <2> QED BY <2>2, <1>a
<1>2. CASE MergeItem(b)
  <2>1. PICK i \in jobs[b].left : jobs'[b] =
            Working(jobs[b].left \ {i}, jobs[b].open \cup {i}, jobs[b].counted \cup {i}, TRUE)
    BY <1>2, UpdatedJob DEF MergeItem
  <2>2. /\ jobs'[b].state = "running"
        /\ jobs'[b].left = jobs[b].left \ {i} /\ jobs'[b].open = jobs[b].open \cup {i}
    BY <2>1 DEF Working
  <2>3. \A j \in Items : j \in jobs'[b].left \cup jobs'[b].open \/ <<b, j>> \in lost'[phase]
    BY <1>0, <1>2, <2>2 DEF MergeItem
  <2> QED BY <2>2, <2>3, <1>a
<1>3. CASE MergeRaises(b)
  <2>1. PICK i \in jobs[b].left, kept \in BOOLEAN :
          /\ jobs'[b] = Working(jobs[b].left \ {i}, {}, jobs[b].counted, kept)
          /\ RolledBack(b, jobs[b].open \cup {i})
    BY <1>3, UpdatedJob DEF MergeRaises
  <2>2. /\ jobs'[b].state = "running"
        /\ jobs'[b].left = jobs[b].left \ {i} /\ jobs'[b].open = {}
    BY <2>1 DEF Working
  <2>3. \A j \in jobs[b].open \cup {i} : <<b, j>> \in lost'[phase]
    BY <2>1, LostRows
  <2>4. \A j \in Items : j \in jobs'[b].left \cup jobs'[b].open \/ <<b, j>> \in lost'[phase]
    BY <1>0, <1>3, <2>2, <2>3 DEF MergeRaises
  <2> QED BY <2>2, <2>4, <1>a
<1>4. CASE MergeRetried(b)
  <2>1. PICK i \in jobs[b].left :
          jobs'[b] = Working(jobs[b].left \ {i}, {i}, jobs[b].counted \cup {i}, TRUE)
    BY <1>4, UpdatedJob DEF MergeRetried
  <2>2. /\ jobs'[b].state = "running"
        /\ jobs'[b].left = jobs[b].left \ {i} /\ jobs'[b].open = {i}
    BY <2>1 DEF Working
  <2>3. \A j \in jobs[b].open : <<b, j>> \in lost'[phase]
    BY <1>4, LostRows DEF MergeRetried
  <2>4. \A j \in Items : j \in jobs'[b].left \cup jobs'[b].open \/ <<b, j>> \in lost'[phase]
    BY <1>0, <1>4, <2>2, <2>3 DEF MergeRetried
  <2> QED BY <2>2, <2>4, <1>a
<1>5. CASE UpsertBatch(b)
  <2>1. jobs'[b] = Working({}, Items, Items, TRUE)
    BY <1>5, UpdatedJob DEF UpsertBatch
  <2>2. jobs'[b].state = "running" /\ jobs'[b].open = Items
    BY <2>1 DEF Working
  <2> QED BY <2>2, <1>a
<1>6. CASE CommitBatch(b)
  <2>0. jobs'[b] = [state |-> "finished", counted |-> jobs[b].counted]
    BY <1>6, UpdatedJob DEF CommitBatch
  <2>1. jobs'[b].state = "finished"
    BY <2>0
  <2>2. ASSUME NEW i \in Items
        PROVE  Handled(phase, <<b, i>>)'
    <3>1. <<b, i>> \in Rows
      BY RowFacts
    <3>2. CASE i \in jobs[b].open
      <4>1. rows'[phase][<<b, i>>] = 1
        BY <1>6, <3>1, <3>2, UpsertedRows DEF CommitBatch
      <4> QED BY <4>1 DEF Handled
    <3>3. CASE i \notin jobs[b].open
      <4>1. <<b, i>> \in lost'[phase]
        BY <1>0, <1>6, <3>3 DEF CommitBatch
      <4> QED BY <4>1 DEF Handled
    <3> QED BY <3>2, <3>3
  <2> QED BY <2>1, <2>2 DEF NoJob
<1>7. CASE BatchRaises(b)
  <2>1. jobs'[b] = Failed
    BY <1>7, UpdatedJob DEF BatchRaises
  <2> QED BY <2>1 DEF Failed, NoJob
<1> QED BY <1>1, <1>2, <1>3, <1>4, <1>5, <1>6, <1>7 DEF WorkerStep

\* The jobs a step leaves alone: all but that of the batch it is about.
LEMMA JobsFrame ==
    ASSUME TypeInv, TypeInv', [Next]_vars, NEW b \in Batches,
           jobs'[b] # jobs[b], jobs'[b].state \in {"running", "finished"}
    PROVE  WorkerStep(b)
<1>1. jobs' # NoJobs /\ jobs' # jobs
  BY DEF NoJobs, NoJob
<1>2. pc' \in {"pool", "failing"}
  BY <1>1 DEF TypeInv, JobsAreInPools
<1>3. ASSUME NEW c \in Batches, WorkerStep(c)
      PROVE  WorkerStep(b)
  <2>1. CASE c = b
    BY <1>3, <2>1
  <2>2. CASE c # b
    <3>1. PICK j : jobs' = [jobs EXCEPT ![c] = j]
      BY <1>3 DEF WorkerStep, TakeBatch, MergeItem, MergeRaises, MergeRetried,
                  UpsertBatch, CommitBatch, BatchRaises
    <3> QED BY <2>2, <3>1 DEF TypeInv, TypeOK
  <2> QED BY <2>1, <2>2
<1>4. ASSUME NEW c \in Batches, Submit(c) \/ Collect(c)
      PROVE  FALSE
  <2>1. jobs' = [jobs EXCEPT ![c] = Queued] \/ jobs' = [jobs EXCEPT ![c] = NoJob]
    BY <1>4 DEF Submit, Collect
  <2> QED BY <2>1 DEF TypeInv, TypeOK, Queued, NoJob
<1>5. CASE \E c \in Batches : CollectRaises(c) \/ InsertChunk(c)
  BY <1>1, <1>5 DEF CollectRaises, InsertChunk
<1>6. CASE Start \/ StartReset \/ Crash \/ SkipPhase \/ RunStep \/ EnterPool \/ PoolDone
           \/ IteratorRaises \/ EnterEdges \/ TruncateEdges \/ EdgesDone \/ Exit \/ ExitFailing
  BY <1>1, <1>2, <1>6 DEF Start, StartReset, Crash, SkipPhase, RunStep, EnterPool,
     PoolDone, IteratorRaises, EnterEdges, TruncateEdges, EdgesDone, Exit, ExitFailing, GoOn
<1> QED BY <1>1, <1>3, <1>4, <1>5, <1>6 DEF Next, MainStep, vars

\* While there are jobs, the phase stays the same.
LEMMA PhaseFrame ==
    ASSUME TypeInv, TypeInv', [Next]_vars, jobs # NoJobs, jobs' # NoJobs
    PROVE  phase' = phase /\ ~TruncateEdges
<1>1. pc \in {"pool", "failing"} /\ pc' \in {"pool", "failing"}
  BY DEF TypeInv, JobsAreInPools
<1>2. ~TruncateEdges
  BY <1>1 DEF TruncateEdges
<1>3. ASSUME NEW c \in Batches, WorkerStep(c)
      PROVE  phase' = phase
  BY <1>3, WorkerFrame
<1> QED
  BY <1>1, <1>2, <1>3 DEF Next, MainStep, vars, Start, StartReset, Crash, SkipPhase,
     RunStep, EnterPool, PoolDone, IteratorRaises, EnterEdges, EdgesDone, Exit,
     ExitFailing, GoOn, Submit, Collect, CollectRaises, InsertChunk

LEMMA JobsNext ==
    ASSUME TypeInv, TypeInv', DataInv, [Next]_vars
    PROVE  JobsAreHandled'
<1> SUFFICES ASSUME NEW b \in Batches, jobs'[b].state \in {"running", "finished"}
             PROVE  /\ jobs'[b].state = "running" =>
                          \A i \in Items : i \in jobs'[b].left \cup jobs'[b].open
                                             \/ <<b, i>> \in lost'[phase']
                    /\ jobs'[b].state = "finished" =>
                          \A i \in Items : rows'[phase'][<<b, i>>] > 0
                                             \/ <<b, i>> \in lost'[phase']
  BY DEF JobsAreHandled, Handled
<1>1. CASE jobs'[b] # jobs[b]
  <2>1. WorkerStep(b)
    BY <1>1, JobsFrame
  <2>2. phase' = phase
    BY <2>1, WorkerFrame
  <2> QED BY <2>1, <2>2, WorkerJob DEF Handled
<1>2. CASE jobs'[b] = jobs[b]
  <2>1. jobs # NoJobs /\ jobs' # NoJobs
    BY <1>2 DEF NoJobs, NoJob
  <2>2. phase' = phase /\ ~TruncateEdges /\ phase \in Phases
    BY <2>1, PhaseFrame DEF TypeInv, JobsAreInPools, InPhase
  <2>3. lost[phase] \subseteq lost'[phase]
    BY <2>2, LostGrows
  <2>4. ASSUME NEW i \in Items, Handled(phase, <<b, i>>)
        PROVE  Handled(phase, <<b, i>>)'
    BY <2>2, <2>4, RowFacts, HandledStays
  <2> QED BY <1>2, <2>2, <2>3, <2>4 DEF DataInv, JobsAreHandled, Handled
<1> QED BY <1>1, <1>2

LEMMA BatchesNext ==
    ASSUME TypeInv, TypeInv', ControlInv, DataInv, [Next]_vars
    PROVE  BatchesAreAccounted'
<1> SUFFICES ASSUME pc' = "pool", NEW b \in Batches
             PROVE  b \in todo' \/ jobs'[b] # NoJob \/ b \in mem'[phase'].batches
  BY DEF BatchesAreAccounted
<1>1. CASE EnterPool
  BY <1>1 DEF EnterPool, CompletedBatches
<1>2. ASSUME NEW c \in Batches, Submit(c)
      PROVE  b \in todo' \/ jobs'[b] # NoJob \/ b \in mem'[phase'].batches
  <2>1. jobs'[c] # NoJob /\ (b # c => jobs'[b] = jobs[b])
    BY <1>2 DEF Submit, TypeInv, TypeOK, Queued, NoJob
  <2> QED BY <1>2, <2>1 DEF Submit, DataInv, BatchesAreAccounted
<1>3. ASSUME NEW c \in Batches, Collect(c)
      PROVE  b \in todo' \/ jobs'[b] # NoJob \/ b \in mem'[phase'].batches
  <2>1. b # c => jobs'[b] = jobs[b]
    BY <1>3 DEF Collect, TypeInv, TypeOK
  <2>2. phase \in Phases /\ phase' = phase /\ todo' = todo /\ pc = "pool"
    BY <1>3 DEF Collect, Collects, TypeInv, InPhase
  <2>3. mem'[phase].batches = mem[phase].batches \cup {c}
    BY <1>3, <2>2 DEF Collect, MarkBatchDone, TypeInv, TypeOK
  <2> QED BY <2>1, <2>2, <2>3 DEF DataInv, BatchesAreAccounted
<1>4. ASSUME NEW c \in Batches, WorkerStep(c)
      PROVE  b \in todo' \/ jobs'[b] # NoJob \/ b \in mem'[phase'].batches
  <2>1. UNCHANGED <<mem, phase, pc, todo>>
    BY <1>4, WorkerFrame
  <2>2. CASE b = c
    BY <1>4, <2>2, WorkerJob
  <2>3. CASE b # c
    <3>1. PICK j : jobs' = [jobs EXCEPT ![c] = j]
      BY <1>4 DEF WorkerStep, TakeBatch, MergeItem, MergeRaises, MergeRetried,
                  UpsertBatch, CommitBatch, BatchRaises
    <3>2. jobs'[b] = jobs[b]
      BY <2>3, <3>1 DEF TypeInv, TypeOK
    <3> QED BY <2>1, <3>2 DEF DataInv, BatchesAreAccounted
  <2> QED BY <2>2, <2>3
<1>5. CASE UNCHANGED vars
  BY <1>5 DEF vars, DataInv, BatchesAreAccounted
<1> QED
  BY <1>1, <1>2, <1>3, <1>4, <1>5 DEF Next, MainStep, Start, StartReset, Crash,
     SkipPhase, RunStep, PoolDone, IteratorRaises, EnterEdges, TruncateEdges, EdgesDone,
     Exit, ExitFailing, GoOn, CollectRaises, InsertChunk

-----------------------------------------------------------------------------
(* Edges: the ends are loaded and left alone, the chunks inserted once.    *)

LEMMA EndFacts ==
    ASSUME NEW p \in Phases, NEW q \in Ends[p]
    PROVE  /\ q \in Phases /\ q < p /\ q # p
           /\ Plan[q] \in NodeKinds /\ Ends[q] = {}
<1>1. q \in 1..p - 1 /\ Plan[q] \in NodeKinds
  BY EndsAssumption DEF Phases, NodeKinds
<1>2. q \in Phases /\ q < p
  BY <1>1, PhaseFacts
<1>3. Ends[q] = {}
  BY <1>1, <1>2, EndsAssumption DEF Phases, NodeKinds
<1> QED BY <1>1, <1>2, <1>3, PhaseFacts

\* The lookups stay right: no step changes the ends of the phase it is in.
LEMMA ResolvableStays ==
    ASSUME TypeInv, [Next]_vars, phase \in Phases, phase' = phase, NEW x
    PROVE  x \in Resolvable(phase)' <=> x \in Resolvable(phase)
<1>1. \A q \in Ends[phase] : rows'[q] = rows[q]
  BY EndFacts, OtherRowsFrame
<1> QED BY <1>1 DEF Resolvable, Present

LEMMA ChunksNext ==
    ASSUME TypeInv, TypeInv', ControlInv, DataInv, [Next]_vars
    PROVE  ChunksAreInsertedOnce'
<1> SUFFICES ASSUME pc' = "insert", NEW x \in Rows
             PROVE  /\ x[1] \in todo' => rows'[phase'][x] = 0
                    /\ x \in Resolvable(phase)' => x[1] \in todo' \/ rows'[phase'][x] > 0
  BY DEF ChunksAreInsertedOnce
<1>0. x[1] \in Batches
  BY RowFacts
<1>1. CASE TruncateEdges
  <2>1. phase \in Phases /\ phase' = phase /\ todo' = Batches
    BY <1>1 DEF TruncateEdges, TypeInv, InPhase
  <2>2. rows'[phase][x] = 0
    BY <1>1, <2>1, TruncatedRows DEF TruncateEdges
  <2> QED BY <1>0, <2>1, <2>2
<1>2. ASSUME NEW b \in Batches, InsertChunk(b)
      PROVE  /\ x[1] \in todo' => rows'[phase'][x] = 0
             /\ x \in Resolvable(phase)' => x[1] \in todo' \/ rows'[phase'][x] > 0
  <2>1. /\ phase \in Phases /\ phase' = phase /\ pc = "insert"
        /\ b \in todo /\ todo' = todo \ {b}
        /\ rows' = Inserted(phase, {y \in Resolvable(phase) : y[1] = b})
    BY <1>2 DEF InsertChunk, TypeInv, InPhase
  <2>2. rows'[phase][x] = IF x \in Resolvable(phase) /\ x[1] = b
                          THEN rows[phase][x] + 1 ELSE rows[phase][x]
    BY <2>1, InsertedRows
  <2>3. /\ x[1] \in todo => rows[phase][x] = 0
        /\ x \in Resolvable(phase) => x[1] \in todo \/ rows[phase][x] > 0
    BY <2>1 DEF DataInv, ChunksAreInsertedOnce
  <2>4. x \in Resolvable(phase)' <=> x \in Resolvable(phase)
    BY <2>1, ResolvableStays
  <2>5. rows[phase][x] \in Nat
    BY <2>1 DEF TypeInv, TypeOK
  <2> QED BY <2>1, <2>2, <2>3, <2>4, <2>5
<1>3. ASSUME NEW b \in Batches, WorkerStep(b)
      PROVE  FALSE
  BY <1>3, WorkerIsInPool, WorkerFrame
<1>4. CASE UNCHANGED vars
  <2>1. phase \in Phases /\ phase' = phase /\ pc = "insert" /\ todo' = todo /\ rows' = rows
    BY <1>4 DEF vars, TypeInv, InPhase
  <2>2. x \in Resolvable(phase)' <=> x \in Resolvable(phase)
    BY <2>1, ResolvableStays
  <2> QED BY <2>1, <2>2 DEF DataInv, ChunksAreInsertedOnce
<1> QED
  BY <1>1, <1>2, <1>3, <1>4 DEF Next, MainStep, Start, StartReset, Crash, SkipPhase,
     RunStep, EnterPool, PoolDone, IteratorRaises, EnterEdges, EdgesDone, Exit,
     ExitFailing, GoOn, Submit, Collect, Collects, CollectRaises

LEMMA EmptyNext ==
    ASSUME TypeInv, ControlInv, DataInv, [Next]_vars
    PROVE  EmptyPhasesHaveNoRows'
<1> SUFFICES ASSUME NEW p \in NoData, NEW x \in Rows
             PROVE  rows'[p][x] = 0
  BY DEF EmptyPhasesHaveNoRows
<1>1. p \in Phases /\ rows[p][x] = 0
  BY NoDataAssumption DEF DataInv, EmptyPhasesHaveNoRows, Phases
<1>2. CASE rows' # rows
  <2>1. p # phase
    BY <1>2, OtherRowsFrame DEF ControlInv, PhaseIsCurrent
  <2> QED BY <1>1, <1>2, <2>1, OtherRowsFrame
<1> QED BY <1>1, <1>2

LEMMA NoDuplicatesNext ==
    ASSUME TypeInv, DataInv, [Next]_vars
    PROVE  NoDuplicates'
<1> SUFFICES ASSUME NEW p \in Phases, NEW x \in Rows
             PROVE  rows'[p][x] <= 1
  BY DEF NoDuplicates
<1>1. rows[p][x] <= 1 /\ rows[p][x] \in Nat
  BY DEF DataInv, NoDuplicates, TypeInv, TypeOK
<1>2. CASE rows'[p] = rows[p]
  BY <1>1, <1>2
<1>3. CASE rows'[p] # rows[p]
  <2>1. p = phase /\ phase \in Phases /\ rows' # rows
    BY <1>3, OtherRowsFrame
  <2>2. CASE TruncateEdges
    BY <2>1, <2>2, TruncatedRows DEF TruncateEdges
  <2>3. ASSUME NEW b \in Batches, CommitBatch(b)
        PROVE  rows'[p][x] <= 1
    <3>1. rows'[phase][x] = 1 \/ rows'[phase][x] = rows[phase][x]
      BY <2>1, <2>3, UpsertedRows DEF CommitBatch
    <3> QED BY <1>1, <2>1, <3>1
  <2>4. ASSUME NEW b \in Batches, InsertChunk(b)
        PROVE  rows'[p][x] <= 1
    <3>1. rows'[phase][x] = IF x \in Resolvable(phase) /\ x[1] = b
                            THEN rows[phase][x] + 1 ELSE rows[phase][x]
      BY <2>1, <2>4, InsertedRows DEF InsertChunk
    <3>2. x[1] = b => rows[phase][x] = 0
      BY <2>4 DEF InsertChunk, DataInv, ChunksAreInsertedOnce
    <3> QED BY <1>1, <2>1, <3>1, <3>2
  <2> QED BY <2>1, <2>2, <2>3, <2>4, RowsFrame
<1> QED BY <1>2, <1>3

-----------------------------------------------------------------------------
(* A phase that is completed in the file is loaded.                        *)

LEMMA RowsOfFacts ==
    ASSUME NEW p \in Phases
    PROVE  /\ RowsOf[p] \subseteq Rows
           /\ Plan[p] = "step" => RowsOf[p] = {}
           /\ Ends[p] \cap NoData # {} => RowsOf[p] = {}
           /\ Plan[p] \in PoolKinds /\ p \notin NoData => RowsOf[p] = Rows
<1>1. Plan[p] # "edges" => Ends[p] = {}
  BY EndsAssumption DEF Phases
<1> QED BY <1>1 DEF RowsOf, PoolKinds

\* The rows of the phase the main thread is at are all there or excused.
PhaseIsLoaded ==
    \A x \in RowsOf[phase] : rows[phase][x] > 0 \/ IsExcused(phase, x)

LEMMA CompletedStays ==
    ASSUME TypeInv, TypeInv', ControlInv, DataInv, [Next]_vars,
           NEW p \in Phases, disk[p].status = "completed"
    PROVE  \A x \in RowsOf[p] : rows'[p][x] > 0 \/ IsExcused(p, x)'
<1>1. rows'[p] = rows[p]
  <2>1. CASE rows' # rows
    <3>1. p # phase
      BY <2>1, OtherRowsFrame DEF ControlInv, PhaseIsCurrent, CompletionsAreSaved
    <3> QED BY <2>1, <3>1, OtherRowsFrame
  <2> QED BY <2>1
<1>2. ASSUME NEW x, IsExcused(p, x)
      PROVE  IsExcused(p, x)'
  <2>1. PICK q \in Ends[p] \cup {p} : x \in lost[q]
    BY <1>2 DEF IsExcused
  <2>2. q \in Phases
    BY EndFacts
  <2>3. x \in lost'[q]
    BY <2>1, <2>2, LostGrows
  <2> QED BY <2>1, <2>3 DEF IsExcused
<1> QED BY <1>1, <1>2 DEF DataInv, CompletedIsLoaded

LEMMA PoolIsLoaded ==
    ASSUME TypeInv, ControlInv, DataInv, PoolDone
    PROVE  PhaseIsLoaded
<1> SUFFICES ASSUME NEW x \in RowsOf[phase]
             PROVE  rows[phase][x] > 0 \/ IsExcused(phase, x)
  BY DEF PhaseIsLoaded
<1>1. phase \in Phases /\ x \in Rows
  BY RowsOfFacts DEF PoolDone, TypeInv, InPhase
<1>2. x[1] \in Batches /\ x[2] \in Items /\ x = <<x[1], x[2]>>
  BY <1>1, RowFacts
<1>3. x[1] \in mem[phase].batches
  BY <1>2 DEF PoolDone, InFlight, DataInv, BatchesAreAccounted
<1>4. Handled(phase, x)
  BY <1>1, <1>2, <1>3 DEF DataInv, MarksAreHandled
<1> QED BY <1>4 DEF Handled, IsExcused

\* An edge that is not resolvable has an end that was rolled back.
LEMMA UnresolvedIsExcused ==
    ASSUME TypeInv, ControlInv, DataInv, pc # "down", phase \in Phases, Plan[phase] = "edges",
           NEW x \in RowsOf[phase], x \notin Resolvable(phase)
    PROVE  IsExcused(phase, x)
<1>1. x \in Rows
  BY RowsOfFacts
<1>2. PICK q \in Ends[phase] : x \notin Present(q)
  BY <1>1 DEF Resolvable
<1>3. q \in Phases /\ q < phase /\ Plan[q] \in PoolKinds /\ Ends[q] = {}
  BY EndFacts DEF NodeKinds, PoolKinds
<1>4. q \notin NoData
  BY RowsOfFacts
<1>5. disk[q].status = "completed" /\ RowsOf[q] = Rows
  BY <1>3, <1>4, RowsOfFacts DEF ControlInv, PhasesInOrder
<1>6. rows[q][x] > 0 \/ IsExcused(q, x)
  BY <1>1, <1>3, <1>5 DEF DataInv, CompletedIsLoaded
<1>7. x \in lost[q]
  BY <1>1, <1>2, <1>3, <1>6 DEF Present, IsExcused
<1> QED BY <1>7 DEF IsExcused

LEMMA EdgesAreLoaded ==
    ASSUME TypeInv, ControlInv, DataInv,
           EdgesDone \/ (EnterEdges /\ Resolvable(phase) = {})
    PROVE  PhaseIsLoaded
<1> SUFFICES ASSUME NEW x \in RowsOf[phase]
             PROVE  rows[phase][x] > 0 \/ IsExcused(phase, x)
  BY DEF PhaseIsLoaded
<1>1. phase \in Phases /\ Plan[phase] = "edges" /\ pc # "down"
  BY DEF EdgesDone, EnterEdges, Enters, TypeInv, InPhase, ControlInv, PhaseIsCurrent
<1>2. x \in Rows
  BY <1>1, RowsOfFacts
<1>3. x \in Resolvable(phase) => rows[phase][x] > 0
  BY <1>2 DEF EdgesDone, DataInv, ChunksAreInsertedOnce
<1> QED BY <1>1, <1>3, UnresolvedIsExcused

\* The only steps that complete a phase in the file.
LEMMA CompletionFrame ==
    ASSUME TypeInv, ControlInv, DataInv, [Next]_vars, NEW p \in Phases,
           disk'[p].status = "completed", disk[p].status # "completed"
    PROVE  p = phase /\ PhaseIsLoaded /\ UNCHANGED <<rows, lost>>
<1>0. mem[p].status # "completed"
  BY DEF ControlInv, CompletionsAreSaved
<1>1. CASE RunStep
  <2>1. phase \in Phases /\ MarkPhaseDone(phase) /\ RowsOf[phase] = {}
    BY <1>1, RowsOfFacts DEF RunStep, Enters
  <2>2. p = phase
    BY <1>0, <2>1, MarkedPhase
  <2> QED BY <1>1, <2>1, <2>2 DEF RunStep, PhaseIsLoaded
<1>2. CASE PoolDone
  <2>1. phase \in Phases /\ MarkPhaseDone(phase)
    BY <1>2 DEF PoolDone, TypeInv, InPhase
  <2>2. p = phase
    BY <1>0, <2>1, MarkedPhase
  <2> QED BY <1>2, <2>2, PoolIsLoaded DEF PoolDone
<1>3. CASE EdgesDone
  <2>1. phase \in Phases /\ MarkPhaseDone(phase)
    BY <1>3 DEF EdgesDone, TypeInv, InPhase
  <2>2. p = phase
    BY <1>0, <2>1, MarkedPhase
  <2> QED BY <1>3, <2>2, EdgesAreLoaded DEF EdgesDone
<1>4. CASE EnterEdges
  <2>1. phase \in Phases /\ MarkPhaseDone(phase) /\ Resolvable(phase) = {}
    BY <1>4 DEF EnterEdges, Enters
  <2>2. p = phase
    BY <1>0, <2>1, MarkedPhase
  <2> QED BY <1>4, <2>1, <2>2, EdgesAreLoaded DEF EnterEdges
<1>5. ASSUME NEW b \in Batches, Collect(b)
      PROVE  FALSE
  <2>1. /\ mem'[phase].status = "in_progress"
        /\ \A q \in Phases : q # phase => mem'[q] = mem[q]
        /\ disk' = mem' \/ disk' = disk
    BY <1>5 DEF Collect, Collects, MarkBatchDone, TypeInv, TypeOK, InPhase
  <2> QED BY <1>0, <2>1
<1>6. CASE Start \/ StartReset \/ Exit
  BY <1>0, <1>6 DEF Start, StartReset, Exit, Empty
<1>7. CASE disk' = disk
  BY <1>7
<1>8. CASE \E b \in Batches : WorkerStep(b)
  BY <1>7, <1>8, WorkerFrame
<1> QED
  BY <1>1, <1>2, <1>3, <1>4, <1>5, <1>6, <1>7, <1>8 DEF Next, MainStep, vars, Crash,
     SkipPhase, EnterPool, IteratorRaises, TruncateEdges, ExitFailing, Submit,
     CollectRaises, InsertChunk

LEMMA LoadedNext ==
    ASSUME TypeInv, TypeInv', ControlInv, DataInv, [Next]_vars
    PROVE  CompletedIsLoaded'
<1> SUFFICES ASSUME NEW p \in Phases, disk'[p].status = "completed"
             PROVE  \A x \in RowsOf[p] : rows'[p][x] > 0 \/ IsExcused(p, x)'
  BY DEF CompletedIsLoaded
<1>1. CASE disk[p].status = "completed"
  BY <1>1, CompletedStays
<1>2. CASE disk[p].status # "completed"
  <2>1. p = phase /\ PhaseIsLoaded /\ UNCHANGED <<rows, lost>>
    BY <1>2, CompletionFrame
  <2> QED BY <2>1 DEF PhaseIsLoaded, IsExcused
<1> QED BY <1>1, <1>2

LEMMA DataNext == TypeInv /\ TypeInv' /\ ControlInv /\ DataInv /\ [Next]_vars => DataInv'
BY JobsNext, MarksNext, BatchesNext, ChunksNext, EmptyNext, LoadedNext, NoDuplicatesNext
   DEF DataInv

LEMMA LoadInvariant == Spec => [](TypeInv /\ ControlInv /\ DataInv)
BY TypeInit, TypeNext, ControlInit, ControlNext, DataInit, DataNext, PTL DEF Spec

\* NoDuplicates: no row of any phase is ever in the database twice, although an
\* edge phase inserts without a key and may die at any chunk and be run again.
THEOREM NothingTwice == Spec => []NoDuplicates
<1>1. DataInv => NoDuplicates
  BY DEF DataInv
<1> QED BY LoadInvariant, <1>1, PTL

\* SkippedBatchesAreLoaded: a batch that the file has as done, and that a resumed
\* run will skip, is in the database but for rows that were rolled back.
THEOREM SkippedAreLoaded == Spec => []SkippedBatchesAreLoaded
<1>1. TypeInv /\ DataInv => SkippedBatchesAreLoaded
  BY DEF DataInv, MarksAreHandled, SkippedBatchesAreLoaded, Handled, TypeInv, TypeOK, Record
<1> QED BY LoadInvariant, <1>1, PTL

-----------------------------------------------------------------------------
(* How much a crash may cost.                                              *)

\* In every step the checkpoint is saved, or left alone, or has one more mark.
LEMMA SavedOrMarked ==
    ASSUME TypeInv, [Next]_vars
    PROVE  \/ disk' = mem' /\ dirty' \in Nat
           \/ UNCHANGED <<disk, mem, dirty>>
           \/ \E b \in Batches : /\ Unsaved' \subseteq Unsaved \cup {<<phase, b>>}
                                 /\ dirty' = dirty + 1
<1>1. ASSUME NEW b \in Batches, Collect(b)
      PROVE  \/ disk' = mem' /\ dirty' \in Nat
             \/ /\ Unsaved' \subseteq Unsaved \cup {<<phase, b>>}
                /\ dirty' = dirty + 1
  <2>1. phase \in Phases /\ MarkBatchDone(phase, b)
    BY <1>1 DEF Collect, Collects, TypeInv, InPhase
  <2>2. /\ mem'[phase].batches = mem[phase].batches \cup {b}
        /\ \A q \in Phases : q # phase => mem'[q] = mem[q]
    BY <2>1 DEF MarkBatchDone, TypeInv, TypeOK
  <2>3. CASE disk' = mem' /\ dirty' = 0
    BY <2>3
  <2>4. CASE disk' = disk /\ dirty' = dirty + 1
    <3>1. ASSUME NEW x \in Unsaved', x # <<phase, b>>
          PROVE  x \in Unsaved
      <4>1. /\ x \in Phases \X Batches
            /\ x[2] \in mem'[x[1]].batches /\ x[2] \notin disk[x[1]].batches
        BY <3>1, <2>4 DEF Unsaved
      <4>2. x[2] \in mem[x[1]].batches
        BY <4>1, <2>2, <3>1
      <4> QED BY <4>1, <4>2 DEF Unsaved
    <3> QED BY <2>4, <3>1
  <2> QED BY <2>1, <2>3, <2>4 DEF MarkBatchDone
<1>2. CASE Start \/ StartReset \/ Exit
  BY <1>2 DEF Start, StartReset, Exit
<1>3. ASSUME MarkPhaseDone(phase)
      PROVE  disk' = mem' /\ dirty' \in Nat
  BY <1>3, SizesAssumption DEF MarkPhaseDone, TypeInv, TypeOK
<1>4. CASE RunStep \/ EnterEdges \/ PoolDone \/ EdgesDone
  BY <1>3, <1>4 DEF RunStep, EnterEdges, PoolDone, EdgesDone
<1>5. CASE \E b \in Batches : WorkerStep(b)
  BY <1>5, WorkerFrame
<1> QED
  BY <1>1, <1>2, <1>4, <1>5 DEF Next, MainStep, vars, Crash, SkipPhase, EnterPool,
     IteratorRaises, TruncateEdges, ExitFailing, Submit, CollectRaises, InsertChunk

LEMMA RiskNext == TypeInv /\ RiskInv /\ [Next]_vars => RiskInv'
<1> SUFFICES ASSUME TypeInv, RiskInv, [Next]_vars PROVE RiskInv'
  OBVIOUS
<1>1. CASE disk' = mem' /\ dirty' \in Nat
  <2>1. Unsaved' = {}
    BY <1>1 DEF Unsaved
  <2> QED BY <1>1, <2>1, FS_EmptySet DEF RiskInv
<1>2. CASE UNCHANGED <<disk, mem, dirty>>
  BY <1>2 DEF RiskInv, Unsaved
<1>3. ASSUME NEW b \in Batches, Unsaved' \subseteq Unsaved \cup {<<phase, b>>}, dirty' = dirty + 1
      PROVE  RiskInv'
  <2>1. /\ IsFiniteSet(Unsaved \cup {<<phase, b>>})
        /\ Cardinality(Unsaved \cup {<<phase, b>>}) <= Cardinality(Unsaved) + 1
        /\ Cardinality(Unsaved \cup {<<phase, b>>}) \in Nat /\ Cardinality(Unsaved) \in Nat
    BY FS_AddElement, FS_CardinalityType DEF RiskInv
  <2>2. /\ IsFiniteSet(Unsaved') /\ Cardinality(Unsaved') \in Nat
        /\ Cardinality(Unsaved') <= Cardinality(Unsaved \cup {<<phase, b>>})
    BY <1>3, <2>1, FS_Subset, FS_CardinalityType
  <2>3. dirty \in Nat /\ Cardinality(Unsaved) <= dirty
    BY SizesAssumption DEF RiskInv, TypeInv, TypeOK
  <2> QED BY <1>3, <2>1, <2>2, <2>3 DEF RiskInv
<1> QED BY <1>1, <1>2, <1>3, SavedOrMarked

\* FewMarksAreAtRisk: a crash costs fewer than _FLUSH_INTERVAL marks, although the
\* counter is shared by the phases and mark_phase_done does not reset it.
THEOREM FewMarksLost == Spec => []FewMarksAreAtRisk
<1>1. Init => RiskInv
  <2>1. Init => Unsaved = {}
    BY DEF Init, Unsaved
  <2> QED BY <2>1, FS_EmptySet DEF RiskInv, Init
<1>2. TypeInv /\ RiskInv => FewMarksAreAtRisk
  <2> SUFFICES ASSUME TypeInv, RiskInv PROVE Cardinality(Unsaved) < FlushInterval
    BY DEF FewMarksAreAtRisk, Unsaved
  <2>1. Cardinality(Unsaved) \in Nat /\ Cardinality(Unsaved) <= dirty
    BY FS_CardinalityType DEF RiskInv
  <2>2. dirty \in 0..FlushInterval - 1 /\ FlushInterval \in Nat
    BY SizesAssumption DEF TypeInv, TypeOK
  <2> QED BY <2>1, <2>2
<1> QED BY <1>1, <1>2, RiskNext, TypeInit, TypeNext, PTL DEF Spec

-----------------------------------------------------------------------------
(* The load implements a resumable load.                                   *)

LEMMA MarkedIsRecorded ==
    ASSUME TypeInv, ControlInv, phase \in Phases, MarkPhaseDone(phase)
    PROVE  Recorded' = Recorded \cup {phase}
<1>1. /\ disk' = mem' /\ mem'[phase].status = "completed"
      /\ \A q \in Phases : q # phase => mem'[q] = mem[q]
  BY MarkedPhase
<1> QED BY <1>1 DEF Recorded, ControlInv, CompletionsAreSaved

\* What a step does to the phases recorded in the file.
LEMMA RecordedFrame ==
    ASSUME TypeInv, ControlInv, DataInv, [Next]_vars, Recorded' # Recorded
    PROVE  \/ StartReset
           \/ /\ phase \in Phases \ NoData /\ phase \notin Recorded /\ pc # "down"
              /\ Recorded' = Recorded \cup {phase}
              /\ PhaseIsLoaded /\ UNCHANGED <<rows, lost>>
<1>1. CASE RunStep
  <2>1. phase \in Phases \ NoData /\ MarkPhaseDone(phase) /\ mem[phase].status # "completed"
    BY <1>1 DEF RunStep, Enters
  <2>2. PhaseIsLoaded
    BY <1>1, <2>1, RowsOfFacts DEF RunStep, Enters, PhaseIsLoaded
  <2> QED
    BY <1>1, <2>1, <2>2, MarkedIsRecorded
       DEF RunStep, Enters, Recorded, ControlInv, CompletionsAreSaved
<1>2. CASE PoolDone
  <2>1. phase \in Phases \ NoData /\ MarkPhaseDone(phase) /\ mem[phase].status # "completed"
    BY <1>2 DEF PoolDone, TypeInv, InPhase, ControlInv, PhaseIsCurrent
  <2> QED
    BY <1>2, <2>1, PoolIsLoaded, MarkedIsRecorded
       DEF PoolDone, Recorded, ControlInv, CompletionsAreSaved
<1>3. CASE EdgesDone
  <2>1. phase \in Phases \ NoData /\ MarkPhaseDone(phase) /\ mem[phase].status # "completed"
    BY <1>3 DEF EdgesDone, TypeInv, InPhase, ControlInv, PhaseIsCurrent
  <2> QED
    BY <1>3, <2>1, EdgesAreLoaded, MarkedIsRecorded
       DEF EdgesDone, Recorded, ControlInv, CompletionsAreSaved
<1>4. CASE EnterEdges /\ Resolvable(phase) = {}
  <2>1. phase \in Phases \ NoData /\ MarkPhaseDone(phase) /\ mem[phase].status # "completed"
    BY <1>4 DEF EnterEdges, Enters
  <2> QED
    BY <1>4, <2>1, EdgesAreLoaded, MarkedIsRecorded
       DEF EnterEdges, Enters, Recorded, ControlInv, CompletionsAreSaved
<1>5. CASE EnterEdges /\ Resolvable(phase) # {}
  BY <1>5 DEF EnterEdges, Recorded
<1>6. ASSUME NEW b \in Batches, Collect(b)
      PROVE  FALSE
  <2>1. /\ mem'[phase].status = "in_progress" /\ mem[phase].status # "completed"
        /\ \A q \in Phases : q # phase => mem'[q] = mem[q]
        /\ disk' = mem' \/ disk' = disk
    BY <1>6 DEF Collect, Collects, MarkBatchDone, TypeInv, TypeOK, InPhase,
                ControlInv, PhaseIsCurrent
  <2>2. \A q \in Phases : disk'[q].status = "completed" <=> disk[q].status = "completed"
    BY <2>1 DEF ControlInv, CompletionsAreSaved
  <2> QED BY <2>2 DEF Recorded
<1>7. CASE Exit
  BY <1>7 DEF Exit, Recorded, ControlInv, CompletionsAreSaved
<1>8. CASE disk' = disk
  BY <1>8 DEF Recorded
<1>9. CASE \E b \in Batches : WorkerStep(b)
  BY <1>8, <1>9, WorkerFrame
<1> QED
  BY <1>1, <1>2, <1>3, <1>4, <1>5, <1>6, <1>7, <1>8, <1>9 DEF Next, MainStep, vars, Start,
     Crash, SkipPhase, EnterPool, IteratorRaises, TruncateEdges, ExitFailing, Submit,
     CollectRaises, InsertChunk

\* The phase the main thread is in is the abstract load's current one.
LEMMA CurrentPhase ==
    ASSUME TypeInv, ControlInv, pc # "down", phase \in Phases, phase \notin Recorded
    PROVE  Resumable!Current(phase)
BY DEF Resumable!Current, Recorded, ControlInv, PhasesInOrder

LEMMA InPhaseIsCurrent ==
    ASSUME TypeInv, ControlInv, InPhase
    PROVE  phase \in Phases \ NoData /\ Resumable!Current(phase)
<1>1. phase \in Phases \ NoData /\ phase \notin Recorded /\ pc # "down"
  BY DEF TypeInv, ControlInv, PhaseIsCurrent, CompletionsAreSaved, InPhase, Recorded
<1> QED BY <1>1, CurrentPhase

Table == [p \in Phases |-> Present(p)]

\* A step that adds rows to the current phase.
LEMMA RowsAreLoaded ==
    ASSUME TypeInv, [Next]_vars, Recorded' = Recorded, lost' = lost,
           phase \in Phases, Resumable!Current(phase),
           NEW X \in SUBSET RowsOf[phase],
           \A p \in Phases : p # phase => rows'[p] = rows[p],
           \A x \in Rows : rows'[phase][x] > 0 <=> (rows[phase][x] > 0 \/ x \in X)
    PROVE  Resumable!Next
<1>1. X \subseteq Rows
  BY RowsOfFacts
<1>2. \A p \in Phases : Present(p)' = IF p = phase THEN Present(p) \cup X ELSE Present(p)
  BY <1>1 DEF Present
<1>3. Table' = [Table EXCEPT ![phase] = @ \cup X]
  BY <1>2 DEF Table
<1>4. Resumable!Load(phase, X)
  BY <1>3 DEF Resumable!Load, Table
<1> QED BY <1>4 DEF Resumable!Next

LEMMA LoadStep ==
    ASSUME TypeInv, ControlInv, DataInv, [Next]_vars, rows' # rows
    PROVE  Resumable!Next
<1>0. /\ phase \in Phases \ NoData /\ Resumable!Current(phase)
      /\ \A p \in Phases : p # phase => rows'[p] = rows[p]
  BY OtherRowsFrame, InPhaseIsCurrent
<1>1. CASE TruncateEdges
  <2>1. Recorded' = Recorded /\ lost' = lost
    BY <1>1 DEF TruncateEdges, Recorded
  <2>2. \A p \in Phases : Present(p)' = IF p = phase THEN {} ELSE Present(p)
    BY <1>0, <1>1, TruncatedRows DEF Present, TruncateEdges
  <2>3. Resumable!Clear(phase)
    BY <1>0, <2>1, <2>2 DEF Resumable!Clear
  <2> QED BY <1>0, <2>3 DEF Resumable!Next
<1>2. ASSUME NEW b \in Batches, CommitBatch(b)
      PROVE  Resumable!Next
  <2> DEFINE X == {<<b, i>> : i \in jobs[b].open}
  <2>1. WorkerStep(b) /\ lost' = lost /\ jobs[b].open \subseteq Items
    BY <1>2, RunningFields DEF WorkerStep, CommitBatch, TypeInv
  <2>2. Recorded' = Recorded
    BY <2>1, WorkerFrame DEF Recorded
  <2>3. Plan[phase] \in PoolKinds
    BY <2>1, WorkerIsInPool DEF ControlInv, PhaseIsCurrent
  <2>4. X \in SUBSET RowsOf[phase]
    BY <1>0, <2>1, <2>3, RowsOfFacts, RowFacts
  <2>5. \A x \in Rows : x \in X <=> x[1] = b /\ x[2] \in jobs[b].open
    BY RowFacts
  <2>6. \A x \in Rows : rows'[phase][x] =
            IF x[1] = b /\ x[2] \in jobs[b].open THEN 1 ELSE rows[phase][x]
    BY <1>0, <1>2, UpsertedRows DEF CommitBatch
  <2>7. \A x \in Rows : rows'[phase][x] > 0 <=> (rows[phase][x] > 0 \/ x \in X)
    BY <2>5, <2>6
  <2> HIDE DEF X
  <2> QED BY <1>0, <2>1, <2>2, <2>4, <2>7, RowsAreLoaded
<1>3. ASSUME NEW b \in Batches, InsertChunk(b)
      PROVE  Resumable!Next
  <2> DEFINE X == {x \in Resolvable(phase) : x[1] = b}
  <2>1. Recorded' = Recorded /\ lost' = lost /\ Plan[phase] = "edges"
    BY <1>3 DEF InsertChunk, Recorded, ControlInv, PhaseIsCurrent
  <2>2. X \in SUBSET RowsOf[phase]
    <3>1. CASE Ends[phase] \cap NoData = {}
      BY <1>0, <2>1, <3>1 DEF RowsOf, Resolvable
    <3>2. CASE Ends[phase] \cap NoData # {}
      <4>1. PICK q \in Ends[phase] : q \in NoData
        BY <3>2
      <4>2. Present(q) = {}
        BY <4>1 DEF DataInv, EmptyPhasesHaveNoRows, Present
      <4> QED BY <4>1, <4>2 DEF Resolvable
    <3> QED BY <3>1, <3>2
  <2>3. \A x \in Rows : rows'[phase][x] =
            IF x \in X THEN rows[phase][x] + 1 ELSE rows[phase][x]
    BY <1>0, <1>3, InsertedRows DEF InsertChunk
  <2>4. \A x \in Rows : rows[phase][x] \in Nat
    BY <1>0 DEF TypeInv, TypeOK
  <2> HIDE DEF X
  <2>5. \A x \in Rows : rows'[phase][x] > 0 <=> (rows[phase][x] > 0 \/ x \in X)
    BY <2>3, <2>4
  <2> QED BY <1>0, <2>1, <2>2, <2>5, RowsAreLoaded
<1> QED BY <1>1, <1>2, <1>3, RowsFrame

LEMMA LoseStep ==
    ASSUME TypeInv, ControlInv, [Next]_vars, lost' # lost
    PROVE  Resumable!Next
<1>1. PICK b \in Batches : MergeRaises(b) \/ MergeRetried(b)
  BY LostFrame
<1>2. WorkerStep(b)
  BY <1>1 DEF WorkerStep
<1>3. phase \in Phases \ NoData /\ Plan[phase] \in PoolKinds
  BY <1>2, WorkerIsInPool, InPhaseIsCurrent DEF InPhase, ControlInv, PhaseIsCurrent
<1>4. PICK X \in SUBSET Items : RolledBack(b, X)
  <2>1. jobs[b].left \subseteq Items /\ jobs[b].open \subseteq Items
    BY <1>1, RunningFields DEF MergeRaises, MergeRetried, TypeInv
  <2> QED BY <1>1, <2>1 DEF MergeRaises, MergeRetried
<1>5. {<<b, i>> : i \in X} \in SUBSET RowsOf[phase]
  BY <1>3, RowsOfFacts, RowFacts
<1>6. Recorded' = Recorded
  BY <1>2, WorkerFrame DEF Recorded
<1>7. \A p \in Phases : Present(p)' = Present(p)
  BY <1>1 DEF MergeRaises, MergeRetried, Present
<1>8. Resumable!Lose(phase, {<<b, i>> : i \in X})
  BY <1>4, <1>6, <1>7 DEF Resumable!Lose, RolledBack
<1> QED BY <1>3, <1>5, <1>8 DEF Resumable!Next

LEMMA RecordStep ==
    ASSUME TypeInv, ControlInv, DataInv, [Next]_vars, Recorded' # Recorded
    PROVE  Resumable!Next
<1>1. CASE StartReset
  <2>1. Recorded' = {} /\ rows' = rows /\ lost' = lost
    BY <1>1 DEF StartReset, Recorded, Empty
  <2>2. Resumable!Reset
    BY <2>1 DEF Resumable!Reset, Present
  <2> QED BY <2>2 DEF Resumable!Next
<1>2. CASE ~StartReset
  <2>1. /\ phase \in Phases \ NoData /\ phase \notin Recorded /\ pc # "down"
        /\ Recorded' = Recorded \cup {phase}
        /\ PhaseIsLoaded /\ rows' = rows /\ lost' = lost
    BY <1>2, RecordedFrame
  <2>2. Resumable!Current(phase)
    BY <2>1, CurrentPhase
  <2>3. RowsOf[phase] \ Present(phase) \subseteq Resumable!Excused(phase)
    <3> SUFFICES ASSUME NEW x \in RowsOf[phase], x \notin Present(phase)
                 PROVE  x \in Resumable!Excused(phase)
      OBVIOUS
    <3>1. x \in Rows
      BY <2>1, RowsOfFacts
    <3>2. IsExcused(phase, x)
      BY <2>1, <3>1 DEF PhaseIsLoaded, Present
    <3> QED BY <3>2 DEF IsExcused, Resumable!Excused
  <2>4. \A p \in Phases : Present(p)' = Present(p)
    BY <2>1 DEF Present
  <2>5. Resumable!Record(phase)
    BY <2>1, <2>2, <2>3, <2>4 DEF Resumable!Record
  <2> QED BY <2>1, <2>5 DEF Resumable!Next
<1> QED BY <1>1, <1>2

\* ImplementsResumableLoad: every behaviour of the load, with its workers, crashes
\* and resumed runs, is one of the abstract load.
THEOREM LoadIsResumable == Spec => ImplementsResumableLoad
<1>1. Init => Resumable!Init
  <2> SUFFICES ASSUME Init PROVE Resumable!Init
    OBVIOUS
  <2>1. \A p \in Phases : Present(p) = {}
    BY DEF Init, Present
  <2>2. Recorded = {}
    BY DEF Init, Empty, Recorded
  <2> QED BY <2>1, <2>2 DEF Init, Resumable!Init
<1>2. TypeInv /\ ControlInv /\ DataInv /\ [Next]_vars => [Resumable!Next]_(Resumable!vars)
  <2> SUFFICES ASSUME TypeInv, ControlInv, DataInv, [Next]_vars,
                      Recorded' = Recorded, lost' = lost, rows' = rows
               PROVE  UNCHANGED Resumable!vars
    BY LoadStep, LoseStep, RecordStep
  <2>1. \A p \in Phases : Present(p)' = Present(p)
    BY DEF Present
  <2> QED BY <2>1 DEF Resumable!vars
<1> QED
  BY <1>1, <1>2, LoadInvariant, PTL DEF Spec, ImplementsResumableLoad, Resumable!Spec

\* RecordedIsLoaded: in every state a phase that the file calls completed is in the
\* database, but for the rows whose statements raised and the edges of such nodes.
THEOREM RecordedAreLoaded == Spec => []Resumable!RecordedIsLoaded
<1>1. TypeInv /\ DataInv => Resumable!RecordedIsLoaded
  <2> SUFFICES ASSUME TypeInv, DataInv, NEW p \in Recorded,
                      NEW x \in RowsOf[p] \ [q \in Phases |-> Present(q)][p]
               PROVE  x \in Resumable!Excused(p)
    BY DEF Resumable!RecordedIsLoaded
  <2>1. p \in Phases /\ disk[p].status = "completed"
    BY DEF Recorded
  <2>2. x \in Rows /\ x \notin Present(p)
    BY <2>1, RowsOfFacts
  <2>3. IsExcused(p, x)
    BY <2>1, <2>2 DEF DataInv, CompletedIsLoaded, Present
  <2> QED BY <2>3 DEF IsExcused, Resumable!Excused
<1> QED BY <1>1, LoadInvariant, PTL

=============================================================================
