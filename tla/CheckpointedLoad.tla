--------------------------- MODULE CheckpointedLoad ---------------------------
(***************************************************************************)
(* talent_data_pipeline/load.py and checkpoint.py: the load of the CSV     *)
(* files into PostgreSQL, resumable through a checkpoint file.             *)
(*                                                                         *)
(* A run goes through the phases of the plan.  A node, embedding or text   *)
(* phase is cut into batches that worker threads load, each in a           *)
(* transaction of its own, while the main thread collects the futures and  *)
(* marks the batches in the checkpoint; an edge phase is loaded by the     *)
(* main thread, chunk by chunk, after emptying the table.  The process may *)
(* die between any two steps: the checkpoint in memory and the open        *)
(* transactions are gone, the file and the committed rows are not.         *)
(*                                                                         *)
(* Abstractions: all phases have the same batches and items, row <<b, i>>  *)
(* of an edge phase joins rows <<b, i>> of its two ends, and batches and   *)
(* chunks, which the code takes in order, are interchangeable.             *)
(***************************************************************************)
EXTENDS Naturals, Sequences, FiniteSets

CONSTANTS
    Plan,           \* the kinds of the phases, in order
    NoData,         \* the node and edge phases whose CSV file is empty
    Ends,           \* from_label and to_label of an edge phase, as phases
    Batches,        \* the batches (and chunks) of a phase
    Items,          \* the items of a batch
    Workers,        \* LOAD_WORKERS; the workers of load_embeddings_streaming
    FlushInterval,  \* _FLUSH_INTERVAL
    MaxFaults       \* bound: exceptions, crashes and resets

\* Schema and indexes; nodes in a pool, or one batch after the other when there
\* are few; edges; embeddings, streamed; full text.
Kinds == {"step", "nodes", "smallNodes", "edges", "stream", "fts"}

ASSUME PlanAssumption == Plan \in Seq(Kinds)
ASSUME NoDataAssumption ==
    NoData \subseteq {p \in DOMAIN Plan : Plan[p] \in {"nodes", "smallNodes", "edges"}}
ASSUME EndsAssumption ==
    \A p \in DOMAIN Plan :
        /\ Ends[p] \subseteq {q \in 1..p - 1 : Plan[q] \in {"nodes", "smallNodes"}}
        /\ Plan[p] # "edges" => Ends[p] = {}
ASSUME SizesAssumption ==
    Workers \in Nat \ {0} /\ FlushInterval \in Nat \ {0} /\ MaxFaults \in Nat
ASSUME BatchesAssumption == IsFiniteSet(Batches)

Phases == DOMAIN Plan
Rows == Batches \X Items
\* The rows phase p should end up with: none when it or one of its ends is empty.
RowsOf == [p \in Phases |->
    IF Plan[p] = "step" \/ p \in NoData \/ Ends[p] \cap NoData # {} THEN {} ELSE Rows]

VARIABLES
    disk,           \* the checkpoint file: the record of each phase
    mem,            \* LoadCheckpoint._data of the running process
    dirty,          \* LoadCheckpoint._dirty_count
    phase,          \* the phase the main thread is at
    pc,             \* where it is in it; "down": no process runs
    todo,           \* batches or chunks of the phase not yet handed out
    jobs,           \* the future of each batch of the phase
    rows,           \* the database: how often each row of a phase is there
    lost,           \* history: rows of each phase that were rolled back
    faults          \* exceptions, crashes and resets so far

checkpoint == <<disk, mem, dirty>>
main == <<phase, pc, todo>>
vars == <<disk, mem, dirty, phase, pc, todo, jobs, rows, lost, faults>>

-----------------------------------------------------------------------------
(* The checkpoint.                                                         *)

Record == [status : {"not_started", "in_progress", "completed"},
           batches : SUBSET Batches]
Empty == [p \in Phases |-> [status |-> "not_started", batches |-> {}]]

Fault == faults < MaxFaults /\ faults' = faults + 1

\* Mutant of MarkPhaseDone: only a phase that has marked a batch is updated.
MarkPhaseDoneIfStarted(p) ==
    /\ mem' = [mem EXCEPT ![p].status = IF @ = "not_started" THEN @ ELSE "completed"]
    /\ disk' = mem'
    /\ UNCHANGED dirty

MarkPhaseDone(p) ==
    /\ mem' = [mem EXCEPT ![p] = [status |-> "completed", batches |-> {}]]
    /\ disk' = mem'
    /\ UNCHANGED dirty

\* Mutants of FlushDue: a batch late; never.
FlushDueLate(n) == n > FlushInterval
FlushDueNever(n) == FALSE

FlushDue(n) == n >= FlushInterval

MarkBatchDone(p, b) ==
    /\ mem' = [mem EXCEPT ![p] = [status |-> "in_progress", batches |-> @.batches \cup {b}]]
    /\ IF FlushDue(dirty + 1) THEN disk' = mem' /\ dirty' = 0
                              ELSE dirty' = dirty + 1 /\ UNCHANGED disk

\* Mutant of CompletedBatches: a resumed run skips as many batches as are done,
\* whichever they are.
CompletedBatchesByCount(p) ==
    CHOOSE X \in SUBSET Batches : Cardinality(X) = Cardinality(mem[p].batches)

CompletedBatches(p) == mem[p].batches

-----------------------------------------------------------------------------
(* The database.                                                           *)

\* MERGE and INSERT ... ON CONFLICT DO UPDATE of the rows of batch b.
Upserted(p, b, X) ==
    [rows EXCEPT ![p] = [x \in Rows |-> IF x[1] = b /\ x[2] \in X THEN 1 ELSE @[x]]]

\* Plain INSERT.
Inserted(p, X) == [rows EXCEPT ![p] = [x \in Rows |-> IF x \in X THEN @[x] + 1 ELSE @[x]]]

\* Mutant of Truncated: --no-truncate.
NotTruncated(p) == rows

\* truncate_label
Truncated(p) == [rows EXCEPT ![p] = [x \in Rows |-> 0]]

Present(p) == {x \in Rows : rows[p][x] > 0}

\* Mutant of Resolvable: unresolved ends are not looked for.
AllResolvable(p) == Rows

\* The edges both of whose ends build_all_lookups finds.  The lookups are built
\* once, after the node phases: no step of the run changes nodes after that.
Resolvable(p) == {x \in Rows : \A q \in Ends[p] : x \in Present(q)}

-----------------------------------------------------------------------------
(* The main thread.                                                        *)

NoJob == [state |-> "none"]
Queued == [state |-> "queued"]
Failed == [state |-> "failed"]
\* A batch a worker is at: the items it has left, those its transaction would
\* commit, those it has counted, and whether the connection has the search path.
Working(left, open, counted, path) ==
    [state |-> "running", left |-> left, open |-> open, counted |-> counted, path |-> path]
Running == [state : {"running"}, left : SUBSET Items, open : SUBSET Items,
            counted : SUBSET Items, path : BOOLEAN]
Finished == [state : {"finished"}, counted : SUBSET Items]

NoJobs == [b \in Batches |-> NoJob]
InFlight == {b \in Batches : jobs[b] # NoJob}

Init ==
    /\ disk = Empty
    /\ mem = Empty
    /\ dirty = 0
    /\ phase = 1
    /\ pc = "down"
    /\ todo = {}
    /\ jobs = NoJobs
    /\ rows = [p \in Phases |-> [x \in Rows |-> 0]]
    /\ lost = [p \in Phases |-> {}]
    /\ faults = 0

\* A run begins and reads the checkpoint file.
Start ==
    /\ pc = "down"
    /\ pc' = "enter" /\ phase' = 1 /\ todo' = {}
    /\ mem' = disk /\ dirty' = 0
    /\ UNCHANGED <<disk, jobs, rows, lost, faults>>

\* The same with --reset: the file is deleted first.
StartReset ==
    /\ pc = "down"
    /\ Fault
    /\ pc' = "enter" /\ phase' = 1 /\ todo' = {}
    /\ disk' = Empty /\ mem' = Empty /\ dirty' = 0
    /\ UNCHANGED <<jobs, rows, lost>>

GoOn == phase' = phase + 1 /\ pc' = "enter" /\ todo' = {}

\* The phase is completed in the checkpoint, or has no data.
SkipPhase ==
    /\ pc = "enter" /\ phase \in Phases
    /\ mem[phase].status = "completed" \/ phase \in NoData
    /\ GoOn
    /\ UNCHANGED <<checkpoint, jobs, rows, lost, faults>>

Enters(kinds) ==
    /\ pc = "enter" /\ phase \in Phases \ NoData
    /\ mem[phase].status # "completed"
    /\ Plan[phase] \in kinds

\* run_schema_creation and run_index_creation are idempotent DDL.
RunStep ==
    /\ Enters({"step"})
    /\ MarkPhaseDone(phase)
    /\ GoOn
    /\ UNCHANGED <<jobs, rows, lost, faults>>

EnterPool ==
    /\ Enters({"nodes", "smallNodes", "stream", "fts"})
    /\ todo' = Batches \ CompletedBatches(phase)
    /\ pc' = "pool"
    /\ UNCHANGED <<checkpoint, phase, jobs, rows, lost, faults>>

\* How many futures the main thread lets pile up before it collects one.
Limit ==
    CASE Plan[phase] = "nodes" -> Cardinality(Batches)
      [] Plan[phase] = "stream" -> Workers
      [] OTHER -> 1

Submit(b) ==
    /\ pc = "pool"
    /\ b \in todo /\ Cardinality(InFlight) < Limit
    /\ todo' = todo \ {b}
    /\ jobs' = [jobs EXCEPT ![b] = Queued]
    /\ UNCHANGED <<checkpoint, phase, pc, rows, lost, faults>>

Collects == pc = "pool" /\ (todo = {} \/ Cardinality(InFlight) >= Limit)

\* Mutant of Answered: a future is taken as done once it is started.
AnsweredWhenTaken(b) == jobs[b].state \in {"running", "finished"}

\* as_completed yields a future, and result() returns its count.
Answered(b) == jobs[b].state = "finished"

Collect(b) ==
    /\ Collects
    /\ Answered(b)
    /\ jobs' = [jobs EXCEPT ![b] = NoJob]
    /\ MarkBatchDone(phase, b)
    /\ UNCHANGED <<main, rows, lost, faults>>

\* future.result() raises, or the iterator of the embeddings does: the pool is
\* shut down, which waits for the futures, and the exception ends the process.
CollectRaises(b) ==
    /\ Collects
    /\ jobs[b] = Failed
    /\ pc' = "failing"
    /\ UNCHANGED <<checkpoint, phase, todo, jobs, rows, lost, faults>>

IteratorRaises ==
    /\ pc = "pool" /\ Plan[phase] = "stream" /\ todo # {}
    /\ Fault
    /\ pc' = "failing"
    /\ UNCHANGED <<checkpoint, phase, todo, jobs, rows, lost>>

PoolDone ==
    /\ pc = "pool" /\ todo = {} /\ InFlight = {}
    /\ MarkPhaseDone(phase)
    /\ GoOn
    /\ UNCHANGED <<jobs, rows, lost, faults>>

\* load_edges_direct.  When no edge can be resolved it is marked done at once.
EnterEdges ==
    /\ Enters({"edges"})
    /\ IF Resolvable(phase) = {}
       THEN MarkPhaseDone(phase) /\ GoOn
       ELSE pc' = "truncate" /\ UNCHANGED <<checkpoint, phase, todo>>
    /\ UNCHANGED <<jobs, rows, lost, faults>>

TruncateEdges ==
    /\ pc = "truncate"
    /\ rows' = Truncated(phase)
    /\ pc' = "insert" /\ todo' = Batches
    /\ UNCHANGED <<checkpoint, phase, jobs, lost, faults>>

InsertChunk(b) ==
    /\ pc = "insert"
    /\ b \in todo
    /\ rows' = Inserted(phase, {x \in Resolvable(phase) : x[1] = b})
    /\ todo' = todo \ {b}
    /\ UNCHANGED <<checkpoint, phase, pc, jobs, lost, faults>>

EdgesDone ==
    /\ pc = "insert" /\ todo = {}
    /\ MarkPhaseDone(phase)
    /\ GoOn
    /\ UNCHANGED <<jobs, rows, lost, faults>>

\* The end of load_all: a last flush.
Exit ==
    /\ pc = "enter" /\ phase \notin Phases
    /\ disk' = mem /\ dirty' = 0
    /\ pc' = "down"
    /\ UNCHANGED <<mem, phase, todo, jobs, rows, lost, faults>>

\* The process ends with the exception once the pool is empty.
ExitFailing ==
    /\ pc = "failing"
    /\ \A b \in Batches : jobs[b].state \notin {"queued", "running"}
    /\ pc' = "down"
    /\ jobs' = NoJobs
    /\ UNCHANGED <<checkpoint, phase, todo, rows, lost, faults>>

\* The process dies, or a statement of the main thread raises.
Crash ==
    /\ pc # "down"
    /\ Fault
    /\ pc' = "down"
    /\ jobs' = NoJobs
    /\ UNCHANGED <<checkpoint, phase, todo, rows, lost>>

-----------------------------------------------------------------------------
(* The workers.                                                            *)

Busy == {b \in Batches : jobs[b].state = "running"}

TakeBatch(b) ==
    /\ jobs[b] = Queued
    /\ Cardinality(Busy) < Workers
    /\ jobs' = [jobs EXCEPT ![b] = Working(Items, {}, {}, TRUE)]
    /\ UNCHANGED <<checkpoint, main, rows, lost, faults>>

ByItem == Plan[phase] \in {"nodes", "smallNodes"}

\* _load_node_batch: one MERGE per node ...
MergeItem(b) ==
    /\ jobs[b].state = "running" /\ ByItem
    /\ jobs[b].path
    /\ \E i \in jobs[b].left :
          jobs' = [jobs EXCEPT ![b] =
                      Working(@.left \ {i}, @.open \cup {i}, @.counted \cup {i}, TRUE)]
    /\ UNCHANGED <<checkpoint, main, rows, lost, faults>>

RolledBack(b, X) ==
    lost' = [lost EXCEPT ![phase] = @ \cup {<<b, i>> : i \in X}]

\* ... that may raise: the exception is swallowed after a rollback, which takes
\* the nodes merged before it along, and the SET search_path too unless an
\* earlier transaction of the connection committed one.  Without the path every
\* later statement of the batch raises.
MergeRaises(b) ==
    /\ jobs[b].state = "running" /\ ByItem
    /\ IF jobs[b].path THEN Fault ELSE UNCHANGED faults
    /\ \E i \in jobs[b].left, kept \in BOOLEAN :
          /\ kept => jobs[b].path
          /\ jobs' = [jobs EXCEPT ![b] = Working(@.left \ {i}, {}, @.counted, kept)]
          /\ RolledBack(b, jobs[b].open \cup {i})
    /\ UNCHANGED <<checkpoint, main, rows>>

\* execute_with_retry: after an OperationalError the transaction is rolled back
\* too, and only this statement is executed again.
MergeRetried(b) ==
    /\ jobs[b].state = "running" /\ ByItem
    /\ jobs[b].path
    /\ Fault
    /\ \E i \in jobs[b].left :
          jobs' = [jobs EXCEPT ![b] =
                      Working(@.left \ {i}, {i}, @.counted \cup {i}, TRUE)]
    /\ RolledBack(b, jobs[b].open)
    /\ UNCHANGED <<checkpoint, main, rows>>

\* VectorLoader._insert_batch and load_fts_data: one statement for the batch.
UpsertBatch(b) ==
    /\ jobs[b].state = "running" /\ ~ByItem
    /\ jobs[b].left # {}
    /\ jobs' = [jobs EXCEPT ![b] = Working({}, Items, Items, TRUE)]
    /\ UNCHANGED <<checkpoint, main, rows, lost, faults>>

CommitBatch(b) ==
    /\ jobs[b].state = "running" /\ jobs[b].left = {}
    /\ rows' = Upserted(phase, b, jobs[b].open)
    /\ jobs' = [jobs EXCEPT ![b] = [state |-> "finished", counted |-> jobs[b].counted]]
    /\ UNCHANGED <<checkpoint, main, lost, faults>>

\* The connection is lost: rollback() raises as well, or nothing catches it.
BatchRaises(b) ==
    /\ jobs[b].state = "running"
    /\ Fault
    /\ jobs' = [jobs EXCEPT ![b] = Failed]
    /\ UNCHANGED <<checkpoint, main, rows, lost>>

-----------------------------------------------------------------------------

WorkerStep(b) ==
    \/ TakeBatch(b) \/ MergeItem(b) \/ MergeRaises(b) \/ MergeRetried(b)
    \/ UpsertBatch(b) \/ CommitBatch(b) \/ BatchRaises(b)

MainStep ==
    \/ SkipPhase \/ RunStep \/ EnterPool \/ PoolDone \/ IteratorRaises
    \/ EnterEdges \/ TruncateEdges \/ EdgesDone \/ Exit \/ ExitFailing
    \/ \E b \in Batches : Submit(b) \/ Collect(b) \/ CollectRaises(b) \/ InsertChunk(b)

Next == Start \/ StartReset \/ Crash \/ MainStep \/ \E b \in Batches : WorkerStep(b)

Spec == Init /\ [][Next]_vars

\* The threads are scheduled, statements end, and the load is run again when it
\* died ("Re-run the pipeline").
FairSpec ==
    /\ Spec
    /\ WF_vars(MainStep) /\ WF_vars(Start)
    /\ \A b \in Batches : WF_vars(WorkerStep(b))

-----------------------------------------------------------------------------
(* Properties.                                                             *)

\* The type invariant; fewer than _FLUSH_INTERVAL batches are unsaved.
TypeOK ==
    /\ disk \in [Phases -> Record]
    /\ mem \in [Phases -> Record]
    /\ dirty \in 0..FlushInterval - 1
    /\ phase \in 1..Len(Plan) + 1
    /\ pc \in {"down", "enter", "pool", "truncate", "insert", "failing"}
    /\ todo \in SUBSET Batches
    /\ jobs \in [Batches -> {NoJob, Queued, Failed} \cup Running \cup Finished]
    /\ rows \in [Phases -> [Rows -> Nat]]
    /\ lost \in [Phases -> SUBSET Rows]
    /\ faults \in Nat

\* A crash costs the marks of fewer than _FLUSH_INTERVAL batches, however the
\* batches of successive phases and the phases themselves are marked.
FewMarksAreAtRisk ==
    pc # "down" =>
        Cardinality({x \in Phases \X Batches : x[2] \in mem[x[1]].batches \ disk[x[1]].batches})
            < FlushInterval

\* No row is ever in the database twice, not even when a phase that uses plain
\* inserts died half way and is run again.
NoDuplicates == \A p \in Phases : \A x \in Rows : rows[p][x] <= 1

\* "track which batches have finished so we can skip them on restart": every
\* batch a resumed run will skip is in the database, but for the rows whose
\* transaction was rolled back.
SkippedBatchesAreLoaded ==
    \A p \in Phases : \A b \in disk[p].batches : \A i \in Items :
        rows[p][<<b, i>>] > 0 \/ <<b, i>> \in lost[p]

\* "Returns count loaded": what _load_node_batch counts is in the graph.
CountedIsLoaded ==
    \A b \in Batches :
        jobs[b].state = "finished" =>
            \A i \in jobs[b].counted : rows[phase][<<b, i>>] > 0

Recorded == {p \in Phases : disk[p].status = "completed"}

\* The load implements a resumable load:
\* phases are recorded in order and only when loaded, and the rows of a recorded
\* phase are left alone, whatever workers are still running.
Resumable == INSTANCE ResumableLoad WITH
    table <- [p \in Phases |-> Present(p)], recorded <- Recorded
ImplementsResumableLoad == Resumable!Spec

\* Run again often enough, the load completes and stays complete.
LoadCompletes == <>[](Recorded = Phases \ NoData)

=============================================================================
