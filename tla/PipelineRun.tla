----------------------------- MODULE PipelineRun -----------------------------
(***************************************************************************)
(* talent_data_pipeline/main.py: runs of the pipeline that generates the   *)
(* data and loads it, one after the other, each with a seed and with or    *)
(* without --force, any of which may die between two steps.                *)
(*                                                                         *)
(* A run probes the database and skips generation and loading when it      *)
(* looks loaded.  Otherwise it generates the data, keeping checkpoints     *)
(* and a cache of embeddings on disk, and loads the tables: each graph     *)
(* table is emptied in one transaction and filled in others, and nodes     *)
(* get new ids every time, so the tables agree only at the end.            *)
(*                                                                         *)
(* Abstractions: employees come in batches, and a batch of another seed    *)
(* has the same workday_ids and other contents; an edge chunk is the edges *)
(* of a batch; batches, and the labels within a step, are taken in any     *)
(* order.  --no-truncate, which keeps old rows by design, is left out.     *)
(***************************************************************************)
EXTENDS Naturals, FiniteSets

CONSTANTS
    Seeds,          \* the values of RANDOM_SEED
    Batches,        \* batches of employees
    RefLabels,      \* labels of the reference nodes
    Location, Country,
    EdgeLabels,     \* labels of employee edges, named by the label they lead to
    Enough,         \* batches that are 90% of EMPLOYEE_COUNT
    None,           \* no data
    MaxRuns, MaxFaults  \* bounds

ASSUME LabelsAssumption ==
    {Location, Country} \subseteq RefLabels /\ EdgeLabels \subseteq RefLabels
ASSUME EnoughAssumption == IsFiniteSet(Batches) /\ Enough \in 1..Cardinality(Batches)
ASSUME NoneAssumption == None \notin Seeds \cup RefLabels
ASSUME BoundsAssumption == MaxRuns \in Nat /\ MaxFaults \in Nat

\* The generation checkpoints, in the order they are made; the reference data do
\* not depend on the seed.
Files == {"employees", "resumes", "edges"}

VARIABLES
    run, seed, force,   \* the current run: its number and options
    pc,                 \* the step it is at; "down": no process runs
    skipped,            \* it skipped generation and loading
    held, vecs,         \* its memory: the seed of each payload, of each batch of vectors
    table, todo, chunks, emptied,   \* the table in work, those left, its batches left
    lookup,             \* the node ids read before the edges are loaded
    files, cache,       \* on disk: the seed in each checkpoint, of each cached batch
    refs, nodes, inCountry, edges,  \* the graph; the id of a node is the run that made it
    vectors, fts, entities,         \* the relational tables
    unfinished, failed, lostInCountry, reseeded,    \* history: see the actions
    faults

process == <<run, seed, force, pc, skipped>>
memory == <<held, vecs>>
loop == <<table, todo, chunks, emptied, lookup>>
disk == <<files, cache>>
graph == <<refs, nodes, inCountry, edges>>
tables == <<vectors, fts, entities>>
history == <<unfinished, failed, lostInCountry, reseeded>>
vars == <<process, memory, loop, disk, graph, tables, history, faults>>

Node == [batch : Batches, id : 1..MaxRuns, seed : Seeds]
Edge == [batch : Batches, from : 1..MaxRuns, to : 1..MaxRuns]
Loading == {"references", "inCountry", "employees", "edges", "vectors", "fts",
            "entities", "entityVectors"}

Nothing == [f \in Files |-> None]
NoBatch == [b \in Batches |-> None]
NoLookup == [employees |-> {}, refs |-> [r \in RefLabels |-> {}]]

Init ==
    /\ run = 0 /\ seed \in Seeds /\ force = FALSE /\ pc = "down" /\ skipped = FALSE
    /\ held = Nothing /\ vecs = NoBatch
    /\ table = None /\ todo = {} /\ chunks = {} /\ emptied = FALSE /\ lookup = NoLookup
    /\ files = Nothing /\ cache = NoBatch
    /\ refs = [r \in RefLabels |-> {}] /\ nodes = {} /\ inCountry = {}
    /\ edges = [l \in EdgeLabels |-> {}]
    /\ vectors = NoBatch /\ fts = NoBatch /\ entities = "none"
    /\ unfinished = FALSE /\ failed = {} /\ lostInCountry = FALSE /\ reseeded = FALSE
    /\ faults = 0

Fault == faults < MaxFaults /\ faults' = faults + 1

-----------------------------------------------------------------------------
(* The run, its probe and the generation.                                  *)

\* The operator runs the pipeline.  reseeded: the embeddings on disk may be those
\* of another seed than the employees'.
Start(s, f) ==
    /\ pc \in {"down", "complete"} /\ run < MaxRuns
    /\ run' = run + 1 /\ seed' = s /\ force' = f
    /\ pc' = "probe" /\ skipped' = FALSE
    /\ reseeded' = (reseeded \/ (run > 0 /\ s # seed))
    /\ UNCHANGED <<memory, loop, disk, graph, tables, unfinished, failed, lostInCountry, faults>>

LooksLoaded ==
    /\ Cardinality(nodes) >= Enough
    /\ Cardinality({b \in Batches : vectors[b] # None}) >= Enough

Generates == pc' = IF force THEN "clear" ELSE "generate"

Probe ==
    /\ pc = "probe"
    /\ IF LooksLoaded /\ ~force THEN pc' = "indexes" /\ skipped' = TRUE
                                ELSE Generates /\ UNCHANGED skipped
    /\ UNCHANGED <<run, seed, force, memory, loop, disk, graph, tables, history, faults>>

\* A probe that fails makes a full run.
ProbeFails ==
    /\ pc = "probe" /\ Fault /\ Generates
    /\ UNCHANGED <<run, seed, force, skipped, memory, loop, disk, graph, tables, history>>

ClearGeneration ==
    /\ pc = "clear" /\ pc' = "clearCache"
    /\ files' = Nothing
    /\ UNCHANGED <<run, seed, force, skipped, memory, loop, cache, graph, tables, history, faults>>

\* Mutant of RemainingCache: --force keeps the embeddings.
RemainingCacheAll == cache

RemainingCache == NoBatch

ClearEmbeddings ==
    /\ pc = "clearCache" /\ pc' = "generate"
    /\ cache' = RemainingCache
    /\ UNCHANGED <<run, seed, force, skipped, memory, loop, files, graph, tables, history, faults>>

\* Mutant of Checkpointed: the metadata are not compared.
CheckpointedAnyhow(f) == files[f]

\* _load_generation_checkpoint
Checkpointed(f) == IF files[f] = seed THEN files[f] ELSE None

\* What each payload is made from.
Source(f) == CASE f = "employees" -> seed
               [] f = "resumes" -> held["employees"]
               [] f = "edges" -> held["resumes"]

Generate(f) ==
    /\ pc = "generate" /\ held[f] = None /\ Source(f) # None
    /\ LET cached == Checkpointed(f)
           data == IF cached # None THEN cached ELSE Source(f)
       IN  /\ held' = [held EXCEPT ![f] = data]
           /\ files' = IF cached # None THEN files ELSE [files EXCEPT ![f] = data]
    /\ pc' = IF f = "edges" THEN "embed" ELSE pc
    /\ UNCHANGED <<run, seed, force, skipped, vecs, loop, cache, graph, tables, history, faults>>

\* A cached batch is taken whatever employees it was made from.
LoadBatch(b) ==
    /\ cache[b] # None
    /\ vecs' = [vecs EXCEPT ![b] = cache[b]]
    /\ UNCHANGED cache

\* The vectors of the texts, from the service or made up; a third error in a row
\* ends the run (Crash).
EncodeBatch == held["resumes"]

\* The file is replaced at once, before the batch is used.
SaveBatch(b, data) ==
    /\ cache' = [cache EXCEPT ![b] = data]
    /\ vecs' = [vecs EXCEPT ![b] = data]

Embed(b) ==
    /\ pc = "embed" /\ vecs[b] = None
    /\ LoadBatch(b) \/ (cache[b] = None /\ SaveBatch(b, EncodeBatch))
    /\ UNCHANGED <<process, held, loop, files, graph, tables, history, faults>>

\* The load begins; until EmbedEntities ends it, it is unfinished.
BeginLoad ==
    /\ pc = "embed" /\ \A b \in Batches : vecs[b] # None
    /\ pc' = "references" /\ todo' = RefLabels
    /\ unfinished' = TRUE /\ failed' = {} /\ lostInCountry' = FALSE
    /\ UNCHANGED <<run, seed, force, skipped, memory, table, chunks, emptied, lookup, disk,
                   graph, tables, reseeded, faults>>

-----------------------------------------------------------------------------
(* The graph.                                                              *)

\* truncate_label of a label, which commits before the rows are inserted.
Truncate ==
    /\ ~emptied /\ emptied' = TRUE

TruncateReference(r) ==
    /\ pc = "references" /\ r \in todo /\ Truncate
    /\ refs' = [refs EXCEPT ![r] = {}]
    /\ table' = r
    /\ UNCHANGED <<process, memory, todo, chunks, lookup, disk, nodes, inCountry, edges,
                   tables, history, faults>>

InsertReference ==
    /\ pc = "references" /\ emptied /\ emptied' = FALSE
    /\ refs' = [refs EXCEPT ![table] = @ \cup {run}]
    /\ todo' = todo \ {table} /\ table' = None
    /\ pc' = IF todo' = {} THEN "inCountry" ELSE pc
    /\ UNCHANGED <<run, seed, force, skipped, memory, chunks, lookup, disk, nodes, inCountry,
                   edges, tables, history, faults>>

\* Mutant of RemainingInCountry: IN_COUNTRY is not truncated.
RemainingInCountryAll == inCountry

RemainingInCountry == {}

TruncateInCountry ==
    /\ pc = "inCountry" /\ Truncate
    /\ inCountry' = RemainingInCountry
    /\ UNCHANGED <<process, memory, table, todo, chunks, lookup, disk, refs, nodes, edges,
                   tables, history, faults>>

\* MERGE adds an edge between the nodes that are there now.
MergeInCountry ==
    /\ pc = "inCountry" /\ emptied /\ emptied' = FALSE
    /\ inCountry' = inCountry \cup (refs[Location] \X refs[Country])
    /\ pc' = "employees"
    /\ UNCHANGED <<run, seed, force, skipped, memory, table, todo, chunks, lookup, disk, refs,
                   nodes, edges, tables, history, faults>>

\* The exception is swallowed, and the edges merged so far are rolled back.
MergeInCountryRaises ==
    /\ pc = "inCountry" /\ emptied /\ Fault /\ emptied' = FALSE
    /\ lostInCountry' = TRUE
    /\ pc' = "employees"
    /\ UNCHANGED <<run, seed, force, skipped, memory, table, todo, chunks, lookup, disk,
                   graph, tables, unfinished, failed, reseeded>>

\* Mutant of RemainingNodes: the employees are not truncated.
RemainingNodesAll == nodes

RemainingNodes == {}

TruncateEmployees ==
    /\ pc = "employees" /\ Truncate
    /\ nodes' = RemainingNodes
    /\ chunks' = Batches
    /\ UNCHANGED <<process, memory, table, todo, lookup, disk, refs, inCountry, edges, tables,
                   history, faults>>

InsertEmployees(b) ==
    /\ pc = "employees" /\ b \in chunks
    /\ nodes' = nodes \cup {[batch |-> b, id |-> run, seed |-> held["resumes"]]}
    /\ chunks' = chunks \ {b}
    /\ UNCHANGED <<process, memory, table, todo, emptied, lookup, disk, refs, inCountry, edges,
                   tables, history, faults>>

\* A batch that raises in the pool is printed and passed over.
EmployeesFail(b) ==
    /\ pc = "employees" /\ b \in chunks /\ Fault
    /\ failed' = failed \cup {b}
    /\ chunks' = chunks \ {b}
    /\ UNCHANGED <<process, memory, table, todo, emptied, lookup, disk, graph, tables,
                   unfinished, lostInCountry, reseeded>>

\* build_all_lookups, once all nodes are in place.
BuildLookups ==
    /\ pc = "employees" /\ emptied /\ chunks = {}
    /\ lookup' = [employees |-> nodes, refs |-> refs]
    /\ pc' = "edges" /\ todo' = EdgeLabels /\ emptied' = FALSE
    /\ UNCHANGED <<run, seed, force, skipped, memory, table, chunks, disk, graph, tables,
                   history, faults>>

\* The edges of label l whose two ends are in the lookups.
Values(l) == {[batch |-> n.batch, from |-> n.id, to |-> r] :
                 n \in lookup.employees, r \in lookup.refs[l]}

\* Mutant of EndLabel: return, where the code goes on with the next label.
EndLabelEarly(l) ==
    /\ todo' = todo \ {l} /\ table' = None
    /\ pc' = "vectors" /\ chunks' = Batches

EndLabel(l) ==
    /\ todo' = todo \ {l} /\ table' = None
    /\ IF todo' = {} THEN pc' = "vectors" /\ chunks' = Batches
                     ELSE UNCHANGED <<pc, chunks>>

\* With nothing to insert the label is not truncated either.
NoEdges(l) ==
    /\ pc = "edges" /\ l \in todo /\ ~emptied /\ Values(l) = {}
    /\ EndLabel(l)
    /\ UNCHANGED <<run, seed, force, skipped, memory, emptied, lookup, disk, graph,
                   tables, history, faults>>

TruncateEdges(l) ==
    /\ pc = "edges" /\ l \in todo /\ Values(l) # {} /\ Truncate
    /\ edges' = [edges EXCEPT ![l] = {}]
    /\ table' = l /\ chunks' = {v.batch : v \in Values(l)}
    /\ UNCHANGED <<process, memory, todo, lookup, disk, refs, nodes, inCountry, tables,
                   history, faults>>

InsertEdges(b) ==
    /\ pc = "edges" /\ emptied /\ b \in chunks
    /\ edges' = [edges EXCEPT ![table] = @ \cup {v \in Values(table) : v.batch = b}]
    /\ chunks' = chunks \ {b}
    /\ UNCHANGED <<process, memory, table, todo, emptied, lookup, disk, refs, nodes, inCountry,
                   tables, history, faults>>

EdgesDone ==
    /\ pc = "edges" /\ emptied /\ chunks = {} /\ emptied' = FALSE
    /\ EndLabel(table)
    /\ UNCHANGED <<run, seed, force, skipped, memory, lookup, disk, graph, tables,
                   history, faults>>

-----------------------------------------------------------------------------
(* The relational tables: upserts, which never remove a row.               *)

LoadVectors(b) ==
    /\ pc = "vectors" /\ b \in chunks /\ vectors' = [vectors EXCEPT ![b] = vecs[b]]
    /\ chunks' = chunks \ {b}
    /\ UNCHANGED <<process, memory, table, todo, emptied, lookup, disk, graph, fts, entities,
                   history, faults>>

LoadText(b) ==
    /\ pc = "fts" /\ b \in chunks /\ fts' = [fts EXCEPT ![b] = held["resumes"]]
    /\ chunks' = chunks \ {b}
    /\ UNCHANGED <<process, memory, table, todo, emptied, lookup, disk, graph, vectors, entities,
                   history, faults>>

AllLoaded ==
    /\ pc \in {"vectors", "fts"} /\ chunks = {}
    /\ IF pc = "vectors" THEN pc' = "fts" /\ chunks' = Batches
                         ELSE pc' = "entities" /\ UNCHANGED chunks
    /\ UNCHANGED <<run, seed, force, skipped, memory, table, todo, emptied, lookup, disk, graph,
                   tables, history, faults>>

\* Rows that are there keep their embeddings.
LoadEntitySearch ==
    /\ pc = "entities" /\ pc' = "entityVectors"
    /\ entities' = IF entities = "none" THEN "rows" ELSE entities
    /\ UNCHANGED <<run, seed, force, skipped, memory, loop, disk, graph, vectors, fts, history,
                   faults>>

\* The load is finished; one with --force has made all its embeddings.
EmbedEntities ==
    /\ pc = "entityVectors" /\ pc' = "indexes"
    /\ entities' = "embedded"
    /\ unfinished' = FALSE /\ reseeded' = (reseeded /\ ~force)
    /\ UNCHANGED <<run, seed, force, skipped, memory, loop, disk, graph, vectors, fts, failed,
                   lostInCountry, faults>>

\* Indexes and validation, whose verdict nothing depends on.
Complete ==
    /\ pc = "indexes" /\ pc' = "complete"
    /\ held' = Nothing /\ vecs' = NoBatch /\ lookup' = NoLookup
    /\ UNCHANGED <<run, seed, force, skipped, table, todo, chunks, emptied, disk, graph, tables,
                   history, faults>>

\* The process dies, or an exception nobody catches ends it.
Crash ==
    /\ pc \notin {"down", "complete"} /\ Fault /\ pc' = "down"
    /\ held' = Nothing /\ vecs' = NoBatch
    /\ table' = None /\ todo' = {} /\ chunks' = {} /\ emptied' = FALSE /\ lookup' = NoLookup
    /\ UNCHANGED <<run, seed, force, skipped, disk, graph, tables, history>>

-----------------------------------------------------------------------------
Next ==
    \/ \E s \in Seeds, f \in BOOLEAN : Start(s, f)
    \/ Probe \/ ProbeFails \/ ClearGeneration \/ ClearEmbeddings
    \/ \E f \in Files : Generate(f)
    \/ BeginLoad
    \/ \E r \in RefLabels : TruncateReference(r)
    \/ InsertReference \/ TruncateInCountry \/ MergeInCountry \/ MergeInCountryRaises
    \/ TruncateEmployees \/ BuildLookups
    \/ \E l \in EdgeLabels : NoEdges(l) \/ TruncateEdges(l)
    \/ EdgesDone \/ AllLoaded \/ LoadEntitySearch \/ EmbedEntities \/ Complete \/ Crash
    \/ \E b \in Batches :
          \/ Embed(b) \/ InsertEmployees(b) \/ EmployeesFail(b) \/ InsertEdges(b)
          \/ LoadVectors(b) \/ LoadText(b)

Spec == Init /\ [][Next]_vars

-----------------------------------------------------------------------------
(* Properties.                                                             *)

\* Types, what the main thread has when it loads, and the loop variables.
TypeOK ==
    /\ run \in 0..MaxRuns /\ seed \in Seeds /\ force \in BOOLEAN /\ skipped \in BOOLEAN
    /\ pc \in Loading \cup {"down", "probe", "clear", "clearCache", "generate", "embed",
                         "indexes", "complete"}
    /\ held \in [Files -> Seeds \cup {None}] /\ vecs \in [Batches -> Seeds \cup {None}]
    /\ pc \in Loading => None \notin {held[f] : f \in Files} \cup {vecs[b] : b \in Batches}
    /\ table \in RefLabels \cup {None} /\ emptied \in BOOLEAN
    /\ todo \subseteq RefLabels /\ (todo # {} => pc \in {"references", "edges"})
    /\ chunks \subseteq Batches /\ (chunks # {} => pc \in {"employees", "edges", "vectors", "fts"})
    /\ lookup.employees \subseteq Node /\ lookup.refs \in [RefLabels -> SUBSET (1..MaxRuns)]
    /\ files \in [Files -> Seeds \cup {None}] /\ cache \in [Batches -> Seeds \cup {None}]
    /\ refs \in [RefLabels -> SUBSET (1..MaxRuns)] /\ nodes \subseteq Node
    /\ inCountry \subseteq (1..MaxRuns) \X (1..MaxRuns)
    /\ edges \in [EdgeLabels -> SUBSET Edge]
    /\ vectors \in [Batches -> Seeds \cup {None}] /\ fts \in [Batches -> Seeds \cup {None}]
    /\ entities \in {"none", "rows", "embedded"}
    /\ unfinished \in BOOLEAN /\ lostInCountry \in BOOLEAN /\ reseeded \in BOOLEAN
    /\ failed \subseteq Batches /\ faults \in 0..MaxFaults

\* "re-running won't duplicate data" (DATA_LOADING.md:274): whichever runs died where,
\* no node, edge or reference node is there twice.
NothingIsDoubled ==
    /\ \A m, n \in nodes : m.batch = n.batch => m = n
    /\ \A l \in EdgeLabels : \A d, e \in edges[l] : d.batch = e.batch => d = e
    /\ \A r \in RefLabels : Cardinality(refs[r]) <= 1
    /\ Cardinality(inCountry) <= 1

\* An edge leads from or to a node that is gone only while a load is under way, or
\* after one that died, or that could not insert a single employee.
IsDangling(l, e) ==
    \/ ~\E n \in nodes : n.batch = e.batch /\ n.id = e.from
    \/ e.to \notin refs[l]
DanglingOnlyWhenUnfinished ==
    ~unfinished =>
        /\ inCountry \subseteq refs[Location] \X refs[Country]
        /\ nodes # {} => \A l \in EdgeLabels : ~\E e \in edges[l] : IsDangling(l, e)

\* The tables agree: the employees but for the batches that failed, all their edges,
\* their texts and their embeddings; if the seed has changed without --force, the
\* embeddings may be those of the old employees.
Consistent ==
    /\ {n.batch : n \in nodes} = Batches \ failed
    /\ nodes # {} => \A l \in EdgeLabels : \A n \in nodes :
          \E e \in edges[l] : e.batch = n.batch /\ ~IsDangling(l, e)
    /\ lostInCountry \/ inCountry = refs[Location] \X refs[Country]
    /\ \A n \in nodes : fts[n.batch] = n.seed
    /\ \A n \in nodes : reseeded \/ vectors[n.batch] = n.seed
    /\ entities = "embedded"

\* A run that says it is complete leaves the tables in agreement, unless it skipped
\* the load after one that had not finished.
CompleteIsConsistentUnless ==
    pc = "complete" => Consistent \/ (skipped /\ unfinished)

\* Checkpoints are used "when EMPLOYEE_COUNT and RANDOM_SEED still match"
\* (DATA_LOADING.md:262): a run that loads, loads the employees of its own seed,
\* whatever checkpoints earlier runs have left.
LoadsItsSeed ==
    pc = "complete" /\ ~skipped =>
        /\ \A n \in nodes : n.seed = seed
        /\ \A b \in Batches : fts[b] = seed

\* "Check whether the graph + embeddings tables already contain the expected data"
\* (main.py:177): a run skips the load only if the employees have their edges.  False:
\* the edges are counted, but the count is not used.
SkippedRunHasEdges ==
    skipped => \A n \in nodes, l \in EdgeLabels :
        \E e \in edges[l] : e.batch = n.batch /\ e.from = n.id

=============================================================================
