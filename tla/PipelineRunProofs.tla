--------------------------- MODULE PipelineRunProofs ---------------------------
(***************************************************************************)
(* Theorems of PipelineRun, for any seeds, batches, labels and bounds: all *)
(* the properties that its run checks.  The invariant comes in four        *)
(* layers, each inductive given those before it: the main thread, the      *)
(* seeds, the graph and what was loaded.                                   *)
(***************************************************************************)
EXTENDS PipelineRun, FiniteSetTheorems, TLAPS

\* The steps of a run, by what is behind it.
AfterEdges == {"vectors", "fts", "entities", "entityVectors"}
AfterEmployees == AfterEdges \cup {"edges"}
AfterInCountry == AfterEmployees \cup {"employees"}
Ended == {"indexes", "complete"}
Unproductive == {"down", "complete", "probe", "clear", "clearCache"}
Graphing == {"references", "inCountry", "employees", "edges"}

\* The payloads are generated in this order.
HeldInOrder ==
    /\ held["resumes"] # None => held["employees"] # None
    /\ held["edges"] # None => held["resumes"] # None

\* The main thread: what its memory holds at each step, and where its loops are.
ControlInv ==
    /\ pc # "down" => run >= 1
    /\ pc \in Unproductive => held = Nothing
    /\ pc \in Unproductive \cup {"generate"} => vecs = NoBatch
    /\ HeldInOrder
    /\ pc = "embed" => held["edges"] # None
    /\ emptied => pc \in Graphing
    /\ pc = "edges" => todo \subseteq EdgeLabels
    /\ pc \in {"employees", "edges"} /\ ~emptied => chunks = {}
    /\ emptied /\ pc \in {"references", "edges"} => table \in todo
    /\ skipped => pc \in Ended \cup {"down"}
TypeInv == TypeOK /\ ControlInv

\* What a run holds is of its seed; so are the embeddings on disk and in memory, if the
\* seed never changed or --force has cleared them.
CacheIsClean == ~reseeded \/ (force /\ pc \in {"generate", "embed"} \cup Loading)
SeedInv ==
    /\ \A f \in Files : held[f] \in {None, seed}
    /\ CacheIsClean => \A b \in Batches : cache[b] \in {None, seed} /\ vecs[b] \in {None, seed}
    /\ run = 0 => cache = NoBatch

\* The graph: which tables are of the current run at each step of the load.
Ends(l) == {[batch |-> n.batch, from |-> n.id, to |-> r] : n \in nodes, r \in refs[l]}
LabelDone(l) == nodes # {} => edges[l] = Ends(l)
OnePerLabel == \A r \in RefLabels : \A i, j \in refs[r] : i = j
RefsInv ==
    /\ OnePerLabel
    /\ pc = "references" => \A r \in RefLabels \ todo : refs[r] # {}
    /\ pc = "references" /\ emptied => refs[table] = {}
    /\ pc \in Loading \ {"references"} => \A r \in RefLabels : refs[r] # {}
InCountryInv ==
    /\ \A p, q \in inCountry : p = q
    /\ pc = "inCountry" /\ emptied => inCountry = {}
    /\ pc \in AfterInCountry => \/ inCountry = refs[Location] \X refs[Country]
                                \/ lostInCountry /\ inCountry = {}
NodesInv ==
    /\ \A m, n \in nodes : m.batch = n.batch => m = n
    /\ pc = "employees" => \A n \in nodes : n.batch \notin chunks
EdgesInv ==
    /\ \A l \in EdgeLabels : \A d, e \in edges[l] : d.batch = e.batch => d = e
    /\ pc = "edges" => lookup = [employees |-> nodes, refs |-> refs]
    /\ pc = "edges" /\ emptied => edges[table] = {v \in Ends(table) : v.batch \notin chunks}
    /\ pc = "edges" => \A l \in EdgeLabels \ todo : LabelDone(l)
    /\ pc \in AfterEdges => \A l \in EdgeLabels : LabelDone(l)
FinishedInv ==
    /\ pc \in Loading => unfinished
    /\ ~unfinished => /\ inCountry \subseteq refs[Location] \X refs[Country]
                      /\ \A l \in EdgeLabels : LabelDone(l)
GraphInv == RefsInv /\ InCountryInv /\ NodesInv /\ EdgesInv /\ FinishedInv

\* What was loaded: the employees, their texts and embeddings.
Loaded == {n.batch : n \in nodes}
EmployeesInv ==
    /\ pc \in {"references", "inCountry"} \/ (pc = "employees" /\ ~emptied) => failed = {}
    /\ pc = "employees" /\ emptied => /\ Loaded = Batches \ (chunks \cup failed)
                                      /\ failed \cap chunks = {}
    /\ pc \in AfterEmployees => Loaded = Batches \ failed
    /\ pc \in AfterEmployees \/ (pc = "employees" /\ emptied) => \A n \in nodes : n.seed = seed
TablesInv ==
    /\ pc = "vectors" => \A b \in Batches \ chunks : vectors[b] = vecs[b]
    /\ pc \in AfterEdges \ {"vectors"} => \A b \in Batches : vectors[b] = vecs[b]
    /\ pc = "fts" => \A b \in Batches \ chunks : fts[b] = seed
    /\ pc \in {"entities", "entityVectors"} => \A b \in Batches : fts[b] = seed
EndInv ==
    /\ ~unfinished /\ nodes # {} => Consistent
    /\ pc \in Ended /\ skipped => nodes # {}
    /\ pc \in Ended /\ ~skipped => /\ Consistent
                                   /\ \A n \in nodes : n.seed = seed
                                   /\ \A b \in Batches : fts[b] = seed
LoadInv == EmployeesInv /\ TablesInv /\ EndInv

-----------------------------------------------------------------------------
(* Which steps change which variables; the actions are expanded only here.     *)

USE DEF Next, vars, process, memory, loop, disk, graph, tables, history, Fault, Truncate,
        EndLabel, Generates, Start, Probe, ProbeFails, ClearGeneration, ClearEmbeddings,
        Generate, LoadBatch, EncodeBatch, SaveBatch, Embed, BeginLoad, TruncateReference,
        InsertReference, TruncateInCountry,
        MergeInCountry, MergeInCountryRaises, TruncateEmployees, InsertEmployees,
        EmployeesFail, BuildLookups, NoEdges, TruncateEdges, InsertEdges, EdgesDone,
        LoadVectors, LoadText, AllLoaded, LoadEntitySearch, EmbedEntities, Complete, Crash

LEMMA RunChanges ==
    [Next]_vars => UNCHANGED <<run, seed, force>> \/ \E s \in Seeds, f \in BOOLEAN : Start(s, f)
  OBVIOUS

LEMMA HeldChanges ==
    [Next]_vars => UNCHANGED held \/ held' = Nothing \/ \E f \in Files : Generate(f)
  OBVIOUS

LEMMA VecsChange == [Next]_vars => UNCHANGED vecs \/ vecs' = NoBatch \/ \E b \in Batches : Embed(b)
  OBVIOUS

LEMMA DiskChanges ==
    [Next]_vars => \/ UNCHANGED disk \/ ClearGeneration \/ ClearEmbeddings
                   \/ (\E f \in Files : Generate(f)) \/ (\E b \in Batches : Embed(b))
  OBVIOUS

LEMMA TodoChanges ==
    [Next]_vars => \/ UNCHANGED todo \/ todo' = {} \/ BeginLoad \/ InsertReference
                   \/ BuildLookups \/ EdgesDone \/ \E l \in EdgeLabels : NoEdges(l)
  OBVIOUS

\* A table that has been emptied and is being filled.
LEMMA TableChanges ==
    ASSUME TypeInv, [Next]_vars, emptied', pc' \in {"references", "edges"}
    PROVE  \/ UNCHANGED <<table, todo, emptied, pc>>
           \/ (\E r \in RefLabels : TruncateReference(r)) \/ (\E l \in EdgeLabels : TruncateEdges(l))
  BY DEF TypeInv, ControlInv, Graphing

\* Who makes the embeddings those of one seed.
LEMMA CacheCleared ==
    [Next]_vars /\ CacheIsClean' =>
        CacheIsClean \/ ClearEmbeddings \/ \E s \in Seeds, f \in BOOLEAN : Start(s, f)
<1> SUFFICES ASSUME [Next]_vars, CacheIsClean', ~CacheIsClean, ~ClearEmbeddings,
                    ~\E s \in Seeds, f \in BOOLEAN : Start(s, f)
             PROVE  FALSE
  OBVIOUS
<1>1. reseeded /\ ~(force /\ pc \in {"generate", "embed"} \cup Loading)
  BY DEF CacheIsClean
<1>2. force' = force
  BY RunChanges
<1>3. pc = "entityVectors" \/ reseeded'
  BY <1>1
<1>4. force /\ pc' \in {"generate", "embed"} \cup Loading /\ pc # "entityVectors"
  BY <1>1, <1>2, <1>3 DEF CacheIsClean, Loading
<1> QED BY <1>1, <1>4 DEF Loading

LEMMA RefsChange ==
    [Next]_vars => UNCHANGED refs \/ InsertReference \/ \E r \in RefLabels : TruncateReference(r)
  OBVIOUS

LEMMA InCountryChanges == [Next]_vars => UNCHANGED inCountry \/ TruncateInCountry \/ MergeInCountry
  OBVIOUS

LEMMA NodesChange ==
    [Next]_vars => UNCHANGED nodes \/ TruncateEmployees \/ \E b \in Batches : InsertEmployees(b)
  OBVIOUS

LEMMA EdgesChange ==
    [Next]_vars => \/ UNCHANGED edges \/ (\E l \in EdgeLabels : TruncateEdges(l))
                   \/ \E b \in Batches : InsertEdges(b)
  OBVIOUS

\* The chunks of the table in work get fewer, or all of a new table.
LEMMA ChunksChange ==
    [Next]_vars => \/ UNCHANGED chunks \/ chunks' = {} \/ (\E b \in Batches : chunks' = chunks \ {b})
                   \/ (chunks' = Batches /\ pc' \in {"employees", "vectors", "fts"})
                   \/ \E l \in EdgeLabels : TruncateEdges(l)
  OBVIOUS

\* How a run gets to the steps of the load, with the tables it has loaded before.
LEMMA ToReferences ==
    [Next]_vars /\ pc' = "references" =>
        \/ BeginLoad \/ InsertReference \/ (\E r \in RefLabels : TruncateReference(r))
        \/ UNCHANGED <<pc, todo, emptied, table, refs>>
  OBVIOUS

LEMMA ToGraph ==
    [Next]_vars /\ pc' \in Loading \ {"references"} =>
        InsertReference \/ (pc \in Loading \ {"references"} /\ UNCHANGED refs)
  BY DEF Loading

LEMMA ToInCountry ==
    [Next]_vars /\ pc' = "inCountry" /\ emptied' =>
        TruncateInCountry \/ UNCHANGED <<pc, emptied, inCountry>>
  OBVIOUS

LEMMA PastInCountry ==
    [Next]_vars /\ pc' \in AfterInCountry =>
        \/ MergeInCountry \/ MergeInCountryRaises
        \/ pc \in AfterInCountry /\ UNCHANGED <<refs, inCountry, lostInCountry>>
  BY DEF AfterInCountry, AfterEmployees, AfterEdges

LEMMA ToEmployees ==
    [Next]_vars /\ pc' = "employees" =>
        \/ MergeInCountry \/ MergeInCountryRaises \/ TruncateEmployees
        \/ (\E b \in Batches : InsertEmployees(b) \/ EmployeesFail(b))
        \/ UNCHANGED <<pc, emptied, nodes, chunks, failed>>
  OBVIOUS

LEMMA PastEmployees ==
    [Next]_vars /\ pc' \in AfterEmployees =>
        BuildLookups \/ (pc \in AfterEmployees /\ UNCHANGED <<nodes, refs, failed, seed>>)
  BY DEF AfterEmployees, AfterEdges

LEMMA ToEdges ==
    [Next]_vars /\ pc' = "edges" =>
        \/ BuildLookups
        \/ /\ pc = "edges" /\ UNCHANGED <<nodes, refs, lookup>>
           /\ \/ (\E l \in EdgeLabels : NoEdges(l) \/ TruncateEdges(l)) \/ EdgesDone
              \/ (\E b \in Batches : InsertEdges(b))
              \/ UNCHANGED <<emptied, table, todo, chunks, edges>>
  OBVIOUS

LEMMA PastEdges ==
    [Next]_vars /\ pc' \in AfterEdges =>
        \/ (\E l \in EdgeLabels : NoEdges(l)) \/ EdgesDone
        \/ pc \in AfterEdges /\ UNCHANGED <<nodes, refs, edges>>
  BY DEF AfterEdges

\* Who loads, and who says the load is finished.
LEMMA LoadBegins ==
    [Next]_vars /\ pc' \in Loading => (pc \in Loading /\ UNCHANGED unfinished) \/ unfinished'
  BY DEF Loading

LEMMA LoadFinishes ==
    [Next]_vars /\ ~unfinished' => EmbedEntities \/ UNCHANGED unfinished
  OBVIOUS

LEMMA OnlyLoadsChange ==
    [Next]_vars => pc \in Loading \/ UNCHANGED <<refs, nodes, inCountry, edges, vectors, fts, entities>>
  BY DEF Loading

\* A load begins with no batch failed; the texts come after the graph.
LEMMA NoneFailed ==
    ASSUME TypeInv, [Next]_vars, pc' \in {"references", "inCountry"} \/ (pc' = "employees" /\ ~emptied')
    PROVE  \/ failed' = {}
           \/ /\ pc \in {"references", "inCountry"} \/ (pc = "employees" /\ ~emptied)
              /\ UNCHANGED failed
  BY DEF TypeInv, ControlInv

LEMMA ToVectors ==
    [Next]_vars /\ pc' = "vectors" =>
        \/ chunks' = Batches \/ (\E b \in Batches : LoadVectors(b))
        \/ UNCHANGED <<pc, chunks, vectors, vecs>>
  OBVIOUS

LEMMA ToTexts ==
    [Next]_vars /\ pc' = "fts" =>
        \/ AllLoaded \/ (\E b \in Batches : LoadText(b))
        \/ UNCHANGED <<pc, chunks, vectors, vecs, fts, seed>>
  OBVIOUS

LEMMA PastTexts ==
    [Next]_vars /\ pc' \in {"entities", "entityVectors"} =>
        AllLoaded \/ (pc \in {"entities", "entityVectors"} /\ UNCHANGED <<vectors, vecs, fts, seed>>)
  OBVIOUS

\* How a run gets to its end.
LEMMA ToEnd ==
    [Next]_vars /\ pc' \in Ended =>
        Probe \/ EmbedEntities \/ (pc \in Ended /\ UNCHANGED <<skipped, seed>>)
  BY DEF Ended

LEMMA Settled ==
    [Next]_vars /\ pc \notin Loading =>
        \/ BeginLoad
        \/ UNCHANGED <<refs, nodes, inCountry, edges, vectors, fts, entities, failed, lostInCountry>>
  BY DEF Loading

LEMMA ReseededChanges ==
    [Next]_vars => EmbedEntities \/ UNCHANGED reseeded \/ \E s \in Seeds, f \in BOOLEAN : Start(s, f)
  OBVIOUS

\* The parts of the type invariant that hold by the steps themselves.
LEMMA PlainTypes ==
    ASSUME TypeInv, [Next]_vars
    PROVE  /\ (pc \in Loading \cup {"down", "probe", "clear", "clearCache", "generate", "embed",
                                "indexes", "complete"})'
           /\ (skipped \in BOOLEAN)'
           /\ (vecs \in [Batches -> Seeds \cup {None}])'
           /\ (pc \in Loading => None \notin {held[f] : f \in Files} \cup {vecs[b] : b \in Batches})'
           /\ (table \in RefLabels \cup {None} /\ emptied \in BOOLEAN)'
           /\ (lookup.employees \subseteq Node /\ lookup.refs \in [RefLabels -> SUBSET (1..MaxRuns)])'
           /\ (refs \in [RefLabels -> SUBSET (1..MaxRuns)])'
           /\ (vectors \in [Batches -> Seeds \cup {None}] /\ fts \in [Batches -> Seeds \cup {None}])'
           /\ (entities \in {"none", "rows", "embedded"} /\ unfinished \in BOOLEAN)'
           /\ (lostInCountry \in BOOLEAN /\ reseeded \in BOOLEAN)'
           /\ (failed \subseteq Batches /\ faults \in 0..MaxFaults)'
<1>1. (pc \in Loading \cup {"down", "probe", "clear", "clearCache", "generate", "embed",
                            "indexes", "complete"})'
  BY BoundsAssumption DEF TypeInv, TypeOK, ControlInv, Loading
<1>2. (skipped \in BOOLEAN)'
  BY BoundsAssumption DEF TypeInv, TypeOK, ControlInv, Loading
<1>3. (vecs \in [Batches -> Seeds \cup {None}])'
  BY BoundsAssumption DEF TypeInv, TypeOK, ControlInv, Loading, NoBatch, Files
<1>4. (pc \in Loading => None \notin {held[f] : f \in Files} \cup {vecs[b] : b \in Batches})'
  BY BoundsAssumption DEF TypeInv, TypeOK, ControlInv, Loading, Files, HeldInOrder
<1>5. (table \in RefLabels \cup {None} /\ emptied \in BOOLEAN)'
  BY BoundsAssumption DEF TypeInv, TypeOK, ControlInv, Loading
<1>6. (lookup.employees \subseteq Node /\ lookup.refs \in [RefLabels -> SUBSET (1..MaxRuns)])'
  BY BoundsAssumption DEF TypeInv, TypeOK, ControlInv, Loading, NoLookup
<1>7. (refs \in [RefLabels -> SUBSET (1..MaxRuns)])'
  BY BoundsAssumption DEF TypeInv, TypeOK, ControlInv, Loading
<1>8. (vectors \in [Batches -> Seeds \cup {None}] /\ fts \in [Batches -> Seeds \cup {None}])'
  BY BoundsAssumption DEF TypeInv, TypeOK, ControlInv, Loading, Files
<1>9. (entities \in {"none", "rows", "embedded"} /\ unfinished \in BOOLEAN)'
  BY BoundsAssumption DEF TypeInv, TypeOK, ControlInv, Loading
<1>10. (lostInCountry \in BOOLEAN /\ reseeded \in BOOLEAN)'
  BY BoundsAssumption DEF TypeInv, TypeOK, ControlInv, Loading
<1>11. (failed \subseteq Batches /\ faults \in 0..MaxFaults)'
  BY BoundsAssumption DEF TypeInv, TypeOK, ControlInv, Loading
<1> QED BY <1>1, <1>2, <1>3, <1>4, <1>5, <1>6, <1>7, <1>8, <1>9, <1>10, <1>11

\* So do these parts of what is known of the main thread.
LEMMA PlainControl ==
    ASSUME TypeInv, [Next]_vars
    PROVE  /\ (pc # "down" => run >= 1)'
           /\ (pc \in Unproductive => held = Nothing)'
           /\ (pc \in Unproductive \cup {"generate"} => vecs = NoBatch)'
           /\ (pc = "embed" => held["edges"] # None)'
           /\ (emptied => pc \in Graphing)'
           /\ (pc = "edges" => todo \subseteq EdgeLabels)'
           /\ (pc \in {"employees", "edges"} /\ ~emptied => chunks = {})'
           /\ (skipped => pc \in Ended \cup {"down"})'
           /\ (todo # {} => pc \in {"references", "edges"})'
           /\ (chunks # {} => pc \in {"employees", "edges", "vectors", "fts"})'
<1>1. (pc # "down" => run >= 1)'
  BY BoundsAssumption DEF TypeInv, TypeOK, ControlInv, Loading
<1>2. (pc \in Unproductive => held = Nothing)'
  BY BoundsAssumption DEF TypeInv, TypeOK, ControlInv, Loading, Unproductive
<1>3. (pc \in Unproductive \cup {"generate"} => vecs = NoBatch)'
  BY BoundsAssumption DEF TypeInv, TypeOK, ControlInv, Loading, Unproductive
<1>4. (pc = "embed" => held["edges"] # None)'
  BY BoundsAssumption DEF TypeInv, TypeOK, ControlInv, Loading, Files, Unproductive, HeldInOrder
<1>5. (emptied => pc \in Graphing)'
  BY BoundsAssumption DEF TypeInv, TypeOK, ControlInv, Loading, Graphing
<1>6. (pc = "edges" => todo \subseteq EdgeLabels)'
  BY BoundsAssumption DEF TypeInv, TypeOK, ControlInv, Loading
<1>7. (pc \in {"employees", "edges"} /\ ~emptied => chunks = {})'
  BY BoundsAssumption DEF TypeInv, TypeOK, ControlInv, Loading
<1>8. (skipped => pc \in Ended \cup {"down"})'
  BY BoundsAssumption DEF TypeInv, TypeOK, ControlInv, Loading, Ended, Graphing
<1>9. (todo # {} => pc \in {"references", "edges"})'
  BY BoundsAssumption DEF TypeInv, TypeOK, ControlInv, Loading
<1>10. (chunks # {} => pc \in {"employees", "edges", "vectors", "fts"})'
  BY BoundsAssumption DEF TypeInv, TypeOK, ControlInv, Loading
<1> QED BY <1>1, <1>2, <1>3, <1>4, <1>5, <1>6, <1>7, <1>8, <1>9, <1>10

HIDE DEF Next, vars, process, memory, loop, disk, graph, tables, history, Fault, Truncate,
        EndLabel, Generates, Start, Probe, ProbeFails, ClearGeneration, ClearEmbeddings,
        Generate, LoadBatch, EncodeBatch, SaveBatch, Embed, BeginLoad, TruncateReference,
        InsertReference, TruncateInCountry,
        MergeInCountry, MergeInCountryRaises, TruncateEmployees, InsertEmployees,
        EmployeesFail, BuildLookups, NoEdges, TruncateEdges, InsertEdges, EdgesDone,
        LoadVectors, LoadText, AllLoaded, LoadEntitySearch, EmbedEntities, Complete, Crash

LEMMA HeldTypes ==
    ASSUME TypeInv, [Next]_vars
    PROVE  (held \in [Files -> Seeds \cup {None}] /\ HeldInOrder)'
<1> DEFINE Goal == held \in [Files -> Seeds \cup {None}] /\ HeldInOrder
<1>1. CASE UNCHANGED held
  BY <1>1 DEF TypeInv, TypeOK, ControlInv, HeldInOrder
<1>2. CASE held' = Nothing
  BY <1>2 DEF Nothing, Files, HeldInOrder
<1>3. ASSUME NEW f \in Files, Generate(f) PROVE Goal'
  <2>1. PICK data \in Seeds : held' = [held EXCEPT ![f] = data]
    BY <1>3 DEF Generate, Checkpointed, Source, TypeInv, TypeOK, Files
  <2>2. f = "edges" => held["resumes"] # None
    BY <1>3 DEF Generate, Source
  <2>3. f = "resumes" => held["employees"] # None
    BY <1>3 DEF Generate, Source
  <2> QED BY <2>1, <2>2, <2>3, NoneAssumption DEF TypeInv, TypeOK, ControlInv, Files, HeldInOrder
<1> QED BY <1>1, <1>2, <1>3, HeldChanges

LEMMA DiskTypes ==
    ASSUME TypeInv, [Next]_vars
    PROVE  (files \in [Files -> Seeds \cup {None}] /\ cache \in [Batches -> Seeds \cup {None}])'
<1> DEFINE Goal == files \in [Files -> Seeds \cup {None}] /\ cache \in [Batches -> Seeds \cup {None}]
<1>1. CASE UNCHANGED disk
  BY <1>1 DEF disk, TypeInv, TypeOK
<1>2. CASE ClearGeneration \/ ClearEmbeddings
  BY <1>2 DEF ClearGeneration, ClearEmbeddings, RemainingCache, NoBatch, Nothing, TypeInv, TypeOK
<1>3. ASSUME NEW f \in Files, Generate(f) PROVE Goal'
  BY <1>3 DEF Generate, Checkpointed, Source, TypeInv, TypeOK, Files
<1>4. ASSUME NEW b \in Batches, Embed(b) PROVE Goal'
  BY <1>4 DEF Embed, LoadBatch, SaveBatch, EncodeBatch, TypeInv, TypeOK, Files
<1> QED BY <1>1, <1>2, <1>3, <1>4, DiskChanges

\* The loops: what is left to do is of the step the run is at.
LEMMA LoopTypes ==
    ASSUME TypeInv, [Next]_vars
    PROVE  /\ (todo \subseteq RefLabels /\ chunks \subseteq Batches)'
           /\ (emptied /\ pc \in {"references", "edges"} => table \in todo)'
<1>1. (todo \subseteq RefLabels)'
  BY TodoChanges, LabelsAssumption
     DEF BeginLoad, InsertReference, BuildLookups, EdgesDone, NoEdges, EndLabel, TypeInv,
         TypeOK
<1>2. ASSUME NEW l \in EdgeLabels, TruncateEdges(l) PROVE (chunks \subseteq Batches)'
  BY <1>2 DEF TruncateEdges, Values, TypeInv, TypeOK, Node
<1>3. (emptied /\ pc \in {"references", "edges"} => table \in todo)'
  <2> SUFFICES ASSUME emptied', pc' \in {"references", "edges"} PROVE table' \in todo'
    OBVIOUS
  <2>1. CASE UNCHANGED <<table, todo, emptied, pc>>
    BY <2>1 DEF TypeInv, ControlInv
  <2>2. CASE \/ \E r \in RefLabels : TruncateReference(r)
             \/ \E l \in EdgeLabels : TruncateEdges(l)
    BY <2>2 DEF TruncateReference, TruncateEdges
  <2> QED BY <2>1, <2>2, TableChanges
<1> QED BY <1>1, <1>2, <1>3, ChunksChange DEF TypeInv, TypeOK

\* A node made by a run has its number for an id.
LEMMA GraphTypes ==
    ASSUME TypeInv, [Next]_vars
    PROVE  /\ (nodes \subseteq Node /\ inCountry \subseteq (1..MaxRuns) \X (1..MaxRuns))'
           /\ (edges \in [EdgeLabels -> SUBSET Edge])'
<1>1. (nodes \subseteq Node)'
  <2>1. ASSUME NEW b \in Batches, InsertEmployees(b) PROVE (nodes \subseteq Node)'
    <3>1. run \in 1..MaxRuns /\ held["resumes"] \in Seeds
      BY <2>1, BoundsAssumption DEF InsertEmployees, TypeInv, TypeOK, ControlInv, Loading, Files
    <3> QED BY <2>1, <3>1 DEF InsertEmployees, TypeInv, TypeOK, Node
  <2> QED BY <2>1, NodesChange DEF TruncateEmployees, RemainingNodes, TypeInv, TypeOK
<1>2. (inCountry \subseteq (1..MaxRuns) \X (1..MaxRuns))'
  BY InCountryChanges, LabelsAssumption
     DEF TruncateInCountry, MergeInCountry, RemainingInCountry, TypeInv, TypeOK
<1>3. (edges \in [EdgeLabels -> SUBSET Edge])'
  <2>1. ASSUME NEW b \in Batches, InsertEdges(b) PROVE (edges \in [EdgeLabels -> SUBSET Edge])'
    <3>1. table \in EdgeLabels
      BY <2>1 DEF InsertEdges, TypeInv, ControlInv
    <3>2. Values(table) \subseteq Edge
      BY <3>1, LabelsAssumption DEF Values, TypeInv, TypeOK, Node, Edge
    <3> QED BY <2>1, <3>1, <3>2 DEF InsertEdges, TypeInv, TypeOK
  <2>2. ASSUME NEW l \in EdgeLabels, TruncateEdges(l) PROVE (edges \in [EdgeLabels -> SUBSET Edge])'
    BY <2>2 DEF TruncateEdges, TypeInv, TypeOK
  <2> QED BY <2>1, <2>2, EdgesChange DEF TypeInv, TypeOK
<1> QED BY <1>1, <1>2, <1>3

LEMMA TypeStep == TypeInv /\ [Next]_vars => TypeInv'
<1> SUFFICES ASSUME TypeInv, [Next]_vars PROVE TypeInv'
  OBVIOUS
<1>1. (run \in 0..MaxRuns /\ seed \in Seeds /\ force \in BOOLEAN)'
  BY RunChanges, BoundsAssumption DEF Start, TypeInv, TypeOK
<1> QED BY <1>1, PlainTypes, PlainControl, HeldTypes, DiskTypes, LoopTypes, GraphTypes
   DEF TypeInv, TypeOK, ControlInv

LEMMA TypeInit == Init => TypeInv
<1> SUFFICES ASSUME Init PROVE TypeInv
  OBVIOUS
<1>1. TypeOK
  <2>1. held \in [Files -> Seeds \cup {None}] /\ files \in [Files -> Seeds \cup {None}]
    BY DEF Init, Nothing
  <2>2. \A f \in {vecs, cache, vectors, fts} : f \in [Batches -> Seeds \cup {None}]
    BY DEF Init, NoBatch
  <2>3. lookup.employees \subseteq Node /\ lookup.refs \in [RefLabels -> SUBSET (1..MaxRuns)]
    BY DEF Init, NoLookup
  <2>4. refs \in [RefLabels -> SUBSET (1..MaxRuns)] /\ edges \in [EdgeLabels -> SUBSET Edge]
    BY DEF Init
  <2>5. run \in 0..MaxRuns /\ faults \in 0..MaxFaults
    BY BoundsAssumption DEF Init
  <2> QED BY <2>1, <2>2, <2>3, <2>4, <2>5 DEF Init, TypeOK, Loading
<1>2. ControlInv
  BY DEF Init, ControlInv, Nothing, NoBatch, Unproductive, Graphing, HeldInOrder, Files
<1> QED BY <1>1, <1>2 DEF TypeInv

\* The type invariant holds for any seeds, batches, labels and bounds; among other
\* things a run that loads has generated all its data.
THEOREM TypeCorrect == Spec => []TypeOK
<1>1. TypeInv => TypeOK
  BY DEF TypeInv
<1> QED BY TypeInit, TypeStep, <1>1, PTL DEF Spec

-----------------------------------------------------------------------------
(* The seeds.                                                              *)

LEMMA SeedInit == Init => SeedInv
  BY DEF Init, SeedInv, CacheIsClean, Nothing, NoBatch, Files

LEMMA HeldSeeds ==
    ASSUME TypeInv, SeedInv, [Next]_vars
    PROVE  \A f \in Files : held'[f] \in {None, seed'}
<1>1. CASE \E s \in Seeds, f \in BOOLEAN : Start(s, f)
  BY <1>1 DEF Start, memory, TypeInv, ControlInv, Unproductive, Nothing
<1>2. CASE UNCHANGED seed
  <2>1. ASSUME NEW g \in Files, Generate(g) PROVE \A f \in Files : held'[f] \in {None, seed}
    <3>1. PICK data \in {None, seed} : held' = [held EXCEPT ![g] = data]
      BY <2>1 DEF Generate, Checkpointed, Source, SeedInv, Files
    <3> QED BY <3>1 DEF SeedInv, TypeInv, TypeOK
  <2> QED BY <1>2, <2>1, HeldChanges DEF SeedInv, Nothing
<1> QED BY <1>1, <1>2, RunChanges

LEMMA CacheSeeds ==
    ASSUME TypeInv, SeedInv, [Next]_vars, CacheIsClean'
    PROVE  \A b \in Batches : cache'[b] \in {None, seed'} /\ vecs'[b] \in {None, seed'}
<1> DEFINE Clean == \A b \in Batches : cache[b] \in {None, seed} /\ vecs[b] \in {None, seed}
<1>1. ASSUME NEW s \in Seeds, NEW f \in BOOLEAN, Start(s, f) PROVE Clean'
  <2>1. vecs' = NoBatch
    BY <1>1 DEF Start, memory, TypeInv, ControlInv, Unproductive
  <2>2. run = 0 \/ (s = seed /\ CacheIsClean)
    <3>1. ~reseeded'
      BY <1>1 DEF Start, CacheIsClean, Loading
    <3>2. ~reseeded /\ ~(run > 0 /\ s # seed)
      BY <1>1, <3>1, Zenon DEF Start
    <3>3. run = 0 \/ run > 0
      BY BoundsAssumption DEF TypeInv, TypeOK
    <3> QED BY <3>2, <3>3 DEF CacheIsClean
  <2> QED BY <1>1, <2>1, <2>2 DEF Start, disk, NoBatch, SeedInv
<1>2. CASE ClearEmbeddings
  BY <1>2 DEF ClearEmbeddings, RemainingCache, memory, NoBatch, TypeInv, ControlInv, Unproductive
<1>3. CASE CacheIsClean /\ UNCHANGED seed
  <2>1. Clean
    BY <1>3 DEF SeedInv
  <2>2. ASSUME NEW b \in Batches, Embed(b) PROVE Clean'
    <3>1. PICK data \in {None, seed} : /\ vecs' = [vecs EXCEPT ![b] = data]
                                       /\ cache' = [cache EXCEPT ![b] = data]
      <4>1. CASE LoadBatch(b)
        BY <2>1, <4>1 DEF LoadBatch, TypeInv, TypeOK
      <4>2. CASE SaveBatch(b, EncodeBatch)
        BY <4>2 DEF SaveBatch, EncodeBatch, SeedInv, Files
      <4> QED BY <2>2, <4>1, <4>2 DEF Embed
    <3> QED BY <1>3, <2>1, <3>1 DEF TypeInv, TypeOK
  <2>3. UNCHANGED cache \/ cache' = NoBatch \/ \E b \in Batches : Embed(b)
    BY DiskChanges DEF disk, ClearGeneration, ClearEmbeddings, RemainingCache, Generate
  <2> QED BY <1>3, <2>1, <2>2, <2>3, VecsChange DEF NoBatch
<1> QED BY <1>1, <1>2, <1>3, CacheCleared, RunChanges

LEMMA SeedStep == TypeInv /\ SeedInv /\ [Next]_vars => SeedInv'
<1> SUFFICES ASSUME TypeInv, SeedInv, [Next]_vars PROVE SeedInv'
  OBVIOUS
<1>1. (run = 0 => cache = NoBatch)'
  <2> SUFFICES ASSUME run' = 0 PROVE cache' = NoBatch
    OBVIOUS
  <2>1. run = 0 /\ pc = "down"
    BY RunChanges DEF Start, TypeInv, TypeOK, ControlInv
  <2> QED BY <2>1, DiskChanges DEF disk, ClearGeneration, ClearEmbeddings, Generate, Embed, LoadBatch,
        SaveBatch, SeedInv
<1> QED BY <1>1, HeldSeeds, CacheSeeds DEF SeedInv

-----------------------------------------------------------------------------
(* The graph.                                                              *)

LEMMA GraphInit == Init => GraphInv
<1> SUFFICES ASSUME Init PROVE GraphInv
  OBVIOUS
<1>1. RefsInv /\ InCountryInv /\ NodesInv
  BY DEF Init, RefsInv, OnePerLabel, InCountryInv, NodesInv, Loading, AfterInCountry,
       AfterEmployees, AfterEdges
<1>2. EdgesInv /\ FinishedInv
  BY DEF Init, EdgesInv, LabelDone, FinishedInv, Loading, AfterEdges
<1> QED BY <1>1, <1>2 DEF GraphInv

LEMMA RefsStep == TypeInv /\ TypeInv' /\ RefsInv /\ [Next]_vars => RefsInv'
<1> SUFFICES ASSUME TypeInv, TypeInv', RefsInv, [Next]_vars PROVE RefsInv'
  OBVIOUS
<1>1. ASSUME InsertReference PROVE refs' = [refs EXCEPT ![table] = {run}] /\ table \in RefLabels
  <2>1. table \in RefLabels /\ refs[table] = {}
    BY <1>1 DEF InsertReference, RefsInv, TypeInv, TypeOK, ControlInv
  <2> QED BY <1>1, <2>1 DEF InsertReference
<1>2. ASSUME NEW r \in RefLabels, TruncateReference(r) PROVE refs' = [refs EXCEPT ![r] = {}]
  BY <1>2 DEF TruncateReference
<1>3. OnePerLabel'
  BY <1>1, <1>2, RefsChange DEF OnePerLabel, RefsInv, TypeInv, TypeOK
<1> DEFINE Done == pc = "references" => \A r \in RefLabels \ todo : refs[r] # {}
           Emptied == pc = "references" /\ emptied => refs[table] = {}
<1>4. Done'
  <2>1. CASE BeginLoad
    BY <2>1 DEF BeginLoad
  <2>2. CASE InsertReference
    BY <2>2, <1>1 DEF InsertReference, RefsInv, TypeInv, TypeOK
  <2>3. ASSUME NEW r \in RefLabels, TruncateReference(r) PROVE Done'
    BY <2>3 DEF TruncateReference, process, RefsInv, TypeInv, TypeOK
  <2> QED BY <2>1, <2>2, <2>3, ToReferences DEF RefsInv
<1>5. Emptied'
  <2>1. CASE BeginLoad
    BY <2>1 DEF BeginLoad, TypeInv, ControlInv, Graphing
  <2>2. CASE InsertReference
    BY <2>2 DEF InsertReference
  <2>3. ASSUME NEW r \in RefLabels, TruncateReference(r) PROVE Emptied'
    BY <2>3, <1>2 DEF TruncateReference, TypeInv, TypeOK
  <2> QED BY <2>1, <2>2, <2>3, ToReferences DEF RefsInv
<1>6. (pc \in Loading \ {"references"} => \A r \in RefLabels : refs[r] # {})'
  <2>1. CASE InsertReference
    <3>1. \A r \in RefLabels \ todo' : refs'[r] # {}
      BY <2>1, <1>1 DEF InsertReference, RefsInv, TypeInv, TypeOK
    <3>2. pc' = "references" \/ todo' = {}
      BY <2>1 DEF InsertReference
    <3> QED BY <3>1, <3>2
  <2> QED BY <2>1, ToGraph DEF RefsInv
<1> QED BY <1>3, <1>4, <1>5, <1>6 DEF RefsInv

LEMMA InCountryStep == TypeInv /\ RefsInv /\ InCountryInv /\ [Next]_vars => InCountryInv'
<1> SUFFICES ASSUME TypeInv, RefsInv, InCountryInv, [Next]_vars PROVE InCountryInv'
  OBVIOUS
<1>1. CASE MergeInCountry
  <2>1. inCountry' = refs[Location] \X refs[Country] /\ UNCHANGED refs
    BY <1>1 DEF MergeInCountry, InCountryInv
  <2>2. \A p, q \in inCountry' : p = q
    BY <2>1, LabelsAssumption DEF RefsInv, OnePerLabel
  <2> QED BY <1>1, <2>1, <2>2 DEF MergeInCountry, InCountryInv
<1>2. CASE MergeInCountryRaises
  BY <1>2 DEF MergeInCountryRaises, graph, InCountryInv
<1>3. CASE TruncateInCountry
  BY <1>3
     DEF TruncateInCountry, RemainingInCountry, process, InCountryInv, AfterInCountry,
         AfterEmployees, AfterEdges
<1>4. CASE UNCHANGED inCountry /\ ~MergeInCountry /\ ~MergeInCountryRaises /\ ~TruncateInCountry
  BY <1>4, ToInCountry, PastInCountry DEF InCountryInv
<1> QED BY <1>1, <1>2, <1>3, <1>4, InCountryChanges

LEMMA NodesStep == TypeInv /\ NodesInv /\ [Next]_vars => NodesInv'
<1> SUFFICES ASSUME TypeInv, NodesInv, [Next]_vars PROVE NodesInv'
  OBVIOUS
<1>1. CASE MergeInCountry \/ MergeInCountryRaises
  BY <1>1 DEF MergeInCountry, MergeInCountryRaises, graph, TypeInv, TypeOK, NodesInv
<1>2. CASE TruncateEmployees
  BY <1>2 DEF TruncateEmployees, RemainingNodes, NodesInv
<1>3. ASSUME NEW b \in Batches, InsertEmployees(b) PROVE NodesInv'
  <2>1. \A n \in nodes : n.batch # b
    BY <1>3 DEF InsertEmployees, NodesInv
  <2> QED BY <1>3, <2>1 DEF InsertEmployees, NodesInv
<1>4. ASSUME NEW b \in Batches, EmployeesFail(b) PROVE NodesInv'
  BY <1>4 DEF EmployeesFail, graph, process, NodesInv
<1>5. CASE UNCHANGED nodes /\ (pc' # "employees" \/ UNCHANGED <<pc, chunks>>)
  BY <1>5 DEF NodesInv
<1> QED BY <1>1, <1>2, <1>3, <1>4, <1>5, NodesChange, ToEmployees

LEMMA EndsAreValues ==
    ASSUME EdgesInv, pc = "edges", NEW l \in EdgeLabels
    PROVE  Values(l) = Ends(l)
  BY DEF EdgesInv, Values, Ends

\* No two edges of a label come from the same employee.
LEMMA EndsDiffer ==
    ASSUME RefsInv, NodesInv, NEW l \in EdgeLabels
    PROVE  \A d, e \in Ends(l) : d.batch = e.batch => d = e
  BY LabelsAssumption DEF RefsInv, OnePerLabel, NodesInv, Ends

\* The batches of a table that are in are those that are not left.
Filled == edges[table] = {v \in Ends(table) : v.batch \notin chunks}

LEMMA FilledStep ==
    ASSUME TypeInv, TypeInv', EdgesInv, [Next]_vars, pc' = "edges", emptied'
    PROVE  Filled'
<1>1. ~BuildLookups /\ ~EdgesDone
  BY DEF BuildLookups, EdgesDone
<1>2. ASSUME NEW l \in EdgeLabels, NoEdges(l) PROVE FALSE
  BY <1>2 DEF NoEdges
<1>3. pc = "edges" /\ UNCHANGED <<nodes, refs, lookup>>
  BY <1>1, ToEdges
<1>4. ASSUME NEW l \in EdgeLabels, TruncateEdges(l) PROVE Filled'
  <2>1. table' = l /\ edges'[l] = {}
    BY <1>4 DEF TruncateEdges, TypeInv, TypeOK
  <2>2. chunks' = {v.batch : v \in Ends(l)}
    BY <1>3, <1>4, EndsAreValues DEF TruncateEdges
  <2>3. Ends(l)' = Ends(l)
    BY <1>3 DEF Ends
  <2> QED BY <2>1, <2>2, <2>3 DEF Filled
<1>5. ASSUME NEW b \in Batches, InsertEdges(b) PROVE Filled'
  <2>1. emptied /\ b \in chunks /\ chunks' = chunks \ {b} /\ table' = table /\ table \in EdgeLabels
    BY <1>3, <1>5 DEF InsertEdges, TypeInv, ControlInv
  <2>2. Ends(table)' = Ends(table) /\ Values(table) = Ends(table)
    BY <1>3, <2>1, EndsAreValues DEF Ends
  <2>3. edges'[table] = edges[table] \cup {v \in Ends(table) : v.batch = b}
    BY <1>5, <2>1, <2>2 DEF InsertEdges, TypeInv, TypeOK
  <2>4. edges[table] = {v \in Ends(table) : v.batch \notin chunks}
    BY <1>3, <2>1 DEF EdgesInv
  <2> QED BY <2>1, <2>2, <2>3, <2>4 DEF Filled
<1>6. CASE UNCHANGED <<emptied, table, todo, chunks, edges>>
  BY <1>3, <1>6 DEF Filled, EdgesInv, Ends
<1> QED BY <1>1, <1>2, <1>4, <1>5, <1>6, ToEdges

\* A label that ends has all its edges.
LEMMA LabelEnds ==
    ASSUME TypeInv, RefsInv, EdgesInv, NEW l \in EdgeLabels,
           NoEdges(l) \/ (EdgesDone /\ l = table)
    PROVE  LabelDone(l)
<1>1. pc = "edges" /\ Values(l) = Ends(l)
  BY EndsAreValues DEF NoEdges, EdgesDone
<1>2. CASE NoEdges(l)
  <2>1. \A n \in nodes, r \in refs[l] : FALSE
    <3> SUFFICES ASSUME NEW n \in nodes, NEW r \in refs[l] PROVE FALSE
      OBVIOUS
    <3>1. [batch |-> n.batch, from |-> n.id, to |-> r] \in Ends(l)
      BY DEF Ends
    <3> QED BY <1>1, <1>2, <3>1 DEF NoEdges
  <2>2. refs[l] # {}
    BY <1>1, LabelsAssumption DEF RefsInv, Loading
  <2> QED BY <2>1, <2>2 DEF LabelDone
<1>3. CASE EdgesDone /\ l = table
  BY <1>1, <1>3 DEF EdgesDone, EdgesInv, LabelDone
<1> QED BY <1>2, <1>3

LEMMA EdgesStep ==
    TypeInv /\ TypeInv' /\ RefsInv /\ NodesInv /\ EdgesInv /\ [Next]_vars => EdgesInv'
<1> SUFFICES ASSUME TypeInv, TypeInv', RefsInv, NodesInv, EdgesInv, [Next]_vars PROVE EdgesInv'
  OBVIOUS
<1>1. \A l \in EdgeLabels : \A d, e \in edges'[l] : d.batch = e.batch => d = e
  <2> SUFFICES ASSUME NEW l \in EdgeLabels PROVE \A d, e \in edges'[l] : d.batch = e.batch => d = e
    OBVIOUS
  <2>1. edges'[l] \subseteq edges[l] \/ edges'[l] \subseteq Ends(l)
    <3>1. ASSUME NEW k \in EdgeLabels, TruncateEdges(k) PROVE edges'[l] \subseteq edges[l]
      BY <3>1 DEF TruncateEdges, TypeInv, TypeOK
    <3>2. ASSUME NEW b \in Batches, InsertEdges(b)
          PROVE  edges'[l] \subseteq edges[l] \/ edges'[l] \subseteq Ends(l)
      <4>1. pc = "edges" /\ emptied /\ table \in EdgeLabels
        BY <3>2 DEF InsertEdges, TypeInv, ControlInv
      <4>2. edges[table] \subseteq Ends(table) /\ Values(table) = Ends(table)
        BY <4>1, EndsAreValues DEF EdgesInv
      <4> QED BY <3>2, <4>1, <4>2 DEF InsertEdges, TypeInv, TypeOK
    <3> QED BY <3>1, <3>2, EdgesChange
  <2> QED BY <2>1, EndsDiffer DEF EdgesInv
<1>2. (pc = "edges" => lookup = [employees |-> nodes, refs |-> refs])'
  BY ToEdges DEF BuildLookups, graph, EdgesInv
<1>3. (pc = "edges" /\ emptied => edges[table] = {v \in Ends(table) : v.batch \notin chunks})'
  BY FilledStep DEF Filled
<1>4. ASSUME NEW l \in EdgeLabels, LabelDone(l), UNCHANGED <<nodes, refs>>, edges'[l] = edges[l]
      PROVE  LabelDone(l)'
  BY <1>4 DEF LabelDone, Ends
<1>5. ASSUME (\E l \in EdgeLabels : NoEdges(l)) \/ EdgesDone, NEW k \in EdgeLabels \ todo'
      PROVE  LabelDone(k)'
  <2>1. pc = "edges" /\ UNCHANGED <<nodes, refs, edges>>
    BY <1>5 DEF NoEdges, EdgesDone, graph
  <2>2. k \in EdgeLabels \ todo \/ NoEdges(k) \/ (EdgesDone /\ k = table)
    BY <1>5 DEF NoEdges, EdgesDone, EndLabel
  <2>3. LabelDone(k)
    BY <2>1, <2>2, LabelEnds DEF EdgesInv
  <2> QED BY <1>4, <2>1, <2>3
<1>6. (pc = "edges" => \A l \in EdgeLabels \ todo : LabelDone(l))'
  <2> SUFFICES ASSUME pc' = "edges", NEW k \in EdgeLabels \ todo' PROVE LabelDone(k)'
    OBVIOUS
  <2>1. CASE BuildLookups
    BY <2>1 DEF BuildLookups
  <2>2. CASE (\E l \in EdgeLabels : NoEdges(l)) \/ EdgesDone
    BY <1>5, <2>2
  <2>3. ASSUME ~BuildLookups, UNCHANGED todo, edges'[k] = edges[k] PROVE LabelDone(k)'
    BY <1>4, <2>3, ToEdges DEF EdgesInv
  <2>4. ASSUME NEW l \in EdgeLabels, TruncateEdges(l) PROVE LabelDone(k)'
    BY <2>3, <2>4 DEF TruncateEdges, BuildLookups, TypeInv, TypeOK
  <2>5. ASSUME NEW b \in Batches, InsertEdges(b) PROVE LabelDone(k)'
    BY <2>3, <2>5 DEF InsertEdges, BuildLookups, TypeInv, TypeOK, ControlInv
  <2> QED BY <2>1, <2>2, <2>3, <2>4, <2>5, ToEdges
<1>7. (pc \in AfterEdges => \A l \in EdgeLabels : LabelDone(l))'
  <2>1. CASE (\E l \in EdgeLabels : NoEdges(l)) \/ EdgesDone
    <3>1. pc' \in AfterEdges => todo' = {}
      BY <2>1 DEF NoEdges, EdgesDone, EndLabel, AfterEdges
    <3> QED BY <1>5, <2>1, <3>1
  <2> QED BY <1>4, <2>1, PastEdges DEF EdgesInv
<1> QED BY <1>1, <1>2, <1>3, <1>6, <1>7 DEF EdgesInv

LEMMA FinishedStep ==
    TypeInv /\ RefsInv /\ InCountryInv /\ EdgesInv /\ FinishedInv /\ [Next]_vars => FinishedInv'
<1> SUFFICES ASSUME TypeInv, RefsInv, InCountryInv, EdgesInv, FinishedInv, [Next]_vars
             PROVE  FinishedInv'
  OBVIOUS
<1>1. (pc \in Loading => unfinished)'
  BY LoadBegins DEF FinishedInv
<1>2. ASSUME ~unfinished'
      PROVE  /\ inCountry \subseteq refs[Location] \X refs[Country]
             /\ \A l \in EdgeLabels : LabelDone(l)
             /\ UNCHANGED <<inCountry, refs, nodes, edges>>
  <2>1. CASE EmbedEntities
    BY <2>1
       DEF EmbedEntities, graph, InCountryInv, EdgesInv, AfterInCountry, AfterEmployees,
           AfterEdges
  <2>2. CASE UNCHANGED unfinished
    BY <1>2, <2>2, OnlyLoadsChange DEF FinishedInv
  <2> QED BY <1>2, <2>1, <2>2, LoadFinishes
<1>3. ~unfinished' => /\ (inCountry \subseteq refs[Location] \X refs[Country])'
                      /\ \A l \in EdgeLabels : LabelDone(l)'
  BY <1>2 DEF LabelDone, Ends
<1> QED BY <1>1, <1>3 DEF FinishedInv

LEMMA GraphStep == TypeInv /\ TypeInv' /\ GraphInv /\ [Next]_vars => GraphInv'
  BY RefsStep, InCountryStep, NodesStep, EdgesStep, FinishedStep DEF GraphInv

-----------------------------------------------------------------------------
(* What was loaded.                                                        *)

LEMMA LoadInit == Init => LoadInv
<1> SUFFICES ASSUME Init PROVE LoadInv
  OBVIOUS
<1>1. EmployeesInv /\ TablesInv
  BY DEF Init, EmployeesInv, TablesInv, AfterEmployees, AfterEdges
<1>2. EndInv
  BY DEF Init, EndInv, Ended
<1> QED BY <1>1, <1>2 DEF LoadInv

LEMMA EmployeesStep ==
    TypeInv /\ TypeInv' /\ SeedInv /\ EmployeesInv /\ [Next]_vars => EmployeesInv'
<1> SUFFICES ASSUME TypeInv, TypeInv', SeedInv, EmployeesInv, [Next]_vars PROVE EmployeesInv'
  OBVIOUS
<1> DEFINE Early == \/ pc \in {"references", "inCountry"}
                    \/ pc = "employees" /\ ~emptied
           NoneYet == Early => failed = {}
           Filling == pc = "employees" /\ emptied
           Rest == Loaded = Batches \ (chunks \cup failed) /\ failed \cap chunks = {}
           OfSeed == \A n \in nodes : n.seed = seed
<1>1. NoneYet'
  BY NoneFailed DEF EmployeesInv
<1>2. ASSUME Filling' PROVE Rest' /\ OfSeed'
  <2>1. ~MergeInCountry /\ ~MergeInCountryRaises
    BY <1>2 DEF MergeInCountry, MergeInCountryRaises
  <2>2. CASE TruncateEmployees
    BY <2>2 DEF TruncateEmployees, Truncate, RemainingNodes, history, Loaded, EmployeesInv
  <2>3. ASSUME NEW b \in Batches, InsertEmployees(b) PROVE Rest' /\ OfSeed'
    <3>1. /\ Filling /\ Rest /\ OfSeed /\ b \in chunks
          /\ UNCHANGED <<seed, failed>> /\ chunks' = chunks \ {b}
      BY <1>2, <2>3 DEF InsertEmployees, process, history, EmployeesInv
    <3>2. held["resumes"] = seed
      BY <3>1 DEF SeedInv, TypeInv, TypeOK, Loading, Files
    <3> DEFINE n == [batch |-> b, id |-> run, seed |-> seed]
    <3>3. nodes' = nodes \cup {n}
      BY <2>3, <3>2 DEF InsertEmployees
    <3>4. n.batch = b /\ n.seed = seed
      OBVIOUS
    <3> HIDE DEF n
    <3>5. Loaded' = Loaded \cup {b}
      BY <3>3, <3>4 DEF Loaded
    <3> QED BY <3>1, <3>3, <3>4, <3>5 DEF TypeInv, TypeOK
  <2>4. ASSUME NEW b \in Batches, EmployeesFail(b) PROVE Rest' /\ OfSeed'
    <3>1. Filling /\ Rest /\ OfSeed /\ b \in chunks /\ UNCHANGED <<seed, nodes>>
      BY <1>2, <2>4 DEF EmployeesFail, process, graph, EmployeesInv
    <3> QED BY <2>4, <3>1 DEF EmployeesFail, Loaded
  <2>5. CASE UNCHANGED <<pc, emptied, nodes, chunks, failed>>
    <3>1. UNCHANGED seed
      BY <1>2, <2>5, RunChanges DEF Start
    <3> QED BY <1>2, <2>5, <3>1 DEF Loaded, EmployeesInv
  <2> QED BY <1>2, <2>1, <2>2, <2>3, <2>4, <2>5, ToEmployees
<1>3. ASSUME pc' \in AfterEmployees PROVE (Loaded = Batches \ failed)' /\ OfSeed'
  <2>1. Loaded = Batches \ failed /\ OfSeed /\ UNCHANGED <<nodes, failed, seed>>
    BY <1>3, PastEmployees DEF BuildLookups, graph, history, EmployeesInv
  <2> QED BY <2>1 DEF Loaded
<1> QED BY <1>1, <1>2, <1>3 DEF EmployeesInv

LEMMA TablesStep == TypeInv /\ SeedInv /\ TablesInv /\ [Next]_vars => TablesInv'
<1> SUFFICES ASSUME TypeInv, SeedInv, TablesInv, [Next]_vars PROVE TablesInv'
  OBVIOUS
<1> DEFINE Vectors(S) == \A b \in S : vectors[b] = vecs[b]
           Texts(S) == \A b \in S : fts[b] = seed
<1>1. ASSUME pc' = "vectors" PROVE Vectors(Batches \ chunks)'
  <2>1. ASSUME NEW b \in Batches, LoadVectors(b) PROVE Vectors(Batches \ chunks)'
    BY <2>1 DEF LoadVectors, memory, TablesInv, TypeInv, TypeOK
  <2> QED BY <1>1, <2>1, ToVectors DEF TablesInv
<1>2. ASSUME AllLoaded PROVE UNCHANGED <<vectors, fts, vecs, seed>> /\ chunks = {}
  BY <1>2 DEF AllLoaded, memory, tables
<1>3. ASSUME pc' = "fts" PROVE Vectors(Batches)' /\ Texts(Batches \ chunks)'
  <2>1. CASE AllLoaded
    BY <1>2, <1>3, <2>1 DEF AllLoaded, TablesInv, AfterEdges
  <2>2. ASSUME NEW b \in Batches, LoadText(b) PROVE Vectors(Batches)' /\ Texts(Batches \ chunks)'
    <3>1. pc = "fts" /\ UNCHANGED <<seed, vecs, vectors>>
      BY <2>2 DEF LoadText, process, memory
    <3>2. held["resumes"] = seed
      BY <3>1 DEF SeedInv, TypeInv, TypeOK, Loading, Files
    <3> QED BY <2>2, <3>1, <3>2 DEF LoadText, TablesInv, AfterEdges, TypeInv, TypeOK
  <2> QED BY <1>3, <2>1, <2>2, ToTexts DEF TablesInv, AfterEdges
<1>4. ASSUME pc' \in {"entities", "entityVectors"} PROVE Vectors(Batches)' /\ Texts(Batches)'
  <2>1. CASE AllLoaded
    BY <1>2, <1>4, <2>1 DEF AllLoaded, TablesInv, AfterEdges
  <2> QED BY <1>4, <2>1, PastTexts DEF TablesInv, AfterEdges
<1> QED BY <1>1, <1>3, <1>4 DEF TablesInv, AfterEdges

\* The step that finishes a load finds the tables in agreement.
LEMMA FinishedLoad ==
    ASSUME TypeInv, SeedInv, GraphInv, EmployeesInv, TablesInv, EmbedEntities
    PROVE  /\ Consistent'
           /\ (\A n \in nodes : n.seed = seed)' /\ (\A b \in Batches : fts[b] = seed)'
<1>1. /\ pc = "entityVectors"
      /\ UNCHANGED <<refs, nodes, inCountry, edges, vectors, fts, failed, lostInCountry, seed>>
  BY DEF EmbedEntities, graph
<1>2. /\ Loaded = Batches \ failed
      /\ \A n \in nodes : n.seed = seed
      /\ \A b \in Batches : fts[b] = seed
      /\ \A b \in Batches : vectors[b] = vecs[b]
  BY <1>1 DEF EmployeesInv, TablesInv, AfterEmployees, AfterEdges
<1>3. \A n \in nodes : n.batch \in Batches
  BY DEF TypeInv, TypeOK, Node
<1>4. ASSUME NEW l \in EdgeLabels, NEW n \in nodes
      PROVE  \E e \in edges[l] : e.batch = n.batch /\ ~IsDangling(l, e)
  <2>1. PICK r \in refs[l] : TRUE
    BY <1>1, LabelsAssumption DEF GraphInv, RefsInv, Loading
  <2>2. [batch |-> n.batch, from |-> n.id, to |-> r] \in edges[l]
    BY <1>1 DEF GraphInv, EdgesInv, LabelDone, Ends, AfterEdges
  <2> QED BY <2>2 DEF IsDangling
<1>5. lostInCountry \/ inCountry = refs[Location] \X refs[Country]
  BY <1>1 DEF GraphInv, InCountryInv, AfterInCountry, AfterEmployees, AfterEdges
<1>6. reseeded' \/ \A b \in Batches : vecs[b] = seed
  <2>1. reseeded' \/ CacheIsClean
    BY <1>1 DEF EmbedEntities, CacheIsClean, Loading
  <2>2. \A b \in Batches : vecs[b] # None
    BY <1>1 DEF TypeInv, TypeOK, Loading
  <2> QED BY <2>1, <2>2 DEF SeedInv
<1>7. entities' = "embedded"
  BY DEF EmbedEntities
<1> QED BY <1>1, <1>2, <1>3, <1>4, <1>5, <1>6, <1>7 DEF Consistent, Loaded, IsDangling

\* Until a load begins, they stay so.
LEMMA StaysConsistent ==
    ASSUME TypeInv, Consistent, [Next]_vars, pc \notin Loading, ~BeginLoad
    PROVE  Consistent' /\ UNCHANGED <<nodes, fts>>
<1>1. UNCHANGED <<refs, nodes, inCountry, edges, vectors, fts, entities, failed, lostInCountry>>
  BY Settled
<1>2. reseeded => reseeded'
  <2>1. ~EmbedEntities
    BY DEF EmbedEntities, Loading
  <2> QED BY <2>1, ReseededChanges DEF Start
<1> QED BY <1>1, <1>2 DEF Consistent, IsDangling

LEMMA SkippedHasNodes ==
    ASSUME TypeInv, Probe, skipped'
    PROVE  nodes # {}
<1>1. LooksLoaded
  BY DEF Probe, Ended, TypeInv, ControlInv
<1>2. Enough \in Nat /\ Enough >= 1
  <2>1. Cardinality(Batches) \in Nat
    BY EnoughAssumption, FS_CardinalityType
  <2> QED BY <2>1, EnoughAssumption
<1> QED BY <1>1, <1>2, FS_EmptySet DEF LooksLoaded

LEMMA EndStep ==
    TypeInv /\ SeedInv /\ GraphInv /\ EmployeesInv /\ TablesInv /\ EndInv /\ [Next]_vars => EndInv'
<1> SUFFICES ASSUME TypeInv, SeedInv, GraphInv, EmployeesInv, TablesInv, EndInv, [Next]_vars
             PROVE  EndInv'
  OBVIOUS
<1>1. CASE EmbedEntities
  <2>1. ~skipped'
    BY <1>1 DEF EmbedEntities, TypeInv, ControlInv, Ended
  <2> QED BY <1>1, <2>1, FinishedLoad DEF EndInv
<1>2. CASE ~EmbedEntities
  <2>1. ASSUME ~unfinished', nodes' # {} PROVE Consistent'
    <3>1. ~unfinished /\ pc \notin Loading /\ ~BeginLoad
      BY <1>2, <2>1, LoadFinishes DEF BeginLoad, GraphInv, FinishedInv
    <3>2. nodes # {}
      BY <2>1, <3>1, Settled
    <3> QED BY <3>1, <3>2, StaysConsistent DEF EndInv
  <2>2. CASE Probe
    <3>1. pc' \in Ended => skipped'
      BY <2>2 DEF Probe, Generates, Ended
    <3>2. UNCHANGED nodes
      BY <2>2 DEF Probe, graph
    <3> QED BY <2>1, <2>2, <3>1, <3>2, SkippedHasNodes DEF EndInv
  <2>3. CASE ~Probe
    <3> SUFFICES ASSUME pc' \in Ended
                 PROVE  /\ skipped' => nodes' # {}
                        /\ ~skipped' => /\ Consistent'
                                        /\ (\A n \in nodes : n.seed = seed)'
                                        /\ (\A b \in Batches : fts[b] = seed)'
      BY <2>1 DEF EndInv
    <3>1. pc \in Ended /\ UNCHANGED <<skipped, seed>>
      BY <1>2, <2>3, ToEnd
    <3>2. pc \notin Loading /\ ~BeginLoad
      BY <3>1 DEF Ended, Loading, BeginLoad
    <3>3. UNCHANGED <<nodes, fts>>
      BY <3>2, Settled
    <3> QED BY <3>1, <3>2, <3>3, StaysConsistent DEF EndInv
  <2> QED BY <2>2, <2>3
<1> QED BY <1>1, <1>2

LEMMA LoadStep == TypeInv /\ TypeInv' /\ SeedInv /\ GraphInv /\ LoadInv /\ [Next]_vars => LoadInv'
  BY EmployeesStep, TablesStep, EndStep DEF LoadInv

-----------------------------------------------------------------------------
(* The theorems.                                                           *)

Inv == TypeInv /\ SeedInv /\ GraphInv /\ LoadInv

LEMMA Invariant == Spec => []Inv
<1>1. Init => Inv
  BY TypeInit, SeedInit, GraphInit, LoadInit DEF Inv
<1>2. Inv /\ [Next]_vars => Inv'
  BY TypeStep, SeedStep, GraphStep, LoadStep DEF Inv
<1> QED BY <1>1, <1>2, PTL DEF Spec

LEMMA AtMostOne ==
    ASSUME NEW S, \A x, y \in S : x = y
    PROVE  Cardinality(S) <= 1
<1>1. CASE S = {}
  BY <1>1, FS_EmptySet
<1>2. ASSUME NEW x \in S PROVE Cardinality(S) <= 1
  <2>1. S = {x}
    OBVIOUS
  <2> QED BY <2>1, FS_Singleton
<1> QED BY <1>1, <1>2

\* Whichever runs died where, re-running the pipeline doubles no node, edge or reference
\* node: a table is emptied before it is filled, and no batch is inserted twice.
THEOREM NothingDoubled == Spec => []NothingIsDoubled
<1>1. Inv => NothingIsDoubled
  BY AtMostOne
     DEF Inv, GraphInv, RefsInv, OnePerLabel, InCountryInv, NodesInv, EdgesInv,
         NothingIsDoubled
<1> QED BY <1>1, Invariant, PTL

\* An edge leads to a node that is gone only during a load, or after one that died.
THEOREM DanglingOnlyUnfinished == Spec => []DanglingOnlyWhenUnfinished
<1>1. Inv => DanglingOnlyWhenUnfinished
  <2> SUFFICES ASSUME Inv, ~unfinished, nodes # {}, NEW l \in EdgeLabels, NEW e \in edges[l]
               PROVE  ~IsDangling(l, e)
    BY DEF Inv, GraphInv, FinishedInv, DanglingOnlyWhenUnfinished
  <2>1. e \in Ends(l)
    BY DEF Inv, GraphInv, FinishedInv, LabelDone
  <2> QED BY <2>1 DEF Ends, IsDangling
<1> QED BY <1>1, Invariant, PTL

\* A run that says it is complete leaves the tables in agreement, but for one that
\* skipped the load after another that had not finished.
THEOREM CompleteConsistent == Spec => []CompleteIsConsistentUnless
<1>1. Inv => CompleteIsConsistentUnless
  BY DEF Inv, LoadInv, EndInv, Ended, CompleteIsConsistentUnless
<1> QED BY <1>1, Invariant, PTL

\* A run that loads, loads the employees of its own seed, whatever checkpoints and
\* caches earlier runs have left.
THEOREM OwnSeed == Spec => []LoadsItsSeed
<1>1. Inv => LoadsItsSeed
  BY DEF Inv, LoadInv, EndInv, Ended, LoadsItsSeed
<1> QED BY <1>1, Invariant, PTL
=============================================================================
