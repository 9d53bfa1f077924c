---------------------------- MODULE EntityResolution ----------------------------
(***************************************************************************)
(* resolve_entities of mcp_server/entity_tools.py: concurrent calls of one    *)
(* tool server, each a batch of terms, resolve them with statements on one     *)
(* connection of the pool (pg_age_helper.py), which a call also holds while     *)
(* the embedding service works.  The loader of the pipeline may fill their       *)
(* table at the same time (entity_search_loader.py).  Similarities and           *)
(* overlaps are percentages.                                                    *)
(***************************************************************************)
EXTENDS Integers, SequencesExt

CONSTANTS
    Callers,     \* the tool calls that may run at once
    PoolSize,    \* max_size of the pool
    Entities,    \* what entity_search is loaded with: [type, name, code, named, words, stems,
                 \* aliases], where named are the words of terms that occur in the name, words
                 \* those in search_text, inside of longer words too, and stems the lexemes of
                 \* fts_vector
    EntitySources, \* ENTITY_SOURCES: the types, in the order of the load
    Batches,     \* the queries tried: sequences of [text, words, stems, some, hint], where words
                 \* are those of more than one letter, stems the lexemes of all, some of words
    Similarity,  \* [text of a term -> [Entities -> 0..100]], by the embeddings
    ValidTypes,  \* _VALID_ENTITY_TYPES
    Candidates,  \* _RRF_CANDIDATES
    MaxCalls     \* cap on the calls

\* The loader puts the name of an entity into its search_text (entity_search_loader.py).
ASSUME EntitiesAssumption ==
    /\ IsFiniteSet(Entities)
    /\ \A r \in Entities : r.named \subseteq r.words
ASSUME BatchesAssumption ==
    /\ Batches \subseteq Seq([text : STRING, words : SUBSET STRING, stems : SUBSET STRING,
                            some : SUBSET STRING, hint : STRING])
    /\ \A b \in Batches : \A i \in DOMAIN b :
           IsFiniteSet(b[i].words) /\ Similarity[b[i].text] \in [Entities -> 0..100]
ASSUME CandidatesAssumption == Candidates \in Nat \ {0}

VARIABLES
    tableThere,  \* whether entity_search exists
    searchable,  \* its rows
    withVector,  \* those that have an embedding
    verified,    \* _entity_table_verified: "None", "True" or "False"
    opened,      \* PGAgeHelper._opened
    free,        \* connections of the pool that nobody holds (other tools keep the rest)
    calls,       \* calls made so far
    call         \* of every caller: [step, queries, results, need, embedded, cause], and the
                 \* rows seen in the table when it began

table == <<tableThere, searchable, withVector>>
resolving == <<table, verified, opened, free, calls, call>>

NoText == ""  \* an empty term, and the embedding that a term has not
NoRow == [type |-> "", name |-> "", code |-> "", named |-> {}, words |-> {}, stems |-> {},
          aliases |-> {}]
NotFound(q) == [term |-> q.text, found |-> FALSE, row |-> NoRow]
Found(q, row) == [term |-> q.text, found |-> TRUE, row |-> row]
Pending == [term |-> NoText, found |-> FALSE, row |-> NoRow]

-----------------------------------------------------------------------------
(* One term.                                                               *)

\* A hint that is no entity type is ignored.
InScope(q) == {r \in Entities : q.hint \in ValidTypes => r.type = q.hint}

\* _word_overlap_ratio: the share of the words that occur in a text.
Overlap(q, words) ==
    IF q.words = {} THEN 0 ELSE (100 * Cardinality(q.words \intersect words)) \div Cardinality(q.words)

ByCode(q) == {r \in InScope(q) : r.code = q.text}
ByName(q) == {r \in InScope(q) : r.name = q.text}
ByAlias(q) == {r \in InScope(q) : q.text \in r.aliases}
ByAllStems(q) == {r \in InScope(q) : q.stems # {} /\ q.stems \subseteq r.stems}
ByAnyStem(q) == {r \in InScope(q) : q.some \intersect r.stems # {}}

FirstOf(seq) == SubSeq(seq, 1, IF Len(seq) < Candidates THEN Len(seq) ELSE Candidates)

\* _fts_search: the rows with all lexemes, else those with one; the order that ts_rank
\* and _rerank_by_word_overlap give them is left open.
FullText(q, rows) ==
    LET all == ByAllStems(q) \intersect rows
    IN  {FirstOf(s) : s \in SetToSeqs(IF all # {} THEN all ELSE ByAnyStem(q) \intersect rows)}

\* _resolve_pass1 over the rows of the table: [result, fts] for every row a LIMIT 1 may
\* return.  A row with all lexemes must also have half of the words as they are written.
Pass1(q, rows) ==
    LET code == ByCode(q) \intersect rows
        name == ByName(q) \intersect rows
        all == ByAllStems(q) \intersect rows
    IN  IF code # {} THEN {[result |-> Found(q, r), fts |-> <<>>] : r \in code}
        ELSE IF name # {} THEN {[result |-> Found(q, r), fts |-> <<>>] : r \in name}
        ELSE {[result |-> IF all # {} /\ Overlap(q, s[1].words) >= 50 THEN Found(q, s[1]) ELSE Pending,
               fts |-> s] : s \in FullText(q, rows)}

\* _vector_search_with_embedding: the nearest rows, by the embedding of a text; rows that
\* are equally near come in any order.
Nearest(q, text, near) ==
    {FirstOf(s) : s \in {p \in SetToSeqs(InScope(q) \intersect near) :
        \A i, j \in DOMAIN p : i < j => Similarity[text][p[i]] >= Similarity[text][p[j]]}}

\* 1 / (60 + rank), times ten million.
Reciprocal(rank) == IF rank = 0 THEN 0 ELSE 10000000 \div (60 + rank)

\* _rrf_merge: what becomes of a row of either list.  A name keeps its last rank in
\* each list and its last similarity.
RankOf(seq, name) == LET at == {i \in DOMAIN seq : seq[i].name = name} IN IF at = {} THEN 0 ELSE Max(at)
Candidate(fts, vec, row) ==
    LET v == RankOf(vec, row.name)
    IN  [row |-> row, fts |-> RankOf(fts, row.name), vec |-> v, similar |-> IF v = 0 THEN row ELSE vec[v]]
Score(c) == Reciprocal(c.fts) + Reciprocal(c.vec)

\* The candidate that comes out first, or none: the best score, and of equal ones the
\* name that was seen first, with the row it was seen with.
Top(fts, vec) ==
    LET seen == fts \o vec
        Of(i) == Candidate(fts, vec, seen[i])
    IN  {Of(k) : k \in {i \in DOMAIN seen : \A j \in DOMAIN seen :
            \/ Score(Of(i)) > Score(Of(j))
            \/ Score(Of(i)) = Score(Of(j)) /\ i <= j}}

\* _compute_confidence: the better of the two signals.  A row found by its vector
\* alone has no search_text, its name stands for it.
Confidence(q, text, c) ==
    Max({IF c.vec > 0 THEN Similarity[text][c.similar] ELSE 0,
         Overlap(q, IF c.fts > 0 THEN c.row.words ELSE c.row.named)})
Confident(q, fts, vec, text) == {c \in Top(fts, vec) : Confidence(q, text, c) >= 50}

\* _resolve_pass2 with the embedding of a text, or none, over the rows of the table and
\* those near a vector (the mutant leaves the aliases out).
Vectors(q, text, near) == IF text = NoText THEN {<<>>} ELSE Nearest(q, text, near)
FusedOnly(q, fts, text, rows, near) ==
    UNION {IF Confident(q, fts, vec, text) # {} THEN {Found(q, c.row) : c \in Confident(q, fts, vec, text)}
           ELSE {NotFound(q)} : vec \in Vectors(q, text, near)}
Pass2(q, fts, text, rows, near) ==
    LET alias == ByAlias(q) \intersect rows
    IN  UNION {IF Confident(q, fts, vec, text) # {} THEN {Found(q, c.row) : c \in Confident(q, fts, vec, text)}
               ELSE IF alias # {} THEN {Found(q, r) : r \in alias}
               ELSE {NotFound(q)} : vec \in Vectors(q, text, near)}

-----------------------------------------------------------------------------
(* The calls.                                                              *)

Idle == [step |-> "idle", queries |-> <<>>, results |-> <<>>, need |-> <<>>, embedded |-> <<>>, cause |-> "done",
         seen |-> {}]

ResolveInit ==
    /\ tableThere \in BOOLEAN
    /\ searchable = IF tableThere THEN Entities ELSE {}
    /\ withVector = searchable
    /\ verified = "None" /\ opened = FALSE
    /\ free \in 1..PoolSize
    /\ calls = 0
    /\ call = [c \in Callers |-> Idle]

Steps(c, to) == call' = [call EXCEPT ![c].step = to]

\* The schema of the pipeline: the table is made empty.
MakeTable ==
    /\ ~tableThere
    /\ tableThere' = TRUE
    /\ UNCHANGED <<searchable, withVector, verified, opened, free, calls, call>>

\* load_entity_search, which may die and be run again, commits the rows of one type after
\* those of the types before.  A retry of a statement rolls the earlier rows of its type
\* back (base_loader.py), so that a part of them may be left out.
OfType(t) == {r \in Entities : r.type = t}
Committed(t) == OfType(t) = {} \/ OfType(t) \intersect searchable # {}
LoadType ==
    /\ tableThere
    /\ \E i \in DOMAIN EntitySources :
           /\ \A j \in 1..(i - 1) : Committed(EntitySources[j])
           /\ \E rows \in SUBSET (OfType(EntitySources[i]) \ searchable) :
                  rows # {} /\ searchable' = searchable \union rows
    /\ UNCHANGED <<tableThere, withVector, verified, opened, free, calls, call>>

\* embed_entities, after the load, commits the embeddings batch by batch.
EmbedRows ==
    /\ \A i \in DOMAIN EntitySources : Committed(EntitySources[i])
    /\ \E rows \in SUBSET (searchable \ withVector) :
           rows # {} /\ withVector' = withVector \union rows
    /\ UNCHANGED <<tableThere, searchable, verified, opened, free, calls, call>>

BeginCall(c) ==
    /\ call[c].step = "idle" /\ calls < MaxCalls
    /\ calls' = calls + 1
    /\ \E qs \in Batches :
           call' = [call EXCEPT ![c] = [Idle EXCEPT !.step = IF opened THEN "connect" ELSE "open", !.queries = qs,
                                                 !.seen = searchable]]
    /\ UNCHANGED <<table, verified, opened, free>>

\* _ensure_open: to open the pool a second time does nothing.
OpenPool(c) ==
    /\ call[c].step = "open"
    /\ opened' = TRUE
    /\ Steps(c, "connect")
    /\ UNCHANGED <<table, verified, free, calls>>

Connect(c) ==
    /\ call[c].step = "connect" /\ free > 0
    /\ free' = free - 1
    /\ Steps(c, CASE verified = "None" -> "check" [] verified = "True" -> "pass1" [] OTHER -> "no_table")
    /\ UNCHANGED <<table, verified, opened, calls>>

\* The database answers; the flag is set when the call goes on, after other calls may have.
LookForTable(c) ==
    /\ call[c].step = "check"
    /\ Steps(c, IF tableThere THEN "seen" ELSE "missed")
    /\ UNCHANGED <<table, verified, opened, free, calls>>

NoteTable(c) ==
    /\ call[c].step \in {"seen", "missed"}
    /\ verified' = IF call[c].step = "seen" THEN "True" ELSE "False"
    /\ Steps(c, IF call[c].step = "seen" THEN "pass1" ELSE "no_table")
    /\ UNCHANGED <<table, opened, free, calls>>

\* The connection goes back to the pool and the call returns.
Returns(c, results, cause) ==
    call' = [call EXCEPT ![c] = [@ EXCEPT !.step = "answered", !.results = results, !.cause = cause,
                                          !.need = <<>>, !.embedded = <<>>]]

NoTable(c) ==
    /\ call[c].step = "no_table"
    /\ free' = free + 1
    /\ Returns(c, [i \in DOMAIN call[c].queries |-> NotFound(call[c].queries[i])], "no_table")
    /\ UNCHANGED <<table, verified, opened, calls>>

\* Pass 1 of the next term.
At(c) == Len(call[c].results) + 1
SkipEmpty(c) ==
    /\ call[c].step = "pass1"
    /\ At(c) <= Len(call[c].queries) /\ call[c].queries[At(c)].text = NoText
    /\ call' = [call EXCEPT ![c].results = Append(@, NotFound(call[c].queries[At(c)]))]
    /\ UNCHANGED <<table, verified, opened, free, calls>>

FirstPass(c) ==
    /\ call[c].step = "pass1"
    /\ At(c) <= Len(call[c].queries)
    /\ LET q == call[c].queries[At(c)]
       IN  /\ q.text # NoText
           /\ \E p \in Pass1(q, searchable) :
                  call' = [call EXCEPT ![c].results = Append(@, p.result),
                                       ![c].need = IF p.result = Pending THEN Append(@, [at |-> At(c), q |-> q, fts |-> p.fts]) ELSE @]
    /\ UNCHANGED <<table, verified, opened, free, calls>>

EndFirstPass(c) ==
    /\ call[c].step = "pass1"
    /\ At(c) > Len(call[c].queries) /\ call[c].need # <<>>
    /\ Steps(c, "embed")
    /\ UNCHANGED <<table, verified, opened, free, calls>>

\* _batch_embed: the service answers in any order, with the index of every text; the
\* mutant takes the embeddings as they come.
AsReceived(data) == [i \in DOMAIN data |-> data[i].text]
ByIndex(data) == [i \in DOMAIN data |-> data[SelectInSeq(data, LAMBDA d : d.index = i)].text]
Embed(c) ==
    /\ call[c].step = "embed"
    /\ LET need == call[c].need
       IN  \E order \in {p \in [DOMAIN need -> DOMAIN need] : IsInjective(p)} :
               LET data == [i \in DOMAIN need |-> [index |-> order[i], text |-> need[order[i]].q.text]]
               IN  call' = [call EXCEPT ![c].step = "pass2", ![c].embedded = ByIndex(data)]
    /\ UNCHANGED <<table, verified, opened, free, calls>>

\* The embedding fails: full text only.
NoEmbedding(c) ==
    /\ call[c].step = "embed"
    /\ Steps(c, "pass2")
    /\ UNCHANGED <<table, verified, opened, free, calls>>

\* Pass 2 of the next term that needs it.
Unresolved(c) == {j \in DOMAIN call[c].need : call[c].results[call[c].need[j].at] = Pending}
SecondPass(c) ==
    /\ call[c].step = "pass2"
    /\ \E j \in Unresolved(c) :
           LET n == call[c].need[j]
           IN  /\ \A i \in Unresolved(c) : j <= i
               /\ \E result \in Pass2(n.q, n.fts, IF call[c].embedded = <<>> THEN NoText ELSE call[c].embedded[j],
                                      searchable, withVector) :
                      call' = [call EXCEPT ![c].results[n.at] = result]
    /\ UNCHANGED <<table, verified, opened, free, calls>>

EndCall(c) ==
    /\ \/ call[c].step = "pass2" /\ Unresolved(c) = {}
       \/ call[c].step = "pass1" /\ At(c) > Len(call[c].queries) /\ call[c].need = <<>>
    /\ free' = free + 1
    /\ Returns(c, call[c].results, "done")
    /\ UNCHANGED <<table, verified, opened, calls>>

\* The handler of any exception, a wait for the pool that times out included: what has
\* no result yet is not found (with its mutant).
FilledShort(queries, results) ==
    [i \in DOMAIN results |-> IF results[i] = Pending THEN NotFound(queries[i]) ELSE results[i]]
Filled(queries, results) ==
    [i \in DOMAIN queries |-> IF i > Len(results) \/ results[i] = Pending THEN NotFound(queries[i]) ELSE results[i]]
CallFails(c) ==
    /\ call[c].step \in {"connect", "check", "no_table", "pass1", "embed", "pass2"}
    /\ call[c].step = "connect" => free = 0
    /\ free' = IF call[c].step = "connect" THEN free ELSE free + 1
    /\ Returns(c, Filled(call[c].queries, call[c].results), "fault")
    /\ UNCHANGED <<table, verified, opened, calls>>

NextCall(c) ==
    /\ call[c].step = "answered"
    /\ call' = [call EXCEPT ![c] = Idle]
    /\ UNCHANGED <<table, verified, opened, free, calls>>

ResolveNext ==
    \/ MakeTable \/ LoadType \/ EmbedRows
    \/ \E c \in Callers :
           \/ BeginCall(c) \/ OpenPool(c) \/ Connect(c) \/ LookForTable(c) \/ NoteTable(c) \/ NoTable(c)
           \/ SkipEmpty(c) \/ FirstPass(c) \/ EndFirstPass(c) \/ Embed(c) \/ NoEmbedding(c) \/ SecondPass(c)
           \/ EndCall(c) \/ CallFails(c) \/ NextCall(c)

ResolveSpec == ResolveInit /\ [][ResolveNext]_resolving

-----------------------------------------------------------------------------
(* Properties.                                                             *)

Answered(c) == call[c].step = "answered"

\* "Returns a list of dicts, one per query": in the order of the queries, each about
\* its term, however far the call came before it failed.
OneResultPerQuery ==
    \A c \in Callers : Answered(c) =>
        [i \in DOMAIN call[c].results |-> call[c].results[i].term] = [i \in DOMAIN call[c].queries |-> call[c].queries[i].text]

\* Whether a row is what a term may mean; half of its words may stand in the row inside
\* of longer ones (java in JavaScript).
Supports(q, r) ==
    r \in ByCode(q) \union ByName(q) \union ByAlias(q)
    \/ Overlap(q, r.words) >= 50 \/ Similarity[q.text][r] >= 50
Namesakes(r) == {s \in Entities : s.name = r.name} \ {r}

\* A term resolves to a row of the hinted type that itself has its name, its words or
\* its meaning, whatever became of the other terms of the call, except that the
\* rank fusion confuses rows of one name (Python and Java are a skill and a domain).
FoundIsMeantUnless ==
    \A c \in Callers : Answered(c) => \A i \in DOMAIN call[c].results :
        LET q == call[c].queries[i]
            row == call[c].results[i].row
        IN  call[c].results[i].found =>
                row \in InScope(q) /\ (Supports(q, row) \/ \E s \in Namesakes(row) : Supports(q, s))

\* Whether a row has all lexemes of a term but not half of its words (databases, of a
\* row with Database), or a term is one letter: the row that comes first is then not taken.
Inflected(q) == \E r \in ByAllStems(q) : Overlap(q, r.words) < 50

\* "If resolution fails (found=false), tell the user the term wasn't recognized": a
\* term with the name, all the words or an alias of a row that was in the table when the
\* call began is only reported as unknown after a fault in that call, when the flag says
\* that there is no table, which one call made too early leaves behind for every later
\* one, or when the row has its words in another form.  While the table is filled the rows to
\* come are unknown.
UnknownIsUnknownUnless ==
    \A c \in Callers : Answered(c) => \A i \in DOMAIN call[c].results :
        LET q == call[c].queries[i]
        IN  ~call[c].results[i].found =>
                \/ call[c].cause # "done" \/ q.text = NoText
                \/ /\ (ByCode(q) \union ByName(q) \union ByAlias(q)) \intersect call[c].seen = {}
                   /\ ByAllStems(q) \intersect call[c].seen = {} \/ Inflected(q)

=============================================================================
