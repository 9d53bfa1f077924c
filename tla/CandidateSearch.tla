----------------------------- MODULE CandidateSearch -----------------------------
(***************************************************************************)
(* The search tools of the tool server: vector_search (vector_tools.py) and     *)
(* search_graph (graph_tools.py, helpers.py).  Each sends several statements,   *)
(* between which the pipeline may load the tables or the graph anew, with the   *)
(* same ids for other people.                                                   *)
(***************************************************************************)
EXTENDS Integers, SequencesExt, FiniteSetsExt, Selections

CONSTANTS
    Data,        \* the generations: [nearest, country, name, label]
    Limits,      \* limit and max_results of a call
    MaxLimit, OverFetch, FetchCap,  \* 100, 5 and 500 in vector_search
    Searches,    \* search_term, as a sequence of words
    Titles,      \* NAME_SKIP_TITLES
    Letters,     \* [word -> its length]
    PartOf       \* [word -> the words it is a part of]

\* At most 100 rows are answered of at most 500 fetched; nobody is of the country "".
ASSUME RowsAssumption ==
    /\ Limits \subseteq Int /\ OverFetch \in Int
    /\ MaxLimit \in Nat \ {0} /\ FetchCap \in Nat /\ MaxLimit <= FetchCap
    /\ \A d \in DOMAIN Data :
           /\ Data[d].nearest \in Seq(Range(Data[d].nearest))
           /\ \A p \in DOMAIN Data[d].country : Data[d].country[p] # ""

\* Finitely many people have names; a search has words, and every word a letter.
ASSUME WordsAssumption ==
    /\ \A d \in DOMAIN Data :
           /\ IsFiniteSet(DOMAIN Data[d].name)
           /\ \A n \in DOMAIN Data[d].name : Data[d].name[n] \in Seq(DOMAIN Letters)
    /\ Searches \subseteq Seq(DOMAIN Letters) \ {<<>>}
    /\ \A w \in DOMAIN Letters : Letters[w] \in Nat \ {0}

VARIABLES
    tables,  \* the generation in employee_fts and employee_embeddings
    graph,   \* the generation in the graph
    moved,   \* whether either was loaded since the call began
    tool     \* the call: [step, limit, countries, term, retries, rows, details, answer]

searching == <<tables, graph, moved, tool>>

NoDetail == [id |-> "", from |-> 0, country |-> ""]
None == [none |-> NoDetail]
NoTool == [step |-> "idle", limit |-> 0, countries |-> {}, term |-> <<>>, retries |-> 0,
           rows |-> <<>>, details |-> None, answer |-> <<>>]
Leading(seq, n) == SubSeq(seq, 1, IF Len(seq) < n THEN Len(seq) ELSE n)
Goes(to) == tool' = [tool EXCEPT !.step = to]
AnswersWith(a) == tool' = [tool EXCEPT !.step = "answered", !.answer = a]
Still == UNCHANGED <<tables, graph, moved>>

SearchInit ==
    /\ tables \in DOMAIN Data /\ graph \in DOMAIN Data
    /\ moved = FALSE /\ tool = NoTool

\* A run of the pipeline loads the tables and the graph one after the other.
LoadTables ==
    /\ \E d \in DOMAIN Data \ {tables} : tables' = d
    /\ moved' = TRUE
    /\ UNCHANGED <<graph, tool>>
LoadGraph ==
    /\ \E d \in DOMAIN Data \ {graph} : graph' = d
    /\ moved' = TRUE
    /\ UNCHANGED <<tables, tool>>

-----------------------------------------------------------------------------
(* vector_search.                                                          *)

Clamped(limit) == IF limit < 1 THEN 1 ELSE IF limit > MaxLimit THEN MaxLimit ELSE limit
FetchLimit(limit, countries) ==
    LET n == IF countries = {} THEN limit ELSE limit * OverFetch IN IF n > FetchCap THEN FetchCap ELSE n

Countries == UNION {{Data[d].country[p] : p \in DOMAIN Data[d].country} : d \in DOMAIN Data}
BeginVectorSearch ==
    /\ tool.step = "idle"
    /\ \E limit \in Limits, countries \in SUBSET Countries, known \in BOOLEAN :
           tool' = [NoTool EXCEPT !.limit = Clamped(limit), !.countries = countries,
                                  !.step = IF known THEN "embed" ELSE "refused"]
    /\ moved' = FALSE
    /\ UNCHANGED <<tables, graph>>

EmbedQuery == tool.step = "embed" /\ Goes("rank") /\ Still

RankRows ==
    /\ tool.step = "rank"
    /\ tool' = [tool EXCEPT !.step = "enrich",
           !.rows = LET near == Leading(Data[tables].nearest, FetchLimit(tool.limit, tool.countries))
                    IN  [i \in DOMAIN near |-> [id |-> near[i], from |-> tables]]]
    /\ Still

\* _enrich_from_graph: what the graph has of the rows, by workday_id (the mutant pairs
\* the two answers by position).
Known(rows) == {j \in DOMAIN rows : rows[j].id \in DOMAIN Data[graph].country}
Detail(r) == [id |-> r.id, from |-> graph, country |-> Data[graph].country[r.id]]
ByPosition(rows) ==
    LET found == Selected(rows, Known(rows))
    IN  [i \in {rows[j].id : j \in DOMAIN found} |-> Detail(found[CHOOSE j \in DOMAIN rows : rows[j].id = i])]
ById(rows) == [i \in {rows[j].id : j \in Known(rows)} |-> Detail([id |-> i])]
Enrich ==
    /\ tool.step = "enrich"
    /\ tool' = [tool EXCEPT !.step = "format", !.details = ById(tool.rows)]
    /\ Still

\* Its failure is logged and the rows stay without details.
EnrichFails == tool.step = "enrich" /\ Goes("format") /\ Still

\* The rows in scope, up to the limit.
DetailOf(r) == IF tool.details # None /\ r.id \in DOMAIN tool.details THEN tool.details[r.id] ELSE NoDetail
Wanted(r) == tool.countries = {} \/ DetailOf(r).country \in tool.countries
FormatResults ==
    /\ tool.step = "format"
    /\ LET kept == Leading(Selected(tool.rows, {j \in DOMAIN tool.rows : Wanted(tool.rows[j])}), tool.limit)
       IN  AnswersWith([i \in DOMAIN kept |-> [id |-> kept[i].id, from |-> kept[i].from, detail |-> DetailOf(kept[i])]])
    /\ Still

-----------------------------------------------------------------------------
(* search_graph.                                                           *)

Plain(words) == Selected(words, {i \in DOMAIN words : words[i] \notin Titles})

\* strip_titles_for_search: a title stays with a single name.
StripTitles(words) ==
    IF Plain(words) = <<>> \/ (Len(Plain(words)) < 2 /\ Len(words) >= 2) THEN words ELSE Plain(words)

\* extract_search_words and name_matches_search.
SearchWords(words) == {w \in Range(Plain(words)) : Letters[w] >= 2}
NameMatches(name, words) == \A w \in words : \E v \in Range(name) : v = w \/ v \in PartOf[w]

\* search_graph_nodes: the nodes with all words, ranked in any way.
Matching(words) == {n \in DOMAIN Data[graph].name : words # <<>> /\ Range(words) \subseteq Range(Data[graph].name[n])}
Ranked(words) == {Leading(s, tool.limit) : s \in SetToSeqs(Matching(words))}
NodeEntry(n) == [id |-> n, label |-> Data[graph].label[n], name |-> Data[graph].name[n]]
Entries(s) == [i \in DOMAIN s |-> NodeEntry(s[i])]

BeginGraphSearch ==
    /\ tool.step = "idle"
    /\ \E max \in Limits, term \in Searches :
           tool' = [NoTool EXCEPT !.step = "find", !.limit = max, !.term = term]
    /\ moved' = FALSE
    /\ UNCHANGED <<tables, graph>>

Find ==
    /\ tool.step = "find"
    /\ \E s \in Ranked(StripTitles(tool.term)) :
           tool' = [tool EXCEPT !.rows = Entries(s), !.retries = 1,
                                !.step = IF s = <<>> /\ Len(StripTitles(tool.term)) > 1 THEN "retry" ELSE "verify"]
    /\ Still

\* The next shorter term: at most three words are dropped from its end, and two letters are
\* too few to search for.
Shorter == LET words == StripTitles(tool.term) IN SubSeq(words, 1, Len(words) - tool.retries)
Length(words) ==
    LET letters[n \in 0..Len(words)] == IF n = 0 THEN 0 ELSE letters[n - 1] + Letters[words[n]]
    IN  letters[Len(words)] + Len(words) - 1
MayRetry == tool.retries <= 3 /\ tool.retries < Len(StripTitles(tool.term)) /\ Length(Shorter) >= 3
Retry ==
    /\ tool.step = "retry" /\ MayRetry
    /\ \E s \in Ranked(Shorter) :
           tool' = [tool EXCEPT !.rows = Entries(s), !.retries = @ + 1, !.step = IF s = <<>> THEN "retry" ELSE "verify"]
    /\ Still
EndRetries == tool.step = "retry" /\ ~MayRetry /\ Goes("verify") /\ Still

\* The results whose name has all words of the term, when there are any, and the labels
\* counted again (the mutant keeps the first count).
LabelCounts(rows) == [l \in {r.label : r \in Range(rows)} |-> Cardinality({i \in DOMAIN rows : rows[i].label = l})]
Verified(rows) ==
    LET named == {i \in DOMAIN rows : NameMatches(rows[i].name, SearchWords(tool.term))}
    IN  IF Len(rows) > 1 /\ named # {} THEN Selected(rows, named) ELSE rows
FirstSummary(rows) == [results |-> Verified(rows), labels |-> LabelCounts(rows)]
Summary(rows) == [results |-> Verified(rows), labels |-> LabelCounts(Verified(rows))]
VerifyNames == tool.step = "verify" /\ AnswersWith(Summary(tool.rows)) /\ Still

-----------------------------------------------------------------------------
\* A statement or the embedding that fails elsewhere raises out of the tool.
ToolRaises ==
    /\ tool.step \in {"embed", "rank", "find", "retry"}
    /\ tool' = [NoTool EXCEPT !.step = "raised"]
    /\ Still

NextTool ==
    /\ tool.step \in {"answered", "refused", "raised"}
    /\ tool' = NoTool
    /\ Still

SearchNext ==
    \/ LoadTables \/ LoadGraph
    \/ BeginVectorSearch \/ EmbedQuery \/ RankRows \/ Enrich \/ EnrichFails \/ FormatResults
    \/ BeginGraphSearch \/ Find \/ Retry \/ EndRetries \/ VerifyNames
    \/ ToolRaises \/ NextTool

SearchSpec == SearchInit /\ [][SearchNext]_searching

-----------------------------------------------------------------------------
(* Properties.                                                             *)

VectorAnswered == tool.step = "answered" /\ tool.term = <<>>
Ids(seq) == [i \in DOMAIN seq |-> seq[i].id]

\* "When provided, returns ONLY candidates in these countries", with "enough in-scope
\* results": the nearest people of the countries asked for, no more than the limit, each
\* with his own details; fewer only when the others are not among the people fetched.
\* Not when the enrichment failed, which reads as nobody in scope, nor when the data
\* moved under the call or the tables and the graph hold different generations.
NearestInScopeUnless ==
    VectorAnswered =>
        \/ tool.details = None \/ moved \/ tables # graph
        \/ LET fetched == Leading(Data[tables].nearest, IF tool.countries = {} THEN tool.limit ELSE
                                    IF tool.limit * OverFetch > FetchCap THEN FetchCap ELSE tool.limit * OverFetch)
               country == Data[graph].country
               scope == {j \in DOMAIN fetched : fetched[j] \in DOMAIN country /\ country[fetched[j]] \in tool.countries}
               wanted == IF tool.countries = {} THEN fetched ELSE Selected(fetched, scope)
           IN  /\ tool.limit \in 1..MaxLimit
               /\ Ids(tool.answer) = Leading(wanted, tool.limit)
               /\ \A i \in DOMAIN tool.answer :
                      LET c == tool.answer[i]
                      IN  c.id \in DOMAIN country => c.detail.id = c.id /\ c.detail.from = c.from

GraphAnswered == tool.step = "answered" /\ tool.term # <<>>

\* A person searched for by name, with titles around it and up to three more words
\* behind it, is found, unless a longer part of the term names another, be it with parts
\* of his words; when the name is all there is, nobody of another name stands beside him.
\* The label summary is that of the results.  Not when the graph was loaded meanwhile,
\* when the statement cut the results, or for a single name (a title stays with it, even
\* in the shorter terms).
NamedIsFoundUnless ==
    GraphAnswered =>
        LET found == Range(tool.answer.results)
            words == Plain(tool.term)
        IN  /\ tool.answer.labels = LabelCounts(tool.answer.results)
            /\ \A p \in DOMAIN Data[graph].name, k \in 0..3 :
                   LET name == Data[graph].name[p]
                   IN  \/ moved \/ Len(tool.rows) >= tool.limit \/ Len(name) < 2
                       \/ Len(words) # Len(name) + k \/ ~IsPrefix(name, words)
                       \/ \E j \in 1..k : Matching(SubSeq(words, 1, Len(name) + j)) # {}
                       \/ k > 0 /\ \E r \in Range(tool.rows) : r.id # p /\ NameMatches(r.name, SearchWords(tool.term))
                       \/ NodeEntry(p) \in found /\ (k = 0 => \A r \in found : NameMatches(r.name, SearchWords(tool.term)))

=============================================================================
