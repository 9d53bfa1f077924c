# TalentIQ: specifications, model checking and proofs

TLA+ modules for the programs of this repository: the backend that serves chats
with an agent over a graph database (`talent_backend`) and the pipeline that
generates and loads the data of that database (`talent_data_pipeline`). Every
definition is translated from the source; `PROJECT.json` maps each to its lines.
Paths are relative to the repository; `B/` is `talent_backend/talent_backend/`
and `D/` is `talent_data_pipeline/talent_data_pipeline/`.

## 1. The system

| Component | State it keeps | Operations | Hard behaviours |
|---|---|---|---|
| Chat history store, `B/chat_history.py` | message and `session_meta` documents in a Cosmos container; per process a fallback, a circuit breaker | add and read messages, list, rename, soft-delete threads, hard-delete sessions | two or three replicas write the same documents without an etag; requests raise, before or after they took effect; the breaker; restarts |
| Handlers, `B/api.py` | one coroutine per request on one event loop per process | turns (`/api/chat`, `/af/graph/responses`), thread and session endpoints, uploads, CV downloads | synchronous store calls hold the loop; streams are cancelled at a yield; streams share one logger |
| Sign-in, `B/auth.py` | cache of signing keys in two module globals | fetch keys, judge a bearer token | requests fetch at once and store their answers in any order; the provider rotates its keys |
| Agent, `B/agent/` | none (external framework) | builds the agents and their tools | |
| Tools server, `B/mcp_server/` | connection pool, "entity table exists" flag | rewrite and run Cypher, resolve entities, search employees and nodes, write CVs | a rewriter of text that must keep the meaning of a query; partial results aligned by position; calls that hold a connection while another service works; a table that is filled while it is read; several statements without a transaction while the data are loaded anew |
| Load checkpoint, `D/checkpoint.py` | a JSON file, its copy in memory, a counter of unsaved marks | mark batch or phase, flush, reset | a crash between any two steps |
| Loaders and `load.py`, `D/load.py`, `D/loaders/` | tables in PostgreSQL / AGE; a pool of worker threads | load nodes, edges, embeddings, full text in batches | workers finish out of order, statements raise, transactions roll back, runs die and resume |
| Pipeline, `D/main.py`, `D/generators/embedding_generator.py` | generation checkpoints, cached embedding batches, the "already loaded" test | generate, load, skip what is done | a run that dies half way and the tests that decide what the next run skips; caches keyed by position |
| Generators, `D/generators/` | none | draw employees, reference data and edges | shares that are rounded, samples of what is left, ranges that may be empty |
| Schema scripts, validation, connectivity test | none | | DDL, read-only checks |
| Web UI, `talent_ui/src/App.jsx` | the messages shown, the session, locks, uploaded file, run log | ask, read a stream, upload, load a thread, clear the chat | operations that await go on with the state of the page they began with; a stream that breaks off or carries an error |
| Deployment, `talent_infra_modules/`, `run_all.py` | | start processes | up to three backend replicas (`02-backend/infra/main.bicep:98-99`) |

The UI calls the handlers; a turn stores the prompt, reads the context back from
the store, runs the agent, whose tools query the graph over the tools server, and
stores the answer. The pipeline is a program of its own: it fills the graph and
the search tables those tools query, and nothing else writes them. It may do so
while the tools are in use.

What makes each component correct:

* store: a message that was acknowledged is kept; only a deletion, or the restart
  of a process that held it in memory, removes one; counts shown are not too
  large; an edit sticks; an open breaker keeps requests away from Cosmos;
* handlers: the agent is given the prompt it has to answer; answers to the client
  are true; the event loop is always given up;
* load: whatever dies or raises, a resumed load skips only what is in the
  database, loads nothing twice, and completes in the end;
* pipeline: a run that ends leaves graph and tables in agreement, and of its own
  seed; whatever died before, a re-run doubles nothing; what it skips is there;
* generators: quotas add up, nobody has two edges to one target, the dates and
  states of one employee's edges agree;
* sign-in: a token is judged by keys published in the hour before the request;
* rewriter: the rewritten query runs and means the same, and rewriting it again
  changes nothing;
* entity resolution: one result for each term, in order; what is found is what the
  term means; what is reported as unknown is unknown;
* searches: the nearest employees of the countries asked for, each with his own
  details; a person searched for by name is found;
* CVs: a CV is all of one employee, or of nobody when it is to be anonymous; the
  template is the one the user chose;
* chat page: it shows the conversation that is stored and goes on with it; the run
  log keeps what was reported; it does not stay locked.

## 2. Modules

| Module | Models |
|---|---|
| `ChatStore` | the store: every method that changes state, on any number of replicas |
| `ChatService` | EXTENDS `ChatStore`: the turns, thread and session handlers, one event loop per replica |
| `ResumableLoad` | abstract: what a checkpointed load promises |
| `CheckpointedLoad` | the checkpoint, the loaders and the run of `load_all`; implements `ResumableLoad` |
| `PipelineRun` | runs of `main.py`, one after the other: generation, caches, direct load of all tables |
| `Workforce` | the generators of employees and of their edges |
| `SigningKeys` | the key cache and the judging of tokens of `auth.py` |
| `CypherPasses` | `optimize_sql` of `cypher_rewriter.py` |
| `CypherRewriter` | EXTENDS `CypherPasses`: a semantics of the queries it rewrites |
| `EntityResolution` | `resolve_entities` and the pool it takes a connection of |
| `CandidateSearch` | `vector_search` and `search_graph` |
| `CvDocument` | the choice of a template, `generate_employee_cv`, both documents, the download |
| `ChatPage` | the chat page and the graph endpoints it talks to |
| `MCChatStore`, `MCChatService`, `MCCheckpointedLoad`, `MCPipelineRun`, `MCComponents`, `MCChatPage` | the instances TLC checks |
| `Selections` | what a list comprehension and `sorted()` return, for `CypherPasses`, `CandidateSearch` and `CvDocument` |
| `ChatStoreProofs` | theorems of `ChatStore` |
| `CheckpointedLoadProofs` | theorems of `CheckpointedLoad`, among them that it implements `ResumableLoad` |
| `SigningKeysProofs` | theorems of `SigningKeys` |
| `PipelineRunProofs` | theorems of `PipelineRun` |
| `ChatServiceProofs` | theorems of `ChatService`, among them that it implements `ChatStore` |
| `ToolServerProofs` | theorems of `CypherPasses`, `EntityResolution`, `CandidateSearch` and `CvDocument` |
| `WorkforceProofs` | theorems of `Workforce` |
| `ChatPageProofs` | theorems of `ChatPage` |

### ChatStore

`msgs` and `meta` are the Cosmos documents; `fallback`, `fallbackMeta`,
`available` (whether `__init__` reached Cosmos) and `failures` (the breaker's
counter) belong to a process; `call[r]` is the method process r is executing and
the Cosmos request it is at. A method is one action per Cosmos request: all the
Python between two requests belongs to the action of the first, since the store is
synchronous and nothing else of the process runs in between, while other replicas
do. Thus `add_message` is `AddMessage`, `UpsertMessage`, `ReadMeta`, `WriteMeta`,
with `AddRaises` for its outer `except` (the breaker counts, the fallback takes the
message), and `MetaUpdateRaises` for the `except` of `_update_session_meta`, whose
handler makes another write. A write that raises may have taken effect (`AddRaises`,
`EditRaises` and `DeleteRaises` choose). `Restart` is the death of a process: its
memory is gone, its call is where it was, Cosmos may be unavailable to the new one.

Abstractions: a message is a number and a role, a title one of three values; the
clocks of the replicas agree, so the number stands for the timestamp the queries
order by.

### ChatService

`job[r]` is the handler that holds the event loop of r: a handler that has called a
store method keeps the loop until the method returns. `turn[t]` is a coroutine. The
agent is a source of text that ends or raises at any point; a client may
disconnect whenever its stream is at an await or a yield, and then nothing after
the loop runs. `readFaults` counts the reads of a handler that raised, `faults`
the requests of the store's methods; together they stay below `MaxFaults`.

### CheckpointedLoad

`disk`, `mem` and `dirty` are the checkpoint (file, `_data`, `_dirty_count`);
`phase`, `pc` and `todo` the main thread; `jobs[b]` the future of batch b and, while
it runs, its open transaction; `rows` the committed rows. A phase has one of the
kinds of `load_all`: a DDL step, nodes loaded by a pool of workers, few nodes loaded
one batch after the other, edges, embeddings streamed through a pool that is
throttled, full text. Marking and flushing are part of the action that collects a
future, because `mark_batch_done` does both under its lock; the flush is one step
because the file is replaced by `os.replace`. `Crash` is the death of the process at
any point, and also an exception of the main thread outside a pool. `MergeRaises`
and `MergeRetried` show what the `except` of `_load_node_batch` and
`execute_with_retry` do to the transaction: `rollback()` takes the nodes merged
before along, and may take the `search_path` too. `lost` is a history variable: the
rows such a rollback, or their own exception, kept out.

`ResumableLoad` knows only tables and recorded phases: phases are recorded in order,
a phase is recorded only when its rows are there, except rows in `lost` and edges
with such an end, and the rows of a recorded phase are left alone until a reset.
The refinement maps `table` to the rows present and `recorded` to the phases the
*file* has as completed.

Abstractions: the CSV files do not change between runs (`PipelineRun` is where data
change), the phases have the same batches and items, and the order of batches is free
although the code takes them in ascending order. `--no-truncate` is left out: with it
the loader keeps the old edges by design.

### PipelineRun

`main.py` does not use the checkpoints of `load.py`: it has files of its own, and it
loads in another way. `files` and `cache` are what it has on disk: for each
generation checkpoint, and for each cached batch of embeddings, the seed of the data
in it. `held` and `vecs` are the same for the memory of the run. In the graph, a node
has as id the number of the run that inserted it, because every load gives new ids;
`nodes` are the employees (with the seed of their contents), `refs` the reference
nodes, `edges` and `inCountry` pairs of ids, and `lookup` the ids the run read
before it inserts edges. `vectors`, `fts` and `entities` are the relational tables,
which are upserted and never emptied.

A run is `Start`, `Probe` (or `ProbeFails`), `ClearGeneration` and `ClearEmbeddings`
with `--force`, `Generate` of each payload, for each batch of embeddings `LoadBatch` or
`EncodeBatch` and then `SaveBatch`, and the load. A
graph table is emptied by one action and filled by others, as `truncate_label` and
each batch commit apart; an employee batch or the `IN_COUNTRY` edges may raise, which
the code swallows (`EmployeesFail`, `MergeInCountryRaises`). `NoEdges` is the early
return of `load_edges_direct`, before it empties the table. `Crash` is the death of
the process, or an exception nobody catches, between any two steps.

Four history variables name what the properties must except: `unfinished` (the last
load died), `failed` (batches it passed over), `lostInCountry`, and `reseeded` (the
seed has changed since the embeddings were last made with `--force`).

Abstractions: a batch of employees has the same `workday_id`s under another seed and
other contents; the batches of 100 of the embeddings and those of 500 of the
database are one partition; the edges of a batch are one chunk; a node of each
reference label stands for all, and the `IN_COUNTRY` edges are rolled back as one. The
checkpoint of the reference data is left out, as they do not depend on the
seed, and so are unreadable checkpoints (which count as absent), `--no-truncate`, and
the steps that change nothing modelled (connectivity, schemas, indexes, validation).

### Workforce

One behaviour assigns the bench quotas of `EmployeeGenerator.generate_all`, staffs
one country after the other, and draws the edges of one employee in the order of
`EdgeGenerator`: studies, skills, certificates, languages, engagements. A draw of
`random` is a choice, and its weights are left out; what a sample or a range would
raise on (`ValueError` of `random.sample` and `randint`) is the stage "raised".
Names, texts, and the edges no rule is about are left out.

### SigningKeys

`jwks` is the pair of globals of `auth.py`. A request samples the time, uses the
cache (`UseCached`) or waits for the provider (`BeginFetch`, `ProviderAnswers`,
`StoreKeys`), and stores the answer with the time it sampled *before* the fetch. The
two assignments have no await in between and are one step. The provider and its
rotation (`Tick`) are external; that a token can be read, that its signature holds, an
expiry and a claim are given with the token, and `Verdict` is what `auth.py` makes of them
("invalid" is its last `except`).

### CypherPasses, CypherRewriter

The text of a query is a sequence of tokens: a clause head with its projection parsed,
or one of the characters the scanners look at (quotes, backslash, parentheses, brackets,
`NULLS LAST`). `ScanStep` is the scanner of the code, which takes every quote behind a
backslash as escaped and counts parentheses and brackets apart; `ClauseStarts` are the places
where it finds a clause, and a clause goes from its place to the next. `StripNulls`, `FixEscapes`,
`PushLimit` and `FixAliases` are the passes on that text. Among the heads are those of UNWIND and CALL, over
which a `LIMIT` is pushed, and the ends of clauses that are only spelled like a head (`STARTS WITH
x`, `skill_match`, `e.limit`): `_starts_keyword` takes them for one. Runs of blanks, which
`_cleanup_age_syntax` makes one where it dropped a `NULLS LAST`, are tokens too, in strings as
outside. `CypherRewriter` says what a
query means: `ReadStep` and `Readable` are the strings and the syntax Apache AGE accepts,
`WellFormed` the scopes of openCypher, `Rows` its clauses as a fold over sequences of rows;
`Intended` is the query without what AGE cannot be told (`NULLS LAST`, an unknown escape), as
pass 1 exists to mend it. These
are external: they are what the code's own comments, prompts and tests rely on.
`Answers` compares results up to the order that no `ORDER BY` fixes.

### EntityResolution

A call is one action per statement or await: open the pool, take a connection, look for the
table, set the flag, pass 1 of each term, the embedding, pass 2 of each term. A call goes by
the flag when it has its connection, or by what it saw itself. `Pass1` and `Pass2` are
sets of what may come out: a `LIMIT 1` without an `ORDER BY` returns any row that
fits, rows that are equally near (`Nearest`) come in any order, and so do the rows of the full
text, whose `ts_rank` is left out. A term and a row have stems and words: `ByAllStems` and
`ByAnyStem` are the two full-text queries, on lexemes of any length; `Overlap` is
`_word_overlap_ratio`, on the words of two letters and more, which may stand inside longer ones. So a
row may have all lexemes of a term and less than half of its words (`Inflected`), and then
pass 1 does not take it.

The table comes into being as the pipeline makes it: empty (`MakeTable`), then filled with one
commit per type (`LoadType`; a part of a type is left out when a retry rolled it back), then the
embeddings, in any number of batches (`EmbedRows`). Calls run between any two of these. `free`
starts at any number of connections, as the other tools of the server hold some. The
pool is opened once whoever comes first (`_ensure_open` opens it a second time
without effect); what bites is that a call keeps its connection while the
embedding service works. Similarities are given by a table, overlaps, ranks and scores are
computed.

### CandidateSearch

Each tool is one action per statement. The tables and the graph may be loaded anew
between any two (`LoadTables`, `LoadGraph`), with the ids of the old people.
`vector_search` is the clamping of the limit, over-fetch, ranking, enrichment by id and
the country filter; `search_graph` the stripping of titles, the retries with shorter
terms and the check of names. `search_graph_nodes` is a function of the database, external: the
nodes with all words of the term, in any order.

### CvDocument

A turn of the user asks for a CV or replies to a list of templates, which
`_augment_cv_template_choice` turns into a request with the file that
the newest list of the *history* shows, and with its email or, if it shows none, that of the newest
message of the user after it. Each message lies in Cosmos, in the fallback, or in both
(`Says`: a request may raise with or without effect, and behind the breaker all goes to the
fallback), and `History` is of the one store the reading gets to: the oldest of Cosmos, the newest
of the fallback. The agent is external: told to list the
templates, or to call the tool for a known email. `generate_employee_cv` reads one
section per statement, and the graph may be loaded anew between two. `BuildCv`
fills one of the two documents, with or without the employee's identity, and names
the file; `DownloadCv` applies the pattern of the download handler to that name. The summary and the
project of a job are left out of the document: they are texts the generators write
without names.

### ChatPage

`page` and `runLog` are the React state and refs, `send`, `loads` and `upload` the
operations of the page that are at an `await`, `streams` the answers on the server,
`threads` the stored messages. An operation goes on with what it captured when it
began (`upload.session`), not with the page as it is. The stream is read line by
line; an error may be a line with a message (logged, and the reading goes on) or without
(thrown, and the rest is dropped); `Ends` is the end of an answer with or without
text and error, `LastLines` what it adds to the stream. A question whose text is that of
the last run takes the place of that run in the log (`AskedAgain`). `ClearLog` is the button of the log: it empties the runs and leaves `currentRunRef`,
so that the next line of an answer being read brings the entries back; `cleared` remembers the
questions it took away. `SignOut` is `logout` of a build with `AUTH_DISABLED`, which clears what is
shown and keeps the session; in any other build it leaves the page. A thread is served up to
`ThreadLimit`: the oldest messages of Cosmos or the newest of the fallback. `parted` is a history
variable: the first reason why the page may differ from the store since it was last cleared or
loaded.

Abstractions: a message is its question's number and a role; the text of a
document that a stored prompt carries is a role of its own, which `As` strips; the
store itself does not fail here (`ChatStore` is where it does); that the document goes to the agent
for a follow-up only if it is among the last 20 messages, the marks around tables, the template a
prompt is augmented with (`CvDocument` has it) and the state of
approvals and consent, the other two backends and rendering are left out.

## 3. Runs

| Run | Instance | States | Shows |
|---|---|---|---|
| `chat_store_replicas` | two replicas, one session, two messages, two faults, breaker at 2 | 3.3 million | acknowledged messages are kept, counts are never too large, no call is at Cosmos behind an open breaker |
| `chat_service` | one replica, two turns, three messages, limit 2, two faults | 1.1 million | exactly when a prompt is missing from the context; answers are true without a write that raised; edits stick; a breaker stays open; the loop is freed |
| `context_not_recent` | no fault | violated | `get_history` returns the oldest messages |
| `deleted_reply` | one fault | violated | "deleted" is answered for a thread that stays |
| `delete_undone` | two replicas, no fault | violated | a soft delete is undone by a concurrent write |
| `checkpointed_load` | seven phases of all kinds, one empty, three batches of two items, two workers, flush at 2, two faults | 200 thousand | the load implements `ResumableLoad`; nothing twice; only loaded batches are skipped; few marks at risk; the load completes |
| `counted_not_loaded` | one fault | violated | nodes counted as loaded are not in the graph |
| `pipeline_runs` | three runs, two seeds, three batches, three faults, 90% is two batches | 989 thousand | nothing is doubled; edges dangle only after a load that died; every way in which a complete run leaves tables that disagree; a load is of its seed |
| `skipped_load` | one fault | violated | a run that skips the load leaves employees without edges |
| `components` | three employees, 10,459 texts of queries and strings; three countries; two requests, a key life of 2; two callers, a pool of up to 2, a table that is filled meanwhile; two generations of data; three turns about CVs | 2.9 million | the rewriter keeps the meaning but for six shapes of queries, and pushes once; bench and edges add up; tokens are judged by keys of the hour; results belong to their terms; searches find the nearest, and the named; CVs are of one employee |
| `cv_order` | two former jobs | violated | the older job stands first in a CV |
| `chat_page` | two questions, four acts of the user, one upload and one load at a time, threads served up to three messages | 1.7 million | the page shows what is stored but for the named reasons; the run log keeps what was reported until it is cleared; the page unlocks |

Bounds. Every interleaving the store can get wrong is between two calls on the same
documents, so two replicas and one session reach them; two messages suffice for a
lost update, and three with a limit of two for a session longer than its context.
The breaker opens at 2 instead of 3, so that two faults open it. In the load, a flush
interval of 2 with three batches leaves marks both saved and unsaved in one phase and
carries the counter into the next; two items show a rollback that takes another
node along; two workers a pool that is smaller than the batches. In the pipeline, three
runs are one that leaves data and caches, one that dies on them, and one that finds
what is left; three faults let every batch fail, or a probe, a batch and the run;
two of three batches pass the test of 90% although one is missing. The label
`country` has no employee edges of its own, as in the code, and `skill` has nothing to do
with `IN_COUNTRY`. Faults, failed reads among them, are bounded by `MaxFaults`, messages by `MaxMessages`.
The six modules of `components` share no state, so `part` picks the one that runs. Their
bounds: three employees with one to three skills and up to two certificates make
groups of different sizes, ties and an empty optional match; the queries are every
combination of a filter, a grouping, an enrichment, a result, an order and a cut, and the
strings every body of up to four of the five characters the scanners tell apart. Three
countries are a first, a middle and a last one, with every count up to three. A clock
of three ticks and keys that live two let a key be stored late, expire and be rotated
away. Two callers at a pool of two, with one connection or two to begin with, exhaust
it; the entities include two of one name, as Python and Java are skill and
skill domain. A limit of 4, a double over-fetch and a cap of 4 on five people reach
every branch of the clamping. A history limit of 3 is exceeded in the third turn, and the
request of one message may raise. Two of the parts are cut down by constraints of `MCComponents` on their steps, named there.
`Filling`: while the table is filled, one call at a time goes on, except that calls which
have found no table and not yet noted it may be several, and the embeddings come in two
batches; once it is full, calls interleave freely. `Beginning`: the conversation starts with
one person or none, only its second turn writes a CV, and the graph is loaded anew while one
is written. The theorems have neither. On the
page, four acts of which two may be questions are an upload whose session changes
meanwhile, a clear, and a load that races an answer.

Replicas, batches, seeds, and in `components` the callers and the requests, are interchangeable, hence
the symmetry of the safety runs; the runs with a liveness property have none. Deadlock is not checked in the chat
runs: at the bound of messages, and with nobody asking, the system stops; nor in
`pipeline_runs`, `components` and `chat_page`, which stop at their bounds. It is checked in
`checkpointed_load`.

Fairness. `ServiceSpec`: a handler that holds the event loop goes on (a Cosmos
request returns or raises: the SDK has timeouts; Python runs). Nothing is assumed of
clients or of the agent. `FairSpec`: the main thread and each worker goes on, and a
load that ended is started again, which `DATA_LOADING.md:258-262` tells the operator
to do; exceptions, crashes and resets are finitely many by the bound.
`FairPageSpec`: what the page waits for comes to an end, well or badly (tokens, fetches,
streams, on the page and on the server); the user owes nothing.

Properties that compare with the code's own words (a comment, a document or a test)
quote them above their definitions. Six fail, and are listed as findings:
`ContextIsMostRecent`, `DeletedReplyHidesThread`, `DeletedThreadStaysDeleted`,
`CountedIsLoaded`, `SkippedRunHasEdges`, `NewestExperienceFirst`. The passing runs state
what holds instead: `PromptReachesAgentUnless` names every case in which the agent
misses its prompt, `ResumableLoad` admits exactly the rows in `lost`, and
`CompleteIsConsistentUnless` excepts a run that skipped the load after one that had not
finished, with the batches that raised and the embeddings of a changed seed named in
`Consistent`. The other properties that end in `Unless` name their exceptions in the
comment above them:

* `MeaningKeptUnless`: strings with an escaped backslash; a `RETURN` that renames what its
  `ORDER BY` needs; a `WITH` that hides names a later clause reads; a `LIMIT` pushed
  over a clause that changes rows or their order, UNWIND and CALL among them; two blanks in a string of a
  query with `NULLS FIRST` or `NULLS LAST`, which become one although the comment at
  `cypher_rewriter.py:415` says that strings are not touched; an `ORDER BY`, or a whole query, that ends in a word
  spelled like the end of a head. Two of these are shapes for which the tests of the repository expect the
  query to be left alone: `test_no_deref_for_non_agg_with` (a `WITH` without an aggregate,
  `src/tests/database_test/test_cypher_rewriter.py:266`) and `test_cleanup_only_when_no_optional_match` (a
  `RETURN` that renames, `:229`); both fail on this code, whose third pass makes no such distinction.
  `PushedOnceUnless`: strings, parentheses or brackets that do not balance;
* `BenchFilledUnless`: an `EMPLOYEE_COUNT` that is not the sum of the table, or a last
  country too small for what rounding leaves; `OneEdgePerTargetUnless`: skills that
  the reference data list twice;
* `FoundIsMeantUnless`: rows of one name; `UnknownIsUnknownUnless`: a fault, a flag that an early call
  has set to "no table" for good, rows that were not in the table when the call began, or a term that has its
  words in another form than the row (*databases*), or is one letter;
* `NearestInScopeUnless`, `NamedIsFoundUnless`, `CvIsOfEmployeeUnless`: data loaded
  during the call; for the first also an enrichment that failed, for the
  second results cut by the limit, single names, and a longer part of the term, or parts of its
  words, that name another; for the third templates without a text box;
* `ChosenAsShownUnless`: Cosmos, which gives the oldest messages of a long
  conversation, or a message that is not in the store asked now because an earlier request raised; in both a
  choice still means what some older list shows; PDF files before the number chosen; `AnonymousCvUnless`: names
  with a mark, whose file cannot be downloaded;
* `ConversationShownUnless`: the reasons `parted` records: an answer that was left, an error, an upload not
  waited for, a thread that changed after it was served or is longer than what is served of it, a
  sign-out that keeps the session; `RunLogKeptUnless`: a question asked again, or a log that was cleared.

Each of these exceptions is needed: without it TLC finds the property violated.

## 4. Theorems

All are checked by TLAPS for any values of the constants that satisfy the named
assumptions of the modules (the bounds are any natural numbers).

* `ChatStoreProofs`. `BreakerInv` is the type invariant with
  `OpenBreakerTouchesNoCosmos`. It is inductive: a call enters Cosmos only through
  `Entry`, which tests the breaker; only `AddRaises` counts a failure, and a replica
  has one call at a time, the one that then leaves for the fallback. `TypeCorrect`,
  `BreakerShieldsCosmos`, and from the same invariant the action property
  `BreakerStaysOpen`.
* `ChatStoreProofs`, the history. `CountNeverOverreports` is not inductive: the count that will
  be stored is in the hands of a call. `HistoryInv` adds that an add call past its
  first request has its message in `Written` (the messages in Cosmos or erased from
  it), that numbers are issued once, and `VersionsCount`: every version of a
  document, stored or held by a call, counts at most the written messages whose
  calls are past the reading of the document. A write that installs an old version
  then installs a number that was right for fewer messages. `CountSafe`,
  `AcknowledgedRetained` and `MessagesLeave` follow.
* `CheckpointedLoadProofs`. The inductive invariant comes in four layers, each
  inductive given those before it. `TypeInv` adds to the types that jobs exist only
  inside a pool. `ControlInv` ties the main thread to the checkpoint: it is inside a
  phase only if memory does not have that phase as completed, memory and file agree on
  completed phases, and every phase before the current one is completed, so that a
  phase in work is never a recorded one. `DataInv` says for each batch of the phase in
  work where its rows are: a running job has the rows it has not handled in `left` or
  `open`, a finished job or a marked batch has every row in the table or in `lost`, a batch of a
  running pool is queued, running, done or still to be taken, and an edge chunk that is
  to be inserted is not in the table. `NoDuplicates` and `CompletedIsLoaded` are
  inductive only together with these. `RiskInv` counts: the marks in memory and not in
  the file number at most `dirty`, which is a fact on cardinalities and needs
  `Batches` finite. `TypeCorrect`, `NothingTwice`, `SkippedAreLoaded`, `FewMarksLost`
  and `RecordedAreLoaded` follow. For `LoadIsResumable` every step is a `Load`,
  `Clear`, `Lose`, `Record` or `Reset` of `ResumableLoad` or leaves its variables
  alone; that a record is made only of a loaded phase is where `DataInv` is needed, and
  that rows change only in the current phase where `ControlInv` is. The assumptions say
  that edges join earlier node phases (`EndsAssumption`), that only node and edge
  phases can be empty (`NoDataAssumption`), and that the numbers are naturals.

* `SigningKeysProofs`. `KeysInv` says that the keys in a cache, or in the answer a request
  waits for, were published no earlier than the time they are kept with
  (`PublishedSince`), and of every reply that it was just when it was given. It is
  inductive because `StoreKeys` keeps the time sampled *before* the fetch: however late
  an answer is stored, and whichever is stored last, it does not look newer than it is.
  `KeysTypeCorrect` and `KeysOfTheHour` follow, for any number of requests, any tokens
  and any rotation.

* `PipelineRunProofs`. The change lemmas, proved with all actions expanded, say which
  steps change a variable and how a run gets from step to step; the rest cites them
  and expands an action only where it matters. The invariant has four layers. `TypeInv`: types, the order of the payloads and
  where the loops are. `SeedInv`: what is held is of the seed of the run, and so are the
  embeddings while `CacheIsClean`. `GraphInv`: between its truncation and its end a
  table is exactly what the batches done so far make it (`Filled`, `LabelDone`,
  `RefsInv`, `InCountryInv`), which is why a run that starts from any leftover of a
  crash doubles nothing. `LoadInv`: the employees are those whose batch did not fail,
  and the relational tables follow them; `FinishedLoad` puts this together at the step
  that ends a load, and `StaysConsistent` carries it on. The assumptions: `Location`,
  `Country` and the edge labels are reference labels, `None` is neither a seed nor a
  label, the bounds are naturals, and 90% of the batches is at least one
  (`SkippedHasNodes` needs it). All five properties that `pipeline_runs` checks are theorems.

* `ChatStoreProofs`, one replica. `SettledMetaSticks` and `CountExactWhenHealthy` are
  false for several replicas, which overwrite each other's versions of a document (the run
  `delete_undone` shows it), so `SettledSticks` and `CountExact` assume `OneReplica`.
  `SettledInv` says that the version a call holds between its read and its write is
  one that the stored version may become. `ExactInv` is `HistoryInv` with `CountsExact`: while no
  request has raised, the messages of a session, what its document counts and what the
  call in progress has still to add or erase add up.
* `ChatServiceProofs`. `TurnsInv` adds to the types that a handler storing a message for a
  turn is that turn's coroutine, on its replica, which waits for it. With it, each step
  of a handler is one step of the store or none: `ServiceImplementsStore` is the
  refinement `ServiceSpec => Spec`, and carries every theorem of the store over
  (`ServiceBreakerStaysOpen`, `ServiceSettledSticks`, `ServiceCountExact`).
  `PromptReachesAgent` holds for any number of replicas. In `PromptInv`, `HandlersCall` ties
  the call in progress to the handler that made it, and `PromptKept` says that after
  `add_message` returned the prompt is in the replica's memory, or was written to Cosmos
  with the breaker closed; that memory holds nothing newer (`HeldOlder`) is
  what makes the prompt the last of the messages a fallback read returns. `RepliesTrue` needs
  `OneReplica`: while no write raised, the replica keeps all it has in Cosmos or all of
  it in memory (`OneStore`), a deletion knows exactly the documents that are left
  (`CountsExact`), and what it returns with is true (`RepliesHold`).
  `ServiceTypeCorrect` follows from the same invariants.
* `ToolServerProofs`, `EntityResolution`, for any callers, entities, queries and similarities. `ResolveInv`
  is about one call at a time, as calls share only the pool, the flag and a table that only grows: as many results
  as terms handled (`Lengths`), each of its term and either found rightly, justly
  unknown of the rows seen when the call began, or pending and then the subject of an entry of `need`
  (`ResultsHold`, `NeedsHold`), and the embeddings are of the texts of these entries, by
  place (`EmbeddedHold`), which is where `ByIndex` undoes the order of the answer.
  `ResultPerQuery`, `FoundIsMeant` and `UnknownIsUnknown` follow. That what was found in the
  full text is never lost to a better score needs arithmetic on ranks and the finiteness of the entities;
  the assumptions say that, that an entity's words contain its name's, that a similarity
  is a percentage, and that there is at least one candidate.
* `ChatPageProofs`, for any number of questions, sessions and acts. `PageInv`: the question
  under way is the last one asked and the page is locked exactly then, sessions beyond
  those opened are unknown to everyone and empty, and an answer not asked for yet has no
  lines. `RunLogInv`: each run of the log holds the reports of one question, the questions
  ascend, and the reports of the answer being read stand in `currentRunRef` whatever becomes of the
  runs; a run is missing only if the same text was asked again or the log was cleared since.
  `ShownInv`: while nothing has parted the two, the page is behind the store by exactly the
  answer that the unread lines still hold (`GoodLines`, `Answers`, `InStream`), and an answer
  that runs without a reader has parted the page. `PageTypeCorrect`,
  `RunLogKept` and `ConversationShown` follow.

* `WorkforceProofs`, for any table of countries, total, bench, skills, certificates,
  languages, clients and years. `QuotasHold`: once the quotas are drawn they are `QuotaOf` of
  every country, a country staffed has given the smaller of its quota and its count, and the
  generator raised exactly at a country whose quota is negative. `BenchIsFilledUnless` rests on
  arithmetic the property does not show: a rounded share of a bench no larger than the table
  never exceeds its country (`Rounded`, `ShareFits`), and what the others leave is what
  the last one has to give (`QuotasAddUp`, over sums defined by a recursive function).
  `EdgesHold` says of each label what the edges drawn so far are: of distinct targets, but for a
  skill listed twice (`SkillsDrawn`, where primary skills are put before sampled ones),
  certificates that expire after their issue with the status of this year, engagements that follow
  one another and end before the next begins. `OneEdgePerTarget` and `EdgesFit` follow. The
  assumptions: a table has a country, the bench is no larger than any table, a domain's skills are
  among all skills, and languages are finitely many.
* `ToolServerProofs`, `CandidateSearch`, for any ranking, graph, limits, names and terms.
  `SearchHolds` says what a call has read at each of its steps, in the generation it reads
  in, unless a load came in between. For `NearestInScope` (`VectorHolds`): the rows are the people
  fetched, the details those of the same people by id, and cutting rows to the countries
  and the limit commutes with taking their ids (`IdsOfKept`, over the selection lemmas:
  `PlacesAreNumbered` shows that every place of a finite set has one number, so a selection
  is a sequence that holds each member once and in order). For `NamedIsFound` (`GraphHolds`):
  no longer part of the term has a match, and the rows are all matches of the part they were
  found by (`LongestFound`), so when the first words are a name of two or more and at most three follow,
  the retries do not stop before it (`TwoWordsAreLong`), and the check of names keeps it
  (`PersonIsShown`). The attempt corrected the property: a word that is only part of
  another's name, as *so* of *smithson*, makes the check of names drop the person found in
  favour of the other; TLC showed it once the instance had such a word. The assumptions:
  the limits are integers and a call answers no more than it fetches, nobody is of the country `""`, finitely many people have names,
  and a search has words with letters.
* `ToolServerProofs`, `CvDocument`, for any templates, people, replies and turns. `WriteHolds`:
  a request made of a reply answers a list of the conversation before it, and the newest but when Cosmos
  gives the oldest of a long conversation or a message is not in the store asked (`ChoiceHolds`, with
  `HistoryIsPart` and `HistoryOfAll`: the history of a store that has every message goes on to the
  end of the conversation, so that its newest list is that of the conversation); the rows read so far are those of the employee, section by section,
  unless the graph was loaded meanwhile (`ReadHolds`); and a document is made of the rows read
  (`DocHolds`). `ChoiceIsOfNewestList`, `CvIsOfEmployee` and `AnonymousCvIsAnonymous` follow; the second
  needs that sorting and grouping lose and double nothing (`AllInOrder`). The assumptions:
  everybody has a name, which is not "Candidate Profile", skills of a level the document lists or of
  none, and no client is called "Confidential Client".
* `ToolServerProofs`, `CypherPasses`, for texts of any clauses and length. `PassInv` says which pass
  made the text of which. The state of the scanner is a function on the places of a text
  (`ScanIs`), so what it does depends on the characters read only (`ScannedAlike`). `LimitIsPushedOnce`:
  the copied end of the query begins at a clause, so it is scanned as it was (`CopyPlaces`), ends at
  the top level because the query does (`EndOfText`), and leaves the clauses around it where
  they were (`CopyStarts`); its `LIMIT` then stands between the last aggregation and the first
  `OPTIONAL MATCH`, where rule 5 finds it. `AliasesPushNothing`: the clauses inserted by the third pass
  keep the order of the others, aggregate nothing and limit nothing, so every rule that
  held the push back still does; this is about sequences with elements put between theirs
  (the `Merge` lemmas). `PushedOnce` follows. The attempt corrected the property: it is
  false of a text whose brackets do not balance, which TLC showed once the instance had one
  (`Unbalanced`: the copy of its `LIMIT` opens a parenthesis, which hides the enrichment it was
  made for and shows another). Such a text is no query Apache AGE executes. The one assumption is that texts are sequences.

TLC checked `TurnsInv`, `PromptInv`, `ResolveInv`, `PageInv`, `RunLogInv` and `ShownInv` on the
instances of the runs, or on smaller ones, before they were proved.

Only model-checked: the liveness properties (`EventLoopFrees`, `LoadCompletes`,
`PageUnlocks`), which are out of the prover's reach, and `MeaningKeptUnless`. The meaning of a
query is a fold over a text of any length whose step is an operator, which no prover here
instantiates, and the property is an equality of what two such folds compute: a statement
about every text is an induction over data.

## 5. Not modelled

* Agents and their prompts: an external framework. What a prompt tells the CV agent
  to do is an external action of `CvDocument`.
* `analyze_graph_statistics`, `query_using_sql_cypher` apart from its rewriter, the
  parsing of agtype: they pass a query through and format its rows.
* `B/mcp_server/schema.py` and `B/pipeline_logger.py`, which the program does not import.
* Of the generators: names, texts and edges that no rule is about. DDL, validation
  queries, connectivity test: idempotent or read-only.
* `--no-truncate`, unreadable checkpoints, the choice of the database host.
* Of the handlers: `GET` endpoints that only read, the extraction of text from a
  document. Of the UI: approvals, consent, the other backends, rendering, and signing in and out with
  accounts, which leaves the page.
* In the text of a query, a word spelled like a clause head anywhere but at the end of a clause.
* Launcher and deployment. `talentiq_requirements/` is an earlier version kept for
  reference, not the program.

Met while modelling, without a property of their own: concurrent streams share the
logger of the agent framework and get each other's tool events (`AgentLogs`; nothing is
promised about whose they are). `_MIN_VECTOR_SIMILARITY` of `entity_tools.py` is never used. `Role` rows of
`entity_search` can be found, but not be asked for, as `_VALID_ENTITY_TYPES` lacks the type.
`uploadedFile` of the page is not reset by "Clear chat", "New chat" or the loading of a
thread, so that a document goes along with the first question of the next
conversation.

## 6. Plan

1. Done: `ChatStore`, `CheckpointedLoad` and `SigningKeys` with their theorems,
   `ResumableLoad`, `ChatService`.
2. Done: `PipelineRun` with its theorems.
3. Done: `CypherPasses`, `CypherRewriter`, `EntityResolution`, `CandidateSearch`, `CvDocument`,
   `Workforce`, `ChatPage`.
4. Done: theorems of `ChatService`, `EntityResolution`, `ChatPage`, `Workforce`,
   `CandidateSearch`, `CvDocument` and `CypherPasses`, and those of the store that need a single replica.
5. Left: a `ChatPage` whose server is `ChatService`; the approvals of the page.
