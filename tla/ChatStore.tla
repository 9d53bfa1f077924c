------------------------------ MODULE ChatStore ------------------------------
(***************************************************************************)
(* talent_backend/chat_history.py: the chat history store.                 *)
(*                                                                         *)
(* Every backend process ("replica") owns one ChatHistoryStore.  The       *)
(* replicas share one Cosmos container (a message document per message, a  *)
(* session_meta document per session); each replica also has an in-memory  *)
(* fallback and a circuit breaker of its own.  The store's methods are     *)
(* synchronous Python called from async handlers, so one replica runs one  *)
(* call at a time; between replicas every Cosmos request is a step.        *)
(*                                                                         *)
(* A Cosmos request may raise.  A write that raises was either not applied *)
(* or applied with its answer lost (the SDK timed out): both are modelled. *)
(*                                                                         *)
(* Abstractions: a message is its number and its role; numbers come from   *)
(* one clock, standing for the ISO timestamps of replicas whose clocks     *)
(* agree.  A title is "" (none), "auto" (cut from the first user message)  *)
(* or "renamed".  Timestamps of the session_meta document are left out.    *)
(***************************************************************************)
EXTENDS Naturals, Sequences, FiniteSets

CONSTANTS
    Replicas,       \* backend processes
    Sessions,       \* session ids
    Users,          \* owners, the oid of a signed-in user
    NoUser,         \* no user id ("" in the documents)
    NoMeta,         \* the session has no session_meta document
    Threshold,      \* _CIRCUIT_BREAKER_THRESHOLD
    MaxMessages,    \* bound: messages ever added
    MaxFaults       \* bound: Cosmos requests that raise, and restarts

ASSUME ThresholdAssumption == Threshold \in Nat \ {0}
ASSUME BoundsAssumption == MaxMessages \in Nat /\ MaxFaults \in Nat
ASSUME NoUserAssumption == NoUser \notin Users

VARIABLES
    msgs,           \* Cosmos: the message documents of each session
    meta,           \* Cosmos: the session_meta document of each session
    fallback,       \* _fallback of each replica
    fallbackMeta,   \* _fallback_meta of each replica
    available,      \* self._available of each replica
    failures,       \* self._consecutive_failures of each replica
    call,           \* the store call each replica is executing
    clock,          \* messages added so far
    faults,         \* requests that raised and restarts so far
    erased          \* history: messages a hard delete removed from Cosmos

cosmos == <<msgs, meta, erased>>
memory == <<fallback, fallbackMeta>>
vars == <<msgs, meta, fallback, fallbackMeta, available, failures, call,
          clock, faults, erased>>

-----------------------------------------------------------------------------
(* Documents and calls.                                                    *)

Roles == {"user", "assistant"}
Message == [id : Nat, role : Roles]
MetaDoc == [owner : Users \cup {NoUser}, title : {"", "auto", "renamed"},
            count : Nat, deleted : BOOLEAN]
ASSUME NoMetaAssumption == NoMeta \notin MetaDoc
Edits == {"softDelete", "rename"}
MetaId == 0     \* the id of the session_meta document; messages count from 1

Idle == [op |-> "idle", pc |-> "idle"]
\* A method that returned (an id or True: "ok"; False: "missing") and whose
\* caller has not gone on yet.
Returned == [op : {"returned"}, pc : {"ok", "missing"}]
AddCall == [op : {"add"}, sid : Sessions, msg : Message, user : Users \cup {NoUser},
            meta : MetaDoc \cup {NoMeta},
            pc : {"upsertMessage", "readMeta", "upsertMeta", "createMeta",
                  "fallback"}]
EditCall == [op : {"edit"}, sid : Sessions, edit : Edits,
             meta : MetaDoc \cup {NoMeta},
             pc : {"readMeta", "upsertMeta", "fallback"}]
DeleteCall == [op : {"delete"}, sid : Sessions, ids : SUBSET Nat,
               pc : {"query", "deleteItems", "fallback"}]

At(r, op, pc) == call[r].op = op /\ call[r].pc = pc
Goto(r, pc) == call' = [call EXCEPT ![r].pc = pc]
Finish(r, result) == call' = [call EXCEPT ![r] = [op |-> "returned", pc |-> result]]

\* The pcs at which the call's next step is a Cosmos request.
CosmosPcs == {"upsertMessage", "readMeta", "upsertMeta", "createMeta", "query",
              "deleteItems"}

Init ==
    /\ msgs = [s \in Sessions |-> {}]
    /\ meta = [s \in Sessions |-> NoMeta]
    /\ fallback = [r \in Replicas |-> [s \in Sessions |-> <<>>]]
    /\ fallbackMeta = [r \in Replicas |-> [s \in Sessions |-> NoMeta]]
    /\ available \in [Replicas -> BOOLEAN]
    /\ failures = [r \in Replicas |-> 0]
    /\ call = [r \in Replicas |-> Idle]
    /\ clock = 0
    /\ faults = 0
    /\ erased = [s \in Sessions |-> {}]

-----------------------------------------------------------------------------
(* The circuit breaker.                                                    *)

\* Mutant of CosmosUp: the threshold is not tested.
CosmosUpNoBreaker(r) == available[r]

\* The condition every method tests before it turns to Cosmos.
CosmosUp(r) == available[r] /\ failures[r] < Threshold

\* Mutant of Entry: the breaker is not tested.
EntryIgnoringBreaker(r, first) == IF available[r] THEN first ELSE "fallback"

\* Where a call starts: with its first Cosmos request, or in the fallback.
Entry(r, first) == IF CosmosUp(r) THEN first ELSE "fallback"

\* One more Cosmos request raises.
Fault == faults < MaxFaults /\ faults' = faults + 1

-----------------------------------------------------------------------------
(* The session_meta document.                                              *)

\* Mutant of FirstMeta: no title (None) unless the user wrote the message.
FirstMetaUntitled(msg, u) ==
    [owner |-> u, title |-> IF msg.role = "user" THEN "auto" ELSE "none",
     count |-> 1, deleted |-> FALSE]

FirstMeta(msg, u) ==
    [owner |-> u, title |-> IF msg.role = "user" THEN "auto" ELSE "",
     count |-> 1, deleted |-> FALSE]

\* Mutants of TouchedMeta: the count is forgotten; activity revives the thread.
TouchedMetaUncounted(m, u) ==
    [m EXCEPT !.owner = IF u # NoUser /\ @ = NoUser THEN u ELSE @]
TouchedMetaRevives(m, u) ==
    [m EXCEPT !.count = @ + 1, !.deleted = FALSE,
              !.owner = IF u # NoUser /\ @ = NoUser THEN u ELSE @]

TouchedMeta(m, u) ==
    [m EXCEPT !.count = @ + 1,
              !.owner = IF u # NoUser /\ @ = NoUser THEN u ELSE @]

\* Mutant of EditedMeta: an edit counts as a message.
EditedMetaCounts(m, edit) ==
    IF edit = "softDelete" THEN [m EXCEPT !.deleted = TRUE, !.count = @ + 1]
                           ELSE [m EXCEPT !.title = "renamed", !.count = @ + 1]

EditedMeta(m, edit) ==
    IF edit = "softDelete" THEN [m EXCEPT !.deleted = TRUE]
                           ELSE [m EXCEPT !.title = "renamed"]

-----------------------------------------------------------------------------
(* add_message                                                             *)

AddMessage(r, s, role, u) ==
    /\ call[r] = Idle
    /\ clock < MaxMessages
    /\ clock' = clock + 1
    /\ call' = [call EXCEPT ![r] =
            [op |-> "add", sid |-> s, msg |-> [id |-> clock + 1, role |-> role],
             user |-> u, meta |-> NoMeta, pc |-> Entry(r, "upsertMessage")]]
    /\ UNCHANGED <<cosmos, memory, available, failures, faults>>

UpsertMessage(r) ==
    /\ At(r, "add", "upsertMessage")
    /\ msgs' = [msgs EXCEPT ![call[r].sid] = @ \cup {call[r].msg}]
    /\ Goto(r, "readMeta")
    /\ UNCHANGED <<meta, erased, memory, available, failures, clock, faults>>

\* _update_session_meta, first half: read the document and prepare the next
\* version of it in memory.
ReadMeta(r) ==
    /\ At(r, "add", "readMeta")
    /\ LET doc == meta[call[r].sid]
       IN  call' = [call EXCEPT
              ![r].meta = IF doc = NoMeta THEN FirstMeta(call[r].msg, call[r].user)
                                          ELSE TouchedMeta(doc, call[r].user),
              ![r].pc = IF doc = NoMeta THEN "createMeta" ELSE "upsertMeta"]
    /\ UNCHANGED <<cosmos, memory, available, failures, clock, faults>>

\* _update_session_meta, second half: an unconditional upsert of that version
\* (no etag), then the failure counter is reset and the message id returned.
WriteMeta(r) ==
    /\ At(r, "add", "upsertMeta") \/ At(r, "add", "createMeta")
    /\ meta' = [meta EXCEPT ![call[r].sid] = call[r].meta]
    /\ failures' = [failures EXCEPT ![r] = 0]
    /\ Finish(r, "ok")
    /\ UNCHANGED <<msgs, erased, memory, available, clock, faults>>

\* Reading the document, or writing a version of an existing one, raises: the
\* exception is logged and swallowed, so add_message still succeeds.
MetaUpdateRaises(r) ==
    /\ At(r, "add", "readMeta") \/ At(r, "add", "upsertMeta")
    /\ Fault
    /\ meta' \in {meta} \cup (IF call[r].pc = "upsertMeta"
                              THEN {[meta EXCEPT ![call[r].sid] = call[r].meta]}
                              ELSE {})
    /\ failures' = [failures EXCEPT ![r] = 0]
    /\ Finish(r, "ok")
    /\ UNCHANGED <<msgs, erased, memory, available, clock>>

\* Writing the message, or creating the first session_meta document, raises
\* out of the try block: the failure is counted and the fallback used.
AddRaises(r) ==
    /\ At(r, "add", "upsertMessage") \/ At(r, "add", "createMeta")
    /\ Fault
    /\ \/ UNCHANGED <<msgs, meta>>
       \/ /\ call[r].pc = "upsertMessage"
          /\ msgs' = [msgs EXCEPT ![call[r].sid] = @ \cup {call[r].msg}]
          /\ UNCHANGED meta
       \/ /\ call[r].pc = "createMeta"
          /\ meta' = [meta EXCEPT ![call[r].sid] = call[r].meta]
          /\ UNCHANGED msgs
    /\ failures' = [failures EXCEPT ![r] = @ + 1]
    /\ Goto(r, "fallback")
    /\ UNCHANGED <<erased, memory, available, clock>>

\* Mutants of WithMessage: appended to a temporary list that the dictionary does
\* not hold; the session's list replaced.
WithMessageDropped(q, msg) == IF q = <<>> THEN q ELSE Append(q, msg)
WithMessageReplacing(q, msg) == <<msg>>

\* _fallback.setdefault(session_id, []).append(doc)
WithMessage(q, msg) == Append(q, msg)

\* _update_session_meta_fallback is part of the same step.
AddToFallback(r) ==
    /\ At(r, "add", "fallback")
    /\ LET s == call[r].sid
           doc == fallbackMeta[r][s]
       IN  /\ fallback' = [fallback EXCEPT ![r][s] = WithMessage(@, call[r].msg)]
           /\ fallbackMeta' = [fallbackMeta EXCEPT ![r][s] =
                  IF doc = NoMeta THEN FirstMeta(call[r].msg, call[r].user)
                                  ELSE TouchedMeta(doc, call[r].user)]
    /\ Finish(r, "ok")
    /\ UNCHANGED <<cosmos, available, failures, clock, faults>>

-----------------------------------------------------------------------------
(* soft_delete_thread and rename_thread: the same code but for the field   *)
(* they set.                                                               *)

EditThread(r, s, edit) ==
    /\ call[r] = Idle
    /\ call' = [call EXCEPT ![r] =
            [op |-> "edit", sid |-> s, edit |-> edit, meta |-> NoMeta,
             pc |-> Entry(r, "readMeta")]]
    /\ UNCHANGED <<cosmos, memory, available, failures, clock, faults>>

EditReadMeta(r) ==
    /\ At(r, "edit", "readMeta")
    /\ LET doc == meta[call[r].sid]
       IN  IF doc = NoMeta
           THEN Finish(r, "missing")
           ELSE call' = [call EXCEPT ![r].meta = EditedMeta(doc, call[r].edit),
                                     ![r].pc = "upsertMeta"]
    /\ UNCHANGED <<cosmos, memory, available, failures, clock, faults>>

EditWriteMeta(r) ==
    /\ At(r, "edit", "upsertMeta")
    /\ meta' = [meta EXCEPT ![call[r].sid] = call[r].meta]
    /\ Finish(r, "ok")
    /\ UNCHANGED <<msgs, erased, memory, available, failures, clock, faults>>

\* A failed edit does not count for the breaker.
EditRaises(r) ==
    /\ At(r, "edit", "readMeta") \/ At(r, "edit", "upsertMeta")
    /\ Fault
    /\ meta' \in {meta} \cup (IF call[r].pc = "upsertMeta"
                              THEN {[meta EXCEPT ![call[r].sid] = call[r].meta]}
                              ELSE {})
    /\ Goto(r, "fallback")
    /\ UNCHANGED <<msgs, erased, memory, available, failures, clock>>

EditFallback(r) ==
    /\ At(r, "edit", "fallback")
    /\ LET s == call[r].sid
           doc == fallbackMeta[r][s]
       IN  IF doc = NoMeta
           THEN Finish(r, "missing") /\ UNCHANGED fallbackMeta
           ELSE /\ fallbackMeta' = [fallbackMeta EXCEPT ![r][s] =
                                       EditedMeta(doc, call[r].edit)]
                /\ Finish(r, "ok")
    /\ UNCHANGED <<cosmos, fallback, available, failures, clock, faults>>

-----------------------------------------------------------------------------
(* delete_session: a query for the ids of the partition, then one request  *)
(* per document.                                                           *)

DeleteSession(r, s) ==
    /\ call[r] = Idle
    /\ call' = [call EXCEPT ![r] =
            [op |-> "delete", sid |-> s, ids |-> {}, pc |-> Entry(r, "query")]]
    /\ UNCHANGED <<cosmos, memory, available, failures, clock, faults>>

\* Mutant of DocumentIds: the query selects the message documents only.
DocumentIdsOfMessages(s) == {m.id : m \in msgs[s]}

DocumentIds(s) ==
    {m.id : m \in msgs[s]} \cup (IF meta[s] = NoMeta THEN {} ELSE {MetaId})

QueryIds(r) ==
    /\ At(r, "delete", "query")
    /\ call' = [call EXCEPT ![r].ids = DocumentIds(call[r].sid),
                            ![r].pc = "deleteItems"]
    /\ UNCHANGED <<cosmos, memory, available, failures, clock, faults>>

\* The effect on Cosmos of deleting document i of session s.
RemoveDocument(s, i) ==
    /\ msgs' = [msgs EXCEPT ![s] = {m \in @ : m.id # i}]
    /\ erased' = [erased EXCEPT ![s] = @ \cup {m \in msgs[s] : m.id = i}]
    /\ meta' = IF i = MetaId THEN [meta EXCEPT ![s] = NoMeta] ELSE meta

DeleteItem(r) ==
    /\ At(r, "delete", "deleteItems")
    /\ \E i \in call[r].ids \cap DocumentIds(call[r].sid) :
          /\ RemoveDocument(call[r].sid, i)
          /\ call' = [call EXCEPT ![r].ids = @ \ {i}]
    /\ UNCHANGED <<memory, available, failures, clock, faults>>

\* The loop is over: True is returned and the fallback is not looked at.
DeleteReturns(r) ==
    /\ At(r, "delete", "deleteItems")
    /\ call[r].ids = {}
    /\ Finish(r, "ok")
    /\ UNCHANGED <<cosmos, memory, available, failures, clock, faults>>

\* The except of delete_session: what the call does next.  Mutant: it tries the items
\* again, and takes the 404 of an item that is gone for one more error.
Retries(r) == IF call[r].pc = "deleteItems" THEN UNCHANGED call ELSE Goto(r, "fallback")
FallsBack(r) == Goto(r, "fallback")

\* A document another replica deleted since the query: not found is an
\* exception like the others and ends the loop.
DeleteNotFound(r) ==
    /\ At(r, "delete", "deleteItems")
    /\ call[r].ids \ DocumentIds(call[r].sid) # {}
    /\ FallsBack(r)
    /\ UNCHANGED <<cosmos, memory, available, failures, clock, faults>>

DeleteRaises(r) ==
    /\ At(r, "delete", "query") \/ At(r, "delete", "deleteItems")
    /\ Fault
    /\ \/ UNCHANGED cosmos
       \/ \E i \in call[r].ids \cap DocumentIds(call[r].sid) :
              RemoveDocument(call[r].sid, i)
    /\ FallsBack(r)
    /\ UNCHANGED <<memory, available, failures, clock>>

DeleteFromFallback(r) ==
    /\ At(r, "delete", "fallback")
    /\ fallback' = [fallback EXCEPT ![r][call[r].sid] = <<>>]
    /\ fallbackMeta' = [fallbackMeta EXCEPT ![r][call[r].sid] = NoMeta]
    /\ Finish(r, "ok")
    /\ UNCHANGED <<cosmos, available, failures, clock, faults>>

-----------------------------------------------------------------------------
(* The caller takes the result; the process restarts.                      *)

Return(r) ==
    /\ call[r].op = "returned"
    /\ call' = [call EXCEPT ![r] = Idle]
    /\ UNCHANGED <<cosmos, memory, available, failures, clock, faults>>

\* __init__ in a new process: the in-memory state is gone, the breaker closed,
\* and Cosmos is available or not for the whole life of the process.
Restart(r) ==
    /\ Fault
    /\ fallback' = [fallback EXCEPT ![r] = [s \in Sessions |-> <<>>]]
    /\ fallbackMeta' = [fallbackMeta EXCEPT ![r] = [s \in Sessions |-> NoMeta]]
    /\ \E up \in BOOLEAN : available' = [available EXCEPT ![r] = up]
    /\ failures' = [failures EXCEPT ![r] = 0]
    /\ call' = [call EXCEPT ![r] = Idle]
    /\ UNCHANGED <<cosmos, clock>>

\* The steps of a call in progress.
StoreStep(r) ==
    \/ UpsertMessage(r) \/ ReadMeta(r) \/ WriteMeta(r) \/ MetaUpdateRaises(r)
    \/ AddRaises(r) \/ AddToFallback(r)
    \/ EditReadMeta(r) \/ EditWriteMeta(r) \/ EditRaises(r) \/ EditFallback(r)
    \/ QueryIds(r) \/ DeleteItem(r) \/ DeleteReturns(r)
    \/ DeleteNotFound(r) \/ DeleteRaises(r) \/ DeleteFromFallback(r)


\* A request a handler makes of the store: chat and graph_responses add the
\* user's message with the caller's id, _record_response the assistant's
\* without one, the thread handlers edit, delete_session deletes.
StoreCall(r) ==
    \E s \in Sessions :
        \/ \E u \in Users \cup {NoUser} : AddMessage(r, s, "user", u)
        \/ AddMessage(r, s, "assistant", NoUser)
        \/ \E edit \in Edits : EditThread(r, s, edit)
        \/ DeleteSession(r, s)

Next == \E r \in Replicas : StoreCall(r) \/ StoreStep(r) \/ Return(r) \/ Restart(r)

Spec == Init /\ [][Next]_vars

-----------------------------------------------------------------------------
(* What the read methods return.                                           *)

\* The n messages of a set that were added last, and first.
Newest(S, n) == {m \in S : Cardinality({k \in S : k.id >= m.id}) <= n}
\* Mutant of Oldest: one short of the limit.
OldestButOne(S, n) == {m \in S : Cardinality({k \in S : k.id <= m.id}) < n}
Oldest(S, n) == {m \in S : Cardinality({k \in S : k.id <= m.id}) <= n}

Held(r, s) == {fallback[r][s][i] : i \in DOMAIN fallback[r][s]}

\* get_history and get_thread_messages; answered says that the Cosmos query,
\* if one is made, does not raise.
History(r, s, limit, answered) ==
    IF CosmosUp(r) /\ answered THEN Oldest(msgs[s], limit)
                               ELSE Newest(Held(r, s), limit)

\* get_thread_meta
ThreadMeta(r, s, answered) ==
    IF CosmosUp(r) /\ answered THEN meta[s] ELSE fallbackMeta[r][s]

\* list_threads, but for its limit and its order.
ListThreads(r, u, answered) ==
    {s \in Sessions : LET doc == ThreadMeta(r, s, answered)
                      IN  doc # NoMeta /\ doc.owner = u /\ ~doc.deleted}

-----------------------------------------------------------------------------
(* Properties.                                                             *)

TypeOK ==
    /\ msgs \in [Sessions -> SUBSET Message]
    /\ meta \in [Sessions -> MetaDoc \cup {NoMeta}]
    /\ fallback \in [Replicas -> [Sessions -> Seq(Message)]]
    /\ fallbackMeta \in [Replicas -> [Sessions -> MetaDoc \cup {NoMeta}]]
    /\ available \in [Replicas -> BOOLEAN]
    /\ failures \in [Replicas -> 0..Threshold]
    /\ call \in [Replicas -> {Idle} \cup Returned \cup AddCall \cup EditCall \cup DeleteCall]
    /\ clock \in Nat
    /\ faults \in Nat
    /\ erased \in [Sessions -> SUBSET Message]

\* "Avoids 10s+ timeouts on every request": a replica whose breaker is open,
\* or that started without Cosmos, is never in the middle of a Cosmos request,
\* in whatever call the third failure was counted.
OpenBreakerTouchesNoCosmos ==
    \A r \in Replicas : ~CosmosUp(r) => call[r].pc \notin CosmosPcs

\* "stop trying until the next process restart": an open breaker closes in no
\* other way, whatever reads and edits succeed in the meantime.
BreakerOpensUntilRestart ==
    [][\A r \in Replicas :
         failures[r] = Threshold => failures'[r] = Threshold \/ Restart(r)]_vars

\* The messages of a session that are held anywhere.
Log(s) == msgs[s] \cup UNION {Held(r, s) : r \in Replicas}

\* add_message hands out a message id only when the message is in Cosmos or in
\* this process's memory, whichever of its two writes raised and whether or
\* not the write took effect; only a hard delete racing on another replica may
\* have removed it in between.
AcknowledgedMessageIsRetained ==
    [][\A r \in Replicas, s \in Sessions :
         (call[r].op = "add" /\ call[r].sid = s /\ call'[r].op = "returned")
            => call[r].msg \in Log(s)' \cup erased'[s]]_vars

\* A message disappears only in a step of a delete_session call for its own
\* session, or with the memory of a process that restarts.
MessagesLeaveOnlyByDeletion ==
    [][\A s \in Sessions :
         ~(Log(s) \subseteq Log(s)')
            => \E r \in Replicas :
                 Restart(r) \/ (call[r].op = "delete" /\ call[r].sid = s)]_vars

\* The message_count a thread list shows never exceeds the messages that were
\* written to Cosmos for the thread, however the read-modify-write cycles of
\* the replicas interleave (lost updates only make it too small).
CountNeverOverreports ==
    \A s \in Sessions :
        meta[s] # NoMeta => meta[s].count <= Cardinality(msgs[s] \cup erased[s])

\* What one version of a session_meta document may become: a deleted thread is
\* not undeleted, a title is only replaced by a rename, an owner stays.
Settled(before, after) ==
    \/ before = NoMeta \/ after = NoMeta
    \/ /\ before.deleted => after.deleted
       /\ before.title # "" => after.title \in {before.title, "renamed"}
       /\ before.owner # NoUser => after.owner = before.owner

\* With one replica no message, edit or failed request undoes an earlier edit
\* of the thread or its owner, in Cosmos or in the fallback.
SettledMetaSticks ==
    [][\A s \in Sessions :
         /\ Settled(meta[s], meta'[s])
         /\ \A r \in Replicas : Settled(fallbackMeta[r][s], fallbackMeta'[r][s])]_vars

\* "Soft-deleted threads should not appear in list_threads results": once
\* soft-deleted, a thread stays out of the list, whichever replica stores the
\* next message.
DeletedThreadStaysDeleted ==
    [][\A s \in Sessions :
         (meta[s] # NoMeta /\ meta[s].deleted)
            => meta'[s] = NoMeta \/ meta'[s].deleted]_vars

\* With one replica, and as long as no request raised, message_count is the
\* number of messages of the thread whenever no call is in progress.
CountExactWhenHealthy ==
    (faults = 0 /\ \A r \in Replicas : call[r].op \in {"idle", "returned"})
        => \A s \in Sessions :
             Cardinality(msgs[s]) = IF meta[s] = NoMeta THEN 0 ELSE meta[s].count

=============================================================================
