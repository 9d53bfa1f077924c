----------------------------- MODULE ChatService -----------------------------
(***************************************************************************)
(* talent_backend/api.py: the chat, thread and session handlers on top of  *)
(* the store of ChatStore.                                                 *)
(*                                                                         *)
(* Each replica is one event loop.  A handler runs without giving it up    *)
(* until it awaits; the store's methods never await, so from the start of  *)
(* a handler to its first await (or its return) no other handler of the    *)
(* replica runs, while the other replicas do.  job[r] is the handler that  *)
(* holds the loop of r because a store method it called has not returned.  *)
(*                                                                         *)
(* A turn is one POST to /api/chat or /af/graph/responses: store the       *)
(* prompt, read the context, stream the agent's events (awaiting each),    *)
(* store the answer.  Abstractions: the agent is a source of text that     *)
(* ends, or raises, at any point; both endpoints store the same messages   *)
(* in the same order, so they are one action.  A read that raises changes  *)
(* nothing in the store, so it is counted here and not by faults: a step   *)
(* of the service is a step of the store, or leaves the store alone.       *)
(***************************************************************************)
EXTENDS ChatStore

CONSTANTS
    Turns,          \* turn ids
    HistoryLimit    \* the limit _build_chat_history reads with (20)

ASSUME HistoryLimitAssumption == HistoryLimit \in Nat \ {0}

VARIABLES
    turn,           \* the coroutine of each turn
    job,            \* the handler holding each replica's event loop
    readFaults      \* reads of a handler that raised so far

serviceVars == <<turn, job, readFaults>>
allVars == <<vars, turn, job, readFaults>>

NewTurn == [state |-> "new"]
PromptingTurn == [state : {"prompting"}, r : Replicas, s : Sessions, prompt : Message,
                  static : BOOLEAN]
StreamingTurn == [state : {"streaming"}, r : Replicas, s : Sessions, prompt : Message,
                  ctx : SUBSET Message, text : BOOLEAN]
AnsweringTurn == [state : {"answering"}, r : Replicas, s : Sessions, answer : Message]
EndedTurn == [state : {"done", "cancelled", "crashed"}]

NoJob == [kind |-> "none"]
TurnJob == [kind : {"prompt", "answer"}, t : Turns]
SessionJob == [kind : {"deleteThread", "renameThread", "deleteSession"}, s : Sessions]

ServiceTypeOK ==
    /\ TypeOK
    /\ turn \in [Turns -> {NewTurn} \cup PromptingTurn \cup StreamingTurn
                            \cup AnsweringTurn \cup EndedTurn]
    /\ job \in [Replicas -> {NoJob} \cup TurnJob \cup SessionJob]
    /\ readFaults \in Nat

ServiceInit ==
    /\ Init
    /\ turn = [t \in Turns |-> NewTurn]
    /\ job = [r \in Replicas |-> NoJob]
    /\ readFaults = 0

Free(r) == job[r] = NoJob
Hold(r, handler) == job' = [job EXCEPT ![r] = handler]
\* The store method job[r] is waiting for has returned with one of results.
Back(r, kind, results) ==
    job[r].kind = kind /\ call[r].op = "returned" /\ call[r].pc \in results
\* The handler takes the result and gives the event loop up.
Release(r) ==
    /\ Return(r)
    /\ job' = [job EXCEPT ![r] = NoJob]
    /\ UNCHANGED readFaults

\* A read the store makes for a handler: it is answered, or raises and is
\* served from the fallback.
ReadOutcome(r, answered) ==
    IF answered THEN UNCHANGED readFaults
    ELSE /\ CosmosUp(r) /\ faults + readFaults < MaxFaults
         /\ readFaults' = readFaults + 1

-----------------------------------------------------------------------------
(* A turn.                                                                 *)

\* chat and graph_responses up to _build_chat_history's add_message.  A turn
\* is static when _missing_rfp_context holds: a fixed text stands in for the
\* agent's answer.
BeginTurn(r, t, s, u, static) ==
    /\ Free(r)
    /\ turn[t] = NewTurn
    /\ AddMessage(r, s, "user", u)
    /\ Hold(r, [kind |-> "prompt", t |-> t])
    /\ turn' = [turn EXCEPT ![t] = [state |-> "prompting", r |-> r, s |-> s,
                    prompt |-> [id |-> clock + 1, role |-> "user"], static |-> static]]
    /\ UNCHANGED readFaults

\* _build_chat_history's get_history: what the agent is given.  The handler
\* returns its StreamingResponse and the stream starts.
ReadContext(r, answered) ==
    /\ Back(r, "prompt", {"ok"})
    /\ ReadOutcome(r, answered)
    /\ LET t == job[r].t
           c == turn[t]
       IN  turn' = [turn EXCEPT ![t] = [state |-> "streaming", r |-> r, s |-> c.s,
                        prompt |-> c.prompt, text |-> c.static,
                        ctx |-> History(r, c.s, HistoryLimit, answered)]]
    /\ Return(r)
    /\ job' = [job EXCEPT ![r] = NoJob]

\* An event with text: an AgentResponseUpdate adds to full_text, a message of
\* an AgentResponse replaces it.
AgentText(t) ==
    /\ turn[t].state = "streaming"
    /\ Free(turn[t].r)
    /\ turn' = [turn EXCEPT ![t].text = TRUE]
    /\ UNCHANGED <<vars, job, readFaults>>

\* The stream ended, or raised and the exception was turned into an error
\* event: in both cases the text there is, if any, is stored as the answer.
AgentEnds(t) ==
    /\ turn[t].state = "streaming"
    /\ Free(turn[t].r)
    /\ LET c == turn[t]
       IN  IF c.text
           THEN /\ AddMessage(c.r, c.s, "assistant", NoUser)
                /\ Hold(c.r, [kind |-> "answer", t |-> t])
                /\ turn' = [turn EXCEPT ![t] = [state |-> "answering", r |-> c.r,
                        s |-> c.s, answer |-> [id |-> clock + 1, role |-> "assistant"]]]
           ELSE /\ turn' = [turn EXCEPT ![t] = [state |-> "done"]]
                /\ UNCHANGED <<vars, job>>
    /\ UNCHANGED readFaults

AnswerStored(r) ==
    /\ Back(r, "answer", {"ok"})
    /\ turn' = [turn EXCEPT ![job[r].t] = [state |-> "done"]]
    /\ Release(r)

\* The client goes away while the generator waits at an await or a yield: it
\* is cancelled there, and the code after the loop never runs.
Disconnect(t) ==
    /\ turn[t].state = "streaming"
    /\ Free(turn[t].r)
    /\ turn' = [turn EXCEPT ![t] = [state |-> "cancelled"]]
    /\ UNCHANGED <<vars, job, readFaults>>

-----------------------------------------------------------------------------
(* The thread and session handlers.                                        *)

\* _owns_thread
OwnsThread(r, s, u, answered) ==
    LET doc == ThreadMeta(r, s, answered)
    IN  doc # NoMeta /\ ~doc.deleted /\ doc.owner \in {NoUser, u}

\* delete_thread and rename_thread up to their store call; without the
\* ownership test they answer 404 and change nothing.
BeginEdit(r, s, u, edit, answered) ==
    /\ Free(r)
    /\ ReadOutcome(r, answered)
    /\ OwnsThread(r, s, u, answered)
    /\ EditThread(r, s, edit)
    /\ Hold(r, [kind |-> IF edit = "rename" THEN "renameThread" ELSE "deleteThread",
                s |-> s])
    /\ UNCHANGED turn

BeginDeleteSession(r, s) ==
    /\ Free(r)
    /\ DeleteSession(r, s)
    /\ Hold(r, [kind |-> "deleteSession", s |-> s])
    /\ UNCHANGED <<turn, readFaults>>

\* delete_thread answers "deleted" whatever soft_delete_thread returned;
\* rename_thread answers the new title only if rename_thread returned True.
RepliesDeleted(r) == Back(r, "deleteThread", {"ok", "missing"})
RepliesRenamed(r) == Back(r, "renameThread", {"ok"})
RepliesNotFound(r) == Back(r, "renameThread", {"missing"})
RepliesErased(r) == Back(r, "deleteSession", {"ok"})

Reply(r) ==
    /\ RepliesDeleted(r) \/ RepliesRenamed(r) \/ RepliesNotFound(r) \/ RepliesErased(r)
    /\ Release(r)
    /\ UNCHANGED turn

-----------------------------------------------------------------------------

\* The process dies: its coroutines and its handler with it.
Crash(r) ==
    /\ Restart(r)
    /\ job' = [job EXCEPT ![r] = NoJob]
    /\ turn' = [t \in Turns |->
          IF turn[t].state \in {"prompting", "streaming", "answering"} /\ turn[t].r = r
          THEN [state |-> "crashed"] ELSE turn[t]]
    /\ UNCHANGED readFaults

StoreWork(r) == StoreStep(r) /\ UNCHANGED serviceVars

Request(r) ==
    \E s \in Sessions, u \in Users :
        \/ \E t \in Turns, static \in BOOLEAN : BeginTurn(r, t, s, u, static)
        \/ \E edit \in Edits, answered \in BOOLEAN : BeginEdit(r, s, u, edit, answered)
        \/ BeginDeleteSession(r, s)

\* What the holder of the event loop does next.
HandlerStep(r) ==
    \/ StoreWork(r)
    \/ \E answered \in BOOLEAN : ReadContext(r, answered)
    \/ AnswerStored(r)
    \/ Reply(r)

ServiceNext ==
    \/ \E r \in Replicas : Request(r) \/ HandlerStep(r) \/ Crash(r)
    \/ \E t \in Turns : AgentText(t) \/ AgentEnds(t) \/ Disconnect(t)

\* A Cosmos request returns or raises and the event loop goes on: a handler
\* that holds the loop keeps running.  Nothing is assumed of the clients or of
\* the agent, which has no timeout.
ServiceSpec ==
    /\ ServiceInit /\ [][ServiceNext]_allVars
    /\ \A r \in Replicas : WF_allVars(HandlerStep(r))

-----------------------------------------------------------------------------
(* Properties.                                                             *)

\* The agent is given the prompt it has to answer.  The prompt is missing from
\* the context only if Cosmos was asked and one of these holds: storing the
\* prompt had raised (it is in the fallback), the read raised, the session was
\* hard-deleted meanwhile, or it holds more messages than the limit.
PromptReachesAgentUnless ==
    [][\A r \in Replicas, t \in Turns :
         (job[r] = [kind |-> "prompt", t |-> t] /\ turn'[t].state = "streaming")
            => LET c == turn'[t]
               IN  \/ c.prompt \in c.ctx
                  \/ /\ CosmosUp(r)
                     /\ \/ c.prompt \in Held(r, c.s) \cup erased[c.s]
                        \/ readFaults' # readFaults
                        \/ Cardinality(msgs[c.s]) > HistoryLimit]_allVars

\* chat-history.md: "OFFSET 0 LIMIT @limit - returns most recent N messages".
ContextIsMostRecent ==
    [][\A r \in Replicas, t \in Turns :
         (job[r] = [kind |-> "prompt", t |-> t] /\ turn'[t].state = "streaming"
            /\ faults' + readFaults' = 0)
            => turn'[t].ctx = Newest(Log(turn[t].s), HistoryLimit)]_allVars

\* The thread is on nobody's list, as the replica would answer now.
Hidden(r, s) == \A u \in Users \cup {NoUser} : s \notin ListThreads(r, u, TRUE)

\* DELETE /api/threads answers {"status": "deleted"}: the thread is deleted.
DeletedReplyHidesThread ==
    [][\A r \in Replicas, s \in Sessions :
         (RepliesDeleted(r) /\ job[r].s = s /\ Reply(r)) => Hidden(r, s)]_allVars

\* With one replica and no write that raised, the answers of the delete
\* endpoints are true: a thread answered "deleted" is no longer listed, and
\* after a hard delete nothing of the session is left in either store.
RepliesTrueWhenHealthy ==
    [][\A r \in Replicas, s \in Sessions :
         (Reply(r) /\ faults = 0 /\ job[r].s = s)
            => /\ RepliesDeleted(r) => Hidden(r, s)
               /\ RepliesErased(r) => Log(s) = {} /\ meta[s] = NoMeta]_allVars

\* Every handler that takes the event loop gives it up again, whatever Cosmos
\* answers: the loop of a replica is never held for good.
EventLoopFrees ==
    \A r \in Replicas : job[r] # NoJob ~> job[r] = NoJob

=============================================================================
