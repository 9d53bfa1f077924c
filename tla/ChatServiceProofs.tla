--------------------------- MODULE ChatServiceProofs ---------------------------
(***************************************************************************)
(* Theorems about ChatService, for every number of replicas, sessions,     *)
(* turns, messages and faults unless a theorem says otherwise: the service *)
(* implements the store, so what ChatStoreProofs shows holds of it; no     *)
(* turn or handler is mixed up with another; the prompt reaches the agent  *)
(* but for the named reasons; the answers of the delete endpoints are true *)
(* in a healthy single process.                                            *)
(***************************************************************************)
EXTENDS ChatService, ChatStoreProofs

USE DEF Roles, Edits, Idle, cosmos, memory

-----------------------------------------------------------------------------
(* Turns, jobs and the coroutines they belong to.                          *)

TurnValues == {NewTurn} \cup PromptingTurn \cup StreamingTurn \cup AnsweringTurn
                 \cup EndedTurn
JobValues == {NoJob} \cup TurnJob \cup SessionJob
Storing == {"prompt", "answer"}

TurnsTyped ==
    /\ turn \in [Turns -> TurnValues]
    /\ job \in [Replicas -> JobValues]
    /\ readFaults \in Nat

\* A handler that stores a message for a turn is the turn's coroutine, which
\* waits for it: no second handler works for the turn, on any replica.
JobsHoldTurns ==
    \A r \in Replicas :
        /\ job[r].kind = "prompt" => /\ turn[job[r].t] \in PromptingTurn
                                     /\ turn[job[r].t].r = r
        /\ job[r].kind = "answer" => /\ turn[job[r].t] \in AnsweringTurn
                                     /\ turn[job[r].t].r = r

TurnsInv == TurnsTyped /\ JobsHoldTurns

LEMMA TurnKind ==
    ASSUME NEW c \in TurnValues
    PROVE  /\ c.state = "new" => c = NewTurn
           /\ c.state = "prompting" => c \in PromptingTurn
           /\ c.state = "streaming" => c \in StreamingTurn
           /\ c.state = "answering" => c \in AnsweringTurn
BY DEF TurnValues, NewTurn, PromptingTurn, StreamingTurn, AnsweringTurn, EndedTurn

LEMMA JobKind ==
    ASSUME NEW j \in JobValues
    PROVE  /\ j.kind \in Storing => j \in TurnJob /\ j.t \in Turns
           /\ j.kind \in {"deleteThread", "renameThread", "deleteSession"}
                => j \in SessionJob /\ j.s \in Sessions
           /\ j.kind = "none" => j = NoJob
           /\ j.kind \in {"none", "prompt", "answer", "deleteThread",
                          "renameThread", "deleteSession"}
BY DEF JobValues, TurnJob, SessionJob, NoJob, Storing

\* Who works for a turn: its own replica, while the turn waits for the store.
LEMMA HolderIsOwner ==
    ASSUME TurnsInv, NEW q \in Replicas, job[q].kind \in Storing
    PROVE  /\ job[q].t \in Turns
           /\ turn[job[q].t].state \in {"prompting", "answering"}
           /\ turn[job[q].t].r = q
<1>1. job[q].t \in Turns  BY JobKind DEF TurnsInv, TurnsTyped
<1>2. QED
  BY <1>1 DEF TurnsInv, JobsHoldTurns, Storing, PromptingTurn, AnsweringTurn

\* A step of replica r that moves turn t, which nobody else works for.
LEMMA MoveTurn ==
    ASSUME TurnsInv, NEW r \in Replicas, NEW t \in Turns, NEW j \in JobValues,
           NEW c \in TurnValues, job' = [job EXCEPT ![r] = j],
           turn' = [turn EXCEPT ![t] = c], readFaults' \in Nat,
           turn[t].state \in {"prompting", "answering"} => turn[t].r = r,
           j.kind = "prompt" => j.t = t /\ c \in PromptingTurn /\ c.r = r,
           j.kind = "answer" => j.t = t /\ c \in AnsweringTurn /\ c.r = r
    PROVE  TurnsInv'
<1>1. TurnsTyped'  BY DEF TurnsInv, TurnsTyped
<1>2. JobsHoldTurns'
  <2> SUFFICES ASSUME NEW q \in Replicas
               PROVE  /\ job'[q].kind = "prompt"
                           => /\ turn'[job'[q].t] \in PromptingTurn
                              /\ turn'[job'[q].t].r = q
                      /\ job'[q].kind = "answer"
                           => /\ turn'[job'[q].t] \in AnsweringTurn
                              /\ turn'[job'[q].t].r = q
    BY DEF JobsHoldTurns
  <2>1. CASE q = r
    BY <2>1 DEF TurnsInv, TurnsTyped
  <2>2. CASE q # r /\ job[q].kind \in Storing
    <3>1. job'[q] = job[q] /\ job[q].t # t
      BY <2>2, HolderIsOwner DEF TurnsInv, TurnsTyped
    <3>2. turn'[job[q].t] = turn[job[q].t]
      BY <2>2, <3>1, HolderIsOwner DEF TurnsInv, TurnsTyped
    <3>3. QED  BY <3>1, <3>2 DEF TurnsInv, JobsHoldTurns
  <2>3. CASE q # r /\ job[q].kind \notin Storing
    BY <2>3 DEF TurnsInv, TurnsTyped, Storing
  <2>4. QED  BY <2>1, <2>2, <2>3
<1>3. QED  BY <1>1, <1>2 DEF TurnsInv

\* A step of a thread or session handler, which moves no turn.
LEMMA KeepTurns ==
    ASSUME TurnsInv, NEW r \in Replicas, NEW j \in JobValues, j.kind \notin Storing,
           job' = [job EXCEPT ![r] = j], UNCHANGED turn, readFaults' \in Nat
    PROVE  TurnsInv'
BY DEF TurnsInv, TurnsTyped, JobsHoldTurns, Storing

LEMMA ReadOutcomeType ==
    ASSUME TurnsInv, NEW r, NEW answered, ReadOutcome(r, answered)
    PROVE  readFaults' \in Nat
BY DEF ReadOutcome, TurnsInv, TurnsTyped

\* The store holds messages and hands a handler messages.
LEMMA HeldType ==
    ASSUME TypeOK, NEW r \in Replicas, NEW s \in Sessions
    PROVE  Held(r, s) \subseteq Message
<1>1. fallback[r][s] \in Seq(Message)  BY DEF TypeOK
<1>2. QED  BY <1>1 DEF Held

LEMMA HistoryType ==
    ASSUME TypeOK, NEW r \in Replicas, NEW s \in Sessions, NEW n, NEW answered
    PROVE  History(r, s, n, answered) \subseteq Message
<1>1. Held(r, s) \subseteq Message  BY HeldType
<1>2. msgs[s] \subseteq Message  BY DEF TypeOK
<1>3. QED  BY <1>1, <1>2 DEF History, Oldest, Newest

LEMMA NoJobValue == NoJob \in JobValues /\ NoJob.kind \notin Storing
BY DEF JobValues, NoJob, Storing

LEMMA RequestTurns ==
    ASSUME TypeOK, TurnsInv, NEW r \in Replicas, Request(r)
    PROVE  TurnsInv'
<1>1. ASSUME NEW s \in Sessions, NEW u \in Users, NEW t \in Turns,
             NEW static \in BOOLEAN, BeginTurn(r, t, s, u, static)
      PROVE  TurnsInv'
  <2> DEFINE p == [id |-> clock + 1, role |-> "user"]
             c == [state |-> "prompting", r |-> r, s |-> s, prompt |-> p,
                   static |-> static]
             j == [kind |-> "prompt", t |-> t]
  <2>1. /\ turn[t] = NewTurn /\ UNCHANGED readFaults
        /\ job' = [job EXCEPT ![r] = j] /\ turn' = [turn EXCEPT ![t] = c]
    BY <1>1 DEF BeginTurn, Hold
  <2>2. p \in Message  BY DEF TypeOK, Message
  <2>3. c \in PromptingTurn  BY <2>2 DEF PromptingTurn
  <2>4. c \in TurnValues  BY <2>3 DEF TurnValues
  <2>5. j \in JobValues  BY DEF JobValues, TurnJob
  <2>6. c.r = r /\ j.t = t /\ j.kind = "prompt"  OBVIOUS
  <2>7. turn[t].state = "new"  BY <2>1 DEF NewTurn
  <2>8. readFaults' \in Nat  BY <2>1 DEF TurnsInv, TurnsTyped
  <2> HIDE DEF c, j
  <2>9. QED  BY <2>1, <2>3, <2>4, <2>5, <2>6, <2>7, <2>8, MoveTurn
<1>2. ASSUME NEW s \in Sessions, NEW u, NEW edit, NEW answered,
             BeginEdit(r, s, u, edit, answered)
      PROVE  TurnsInv'
  <2> DEFINE j == [kind |-> IF edit = "rename" THEN "renameThread" ELSE "deleteThread",
                   s |-> s]
  <2>1. job' = [job EXCEPT ![r] = j] /\ UNCHANGED turn /\ readFaults' \in Nat
    BY <1>2, ReadOutcomeType DEF BeginEdit, Hold
  <2>2. j \in JobValues /\ j.kind \notin Storing  BY DEF JobValues, SessionJob, Storing
  <2> HIDE DEF j
  <2>3. QED  BY <2>1, <2>2, KeepTurns
<1>3. ASSUME NEW s \in Sessions, BeginDeleteSession(r, s)
      PROVE  TurnsInv'
  <2> DEFINE j == [kind |-> "deleteSession", s |-> s]
  <2>1. job' = [job EXCEPT ![r] = j] /\ UNCHANGED turn /\ readFaults' \in Nat
    BY <1>3 DEF BeginDeleteSession, Hold, TurnsInv, TurnsTyped
  <2>2. j \in JobValues /\ j.kind \notin Storing  BY DEF JobValues, SessionJob, Storing
  <2> HIDE DEF j
  <2>3. QED  BY <2>1, <2>2, KeepTurns
<1>4. QED  BY <1>1, <1>2, <1>3 DEF Request

LEMMA ReadContextTurns ==
    ASSUME TypeOK, TurnsInv, NEW r \in Replicas, NEW answered,
           ReadContext(r, answered)
    PROVE  TurnsInv'
<1> DEFINE t == job[r].t
           h == History(r, turn[t].s, HistoryLimit, answered)
           c == [state |-> "streaming", r |-> r, s |-> turn[t].s,
                 prompt |-> turn[t].prompt, text |-> turn[t].static, ctx |-> h]
<1>1. /\ job[r].kind = "prompt" /\ turn' = [turn EXCEPT ![t] = c]
      /\ job' = [job EXCEPT ![r] = NoJob] /\ readFaults' \in Nat
  BY ReadOutcomeType DEF ReadContext, Back
<1>2. t \in Turns /\ turn[t].r = r  BY <1>1, HolderIsOwner DEF Storing
<1>3. /\ turn[t].s \in Sessions /\ turn[t].prompt \in Message
      /\ turn[t].static \in BOOLEAN
  BY <1>1 DEF TurnsInv, JobsHoldTurns, PromptingTurn
<1>4. h \subseteq Message  BY <1>3, HistoryType
<1> HIDE DEF h
<1>5. c \in StreamingTurn  BY <1>3, <1>4 DEF StreamingTurn
<1>6. c \in TurnValues  BY <1>5 DEF TurnValues
<1> HIDE DEF c
<1>7. QED  BY <1>1, <1>2, <1>6, NoJobValue, MoveTurn DEF NoJob

LEMMA AnswerStoredTurns ==
    ASSUME TurnsInv, NEW r \in Replicas, AnswerStored(r)
    PROVE  TurnsInv'
<1> DEFINE c == [state |-> "done"]
<1>1. /\ job[r].kind = "answer" /\ turn' = [turn EXCEPT ![job[r].t] = c]
      /\ job' = [job EXCEPT ![r] = NoJob] /\ UNCHANGED readFaults
  BY DEF AnswerStored, Back, Release
<1>2. job[r].t \in Turns /\ turn[job[r].t].r = r
  BY <1>1, HolderIsOwner DEF Storing
<1>3. c \in TurnValues  BY DEF TurnValues, EndedTurn
<1>4. readFaults' \in Nat  BY <1>1 DEF TurnsInv, TurnsTyped
<1> HIDE DEF c
<1>5. QED  BY <1>1, <1>2, <1>3, <1>4, NoJobValue, MoveTurn DEF NoJob

\* What a streaming turn is: whose, and with which field types.
LEMMA StreamingTyped ==
    ASSUME TurnsInv, NEW t \in Turns, turn[t].state = "streaming"
    PROVE  /\ turn[t] \in StreamingTurn
           /\ turn[t].r \in Replicas /\ turn[t].s \in Sessions
<1>1. turn[t] \in StreamingTurn  BY TurnKind DEF TurnsInv, TurnsTyped
<1>2. QED  BY <1>1 DEF StreamingTurn

LEMMA AgentTurns ==
    ASSUME TypeOK, TurnsInv, NEW t \in Turns,
           AgentText(t) \/ AgentEnds(t) \/ Disconnect(t)
    PROVE  TurnsInv'
<1> DEFINE r == turn[t].r
<1>0. turn[t].state = "streaming" /\ job[r] = NoJob
  BY DEF AgentText, AgentEnds, Disconnect, Free
<1>1. turn[t] \in StreamingTurn /\ r \in Replicas /\ turn[t].s \in Sessions
  BY <1>0, StreamingTyped
<1>2. UNCHANGED readFaults /\ readFaults' \in Nat
  BY DEF AgentText, AgentEnds, Disconnect, TurnsInv, TurnsTyped
<1>3. CASE UNCHANGED job /\ \E c \in TurnValues : turn' = [turn EXCEPT ![t] = c]
  <2>1. job' = [job EXCEPT ![r] = NoJob]
    BY <1>0, <1>1, <1>3 DEF TurnsInv, TurnsTyped
  <2>2. PICK c \in TurnValues : turn' = [turn EXCEPT ![t] = c]  BY <1>3
  <2>3. NoJob.kind \notin Storing /\ NoJob \in JobValues  BY NoJobValue
  <2>4. NoJob.kind # "prompt" /\ NoJob.kind # "answer"  BY DEF NoJob
  <2> HIDE DEF r
  <2>5. QED  BY <1>0, <1>1, <1>2, <2>1, <2>2, <2>3, <2>4, MoveTurn DEF r
<1>4. CASE AgentText(t)
  <2> DEFINE c == [turn[t] EXCEPT !.text = TRUE]
  <2>1. c \in StreamingTurn  BY <1>1 DEF StreamingTurn
  <2>2. c \in TurnValues  BY <2>1 DEF TurnValues
  <2>3. turn' = [turn EXCEPT ![t] = c] /\ UNCHANGED job  BY <1>4 DEF AgentText
  <2> HIDE DEF c
  <2>4. QED  BY <1>3, <2>2, <2>3
<1>5. CASE Disconnect(t)
  <2>1. [state |-> "cancelled"] \in TurnValues  BY DEF TurnValues, EndedTurn
  <2>2. QED  BY <1>3, <1>5, <2>1 DEF Disconnect
<1>6. CASE AgentEnds(t) /\ ~turn[t].text
  <2>1. [state |-> "done"] \in TurnValues  BY DEF TurnValues, EndedTurn
  <2>2. QED  BY <1>3, <1>6, <2>1 DEF AgentEnds
<1>7. CASE AgentEnds(t) /\ turn[t].text
  <2> DEFINE a == [id |-> clock + 1, role |-> "assistant"]
             c == [state |-> "answering", r |-> r, s |-> turn[t].s, answer |-> a]
             j == [kind |-> "answer", t |-> t]
  <2>1. job' = [job EXCEPT ![r] = j] /\ turn' = [turn EXCEPT ![t] = c]
    BY <1>7 DEF AgentEnds, Hold
  <2>2. a \in Message  BY DEF TypeOK, Message
  <2> HIDE DEF a
  <2>3. c \in AnsweringTurn  BY <1>1, <2>2 DEF AnsweringTurn
  <2>4. c \in TurnValues  BY <2>3 DEF TurnValues
  <2>5. j \in JobValues  BY DEF JobValues, TurnJob
  <2>6. c.r = r /\ j.t = t /\ j.kind = "answer"  OBVIOUS
  <2> HIDE DEF c, j
  <2>7. QED  BY <1>0, <1>1, <1>2, <2>1, <2>3, <2>4, <2>5, <2>6, MoveTurn
<1>8. QED  BY <1>4, <1>5, <1>6, <1>7

LEMMA CrashTurns ==
    ASSUME TurnsInv, NEW r \in Replicas, Crash(r)
    PROVE  TurnsInv'
<1> DEFINE Dies(t) == /\ turn[t].state \in {"prompting", "streaming", "answering"}
                      /\ turn[t].r = r
<1>1. /\ job' = [job EXCEPT ![r] = NoJob] /\ UNCHANGED readFaults
      /\ turn' = [t \in Turns |-> IF Dies(t) THEN [state |-> "crashed"] ELSE turn[t]]
  BY DEF Crash
<1>2. [state |-> "crashed"] \in TurnValues  BY DEF TurnValues, EndedTurn
<1>3. TurnsTyped'
  BY <1>1, <1>2, NoJobValue DEF TurnsInv, TurnsTyped
<1>4. JobsHoldTurns'
  <2> SUFFICES ASSUME NEW q \in Replicas, job'[q].kind \in Storing
               PROVE  /\ job'[q].kind = "prompt"
                           => /\ turn'[job'[q].t] \in PromptingTurn
                              /\ turn'[job'[q].t].r = q
                      /\ job'[q].kind = "answer"
                           => /\ turn'[job'[q].t] \in AnsweringTurn
                              /\ turn'[job'[q].t].r = q
    BY DEF JobsHoldTurns, Storing
  <2>1. q # r /\ job'[q] = job[q]
    BY <1>1, NoJobValue DEF TurnsInv, TurnsTyped
  <2>2. job[q].t \in Turns /\ turn[job[q].t].r = q
    BY <2>1, HolderIsOwner
  <2>3. turn'[job[q].t] = turn[job[q].t]  BY <1>1, <2>1, <2>2
  <2>4. QED  BY <2>1, <2>3 DEF TurnsInv, JobsHoldTurns
<1>5. QED  BY <1>3, <1>4 DEF TurnsInv

LEMMA TurnsStep ==
    ASSUME TypeOK, TurnsInv, [ServiceNext]_allVars
    PROVE  TurnsInv'
<1>1. ASSUME NEW r \in Replicas, HandlerStep(r)  PROVE TurnsInv'
  <2>1. CASE StoreWork(r)
    BY <2>1 DEF StoreWork, serviceVars, TurnsInv, TurnsTyped, JobsHoldTurns
  <2>2. CASE Reply(r)
    <3>1. /\ job' = [job EXCEPT ![r] = NoJob] /\ UNCHANGED turn
          /\ readFaults' \in Nat
      BY <2>2 DEF Reply, Release, TurnsInv, TurnsTyped
    <3>2. QED  BY <3>1, NoJobValue, KeepTurns
  <2>3. QED
    BY <1>1, <2>1, <2>2, ReadContextTurns, AnswerStoredTurns DEF HandlerStep
<1>2. CASE UNCHANGED allVars
  BY <1>2 DEF allVars, TurnsInv, TurnsTyped, JobsHoldTurns
<1>3. QED
  BY <1>1, <1>2, RequestTurns, AgentTurns, CrashTurns DEF ServiceNext

-----------------------------------------------------------------------------
(* The service implements the store.                                       *)

\* The steps of the service, each by the replica it happens on.
StreamStep(r) ==
    \E t \in Turns : /\ turn[t].state = "streaming" /\ turn[t].r = r
                     /\ AgentText(t) \/ AgentEnds(t) \/ Disconnect(t)
ServiceStep(r) == Request(r) \/ HandlerStep(r) \/ Crash(r) \/ StreamStep(r)

LEMMA ServiceNextSteps ==
    ASSUME TurnsInv, ServiceNext
    PROVE  \E r \in Replicas : ServiceStep(r)
<1>1. ASSUME NEW t \in Turns, AgentText(t) \/ AgentEnds(t) \/ Disconnect(t)
      PROVE  turn[t].r \in Replicas /\ StreamStep(turn[t].r)
  BY <1>1, StreamingTyped DEF AgentText, AgentEnds, Disconnect, StreamStep
<1>2. QED  BY <1>1 DEF ServiceNext, ServiceStep

\* A step of the service is a step of the store or leaves the store alone.
LEMMA ServiceStepMoves ==
    ASSUME TurnsInv, NEW r \in Replicas, ServiceStep(r)
    PROVE  UNCHANGED vars \/ Step(r)
<1>1. ASSUME Request(r)  PROVE StoreCall(r)
  <2>1. \A u \in Users : u \in Users \cup {NoUser}  OBVIOUS
  <2>2. QED
    BY <1>1, <2>1 DEF Request, BeginTurn, BeginEdit, BeginDeleteSession, StoreCall
<1>2. ASSUME HandlerStep(r)  PROVE StoreStep(r) \/ Return(r)
  BY <1>2 DEF HandlerStep, StoreWork, ReadContext, AnswerStored, Reply, Release
<1>3. ASSUME Crash(r)  PROVE Restart(r)
  BY <1>3 DEF Crash
<1>4. ASSUME StreamStep(r)  PROVE UNCHANGED vars \/ StoreCall(r)
  <2>1. PICK t \in Turns : /\ turn[t].state = "streaming" /\ turn[t].r = r
                           /\ AgentText(t) \/ AgentEnds(t) \/ Disconnect(t)
    BY <1>4 DEF StreamStep
  <2>2. turn[t].s \in Sessions  BY <2>1, StreamingTyped
  <2>3. \/ UNCHANGED vars \/ AddMessage(r, turn[t].s, "assistant", NoUser)
    BY <2>1 DEF AgentText, AgentEnds, Disconnect
  <2>4. QED  BY <2>2, <2>3 DEF StoreCall
<1>5. QED  BY <1>1, <1>2, <1>3, <1>4 DEF ServiceStep, Step

LEMMA ServiceStepsStore ==
    ASSUME TurnsInv, [ServiceNext]_allVars
    PROVE  [Next]_vars
<1>1. CASE ServiceNext
  BY <1>1, ServiceNextSteps, ServiceStepMoves DEF Next, Step
<1>2. CASE UNCHANGED allVars  BY <1>2 DEF allVars
<1>3. QED  BY <1>1, <1>2

LEMMA ServiceInitTurns == ServiceInit => Init /\ TurnsInv
BY NoJobValue DEF ServiceInit, TurnsInv, TurnsTyped, JobsHoldTurns, TurnValues,
                  NewTurn, Storing

\* The invariant of the turns next to the one of the store.
LEMMA ServiceInvs == ServiceSpec => Spec /\ [](HistoryInv /\ TurnsInv)
<1>1. ServiceInit => Init /\ HistoryInv /\ TurnsInv
  BY ServiceInitTurns, InitHistoryInv
<1>2. HistoryInv /\ TurnsInv /\ [ServiceNext]_allVars
        => [Next]_vars /\ HistoryInv' /\ TurnsInv'
  <2> SUFFICES ASSUME HistoryInv, TurnsInv, [ServiceNext]_allVars
               PROVE  [Next]_vars /\ HistoryInv' /\ TurnsInv'
    OBVIOUS
  <2>1. [Next]_vars  BY ServiceStepsStore
  <2>2. HistoryInv'  BY <2>1, NextHistoryInv
  <2>3. TurnsInv'  BY TurnsStep DEF HistoryInv, BreakerInv
  <2>4. QED  BY <2>1, <2>2, <2>3
<1>3. QED  BY <1>1, <1>2, PTL DEF ServiceSpec, Spec

\* The handlers use the store only through its methods: every behaviour of the
\* service is a behaviour of the store, so every theorem about ChatStore's Spec
\* is one about the service.
THEOREM ServiceImplementsStore == ServiceSpec => Spec
BY ServiceInvs, PTL

\* Every reachable state of the service is of the right type: each turn has the
\* fields its next handler reads, whatever the interleaving of the replicas,
\* the disconnections and the crashes.
THEOREM ServiceTypeCorrect == ServiceSpec => []ServiceTypeOK
<1>1. HistoryInv /\ TurnsInv => ServiceTypeOK
  BY DEF HistoryInv, BreakerInv, TurnsInv, TurnsTyped, TurnValues, JobValues,
         ServiceTypeOK
<1>2. QED  BY <1>1, ServiceInvs, PTL

\* Carried over from the store: under the handlers too, the breaker that _record_cosmos_failure
\* opened is closed by nothing but the end of its process.
THEOREM ServiceBreakerStaysOpen == ServiceSpec => BreakerOpensUntilRestart
BY ServiceImplementsStore, BreakerStaysOpen

\* With one replica no handler undoes the metadata of a session that is there: a title is
\* only replaced by a rename, a soft delete and an owner stay, while other turns add messages.
THEOREM ServiceSettledSticks ==
    ASSUME OneReplica  PROVE ServiceSpec => SettledMetaSticks
BY OneReplica, ServiceImplementsStore, SettledSticks

\* With one replica and no request that raised, list_threads shows for a session as many
\* messages as get_thread would give, whenever no handler is in the store.
THEOREM ServiceCountExact ==
    ASSUME OneReplica  PROVE ServiceSpec => []CountExactWhenHealthy
BY OneReplica, ServiceImplementsStore, CountExact

-----------------------------------------------------------------------------
(* More about the store: what it holds in memory is older than the message *)
(* of the call in progress.                                                *)

HeldOlder ==
    \A r \in Replicas, s \in Sessions : \A m \in Held(r, s) :
        /\ m.id <= clock
        /\ call[r].op = "add" => m.id < call[r].msg.id

\* Only the last step of add_message puts a message into memory.
LEMMA HeldShape ==
    ASSUME TypeOK, NEW r \in Replicas, Step(r), NEW q \in Replicas, NEW s \in Sessions
    PROVE  /\ Held(q, s)' \subseteq
                 Held(q, s) \cup (IF AddToFallback(r) /\ q = r THEN {call[r].msg} ELSE {})
           /\ q # r => Held(q, s)' = Held(q, s)
<1>0. /\ fallback \in [Replicas -> [Sessions -> Seq(Message)]]
      /\ fallback[q][s] \in Seq(Message)
  BY DEF TypeOK
<1>1. CASE AddToFallback(r)
  <2>1. call[r].sid \in Sessions /\ call[r].msg \in Message
    BY <1>1, AddCallTyped DEF AddToFallback, At
  <2>2. fallback' = [fallback EXCEPT ![r][call[r].sid] = Append(@, call[r].msg)]
    BY <1>1 DEF AddToFallback, WithMessage
  <2>3. CASE q = r /\ s = call[r].sid
    <3>1. fallback'[q][s] = Append(fallback[q][s], call[r].msg)
      BY <1>0, <2>1, <2>2, <2>3
    <3>2. QED  BY <1>0, <1>1, <2>1, <2>3, <3>1 DEF Held
  <2>4. CASE ~(q = r /\ s = call[r].sid)
    <3>1. fallback'[q][s] = fallback[q][s]  BY <1>0, <2>1, <2>2, <2>4
    <3>2. QED  BY <3>1 DEF Held
  <2>5. QED  BY <2>3, <2>4
<1>2. CASE DeleteFromFallback(r) \/ Restart(r)
  <2>1. /\ fallback'[q][s] \in {fallback[q][s], <<>>}
        /\ q # r => fallback'[q][s] = fallback[q][s]
    BY <1>0, <1>2 DEF DeleteFromFallback, Restart
  <2>2. QED  BY <2>1 DEF Held
<1>3. CASE UNCHANGED fallback  BY <1>3 DEF Held
<1>4. QED
  BY <1>1, <1>2, <1>3 DEF Step, StoreCall, AddMessage, EditThread, DeleteSession,
     StoreStep, UpsertMessage, ReadMeta, WriteMeta, MetaUpdateRaises, AddRaises,
     EditReadMeta, EditWriteMeta, EditRaises, EditFallback, QueryIds, DeleteItem,
     DeleteReturns, DeleteNotFound, FallsBack, DeleteRaises, Return

LEMMA HeldOlderStep ==
    ASSUME HistoryInv, HeldOlder, NEW r \in Replicas, Step(r)
    PROVE  HeldOlder'
<1>0. TypeOK /\ StepShape(r) /\ clock \in Nat /\ NumbersAreIssued
  BY EveryStepHasShape DEF HistoryInv, BreakerInv, TypeOK
<1> SUFFICES ASSUME NEW q \in Replicas, NEW s \in Sessions, NEW m \in Held(q, s)'
             PROVE  /\ m.id <= clock'
                    /\ call'[q].op = "add" => m.id < call'[q].msg.id
  BY DEF HeldOlder
<1>1. CASE m \in Held(q, s)
  <2>1. m.id \in Nat  BY <1>0, <1>1, HeldType DEF Message
  <2>2. m.id <= clock /\ (call[q].op = "add" => m.id < call[q].msg.id)
    BY <1>1 DEF HeldOlder
  <2>3. call'[q].op = "add" =>
           \/ call[q].op = "add" /\ call'[q].msg = call[q].msg
           \/ call'[q].msg.id = clock + 1
    BY <1>0 DEF StepShape
  <2>4. QED  BY <1>0, <2>1, <2>2, <2>3 DEF StepShape
<1>2. CASE m \notin Held(q, s)
  <2>1. AddToFallback(r) /\ q = r /\ m = call[r].msg
    BY <1>0, <1>2, HeldShape
  <2>2. m.id <= clock /\ clock' = clock /\ call'[q].op = "returned"
    BY <1>0, <2>1 DEF AddToFallback, At, Finish, NumbersAreIssued, TypeOK
  <2>3. QED  BY <2>2
<1>3. QED  BY <1>1, <1>2

\* How a store method goes on: it returns, or stays the call it is.
Continues(r) ==
    /\ call[r].op \in {"add", "edit", "delete"}
    /\ \/ call'[r].op = "returned"
       \/ /\ call'[r].op = call[r].op /\ call'[r].sid = call[r].sid
          /\ call[r].op = "add" => call'[r].msg = call[r].msg
          /\ call[r].op = "edit" => call'[r].edit = call[r].edit

LEMMA StoreStepContinues ==
    ASSUME TypeOK, NEW r \in Replicas, StoreStep(r)
    PROVE  Continues(r) /\ \A q \in Replicas \ {r} : call'[q] = call[q]
<1>0. call \in [Replicas -> Calls]  BY DEF TypeOK, Calls
<1>1. call[r].op \in {"add", "edit", "delete"}
  BY DEF StoreStep, UpsertMessage, ReadMeta, WriteMeta, MetaUpdateRaises, AddRaises,
     AddToFallback, EditReadMeta, EditWriteMeta, EditRaises, EditFallback, QueryIds,
     DeleteItem, DeleteReturns, DeleteNotFound, FallsBack, DeleteRaises, DeleteFromFallback, At
<1>2. ASSUME NEW result, Finish(r, result)
      PROVE  Continues(r) /\ \A q \in Replicas \ {r} : call'[q] = call[q]
  BY <1>0, <1>1, <1>2 DEF Finish, Continues
<1>3. ASSUME NEW c, call' = [call EXCEPT ![r] = c], c.op = call[r].op,
             c.sid = call[r].sid,
             call[r].op = "add" => c.msg = call[r].msg,
             call[r].op = "edit" => c.edit = call[r].edit
      PROVE  Continues(r) /\ \A q \in Replicas \ {r} : call'[q] = call[q]
  BY <1>0, <1>1, <1>3 DEF Continues
<1>4. ASSUME NEW pc, Goto(r, pc)
      PROVE  Continues(r) /\ \A q \in Replicas \ {r} : call'[q] = call[q]
  <2>1. call' = [call EXCEPT ![r] = [call[r] EXCEPT !.pc = pc]]  BY <1>4 DEF Goto
  <2>2. CASE call[r].op = "add"
    <3>1. call[r] \in AddCall  BY <1>0, <2>2, CallKind
    <3>2. QED  BY <1>3, <2>1, <2>2, <3>1 DEF AddCall
  <2>3. CASE call[r].op = "edit"
    <3>1. call[r] \in EditCall  BY <1>0, <2>3, CallKind
    <3>2. QED  BY <1>3, <2>1, <2>3, <3>1 DEF EditCall
  <2>4. CASE call[r].op = "delete"
    <3>1. call[r] \in DeleteCall  BY <1>0, <2>4, CallKind
    <3>2. QED  BY <1>3, <2>1, <2>4, <3>1 DEF DeleteCall
  <2>5. QED  BY <1>1, <2>2, <2>3, <2>4
<1>5. CASE ReadMeta(r)
  <2>1. PICK doc, pc : call' = [call EXCEPT ![r].meta = doc, ![r].pc = pc]
    BY <1>5 DEF ReadMeta
  <2>2. call[r] \in AddCall /\ call[r].op = "add"
    BY <1>5, AddCallTyped DEF ReadMeta, At
  <2>3. call' = [call EXCEPT ![r] = [call[r] EXCEPT !.meta = doc, !.pc = pc]]
    BY <2>1
  <2>4. QED  BY <1>3, <2>2, <2>3 DEF AddCall
<1>6. CASE EditReadMeta(r)
  <2>1. CASE \E result : Finish(r, result)  BY <1>2, <2>1
  <2>2. CASE \E doc : call' = [call EXCEPT ![r].meta = doc, ![r].pc = "upsertMeta"]
    <3>1. PICK doc : call' = [call EXCEPT ![r].meta = doc, ![r].pc = "upsertMeta"]
      BY <2>2
    <3>2. call[r] \in EditCall /\ call[r].op = "edit"
      BY <1>0, <1>6, CallKind DEF EditReadMeta, At
    <3>3. call' = [call EXCEPT ![r] = [call[r] EXCEPT !.meta = doc, !.pc = "upsertMeta"]]
      BY <3>1
    <3>4. QED  BY <1>3, <3>2, <3>3 DEF EditCall
  <2>3. QED  BY <1>6, <2>1, <2>2 DEF EditReadMeta
<1>7. CASE QueryIds(r) \/ DeleteItem(r)
  <2>1. \/ \E ids : call' = [call EXCEPT ![r].ids = ids, ![r].pc = "deleteItems"]
        \/ \E i : call' = [call EXCEPT ![r].ids = @ \ {i}]
    BY <1>7 DEF QueryIds, DeleteItem
  <2>2. call[r] \in DeleteCall /\ call[r].op = "delete"
    BY <1>0, <1>7, CallKind DEF QueryIds, DeleteItem, At
  <2>3. CASE \E ids : call' = [call EXCEPT ![r].ids = ids, ![r].pc = "deleteItems"]
    <3>1. PICK ids : call' = [call EXCEPT ![r].ids = ids, ![r].pc = "deleteItems"]
      BY <2>3
    <3>2. call' = [call EXCEPT ![r] = [call[r] EXCEPT !.ids = ids, !.pc = "deleteItems"]]
      BY <3>1
    <3>3. QED  BY <1>3, <2>2, <3>2 DEF DeleteCall
  <2>4. CASE \E i : call' = [call EXCEPT ![r].ids = @ \ {i}]
    <3>1. PICK i : call' = [call EXCEPT ![r].ids = @ \ {i}]
      BY <2>4
    <3>2. call' = [call EXCEPT ![r] = [call[r] EXCEPT !.ids = @ \ {i}]]
      BY <3>1
    <3>3. QED  BY <1>3, <2>2, <3>2 DEF DeleteCall
  <2>5. QED  BY <2>1, <2>3, <2>4
<1>8. QED
  BY <1>2, <1>4, <1>5, <1>6, <1>7 DEF StoreStep, UpsertMessage, WriteMeta,
     MetaUpdateRaises, AddRaises, AddToFallback, EditWriteMeta, EditRaises,
     EditFallback, DeleteReturns, DeleteNotFound, FallsBack, DeleteRaises, DeleteFromFallback

-----------------------------------------------------------------------------
(* Handlers and the calls they wait for.                                   *)

\* The call in progress is the one the holder of the event loop made.
HandlersCall ==
    \A r \in Replicas :
        /\ job[r].kind = "prompt" =>
             \/ /\ call[r].op = "add" /\ call[r].msg = turn[job[r].t].prompt
                /\ call[r].sid = turn[job[r].t].s
             \/ call[r].op = "returned"
        /\ job[r].kind = "deleteThread" =>
             \/ /\ call[r].op = "edit" /\ call[r].edit = "softDelete"
                /\ call[r].sid = job[r].s
             \/ call[r].op = "returned"
        /\ job[r].kind = "deleteSession" =>
             \/ call[r].op = "delete" /\ call[r].sid = job[r].s
             \/ call[r].op = "returned"

\* A step of one replica leaves the handler, the call and the memory of another
\* alone, and the turn the other works for.
LEMMA OthersKept ==
    ASSUME TypeOK, TurnsInv, NEW r \in Replicas, ServiceStep(r),
           NEW q \in Replicas, q # r
    PROVE  /\ job'[q] = job[q] /\ call'[q] = call[q]
           /\ available'[q] = available[q] /\ failures'[q] = failures[q]
           /\ job[q].kind \in Storing => turn'[job[q].t] = turn[job[q].t]
<1>0. /\ job \in [Replicas -> JobValues] /\ turn \in [Turns -> TurnValues]
      /\ call \in [Replicas -> Calls]
      /\ available \in [Replicas -> BOOLEAN] /\ failures \in [Replicas -> 0..Threshold]
  BY DEF TurnsInv, TurnsTyped, TypeOK, Calls
<1>1. job[q].kind \in Storing
         => /\ job[q].t \in Turns /\ turn[job[q].t].r = q
            /\ turn[job[q].t].state \in {"prompting", "answering"}
  BY HolderIsOwner
<1>2. CASE StoreWork(r)
  <2>1. call'[q] = call[q] /\ UNCHANGED <<turn, job>>
    BY <1>2, StoreStepContinues DEF StoreWork, serviceVars
  <2>2. available'[q] = available[q] /\ failures'[q] = failures[q]
    BY <1>0, <1>2 DEF StoreWork, StoreStep, UpsertMessage, ReadMeta, WriteMeta,
       MetaUpdateRaises, AddRaises, AddToFallback, EditReadMeta, EditWriteMeta,
       EditRaises, EditFallback, QueryIds, DeleteItem, DeleteReturns,
       DeleteNotFound, FallsBack, DeleteRaises, DeleteFromFallback
  <2>3. QED  BY <2>1, <2>2
<1>3. CASE Request(r)
  <2>1. /\ call'[q] = call[q] /\ UNCHANGED <<available, failures>>
        /\ job'[q] = job[q]
    BY <1>0, <1>3 DEF Request, BeginTurn, BeginEdit, BeginDeleteSession, AddMessage,
       EditThread, DeleteSession, Hold
  <2>2. \/ UNCHANGED turn
        \/ \E t \in Turns : \E c : turn[t] = NewTurn /\ turn' = [turn EXCEPT ![t] = c]
    BY <1>3 DEF Request, BeginTurn, BeginEdit, BeginDeleteSession
  <2>3. QED  BY <1>0, <1>1, <2>1, <2>2 DEF NewTurn
<1>4. CASE (\E answered \in BOOLEAN : ReadContext(r, answered)) \/ AnswerStored(r)
  <2>1. /\ job[r].kind \in Storing
        /\ \E c : turn' = [turn EXCEPT ![job[r].t] = c]
        /\ job' = [job EXCEPT ![r] = NoJob] /\ Return(r)
    BY <1>4 DEF ReadContext, AnswerStored, Back, Release, Storing
  <2>2. job[r].t \in Turns /\ turn[job[r].t].r = r  BY <2>1, HolderIsOwner
  <2>3. QED  BY <1>0, <1>1, <2>1, <2>2 DEF Return
<1>5. CASE Reply(r)
  BY <1>0, <1>5 DEF Reply, Release, Return
<1>6. CASE Crash(r)
  <2>1. /\ job'[q] = job[q] /\ call'[q] = call[q]
        /\ available'[q] = available[q] /\ failures'[q] = failures[q]
    BY <1>0, <1>6 DEF Crash, Restart
  <2>2. \A t \in Turns : turn[t].r = q => turn'[t] = turn[t]
    BY <1>6 DEF Crash
  <2>3. QED  BY <1>1, <2>1, <2>2
<1>7. CASE StreamStep(r)
  <2>1. PICK t \in Turns : /\ turn[t].state = "streaming" /\ turn[t].r = r
                           /\ AgentText(t) \/ AgentEnds(t) \/ Disconnect(t)
    BY <1>7 DEF StreamStep
  <2>2. \E c : turn' = [turn EXCEPT ![t] = c]
    BY <2>1 DEF AgentText, AgentEnds, Disconnect
  <2>3. job'[q] = job[q] /\ call'[q] = call[q] /\ UNCHANGED <<available, failures>>
    BY <1>0, <2>1 DEF AgentText, AgentEnds, Disconnect, vars, AddMessage, Hold
  <2>4. QED  BY <1>0, <1>1, <2>1, <2>2, <2>3
<1>8. QED
  BY <1>2, <1>3, <1>4, <1>5, <1>6, <1>7 DEF ServiceStep, HandlerStep

\* The handler of r after a step of r.
LEMMA HandlersCallStep ==
    ASSUME TypeOK, TurnsInv, HandlersCall, NEW r \in Replicas, ServiceStep(r)
    PROVE  HandlersCall'
<1>0. /\ job \in [Replicas -> JobValues] /\ turn \in [Turns -> TurnValues]
      /\ call \in [Replicas -> Calls]
  BY DEF TurnsInv, TurnsTyped, TypeOK, Calls
<1> DEFINE Of(q) ==
        /\ job[q].kind = "prompt" =>
             \/ /\ call[q].op = "add" /\ call[q].msg = turn[job[q].t].prompt
                /\ call[q].sid = turn[job[q].t].s
             \/ call[q].op = "returned"
        /\ job[q].kind = "deleteThread" =>
             \/ /\ call[q].op = "edit" /\ call[q].edit = "softDelete"
                /\ call[q].sid = job[q].s
             \/ call[q].op = "returned"
        /\ job[q].kind = "deleteSession" =>
             \/ call[q].op = "delete" /\ call[q].sid = job[q].s
             \/ call[q].op = "returned"
<1>1. ASSUME NEW q \in Replicas, q # r  PROVE Of(q)'
  <2>1. /\ job'[q] = job[q] /\ call'[q] = call[q]
        /\ job[q].kind = "prompt" => turn'[job[q].t] = turn[job[q].t]
    BY <1>1, OthersKept DEF Storing
  <2>2. Of(q)  BY DEF HandlersCall
  <2>3. QED  BY <2>1, <2>2
<1>2. Of(r)'
  <2>1. CASE StoreWork(r)
    <3>1. Continues(r) /\ UNCHANGED <<turn, job>>
      BY <2>1, StoreStepContinues DEF StoreWork, serviceVars
    <3>2. Of(r)  BY DEF HandlersCall
    <3>3. QED  BY <3>1, <3>2 DEF Continues
  <2>2. CASE job'[r].kind \notin {"prompt", "deleteThread", "deleteSession"}
    BY <2>2
  <2>3. CASE Request(r)
    <3>1. ASSUME NEW s \in Sessions, NEW u, NEW t \in Turns, NEW static,
                 BeginTurn(r, t, s, u, static)
          PROVE  Of(r)'
      <4>1. /\ job'[r] = [kind |-> "prompt", t |-> t]
            /\ turn'[t].prompt = [id |-> clock + 1, role |-> "user"]
            /\ turn'[t].s = s
        BY <1>0, <3>1 DEF BeginTurn, Hold
      <4>2. /\ call'[r].op = "add" /\ call'[r].sid = s
            /\ call'[r].msg = [id |-> clock + 1, role |-> "user"]
        BY <1>0, <3>1 DEF BeginTurn, AddMessage
      <4>3. QED  BY <4>1, <4>2
    <3>2. ASSUME NEW s \in Sessions, NEW u, NEW edit \in Edits, NEW answered,
                 BeginEdit(r, s, u, edit, answered)
          PROVE  Of(r)'
      <4>1. job'[r] = [kind |-> IF edit = "rename" THEN "renameThread"
                                                   ELSE "deleteThread", s |-> s]
        BY <1>0, <3>2 DEF BeginEdit, Hold
      <4>2. call'[r].op = "edit" /\ call'[r].sid = s /\ call'[r].edit = edit
        BY <1>0, <3>2 DEF BeginEdit, EditThread
      <4>3. QED  BY <4>1, <4>2
    <3>3. ASSUME NEW s \in Sessions, BeginDeleteSession(r, s)
          PROVE  Of(r)'
      <4>1. job'[r] = [kind |-> "deleteSession", s |-> s]
        BY <1>0, <3>3 DEF BeginDeleteSession, Hold
      <4>2. call'[r].op = "delete" /\ call'[r].sid = s
        BY <1>0, <3>3 DEF BeginDeleteSession, DeleteSession
      <4>3. QED  BY <4>1, <4>2
    <3>4. QED  BY <2>3, <3>1, <3>2, <3>3 DEF Request
  <2>4. CASE \/ \E answered \in BOOLEAN : ReadContext(r, answered)
             \/ AnswerStored(r) \/ Reply(r) \/ Crash(r)
    <3>1. job'[r] = NoJob
      BY <1>0, <2>4 DEF ReadContext, AnswerStored, Reply, Release, Crash
    <3>2. QED  BY <2>2, <3>1 DEF NoJob
  <2>5. CASE StreamStep(r)
    <3>1. job[r] = NoJob /\ (job'[r] = NoJob \/ job'[r].kind = "answer")
      BY <1>0, <2>5 DEF StreamStep, AgentText, AgentEnds, Disconnect, Free, Hold
    <3>2. QED  BY <2>2, <3>1 DEF NoJob
  <2>6. QED  BY <2>1, <2>3, <2>4, <2>5 DEF ServiceStep, HandlerStep
<1>3. QED  BY <1>1, <1>2 DEF HandlersCall

\* A request leaves its replica in the call it made.
LEMMA RequestCalls ==
    ASSUME TypeOK, NEW r \in Replicas, Request(r)
    PROVE  call'[r].op \in {"add", "edit", "delete"}
<1>0. call \in [Replicas -> Calls]  BY DEF TypeOK, Calls
<1>1. ASSUME NEW s, NEW role, NEW u, AddMessage(r, s, role, u)
      PROVE  call'[r].op = "add"
  BY <1>0, <1>1 DEF AddMessage
<1>2. ASSUME NEW s, NEW edit, EditThread(r, s, edit)  PROVE call'[r].op = "edit"
  BY <1>0, <1>2 DEF EditThread
<1>3. ASSUME NEW s, DeleteSession(r, s)  PROVE call'[r].op = "delete"
  BY <1>0, <1>3 DEF DeleteSession
<1>4. QED
  BY <1>1, <1>2, <1>3 DEF Request, BeginTurn, BeginEdit, BeginDeleteSession
-----------------------------------------------------------------------------
(* The prompt and the agent.                                               *)

\* Message p was acknowledged by replica r: it is in Cosmos (or was, until a
\* hard delete) and Cosmos is asked, or in the memory of r; nothing in memory
\* is newer.
KeptFor(r, s, p) ==
    /\ p \in Held(r, s) \/ (CosmosUp(r) /\ p \in Written(s))
    /\ \A m \in Held(r, s) : m.id < p.id \/ m = p

\* So it is with the prompt when add_message has returned to the handler.
PromptKept ==
    \A r \in Replicas, s \in Sessions, p \in Message :
        (/\ job[r].kind = "prompt" /\ call[r].op = "returned"
         /\ turn[job[r].t].s = s /\ turn[job[r].t].prompt = p)
            => KeptFor(r, s, p)

\* What an add call does in the step that returns its id.
LEMMA AddReturned ==
    ASSUME HistoryInv, HeldOlder, NEW r \in Replicas, StoreStep(r),
           NEW s \in Sessions, NEW p \in Message,
           call[r].op = "add", call[r].sid = s, call[r].msg = p,
           call'[r].op = "returned"
    PROVE  KeptFor(r, s, p)'
<1>0. /\ TypeOK /\ call \in [Replicas -> Calls] /\ Step(r)
      /\ failures \in [Replicas -> 0..Threshold]
  BY DEF HistoryInv, BreakerInv, TypeOK, Calls, Step
<1>1. \A m \in Held(r, s) : m.id < p.id  BY DEF HeldOlder
<1>2. WriteMeta(r) \/ MetaUpdateRaises(r) \/ AddToFallback(r)
  BY <1>0, AddReturns
<1>3. CASE WriteMeta(r) \/ MetaUpdateRaises(r)
  <2>1. /\ p \in Written(s) /\ UNCHANGED <<msgs, erased, fallback, available>>
        /\ failures' = [failures EXCEPT ![r] = 0] /\ call[r].pc \in CosmosPcs
    BY <1>3 DEF WriteMeta, MetaUpdateRaises, At, HistoryInv, WrittenBeforeMeta,
                CosmosPcs
  <2>2. CosmosUp(r)
    BY <2>1 DEF HistoryInv, BreakerInv, OpenBreakerTouchesNoCosmos
  <2>3. available'[r] /\ failures'[r] = 0  BY <1>0, <2>1, <2>2 DEF CosmosUp
  <2>4. CosmosUp(r)'  BY <2>3, ThresholdAssumption DEF CosmosUp
  <2>5. p \in Written(s)' /\ Held(r, s)' = Held(r, s)
    BY <2>1 DEF Written, Held
  <2>6. QED  BY <1>1, <2>4, <2>5 DEF KeptFor
<1>4. CASE AddToFallback(r)
  <2>1. Held(r, s)' \subseteq Held(r, s) \cup {p}
    BY <1>0, HeldShape
  <2>2. fallback[r][s] \in Seq(Message)  BY <1>0 DEF TypeOK
  <2>3. fallback'[r][s] = Append(fallback[r][s], p)
    BY <1>0, <1>4 DEF AddToFallback, WithMessage, TypeOK
  <2>4. p \in Held(r, s)'  BY <2>2, <2>3 DEF Held
  <2>5. QED  BY <1>1, <2>1, <2>4 DEF KeptFor
<1>5. QED  BY <1>2, <1>3, <1>4

LEMMA PromptKeptStep ==
    ASSUME HistoryInv, TurnsInv, HeldOlder, HandlersCall, PromptKept,
           NEW r \in Replicas, ServiceStep(r)
    PROVE  PromptKept'
<1>0. /\ TypeOK /\ job \in [Replicas -> JobValues] /\ turn \in [Turns -> TurnValues]
      /\ call \in [Replicas -> Calls] /\ BreakerInv
  BY DEF HistoryInv, BreakerInv, TurnsInv, TurnsTyped, TypeOK, Calls
<1> SUFFICES ASSUME NEW q \in Replicas, NEW s \in Sessions, NEW p \in Message,
                    job'[q].kind = "prompt", call'[q].op = "returned",
                    turn'[job'[q].t].s = s, turn'[job'[q].t].prompt = p
             PROVE  KeptFor(q, s, p)'
  BY DEF PromptKept
<1>1. CASE q # r
  <2>1. /\ job'[q] = job[q] /\ call'[q] = call[q]
        /\ available'[q] = available[q] /\ failures'[q] = failures[q]
        /\ job[q].kind = "prompt" /\ turn'[job[q].t] = turn[job[q].t]
    BY <1>0, <1>1, OthersKept DEF Storing
  <2>2. CosmosUp(q)' = CosmosUp(q)  BY <2>1 DEF CosmosUp
  <2>3. Held(q, s)' = Held(q, s) /\ Written(s) \subseteq Written(s)'
    <3>1. CASE UNCHANGED vars  BY <3>1 DEF vars, Held, Written
    <3>2. CASE Step(r)
      <4>1. Held(q, s)' = Held(q, s)  BY <1>0, <1>1, <3>2, HeldShape
      <4>2. StepShape(r)  BY <1>0, <3>2, EveryStepHasShape
      <4>3. QED  BY <4>1, <4>2 DEF StepShape
    <3>3. QED  BY <3>1, <3>2, ServiceStepMoves
  <2>4. KeptFor(q, s, p)  BY <2>1 DEF PromptKept
  <2>5. QED  BY <2>2, <2>3, <2>4 DEF KeptFor
<1>2. CASE q = r
  <2>1. CASE StoreWork(r)
    <3>1. Continues(r) /\ UNCHANGED <<turn, job>> /\ StoreStep(r)
      BY <1>0, <2>1, StoreStepContinues DEF StoreWork, serviceVars
    <3>2. job[r].kind = "prompt" /\ call[r].op # "returned"
      BY <1>2, <3>1 DEF Continues
    <3>3. call[r].op = "add" /\ call[r].msg = p /\ call[r].sid = s
      BY <1>2, <3>1, <3>2 DEF HandlersCall
    <3>4. QED  BY <1>2, <3>1, <3>3, AddReturned
  <2>2. CASE Request(r)
    <3>1. call'[r].op # "returned"  BY <1>0, <2>2, RequestCalls
    <3>2. QED  BY <1>2, <3>1
  <2>3. CASE \/ \E answered \in BOOLEAN : ReadContext(r, answered)
             \/ AnswerStored(r) \/ Reply(r) \/ Crash(r)
    <3>1. job'[r] = NoJob
      BY <1>0, <2>3 DEF ReadContext, AnswerStored, Reply, Release, Crash
    <3>2. QED  BY <1>2, <3>1 DEF NoJob
  <2>4. CASE StreamStep(r)
    <3>1. job'[r] = NoJob \/ job'[r].kind = "answer"
      BY <1>0, <2>4 DEF StreamStep, AgentText, AgentEnds, Disconnect, Free, Hold
    <3>2. QED  BY <1>2, <3>1 DEF NoJob
  <2>5. QED  BY <2>1, <2>2, <2>3, <2>4 DEF ServiceStep, HandlerStep
<1>3. QED  BY <1>1, <1>2

PromptInv == HistoryInv /\ TurnsInv /\ HeldOlder /\ HandlersCall /\ PromptKept

LEMMA PromptInvHolds == ServiceSpec => []PromptInv
<1>1. ServiceInit => PromptInv
  <2> SUFFICES ASSUME ServiceInit PROVE PromptInv  OBVIOUS
  <2>1. Init /\ TurnsInv /\ HistoryInv  BY ServiceInitTurns, InitHistoryInv
  <2>2. \A r \in Replicas, s \in Sessions : fallback[r][s] = <<>>
    BY <2>1 DEF Init
  <2>3. HeldOlder  BY <2>2 DEF HeldOlder, Held
  <2>4. \A r \in Replicas : job[r].kind = "none"  BY DEF ServiceInit, NoJob
  <2>5. HandlersCall /\ PromptKept  BY <2>4 DEF HandlersCall, PromptKept
  <2>6. QED  BY <2>1, <2>3, <2>5 DEF PromptInv
<1>2. PromptInv /\ [ServiceNext]_allVars => PromptInv'
  <2> SUFFICES ASSUME PromptInv, [ServiceNext]_allVars PROVE PromptInv'  OBVIOUS
  <2>0. HistoryInv /\ TurnsInv /\ HeldOlder /\ HandlersCall /\ PromptKept /\ TypeOK
    BY DEF PromptInv, HistoryInv, BreakerInv
  <2>1. HistoryInv' /\ TurnsInv'
    BY <2>0, ServiceStepsStore, NextHistoryInv, TurnsStep
  <2>2. CASE ServiceNext
    <3>1. PICK r \in Replicas : ServiceStep(r)  BY <2>0, <2>2, ServiceNextSteps
    <3>2. HeldOlder'
      <4>1. CASE UNCHANGED vars
        BY <2>0, <4>1 DEF vars, HeldOlder, Held
      <4>2. QED  BY <2>0, <3>1, <4>1, ServiceStepMoves, HeldOlderStep
    <3>3. HandlersCall' /\ PromptKept'
      BY <2>0, <3>1, HandlersCallStep, PromptKeptStep
    <3>4. QED  BY <2>1, <3>2, <3>3 DEF PromptInv
  <2>3. CASE UNCHANGED allVars
    <3>1. UNCHANGED <<call, fallback, msgs, erased, clock, available, failures, turn, job>>
      BY <2>3 DEF allVars, vars
    <3>2. HeldOlder' /\ HandlersCall'
      BY <2>0, <3>1 DEF HeldOlder, HandlersCall, Held
    <3>3. ASSUME NEW r \in Replicas, NEW s \in Sessions, NEW p \in Message
          PROVE  KeptFor(r, s, p)' <=> KeptFor(r, s, p)
      <4>1. Held(r, s)' = Held(r, s) /\ Written(s)' = Written(s)
        BY <3>1 DEF Held, Written
      <4>2. CosmosUp(r)' <=> CosmosUp(r)  BY <3>1 DEF CosmosUp
      <4>3. QED  BY <4>1, <4>2 DEF KeptFor
    <3>4. PromptKept'  BY <2>0, <3>1, <3>3 DEF PromptKept
    <3>5. QED  BY <2>1, <3>2, <3>4 DEF PromptInv
  <2>4. QED  BY <2>2, <2>3
<1>3. QED  BY <1>1, <1>2, PTL DEF ServiceSpec

\* The stream of a turn starts in ReadContext, and only there.
LEMMA StreamStarts ==
    ASSUME TypeOK, TurnsInv, NEW r \in Replicas, NEW t \in Turns,
           job[r] = [kind |-> "prompt", t |-> t], turn'[t].state = "streaming",
           NEW x \in Replicas, ServiceStep(x)
    PROVE  \E answered \in BOOLEAN : ReadContext(r, answered)
<1>0. /\ job[r].kind = "prompt" /\ job[r].t = t /\ turn \in [Turns -> TurnValues]
      /\ turn[t] \in PromptingTurn
  BY DEF TurnsInv, TurnsTyped, JobsHoldTurns
<1>1. turn[t].state = "prompting"  BY <1>0 DEF PromptingTurn
<1>2. turn'[t] # turn[t]  BY <1>1
<1>3. x = r  BY <1>0, <1>2, OthersKept DEF Storing
<1>4. ~StoreWork(r) /\ ~Reply(r) /\ ~AnswerStored(r)
  BY <1>0, <1>2 DEF StoreWork, serviceVars, Reply, RepliesDeleted, RepliesRenamed,
     RepliesNotFound, RepliesErased, Back, AnswerStored
<1>5. ~Request(r) /\ ~StreamStep(r)
  <2>1. job[r] # NoJob  BY <1>0 DEF NoJob
  <2>2. QED
    BY <2>1 DEF Request, BeginTurn, BeginEdit, BeginDeleteSession, StreamStep,
                AgentText, AgentEnds, Disconnect, Free
<1>6. ~Crash(r)
  <2>1. ASSUME Crash(r)  PROVE turn'[t].state \in {"crashed", "prompting"}
    BY <1>0, <1>1, <2>1 DEF Crash
  <2>2. QED  BY <2>1
<1>7. QED  BY <1>3, <1>4, <1>5, <1>6 DEF ServiceStep, HandlerStep

\* A message that is all of a set, or the newest of it, is within any limit.
LEMMA WithinOldest ==
    ASSUME NEW S, IsFiniteSet(S), NEW p \in S, NEW n \in Nat, Cardinality(S) <= n
    PROVE  p \in Oldest(S, n)
<1>1. {k \in S : k.id <= p.id} \subseteq S  OBVIOUS
<1>2. /\ Cardinality({k \in S : k.id <= p.id}) <= Cardinality(S)
      /\ Cardinality({k \in S : k.id <= p.id}) \in Nat /\ Cardinality(S) \in Nat
  BY <1>1, FS_Subset, FS_CardinalityType
<1>3. QED  BY <1>2 DEF Oldest

LEMMA WithinNewest ==
    ASSUME NEW S \in SUBSET Message, NEW p \in S, NEW n \in Nat \ {0},
           \A m \in S : m.id < p.id \/ m = p
    PROVE  p \in Newest(S, n)
<1>1. \A m \in S : m.id \in Nat  BY DEF Message
<1>2. {k \in S : k.id >= p.id} = {p}  BY <1>1
<1>3. Cardinality({k \in S : k.id >= p.id}) = 1  BY <1>2, FS_Singleton
<1>4. QED  BY <1>3 DEF Newest

\* The agent is given the prompt it has to answer, on any number of replicas,
\* but for the named reasons: the prompt went to the fallback and Cosmos is
\* read, the read raised, a hard delete came between, or the session is longer
\* than the limit and the oldest messages are read.
THEOREM PromptReachesAgent == ServiceSpec => PromptReachesAgentUnless
<1> DEFINE Reaches ==
      \A r \in Replicas, t \in Turns :
         (job[r] = [kind |-> "prompt", t |-> t] /\ turn'[t].state = "streaming")
            => LET c == turn'[t]
               IN  \/ c.prompt \in c.ctx
                  \/ /\ CosmosUp(r)
                     /\ \/ c.prompt \in Held(r, c.s) \cup erased[c.s]
                        \/ readFaults' # readFaults
                        \/ Cardinality(msgs[c.s]) > HistoryLimit
<1>1. ASSUME PromptInv, ServiceNext  PROVE Reaches
  <2>0. HistoryInv /\ TurnsInv /\ PromptKept /\ TypeOK
    BY <1>1 DEF PromptInv, HistoryInv, BreakerInv
  <2> SUFFICES ASSUME NEW r \in Replicas, NEW t \in Turns,
                      job[r] = [kind |-> "prompt", t |-> t],
                      turn'[t].state = "streaming"
               PROVE  \/ turn'[t].prompt \in turn'[t].ctx
                      \/ /\ CosmosUp(r)
                         /\ \/ turn'[t].prompt \in Held(r, turn'[t].s)
                                                     \cup erased[turn'[t].s]
                            \/ readFaults' # readFaults
                            \/ Cardinality(msgs[turn'[t].s]) > HistoryLimit
    OBVIOUS
  <2>1. PICK x \in Replicas : ServiceStep(x)  BY <1>1, <2>0, ServiceNextSteps
  <2>2. PICK answered \in BOOLEAN : ReadContext(r, answered)
    BY <2>0, <2>1, StreamStarts
  <2> DEFINE s == turn[t].s
             p == turn[t].prompt
             h == History(r, s, HistoryLimit, answered)
  <2>3. /\ job[r].kind = "prompt" /\ job[r].t = t /\ call[r].op = "returned"
        /\ turn[t] \in PromptingTurn /\ turn \in [Turns -> TurnValues]
    BY <2>0, <2>2 DEF ReadContext, Back, TurnsInv, TurnsTyped, JobsHoldTurns
  <2>4. s \in Sessions /\ p \in Message  BY <2>3 DEF PromptingTurn
  <2>5. turn'[t].prompt = p /\ turn'[t].s = s /\ turn'[t].ctx = h
    BY <2>2, <2>3 DEF ReadContext
  <2>6. KeptFor(r, s, p)  BY <2>0, <2>3, <2>4 DEF PromptKept
  <2>7. readFaults \in Nat  BY <2>0 DEF TurnsInv, TurnsTyped
  <2>8. HistoryLimit \in Nat \ {0}  BY HistoryLimitAssumption
  <2> HIDE DEF s, p, h
  <2>9. CASE CosmosUp(r) /\ answered
    <3>1. h = Oldest(msgs[s], HistoryLimit)  BY <2>9 DEF h, History
    <3>2. IsFiniteSet(msgs[s])
      <4>1. IsFiniteSet(Written(s)) /\ msgs[s] \subseteq Written(s)
        BY <2>0, <2>4 DEF HistoryInv, FiniteHistory, Written
      <4>2. QED  BY <4>1, FS_Subset
    <3>3. Cardinality(msgs[s]) \in Nat  BY <3>2, FS_CardinalityType
    <3>4. p \in Held(r, s) \/ p \in erased[s] \/ p \in msgs[s]
      BY <2>6 DEF KeptFor, Written
    <3>5. (p \in msgs[s] /\ Cardinality(msgs[s]) <= HistoryLimit) => p \in h
      BY <2>8, <3>1, <3>2, WithinOldest
    <3>6. QED  BY <2>5, <2>8, <2>9, <3>3, <3>4, <3>5
  <2>10. CASE CosmosUp(r) /\ ~answered
    <3>1. readFaults' = readFaults + 1  BY <2>2, <2>10 DEF ReadContext, ReadOutcome
    <3>2. QED  BY <2>7, <2>10, <3>1
  <2>11. CASE ~CosmosUp(r)
    <3>1. h = Newest(Held(r, s), HistoryLimit)  BY <2>11 DEF h, History
    <3>2. p \in Held(r, s) /\ \A m \in Held(r, s) : m.id < p.id \/ m = p
      BY <2>6, <2>11 DEF KeptFor
    <3>3. Held(r, s) \in SUBSET Message  BY <2>0, <2>4, HeldType
    <3>4. p \in h  BY <2>8, <3>1, <3>2, <3>3, WithinNewest
    <3>5. QED  BY <2>5, <3>4
  <2>12. QED  BY <2>9, <2>10, <2>11
<1>2. ASSUME UNCHANGED allVars, PromptInv  PROVE Reaches
  <2> SUFFICES ASSUME NEW r \in Replicas, NEW t \in Turns,
                      job[r] = [kind |-> "prompt", t |-> t],
                      turn'[t].state = "streaming"
               PROVE  FALSE
    OBVIOUS
  <2>1. turn[t] \in PromptingTurn /\ turn' = turn
    BY <1>2 DEF PromptInv, TurnsInv, JobsHoldTurns, allVars
  <2>2. QED  BY <2>1 DEF PromptingTurn
<1>3. PromptInv /\ [ServiceNext]_allVars => [Reaches]_allVars  BY <1>1, <1>2
<1>4. QED
  BY <1>3, PromptInvHolds, PTL DEF ServiceSpec, PromptReachesAgentUnless


-----------------------------------------------------------------------------
(* The answers of the delete endpoints, with one replica and no write that *)
(* raised: the replica keeps everything in Cosmos, or everything in memory. *)

HealthyFor(r, s) ==
    /\ failures[r] = 0
    /\ available[r] => /\ call[r].pc # "fallback"
                       /\ Held(r, s) = {} /\ fallbackMeta[r][s] = NoMeta
    /\ ~available[r] => msgs[s] = {} /\ meta[s] = NoMeta

OneStore == faults = 0 => \A r \in Replicas, s \in Sessions : HealthyFor(r, s)

\* The version a soft delete is about to write is a deleted one.
DeletionPrepared ==
    \A r \in Replicas, s \in Sessions :
        (PreparedFor(r, s) /\ call[r].op = "edit" /\ call[r].edit = "softDelete")
            => call[r].meta.deleted

\* A document the thread lists leave out.
Out(doc) == doc = NoMeta \/ doc.deleted

RepliesHold ==
    faults = 0 => \A r \in Replicas, s \in Sessions :
        (call[r].op = "returned" /\ job[r].s = s)
           => /\ job[r].kind = "deleteThread"
                   => Out(meta[s]) /\ Out(fallbackMeta[r][s])
              /\ job[r].kind = "deleteSession"
                   => /\ msgs[s] = {} /\ meta[s] = NoMeta
                      /\ Held(r, s) = {} /\ fallbackMeta[r][s] = NoMeta

\* A step in which no request raises, of a single replica whose deletions find
\* every document they ask for.
LEMMA NoFaultStep ==
    ASSUME HistoryInv, CountsExact, NEW r \in Replicas, Step(r), faults' = 0
    PROVE  /\ faults = 0
           /\ \/ StoreCall(r) \/ Return(r)
              \/ UpsertMessage(r) \/ ReadMeta(r) \/ WriteMeta(r) \/ AddToFallback(r)
              \/ EditReadMeta(r) \/ EditWriteMeta(r) \/ EditFallback(r)
              \/ QueryIds(r) \/ DeleteItem(r) \/ DeleteReturns(r)
              \/ DeleteFromFallback(r)
<1>0. faults \in Nat /\ call \in [Replicas -> Calls]
  BY DEF HistoryInv, BreakerInv, TypeOK, Calls
<1>1. ~Fault  BY <1>0 DEF Fault
<1>2. faults = 0
  BY <1>1 DEF Step, StoreCall, AddMessage, EditThread, DeleteSession, StoreStep,
     UpsertMessage, ReadMeta, WriteMeta, MetaUpdateRaises, AddRaises,
     AddToFallback, EditReadMeta, EditWriteMeta, EditRaises, EditFallback,
     QueryIds, DeleteItem, DeleteReturns, DeleteNotFound, FallsBack, DeleteRaises,
     DeleteFromFallback, Return, Restart
<1>3. ~DeleteNotFound(r)
  <2> SUFFICES ASSUME DeleteNotFound(r) PROVE FALSE  OBVIOUS
  <2>1. call[r] \in DeleteCall  BY <1>0, CallKind DEF DeleteNotFound, FallsBack, At
  <2>2. call[r].sid \in Sessions  BY <2>1 DEF DeleteCall
  <2>3. /\ call[r].ids \ DocumentIds(call[r].sid) # {}
        /\ Erasing(r, call[r].sid)
    BY DEF DeleteNotFound, FallsBack, Erasing
  <2>4. call[r].ids = DocumentIds(call[r].sid)
    BY <1>2, <2>2, <2>3 DEF CountsExact, ExactFor
  <2>5. QED  BY <2>3, <2>4
<1>4. QED
  BY <1>1, <1>2, <1>3 DEF Step, StoreStep, MetaUpdateRaises, AddRaises, EditRaises,
     DeleteRaises, FallsBack, Restart

LEMMA OneStoreStep ==
    ASSUME HistoryInv, CountsExact, OneStore, OneReplica, NEW r \in Replicas, Step(r)
    PROVE  OneStore'
<1> SUFFICES ASSUME faults' = 0, NEW s \in Sessions  PROVE HealthyFor(r, s)'
  BY DEF OneStore, OneReplica
<1>0. /\ TypeOK /\ call \in [Replicas -> Calls] /\ failures \in [Replicas -> 0..Threshold]
      /\ OpenBreakerTouchesNoCosmos
  BY DEF HistoryInv, BreakerInv, TypeOK, Calls
<1>1. faults = 0 /\ HealthyFor(r, s)  BY NoFaultStep DEF OneStore
<1>2. available[r] <=> CosmosUp(r)
  BY <1>1, ThresholdAssumption DEF CosmosUp, HealthyFor
<1>3. CASE StoreCall(r)
  <2>1. PICK t \in Sessions :
          \/ \E u \in Users \cup {NoUser} : AddMessage(r, t, "user", u)
          \/ AddMessage(r, t, "assistant", NoUser)
          \/ \E edit \in Edits : EditThread(r, t, edit)
          \/ DeleteSession(r, t)
    BY <1>3 DEF StoreCall
  <2>2. UNCHANGED <<msgs, meta, fallback, fallbackMeta, available, failures>>
    BY <2>1 DEF AddMessage, EditThread, DeleteSession
  <2>3. available[r] => call'[r].pc # "fallback"
    BY <1>0, <1>2, <2>1 DEF AddMessage, EditThread, DeleteSession, Entry
  <2>4. QED  BY <1>1, <2>2, <2>3 DEF HealthyFor, Held
<1>4. CASE Return(r)
  <2>1. /\ UNCHANGED <<msgs, meta, fallback, fallbackMeta, available, failures>>
        /\ call'[r].pc = "idle"
    BY <1>0, <1>4 DEF Return
  <2>2. QED  BY <1>1, <2>1 DEF HealthyFor, Held
<1>5. CASE AddToFallback(r) \/ EditFallback(r) \/ DeleteFromFallback(r)
  <2>1. /\ UNCHANGED <<msgs, meta, available, failures>> /\ call[r].pc = "fallback"
    BY <1>5 DEF AddToFallback, EditFallback, DeleteFromFallback, At
  <2>2. ~available[r]  BY <1>1, <2>1 DEF HealthyFor
  <2>3. QED  BY <1>1, <2>1, <2>2 DEF HealthyFor
<1>6. CASE UpsertMessage(r) \/ ReadMeta(r) \/ WriteMeta(r) \/ EditReadMeta(r)
           \/ EditWriteMeta(r) \/ QueryIds(r) \/ DeleteItem(r) \/ DeleteReturns(r)
  <2>1. call[r].pc \in CosmosPcs /\ UNCHANGED <<fallback, fallbackMeta, available>>
    BY <1>6 DEF UpsertMessage, ReadMeta, WriteMeta, EditReadMeta, EditWriteMeta,
       QueryIds, DeleteItem, DeleteReturns, At, CosmosPcs
  <2>2. available[r]
    BY <1>0, <1>2, <2>1 DEF OpenBreakerTouchesNoCosmos
  <2>3. failures'[r] = 0
    BY <1>0, <1>1, <1>6 DEF HealthyFor, UpsertMessage, ReadMeta, WriteMeta,
       EditReadMeta, EditWriteMeta, QueryIds, DeleteItem, DeleteReturns
  <2>4. call'[r].pc # "fallback"
    <3>1. CASE UpsertMessage(r)
      <4>1. call[r] \in AddCall  BY <3>1, <1>0, AddCallTyped DEF UpsertMessage, At
      <4>2. call' = [call EXCEPT ![r] = [call[r] EXCEPT !.pc = "readMeta"]]
        BY <3>1 DEF UpsertMessage, Goto
      <4>3. call'[r].pc = "readMeta"  BY <1>0, <4>1, <4>2 DEF AddCall
      <4>4. QED  BY <4>3
    <3>2. CASE WriteMeta(r) \/ EditWriteMeta(r) \/ DeleteReturns(r)
      <4>1. Finish(r, "ok")  BY <3>2 DEF WriteMeta, EditWriteMeta, DeleteReturns
      <4>2. call'[r].pc = "ok"  BY <1>0, <4>1 DEF Finish
      <4>3. QED  BY <4>2
    <3>3. CASE ReadMeta(r)
      BY <1>0, <3>3, ReadMetaPrepares
    <3>4. CASE EditReadMeta(r)
      <4>1. CASE meta[call[r].sid] = NoMeta
        BY <1>0, <3>4, <4>1 DEF EditReadMeta, Finish
      <4>2. CASE meta[call[r].sid] # NoMeta
        BY <1>0, <3>4, <4>2, EditReadMetaPrepares
      <4>3. QED  BY <4>1, <4>2
    <3>5. CASE QueryIds(r) \/ DeleteItem(r)
      <4>1. call[r] \in DeleteCall /\ call[r].pc \in {"query", "deleteItems"}
        BY <1>0, <3>5, CallKind DEF QueryIds, DeleteItem, At
      <4>2. \/ \E ids : call' = [call EXCEPT ![r].ids = ids, ![r].pc = "deleteItems"]
            \/ \E i : call' = [call EXCEPT ![r].ids = @ \ {i}]
        BY <3>5 DEF QueryIds, DeleteItem
      <4>3. QED  BY <1>0, <4>1, <4>2 DEF DeleteCall
    <3>6. QED  BY <1>6, <3>1, <3>2, <3>3, <3>4, <3>5
  <2>5. Held(r, s)' = Held(r, s)  BY <2>1 DEF Held
  <2>6. QED  BY <1>1, <2>1, <2>2, <2>3, <2>4, <2>5 DEF HealthyFor
<1>7. QED  BY <1>3, <1>4, <1>5, <1>6, NoFaultStep

LEMMA DeletionPreparedStep ==
    ASSUME BreakerInv, DeletionPrepared, NEW r \in Replicas, Step(r)
    PROVE  DeletionPrepared'
<1>0. VersionShape(r) /\ TypeOK /\ call \in [Replicas -> Calls] /\ StepShape(r)
  BY EveryStepHasVersionShape, EveryStepHasShape DEF BreakerInv, TypeOK, Calls
<1> SUFFICES ASSUME NEW q \in Replicas, NEW s \in Sessions, PreparedFor(q, s)',
                    call'[q].op = "edit", call'[q].edit = "softDelete"
             PROVE  call'[q].meta.deleted
  BY DEF DeletionPrepared
<1>1. CASE call'[q] = call[q]
  BY <1>1 DEF DeletionPrepared, PreparedFor
<1>2. CASE call'[q] # call[q]
  <2>1. q = r  BY <1>0, <1>2 DEF StepShape
  <2>2. ReadMeta(r) \/ (EditReadMeta(r) /\ meta[call[r].sid] # NoMeta)
    BY <1>0, <2>1 DEF VersionShape, PreparedFor
  <2>3. ~ReadMeta(r)  BY <1>0, <2>1, ReadMetaPrepares
  <2>4. /\ call'[r].meta = EditedMeta(meta[call[r].sid], "softDelete")
        /\ meta[call[r].sid] \in MetaDoc
    BY <1>0, <2>1, <2>2, <2>3, EditReadMetaPrepares
  <2>5. QED  BY <2>1, <2>4 DEF EditedMeta, MetaDoc
<1>3. QED  BY <1>1, <1>2

\* The step in which a deletion the handler waits for returns.
LEMMA DeletionReturns ==
    ASSUME HistoryInv, CountsExact, OneStore, DeletionPrepared, OneReplica,
           NEW r \in Replicas, NEW s \in Sessions, StoreStep(r), faults' = 0,
           call[r].sid = s, call'[r].op = "returned"
    PROVE  /\ (call[r].op = "edit" /\ call[r].edit = "softDelete")
                => Out(meta'[s]) /\ Out(fallbackMeta'[r][s])
           /\ call[r].op = "delete"
                => /\ msgs'[s] = {} /\ meta'[s] = NoMeta
                   /\ Held(r, s)' = {} /\ fallbackMeta'[r][s] = NoMeta
<1>0. /\ TypeOK /\ call \in [Replicas -> Calls] /\ Step(r)
      /\ meta \in [Sessions -> AnyMeta]
      /\ fallback \in [Replicas -> [Sessions -> Seq(Message)]]
      /\ fallbackMeta \in [Replicas -> [Sessions -> AnyMeta]]
  BY DEF HistoryInv, BreakerInv, TypeOK, Calls, AnyMeta, Step
<1>1. faults = 0 /\ HealthyFor(r, s) /\ HealthyFor(r, s)' /\ available'[r] = available[r]
  <2>1. OneStore' /\ faults = 0  BY <1>0, OneStoreStep, NoFaultStep
  <2>2. UNCHANGED available
    BY DEF StoreStep, UpsertMessage, ReadMeta, WriteMeta, MetaUpdateRaises, AddRaises,
       AddToFallback, EditReadMeta, EditWriteMeta, EditRaises, EditFallback, QueryIds,
       DeleteItem, DeleteReturns, DeleteNotFound, FallsBack, DeleteRaises, DeleteFromFallback
  <2>3. QED  BY <2>1, <2>2 DEF OneStore
<1>2. /\ call[r].op = "edit" => EditReadMeta(r) \/ EditWriteMeta(r) \/ EditFallback(r)
      /\ call[r].op = "delete" => \/ QueryIds(r) \/ DeleteItem(r) \/ DeleteReturns(r)
                                  \/ DeleteFromFallback(r)
  <2>1. \/ UpsertMessage(r) \/ ReadMeta(r) \/ WriteMeta(r) \/ AddToFallback(r)
        \/ EditReadMeta(r) \/ EditWriteMeta(r) \/ EditFallback(r)
        \/ QueryIds(r) \/ DeleteItem(r) \/ DeleteReturns(r)
        \/ DeleteFromFallback(r)
    <3>1. call[r].op \in {"add", "edit", "delete"}
      BY <1>0, StoreStepContinues DEF Continues
    <3>2. ~StoreCall(r) /\ ~Return(r)
      BY <3>1 DEF StoreCall, AddMessage, EditThread, DeleteSession, Return
    <3>3. QED  BY <1>0, <3>2, NoFaultStep
  <2>2. UpsertMessage(r) \/ ReadMeta(r) \/ WriteMeta(r) \/ AddToFallback(r)
           => call[r].op = "add"
    BY DEF UpsertMessage, ReadMeta, WriteMeta, AddToFallback, At
  <2>3. EditReadMeta(r) \/ EditWriteMeta(r) \/ EditFallback(r) => call[r].op = "edit"
    BY DEF EditReadMeta, EditWriteMeta, EditFallback, At
  <2>4. QueryIds(r) \/ DeleteItem(r) \/ DeleteReturns(r) \/ DeleteFromFallback(r)
           => call[r].op = "delete"
    BY DEF QueryIds, DeleteItem, DeleteReturns, DeleteFromFallback, At
  <2>5. QED  BY <2>1, <2>2, <2>3, <2>4
<1>3. CASE call[r].op = "edit" /\ call[r].edit = "softDelete"
  <2>1. EditReadMeta(r) \/ EditWriteMeta(r) \/ EditFallback(r)  BY <1>3, <1>2
  <2>2. CASE available[r]
    <3>1. fallbackMeta'[r][s] = NoMeta  BY <1>1, <2>2 DEF HealthyFor
    <3>2. ~EditFallback(r)  BY <1>1, <2>2 DEF HealthyFor, EditFallback, At
    <3>3. CASE EditReadMeta(r)
      <4>1. meta[s] = NoMeta
        BY <1>0, <3>3, EditReadMetaPrepares
      <4>2. UNCHANGED meta  BY <3>3 DEF EditReadMeta
      <4>3. QED  BY <1>3, <3>1, <4>1, <4>2 DEF Out
    <3>4. CASE EditWriteMeta(r)
      <4>1. call[r].meta.deleted
        BY <1>3, <3>4 DEF EditWriteMeta, At, DeletionPrepared, PreparedFor
      <4>2. meta'[s] = call[r].meta  BY <1>0, <3>4 DEF EditWriteMeta
      <4>3. QED  BY <1>3, <3>1, <4>1, <4>2 DEF Out
    <3>5. QED  BY <2>1, <3>2, <3>3, <3>4
  <2>3. CASE ~available[r]
    <3>1. meta'[s] = NoMeta  BY <1>1, <2>3 DEF HealthyFor
    <3>2. EditFallback(r)
      <4>1. call[r].pc \notin CosmosPcs
        BY <1>1, <2>3 DEF HistoryInv, BreakerInv, OpenBreakerTouchesNoCosmos, CosmosUp
      <4>2. QED  BY <2>1, <4>1 DEF EditReadMeta, EditWriteMeta, At, CosmosPcs
    <3>3. CASE fallbackMeta[r][s] = NoMeta
      <4>1. UNCHANGED fallbackMeta  BY <3>2, <3>3 DEF EditFallback
      <4>2. QED  BY <1>3, <3>1, <3>3, <4>1 DEF Out
    <3>4. CASE fallbackMeta[r][s] # NoMeta
      <4>1. fallbackMeta'[r][s] = EditedMeta(fallbackMeta[r][s], "softDelete")
        BY <1>0, <1>3, <3>2, <3>4 DEF EditFallback
      <4>2. fallbackMeta[r][s] \in MetaDoc  BY <1>0, <3>4 DEF AnyMeta
      <4>3. fallbackMeta'[r][s].deleted  BY <4>1, <4>2 DEF EditedMeta, MetaDoc
      <4>4. QED  BY <1>3, <3>1, <4>3 DEF Out
    <3>5. QED  BY <3>3, <3>4
  <2>4. QED  BY <2>2, <2>3
<1>4. CASE call[r].op = "delete"
  <2>1. QueryIds(r) \/ DeleteItem(r) \/ DeleteReturns(r) \/ DeleteFromFallback(r)
    BY <1>4, <1>2
  <2>2. call[r] \in DeleteCall  BY <1>0, <1>4, CallKind
  <2>3. ~QueryIds(r) /\ ~DeleteItem(r)
    <3>1. \A c : (call' = [call EXCEPT ![r] = c] /\ c.op = "delete") => FALSE
      BY <1>0
    <3>2. ASSUME QueryIds(r)  PROVE FALSE
      <4>1. PICK ids : call' = [call EXCEPT ![r] =
                                  [call[r] EXCEPT !.ids = ids, !.pc = "deleteItems"]]
        BY <3>2 DEF QueryIds
      <4>2. QED  BY <1>4, <2>2, <3>1, <4>1 DEF DeleteCall
    <3>3. ASSUME DeleteItem(r)  PROVE FALSE
      <4>1. PICK i : call' = [call EXCEPT ![r] = [call[r] EXCEPT !.ids = @ \ {i}]]
        BY <3>3 DEF DeleteItem
      <4>2. QED  BY <1>4, <2>2, <3>1, <4>1 DEF DeleteCall
    <3>4. QED  BY <3>2, <3>3
  <2>4. CASE DeleteReturns(r)
    <3>1. /\ UNCHANGED <<msgs, meta>> /\ call[r].ids = {} /\ Erasing(r, s)
          /\ call[r].pc \in CosmosPcs
      BY <2>4 DEF DeleteReturns, Erasing, At, CosmosPcs
    <3>2. msgs[s] = {} /\ meta[s] = NoMeta
      BY <1>1, <3>1, EmptyPartition DEF CountsExact, ExactFor
    <3>3. available[r]
      BY <3>1 DEF HistoryInv, BreakerInv, OpenBreakerTouchesNoCosmos, CosmosUp
    <3>4. QED  BY <1>1, <1>4, <3>1, <3>2, <3>3 DEF HealthyFor
  <2>5. CASE DeleteFromFallback(r)
    <3>1. ~available[r]  BY <1>1, <2>5 DEF DeleteFromFallback, At, HealthyFor
    <3>2. fallback'[r][s] = <<>> /\ fallbackMeta'[r][s] = NoMeta
      BY <1>0, <2>5 DEF DeleteFromFallback
    <3>3. Held(r, s)' = {}  BY <3>2 DEF Held
    <3>4. QED  BY <1>1, <1>4, <3>1, <3>2, <3>3 DEF HealthyFor
  <2>6. QED  BY <2>1, <2>3, <2>4, <2>5
<1>5. QED  BY <1>3, <1>4

LEMMA RepliesHoldStep ==
    ASSUME HistoryInv, TurnsInv, CountsExact, OneStore, DeletionPrepared, HandlersCall,
           RepliesHold, OneReplica, NEW r \in Replicas, ServiceStep(r)
    PROVE  RepliesHold'
<1>0. /\ TypeOK /\ job \in [Replicas -> JobValues] /\ call \in [Replicas -> Calls]
  BY DEF HistoryInv, BreakerInv, TurnsInv, TurnsTyped, TypeOK, Calls
<1> SUFFICES ASSUME faults' = 0, NEW s \in Sessions, call'[r].op = "returned",
                    job'[r].s = s, job'[r].kind \in {"deleteThread", "deleteSession"}
             PROVE  /\ job'[r].kind = "deleteThread"
                         => Out(meta'[s]) /\ Out(fallbackMeta'[r][s])
                    /\ job'[r].kind = "deleteSession"
                         => /\ msgs'[s] = {} /\ meta'[s] = NoMeta
                            /\ Held(r, s)' = {} /\ fallbackMeta'[r][s] = NoMeta
  BY DEF RepliesHold, OneReplica, Out
<1>1. CASE StoreWork(r)
  <2>1. Continues(r) /\ UNCHANGED <<turn, job>> /\ StoreStep(r)
    BY <1>0, <1>1, StoreStepContinues DEF StoreWork, serviceVars
  <2>2. call[r].op # "returned"  BY <2>1 DEF Continues
  <2>3. /\ job[r].kind = "deleteThread" =>
             call[r].op = "edit" /\ call[r].edit = "softDelete" /\ call[r].sid = s
        /\ job[r].kind = "deleteSession" => call[r].op = "delete" /\ call[r].sid = s
    BY <2>1, <2>2 DEF HandlersCall
  <2>4. call[r].sid = s  BY <2>1, <2>3
  <2>5. QED  BY <2>1, <2>3, <2>4, DeletionReturns
<1>2. CASE Request(r)
  <2>1. call'[r].op # "returned"  BY <1>0, <1>2, RequestCalls
  <2>2. QED  BY <2>1
<1>3. CASE \/ \E answered \in BOOLEAN : ReadContext(r, answered)
           \/ AnswerStored(r) \/ Reply(r) \/ Crash(r)
  <2>1. job'[r] = NoJob
    BY <1>0, <1>3 DEF ReadContext, AnswerStored, Reply, Release, Crash
  <2>2. QED  BY <2>1 DEF NoJob
<1>4. CASE StreamStep(r)
  <2>1. job'[r] = NoJob \/ job'[r].kind = "answer"
    BY <1>0, <1>4 DEF StreamStep, AgentText, AgentEnds, Disconnect, Free, Hold
  <2>2. QED  BY <2>1 DEF NoJob
<1>5. QED  BY <1>1, <1>2, <1>3, <1>4 DEF ServiceStep, HandlerStep

RepliesInv ==
    /\ HistoryInv /\ TurnsInv /\ HandlersCall /\ CountsExact
    /\ OneStore /\ DeletionPrepared /\ RepliesHold

\* A step that moves no variable of the store or the handlers keeps it all.
LEMMA StoreKept ==
    ASSUME UNCHANGED vars, CountsExact, OneStore, DeletionPrepared
    PROVE  CountsExact' /\ OneStore' /\ DeletionPrepared'
<1>1. UNCHANGED <<msgs, meta, fallback, fallbackMeta, available, failures, call, faults>>
  BY DEF vars
<1>2. CountsExact'
  BY <1>1 DEF CountsExact, ExactFor, Erasing, Uncounting, PreparedFor, Shown, At,
              DocumentIds
<1>3. OneStore'
  <2>1. ASSUME NEW r \in Replicas, NEW s \in Sessions
        PROVE  HealthyFor(r, s)' <=> HealthyFor(r, s)
    <3>1. Held(r, s)' = Held(r, s)  BY <1>1 DEF Held
    <3>2. QED  BY <1>1, <3>1 DEF HealthyFor
  <2>2. QED  BY <1>1, <2>1 DEF OneStore
<1>4. DeletionPrepared'  BY <1>1 DEF DeletionPrepared, PreparedFor
<1>5. QED  BY <1>2, <1>3, <1>4

LEMMA RepliesInvHolds ==
    ASSUME OneReplica  PROVE ServiceSpec => []RepliesInv
<1>1. ServiceInit => RepliesInv
  <2> SUFFICES ASSUME ServiceInit PROVE RepliesInv  OBVIOUS
  <2>1. Init /\ TurnsInv /\ HistoryInv /\ ExactInv
    BY ServiceInitTurns, InitHistoryInv, InitExactInv
  <2>2. /\ \A r \in Replicas, s \in Sessions :
             fallback[r][s] = <<>> /\ fallbackMeta[r][s] = NoMeta
        /\ \A r \in Replicas : failures[r] = 0 /\ call[r] = Idle
        /\ \A s \in Sessions : msgs[s] = {} /\ meta[s] = NoMeta
    BY <2>1 DEF Init
  <2>3. OneStore  BY <2>2 DEF OneStore, HealthyFor, Held
  <2>4. DeletionPrepared /\ RepliesHold
    BY <2>2 DEF DeletionPrepared, PreparedFor, RepliesHold
  <2>5. \A r \in Replicas : job[r].kind = "none"  BY DEF ServiceInit, NoJob
  <2>6. HandlersCall  BY <2>5 DEF HandlersCall
  <2>7. QED  BY <2>1, <2>3, <2>4, <2>6 DEF RepliesInv, ExactInv
<1>2. RepliesInv /\ [ServiceNext]_allVars => RepliesInv'
  <2> SUFFICES ASSUME RepliesInv, [ServiceNext]_allVars PROVE RepliesInv'  OBVIOUS
  <2>0. /\ HistoryInv /\ TurnsInv /\ HandlersCall /\ CountsExact /\ OneStore
        /\ DeletionPrepared /\ RepliesHold /\ BreakerInv /\ TypeOK
    BY DEF RepliesInv, HistoryInv, BreakerInv
  <2>1. HistoryInv' /\ TurnsInv'
    BY <2>0, ServiceStepsStore, NextHistoryInv, TurnsStep
  <2>2. CASE ServiceNext
    <3>1. PICK r \in Replicas : ServiceStep(r)  BY <2>0, <2>2, ServiceNextSteps
    <3>2. HandlersCall' /\ RepliesHold'
      BY <2>0, <3>1, OneReplica, HandlersCallStep, RepliesHoldStep
    <3>3. CountsExact' /\ OneStore' /\ DeletionPrepared'
      <4>1. CASE UNCHANGED vars  BY <2>0, <4>1, StoreKept
      <4>2. CASE Step(r)
        BY <2>0, <4>2, OneReplica, CountsExactStep, OneStoreStep, DeletionPreparedStep
      <4>3. QED  BY <2>0, <3>1, <4>1, <4>2, ServiceStepMoves
    <3>4. QED  BY <2>1, <3>2, <3>3 DEF RepliesInv
  <2>3. CASE UNCHANGED allVars
    <3>1. UNCHANGED <<vars, turn, job>>  BY <2>3 DEF allVars
    <3>2. UNCHANGED <<msgs, meta, fallback, fallbackMeta, call, faults>>
      BY <3>1 DEF vars
    <3>3. HandlersCall'  BY <2>0, <3>1, <3>2 DEF HandlersCall
    <3>4. RepliesHold'
      <4>1. \A r \in Replicas, s \in Sessions : Held(r, s)' = Held(r, s)
        BY <3>2 DEF Held
      <4>2. QED  BY <2>0, <3>1, <3>2, <4>1 DEF RepliesHold, Out
    <3>5. CountsExact' /\ OneStore' /\ DeletionPrepared'
      BY <2>0, <3>1, StoreKept
    <3>6. QED  BY <2>1, <3>3, <3>4, <3>5 DEF RepliesInv
  <2>4. QED  BY <2>2, <2>3
<1>3. QED  BY <1>1, <1>2, PTL DEF ServiceSpec

\* With one replica and no write that raised, an answer "deleted" is true when
\* it is given: the thread is on nobody's list, and after a hard delete no
\* message and no document of the session is left in either store.
THEOREM RepliesTrue ==
    ASSUME OneReplica  PROVE ServiceSpec => RepliesTrueWhenHealthy
<1> DEFINE True ==
      \A r \in Replicas, s \in Sessions :
         (Reply(r) /\ faults = 0 /\ job[r].s = s)
            => /\ RepliesDeleted(r) => Hidden(r, s)
               /\ RepliesErased(r) => Log(s) = {} /\ meta[s] = NoMeta
<1>1. RepliesInv => True
  <2> SUFFICES ASSUME RepliesInv, NEW r \in Replicas, NEW s \in Sessions,
                      faults = 0, job[r].s = s
               PROVE  /\ RepliesDeleted(r) => Hidden(r, s)
                      /\ RepliesErased(r) => Log(s) = {} /\ meta[s] = NoMeta
    OBVIOUS
  <2>1. call[r].op = "returned" =>
          /\ job[r].kind = "deleteThread" => Out(meta[s]) /\ Out(fallbackMeta[r][s])
          /\ job[r].kind = "deleteSession" =>
               /\ msgs[s] = {} /\ meta[s] = NoMeta
               /\ Held(r, s) = {} /\ fallbackMeta[r][s] = NoMeta
    BY DEF RepliesInv, RepliesHold
  <2>2. ASSUME RepliesDeleted(r)  PROVE Hidden(r, s)
    <3>1. Out(ThreadMeta(r, s, TRUE))
      BY <2>1, <2>2 DEF RepliesDeleted, Back, ThreadMeta
    <3>2. QED  BY <3>1 DEF Out, Hidden, ListThreads
  <2>3. ASSUME RepliesErased(r)  PROVE Log(s) = {} /\ meta[s] = NoMeta
    <3>1. msgs[s] = {} /\ meta[s] = NoMeta /\ Held(r, s) = {}
      BY <2>1, <2>3 DEF RepliesErased, Back
    <3>2. \A q \in Replicas : Held(q, s) = {}  BY <3>1, OneReplica DEF OneReplica
    <3>3. QED  BY <3>1, <3>2 DEF Log
  <2>4. QED  BY <2>2, <2>3
<1> HIDE DEF True
<1>2. RepliesInv => [True]_allVars  BY <1>1
<1>3. RepliesTrueWhenHealthy <=> [][True]_allVars  BY DEF RepliesTrueWhenHealthy, True
<1>4. QED  BY <1>2, <1>3, OneReplica, RepliesInvHolds, PTL
=============================================================================
