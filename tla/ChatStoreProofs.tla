--------------------------- MODULE ChatStoreProofs ---------------------------
(***************************************************************************)
(* Theorems about ChatStore, for every number of replicas, sessions,       *)
(* messages and faults.  The first part: its types, the calls and the      *)
(* breaker.  The second, about the documents it keeps: with any number of  *)
(* replicas no message that was acknowledged is lost, and message_count    *)
(* never overreports; with one replica (several overwrite each other's     *)
(* edits and counts) edits stick, and message_count is exact as long as    *)
(* nothing failed.                                                         *)
(***************************************************************************)
EXTENDS ChatStore, FiniteSetTheorems, TLAPS

USE DEF Roles, Edits, Idle, cosmos, memory

AnyMeta == MetaDoc \cup {NoMeta}
AnyUser == Users \cup {NoUser}
Calls == {Idle} \cup Returned \cup AddCall \cup EditCall \cup DeleteCall

\* A call's op tells its kind.
LEMMA CallKind ==
    ASSUME NEW c \in Calls
    PROVE  /\ c.op = "add" => c \in AddCall
           /\ c.op = "edit" => c \in EditCall
           /\ c.op = "delete" => c \in DeleteCall
           /\ c.op = "returned" => c \in Returned
           /\ c.op \in {"idle", "returned", "add", "edit", "delete"}
BY DEF Calls, Returned, AddCall, EditCall, DeleteCall

\* The session_meta helpers produce documents.
LEMMA FirstMetaType ==
    ASSUME NEW msg, NEW u \in AnyUser
    PROVE  FirstMeta(msg, u) \in MetaDoc
BY DEF AnyUser, MetaDoc, FirstMeta

LEMMA TouchedMetaType ==
    ASSUME NEW m \in MetaDoc, NEW u \in AnyUser
    PROVE  TouchedMeta(m, u) \in MetaDoc
<1>1. m.count \in Nat  BY DEF MetaDoc
<1>2. m.count + 1 \in Nat  BY <1>1
<1>3. QED  BY <1>2 DEF AnyUser, MetaDoc, TouchedMeta

LEMMA EditedMetaType ==
    ASSUME NEW m \in MetaDoc, NEW e
    PROVE  EditedMeta(m, e) \in MetaDoc
BY DEF MetaDoc, EditedMeta

\* Finishing a call, or moving it on, keeps it a call.
LEMMA FinishType ==
    ASSUME call \in [Replicas -> Calls], NEW r \in Replicas,
           NEW result \in {"ok", "missing"}, Finish(r, result)
    PROVE  call' \in [Replicas -> Calls]
BY DEF Finish, Calls, Returned

LEMMA GotoType ==
    ASSUME call \in [Replicas -> Calls], NEW r \in Replicas, NEW pc, Goto(r, pc),
           \/ /\ call[r].op = "add"
              /\ pc \in {"readMeta", "upsertMeta", "createMeta", "fallback"}
           \/ call[r].op = "edit" /\ pc \in {"upsertMeta", "fallback"}
           \/ call[r].op = "delete" /\ pc \in {"deleteItems", "fallback"}
    PROVE  call' \in [Replicas -> Calls]
<1>1. [call[r] EXCEPT !.pc = pc] \in Calls
  <2>1. CASE call[r].op = "add"
    <3>1. call[r] \in AddCall  BY <2>1, CallKind
    <3>2. QED  BY <2>1, <3>1 DEF Calls, AddCall
  <2>2. CASE call[r].op = "edit"
    <3>1. call[r] \in EditCall  BY <2>2, CallKind
    <3>2. QED  BY <2>2, <3>1 DEF Calls, EditCall
  <2>3. CASE call[r].op = "delete"
    <3>1. call[r] \in DeleteCall  BY <2>3, CallKind
    <3>2. QED  BY <2>3, <3>1 DEF Calls, DeleteCall
  <2>4. QED  BY <2>1, <2>2, <2>3
<1>2. QED  BY <1>1 DEF Goto

-----------------------------------------------------------------------------
(* Type correctness.                                                       *)

\* Deleting a document keeps the types of the three Cosmos variables.
LEMMA RemoveDocumentType ==
    ASSUME TypeOK, NEW s \in Sessions, NEW i, RemoveDocument(s, i)
    PROVE  /\ msgs' \in [Sessions -> SUBSET Message]
           /\ meta' \in [Sessions -> MetaDoc \cup {NoMeta}]
           /\ erased' \in [Sessions -> SUBSET Message]
<1>1. {m \in msgs[s] : m.id # i} \in SUBSET Message  BY DEF TypeOK
<1>2. erased[s] \cup {m \in msgs[s] : m.id = i} \in SUBSET Message  BY DEF TypeOK
<1>3. QED  BY <1>1, <1>2 DEF TypeOK, RemoveDocument

\* Type correctness alone is not inductive: that failures stays below the
\* threshold needs that a request is only made while the breaker is closed.
BreakerInv == TypeOK /\ OpenBreakerTouchesNoCosmos

\* Removing what a step may do to Cosmos, every part of TypeOK but the call
\* and Cosmos itself is untouched by these steps.
LEMMA UpsertedMeta ==
    ASSUME TypeOK, NEW r \in Replicas, call[r].op \in {"add", "edit"},
           meta' = [meta EXCEPT ![call[r].sid] = call[r].meta]
    PROVE  meta' \in [Sessions -> MetaDoc \cup {NoMeta}]
<1>1. call[r] \in AddCall \cup EditCall  BY CallKind DEF TypeOK, Calls
<1>2. call[r].meta \in MetaDoc \cup {NoMeta}  BY <1>1 DEF AddCall, EditCall
<1>3. QED  BY <1>2 DEF TypeOK

LEMMA UpsertedMessage ==
    ASSUME TypeOK, NEW r \in Replicas, call[r].op = "add",
           msgs' = [msgs EXCEPT ![call[r].sid] = @ \cup {call[r].msg}]
    PROVE  msgs' \in [Sessions -> SUBSET Message]
<1>1. call[r] \in AddCall  BY CallKind DEF TypeOK, Calls
<1>2. call[r].msg \in Message /\ call[r].sid \in Sessions  BY <1>1 DEF AddCall
<1>3. QED  BY <1>2 DEF TypeOK

LEMMA InitBreakerInv == Init => BreakerInv
<1> SUFFICES ASSUME Init PROVE BreakerInv  OBVIOUS
<1>1. TypeOK
  <2>1. <<>> \in Seq(Message)  OBVIOUS
  <2>2. QED  BY <2>1, ThresholdAssumption DEF Init, TypeOK
<1>2. OpenBreakerTouchesNoCosmos
  BY DEF Init, OpenBreakerTouchesNoCosmos, CosmosPcs
<1>3. QED  BY <1>1, <1>2 DEF BreakerInv

\* The breaker half of a step of replica r: r ends up outside Cosmos, or was
\* and stays in it with the breaker as it was.
LEMMA BreakerStep ==
    ASSUME TypeOK, OpenBreakerTouchesNoCosmos, NEW r \in Replicas,
           \A q \in Replicas \ {r} : /\ call'[q] = call[q]
                                     /\ available'[q] = available[q]
                                     /\ failures'[q] = failures[q],
           \/ call'[r].pc \notin CosmosPcs
           \/ /\ call[r].pc \in CosmosPcs \/ CosmosUp(r)
              /\ available'[r] = available[r] /\ failures'[r] = failures[r]
    PROVE  OpenBreakerTouchesNoCosmos'
BY DEF OpenBreakerTouchesNoCosmos, CosmosUp

LEMMA StartTypeOK ==
    ASSUME BreakerInv, NEW r \in Replicas, StoreCall(r)
    PROVE  BreakerInv'
<1> USE DEF BreakerInv, Entry
<1>1. PICK s \in Sessions :
        \/ \E u \in Users \cup {NoUser} : AddMessage(r, s, "user", u)
        \/ AddMessage(r, s, "assistant", NoUser)
        \/ \E edit \in Edits : EditThread(r, s, edit)
        \/ DeleteSession(r, s)
  BY DEF StoreCall
<1>2. ASSUME NEW role \in Roles, NEW u \in AnyUser, AddMessage(r, s, role, u)
      PROVE  BreakerInv'
  <2> DEFINE c == [op |-> "add", sid |-> s, msg |-> [id |-> clock + 1, role |-> role],
                   user |-> u, meta |-> NoMeta, pc |-> Entry(r, "upsertMessage")]
  <2>1. call' = [call EXCEPT ![r] = c] /\ UNCHANGED <<available, failures>>
    BY <1>2 DEF AddMessage
  <2>2. c \in AddCall
    BY DEF AddCall, TypeOK, AnyUser, Message
  <2>3. TypeOK'
    BY <1>2, <2>1, <2>2 DEF AddMessage, TypeOK
  <2>4. OpenBreakerTouchesNoCosmos'
    <3>1. call'[r].pc \notin CosmosPcs \/ CosmosUp(r)
      BY <2>1 DEF TypeOK, CosmosPcs
    <3>2. QED  BY <2>1, <3>1, BreakerStep DEF TypeOK
  <2>5. QED  BY <2>3, <2>4
<1>3. ASSUME NEW edit \in Edits, EditThread(r, s, edit)
      PROVE  BreakerInv'
  <2> DEFINE c == [op |-> "edit", sid |-> s, edit |-> edit, meta |-> NoMeta,
                   pc |-> Entry(r, "readMeta")]
  <2>1. call' = [call EXCEPT ![r] = c] /\ UNCHANGED <<available, failures>>
    BY <1>3 DEF EditThread
  <2>2. c \in EditCall
    BY DEF EditCall
  <2>3. TypeOK'
    BY <1>3, <2>1, <2>2 DEF EditThread, TypeOK
  <2>4. OpenBreakerTouchesNoCosmos'
    <3>1. call'[r].pc \notin CosmosPcs \/ CosmosUp(r)
      BY <2>1 DEF TypeOK, CosmosPcs
    <3>2. QED  BY <2>1, <3>1, BreakerStep DEF TypeOK
  <2>5. QED  BY <2>3, <2>4
<1>4. ASSUME DeleteSession(r, s)
      PROVE  BreakerInv'
  <2> DEFINE c == [op |-> "delete", sid |-> s, ids |-> {}, pc |-> Entry(r, "query")]
  <2>1. call' = [call EXCEPT ![r] = c] /\ UNCHANGED <<available, failures>>
    BY <1>4 DEF DeleteSession
  <2>2. c \in DeleteCall
    BY DEF DeleteCall
  <2>3. TypeOK'
    BY <1>4, <2>1, <2>2 DEF DeleteSession, TypeOK
  <2>4. OpenBreakerTouchesNoCosmos'
    <3>1. call'[r].pc \notin CosmosPcs \/ CosmosUp(r)
      BY <2>1 DEF TypeOK, CosmosPcs
    <3>2. QED  BY <2>1, <3>1, BreakerStep DEF TypeOK
  <2>5. QED  BY <2>3, <2>4
<1>5. QED  BY <1>1, <1>2, <1>3, <1>4 DEF AnyUser

\* A write that raised stored the prepared document or did nothing.
LEMMA MaybeUpsertedMeta ==
    ASSUME TypeOK, NEW r \in Replicas, call[r].op \in {"add", "edit"},
           meta' \in {meta} \cup (IF call[r].pc = "upsertMeta"
                                  THEN {[meta EXCEPT ![call[r].sid] = call[r].meta]}
                                  ELSE {})
    PROVE  meta' \in [Sessions -> MetaDoc \cup {NoMeta}]
<1>1. CASE meta' = meta  BY <1>1 DEF TypeOK
<1>2. CASE meta' = [meta EXCEPT ![call[r].sid] = call[r].meta]
  BY <1>2, UpsertedMeta
<1>3. QED  BY <1>1, <1>2

LEMMA AddStepTypeOK ==
    ASSUME BreakerInv, NEW r \in Replicas,
           \/ UpsertMessage(r) \/ ReadMeta(r) \/ WriteMeta(r) \/ MetaUpdateRaises(r)
           \/ AddRaises(r) \/ AddToFallback(r)
    PROVE  BreakerInv'
<1> USE DEF BreakerInv
<1>0. call \in [Replicas -> Calls]  BY DEF TypeOK, Calls
<1>a. call[r] \in AddCall
  BY <1>0, CallKind DEF At, UpsertMessage, ReadMeta, WriteMeta, MetaUpdateRaises,
                        AddRaises, AddToFallback
<1>b. /\ call[r].sid \in Sessions /\ call[r].msg \in Message
      /\ call[r].user \in AnyUser /\ call[r].op = "add"
  BY <1>a DEF AddCall, AnyUser
<1>c. failures[r] \in 0..Threshold /\ 0 \in 0..Threshold
  BY ThresholdAssumption DEF TypeOK
<1>1. CASE UpsertMessage(r)
  <2>1. msgs' \in [Sessions -> SUBSET Message]
    BY <1>1, <1>b, UpsertedMessage DEF UpsertMessage
  <2>2. call' \in [Replicas -> Calls]
    BY <1>0, <1>1, <1>b, GotoType DEF UpsertMessage
  <2>3. TypeOK'  BY <1>1, <2>1, <2>2 DEF UpsertMessage, TypeOK, Calls
  <2>4. OpenBreakerTouchesNoCosmos'
    BY <1>0, <1>1, BreakerStep DEF UpsertMessage, Goto, At, CosmosPcs
  <2>5. QED  BY <2>3, <2>4
<1>2. CASE ReadMeta(r)
  <2> DEFINE doc == meta[call[r].sid]
             next == IF doc = NoMeta THEN FirstMeta(call[r].msg, call[r].user)
                                     ELSE TouchedMeta(doc, call[r].user)
             pc == IF doc = NoMeta THEN "createMeta" ELSE "upsertMeta"
  <2>1. call' = [call EXCEPT ![r].meta = next, ![r].pc = pc]
    BY <1>2 DEF ReadMeta
  <2>2. doc \in MetaDoc \cup {NoMeta}  BY <1>b DEF TypeOK
  <2>3. next \in MetaDoc  BY <1>b, <2>2, FirstMetaType, TouchedMetaType
  <2>4. [call[r] EXCEPT !.meta = next, !.pc = pc] \in AddCall
    <3> HIDE DEF next, doc
    <3>1. pc \in {"createMeta", "upsertMeta"}  OBVIOUS
    <3> HIDE DEF pc
    <3>2. QED  BY <1>a, <2>3, <3>1 DEF AddCall
  <2>5. call' \in [Replicas -> Calls]
    <3> HIDE DEF next, pc
    <3>1. call' = [call EXCEPT ![r] = [call[r] EXCEPT !.meta = next, !.pc = pc]]
      BY <2>1
    <3>2. QED  BY <1>0, <2>4, <3>1 DEF Calls
  <2>6. TypeOK'  BY <1>2, <2>5 DEF ReadMeta, TypeOK, Calls
  <2>7. OpenBreakerTouchesNoCosmos'
    BY <1>0, <1>2, BreakerStep DEF ReadMeta, At, CosmosPcs
  <2>8. QED  BY <2>6, <2>7
<1>3. CASE WriteMeta(r)
  <2>1. meta' \in [Sessions -> MetaDoc \cup {NoMeta}]
    BY <1>3, <1>b, UpsertedMeta DEF WriteMeta
  <2>2. call' \in [Replicas -> Calls]
    BY <1>0, <1>3, FinishType DEF WriteMeta
  <2>3. TypeOK'  BY <1>3, <1>c, <2>1, <2>2 DEF WriteMeta, TypeOK, Calls
  <2>4. OpenBreakerTouchesNoCosmos'
    BY <1>0, <1>3, BreakerStep DEF WriteMeta, Finish, CosmosPcs, TypeOK
  <2>5. QED  BY <2>3, <2>4
<1>4. CASE MetaUpdateRaises(r)
  <2>1. meta' \in [Sessions -> MetaDoc \cup {NoMeta}]
    BY <1>4, <1>b, MaybeUpsertedMeta DEF MetaUpdateRaises
  <2>2. call' \in [Replicas -> Calls]
    BY <1>0, <1>4, FinishType DEF MetaUpdateRaises
  <2>3. TypeOK'
    <3>1. /\ UNCHANGED <<msgs, erased, memory, available, clock>>
          /\ faults' = faults + 1
          /\ failures' = [failures EXCEPT ![r] = 0]
      BY <1>4 DEF MetaUpdateRaises, Fault
    <3>2. QED  BY <1>c, <2>1, <2>2, <3>1 DEF TypeOK, Calls
  <2>4. OpenBreakerTouchesNoCosmos'
    BY <1>0, <1>4, BreakerStep DEF MetaUpdateRaises, Finish, CosmosPcs, TypeOK
  <2>5. QED  BY <2>3, <2>4
<1>5. CASE AddRaises(r)
  <2>1. msgs' \in [Sessions -> SUBSET Message]
    BY <1>5, <1>b, UpsertedMessage DEF AddRaises, TypeOK
  <2>2. meta' \in [Sessions -> MetaDoc \cup {NoMeta}]
    BY <1>5, <1>b, UpsertedMeta DEF AddRaises, TypeOK
  <2>3. call' \in [Replicas -> Calls]
    BY <1>0, <1>5, <1>b, GotoType DEF AddRaises
  <2>4. failures' \in [Replicas -> 0..Threshold]
    <3>1. failures[r] < Threshold
      BY <1>5 DEF AddRaises, At, CosmosPcs, CosmosUp, OpenBreakerTouchesNoCosmos
    <3>2. failures[r] + 1 \in 0..Threshold
      BY <1>c, <3>1, ThresholdAssumption
    <3>3. QED  BY <1>5, <3>2 DEF AddRaises, TypeOK
  <2>5. TypeOK'
    <3>1. UNCHANGED <<erased, memory, available, clock>> /\ faults' = faults + 1
      BY <1>5 DEF AddRaises, Fault
    <3>2. QED  BY <2>1, <2>2, <2>3, <2>4, <3>1 DEF TypeOK, Calls
  <2>6. OpenBreakerTouchesNoCosmos'
    BY <1>0, <1>5, BreakerStep DEF AddRaises, Goto, CosmosPcs, TypeOK
  <2>7. QED  BY <2>5, <2>6
<1>6. CASE AddToFallback(r)
  <2> DEFINE s == call[r].sid
             doc == fallbackMeta[r][s]
             next == IF doc = NoMeta THEN FirstMeta(call[r].msg, call[r].user)
                                     ELSE TouchedMeta(doc, call[r].user)
  <2>1. doc \in MetaDoc \cup {NoMeta}  BY <1>b DEF TypeOK
  <2>2. next \in MetaDoc  BY <1>b, <2>1, FirstMetaType, TouchedMetaType
  <2>3. fallbackMeta' \in [Replicas -> [Sessions -> MetaDoc \cup {NoMeta}]]
    <3>1. fallbackMeta' = [fallbackMeta EXCEPT ![r][s] = next]
      BY <1>6 DEF AddToFallback
    <3> HIDE DEF next
    <3>2. QED  BY <1>b, <2>2, <3>1 DEF TypeOK
  <2>4. fallback' \in [Replicas -> [Sessions -> Seq(Message)]]
    <3>1. Append(fallback[r][s], call[r].msg) \in Seq(Message)
      BY <1>b DEF TypeOK
    <3>2. QED  BY <1>6, <1>b, <3>1 DEF AddToFallback, WithMessage, TypeOK
  <2>5. call' \in [Replicas -> Calls]
    BY <1>0, <1>6, FinishType DEF AddToFallback
  <2>6. TypeOK'  BY <1>6, <2>3, <2>4, <2>5 DEF AddToFallback, TypeOK, Calls
  <2>7. OpenBreakerTouchesNoCosmos'
    BY <1>0, <1>6, BreakerStep DEF AddToFallback, Finish, CosmosPcs, TypeOK
  <2>8. QED  BY <2>6, <2>7
<1>7. QED  BY <1>1, <1>2, <1>3, <1>4, <1>5, <1>6

LEMMA EditStepTypeOK ==
    ASSUME BreakerInv, NEW r \in Replicas,
           EditReadMeta(r) \/ EditWriteMeta(r) \/ EditRaises(r) \/ EditFallback(r)
    PROVE  BreakerInv'
<1> USE DEF BreakerInv
<1>0. call \in [Replicas -> Calls]  BY DEF TypeOK, Calls
<1>a. call[r] \in EditCall /\ call[r].op = "edit"
  BY <1>0, CallKind DEF At, EditReadMeta, EditWriteMeta, EditRaises, EditFallback
<1>b. call[r].sid \in Sessions  BY <1>a DEF EditCall
<1>1. CASE EditReadMeta(r)
  <2> DEFINE doc == meta[call[r].sid]
             next == EditedMeta(doc, call[r].edit)
  <2>1. doc \in MetaDoc \cup {NoMeta}  BY <1>b DEF TypeOK
  <2>2. call' \in [Replicas -> Calls]
    <3>1. CASE doc = NoMeta
      <4>1. Finish(r, "missing")  BY <1>1, <3>1 DEF EditReadMeta
      <4>2. QED  BY <1>0, <4>1, FinishType
    <3>2. CASE doc # NoMeta
      <4>1. next \in MetaDoc  BY <2>1, <3>2, EditedMetaType
      <4>2. call' = [call EXCEPT ![r].meta = next, ![r].pc = "upsertMeta"]
        BY <1>1, <3>2 DEF EditReadMeta
      <4> HIDE DEF next
      <4>3. [call[r] EXCEPT !.meta = next, !.pc = "upsertMeta"] \in EditCall
        BY <1>a, <4>1 DEF EditCall
      <4>4. call' = [call EXCEPT ![r] =
                        [call[r] EXCEPT !.meta = next, !.pc = "upsertMeta"]]
        BY <4>2
      <4>5. QED  BY <1>0, <4>3, <4>4 DEF Calls
    <3>3. QED  BY <3>1, <3>2
  <2>3. TypeOK'  BY <1>1, <2>2 DEF EditReadMeta, TypeOK, Calls
  <2>4. OpenBreakerTouchesNoCosmos'
    BY <1>0, <1>1, BreakerStep DEF EditReadMeta, Finish, At, CosmosPcs
  <2>5. QED  BY <2>3, <2>4
<1>2. CASE EditWriteMeta(r)
  <2>1. meta' \in [Sessions -> MetaDoc \cup {NoMeta}]
    BY <1>2, <1>a, UpsertedMeta DEF EditWriteMeta
  <2>2. call' \in [Replicas -> Calls]
    BY <1>0, <1>2, FinishType DEF EditWriteMeta
  <2>3. TypeOK'  BY <1>2, <2>1, <2>2 DEF EditWriteMeta, TypeOK, Calls
  <2>4. OpenBreakerTouchesNoCosmos'
    BY <1>0, <1>2, BreakerStep DEF EditWriteMeta, Finish, CosmosPcs
  <2>5. QED  BY <2>3, <2>4
<1>3. CASE EditRaises(r)
  <2>1. meta' \in [Sessions -> MetaDoc \cup {NoMeta}]
    BY <1>3, <1>a, MaybeUpsertedMeta DEF EditRaises
  <2>2. call' \in [Replicas -> Calls]
    BY <1>0, <1>3, <1>a, GotoType DEF EditRaises
  <2>3. TypeOK'
    <3>1. /\ UNCHANGED <<msgs, erased, memory, available, failures, clock>>
          /\ faults' = faults + 1
      BY <1>3 DEF EditRaises, Fault
    <3>2. QED  BY <2>1, <2>2, <3>1 DEF TypeOK, Calls
  <2>4. OpenBreakerTouchesNoCosmos'
    BY <1>0, <1>3, BreakerStep DEF EditRaises, Goto, CosmosPcs
  <2>5. QED  BY <2>3, <2>4
<1>4. CASE EditFallback(r)
  <2> DEFINE s == call[r].sid
             doc == fallbackMeta[r][s]
             next == EditedMeta(doc, call[r].edit)
  <2>1. doc \in MetaDoc \cup {NoMeta}  BY <1>b DEF TypeOK
  <2>2. fallbackMeta' \in [Replicas -> [Sessions -> MetaDoc \cup {NoMeta}]]
    <3>1. CASE doc = NoMeta  BY <1>4, <3>1 DEF EditFallback, TypeOK
    <3>2. CASE doc # NoMeta
      <4>1. next \in MetaDoc  BY <2>1, <3>2, EditedMetaType
      <4>2. fallbackMeta' = [fallbackMeta EXCEPT ![r][s] = next]
        BY <1>4, <3>2 DEF EditFallback
      <4> HIDE DEF next
      <4>3. QED  BY <1>b, <4>1, <4>2 DEF TypeOK
    <3>3. QED  BY <3>1, <3>2
  <2>3. \E result \in {"ok", "missing"} : Finish(r, result)
    BY <1>4 DEF EditFallback
  <2>4. call' \in [Replicas -> Calls]  BY <1>0, <2>3, FinishType
  <2>5. TypeOK'  BY <1>4, <2>2, <2>4 DEF EditFallback, TypeOK, Calls
  <2>6. OpenBreakerTouchesNoCosmos'
    BY <1>0, <1>4, <2>3, BreakerStep DEF EditFallback, Finish, CosmosPcs
  <2>7. QED  BY <2>5, <2>6
<1>5. QED  BY <1>1, <1>2, <1>3, <1>4

LEMMA DeleteStepTypeOK ==
    ASSUME BreakerInv, NEW r \in Replicas,
           \/ QueryIds(r) \/ DeleteItem(r) \/ DeleteReturns(r)
           \/ DeleteNotFound(r) \/ DeleteRaises(r) \/ DeleteFromFallback(r)
    PROVE  BreakerInv'
<1> USE DEF BreakerInv
<1>0. call \in [Replicas -> Calls]  BY DEF TypeOK, Calls
<1>a. call[r] \in DeleteCall /\ call[r].op = "delete"
  BY <1>0, CallKind DEF At, QueryIds, DeleteItem, DeleteReturns, DeleteNotFound, FallsBack,
                        DeleteRaises, DeleteFromFallback
<1>b. call[r].sid \in Sessions /\ call[r].ids \in SUBSET Nat  BY <1>a DEF DeleteCall
<1>1. CASE QueryIds(r)
  <2> DEFINE ids == DocumentIds(call[r].sid)
  <2>1. ids \in SUBSET Nat
    BY <1>b DEF DocumentIds, MetaId, TypeOK, Message
  <2>2. call' = [call EXCEPT ![r].ids = ids, ![r].pc = "deleteItems"]
    BY <1>1 DEF QueryIds
  <2> HIDE DEF ids
  <2>3. [call[r] EXCEPT !.ids = ids, !.pc = "deleteItems"] \in DeleteCall
    BY <1>a, <2>1 DEF DeleteCall
  <2>4. call' = [call EXCEPT ![r] = [call[r] EXCEPT !.ids = ids, !.pc = "deleteItems"]]
    BY <2>2
  <2>5. call' \in [Replicas -> Calls]  BY <1>0, <2>3, <2>4 DEF Calls
  <2>6. TypeOK'  BY <1>1, <2>5 DEF QueryIds, TypeOK, Calls
  <2>7. OpenBreakerTouchesNoCosmos'
    BY <1>0, <1>1, <2>4, BreakerStep DEF QueryIds, At, CosmosPcs
  <2>8. QED  BY <2>6, <2>7
<1>2. CASE DeleteItem(r)
  <2>1. PICK i \in call[r].ids \cap DocumentIds(call[r].sid) :
          /\ RemoveDocument(call[r].sid, i)
          /\ call' = [call EXCEPT ![r].ids = @ \ {i}]
    BY <1>2 DEF DeleteItem
  <2> DEFINE rest == call[r].ids \ {i}
  <2>2. [call[r] EXCEPT !.ids = rest] \in DeleteCall
    <3>1. rest \in SUBSET Nat  BY <1>b
    <3> HIDE DEF rest
    <3>2. QED  BY <1>a, <3>1 DEF DeleteCall
  <2>3. call' = [call EXCEPT ![r] = [call[r] EXCEPT !.ids = rest]]
    BY <2>1
  <2>4. call' \in [Replicas -> Calls]  BY <1>0, <2>2, <2>3 DEF Calls
  <2>5. UNCHANGED <<memory, available, failures, clock, faults>>
    BY <1>2 DEF DeleteItem
  <2>6. TypeOK'  BY <1>b, <2>1, <2>4, <2>5, RemoveDocumentType DEF TypeOK, Calls
  <2>7. OpenBreakerTouchesNoCosmos'
    BY <1>0, <1>2, <2>3, <2>5, BreakerStep DEF DeleteItem, At, CosmosPcs
  <2>8. QED  BY <2>6, <2>7
<1>3. CASE DeleteReturns(r)
  <2>1. call' \in [Replicas -> Calls]
    BY <1>0, <1>3, FinishType DEF DeleteReturns
  <2>2. TypeOK'  BY <1>3, <2>1 DEF DeleteReturns, TypeOK, Calls
  <2>3. OpenBreakerTouchesNoCosmos'
    BY <1>0, <1>3, BreakerStep DEF DeleteReturns, Finish, CosmosPcs
  <2>4. QED  BY <2>2, <2>3
<1>4. CASE DeleteNotFound(r)
  <2>1. call' \in [Replicas -> Calls]
    BY <1>0, <1>4, <1>a, GotoType DEF DeleteNotFound, FallsBack
  <2>2. TypeOK'  BY <1>4, <2>1 DEF DeleteNotFound, FallsBack, TypeOK, Calls
  <2>3. OpenBreakerTouchesNoCosmos'
    BY <1>0, <1>4, BreakerStep DEF DeleteNotFound, FallsBack, Goto, CosmosPcs
  <2>4. QED  BY <2>2, <2>3
<1>5. CASE DeleteRaises(r)
  <2>1. /\ msgs' \in [Sessions -> SUBSET Message]
        /\ meta' \in [Sessions -> MetaDoc \cup {NoMeta}]
        /\ erased' \in [Sessions -> SUBSET Message]
    <3>1. CASE UNCHANGED cosmos  BY <3>1 DEF TypeOK
    <3>2. ASSUME NEW i, RemoveDocument(call[r].sid, i)
          PROVE  <2>1!:
      BY <1>b, <3>2, RemoveDocumentType
    <3>3. QED  BY <1>5, <3>1, <3>2 DEF DeleteRaises, FallsBack
  <2>2. call' \in [Replicas -> Calls]
    BY <1>0, <1>5, <1>a, GotoType DEF DeleteRaises, FallsBack
  <2>3. TypeOK'
    <3>1. UNCHANGED <<memory, available, failures, clock>> /\ faults' = faults + 1
      BY <1>5 DEF DeleteRaises, FallsBack, Fault
    <3>2. QED  BY <2>1, <2>2, <3>1 DEF TypeOK, Calls
  <2>4. OpenBreakerTouchesNoCosmos'
    BY <1>0, <1>5, BreakerStep DEF DeleteRaises, FallsBack, Goto, CosmosPcs
  <2>5. QED  BY <2>3, <2>4
<1>6. CASE DeleteFromFallback(r)
  <2>1. fallback' \in [Replicas -> [Sessions -> Seq(Message)]]
    <3>1. <<>> \in Seq(Message)  OBVIOUS
    <3>2. QED  BY <1>6, <1>b, <3>1 DEF DeleteFromFallback, TypeOK
  <2>2. fallbackMeta' \in [Replicas -> [Sessions -> MetaDoc \cup {NoMeta}]]
    BY <1>6, <1>b DEF DeleteFromFallback, TypeOK
  <2>3. call' \in [Replicas -> Calls]
    BY <1>0, <1>6, FinishType DEF DeleteFromFallback
  <2>4. TypeOK'  BY <1>6, <2>1, <2>2, <2>3 DEF DeleteFromFallback, TypeOK, Calls
  <2>5. OpenBreakerTouchesNoCosmos'
    BY <1>0, <1>6, BreakerStep DEF DeleteFromFallback, Finish, CosmosPcs
  <2>6. QED  BY <2>4, <2>5
<1>7. QED  BY <1>1, <1>2, <1>3, <1>4, <1>5, <1>6

LEMMA ProcessStepTypeOK ==
    ASSUME BreakerInv, NEW r \in Replicas, Return(r) \/ Restart(r)
    PROVE  BreakerInv'
<1> USE DEF BreakerInv
<1>1. CASE Return(r)
  <2>1. TypeOK'  BY <1>1 DEF Return, TypeOK
  <2>2. OpenBreakerTouchesNoCosmos'
    BY <1>1, BreakerStep DEF Return, CosmosPcs, TypeOK
  <2>3. QED  BY <2>1, <2>2
<1>2. CASE Restart(r)
  <2>1. PICK up \in BOOLEAN : available' = [available EXCEPT ![r] = up]
    BY <1>2 DEF Restart
  <2>2. TypeOK'
    <3>1. <<>> \in Seq(Message) /\ 0 \in 0..Threshold
      BY ThresholdAssumption
    <3>2. [s \in Sessions |-> <<>>] \in [Sessions -> Seq(Message)]
      BY <3>1
    <3>3. [s \in Sessions |-> NoMeta] \in [Sessions -> MetaDoc \cup {NoMeta}]
      OBVIOUS
    <3>4. /\ fallback' \in [Replicas -> [Sessions -> Seq(Message)]]
          /\ fallbackMeta' \in [Replicas -> [Sessions -> MetaDoc \cup {NoMeta}]]
      BY <1>2, <3>2, <3>3 DEF Restart, TypeOK
    <3>5. available' \in [Replicas -> BOOLEAN]  BY <2>1 DEF TypeOK
    <3>6. /\ UNCHANGED <<cosmos, clock>> /\ faults' = faults + 1
          /\ failures' = [failures EXCEPT ![r] = 0]
          /\ call' = [call EXCEPT ![r] = Idle]
      BY <1>2 DEF Restart, Fault
    <3>7. QED  BY <3>1, <3>4, <3>5, <3>6 DEF TypeOK
  <2>3. OpenBreakerTouchesNoCosmos'
    BY <1>2, <2>1, BreakerStep DEF Restart, CosmosPcs, TypeOK
  <2>4. QED  BY <2>2, <2>3
<1>3. QED  BY <1>1, <1>2

LEMMA NextBreakerInv == BreakerInv /\ [Next]_vars => BreakerInv'
<1> SUFFICES ASSUME BreakerInv, [Next]_vars PROVE BreakerInv'  OBVIOUS
<1>1. ASSUME NEW r \in Replicas, StoreCall(r) \/ StoreStep(r) \/ Return(r) \/ Restart(r)
      PROVE  BreakerInv'
  BY <1>1, StartTypeOK, AddStepTypeOK, EditStepTypeOK, DeleteStepTypeOK,
     ProcessStepTypeOK DEF StoreStep
<1>2. CASE UNCHANGED vars
  BY <1>2 DEF vars, BreakerInv, TypeOK, OpenBreakerTouchesNoCosmos, CosmosUp
<1>3. QED  BY <1>1, <1>2 DEF Next

\* Every reachable state is of the right type; in particular the failure
\* counter of a replica never passes the threshold of the breaker.
THEOREM TypeCorrect == Spec => []TypeOK
<1>1. Spec => []BreakerInv  BY InitBreakerInv, NextBreakerInv, PTL DEF Spec
<1>2. BreakerInv => TypeOK  BY DEF BreakerInv
<1>3. QED  BY <1>1, <1>2, PTL

\* A replica whose breaker is open is never inside a Cosmos request, for any
\* number of replicas and any threshold.
THEOREM BreakerShieldsCosmos == Spec => []OpenBreakerTouchesNoCosmos
<1>1. Spec => []BreakerInv  BY InitBreakerInv, NextBreakerInv, PTL DEF Spec
<1>2. BreakerInv => OpenBreakerTouchesNoCosmos  BY DEF BreakerInv
<1>3. QED  BY <1>1, <1>2, PTL

\* An open breaker closes only when its process restarts: no success of another
\* method resets the counter.
THEOREM BreakerStaysOpen == Spec => BreakerOpensUntilRestart
<1> DEFINE Stays == \A r \in Replicas :
              failures[r] = Threshold => failures'[r] = Threshold \/ Restart(r)
<1>1. ASSUME BreakerInv, Next  PROVE Stays
  <2> SUFFICES ASSUME NEW r \in Replicas, failures[r] = Threshold, ~Restart(r)
               PROVE  failures'[r] = Threshold
    OBVIOUS
  <2>1. PICK q \in Replicas : StoreCall(q) \/ StoreStep(q) \/ Return(q) \/ Restart(q)
    BY <1>1 DEF Next
  <2>2. ~CosmosUp(r) /\ failures \in [Replicas -> 0..Threshold]
    BY <1>1, ThresholdAssumption DEF CosmosUp, BreakerInv, TypeOK
  <2>3. CASE WriteMeta(q) \/ MetaUpdateRaises(q) \/ AddRaises(q)
    <3>1. call[q].pc \in CosmosPcs
      BY <2>3 DEF WriteMeta, MetaUpdateRaises, AddRaises, At, CosmosPcs
    <3>2. q # r
      BY <1>1, <2>2, <3>1 DEF BreakerInv, OpenBreakerTouchesNoCosmos
    <3>3. QED  BY <2>2, <2>3, <3>2 DEF WriteMeta, MetaUpdateRaises, AddRaises
  <2>4. CASE Restart(q)
    BY <2>2, <2>4 DEF Restart
  <2>5. QED
    BY <2>1, <2>3, <2>4 DEF StoreCall, AddMessage, EditThread, DeleteSession,
       StoreStep, UpsertMessage, ReadMeta, AddToFallback, EditReadMeta,
       EditWriteMeta, EditRaises, EditFallback, QueryIds, DeleteItem,
       DeleteReturns, DeleteNotFound, FallsBack, DeleteRaises, DeleteFromFallback, Return
<1>2. ASSUME UNCHANGED vars  PROVE Stays  BY <1>2 DEF vars
<1>3. BreakerInv /\ [Next]_vars => [Stays]_vars  BY <1>1, <1>2
<1>4. QED
  BY <1>3, InitBreakerInv, NextBreakerInv, PTL DEF Spec, BreakerOpensUntilRestart

-----------------------------------------------------------------------------
(* The inductive invariant.                                                *)

\* The messages of a session that were ever written to Cosmos.
Written(s) == msgs[s] \cup erased[s]

\* The written messages whose add call has yet to look at the session_meta
\* document, and those that may already be in a message_count.
Uncounted(s) == {call[r].msg : r \in {q \in Replicas : /\ At(q, "add", "readMeta")
                                                       /\ call[q].sid = s}}
Counted(s) == Written(s) \ Uncounted(s)

\* An add call past its first request wrote its message.
WrittenBeforeMeta ==
    \A r \in Replicas, s \in Sessions :
        (/\ call[r].op = "add" /\ call[r].sid = s
         /\ call[r].pc \in {"readMeta", "upsertMeta", "createMeta"})
            => call[r].msg \in Written(s)

\* Message numbers were handed out by the clock, and to one call each.
NumbersAreIssued ==
    /\ \A s \in Sessions : \A m \in Written(s) : m.id <= clock
    /\ \A r \in Replicas : call[r].op = "add" => call[r].msg.id <= clock
    /\ \A r, q \in Replicas :
          (r # q /\ call[r].op = "add" /\ call[q].op = "add")
              => call[r].msg.id # call[q].msg.id

\* A call that is about to write its message has not written it.
PendingIsFresh ==
    \A r \in Replicas, s \in Sessions :
        At(r, "add", "upsertMessage") => call[r].msg \notin Written(s)

\* Every version of a document, stored or prepared, counts messages that are
\* in Cosmos and whose calls are past the reading of the document.
VersionsCount ==
    /\ \A s \in Sessions :
          meta[s] # NoMeta => meta[s].count <= Cardinality(Counted(s))
    /\ \A r \in Replicas, s \in Sessions :
          (/\ call[r].op \in {"add", "edit"} /\ call[r].sid = s
           /\ call[r].pc \in {"upsertMeta", "createMeta"})
              => /\ call[r].meta # NoMeta
                 /\ call[r].meta.count <= Cardinality(Counted(s))

FiniteHistory == \A s \in Sessions : IsFiniteSet(Written(s))

HistoryInv ==
    /\ BreakerInv
    /\ WrittenBeforeMeta
    /\ NumbersAreIssued
    /\ PendingIsFresh
    /\ FiniteHistory
    /\ VersionsCount

-----------------------------------------------------------------------------
(* What a step of replica r may do to the history and to its call.         *)

StepShape(r) ==
    /\ \A q \in Replicas \ {r} : call'[q] = call[q]
    /\ clock' \in {clock, clock + 1}
    /\ \A s \in Sessions :
          /\ Written(s) \subseteq Written(s)'
          /\ Written(s)' \subseteq
                Written(s) \cup (IF At(r, "add", "upsertMessage") /\ call[r].sid = s
                                 THEN {call[r].msg} ELSE {})
    /\ call'[r].op = "add" =>
          \/ /\ call[r].op = "idle"
             /\ clock' = clock + 1 /\ call'[r].msg.id = clock'
             /\ call'[r].pc \in {"upsertMessage", "fallback"}
          \/ /\ call[r].op = "add"
             /\ call'[r].msg = call[r].msg /\ call'[r].sid = call[r].sid
             /\ call'[r].pc # "upsertMessage"
             /\ call'[r].pc = "readMeta"
                   => /\ call[r].pc = "upsertMessage"
                      /\ \A s \in Sessions :
                            call[r].sid = s => call[r].msg \in Written(s)'
             /\ call'[r].pc \in {"upsertMeta", "createMeta"} => call[r].pc = "readMeta"

\* Removing a document keeps its message in the history.
LEMMA RemoveDocumentWritten ==
    ASSUME TypeOK, NEW s \in Sessions, NEW i, RemoveDocument(s, i), NEW t \in Sessions
    PROVE  Written(t)' = Written(t)
BY DEF TypeOK, RemoveDocument, Written

LEMMA StartShape ==
    ASSUME BreakerInv, NEW r \in Replicas, StoreCall(r)
    PROVE  StepShape(r)
<1>1. PICK s \in Sessions :
        \/ \E u \in Users \cup {NoUser} : AddMessage(r, s, "user", u)
        \/ AddMessage(r, s, "assistant", NoUser)
        \/ \E edit \in Edits : EditThread(r, s, edit)
        \/ DeleteSession(r, s)
  BY DEF StoreCall
<1>2. ASSUME NEW role, NEW u, AddMessage(r, s, role, u)
      PROVE  StepShape(r)
  <2>1. Entry(r, "upsertMessage") \in {"upsertMessage", "fallback"}
    BY DEF Entry
  <2>2. QED
    BY <1>2, <2>1 DEF AddMessage, BreakerInv, TypeOK, StepShape, Written
<1>3. ASSUME NEW edit, EditThread(r, s, edit)
      PROVE  StepShape(r)
  BY <1>3 DEF EditThread, BreakerInv, TypeOK, StepShape, Written
<1>4. CASE DeleteSession(r, s)
  BY <1>4 DEF DeleteSession, BreakerInv, TypeOK, StepShape, Written
<1>5. QED  BY <1>1, <1>2, <1>3, <1>4

LEMMA AddStepShape ==
    ASSUME BreakerInv, NEW r \in Replicas,
           \/ UpsertMessage(r) \/ ReadMeta(r) \/ WriteMeta(r) \/ MetaUpdateRaises(r)
           \/ AddRaises(r) \/ AddToFallback(r)
    PROVE  StepShape(r)
<1> USE DEF StepShape, Written, At
<1>0. call \in [Replicas -> Calls] /\ clock \in Nat
  BY DEF BreakerInv, TypeOK, Calls
<1>a. call[r] \in AddCall /\ call[r].op = "add"
  BY <1>0, CallKind DEF UpsertMessage, ReadMeta, WriteMeta, MetaUpdateRaises,
                        AddRaises, AddToFallback
<1>b. call[r].sid \in Sessions  BY <1>a DEF AddCall
<1>c. msgs \in [Sessions -> SUBSET Message]  BY DEF BreakerInv, TypeOK
<1>1. CASE UpsertMessage(r)
  BY <1>0, <1>a, <1>b, <1>c, <1>1 DEF UpsertMessage, Goto
<1>2. CASE ReadMeta(r)
  <2>1. \E next, pc : /\ call' = [call EXCEPT ![r].meta = next, ![r].pc = pc]
                      /\ pc \in {"createMeta", "upsertMeta"}
    BY <1>2 DEF ReadMeta
  <2>2. /\ \A q \in Replicas \ {r} : call'[q] = call[q]
        /\ call'[r].msg = call[r].msg /\ call'[r].sid = call[r].sid
        /\ call'[r].pc \in {"createMeta", "upsertMeta"}
    BY <1>0, <1>a, <2>1 DEF AddCall
  <2>3. QED  BY <1>a, <1>2, <2>2 DEF ReadMeta
<1>3. CASE WriteMeta(r)
  BY <1>0, <1>3 DEF WriteMeta, Finish
<1>4. CASE MetaUpdateRaises(r)
  BY <1>0, <1>4 DEF MetaUpdateRaises, Finish
<1>5. CASE AddRaises(r)
  <2>1. /\ call' = [call EXCEPT ![r].pc = "fallback"]
        /\ UNCHANGED <<clock, erased>>
        /\ \/ UNCHANGED msgs
           \/ /\ call[r].pc = "upsertMessage"
              /\ msgs' = [msgs EXCEPT ![call[r].sid] = @ \cup {call[r].msg}]
    BY <1>5 DEF AddRaises, Goto
  <2>2. QED  BY <1>0, <1>a, <1>b, <1>c, <2>1
<1>6. CASE AddToFallback(r)
  BY <1>0, <1>6 DEF AddToFallback, Finish
<1>7. QED  BY <1>1, <1>2, <1>3, <1>4, <1>5, <1>6

LEMMA EditStepShape ==
    ASSUME BreakerInv, NEW r \in Replicas,
           EditReadMeta(r) \/ EditWriteMeta(r) \/ EditRaises(r) \/ EditFallback(r)
    PROVE  StepShape(r)
<1>0. call \in [Replicas -> Calls]  BY DEF BreakerInv, TypeOK, Calls
<1>1. call[r].op = "edit" /\ UNCHANGED <<msgs, erased, clock>>
  BY DEF At, EditReadMeta, EditWriteMeta, EditRaises, EditFallback
<1>2. call[r] \in EditCall  BY <1>0, <1>1, CallKind
<1>3. /\ \A q \in Replicas \ {r} : call'[q] = call[q]
      /\ call'[r].op # "add"
  <2>1. ASSUME NEW next, call' = [call EXCEPT ![r].meta = next, ![r].pc = "upsertMeta"]
        PROVE  <1>3!:
    BY <1>0, <1>1, <1>2, <2>1 DEF EditCall
  <2>2. ASSUME NEW result, Finish(r, result)  PROVE  <1>3!:
    BY <1>0, <2>2 DEF Finish
  <2>3. ASSUME NEW pc, Goto(r, pc)  PROVE  <1>3!:
    BY <1>0, <1>1, <1>2, <2>3 DEF Goto, EditCall
  <2>4. QED
    BY <2>1, <2>2, <2>3 DEF EditReadMeta, EditWriteMeta, EditRaises, EditFallback
<1>4. QED  BY <1>1, <1>3 DEF StepShape, Written

LEMMA DeleteStepShape ==
    ASSUME BreakerInv, NEW r \in Replicas,
           \/ QueryIds(r) \/ DeleteItem(r) \/ DeleteReturns(r)
           \/ DeleteNotFound(r) \/ DeleteRaises(r) \/ DeleteFromFallback(r)
    PROVE  StepShape(r)
<1>0. call \in [Replicas -> Calls] /\ TypeOK  BY DEF BreakerInv, TypeOK, Calls
<1>1. call[r].op = "delete" /\ UNCHANGED clock
  BY DEF At, QueryIds, DeleteItem, DeleteReturns, DeleteNotFound, FallsBack, DeleteRaises,
         DeleteFromFallback
<1>2. call[r] \in DeleteCall  BY <1>0, <1>1, CallKind
<1>3. /\ \A q \in Replicas \ {r} : call'[q] = call[q]
      /\ call'[r].op # "add"
  <2>1. ASSUME NEW ids, call' = [call EXCEPT ![r].ids = ids, ![r].pc = "deleteItems"]
        PROVE  <1>3!:
    BY <1>0, <1>1, <1>2, <2>1 DEF DeleteCall
  <2>2. ASSUME NEW i, call' = [call EXCEPT ![r].ids = @ \ {i}]
        PROVE  <1>3!:
    BY <1>0, <1>1, <1>2, <2>2 DEF DeleteCall
  <2>3. ASSUME NEW result, Finish(r, result)  PROVE  <1>3!:
    BY <1>0, <2>3 DEF Finish
  <2>4. ASSUME NEW pc, Goto(r, pc)  PROVE  <1>3!:
    BY <1>0, <1>1, <1>2, <2>4 DEF Goto, DeleteCall
  <2>5. QED
    BY <2>1, <2>2, <2>3, <2>4 DEF QueryIds, DeleteItem, DeleteReturns,
       DeleteNotFound, FallsBack, DeleteRaises, DeleteFromFallback
<1>4. \A s \in Sessions : Written(s)' = Written(s)
  <2>1. CASE UNCHANGED <<msgs, erased>>  BY <2>1 DEF Written
  <2>2. CASE \E i : RemoveDocument(call[r].sid, i)
    BY <1>0, <1>2, <2>2, RemoveDocumentWritten DEF DeleteCall
  <2>3. QED
    BY <2>1, <2>2 DEF QueryIds, DeleteItem, DeleteReturns, DeleteNotFound, FallsBack,
                      DeleteRaises, DeleteFromFallback
<1>5. QED  BY <1>1, <1>3, <1>4 DEF StepShape

LEMMA ProcessStepShape ==
    ASSUME BreakerInv, NEW r \in Replicas, Return(r) \/ Restart(r)
    PROVE  StepShape(r)
BY DEF BreakerInv, TypeOK, Return, Restart, StepShape, Written

Step(r) == StoreCall(r) \/ StoreStep(r) \/ Return(r) \/ Restart(r)

LEMMA EveryStepHasShape ==
    ASSUME BreakerInv, NEW r \in Replicas, Step(r)
    PROVE  StepShape(r)
BY StartShape, AddStepShape, EditStepShape, DeleteStepShape, ProcessStepShape
   DEF Step, StoreStep

-----------------------------------------------------------------------------
(* The shape preserves the parts about messages.                           *)

\* What the shape says of an add call of r and of one of another replica.
LEMMA AddCallTyped ==
    ASSUME TypeOK, NEW r \in Replicas, call[r].op = "add"
    PROVE  /\ call[r] \in AddCall /\ call[r].sid \in Sessions
           /\ call[r].msg \in Message /\ call[r].msg.id \in Nat
<1>1. call[r] \in AddCall  BY CallKind DEF TypeOK, Calls
<1>2. QED  BY <1>1 DEF AddCall, Message

LEMMA WrittenBeforeMetaStep ==
    ASSUME HistoryInv, NEW r \in Replicas, Step(r)
    PROVE  WrittenBeforeMeta'
<1>1. StepShape(r) /\ TypeOK  BY EveryStepHasShape DEF HistoryInv, BreakerInv
<1> SUFFICES ASSUME NEW q \in Replicas, NEW s \in Sessions,
                    call'[q].op = "add", call'[q].sid = s,
                    call'[q].pc \in {"readMeta", "upsertMeta", "createMeta"}
             PROVE  call'[q].msg \in Written(s)'
  BY DEF WrittenBeforeMeta
<1>2. CASE q # r
  BY <1>1, <1>2, AddCallTyped DEF StepShape, HistoryInv, WrittenBeforeMeta
<1>3. CASE q = r
  BY <1>1, <1>3, AddCallTyped DEF StepShape, HistoryInv, WrittenBeforeMeta
<1>4. QED  BY <1>2, <1>3

LEMMA NumbersAreIssuedStep ==
    ASSUME HistoryInv, NEW r \in Replicas, Step(r)
    PROVE  NumbersAreIssued'
<1>1. StepShape(r) /\ TypeOK  BY EveryStepHasShape DEF HistoryInv, BreakerInv
<1>2. clock \in Nat  BY <1>1 DEF TypeOK
<1>3. NumbersAreIssued  BY DEF HistoryInv
<1>4. ASSUME NEW s \in Sessions, NEW m \in Written(s)'  PROVE m.id <= clock'
  <2>1. m \in Written(s) \/ (At(r, "add", "upsertMessage") /\ m = call[r].msg)
    BY <1>1, <1>4 DEF StepShape
  <2>2. m.id <= clock /\ m.id \in Nat
    BY <1>1, <1>3, <2>1, AddCallTyped
       DEF NumbersAreIssued, At, Written, TypeOK, Message
  <2>3. QED  BY <1>1, <1>2, <2>2 DEF StepShape
<1>5. ASSUME NEW q \in Replicas, call'[q].op = "add"
      PROVE  call'[q].msg.id <= clock'
  <2>1. \/ call'[q].msg.id = clock'
        \/ call[q].op = "add" /\ call'[q].msg = call[q].msg
    BY <1>1, <1>5 DEF StepShape
  <2>2. QED  BY <1>1, <1>2, <1>3, <2>1, AddCallTyped DEF NumbersAreIssued, StepShape
<1>6. ASSUME NEW q \in Replicas, NEW p \in Replicas, q # p,
             call'[q].op = "add", call'[p].op = "add"
      PROVE  call'[q].msg.id # call'[p].msg.id
  <2>1. ASSUME NEW x \in Replicas, call'[x].op = "add"
        PROVE  \/ call[x].op = "add" /\ call'[x].msg = call[x].msg
               \/ x = r /\ call'[x].msg.id = clock + 1
    BY <1>1, <2>1 DEF StepShape
  <2>2. ASSUME NEW x \in Replicas, call[x].op = "add"
        PROVE  call[x].msg.id < clock + 1
    BY <1>1, <1>2, <1>3, <2>2, AddCallTyped DEF NumbersAreIssued
  <2>3. QED  BY <1>2, <1>3, <1>6, <2>1, <2>2 DEF NumbersAreIssued
<1>7. QED  BY <1>4, <1>5, <1>6 DEF NumbersAreIssued

LEMMA PendingIsFreshStep ==
    ASSUME HistoryInv, NEW r \in Replicas, Step(r)
    PROVE  PendingIsFresh'
<1>1. StepShape(r) /\ TypeOK  BY EveryStepHasShape DEF HistoryInv, BreakerInv
<1>2. NumbersAreIssued /\ PendingIsFresh  BY DEF HistoryInv
<1> SUFFICES ASSUME NEW q \in Replicas, NEW s \in Sessions,
                    At(q, "add", "upsertMessage")'
             PROVE  call'[q].msg \notin Written(s)'
  BY DEF PendingIsFresh
<1>3. CASE q # r
  <2>1. call'[q] = call[q] /\ At(q, "add", "upsertMessage")
    BY <1>1, <1>3 DEF StepShape, At
  <2>2. call[q].msg \notin Written(s)  BY <1>2, <2>1 DEF PendingIsFresh
  <2>3. At(r, "add", "upsertMessage") => call[r].msg # call[q].msg
    BY <1>2, <1>3, <2>1 DEF NumbersAreIssued, At
  <2>4. QED  BY <1>1, <2>1, <2>2, <2>3 DEF StepShape
<1>4. CASE q = r
  <2>1. /\ call[r].op = "idle"
        /\ clock' = clock + 1 /\ call'[r].msg.id = clock'
    BY <1>1, <1>4 DEF StepShape, At
  <2>2. Written(s)' = Written(s)  BY <1>1, <2>1 DEF StepShape, At
  <2>3. \A m \in Written(s) : m.id <= clock /\ clock \in Nat
    BY <1>1, <1>2 DEF NumbersAreIssued, TypeOK
  <2>4. QED  BY <1>4, <2>1, <2>2, <2>3
<1>5. QED  BY <1>3, <1>4

LEMMA FiniteHistoryStep ==
    ASSUME HistoryInv, NEW r \in Replicas, Step(r)
    PROVE  FiniteHistory'
<1>1. StepShape(r)  BY EveryStepHasShape DEF HistoryInv
<1> SUFFICES ASSUME NEW s \in Sessions PROVE IsFiniteSet(Written(s)')
  BY DEF FiniteHistory
<1>2. IsFiniteSet(Written(s))  BY DEF HistoryInv, FiniteHistory
<1>3. IsFiniteSet(Written(s) \cup {call[r].msg})  BY <1>2, FS_AddElement
<1>4. Written(s)' \subseteq Written(s) \cup {call[r].msg}  BY <1>1 DEF StepShape
<1>5. QED  BY <1>3, <1>4, FS_Subset

-----------------------------------------------------------------------------
(* The counts.                                                             *)

\* No step takes a message out of the counted ones.
LEMMA CountedGrows ==
    ASSUME HistoryInv, NEW r \in Replicas, Step(r), NEW s \in Sessions
    PROVE  /\ Counted(s) \subseteq Counted(s)'
           /\ IsFiniteSet(Counted(s)')
           /\ Cardinality(Counted(s)) \in Nat /\ Cardinality(Counted(s)') \in Nat
           /\ Cardinality(Counted(s)) <= Cardinality(Counted(s)')
<1>1. StepShape(r) /\ TypeOK /\ PendingIsFresh
  BY EveryStepHasShape DEF HistoryInv, BreakerInv
<1>2. Counted(s) \subseteq Counted(s)'
  <2> SUFFICES ASSUME NEW m \in Counted(s), m \in Uncounted(s)'  PROVE FALSE
    BY <1>1 DEF Counted, StepShape
  <2>1. m \in Written(s) /\ m \notin Uncounted(s)  BY DEF Counted
  <2>2. PICK q \in Replicas : /\ call'[q].op = "add" /\ call'[q].pc = "readMeta"
                              /\ call'[q].sid = s /\ call'[q].msg = m
    BY DEF Uncounted, At
  <2>3. CASE q # r
    <3>1. call'[q] = call[q]  BY <1>1, <2>3 DEF StepShape
    <3>2. m \in Uncounted(s)  BY <2>2, <3>1 DEF Uncounted, At
    <3>3. QED  BY <2>1, <3>2
  <2>4. CASE q = r
    <3>1. At(r, "add", "upsertMessage") /\ call[r].msg = m
      BY <1>1, <2>2, <2>4 DEF StepShape, At
    <3>2. QED  BY <1>1, <2>1, <3>1 DEF PendingIsFresh
  <2>5. QED  BY <2>3, <2>4
<1>3. IsFiniteSet(Written(s)')
  BY FiniteHistoryStep DEF FiniteHistory
<1>4. IsFiniteSet(Counted(s)')  BY <1>3, FS_Subset DEF Counted
<1>5. IsFiniteSet(Counted(s)) /\ Cardinality(Counted(s)) <= Cardinality(Counted(s)')
  BY <1>2, <1>4, FS_Subset
<1>6. Cardinality(Counted(s)) \in Nat /\ Cardinality(Counted(s)') \in Nat
  BY <1>4, <1>5, FS_CardinalityType
<1>7. QED  BY <1>2, <1>4, <1>5, <1>6

\* Reading the session_meta document makes room for one more message.
LEMMA ReadMetaCounts ==
    ASSUME HistoryInv, NEW r \in Replicas, ReadMeta(r),
           NEW s \in Sessions, s = call[r].sid
    PROVE  Cardinality(Counted(s)) + 1 <= Cardinality(Counted(s)')
<1> SUFFICES ASSUME NEW m, m = call[r].msg
             PROVE  Cardinality(Counted(s)) + 1 <= Cardinality(Counted(s)')
  OBVIOUS
<1>1. Step(r)  BY DEF Step, StoreStep
<1>2. StepShape(r) /\ TypeOK /\ NumbersAreIssued /\ WrittenBeforeMeta
  BY <1>1, EveryStepHasShape DEF HistoryInv, BreakerInv
<1>3. At(r, "add", "readMeta")  BY DEF ReadMeta
<1>5. m \notin Counted(s)  BY <1>3 DEF Counted, Uncounted
<1>6. m \in Counted(s)'
  <2>1. m \in Written(s)'
    BY <1>2, <1>3 DEF WrittenBeforeMeta, StepShape, At
  <2>2. ASSUME NEW q \in Replicas, At(q, "add", "readMeta")', call'[q].msg = m
        PROVE  FALSE
    <3>1. CASE q = r
      BY <1>2, <1>3, <2>2, <3>1 DEF StepShape, At
    <3>2. CASE q # r
      <4>1. call'[q] = call[q]  BY <1>2, <3>2 DEF StepShape
      <4>2. QED  BY <1>2, <1>3, <2>2, <3>2, <4>1 DEF NumbersAreIssued, At
    <3>3. QED  BY <3>1, <3>2
  <2>3. m \notin Uncounted(s)'  BY <2>2 DEF Uncounted
  <2>4. QED  BY <2>1, <2>3 DEF Counted
<1>7. /\ Counted(s) \subseteq Counted(s)' /\ IsFiniteSet(Counted(s)')
      /\ Cardinality(Counted(s)) \in Nat
  BY <1>1, CountedGrows
<1>8. Counted(s) \cup {m} \subseteq Counted(s)'  BY <1>6, <1>7
<1>9. IsFiniteSet(Counted(s))  BY <1>7, FS_Subset
<1>10. Cardinality(Counted(s) \cup {m}) = Cardinality(Counted(s)) + 1
  BY <1>5, <1>9, FS_AddElement
<1>11. Cardinality(Counted(s) \cup {m}) <= Cardinality(Counted(s)')
  BY <1>7, <1>8, FS_Subset
<1>12. QED  BY <1>10, <1>11

\* Where the versions of a document come from: a stored one was stored before
\* or prepared by the call, a prepared one was prepared by the call's reading.
PreparedFor(r, s) ==
    /\ call[r].op \in {"add", "edit"} /\ call[r].sid = s
    /\ call[r].pc \in {"upsertMeta", "createMeta"}

VersionShape(r) ==
    /\ \A s \in Sessions :
          \/ meta'[s] \in {meta[s], NoMeta}
          \/ PreparedFor(r, s) /\ meta'[s] = call[r].meta
    /\ (call'[r].op \in {"add", "edit"} /\ call'[r].pc \in {"upsertMeta", "createMeta"})
          => ReadMeta(r) \/ (EditReadMeta(r) /\ meta[call[r].sid] # NoMeta)

LEMMA EveryStepHasVersionShape ==
    ASSUME BreakerInv, NEW r \in Replicas, Step(r)
    PROVE  VersionShape(r)
<1> USE DEF VersionShape, PreparedFor
<1>0. TypeOK /\ call \in [Replicas -> Calls]  BY DEF BreakerInv, TypeOK, Calls
<1>m. meta \in [Sessions -> MetaDoc \cup {NoMeta}]  BY <1>0 DEF TypeOK
<1>1. CASE StoreCall(r)
  <2>1. UNCHANGED meta
    BY <1>1 DEF StoreCall, AddMessage, EditThread, DeleteSession
  <2>2. call'[r].pc \notin {"upsertMeta", "createMeta"}
    <3>1. PICK s \in Sessions :
            \/ \E u \in Users \cup {NoUser} : AddMessage(r, s, "user", u)
            \/ AddMessage(r, s, "assistant", NoUser)
            \/ \E edit \in Edits : EditThread(r, s, edit)
            \/ DeleteSession(r, s)
      BY <1>1 DEF StoreCall
    <3>2. ASSUME NEW role, NEW u, AddMessage(r, s, role, u)  PROVE <2>2!:
      BY <1>0, <3>2 DEF AddMessage, Entry
    <3>3. ASSUME NEW edit, EditThread(r, s, edit)  PROVE <2>2!:
      BY <1>0, <3>3 DEF EditThread, Entry
    <3>4. CASE DeleteSession(r, s)
      BY <1>0, <3>4 DEF DeleteSession, Entry
    <3>5. QED  BY <3>1, <3>2, <3>3, <3>4
  <2>3. QED  BY <2>1, <2>2
<1>2. CASE ReadMeta(r)
  BY <1>2 DEF ReadMeta
<1>3. CASE WriteMeta(r) \/ MetaUpdateRaises(r)
  <2>1. call'[r].op = "returned"
    BY <1>0, <1>3 DEF WriteMeta, MetaUpdateRaises, Finish
  <2>2. UNCHANGED meta \/ (/\ At(r, "add", "upsertMeta") \/ At(r, "add", "createMeta")
                           /\ meta' = [meta EXCEPT ![call[r].sid] = call[r].meta])
    BY <1>3 DEF WriteMeta, MetaUpdateRaises, At
  <2>3. QED  BY <1>m, <2>1, <2>2 DEF At
<1>4. CASE UpsertMessage(r) \/ AddRaises(r)
  <2>1. call'[r].pc \notin {"upsertMeta", "createMeta"}
    BY <1>0, <1>4, AddCallTyped DEF UpsertMessage, AddRaises, Goto, At, AddCall
  <2>2. UNCHANGED meta \/ (/\ At(r, "add", "createMeta")
                           /\ meta' = [meta EXCEPT ![call[r].sid] = call[r].meta])
    BY <1>4 DEF UpsertMessage, AddRaises, At
  <2>3. QED  BY <1>m, <2>1, <2>2 DEF At
<1>5. CASE AddToFallback(r) \/ EditFallback(r)
  BY <1>0, <1>5 DEF AddToFallback, EditFallback, Finish
<1>6. CASE EditReadMeta(r)
  BY <1>0, <1>6 DEF EditReadMeta, Finish
<1>7. CASE EditWriteMeta(r) \/ EditRaises(r)
  <2>1. call'[r].pc \notin {"upsertMeta", "createMeta"}
    <3>1. call[r] \in EditCall
      BY <1>0, <1>7, CallKind DEF EditWriteMeta, EditRaises, At
    <3>2. QED
      BY <1>0, <1>7, <3>1 DEF EditWriteMeta, EditRaises, Finish, Goto, EditCall
  <2>2. UNCHANGED meta \/ (/\ At(r, "edit", "upsertMeta")
                           /\ meta' = [meta EXCEPT ![call[r].sid] = call[r].meta])
    BY <1>7 DEF EditWriteMeta, EditRaises, At
  <2>3. QED  BY <1>m, <2>1, <2>2 DEF At
<1>8. CASE \/ QueryIds(r) \/ DeleteItem(r) \/ DeleteReturns(r)
           \/ DeleteNotFound(r) \/ DeleteRaises(r) \/ DeleteFromFallback(r)
  <2>1. call'[r].op \notin {"add", "edit"}
    <3>1. call[r] \in DeleteCall /\ call[r].op = "delete"
      BY <1>0, <1>8, CallKind DEF QueryIds, DeleteItem, DeleteReturns,
         DeleteNotFound, FallsBack, DeleteRaises, DeleteFromFallback, At
    <3>2. ASSUME NEW ids, call' = [call EXCEPT ![r].ids = ids, ![r].pc = "deleteItems"]
          PROVE  <2>1!:
      BY <1>0, <3>1, <3>2 DEF DeleteCall
    <3>3. ASSUME NEW i, call' = [call EXCEPT ![r].ids = @ \ {i}]  PROVE <2>1!:
      BY <1>0, <3>1, <3>3 DEF DeleteCall
    <3>4. ASSUME NEW result, Finish(r, result)  PROVE <2>1!:
      BY <1>0, <3>4 DEF Finish
    <3>5. ASSUME NEW pc, Goto(r, pc)  PROVE <2>1!:
      BY <1>0, <3>1, <3>5 DEF Goto, DeleteCall
    <3>6. QED
      BY <1>8, <3>2, <3>3, <3>4, <3>5 DEF QueryIds, DeleteItem, DeleteReturns,
         DeleteNotFound, FallsBack, DeleteRaises, DeleteFromFallback
  <2>2. \A s \in Sessions : meta'[s] \in {meta[s], NoMeta}
    BY <1>m, <1>8 DEF QueryIds, DeleteItem, DeleteReturns, DeleteNotFound, FallsBack,
       DeleteRaises, DeleteFromFallback, RemoveDocument
  <2>3. QED  BY <2>1, <2>2
<1>9. CASE Return(r) \/ Restart(r)
  BY <1>0, <1>9 DEF Return, Restart
<1>10. QED
  BY <1>1, <1>2, <1>3, <1>4, <1>5, <1>6, <1>7, <1>8, <1>9 DEF Step, StoreStep

LEMMA VersionsCountStep ==
    ASSUME HistoryInv, NEW r \in Replicas, Step(r)
    PROVE  VersionsCount'
<1>1. StepShape(r) /\ VersionShape(r) /\ TypeOK /\ TypeOK' /\ VersionsCount
  <2>1. BreakerInv'
    BY StartTypeOK, AddStepTypeOK, EditStepTypeOK, DeleteStepTypeOK,
       ProcessStepTypeOK DEF Step, StoreStep, HistoryInv
  <2>2. QED
    BY <2>1, EveryStepHasShape, EveryStepHasVersionShape DEF HistoryInv, BreakerInv
\* What was bounded before the step still is: the counted messages only grow.
<1>2. ASSUME NEW s \in Sessions, NEW doc \in MetaDoc,
             doc.count <= Cardinality(Counted(s))
      PROVE  doc.count <= Cardinality(Counted(s)')
  <2>1. doc.count \in Nat  BY DEF MetaDoc
  <2>2. QED  BY <1>2, <2>1, CountedGrows
<1>3. ASSUME NEW q \in Replicas, NEW s \in Sessions, PreparedFor(q, s)
      PROVE  /\ call[q].meta \in MetaDoc
             /\ call[q].meta.count <= Cardinality(Counted(s))
  <2>1. call[q] \in AddCall \cup EditCall
    BY <1>1, <1>3, CallKind DEF TypeOK, Calls, PreparedFor
  <2>2. call[q].meta \in MetaDoc \cup {NoMeta}  BY <2>1 DEF AddCall, EditCall
  <2>3. QED  BY <1>1, <1>3, <2>2 DEF VersionsCount, PreparedFor
<1>4. ASSUME NEW s \in Sessions, meta'[s] # NoMeta
      PROVE  meta'[s].count <= Cardinality(Counted(s)')
  <2>1. CASE meta'[s] = meta[s]
    <3>1. meta[s] \in MetaDoc  BY <1>1, <1>4, <2>1 DEF TypeOK
    <3>2. meta[s].count <= Cardinality(Counted(s))
      BY <1>1, <1>4, <2>1 DEF VersionsCount
    <3>3. QED  BY <1>2, <2>1, <3>1, <3>2
  <2>2. CASE PreparedFor(r, s) /\ meta'[s] = call[r].meta
    BY <1>2, <1>3, <2>2
  <2>3. QED  BY <1>1, <1>4, <2>1, <2>2 DEF VersionShape
<1>5. ASSUME NEW q \in Replicas, NEW s \in Sessions, PreparedFor(q, s)'
      PROVE  /\ call'[q].meta # NoMeta
             /\ call'[q].meta.count <= Cardinality(Counted(s)')
  <2>1. CASE q # r
    <3>1. call'[q] = call[q] /\ PreparedFor(q, s)
      BY <1>1, <1>5, <2>1 DEF StepShape, PreparedFor
    <3>2. QED  BY <1>2, <1>3, <3>1, NoMetaAssumption
  <2>2. CASE q = r /\ ReadMeta(r)
    <3> DEFINE doc == meta[s]
               next == IF doc = NoMeta THEN FirstMeta(call[r].msg, call[r].user)
                                       ELSE TouchedMeta(doc, call[r].user)
    <3>1. call[r] \in AddCall /\ call[r].sid = s
      <4>1. call[r] \in AddCall
        BY <1>1, <2>2, AddCallTyped DEF ReadMeta, At
      <4>2. \E doc1, pc : call' = [call EXCEPT ![r].meta = doc1, ![r].pc = pc]
        BY <2>2 DEF ReadMeta
      <4>3. call \in [Replicas -> Calls]  BY <1>1 DEF TypeOK, Calls
      <4>4. call'[r].sid = call[r].sid  BY <4>1, <4>2, <4>3 DEF AddCall
      <4>5. QED  BY <1>5, <2>2, <4>1, <4>4 DEF PreparedFor
    <3>2. call[r].msg \in Message /\ call[r].user \in AnyUser
      BY <3>1 DEF AddCall, AnyUser
    <3>3. doc \in MetaDoc \cup {NoMeta}  BY <1>1 DEF TypeOK
    <3>4. call'[r].meta = next
      <4>1. \E pc : call' = [call EXCEPT ![r].meta = next, ![r].pc = pc]
        BY <2>2, <3>1 DEF ReadMeta
      <4>2. call \in [Replicas -> Calls]  BY <1>1 DEF TypeOK, Calls
      <4> HIDE DEF next
      <4>3. QED  BY <3>1, <4>1, <4>2 DEF AddCall
    <3>5. next \in MetaDoc  BY <3>2, <3>3, FirstMetaType, TouchedMetaType
    <3>6. /\ Cardinality(Counted(s)) \in Nat /\ Cardinality(Counted(s)') \in Nat
          /\ Cardinality(Counted(s)) + 1 <= Cardinality(Counted(s)')
      <4>1. Step(r)  BY <2>2 DEF Step, StoreStep
      <4>2. QED  BY <2>2, <3>1, <4>1, CountedGrows, ReadMetaCounts
    <3>7. next.count <= Cardinality(Counted(s)')
      <4>1. CASE doc = NoMeta
        <5>1. next.count = 1  BY <4>1 DEF FirstMeta
        <5>2. QED  BY <3>6, <5>1
      <4>2. CASE doc # NoMeta
        <5>1. doc \in MetaDoc /\ doc.count <= Cardinality(Counted(s))
          BY <1>1, <3>3, <4>2 DEF VersionsCount
        <5>2. doc.count \in Nat  BY <5>1 DEF MetaDoc
        <5>3. next.count = doc.count + 1
          BY <4>2, <5>1 DEF TouchedMeta, MetaDoc
        <5>4. QED  BY <3>6, <5>1, <5>2, <5>3
      <4>3. QED  BY <4>1, <4>2
    <3>8. QED  BY <2>2, <3>4, <3>5, <3>7, NoMetaAssumption
  <2>3. CASE q = r /\ EditReadMeta(r) /\ meta[call[r].sid] # NoMeta
    <3>1. call[r] \in EditCall
      BY <1>1, <2>3, CallKind DEF EditReadMeta, At, TypeOK, Calls
    <3> DEFINE doc == meta[call[r].sid]
               next == EditedMeta(doc, call[r].edit)
    <3>2. call' = [call EXCEPT ![r].meta = next, ![r].pc = "upsertMeta"]
      BY <2>3 DEF EditReadMeta
    <3>3. doc \in MetaDoc  BY <1>1, <2>3, <3>1 DEF TypeOK, EditCall
    <3>4. next \in MetaDoc /\ next.count = doc.count
      <4>1. next.count = doc.count  BY <3>3 DEF EditedMeta, MetaDoc
      <4>2. QED  BY <3>3, <4>1, EditedMetaType
    <3> HIDE DEF next
    <3>5. call'[r].meta = next /\ call'[r].sid = call[r].sid
      <4>1. call \in [Replicas -> Calls]  BY <1>1 DEF TypeOK, Calls
      <4>2. QED  BY <3>1, <3>2, <4>1 DEF EditCall
    <3>6. call[r].sid = s  BY <1>5, <2>3, <3>5 DEF PreparedFor
    <3>7. doc.count <= Cardinality(Counted(s))
      BY <1>1, <2>3, <3>6 DEF VersionsCount
    <3>8. doc.count <= Cardinality(Counted(s)')  BY <1>2, <3>3, <3>7
    <3>9. QED  BY <2>3, <3>4, <3>5, <3>8, NoMetaAssumption
  <2>4. QED  BY <1>1, <1>5, <2>1, <2>2, <2>3 DEF VersionShape, PreparedFor
<1>6. QED  BY <1>4, <1>5 DEF VersionsCount, PreparedFor

-----------------------------------------------------------------------------
(* The theorems.                                                           *)

LEMMA InitHistoryInv == Init => HistoryInv
<1> SUFFICES ASSUME Init PROVE HistoryInv  OBVIOUS
<1>1. BreakerInv  BY InitBreakerInv
<1>2. \A s \in Sessions : Written(s) = {}  BY DEF Init, Written
<1>3. \A r \in Replicas : call[r].op = "idle"  BY DEF Init
<1>4. \A s \in Sessions : meta[s] = NoMeta  BY DEF Init
<1>5. FiniteHistory  BY <1>2, FS_EmptySet DEF FiniteHistory
<1>6. QED
  BY <1>1, <1>2, <1>3, <1>4, <1>5 DEF HistoryInv, WrittenBeforeMeta,
     NumbersAreIssued, PendingIsFresh, VersionsCount, At

LEMMA NextHistoryInv == HistoryInv /\ [Next]_vars => HistoryInv'
<1> SUFFICES ASSUME HistoryInv, [Next]_vars PROVE HistoryInv'  OBVIOUS
<1>1. BreakerInv'  BY NextBreakerInv DEF HistoryInv
<1>2. ASSUME NEW r \in Replicas, Step(r)  PROVE HistoryInv'
  BY <1>1, <1>2, WrittenBeforeMetaStep, NumbersAreIssuedStep, PendingIsFreshStep,
     FiniteHistoryStep, VersionsCountStep DEF HistoryInv
<1>3. CASE UNCHANGED vars
  <2>1. UNCHANGED <<msgs, meta, call, clock, erased>>  BY <1>3 DEF vars
  <2>2. WrittenBeforeMeta' /\ NumbersAreIssued' /\ PendingIsFresh' /\ FiniteHistory'
    BY <2>1 DEF HistoryInv, WrittenBeforeMeta, NumbersAreIssued, PendingIsFresh,
                FiniteHistory, Written, At
  <2>3. VersionsCount'
    BY <2>1 DEF HistoryInv, VersionsCount, Counted, Uncounted, Written, At
  <2>4. QED  BY <1>1, <2>2, <2>3 DEF HistoryInv
<1>4. QED  BY <1>2, <1>3 DEF Next, Step

\* message_count never exceeds the messages written to Cosmos for the thread,
\* however many replicas read and upsert the session_meta document at once and
\* whatever requests fail, are applied without an answer, or are cut off by a
\* restart.
THEOREM CountSafe == Spec => []CountNeverOverreports
<1>1. Spec => []HistoryInv  BY InitHistoryInv, NextHistoryInv, PTL DEF Spec
<1>2. HistoryInv => CountNeverOverreports
  <2> SUFFICES ASSUME HistoryInv, NEW s \in Sessions, meta[s] # NoMeta
               PROVE  meta[s].count <= Cardinality(Written(s))
    BY DEF CountNeverOverreports, Written
  <2>1. meta[s].count <= Cardinality(Counted(s)) /\ meta[s].count \in Nat
    BY DEF HistoryInv, VersionsCount, BreakerInv, TypeOK, MetaDoc
  <2>2. IsFiniteSet(Written(s))  BY DEF HistoryInv, FiniteHistory
  <2>3. Counted(s) \subseteq Written(s)  BY DEF Counted
  <2>4. /\ IsFiniteSet(Counted(s))
        /\ Cardinality(Counted(s)) <= Cardinality(Written(s))
    BY <2>2, <2>3, FS_Subset
  <2>5. Cardinality(Counted(s)) \in Nat /\ Cardinality(Written(s)) \in Nat
    BY <2>2, <2>4, FS_CardinalityType
  <2>6. QED  BY <2>1, <2>4, <2>5
<1>3. QED  BY <1>1, <1>2, PTL

\* The three ways in which add_message returns.
LEMMA AddReturns ==
    ASSUME TypeOK, NEW r \in Replicas, Step(r), call[r].op = "add",
           call'[r].op = "returned"
    PROVE  WriteMeta(r) \/ MetaUpdateRaises(r) \/ AddToFallback(r)
<1>1. call[r] \in AddCall  BY AddCallTyped
<1>2. call \in [Replicas -> Calls]  BY DEF TypeOK, Calls
<1>3. ~StoreCall(r) /\ ~Return(r) /\ ~Restart(r)
  BY <1>2 DEF StoreCall, AddMessage, EditThread, DeleteSession, Return, Restart
<1>4. ~UpsertMessage(r) /\ ~AddRaises(r)
  BY <1>1, <1>2 DEF UpsertMessage, AddRaises, Goto, AddCall
<1>5. ~ReadMeta(r)
  <2>1. ASSUME ReadMeta(r)  PROVE FALSE
    <3>1. PICK doc, pc : call' = [call EXCEPT ![r].meta = doc, ![r].pc = pc]
      BY <2>1 DEF ReadMeta
    <3>2. QED  BY <1>1, <1>2, <3>1 DEF AddCall
  <2>2. QED  BY <2>1
<1>6. QED
  BY <1>3, <1>4, <1>5 DEF Step, StoreStep, At, EditReadMeta, EditWriteMeta,
     EditRaises, EditFallback, QueryIds, DeleteItem, DeleteReturns, DeleteNotFound, FallsBack,
     DeleteRaises, DeleteFromFallback

\* add_message acknowledges a message only when it is in Cosmos (or was, before
\* a hard delete on another replica) or in the process's own fallback.
THEOREM AcknowledgedRetained == Spec => AcknowledgedMessageIsRetained
<1> DEFINE Kept == \A r \in Replicas, s \in Sessions :
              (call[r].op = "add" /\ call[r].sid = s /\ call'[r].op = "returned")
                 => call[r].msg \in Log(s)' \cup erased'[s]
<1>1. ASSUME HistoryInv, Next  PROVE Kept
  <2> SUFFICES ASSUME NEW r \in Replicas, NEW s \in Sessions, call[r].op = "add",
                      call[r].sid = s, call'[r].op = "returned"
               PROVE  call[r].msg \in Log(s)' \cup erased'[s]
    OBVIOUS
  <2>1. PICK q \in Replicas : Step(q)  BY <1>1 DEF Next, Step
  <2>2. StepShape(q) /\ TypeOK
    BY <1>1, <2>1, EveryStepHasShape DEF HistoryInv, BreakerInv
  <2>3. q = r  BY <2>2 DEF StepShape
  <2>5. WriteMeta(r) \/ MetaUpdateRaises(r) \/ AddToFallback(r)
    BY <2>1, <2>2, <2>3, AddReturns
  <2>6. CASE WriteMeta(r) \/ MetaUpdateRaises(r)
    <3>1. call[r].msg \in Written(s)
      BY <1>1, <2>6 DEF WriteMeta, MetaUpdateRaises, At, HistoryInv, WrittenBeforeMeta
    <3>2. UNCHANGED <<msgs, erased>>  BY <2>6 DEF WriteMeta, MetaUpdateRaises
    <3>3. QED  BY <3>1, <3>2 DEF Written, Log
  <2>7. CASE AddToFallback(r)
    <3>1. fallback' = [fallback EXCEPT ![r][s] = Append(@, call[r].msg)]
      BY <2>7 DEF AddToFallback, WithMessage
    <3>2. fallback[r][s] \in Seq(Message) /\ call[r].msg \in Message
      BY <2>2, AddCallTyped DEF TypeOK
    <3>3. fallback'[r][s] = Append(fallback[r][s], call[r].msg)
      BY <2>2, <3>1 DEF TypeOK
    <3>4. call[r].msg \in Held(r, s)'
      BY <3>2, <3>3 DEF Held
    <3>5. QED  BY <3>4 DEF Log
  <2>8. QED  BY <2>5, <2>6, <2>7
<1>2. ASSUME UNCHANGED vars  PROVE Kept
  BY <1>2 DEF vars
<1>3. HistoryInv /\ [Next]_vars => [Kept]_vars  BY <1>1, <1>2
<1>4. QED
  BY <1>3, InitHistoryInv, NextHistoryInv, PTL
     DEF Spec, AcknowledgedMessageIsRetained

\* The memory of the processes only grows, but for a deletion and a restart.
LEMMA HeldGrows ==
    ASSUME TypeOK, NEW q \in Replicas, Step(q), ~Restart(q),
           NEW s \in Sessions, ~DeleteFromFallback(q) \/ call[q].sid # s,
           NEW r \in Replicas
    PROVE  Held(r, s) \subseteq Held(r, s)'
<1>1. CASE AddToFallback(q)
  <2>1. call[q].sid \in Sessions /\ call[q].msg \in Message
    BY <1>1, AddCallTyped DEF AddToFallback, At
  <2>2. fallback[r][s] \in Seq(Message)  BY DEF TypeOK
  <2>3. fallback' = [fallback EXCEPT ![q][call[q].sid] = Append(@, call[q].msg)]
    BY <1>1 DEF AddToFallback, WithMessage
  <2>4. fallback'[r][s] \in {fallback[r][s], Append(fallback[r][s], call[q].msg)}
    BY <2>1, <2>3 DEF TypeOK
  <2>5. QED  BY <2>1, <2>2, <2>4 DEF Held
<1>2. CASE DeleteFromFallback(q)
  <2>1. call[q].sid # s  BY <1>2
  <2>2. fallback'[r][s] = fallback[r][s]
    BY <1>2, <2>1 DEF DeleteFromFallback, TypeOK
  <2>3. QED  BY <2>2 DEF Held
<1>3. CASE UNCHANGED fallback  BY <1>3 DEF Held
<1>4. QED
  BY <1>1, <1>2, <1>3 DEF Step, StoreCall, AddMessage, EditThread, DeleteSession,
     StoreStep, UpsertMessage, ReadMeta, WriteMeta, MetaUpdateRaises, AddRaises,
     EditReadMeta, EditWriteMeta, EditRaises, EditFallback, QueryIds, DeleteItem,
     DeleteReturns, DeleteNotFound, FallsBack, DeleteRaises, Return

\* A message leaves the store only in a step of a delete_session call for its
\* session, or with the memory of a process that restarts.
THEOREM MessagesLeave == Spec => MessagesLeaveOnlyByDeletion
<1> DEFINE Leave == \A s \in Sessions :
              ~(Log(s) \subseteq Log(s)')
                 => \E r \in Replicas :
                      Restart(r) \/ (call[r].op = "delete" /\ call[r].sid = s)
<1>1. ASSUME HistoryInv, Next  PROVE Leave
  <2> SUFFICES ASSUME NEW s \in Sessions,
                      \A r \in Replicas :
                         ~Restart(r) /\ ~(call[r].op = "delete" /\ call[r].sid = s)
               PROVE  Log(s) \subseteq Log(s)'
    OBVIOUS
  <2>1. PICK q \in Replicas : Step(q)  BY <1>1 DEF Next, Step
  <2>2. TypeOK  BY <1>1 DEF HistoryInv, BreakerInv
  <2>3. ~DeleteFromFallback(q) \/ call[q].sid # s  BY DEF DeleteFromFallback, At
  <2>4. \A r \in Replicas : Held(r, s) \subseteq Held(r, s)'
    BY <2>1, <2>2, <2>3, HeldGrows
  <2>5. msgs[s] \subseteq msgs'[s]
    <3>1. CASE UpsertMessage(q) \/ AddRaises(q)
      <4>1. \/ UNCHANGED msgs
            \/ msgs' = [msgs EXCEPT ![call[q].sid] = @ \cup {call[q].msg}]
        BY <3>1 DEF UpsertMessage, AddRaises
      <4>2. msgs \in [Sessions -> SUBSET Message]  BY <2>2 DEF TypeOK
      <4>3. QED  BY <4>1, <4>2
    <3>2. CASE DeleteItem(q) \/ DeleteRaises(q)
      <4>1. call[q].sid # s  BY <3>2 DEF DeleteItem, DeleteRaises, FallsBack, At
      <4>2. QED
        BY <2>2, <3>2, <4>1 DEF DeleteItem, DeleteRaises, FallsBack, RemoveDocument, TypeOK
    <3>3. CASE UNCHANGED msgs  BY <3>3
    <3>4. QED
      BY <2>1, <3>1, <3>2, <3>3 DEF Step, StoreCall, AddMessage, EditThread,
         DeleteSession, StoreStep, ReadMeta, WriteMeta, MetaUpdateRaises,
         AddToFallback, EditReadMeta, EditWriteMeta, EditRaises, EditFallback,
         QueryIds, DeleteReturns, DeleteNotFound, FallsBack, DeleteFromFallback, Return
  <2>6. QED  BY <2>4, <2>5 DEF Log
<1>2. ASSUME UNCHANGED vars  PROVE Leave
  BY <1>2 DEF vars, Log, Held
<1>3. HistoryInv /\ [Next]_vars => [Leave]_vars  BY <1>1, <1>2
<1>4. QED
  BY <1>3, InitHistoryInv, NextHistoryInv, PTL DEF Spec, MessagesLeaveOnlyByDeletion

-----------------------------------------------------------------------------
(* One replica: nobody writes between a reading of a session_meta document *)
(* and the upsert of the version prepared from it.                         *)

OneReplica == \E r \in Replicas : Replicas = {r}

\* What ReadMeta and EditReadMeta prepare, and that they change nothing else.
LEMMA ReadMetaPrepares ==
    ASSUME TypeOK, NEW r \in Replicas, ReadMeta(r)
    PROVE  LET s == call[r].sid
           IN  /\ s \in Sessions /\ call'[r].sid = s /\ call'[r].op = "add"
               /\ UNCHANGED <<msgs, meta>>
               /\ call'[r].pc \in {"upsertMeta", "createMeta"}
               /\ call[r].msg \in Message /\ call[r].user \in AnyUser
               /\ call'[r].meta = IF meta[s] = NoMeta
                                  THEN FirstMeta(call[r].msg, call[r].user)
                                  ELSE TouchedMeta(meta[s], call[r].user)
<1> DEFINE s == call[r].sid
           next == IF meta[s] = NoMeta THEN FirstMeta(call[r].msg, call[r].user)
                                       ELSE TouchedMeta(meta[s], call[r].user)
<1>1. /\ call[r] \in AddCall /\ s \in Sessions /\ call[r].op = "add"
      /\ call[r].msg \in Message /\ call[r].user \in AnyUser
  <2>1. call[r] \in AddCall /\ call[r].op = "add"
    BY AddCallTyped DEF ReadMeta, At
  <2>2. QED  BY <2>1 DEF AddCall, AnyUser
<1>2. PICK pc \in {"upsertMeta", "createMeta"} :
        call' = [call EXCEPT ![r].meta = next, ![r].pc = pc]
  BY DEF ReadMeta
<1>3. UNCHANGED <<msgs, meta>>  BY DEF ReadMeta
<1>4. call \in [Replicas -> Calls]  BY DEF TypeOK, Calls
<1> HIDE DEF next
<1>5. /\ call'[r].meta = next /\ call'[r].pc = pc
      /\ call'[r].sid = s /\ call'[r].op = "add"
  BY <1>1, <1>2, <1>4 DEF AddCall
<1>6. QED  BY <1>1, <1>3, <1>5 DEF next

LEMMA EditReadMetaPrepares ==
    ASSUME TypeOK, NEW r \in Replicas, EditReadMeta(r), meta[call[r].sid] # NoMeta
    PROVE  LET s == call[r].sid
           IN  /\ s \in Sessions /\ call'[r].sid = s /\ call'[r].op = "edit"
               /\ call'[r].edit = call[r].edit
               /\ UNCHANGED <<msgs, meta>>
               /\ call'[r].pc = "upsertMeta"
               /\ meta[s] \in MetaDoc
               /\ call'[r].meta = EditedMeta(meta[s], call[r].edit)
<1> DEFINE s == call[r].sid
           next == EditedMeta(meta[s], call[r].edit)
<1>1. call[r] \in EditCall /\ call[r].op = "edit"
  BY CallKind DEF EditReadMeta, At, TypeOK, Calls
<1>2. s \in Sessions  BY <1>1 DEF EditCall
<1>3. meta[s] \in MetaDoc  BY <1>2 DEF TypeOK
<1>4. call' = [call EXCEPT ![r].meta = next, ![r].pc = "upsertMeta"]
  BY DEF EditReadMeta
<1>5. UNCHANGED <<msgs, meta>>  BY DEF EditReadMeta
<1>6. call \in [Replicas -> Calls]  BY DEF TypeOK, Calls
<1> HIDE DEF next
<1>7. /\ call'[r].meta = next /\ call'[r].pc = "upsertMeta"
      /\ call'[r].sid = s /\ call'[r].op = "edit" /\ call'[r].edit = call[r].edit
  BY <1>1, <1>4, <1>6 DEF EditCall
<1>8. QED  BY <1>2, <1>3, <1>5, <1>7 DEF next

\* Neither a message nor an edit unsettles the document it starts from.
LEMMA TouchedSettled ==
    ASSUME NEW m \in MetaDoc, NEW u \in AnyUser
    PROVE  Settled(m, TouchedMeta(m, u))
BY NoUserAssumption DEF Settled, TouchedMeta, MetaDoc

LEMMA EditedSettled ==
    ASSUME NEW m \in MetaDoc, NEW e
    PROVE  Settled(m, EditedMeta(m, e))
BY DEF Settled, EditedMeta, MetaDoc

LEMMA SameSettled ==
    ASSUME NEW m  PROVE Settled(m, m)
BY DEF Settled

\* A prepared version is a settled successor of the stored one, which no other
\* replica can have replaced since it was read.
PreparedIsSettled ==
    \A r \in Replicas, s \in Sessions :
        PreparedFor(r, s) => Settled(meta[s], call[r].meta)

LEMMA PreparedIsSettledStep ==
    ASSUME BreakerInv, OneReplica, NEW r \in Replicas, Step(r)
    PROVE  PreparedIsSettled'
<1>1. VersionShape(r) /\ TypeOK
  BY EveryStepHasVersionShape DEF BreakerInv
<1> SUFFICES ASSUME NEW s \in Sessions, PreparedFor(r, s)'
             PROVE  Settled(meta'[s], call'[r].meta)
  BY DEF OneReplica, PreparedIsSettled
<1>2. CASE ReadMeta(r)
  <2>1. /\ call[r].sid = s /\ meta'[s] = meta[s] /\ call[r].user \in AnyUser
        /\ call'[r].meta = IF meta[s] = NoMeta
                           THEN FirstMeta(call[r].msg, call[r].user)
                           ELSE TouchedMeta(meta[s], call[r].user)
    BY <1>1, <1>2, ReadMetaPrepares DEF PreparedFor
  <2>2. CASE meta[s] = NoMeta  BY <2>1, <2>2 DEF Settled
  <2>3. CASE meta[s] # NoMeta
    <3>1. meta[s] \in MetaDoc  BY <1>1, <2>3 DEF TypeOK
    <3>2. QED  BY <2>1, <2>3, <3>1, TouchedSettled
  <2>4. QED  BY <2>2, <2>3
<1>3. CASE EditReadMeta(r) /\ meta[call[r].sid] # NoMeta
  <2>1. /\ call[r].sid = s /\ meta'[s] = meta[s] /\ meta[s] \in MetaDoc
        /\ call'[r].meta = EditedMeta(meta[s], call[r].edit)
    BY <1>1, <1>3, EditReadMetaPrepares DEF PreparedFor
  <2>2. QED  BY <2>1, EditedSettled
<1>4. QED  BY <1>1, <1>2, <1>3 DEF VersionShape, PreparedFor

\* In the fallback a version is read and replaced in one step of the replica
\* that owns it.
LEMMA FallbackSettled ==
    ASSUME TypeOK, NEW r \in Replicas, Step(r), NEW q \in Replicas, NEW s \in Sessions
    PROVE  Settled(fallbackMeta[q][s], fallbackMeta'[q][s])
<1>0. fallbackMeta \in [Replicas -> [Sessions -> AnyMeta]] /\ call \in [Replicas -> Calls]
  BY DEF TypeOK, AnyMeta, Calls
<1>1. CASE AddToFallback(r)
  <2> DEFINE doc == fallbackMeta[r][call[r].sid]
             next == IF doc = NoMeta THEN FirstMeta(call[r].msg, call[r].user)
                                     ELSE TouchedMeta(doc, call[r].user)
  <2>1. call[r].sid \in Sessions /\ call[r].user \in AnyUser
    <3>1. call[r] \in AddCall  BY <1>1, AddCallTyped DEF AddToFallback, At
    <3>2. QED  BY <3>1 DEF AddCall, AnyUser
  <2>2. fallbackMeta' = [fallbackMeta EXCEPT ![r][call[r].sid] = next]
    BY <1>1 DEF AddToFallback
  <2>3. Settled(doc, next)
    <3>1. CASE doc = NoMeta  BY <3>1 DEF Settled
    <3>2. CASE doc # NoMeta
      <4>1. doc \in MetaDoc  BY <1>0, <2>1, <3>2 DEF AnyMeta
      <4>2. QED  BY <2>1, <3>2, <4>1, TouchedSettled
    <3>3. QED  BY <3>1, <3>2
  <2> HIDE DEF next
  <2>4. CASE q = r /\ s = call[r].sid  BY <1>0, <2>1, <2>2, <2>3, <2>4
  <2>5. CASE ~(q = r /\ s = call[r].sid)
    <3>1. fallbackMeta'[q][s] = fallbackMeta[q][s]  BY <1>0, <2>1, <2>2, <2>5
    <3>2. QED  BY <3>1, SameSettled
  <2>6. QED  BY <2>4, <2>5
<1>2. CASE EditFallback(r)
  <2> DEFINE doc == fallbackMeta[r][call[r].sid]
             next == EditedMeta(doc, call[r].edit)
  <2>1. call[r].sid \in Sessions
    <3>1. call[r] \in EditCall  BY <1>0, <1>2, CallKind DEF EditFallback, At
    <3>2. QED  BY <3>1 DEF EditCall
  <2>2. CASE UNCHANGED fallbackMeta  BY <2>2, SameSettled
  <2>3. CASE doc # NoMeta /\ fallbackMeta' = [fallbackMeta EXCEPT ![r][call[r].sid] = next]
    <3>1. Settled(doc, next)
      <4>1. doc \in MetaDoc  BY <1>0, <2>1, <2>3 DEF AnyMeta
      <4>2. QED  BY <4>1, EditedSettled
    <3> HIDE DEF next
    <3>2. CASE q = r /\ s = call[r].sid  BY <1>0, <2>1, <2>3, <3>1, <3>2
    <3>3. CASE ~(q = r /\ s = call[r].sid)
      <4>1. fallbackMeta'[q][s] = fallbackMeta[q][s]  BY <1>0, <2>1, <2>3, <3>3
      <4>2. QED  BY <4>1, SameSettled
    <3>5. QED  BY <3>2, <3>3
  <2>5. QED  BY <1>2, <2>2, <2>3 DEF EditFallback
<1>3. CASE DeleteFromFallback(r)
  <2>1. fallbackMeta'[q][s] \in {fallbackMeta[q][s], NoMeta}
    BY <1>0, <1>3 DEF DeleteFromFallback
  <2>2. QED  BY <2>1, SameSettled DEF Settled
<1>5. CASE Restart(r)
  <2>1. fallbackMeta'[q][s] \in {fallbackMeta[q][s], NoMeta}
    BY <1>0, <1>5 DEF Restart
  <2>2. QED  BY <2>1, SameSettled DEF Settled
<1>6. CASE UNCHANGED fallbackMeta  BY <1>6, SameSettled
<1>7. QED
  BY <1>1, <1>2, <1>3, <1>5, <1>6 DEF Step, StoreCall, AddMessage, EditThread,
     DeleteSession, StoreStep, UpsertMessage, ReadMeta, WriteMeta, MetaUpdateRaises,
     AddRaises, EditReadMeta, EditWriteMeta, EditRaises, QueryIds, DeleteItem,
     DeleteReturns, DeleteNotFound, FallsBack, DeleteRaises, Return

SettledInv == BreakerInv /\ PreparedIsSettled

LEMMA SettledInvHolds ==
    ASSUME OneReplica  PROVE Spec => []SettledInv
<1>1. Init => SettledInv
  <2> SUFFICES ASSUME Init PROVE SettledInv  OBVIOUS
  <2>1. \A r \in Replicas : call[r].op = "idle"  BY DEF Init
  <2>2. QED  BY <2>1, InitBreakerInv DEF SettledInv, PreparedIsSettled, PreparedFor
<1>2. SettledInv /\ [Next]_vars => SettledInv'
  <2> SUFFICES ASSUME SettledInv, [Next]_vars PROVE SettledInv'  OBVIOUS
  <2>1. BreakerInv'  BY NextBreakerInv DEF SettledInv
  <2>2. CASE Next
    <3>1. PICK r \in Replicas : Step(r)  BY <2>2 DEF Next, Step
    <3>2. QED  BY <2>1, <3>1, OneReplica, PreparedIsSettledStep DEF SettledInv
  <2>3. CASE UNCHANGED vars
    BY <2>1, <2>3 DEF vars, SettledInv, PreparedIsSettled, PreparedFor
  <2>5. QED  BY <2>2, <2>3
<1>3. QED  BY <1>1, <1>2, PTL DEF Spec

\* With one replica no message, edit, failed request or restart undoes an
\* earlier edit of a thread, its title or its owner, in Cosmos or in the
\* fallback.  With two the read-modify-write cycles interleave and a deleted
\* thread comes back.
THEOREM SettledSticks ==
    ASSUME OneReplica  PROVE Spec => SettledMetaSticks
<1> DEFINE Sticks == \A s \in Sessions :
              /\ Settled(meta[s], meta'[s])
              /\ \A r \in Replicas : Settled(fallbackMeta[r][s], fallbackMeta'[r][s])
<1>1. ASSUME SettledInv, Next  PROVE Sticks
  <2> SUFFICES ASSUME NEW s \in Sessions
               PROVE  /\ Settled(meta[s], meta'[s])
                      /\ \A q \in Replicas :
                            Settled(fallbackMeta[q][s], fallbackMeta'[q][s])
    OBVIOUS
  <2>1. PICK r \in Replicas : Step(r)  BY <1>1 DEF Next, Step
  <2>2. VersionShape(r) /\ TypeOK
    BY <1>1, <2>1, EveryStepHasVersionShape DEF SettledInv, BreakerInv
  <2>3. \/ meta'[s] = meta[s] \/ meta'[s] = NoMeta
        \/ PreparedFor(r, s) /\ meta'[s] = call[r].meta
    BY <2>2 DEF VersionShape
  <2>5. Settled(meta[s], meta'[s])
    <3>1. CASE meta'[s] = meta[s]  BY <3>1, SameSettled
    <3>2. CASE meta'[s] = NoMeta  BY <3>2 DEF Settled
    <3>3. CASE PreparedFor(r, s) /\ meta'[s] = call[r].meta
      BY <1>1, <3>3 DEF SettledInv, PreparedIsSettled
    <3>5. QED  BY <2>3, <3>1, <3>2, <3>3
  <2>6. QED  BY <2>1, <2>2, <2>5, FallbackSettled
<1>2. ASSUME UNCHANGED vars  PROVE Sticks
  BY <1>2, SameSettled DEF vars
<1>3. SettledInv /\ [Next]_vars => [Sticks]_vars  BY <1>1, <1>2
<1>5. QED  BY <1>3, OneReplica, SettledInvHolds, PTL DEF Spec, SettledMetaSticks

-----------------------------------------------------------------------------
(* message_count with one replica and no fault.                            *)

\* What the thread list shows, and the calls between a message and its count,
\* and between the query and the end of a deletion.
Shown(s) == IF meta[s] = NoMeta THEN 0 ELSE meta[s].count
Uncounting(r, s) ==
    /\ call[r].op = "add" /\ call[r].sid = s
    /\ call[r].pc \in {"readMeta", "upsertMeta", "createMeta"}
Erasing(r, s) == At(r, "delete", "deleteItems") /\ call[r].sid = s

\* A deletion knows exactly what is left; otherwise the count is exact but for
\* the message of the call in progress, which the prepared version counts.
ExactFor(r, s) ==
    /\ Erasing(r, s) => call[r].ids = DocumentIds(s)
    /\ ~Erasing(r, s)
         => Cardinality(msgs[s]) = Shown(s) + (IF Uncounting(r, s) THEN 1 ELSE 0)
    /\ PreparedFor(r, s)
         => call[r].meta.count = Shown(s) + (IF call[r].op = "add" THEN 1 ELSE 0)

CountsExact == faults = 0 => \A r \in Replicas, s \in Sessions : ExactFor(r, s)

LEMMA ShownType ==
    ASSUME TypeOK, NEW s \in Sessions  PROVE Shown(s) \in Nat
BY DEF TypeOK, Shown, MetaDoc

\* A step that leaves Cosmos alone and ends up outside a half-done change.
LEMMA QuietStepExact ==
    ASSUME NEW r \in Replicas, NEW s \in Sessions, ExactFor(r, s),
           UNCHANGED <<msgs, meta>>, ~Erasing(r, s), ~Uncounting(r, s),
           \/ call'[r].op \in {"idle", "returned"}
           \/ call'[r].pc \in {"upsertMessage", "fallback", "query"}
           \/ call'[r].op = "edit" /\ call'[r].pc = "readMeta"
    PROVE  ExactFor(r, s)'
BY DEF ExactFor, Erasing, Uncounting, PreparedFor, Shown, At, DocumentIds

LEMMA StartExact ==
    ASSUME TypeOK, NEW r \in Replicas, NEW s \in Sessions, ExactFor(r, s), StoreCall(r)
    PROVE  ExactFor(r, s)'
<1>1. PICK t \in Sessions :
        \/ \E u \in Users \cup {NoUser} : AddMessage(r, t, "user", u)
        \/ AddMessage(r, t, "assistant", NoUser)
        \/ \E edit \in Edits : EditThread(r, t, edit)
        \/ DeleteSession(r, t)
  BY DEF StoreCall
<1>2. UNCHANGED <<msgs, meta>> /\ call[r] = Idle
  BY <1>1 DEF AddMessage, EditThread, DeleteSession
<1>3. ~Erasing(r, s) /\ ~Uncounting(r, s)  BY <1>2 DEF Erasing, Uncounting, At
<1>4. \/ call'[r].pc \in {"upsertMessage", "fallback", "query"}
      \/ call'[r].op = "edit" /\ call'[r].pc = "readMeta"
  BY <1>1 DEF AddMessage, EditThread, DeleteSession, Entry, TypeOK
<1>5. QED  BY <1>2, <1>3, <1>4, QuietStepExact

LEMMA AddStepExact ==
    ASSUME HistoryInv, NEW r \in Replicas, NEW s \in Sessions, ExactFor(r, s),
           UpsertMessage(r) \/ ReadMeta(r) \/ WriteMeta(r) \/ AddToFallback(r)
    PROVE  ExactFor(r, s)'
<1>0. TypeOK /\ call \in [Replicas -> Calls]
  BY DEF HistoryInv, BreakerInv, TypeOK, Calls
<1>a. call[r] \in AddCall /\ call[r].op = "add" /\ call[r].sid \in Sessions
  BY <1>0, AddCallTyped DEF UpsertMessage, ReadMeta, WriteMeta, AddToFallback, At
<1>b. Shown(s) \in Nat  BY <1>0, ShownType
<1>c. msgs \in [Sessions -> SUBSET Message] /\ meta \in [Sessions -> AnyMeta]
  BY <1>0 DEF TypeOK, AnyMeta
<1>d. ~Erasing(r, s)  BY <1>a DEF Erasing, At
<1>1. CASE UpsertMessage(r)
  <2>1. /\ msgs' = [msgs EXCEPT ![call[r].sid] = @ \cup {call[r].msg}]
        /\ UNCHANGED meta /\ call[r].pc = "upsertMessage"
        /\ call'[r].pc = "readMeta" /\ call'[r].op = "add"
        /\ call'[r].sid = call[r].sid
    BY <1>0, <1>a, <1>1 DEF UpsertMessage, Goto, At, AddCall
  <2>2. Cardinality(msgs[s]) = Shown(s)
    BY <1>b, <1>d, <2>1 DEF ExactFor, Uncounting
  <2>3. Shown(s)' = Shown(s)  BY <2>1 DEF Shown
  <2>4. ~Erasing(r, s)' /\ ~PreparedFor(r, s)'
    BY <2>1 DEF Erasing, PreparedFor, At
  <2>5. CASE call[r].sid = s
    <3>1. msgs'[s] = msgs[s] \cup {call[r].msg}  BY <1>c, <2>1, <2>5
    <3>2. call[r].msg \notin msgs[s]
      BY <1>1, <2>5 DEF HistoryInv, PendingIsFresh, UpsertMessage, Written
    <3>3. IsFiniteSet(msgs[s])
      <4>1. IsFiniteSet(Written(s)) /\ msgs[s] \subseteq Written(s)
        BY DEF HistoryInv, FiniteHistory, Written
      <4>2. QED  BY <4>1, FS_Subset
    <3>5. Cardinality(msgs'[s]) = Cardinality(msgs[s]) + 1
      BY <3>1, <3>2, <3>3, FS_AddElement
    <3>6. Uncounting(r, s)'  BY <2>1, <2>5 DEF Uncounting
    <3>7. QED  BY <2>2, <2>3, <2>4, <3>5, <3>6 DEF ExactFor
  <2>6. CASE call[r].sid # s
    <3>1. msgs'[s] = msgs[s] /\ ~Uncounting(r, s)'
      BY <1>c, <2>1, <2>6 DEF Uncounting
    <3>2. QED  BY <1>b, <2>2, <2>3, <2>4, <3>1 DEF ExactFor
  <2>7. QED  BY <2>5, <2>6
<1>2. CASE ReadMeta(r)
  <2> DEFINE t == call[r].sid
  <2>1. /\ call'[r].sid = t /\ call'[r].op = "add" /\ UNCHANGED <<msgs, meta>>
        /\ call'[r].pc \in {"upsertMeta", "createMeta"}
        /\ call[r].msg \in Message /\ call[r].user \in AnyUser
        /\ call'[r].meta = IF meta[t] = NoMeta
                           THEN FirstMeta(call[r].msg, call[r].user)
                           ELSE TouchedMeta(meta[t], call[r].user)
    BY <1>0, <1>2, ReadMetaPrepares
  <2>2. call[r].pc = "readMeta"  BY <1>2 DEF ReadMeta, At
  <2>3. Uncounting(r, s)' = Uncounting(r, s)
    BY <1>a, <2>1, <2>2 DEF Uncounting
  <2>5. ~Erasing(r, s)'  BY <2>1 DEF Erasing, At
  <2>6. Shown(s)' = Shown(s) /\ msgs'[s] = msgs[s]  BY <2>1 DEF Shown
  <2>7. t = s => call'[r].meta.count = Shown(s) + 1
    <3>1. CASE meta[t] = NoMeta
      <4>1. call'[r].meta = FirstMeta(call[r].msg, call[r].user)  BY <2>1, <3>1
      <4>2. t = s => Shown(s) = 0  BY <3>1 DEF Shown
      <4>3. FirstMeta(call[r].msg, call[r].user).count = 1  BY DEF FirstMeta
      <4>5. QED  BY <4>1, <4>2, <4>3
    <3>2. CASE meta[t] # NoMeta
      <4>1. meta[t] \in MetaDoc  BY <1>a, <1>c, <3>2 DEF AnyMeta
      <4>2. QED  BY <2>1, <3>2, <4>1 DEF TouchedMeta, MetaDoc, Shown
    <3>3. QED  BY <3>1, <3>2
  <2>8. PreparedFor(r, s)' => t = s  BY <2>1 DEF PreparedFor
  <2>9. Cardinality(msgs[s]) = Shown(s) + (IF Uncounting(r, s) THEN 1 ELSE 0)
    BY <1>d DEF ExactFor
  <2>10. QED  BY <2>1, <2>3, <2>5, <2>6, <2>7, <2>8, <2>9 DEF ExactFor
<1>3. CASE WriteMeta(r)
  <2>1. /\ meta' = [meta EXCEPT ![call[r].sid] = call[r].meta]
        /\ UNCHANGED msgs /\ call'[r].op = "returned"
        /\ call[r].pc \in {"upsertMeta", "createMeta"}
    BY <1>0, <1>3 DEF WriteMeta, Finish, At
  <2>2. ~Erasing(r, s)' /\ ~Uncounting(r, s)' /\ ~PreparedFor(r, s)'
    BY <2>1 DEF Erasing, Uncounting, PreparedFor, At
  <2>3. CASE call[r].sid = s
    <3>1. PreparedFor(r, s) /\ Uncounting(r, s)
      BY <1>a, <2>1, <2>3 DEF PreparedFor, Uncounting
    <3>2. call[r].meta # NoMeta
      BY <3>1 DEF PreparedFor, HistoryInv, VersionsCount
    <3>3. meta'[s] = call[r].meta  BY <1>c, <2>1, <2>3
    <3>5. Shown(s)' = call[r].meta.count  BY <3>2, <3>3 DEF Shown
    <3>6. /\ call[r].meta.count = Shown(s) + 1
          /\ Cardinality(msgs[s]) = Shown(s) + 1
      BY <1>a, <1>d, <3>1 DEF ExactFor
    <3>7. QED  BY <1>b, <2>1, <2>2, <3>5, <3>6 DEF ExactFor
  <2>5. CASE call[r].sid # s
    <3>1. meta'[s] = meta[s] /\ msgs'[s] = msgs[s] /\ ~Uncounting(r, s)
      BY <1>c, <2>1, <2>5 DEF Uncounting
    <3>2. QED  BY <1>b, <1>d, <2>2, <3>1 DEF ExactFor, Shown
  <2>6. QED  BY <2>3, <2>5
<1>5. CASE AddToFallback(r)
  <2>1. /\ UNCHANGED <<msgs, meta>> /\ call'[r].op = "returned"
        /\ call[r].pc = "fallback"
    BY <1>0, <1>5 DEF AddToFallback, Finish, At
  <2>2. ~Uncounting(r, s)  BY <2>1 DEF Uncounting
  <2>3. QED  BY <1>d, <2>1, <2>2, QuietStepExact
<1>6. QED  BY <1>1, <1>2, <1>3, <1>5

LEMMA EditStepExact ==
    ASSUME HistoryInv, NEW r \in Replicas, NEW s \in Sessions, ExactFor(r, s),
           EditReadMeta(r) \/ EditWriteMeta(r) \/ EditFallback(r)
    PROVE  ExactFor(r, s)'
<1>0. TypeOK /\ call \in [Replicas -> Calls]
  BY DEF HistoryInv, BreakerInv, TypeOK, Calls
<1>a. call[r] \in EditCall /\ call[r].op = "edit"
  BY <1>0, CallKind DEF EditReadMeta, EditWriteMeta, EditFallback, At
<1>b. Shown(s) \in Nat  BY <1>0, ShownType
<1>c. msgs \in [Sessions -> SUBSET Message] /\ meta \in [Sessions -> AnyMeta]
  BY <1>0 DEF TypeOK, AnyMeta
<1>d. ~Erasing(r, s) /\ ~Uncounting(r, s)  BY <1>a DEF Erasing, Uncounting, At
<1>1. CASE EditReadMeta(r) /\ meta[call[r].sid] # NoMeta
  <2> DEFINE t == call[r].sid
  <2>1. /\ call'[r].sid = t /\ call'[r].op = "edit" /\ UNCHANGED <<msgs, meta>>
        /\ meta[t] \in MetaDoc /\ call'[r].meta = EditedMeta(meta[t], call[r].edit)
    BY <1>0, <1>1, EditReadMetaPrepares
  <2>2. ~Erasing(r, s)' /\ ~Uncounting(r, s)'
    BY <2>1 DEF Erasing, Uncounting, At
  <2>3. call'[r].meta.count = meta[t].count
    BY <2>1 DEF EditedMeta, MetaDoc
  <2>5. PreparedFor(r, s)' => call'[r].meta.count = Shown(s)
    BY <1>1, <2>1, <2>3 DEF PreparedFor, Shown
  <2>6. Cardinality(msgs[s]) = Shown(s)  BY <1>b, <1>d DEF ExactFor
  <2>7. Shown(s)' = Shown(s) /\ msgs'[s] = msgs[s]  BY <2>1 DEF Shown
  <2>8. QED  BY <1>b, <2>1, <2>2, <2>5, <2>6, <2>7 DEF ExactFor
<1>2. CASE EditReadMeta(r) /\ meta[call[r].sid] = NoMeta
  <2>1. UNCHANGED <<msgs, meta>> /\ call'[r].op = "returned"
    BY <1>0, <1>2 DEF EditReadMeta, Finish
  <2>2. QED  BY <1>d, <2>1, QuietStepExact
<1>3. CASE EditWriteMeta(r)
  <2>1. /\ meta' = [meta EXCEPT ![call[r].sid] = call[r].meta]
        /\ UNCHANGED msgs /\ call'[r].op = "returned" /\ call[r].pc = "upsertMeta"
    BY <1>0, <1>3 DEF EditWriteMeta, Finish, At
  <2>2. ~Erasing(r, s)' /\ ~Uncounting(r, s)' /\ ~PreparedFor(r, s)'
    BY <2>1 DEF Erasing, Uncounting, PreparedFor, At
  <2>3. CASE call[r].sid = s
    <3>1. PreparedFor(r, s)  BY <1>a, <2>1, <2>3 DEF PreparedFor
    <3>2. call[r].meta # NoMeta
      BY <3>1 DEF PreparedFor, HistoryInv, VersionsCount
    <3>3. meta'[s] = call[r].meta  BY <1>c, <2>1, <2>3
    <3>5. Shown(s)' = call[r].meta.count  BY <3>2, <3>3 DEF Shown
    <3>6. /\ call[r].meta.count = Shown(s)
          /\ Cardinality(msgs[s]) = Shown(s)
      BY <1>a, <1>b, <1>d, <3>1 DEF ExactFor
    <3>7. QED  BY <1>b, <2>1, <2>2, <3>5, <3>6 DEF ExactFor
  <2>5. CASE call[r].sid # s
    <3>1. meta'[s] = meta[s] /\ msgs'[s] = msgs[s]
      BY <1>c, <2>1, <2>5
    <3>2. QED  BY <1>b, <1>d, <2>2, <3>1 DEF ExactFor, Shown
  <2>6. QED  BY <2>3, <2>5
<1>5. CASE EditFallback(r)
  <2>1. UNCHANGED <<msgs, meta>> /\ call'[r].op = "returned"
    BY <1>0, <1>5 DEF EditFallback, Finish
  <2>2. QED  BY <1>d, <2>1, QuietStepExact
<1>6. QED  BY <1>1, <1>2, <1>3, <1>5

\* Deleting a document takes its id, and no other, out of the partition.
LEMMA RemoveDocumentIds ==
    ASSUME TypeOK, NEW s \in Sessions, NEW i, RemoveDocument(s, i)
    PROVE  /\ DocumentIds(s)' = DocumentIds(s) \ {i}
           /\ \A t \in Sessions \ {s} : msgs'[t] = msgs[t] /\ meta'[t] = meta[t]
<1>1. msgs \in [Sessions -> SUBSET Message] /\ meta \in [Sessions -> AnyMeta]
  BY DEF TypeOK, AnyMeta
<1>2. msgs'[s] = {m \in msgs[s] : m.id # i}  BY <1>1 DEF RemoveDocument
<1>3. meta'[s] = IF i = MetaId THEN NoMeta ELSE meta[s]
  BY <1>1 DEF RemoveDocument
<1>4. {m.id : m \in msgs'[s]} = {m.id : m \in msgs[s]} \ {i}  BY <1>2
<1>5. (IF meta'[s] = NoMeta THEN {} ELSE {MetaId})
        = (IF meta[s] = NoMeta THEN {} ELSE {MetaId}) \ {i}
  BY <1>3 DEF MetaId
<1>6. QED  BY <1>1, <1>4, <1>5 DEF DocumentIds, RemoveDocument

LEMMA EmptyPartition ==
    ASSUME NEW s \in Sessions, DocumentIds(s) = {}
    PROVE  msgs[s] = {} /\ meta[s] = NoMeta
BY DEF DocumentIds

LEMMA DeleteStepExact ==
    ASSUME HistoryInv, NEW r \in Replicas, NEW s \in Sessions,
           \A t \in Sessions : ExactFor(r, t),
           \/ QueryIds(r) \/ DeleteItem(r) \/ DeleteReturns(r)
           \/ DeleteNotFound(r) \/ DeleteFromFallback(r)
    PROVE  ExactFor(r, s)'
<1>0. TypeOK /\ call \in [Replicas -> Calls]
  BY DEF HistoryInv, BreakerInv, TypeOK, Calls
<1>a. call[r] \in DeleteCall /\ call[r].op = "delete"
  BY <1>0, CallKind DEF QueryIds, DeleteItem, DeleteReturns, DeleteNotFound, FallsBack,
                        DeleteFromFallback, At
<1>b. call[r].sid \in Sessions  BY <1>a DEF DeleteCall
<1>c. ~Uncounting(r, s)  BY <1>a DEF Uncounting
<1>d. ExactFor(r, s)  OBVIOUS
<1>1. CASE QueryIds(r)
  <2> DEFINE ids == DocumentIds(call[r].sid)
  <2>1. call' = [call EXCEPT ![r].ids = ids, ![r].pc = "deleteItems"]
        /\ UNCHANGED <<msgs, meta>> /\ call[r].pc = "query"
    BY <1>1 DEF QueryIds, At
  <2> HIDE DEF ids
  <2>2. /\ call'[r].ids = ids /\ call'[r].op = "delete"
        /\ call'[r].sid = call[r].sid
    BY <1>0, <1>a, <2>1 DEF DeleteCall
  <2>3. ~Erasing(r, s)  BY <2>1 DEF Erasing, At
  <2>5. Cardinality(msgs[s]) = Shown(s) + 0  BY <1>c, <1>d, <2>3 DEF ExactFor
  <2>6. ~Uncounting(r, s)' /\ ~PreparedFor(r, s)'
    BY <2>2 DEF Uncounting, PreparedFor
  <2>7. /\ Shown(s)' = Shown(s) /\ msgs'[s] = msgs[s]
        /\ DocumentIds(s)' = DocumentIds(s)
    BY <2>1 DEF Shown, DocumentIds
  <2>8. Erasing(r, s)' => call'[r].ids = DocumentIds(s)
    BY <2>2 DEF Erasing, ids
  <2>9. QED  BY <2>5, <2>6, <2>7, <2>8 DEF ExactFor
<1>2. CASE DeleteItem(r)
  <2>1. PICK i \in call[r].ids \cap DocumentIds(call[r].sid) :
          /\ RemoveDocument(call[r].sid, i)
          /\ call' = [call EXCEPT ![r].ids = @ \ {i}]
    BY <1>2 DEF DeleteItem
  <2>2. /\ call'[r].ids = call[r].ids \ {i} /\ call'[r].op = "delete"
        /\ call'[r].sid = call[r].sid /\ call'[r].pc = call[r].pc
    BY <1>0, <1>a, <2>1 DEF DeleteCall
  <2>3. call[r].pc = "deleteItems"  BY <1>2 DEF DeleteItem, At
  <2>5. ~Uncounting(r, s)' /\ ~PreparedFor(r, s)'
    BY <2>2 DEF Uncounting, PreparedFor
  <2>6. CASE call[r].sid = s
    <3>1. Erasing(r, s) /\ Erasing(r, s)'
      BY <1>a, <2>2, <2>3, <2>6 DEF Erasing, At
    <3>2. DocumentIds(s)' = DocumentIds(s) \ {i}
      BY <1>0, <2>1, <2>6, RemoveDocumentIds
    <3>3. call'[r].ids = DocumentIds(s)'  BY <1>d, <2>2, <3>1, <3>2 DEF ExactFor
    <3>5. QED  BY <2>5, <3>1, <3>3 DEF ExactFor
  <2>7. CASE call[r].sid # s
    <3>1. msgs'[s] = msgs[s] /\ meta'[s] = meta[s]
      BY <1>0, <1>b, <2>1, <2>7, RemoveDocumentIds
    <3>2. ~Erasing(r, s) /\ ~Erasing(r, s)'
      BY <2>2, <2>7 DEF Erasing
    <3>3. QED  BY <1>c, <1>d, <2>5, <3>1, <3>2 DEF ExactFor, Shown
  <2>8. QED  BY <2>6, <2>7
<1>3. CASE DeleteReturns(r)
  <2>1. /\ UNCHANGED <<msgs, meta>> /\ call'[r].op = "returned"
        /\ call[r].ids = {} /\ call[r].pc = "deleteItems"
    BY <1>0, <1>3 DEF DeleteReturns, Finish, At
  <2>2. CASE call[r].sid = s
    <3>1. Erasing(r, s)  BY <1>a, <2>1, <2>2 DEF Erasing, At
    <3>2. msgs[s] = {} /\ meta[s] = NoMeta
      BY <1>d, <2>1, <3>1, EmptyPartition DEF ExactFor
    <3>3. Cardinality(msgs'[s]) = 0 /\ Shown(s)' = 0
      BY <2>1, <3>2, FS_EmptySet DEF Shown
    <3>5. ~Erasing(r, s)' /\ ~Uncounting(r, s)' /\ ~PreparedFor(r, s)'
      BY <2>1 DEF Erasing, Uncounting, PreparedFor, At
    <3>6. QED  BY <3>3, <3>5 DEF ExactFor
  <2>3. CASE call[r].sid # s
    <3>1. ~Erasing(r, s)  BY <2>3 DEF Erasing
    <3>2. QED  BY <1>c, <1>d, <2>1, <3>1, QuietStepExact
  <2>5. QED  BY <2>2, <2>3
\* Nobody else deletes: no document of the query is missing.
<1>5. CASE DeleteNotFound(r)
  <2>1. /\ call[r].ids \ DocumentIds(call[r].sid) # {}
        /\ Erasing(r, call[r].sid)
    BY <1>5 DEF DeleteNotFound, FallsBack, Erasing
  <2>2. call[r].ids = DocumentIds(call[r].sid)
    BY <1>b, <2>1 DEF ExactFor
  <2>3. QED  BY <2>1, <2>2
<1>6. CASE DeleteFromFallback(r)
  <2>1. UNCHANGED <<msgs, meta>> /\ call'[r].op = "returned" /\ call[r].pc = "fallback"
    BY <1>0, <1>6 DEF DeleteFromFallback, Finish, At
  <2>2. ~Erasing(r, s)  BY <2>1 DEF Erasing, At
  <2>3. QED  BY <1>c, <1>d, <2>1, <2>2, QuietStepExact
<1>7. QED  BY <1>1, <1>2, <1>3, <1>5, <1>6

LEMMA CountsExactStep ==
    ASSUME HistoryInv, CountsExact, OneReplica, NEW r \in Replicas, Step(r)
    PROVE  CountsExact'
<1> SUFFICES ASSUME faults' = 0, NEW s \in Sessions  PROVE ExactFor(r, s)'
  BY DEF CountsExact, OneReplica
<1>0. TypeOK /\ faults \in Nat  BY DEF HistoryInv, BreakerInv, TypeOK
<1>1. ~Fault  BY <1>0 DEF Fault
<1>2. faults' = faults
  BY <1>1 DEF Step, StoreCall, AddMessage, EditThread, DeleteSession, StoreStep,
     UpsertMessage, ReadMeta, WriteMeta, MetaUpdateRaises, AddRaises,
     AddToFallback, EditReadMeta, EditWriteMeta, EditRaises, EditFallback,
     QueryIds, DeleteItem, DeleteReturns, DeleteNotFound, FallsBack, DeleteRaises,
     DeleteFromFallback, Return, Restart
<1>3. \A t \in Sessions : ExactFor(r, t)  BY <1>2 DEF CountsExact
<1>5. CASE Return(r)
  <2>1. /\ UNCHANGED <<msgs, meta>> /\ call'[r].op = "idle"
        /\ call[r].op = "returned"
    BY <1>0, <1>5 DEF Return, TypeOK
  <2>2. ~Erasing(r, s) /\ ~Uncounting(r, s)  BY <2>1 DEF Erasing, Uncounting, At
  <2>3. QED  BY <1>3, <2>1, <2>2, QuietStepExact
<1>6. QED
  BY <1>0, <1>1, <1>3, <1>5, StartExact, AddStepExact, EditStepExact,
     DeleteStepExact DEF Step, StoreStep, MetaUpdateRaises, AddRaises, EditRaises,
     DeleteRaises, FallsBack, Restart

ExactInv == HistoryInv /\ CountsExact

LEMMA InitExactInv == Init => ExactInv
<1> SUFFICES ASSUME Init PROVE ExactInv  OBVIOUS
<1>1. /\ \A r \in Replicas : call[r].op = "idle"
      /\ \A s \in Sessions : msgs[s] = {} /\ meta[s] = NoMeta
  BY DEF Init
<1>2. \A r \in Replicas, s \in Sessions : ExactFor(r, s)
  BY <1>1, FS_EmptySet DEF ExactFor, Erasing, Uncounting, PreparedFor, Shown, At
<1>3. QED  BY <1>2, InitHistoryInv DEF ExactInv, CountsExact

LEMMA ExactInvHolds ==
    ASSUME OneReplica  PROVE Spec => []ExactInv
<1>1. Init => ExactInv  BY InitExactInv
<1>2. ExactInv /\ [Next]_vars => ExactInv'
  <2> SUFFICES ASSUME ExactInv, [Next]_vars PROVE ExactInv'  OBVIOUS
  <2>1. HistoryInv'  BY NextHistoryInv DEF ExactInv
  <2>2. CASE Next
    <3>1. PICK r \in Replicas : Step(r)  BY <2>2 DEF Next, Step
    <3>2. QED  BY <2>1, <3>1, OneReplica, CountsExactStep DEF ExactInv
  <2>3. CASE UNCHANGED vars
    BY <2>1, <2>3 DEF vars, ExactInv, CountsExact, ExactFor, Erasing, Uncounting,
       PreparedFor, Shown, At, DocumentIds
  <2>5. QED  BY <2>2, <2>3
<1>3. QED  BY <1>1, <1>2, PTL DEF Spec

\* With one replica, and as long as no request raised, message_count is the
\* number of messages of the thread whenever no call is in progress: the two
\* requests of add_message and the deletions, document by document, add up.
THEOREM CountExact ==
    ASSUME OneReplica  PROVE Spec => []CountExactWhenHealthy
<1>1. ExactInv => CountExactWhenHealthy
  <2> SUFFICES ASSUME ExactInv, faults = 0,
                      \A r \in Replicas : call[r].op \in {"idle", "returned"},
                      NEW s \in Sessions
               PROVE  Cardinality(msgs[s]) = Shown(s)
    BY DEF CountExactWhenHealthy, Shown
  <2>1. PICK r \in Replicas : Replicas = {r}  BY OneReplica DEF OneReplica
  <2>2. ExactFor(r, s) /\ call[r].op \in {"idle", "returned"}
    BY <2>1 DEF ExactInv, CountsExact
  <2>3. ~Erasing(r, s) /\ ~Uncounting(r, s)
    BY <2>2 DEF Erasing, Uncounting, At
  <2>5. Shown(s) \in Nat
    BY ShownType DEF ExactInv, HistoryInv, BreakerInv
  <2>6. QED  BY <2>2, <2>3, <2>5 DEF ExactFor
<1>2. QED  BY <1>1, OneReplica, ExactInvHolds, PTL

=============================================================================
