--------------------------- MODULE ChatPageProofs ---------------------------
(***************************************************************************)
(* Theorems of ChatPage, for any texts, any number of questions, of thread      *)
(* loads at once and of log events.                                             *)
(***************************************************************************)
EXTENDS ChatPage, SequenceTheorems, NaturalsInduction, WellFoundedInduction, TLAPS

Message == [role : {"user", "user_document", "assistant", "graph"}, of : Int]
LineType == [type : {"log", "error", "bare_error", "output", "done"}, of : 1..MaxAsks]
Text == Texts \union {"none"}
Run == [text : Text, entries : Seq(1..MaxAsks)]
LogType == [runs : Seq(Run), current : Seq(1..MaxAsks), cleared : SUBSET (1..MaxAsks)]
PageType == [shown : Seq(Message), session : 0..MaxAsks, loading : BOOLEAN, sending : BOOLEAN,
             uploading : BOOLEAN, file : BOOLEAN]
SendType == [step : {"none", "post", "stream"}, ask : 0..MaxAsks, text : Text,
             session : 0..MaxAsks, file : BOOLEAN]
LoadType == [step : {"none", "token", "fetch", "served"}, thread : 0..MaxAsks,
             messages : Seq(Message)]
UploadType == [step : {"none", "post"}, text : Text, session : 0..MaxAsks]
StreamType == [step : {"none", "agent", "ended"}, session : 0..MaxAsks, lines : Seq(LineType),
               logs : Nat, read : Nat, text : Text]

Types ==
    /\ page \in PageType /\ send \in SendType
    /\ loads \in [Slots -> LoadType] /\ upload \in UploadType
    /\ asks \in 0..MaxAsks
    /\ runLog \in LogType
    /\ threads \in [Sessions -> Seq(Message)]
    /\ streams \in [1..MaxAsks -> StreamType]

\* The question under way is the last one, and the page knows that there is one.
SendInv ==
    /\ page.sending = (send.step # "none")
    /\ send.step # "none" => asks > 0 /\ send.ask = asks

\* The questions that have reached the server, which are as many sessions as it can have
\* opened: the threads of the others are empty, and nobody has heard of them.
Posts == IF send.step = "post" THEN asks - 1 ELSE asks
FreshInv ==
    /\ \A s \in Sessions : s > Posts => threads[s] = <<>>
    /\ \A a \in 1..MaxAsks : streams[a].step # "none" => streams[a].session \in 1..Posts
    /\ send.step = "stream" => streams[send.ask].step # "none"
    /\ \A a \in 1..MaxAsks : a > Posts => streams[a].step = "none" /\ streams[a].lines = <<>>
    /\ page.session <= Posts /\ send.session <= Posts /\ upload.session <= Posts
    /\ \A l \in Slots : loads[l].thread <= Posts /\ (loads[l].step # "none" => loads[l].thread > 0)

PageInv == Types /\ SendInv /\ FreshInv

\* The run log: each run holds the reports of one question, all of them and only these;
\* the questions of the runs ascend; and the entries of the answer being read are kept
\* beside the runs, whatever becomes of these.
Reports(a) == [n \in 1..streams[a].read |-> a]
IsRunOf(run, a) ==
    /\ a <= asks /\ streams[a].read > 0
    /\ run.entries = Reports(a) /\ run.text = streams[a].text
Owner(i) == runLog.runs[i].entries[1]
RunsHold ==
    /\ \A i \in DOMAIN runLog.runs : Owner(i) \in 1..MaxAsks /\ IsRunOf(runLog.runs[i], Owner(i))
    /\ \A i, j \in DOMAIN runLog.runs : i < j => Owner(i) < Owner(j)
ReadingHolds ==
    /\ \A a \in 1..MaxAsks : a > Posts => streams[a].read = 0
    /\ send.step # "none" => send.text = streams[send.ask].text
    /\ send.step = "stream" => runLog.current = Reports(send.ask)
RunLogInv == RunsHold /\ ReadingHolds /\ RunLogKeptUnless

\* What the page shows.  The lines of an answer under way end with "done", and if they
\* hold the answer it comes just before.
Stands(session) == IF session = 0 THEN <<>> ELSE threads[session]
One(m) == [m EXCEPT !.role = As(@)]
Answers(lines) == Len(lines) > 1 /\ lines[Len(lines) - 1].type = "output"
GoodLines(step, lines) ==
    /\ step # "none"
    /\ step = "agent" => \A i \in 1..Len(lines) : lines[i].type = "log"
    /\ step = "ended" /\ Len(lines) > 0 =>
           /\ lines[Len(lines)].type = "done"
           /\ \A i \in 1..Len(lines) - 1 : lines[i].type # "done"
           /\ \A i \in 1..Len(lines) - 2 : lines[i].type # "output"

\* The page is behind what is stored by the answer that the lines still hold.
InStream(shown, session, stored, st, a) ==
    /\ GoodLines(st.step, st.lines)
    /\ st.step = "ended" /\ st.lines = <<>> => session = st.session
    /\ Plain(stored) = IF Answers(st.lines) THEN Append(Plain(shown), Assistant(a)) ELSE Plain(shown)
    /\ Answers(st.lines) \/ st.step = "agent" => shown # <<>> /\ Last(shown).role # "graph"

ShownInv ==
    parted = "no" =>
        /\ send.step # "stream" => Running = {}
        /\ send.step = "none" => Plain(page.shown) = Plain(Stands(page.session))
        /\ send.step = "post" =>
               /\ send.session = page.session
               /\ Plain(page.shown) = Append(Plain(Stands(page.session)), User(send.ask))
        /\ send.step = "stream" =>
               /\ Running \subseteq {send.ask}
               /\ InStream(page.shown, page.session, threads[streams[send.ask].session],
                           streams[send.ask], send.ask)

-----------------------------------------------------------------------------
(* Sequences.                                                              *)

LEMMA LastAndFront ==
    ASSUME NEW S, NEW seq \in Seq(S), seq # <<>>
    PROVE  /\ Last(seq) = seq[Len(seq)] /\ Last(seq) \in S
           /\ Front(seq) \in Seq(S) /\ Len(Front(seq)) = Len(seq) - 1
           /\ \A i \in 1..Len(seq) - 1 : Front(seq)[i] = seq[i]
<1>1. Len(seq) \in Nat /\ Len(seq) > 0 /\ seq \in [1..Len(seq) -> S]
  BY EmptySeq, LenProperties
<1> QED BY <1>1, SubSeqProperties DEF Last, Front

LEMMA AppendFacts ==
    ASSUME NEW S, NEW seq \in Seq(S), NEW e \in S
    PROVE  /\ Append(seq, e) \in Seq(S) /\ Append(seq, e) # <<>>
           /\ Len(Append(seq, e)) = Len(seq) + 1 /\ DOMAIN Append(seq, e) = 1..Len(seq) + 1
           /\ \A i \in 1..Len(seq) : Append(seq, e)[i] = seq[i]
           /\ Append(seq, e)[Len(seq) + 1] = e
           /\ Last(Append(seq, e)) = e
<1>1. /\ Append(seq, e) \in Seq(S) /\ Append(seq, e) # <<>>
      /\ Len(Append(seq, e)) = Len(seq) + 1
      /\ \A i \in 1..Len(seq) : Append(seq, e)[i] = seq[i]
      /\ Append(seq, e)[Len(seq) + 1] = e
  BY AppendProperties
<1> QED BY <1>1, LenProperties DEF Last

LEMMA ConcatOne ==
    ASSUME NEW S, NEW seq \in Seq(S), NEW e \in S
    PROVE  seq \o <<e>> = Append(seq, e)
  BY AppendIsConcat

LEMMA ConcatTwo ==
    ASSUME NEW S, NEW seq \in Seq(S), NEW d \in S, NEW e \in S
    PROVE  seq \o <<d, e>> = Append(Append(seq, d), e)
<1>2. <<d>> \in Seq(S) /\ <<e>> \in Seq(S)
  OBVIOUS
<1>1. <<d, e>> = <<d>> \o <<e>>
  <2> DEFINE two == <<d>> \o <<e>>
  <2>1. /\ two \in Seq(S) /\ Len(two) = 2 /\ two[1] = d /\ two[2] = e
    <3>1. Len(<<d>>) = 1 /\ Len(<<e>>) = 1 /\ <<d>>[1] = d /\ <<e>>[1] = e
      OBVIOUS
    <3> QED BY <1>2, <3>1, ConcatProperties
  <2>2. <<d, e>> \in Seq(S) /\ Len(<<d, e>>) = 2 /\ <<d, e>>[1] = d /\ <<d, e>>[2] = e
    OBVIOUS
  <2>3. \A i \in 1..2 : two[i] = <<d, e>>[i]
    BY <2>1, <2>2
  <2> HIDE DEF two
  <2>4. two = <<d, e>>
    BY <2>1, <2>2, <2>3, SeqEqual
  <2> QED BY <2>4 DEF two
<1>3. seq \o <<d, e>> = (seq \o <<d>>) \o <<e>>
  BY <1>1, <1>2, ConcatAssociative
<1> QED BY <1>3, ConcatOne, AppendFacts

LEMMA TailFacts ==
    ASSUME NEW S, NEW seq \in Seq(S), seq # <<>>
    PROVE  /\ Tail(seq) \in Seq(S) /\ Len(Tail(seq)) = Len(seq) - 1 /\ Len(seq) \in Nat \ {0}
           /\ seq[1] \in S
           /\ \A i \in 1..Len(seq) - 1 : Tail(seq)[i] = seq[i + 1]
<1>1. Len(seq) \in Nat /\ Len(seq) > 0 /\ seq \in [1..Len(seq) -> S]
  BY EmptySeq, LenProperties
<1> QED BY <1>1, HeadTailProperties

\* Plain, which the properties compare, keeps lengths and appends.
LEMMA OneType == ASSUME NEW m \in Message PROVE One(m) \in Message /\ One(m).role # "graph"
  BY DEF One, As, Message

LEMMA PlainType ==
    ASSUME NEW seq \in Seq(Message)
    PROVE  /\ Plain(seq) \in Seq(Message) /\ Len(Plain(seq)) = Len(seq)
           /\ \A i \in 1..Len(seq) : Plain(seq)[i] = One(seq[i])
<1>1. Len(seq) \in Nat /\ DOMAIN seq = 1..Len(seq) /\ \A i \in 1..Len(seq) : seq[i] \in Message
  BY LenProperties
<1>2. Plain(seq) = [i \in 1..Len(seq) |-> One(seq[i])]
  BY <1>1 DEF Plain, One
<1>3. \A i \in 1..Len(seq) : One(seq[i]) \in Message
  BY <1>1, OneType
<1>4. Plain(seq) \in [1..Len(seq) -> Message]
  BY <1>2, <1>3
<1>5. Plain(seq) \in Seq(Message)
  BY <1>1, <1>4, SeqDef
<1>6. Len(Plain(seq)) = Len(seq)
  BY <1>1, <1>2, <1>5, LenProperties
<1> QED BY <1>2, <1>5, <1>6

LEMMA PlainEmpty == Plain(<<>>) = <<>>
<1>1. <<>> \in Seq(Message) /\ Len(<<>>) = 0
  OBVIOUS
<1> QED BY <1>1, PlainType, EmptySeq

LEMMA PlainAppend ==
    ASSUME NEW seq \in Seq(Message), NEW m \in Message
    PROVE  Plain(Append(seq, m)) = Append(Plain(seq), One(m))
<1> DEFINE a == Plain(Append(seq, m))
           b == Append(Plain(seq), One(m))
<1>1. /\ Append(seq, m) \in Seq(Message) /\ Len(Append(seq, m)) = Len(seq) + 1
      /\ \A i \in 1..Len(seq) : Append(seq, m)[i] = seq[i]
      /\ Append(seq, m)[Len(seq) + 1] = m
  BY AppendFacts
<1>2. /\ Plain(seq) \in Seq(Message) /\ Len(Plain(seq)) = Len(seq) /\ One(m) \in Message
      /\ \A i \in 1..Len(seq) : Plain(seq)[i] = One(seq[i])
  BY PlainType, OneType
<1>3. /\ b \in Seq(Message) /\ Len(b) = Len(seq) + 1
      /\ \A i \in 1..Len(seq) : b[i] = Plain(seq)[i]
      /\ b[Len(seq) + 1] = One(m)
  BY <1>2, AppendFacts
<1>4. /\ a \in Seq(Message) /\ Len(a) = Len(seq) + 1
      /\ \A i \in 1..Len(seq) + 1 : a[i] = One(Append(seq, m)[i])
  BY <1>1, PlainType
<1>5. Len(seq) \in Nat
  BY LenProperties
<1>6. \A i \in 1..Len(seq) + 1 : a[i] = b[i]
  <2> HIDE DEF a, b
  <2> TAKE i \in 1..Len(seq) + 1
  <2>1. CASE i \in 1..Len(seq)
    BY <2>1, <1>1, <1>2, <1>3, <1>4
  <2>2. CASE i = Len(seq) + 1
    BY <2>2, <1>1, <1>3, <1>4
  <2> QED BY <1>5, <2>1, <2>2
<1> HIDE DEF a, b
<1>7. a = b
  BY <1>3, <1>4, <1>6, SeqEqual
<1> QED BY <1>7 DEF a, b

-----------------------------------------------------------------------------
(* Types.                                                                  *)

\* A new question goes to a session nobody has heard of.
LEMMA LeastOf == ASSUME NEW T \in SUBSET Nat, T # {} PROVE \E x \in T : \A y \in T : x <= y
<1>1. PICK x \in T : \A y \in T : ~(<<y, x>> \in OpToRel(<, Nat))
  BY NatLessThanWellFounded, WFMin
<1>2. \A y \in T : ~(y < x)
  BY <1>1 DEF OpToRel
<1> QED BY <1>2

LEMMA FreshSession ==
    ASSUME PageInv, send.step = "post"
    PROVE  /\ SessionOf \in 1..asks /\ SessionOf \in Sessions /\ asks \in 1..MaxAsks /\ send.ask = asks
           /\ send.session = 0 => threads[SessionOf] = <<>>
           /\ send.session # 0 => SessionOf = send.session
<1>1. asks \in 1..MaxAsks /\ send.ask = asks /\ send.session \in 0..asks /\ Posts = asks - 1
  BY BoundsAssumption DEF PageInv, Types, SendInv, FreshInv, Posts, SendType
<1>2. CASE send.session # 0
  BY <1>1, <1>2, BoundsAssumption DEF SessionOf, Sessions
<1>3. CASE send.session = 0
  <2> DEFINE T == {s \in Sessions : threads[s] = <<>>}
  <2>1. asks \in T
    BY <1>1, BoundsAssumption DEF PageInv, FreshInv, Sessions
  <2>2. T \in SUBSET Nat
    BY DEF Sessions
  <2>3. PICK x \in T : \A y \in T : x <= y
    BY <2>1, <2>2, LeastOf
  <2>4. x \in Sessions /\ threads[x] = <<>> /\ \A r \in Sessions : threads[r] = <<>> => x <= r
    BY <2>3
  <2>5. Fresh \in Sessions /\ threads[Fresh] = <<>> /\ \A r \in Sessions : threads[r] = <<>> => Fresh <= r
    BY <2>4 DEF Fresh
  <2>6. Fresh <= asks
    BY <2>1, <2>5
  <2> QED BY <1>1, <1>3, <2>5, <2>6 DEF SessionOf, Sessions
<1> QED BY <1>2, <1>3

LEMMA InitInv == PageInit => PageInv
<1> SUFFICES ASSUME PageInit PROVE PageInv
  OBVIOUS
<1>1. <<>> \in Seq(Message) /\ <<>> \in Seq(Run) /\ <<>> \in Seq(1..MaxAsks) /\ <<>> \in Seq(LineType)
  BY EmptySeq
<1>2. Types
  <2>1. NoStream \in StreamType
    BY <1>1, BoundsAssumption DEF NoStream, StreamType, Text
  <2>2. NoSend \in SendType /\ NoUpload \in UploadType
    BY BoundsAssumption DEF NoSend, SendType, NoUpload, UploadType, Text
  <2>3. NoLoad \in LoadType
    BY <1>1, BoundsAssumption DEF NoLoad, LoadType
  <2>4. page \in PageType
    BY <1>1, BoundsAssumption DEF PageInit, PageType
  <2>5. runLog \in LogType
    BY <1>1 DEF PageInit, LogType
  <2> QED BY <1>1, <2>1, <2>2, <2>3, <2>4, <2>5, BoundsAssumption DEF PageInit, Types
<1>3. SendInv
  <2>1. send.step = "none" /\ page.sending = FALSE
    BY DEF PageInit, NoSend
  <2> QED BY <2>1 DEF SendInv
<1>4. FreshInv
  <2>1. Posts = 0 /\ page.session = 0 /\ send.session = 0 /\ upload.session = 0
        /\ send.step = "none"
    BY DEF PageInit, Posts, NoSend, NoUpload
  <2>2. \A a \in 1..MaxAsks : streams[a].step = "none" /\ streams[a].lines = <<>>
    BY DEF PageInit, NoStream
  <2>3. \A l \in Slots : loads[l].thread = 0 /\ loads[l].step = "none"
    BY DEF PageInit, NoLoad
  <2>4. \A s \in Sessions : threads[s] = <<>>
    BY DEF PageInit
  <2> QED BY <2>1, <2>2, <2>3, <2>4 DEF FreshInv
<1> QED BY <1>2, <1>3, <1>4 DEF PageInv

LEMMA LoadEdits ==
    ASSUME NEW r \in LoadType
    PROVE  /\ \A t \in 0..MaxAsks : [r EXCEPT !.step = "token", !.thread = t] \in LoadType
           /\ \A seq \in Seq(Message) : [r EXCEPT !.step = "served", !.messages = seq] \in LoadType
           /\ [r EXCEPT !.step = "fetch"] \in LoadType
  BY DEF LoadType

LEMMA LinesEdit ==
    ASSUME NEW st \in StreamType
    PROVE  \A lines \in Seq(LineType) : [st EXCEPT !.lines = lines] \in StreamType
  BY DEF StreamType

LEMMA ReadEdit ==
    ASSUME NEW st \in StreamType
    PROVE  /\ [st EXCEPT !.read = @ + 1] \in StreamType
           /\ \A lines \in Seq(LineType) : [st EXCEPT !.read = @ + 1, !.lines = lines] \in StreamType
<1> DEFINE read == [st EXCEPT !.read = @ + 1]
<1>1. read \in StreamType
  BY DEF StreamType
<1>2. \A lines \in Seq(LineType) : [st EXCEPT !.read = @ + 1, !.lines = lines] = [read EXCEPT !.lines = lines]
  OBVIOUS
<1> HIDE DEF read
<1>3. \A lines \in Seq(LineType) : [read EXCEPT !.lines = lines] \in StreamType
  BY <1>1, LinesEdit
<1> QED BY <1>1, <1>2, <1>3 DEF read

\* The types, action by action.
LEMMA UserTypes ==
    ASSUME PageInv, UserActs
    PROVE  Types'
<1> USE BoundsAssumption DEF PageInv, Types, Text
<1>1. CASE SendMessage
  <2>1. PICK text \in Texts : Starts(text, page.session, page.file)
    BY <1>1 DEF SendMessage
  <2>2. asks' \in 0..MaxAsks /\ asks + 1 \in 1..MaxAsks
    BY <1>1, <2>1 DEF SendMessage, Starts
  <2>3. User(asks + 1) \in Message
    BY DEF User, Message
  <2>4. Append(page.shown, User(asks + 1)) \in Seq(Message)
    BY <2>3, AppendProperties DEF PageType
  <2>5. page' \in PageType
    BY <1>1, <2>4 DEF SendMessage, PageType
  <2>6. send' \in SendType
    BY <2>1, <2>2 DEF Starts, SendType, PageType
  <2>7. streams' \in [1..MaxAsks -> StreamType]
    BY <2>1, <2>2 DEF Starts, StreamType
  <2> QED BY <1>1, <2>2, <2>5, <2>6, <2>7 DEF SendMessage
<1>2. CASE QuickQuestion
  <2>1. User(-1) \in Message /\ Assistant(-1) \in Message
    BY DEF User, Assistant, Message
  <2>2. page.shown \o <<User(-1), Assistant(-1)>> \in Seq(Message)
    BY <2>1, ConcatTwo, AppendProperties DEF PageType
  <2>3. page' \in PageType
    BY <1>2, <2>2 DEF QuickQuestion, PageType
  <2> QED BY <1>2, <2>3 DEF QuickQuestion
<1>3. CASE BeginUpload
  <2>1. page' \in PageType
    BY <1>3 DEF BeginUpload, PageType
  <2>2. PICK text \in Texts : upload' = [step |-> "post", text |-> text, session |-> page.session]
    BY <1>3 DEF BeginUpload
  <2>3. upload' \in UploadType
    BY <2>2 DEF PageType, UploadType
  <2> QED BY <1>3, <2>1, <2>3 DEF BeginUpload
<1>4. CASE RemoveFile
  <2>1. page' \in PageType
    BY <1>4 DEF RemoveFile, PageType
  <2> QED BY <1>4, <2>1 DEF RemoveFile
<1>5. CASE ClearChat
  <2>1. page' = [page EXCEPT !.shown = <<>>, !.session = 0] /\ 0 \in 0..MaxAsks
    BY <1>5 DEF ClearChat
  <2>2. <<>> \in Seq(Message)
    BY EmptySeq
  <2>3. page' \in PageType
    BY <2>1, <2>2 DEF PageType
  <2> QED BY <1>5, <2>3 DEF ClearChat
<1>6. ASSUME NEW l \in Slots, BeginLoad(l) PROVE Types'
  <2>1. PICK t \in Sessions : loads' = [loads EXCEPT ![l] = [NoLoad EXCEPT !.step = "token", !.thread = t]]
    BY <1>6 DEF BeginLoad
  <2>2. NoLoad \in LoadType
    BY EmptySeq DEF NoLoad, LoadType
  <2>4. [NoLoad EXCEPT !.step = "token", !.thread = t] \in LoadType
    <3>1. t \in 0..MaxAsks
      BY DEF Sessions
    <3>2. \A x \in 0..MaxAsks : [NoLoad EXCEPT !.step = "token", !.thread = x] \in LoadType
      BY <2>2, LoadEdits, Zenon
    <3> QED BY <3>1, <3>2, Zenon
  <2>3. loads' \in [Slots -> LoadType]
    BY <2>1, <2>4
  <2> QED BY <1>6, <2>3 DEF BeginLoad
<1>7. CASE SignOut
  <2>1. page' = [page EXCEPT !.shown = <<>>] /\ <<>> \in Seq(Message)
    BY <1>7, EmptySeq DEF SignOut
  <2>2. page' \in PageType
    BY <2>1 DEF PageType
  <2> QED BY <1>7, <2>2 DEF SignOut
<1>8. CASE ClearLog
  <2>1. <<>> \in Seq(Run) /\ {a \in 1..MaxAsks : streams[a].read > 0} \in SUBSET (1..MaxAsks)
    BY EmptySeq
  <2>2. runLog' \in LogType
    BY <1>8, <2>1 DEF ClearLog, LogType
  <2> QED BY <1>8, <2>2 DEF ClearLog
<1> QED BY <1>1, <1>2, <1>3, <1>4, <1>5, <1>6, <1>7, <1>8 DEF UserActs

LEMMA StreamEdit ==
    ASSUME Types, NEW a \in 1..MaxAsks, NEW s \in StreamType, Streams(a, s)
    PROVE  streams' \in [1..MaxAsks -> StreamType]
  BY DEF Types, Streams

LEMMA TakenType ==
    ASSUME PageInv, Reading
    PROVE  /\ send.ask \in 1..MaxAsks /\ send.ask = asks
           /\ streams[send.ask] \in StreamType /\ Taken \in StreamType
           /\ NextLine \in LineType
           /\ Taken = [streams[send.ask] EXCEPT !.lines = Tail(@)]
           /\ [Taken EXCEPT !.read = @ + 1] \in StreamType
           /\ [Taken EXCEPT !.read = @ + 1, !.lines = <<>>] \in StreamType
<1>1. send.ask \in 1..MaxAsks /\ send.ask = asks
  BY BoundsAssumption DEF PageInv, Types, SendInv, SendType, Reading
<1>2. streams[send.ask] \in StreamType
  BY <1>1 DEF PageInv, Types
<1>3. Tail(streams[send.ask].lines) \in Seq(LineType) /\ NextLine \in LineType
  BY <1>2, TailFacts DEF Reading, NextLine, StreamType
<1>4. Taken \in StreamType
  BY <1>2, <1>3, LinesEdit DEF Taken
<1>5. [Taken EXCEPT !.read = @ + 1] \in StreamType
  BY <1>4, ReadEdit
<1>6. \A lines \in Seq(LineType) : [Taken EXCEPT !.read = @ + 1, !.lines = lines] \in StreamType
  BY <1>4, ReadEdit
<1>7. [Taken EXCEPT !.read = @ + 1, !.lines = <<>>] \in StreamType
  BY <1>6, EmptySeq
<1> QED BY <1>1, <1>2, <1>3, <1>4, <1>5, <1>7 DEF Taken

LEMMA RestedType ==
    ASSUME page \in PageType
    PROVE  /\ Rested(page) \in PageType /\ Rested(page).shown = page.shown
           /\ Rested(page).session = page.session /\ Rested(page).sending = FALSE
  BY DEF Rested, PageType

LEMMA PushedType ==
    ASSUME Types, NEW a \in 1..MaxAsks
    PROVE  Pushed(a) \in LogType
<1> DEFINE entries == Append(runLog.current, a)
           run == [text |-> send.text, entries |-> entries]
           before == IF AskedAgain THEN Front(runLog.runs) ELSE runLog.runs
<1>1. /\ runLog.runs \in Seq(Run) /\ runLog.current \in Seq(1..MaxAsks) /\ send.text \in Text
      /\ runLog.cleared \ {send.ask} \in SUBSET (1..MaxAsks)
  BY DEF Types, SendType, LogType
<1>2. entries \in Seq(1..MaxAsks)
  BY <1>1, AppendProperties
<1>3. run \in Run
  BY <1>1, <1>2 DEF Run
<1>4. before \in Seq(Run)
  BY <1>1, LastAndFront DEF AskedAgain
<1> HIDE DEF entries, run, before
<1>5. Append(before, run) \in Seq(Run)
  BY <1>3, <1>4, AppendProperties
<1>6. Pushed(a) = [runs |-> Append(before, run), current |-> entries, cleared |-> runLog.cleared \ {send.ask}]
  BY DEF Pushed, entries, run, before
<1> QED BY <1>1, <1>2, <1>5, <1>6 DEF LogType

LEMMA AskingTypes ==
    ASSUME PageInv, Asking
    PROVE  Types'
<1> USE BoundsAssumption
<1>0. /\ Types /\ page \in PageType /\ send \in SendType /\ loads \in [Slots -> LoadType]
      /\ upload \in UploadType /\ asks \in 0..MaxAsks
      /\ runLog \in LogType
      /\ threads \in [Sessions -> Seq(Message)] /\ streams \in [1..MaxAsks -> StreamType]
  BY DEF PageInv, Types
<1>1. NoSend \in SendType
  BY DEF NoSend, SendType, Text
<1>2. EndSend => page' \in PageType /\ send' \in SendType
  BY <1>0, <1>1, RestedType DEF EndSend
<1>3. CASE NotSent
  BY <1>0, <1>2, <1>3 DEF NotSent, Types
<1>4. CASE Post \/ PostStatic
  <2>1. /\ SessionOf \in Sessions /\ send.ask \in 1..MaxAsks /\ send.ask \in Int
        /\ SessionOf \in 0..MaxAsks
    BY <1>4, FreshSession DEF Post, PostStatic, Sessions
  <2>2. Stored \in Message /\ Assistant(send.ask) \in Message
    BY <2>1 DEF Stored, User, Assistant, Message
  <2>3. Line("output", send.ask) \in LineType /\ Line("done", send.ask) \in LineType
    BY <2>1 DEF Line, LineType
  <2>4. streams[send.ask] \in StreamType
    BY <1>0, <2>1
  <2>5. send' = [send EXCEPT !.step = "stream"] /\ send' \in SendType
    BY <1>0, <1>4 DEF Post, PostStatic, SendType
  <2>6. <<>> \in Seq(1..MaxAsks)
    BY EmptySeq
  <2>7. runLog' \in LogType
    BY <1>0, <1>4, <2>6 DEF Post, PostStatic, NewRun, LogType
  <2>8. CASE Post
    <3>1. Append(threads[SessionOf], Stored) \in Seq(Message)
      BY <1>0, <2>1, <2>2, AppendProperties
    <3>2. threads' \in [Sessions -> Seq(Message)]
      BY <1>0, <2>1, <2>8, <3>1 DEF Post
    <3>3. [streams[send.ask] EXCEPT !.step = "agent", !.session = SessionOf] \in StreamType
      BY <2>1, <2>4 DEF StreamType
    <3>4. streams' \in [1..MaxAsks -> StreamType]
      BY <1>0, <2>1, <2>8, <3>3, StreamEdit DEF Post
    <3> QED BY <1>0, <2>5, <2>7, <2>8, <3>2, <3>4 DEF Post, Types
  <2>9. CASE PostStatic
    <3>1. threads[SessionOf] \o <<Stored, Assistant(send.ask)>> \in Seq(Message)
      BY <1>0, <2>1, <2>2, ConcatTwo, AppendProperties
    <3>2. threads' \in [Sessions -> Seq(Message)]
      BY <1>0, <2>1, <2>9, <3>1 DEF PostStatic
    <3> DEFINE lines == <<Line("output", send.ask), Line("done", send.ask)>>
               opened == [streams[send.ask] EXCEPT !.step = "ended", !.session = SessionOf]
    <3>3. lines \in Seq(LineType)
      BY <2>3
    <3>4. opened \in StreamType
      BY <2>1, <2>4 DEF StreamType
    <3>5. [streams[send.ask] EXCEPT !.step = "ended", !.session = SessionOf, !.lines = lines]
              = [opened EXCEPT !.lines = lines]
      OBVIOUS
    <3>6. Streams(send.ask, [opened EXCEPT !.lines = lines])
      BY <2>9, <3>5 DEF PostStatic
    <3> HIDE DEF lines, opened
    <3>7. streams' \in [1..MaxAsks -> StreamType]
      BY <1>0, <2>1, <3>3, <3>4, <3>6, LinesEdit, StreamEdit
    <3> QED BY <1>0, <2>5, <2>7, <2>9, <3>2, <3>7 DEF PostStatic, Types
  <2> QED BY <1>4, <2>8, <2>9
<1>5. CASE ReadLog \/ ReadError
  <2>1. Reading
    BY <1>5 DEF ReadLog, ReadError
  <2>2. runLog' = Pushed(send.ask) /\ send.ask \in 1..MaxAsks
    BY <1>5, <2>1, TakenType DEF ReadLog, ReadError
  <2>3. runLog' \in LogType
    BY <1>0, <2>2, PushedType
  <2>4. streams' \in [1..MaxAsks -> StreamType]
    BY <1>0, <1>5, <2>1, TakenType, StreamEdit DEF ReadLog, ReadError
  <2>5. page' \in PageType /\ send' \in SendType
    BY <1>0, <1>2, <1>5 DEF ReadLog, ReadError
  <2> QED BY <1>0, <1>5, <2>3, <2>4, <2>5 DEF ReadLog, ReadError, Types
<1>6. CASE ReadOutput
  <2>1. Reading
    BY <1>6 DEF ReadOutput
  <2>2. send.ask \in 1..MaxAsks /\ Taken \in StreamType
    BY <2>1, TakenType
  <2>3. [Assistant(send.ask) EXCEPT !.role = "graph"] \in Message
    BY <2>2 DEF Assistant, Message
  <2>4. Answered(page.shown, send.ask) \in Seq(Message)
    BY <1>0, <2>3, AppendProperties, LastAndFront DEF Answered, PageType
  <2>5. page' \in PageType
    BY <1>0, <1>6, <2>4 DEF ReadOutput, PageType
  <2>6. streams' \in [1..MaxAsks -> StreamType]
    BY <1>0, <1>6, <2>2, StreamEdit DEF ReadOutput
  <2> QED BY <1>0, <1>6, <2>5, <2>6 DEF ReadOutput, Types
<1>7. CASE ReadDone
  <2>1. Reading
    BY <1>7 DEF ReadDone
  <2>2. send.ask \in 1..MaxAsks /\ Taken \in StreamType /\ streams[send.ask] \in StreamType
    BY <2>1, TakenType
  <2>3. page' \in PageType
    BY <1>0, <1>7, <2>2 DEF ReadDone, PageType, StreamType
  <2>4. streams' \in [1..MaxAsks -> StreamType]
    BY <1>0, <1>7, <2>2, StreamEdit DEF ReadDone
  <2> QED BY <1>0, <1>7, <2>3, <2>4 DEF ReadDone, Types
<1>8. CASE StreamEnds
  BY <1>0, <1>2, <1>8 DEF StreamEnds, Types
<1>9. CASE ConnectionBreaks
  <2>1. send.ask \in 1..MaxAsks
    BY <1>9 DEF ConnectionBreaks, PageInv, Types, SendInv, SendType
  <2>3. \A none \in Seq(LineType) :
            [streams[send.ask] EXCEPT !.lines = none, !.logs = 0] \in StreamType
    BY <1>0, <2>1 DEF StreamType
  <2>4. streams' \in [1..MaxAsks -> StreamType]
    BY <1>0, <1>9, <2>1, <2>3, EmptySeq, StreamEdit DEF ConnectionBreaks
  <2> QED BY <1>0, <1>2, <1>9, <2>4 DEF ConnectionBreaks, Types
<1> QED BY <1>3, <1>4, <1>5, <1>6, <1>7, <1>8, <1>9 DEF Asking

LEMMA BoundOfPair ==
    ASSUME NEW x \in Int, NEW y \in Int
    PROVE  /\ Max({x, y}) \in {x, y} /\ Max({x, y}) >= x
           /\ Min({x, y}) \in {x, y} /\ Min({x, y}) <= x
<1>1. \E m \in {x, y} : \A z \in {x, y} : m >= z
  OBVIOUS
<1>2. \E m \in {x, y} : \A z \in {x, y} : m <= z
  OBVIOUS
<1> QED BY <1>1, <1>2 DEF Max, Min

LEMMA ServedType ==
    ASSUME NEW t, threads[t] \in Seq(Message)
    PROVE  Oldest(t) \in Seq(Message) /\ Newest(t) \in Seq(Message)
<1> DEFINE n == Len(threads[t])
           first == Max({1, n - ThreadLimit + 1})
           last == Min({n, ThreadLimit})
<1>1. n \in Nat /\ ThreadLimit \in Nat
  BY LenProperties, BoundsAssumption
<1> HIDE DEF n
<1>2. first \in {1, n - ThreadLimit + 1} /\ first >= 1
  BY <1>1, BoundOfPair
<1>3. last \in {n, ThreadLimit} /\ last <= n
  <2>1. n \in Int /\ ThreadLimit \in Int
    BY <1>1
  <2>2. Min({n, ThreadLimit}) \in {n, ThreadLimit} /\ Min({n, ThreadLimit}) <= n
    BY <2>1, BoundOfPair
  <2> QED BY <2>2
<1> HIDE DEF first, last
<1>4. SubSeq(threads[t], 1, last) \in Seq(Message)
  BY <1>1, <1>3, SubSeqProperties DEF n
<1>5. SubSeq(threads[t], first, n) \in Seq(Message)
  BY <1>1, <1>2, SubSeqProperties DEF n
<1> QED BY <1>4, <1>5 DEF Oldest, Newest, first, last, n

LEMMA LoadingTypes ==
    ASSUME PageInv, NEW l \in Slots, Loading(l)
    PROVE  Types'
<1>0. /\ Types /\ page \in PageType /\ loads \in [Slots -> LoadType]
      /\ threads \in [Sessions -> Seq(Message)] /\ loads[l] \in LoadType
      /\ loads[l].step # "none" => loads[l].thread \in Sessions
  BY BoundsAssumption DEF PageInv, Types, FreshInv, LoadType, Sessions
<1>1. NoLoad \in LoadType
  BY EmptySeq, BoundsAssumption DEF NoLoad, LoadType
<1>2. [page EXCEPT !.loading = TRUE] \in PageType /\ [page EXCEPT !.loading = FALSE] \in PageType
  BY <1>0 DEF PageType
<1>3. CASE LoadToken(l)
  <2>1. loads' = [loads EXCEPT ![l] = [loads[l] EXCEPT !.step = "fetch"]]
    BY <1>0, <1>3 DEF LoadToken
  <2> QED BY <1>0, <1>2, <1>3, <2>1, LoadEdits DEF LoadToken, Types
<1>4. CASE NoTokenToLoad(l) \/ LoadFails(l)
  BY <1>0, <1>1, <1>2, <1>4 DEF NoTokenToLoad, LoadFails, Types
<1>5. CASE ServeThread(l)
  <2>0. PICK messages \in {Oldest(loads[l].thread), Newest(loads[l].thread)} :
            loads' = [loads EXCEPT ![l].step = "served", ![l].messages = messages]
    BY <1>5 DEF ServeThread
  <2>1. messages \in Seq(Message)
    <3>1. threads[loads[l].thread] \in Seq(Message)
      BY <1>0, <1>5 DEF ServeThread
    <3> QED BY <3>1, ServedType
  <2>2. loads' = [loads EXCEPT ![l] = [loads[l] EXCEPT !.step = "served", !.messages = messages]]
    BY <1>0, <2>0
  <2>3. [loads[l] EXCEPT !.step = "served", !.messages = messages] \in LoadType
    BY <1>0, <2>1, LoadEdits
  <2>4. loads' \in [Slots -> LoadType]
    BY <1>0, <2>2, <2>3
  <2> QED BY <1>0, <1>5, <2>4 DEF ServeThread, Types
<1>6. CASE ShowThread(l)
  <2>1. loads[l].messages \in Seq(Message) /\ loads[l].thread \in 0..MaxAsks
    BY <1>0 DEF LoadType
  <2>2. page' = [page EXCEPT !.shown = loads[l].messages, !.session = loads[l].thread, !.loading = FALSE]
    BY <1>6 DEF ShowThread
  <2>3. page' \in PageType
    BY <1>0, <2>1, <2>2 DEF PageType
  <2> QED BY <1>0, <1>1, <1>6, <2>3 DEF ShowThread, Types
<1> QED BY <1>3, <1>4, <1>5, <1>6 DEF Loading

LEMMA UploadingTypes ==
    ASSUME PageInv, Uploading
    PROVE  Types'
<1> USE BoundsAssumption
<1>0. /\ Types /\ page \in PageType /\ upload \in UploadType /\ asks \in 0..MaxAsks
      /\ streams \in [1..MaxAsks -> StreamType]
  BY DEF PageInv, Types
<1>1. NoUpload \in UploadType
  BY DEF NoUpload, UploadType, Text
<1>2. CASE UploadFails
  <2>1. page' \in PageType
    BY <1>0, <1>2 DEF UploadFails, PageType
  <2> QED BY <1>0, <1>1, <1>2, <2>1 DEF UploadFails, Types
<1>3. CASE UploadEnds /\ page.sending
  <2>1. page' \in PageType
    BY <1>0, <1>3 DEF UploadEnds, PageType
  <2> QED BY <1>0, <1>1, <1>3, <2>1 DEF UploadEnds, Types
<1>4. CASE UploadEnds /\ ~page.sending
  <2>1. asks' = asks + 1 /\ asks + 1 \in 1..MaxAsks /\ Starts(upload.text, upload.session, TRUE)
    BY <1>0, <1>4 DEF UploadEnds, Starts
  <2>2. Append(page.shown, User(asks + 1)) \in Seq(Message)
    BY <1>0, AppendProperties DEF PageType, User, Message
  <2>3. page' = [page EXCEPT !.uploading = FALSE, !.file = TRUE, !.shown = Append(@, User(asks + 1)),
                             !.loading = TRUE, !.sending = TRUE]
    BY <1>4 DEF UploadEnds
  <2>4. page' \in PageType
    BY <1>0, <2>2, <2>3 DEF PageType
  <2>5. send' \in SendType
    BY <1>0, <2>1 DEF Starts, SendType, UploadType
  <2>6. streams' \in [1..MaxAsks -> StreamType]
    BY <1>0, <2>1 DEF Starts, StreamType, UploadType
  <2> QED BY <1>0, <1>1, <1>4, <2>1, <2>4, <2>5, <2>6 DEF UploadEnds, Types
<1> QED BY <1>2, <1>3, <1>4 DEF Uploading

LEMMA LastLinesType ==
    ASSUME NEW a \in 1..MaxAsks, NEW full \in BOOLEAN, NEW error \in {"none", "error", "bare_error"}
    PROVE  LastLines(a, full, error) \in Seq(LineType)
<1> DEFINE says == IF error = "none" THEN <<>> ELSE <<Line(error, a)>>
           ends == IF full THEN <<Line("output", a), Line("done", a)>> ELSE <<Line("done", a)>>
<1>1. says \in Seq(LineType)
  <2>1. CASE error = "none"
    BY <2>1, EmptySeq
  <2>2. CASE error # "none"
    <3>1. Line(error, a) \in LineType
      BY <2>2 DEF Line, LineType
    <3> QED BY <2>2, <3>1
  <2> QED BY <2>1, <2>2
<1>2. ends \in Seq(LineType)
  <2>1. Line("output", a) \in LineType /\ Line("done", a) \in LineType
    BY DEF Line, LineType
  <2>2. <<Line("output", a), Line("done", a)>> \in Seq(LineType) /\ <<Line("done", a)>> \in Seq(LineType)
    BY <2>1
  <2> QED BY <2>2
<1> HIDE DEF says, ends
<1>3. LastLines(a, full, error) = says \o ends
  BY DEF LastLines, says, ends
<1> QED BY <1>1, <1>2, <1>3, ConcatProperties

LEMMA RecordedType ==
    ASSUME NEW a \in 1..MaxAsks, NEW full \in BOOLEAN, NEW error
    PROVE  Recorded(a, full, error) \in Seq(Message)
<1>1. Assistant(a) \in Message
  BY DEF Assistant, Message
<1>2. <<Assistant(a)>> \in Seq(Message) /\ <<>> \in Seq(Message)
  BY <1>1, EmptySeq
<1> QED BY <1>2 DEF Recorded

LEMMA StepEdit ==
    ASSUME NEW st \in StreamType, NEW n \in Nat
    PROVE  /\ [st EXCEPT !.step = "ended"] \in StreamType
           /\ [st EXCEPT !.step = "ended", !.logs = n] \in StreamType
           /\ [st EXCEPT !.logs = @ + 1] \in StreamType
<1>1. [st EXCEPT !.step = "ended"] \in StreamType /\ [st EXCEPT !.logs = @ + 1] \in StreamType
  BY DEF StreamType
<1>2. [st EXCEPT !.step = "ended", !.logs = n] \in StreamType
  BY DEF StreamType
<1> QED BY <1>1, <1>2

LEMMA ServerTypes ==
    ASSUME PageInv, NEW a \in 1..MaxAsks, Server(a)
    PROVE  Types'
<1> USE BoundsAssumption
<1>0. /\ Types /\ threads \in [Sessions -> Seq(Message)] /\ streams[a] \in StreamType
      /\ streams \in [1..MaxAsks -> StreamType]
  BY DEF PageInv, Types
<1>a. streams[a].lines \in Seq(LineType) /\ streams[a].logs \in Nat
  BY <1>0 DEF StreamType
<1>b. streams[a].step # "none" => streams[a].session \in Sessions
  BY DEF PageInv, Types, FreshInv, Posts, Sessions
<1>1. CASE AgentLogs(a)
  <2> DEFINE lines == Append(streams[a].lines, Line("log", a))
             logged == [streams[a] EXCEPT !.logs = @ + 1]
  <2>1. lines \in Seq(LineType)
    BY <1>a, AppendProperties DEF Line, LineType
  <2>2. logged \in StreamType
    <3>1. \A n \in Nat : [streams[a] EXCEPT !.logs = @ + 1] \in StreamType
      BY <1>0, StepEdit, Zenon
    <3> QED BY <3>1
  <2>3. Streams(a, [logged EXCEPT !.lines = lines])
    BY <1>0, <1>1 DEF AgentLogs, StreamType
  <2> HIDE DEF lines, logged
  <2>4. streams' \in [1..MaxAsks -> StreamType]
    BY <1>0, <2>1, <2>2, <2>3, LinesEdit, StreamEdit
  <2> QED BY <1>0, <1>1, <2>4 DEF AgentLogs, ServerOnly, Types
<1>2. CASE AgentEnds(a)
  <2>1. PICK full \in BOOLEAN, error \in {"none", "error", "bare_error"} : Ends(a, full, error)
    BY <1>2 DEF AgentEnds
  <2>2. threads[streams[a].session] \o Recorded(a, full, error) \in Seq(Message)
    BY <1>0, <1>b, <1>2, RecordedType, ConcatProperties DEF AgentEnds
  <2>3. threads' \in [Sessions -> Seq(Message)]
    BY <1>0, <2>1, <2>2 DEF Ends
  <2> DEFINE lines == IF NotRead(a) THEN <<>> ELSE streams[a].lines \o LastLines(a, full, error)
             over == [streams[a] EXCEPT !.step = "ended", !.logs = 0]
  <2>4. lines \in Seq(LineType)
    BY <1>a, LastLinesType, ConcatProperties, EmptySeq
  <2>5. over \in StreamType
    BY <1>0, StepEdit
  <2>6. Streams(a, [over EXCEPT !.lines = lines])
    BY <1>0, <2>1 DEF Ends, StreamType
  <2> HIDE DEF over, lines
  <2>7. streams' \in [1..MaxAsks -> StreamType]
    BY <1>0, <2>4, <2>5, <2>6, LinesEdit, StreamEdit
  <2> QED BY <1>0, <1>2, <2>3, <2>7 DEF AgentEnds, ServerOnly, Types
<1>3. CASE StopStream(a)
  <2>1. [streams[a] EXCEPT !.step = "ended"] \in StreamType
    BY <1>0, StepEdit
  <2>2. streams' \in [1..MaxAsks -> StreamType]
    BY <1>0, <1>3, <2>1, StreamEdit DEF StopStream
  <2> QED BY <1>0, <1>3, <2>2 DEF StopStream, ServerOnly, Types
<1> QED BY <1>1, <1>2, <1>3 DEF Server

LEMMA TypesStep == ASSUME PageInv, [PageNext]_vars PROVE Types'
<1>1. CASE UNCHANGED vars
  BY <1>1 DEF vars, PageInv, Types
<1> QED BY <1>1, UserTypes, AskingTypes, LoadingTypes, UploadingTypes, ServerTypes DEF PageNext

-----------------------------------------------------------------------------
(* What a step does to the question under way and to the reports read.     *)

Asked ==
    /\ send.step = "none" /\ asks < MaxAsks
    /\ \E text \in Text, session \in {page.session, upload.session}, file \in BOOLEAN :
           Starts(text, session, file)
    /\ page'.sending = TRUE /\ UNCHANGED runLog
Keeps ==
    /\ UNCHANGED asks /\ (runLog' = runLog \/ ClearLog)
    /\ \A a \in 1..MaxAsks : streams'[a].read = streams[a].read /\ streams'[a].text = streams[a].text
    /\ \/ send' = send /\ page'.sending = page.sending
       \/ send' = NoSend /\ page'.sending = FALSE

LEMMA UserKinds ==
    ASSUME PageInv, UserActs
    PROVE  Asked \/ Keeps
<1>0. page \in PageType /\ page.sending = (send.step # "none")
  BY DEF PageInv, Types, SendInv
<1>1. CASE SendMessage
  <2>1. PICK text \in Texts : Starts(text, page.session, page.file)
    BY <1>1 DEF SendMessage
  <2>2. text \in Text /\ page.file \in BOOLEAN
    BY <1>0 DEF Text, PageType
  <2>3. page'.sending = TRUE
    BY <1>0, <1>1 DEF SendMessage, PageType
  <2>4. send.step = "none" /\ asks < MaxAsks /\ runLog' = runLog
    BY <1>0, <1>1 DEF SendMessage
  <2> QED BY <2>1, <2>2, <2>3, <2>4 DEF Asked
<1>2. CASE QuickQuestion \/ BeginUpload \/ RemoveFile \/ ClearChat \/ SignOut
  <2>1. page'.sending = page.sending /\ UNCHANGED <<send, asks, runLog, streams>>
    BY <1>0, <1>2 DEF QuickQuestion, BeginUpload, RemoveFile, ClearChat, SignOut, PageType
  <2> QED BY <2>1 DEF Keeps
<1>3. CASE (\E l \in Slots : BeginLoad(l)) \/ ClearLog
  <2>1. page'.sending = page.sending /\ UNCHANGED <<send, asks, streams>> /\ (runLog' = runLog \/ ClearLog)
    BY <1>3 DEF BeginLoad, ClearLog
  <2> QED BY <2>1 DEF Keeps
<1> QED BY <1>1, <1>2, <1>3 DEF UserActs

LEMMA StreamKeeps ==
    ASSUME Types, NEW a \in 1..MaxAsks, NEW st, Streams(a, st),
           st.read = streams[a].read, st.text = streams[a].text
    PROVE  \A b \in 1..MaxAsks : streams'[b].read = streams[b].read /\ streams'[b].text = streams[b].text
  BY DEF Types, Streams

LEMMA AskingKinds ==
    ASSUME PageInv, Asking
    PROVE  Post \/ PostStatic \/ ReadLog \/ ReadError \/ Keeps
<1>0. Types /\ page \in PageType
  BY DEF PageInv, Types
<1>1. EndSend => send' = NoSend /\ page'.sending = FALSE
  BY <1>0, RestedType DEF EndSend
<1>2. CASE NotSent \/ StreamEnds
  BY <1>1, <1>2 DEF NotSent, StreamEnds, Keeps
<1>3. CASE ReadOutput \/ ReadDone
  <2>1. Reading /\ Streams(send.ask, Taken) /\ UNCHANGED <<send, asks, runLog>>
    BY <1>3 DEF ReadOutput, ReadDone
  <2>2. send.ask \in 1..MaxAsks /\ streams[send.ask] \in StreamType
        /\ Taken = [streams[send.ask] EXCEPT !.lines = Tail(@)]
    BY <2>1, TakenType
  <2>3. Taken.read = streams[send.ask].read /\ Taken.text = streams[send.ask].text
    BY <2>2 DEF StreamType
  <2>4. page'.sending = page.sending
    BY <1>0, <1>3 DEF ReadOutput, ReadDone, PageType
  <2>5. \A b \in 1..MaxAsks : streams'[b].read = streams[b].read /\ streams'[b].text = streams[b].text
    BY <1>0, <2>1, <2>2, <2>3, StreamKeeps
  <2> QED BY <2>1, <2>4, <2>5 DEF Keeps
<1>4. CASE ConnectionBreaks
  <2>1. send.ask \in 1..MaxAsks /\ streams[send.ask] \in StreamType
    BY <1>4, BoundsAssumption DEF ConnectionBreaks, PageInv, Types, SendInv, SendType
  <2> DEFINE st == [streams[send.ask] EXCEPT !.lines = <<>>, !.logs = 0]
  <2>2. st.read = streams[send.ask].read /\ st.text = streams[send.ask].text
    BY <2>1 DEF StreamType
  <2>3. Streams(send.ask, st)
    BY <1>4 DEF ConnectionBreaks
  <2> HIDE DEF st
  <2>4. \A b \in 1..MaxAsks : streams'[b].read = streams[b].read /\ streams'[b].text = streams[b].text
    BY <1>0, <2>1, <2>2, <2>3, StreamKeeps
  <2> QED BY <1>1, <1>4, <2>4 DEF ConnectionBreaks, Keeps
<1> QED BY <1>2, <1>3, <1>4 DEF Asking

LEMMA ServerKinds ==
    ASSUME PageInv, NEW a \in 1..MaxAsks, Server(a)
    PROVE  Keeps
<1>0. Types /\ streams[a] \in StreamType
  BY DEF PageInv, Types
<1>1. UNCHANGED <<page, send, asks, runLog>>
  BY DEF Server, AgentLogs, AgentEnds, StopStream, ServerOnly
<1>2. PICK st : Streams(a, st) /\ st.read = streams[a].read /\ st.text = streams[a].text
  <2>1. CASE AgentLogs(a)
    <3> DEFINE st == [streams[a] EXCEPT !.logs = @ + 1, !.lines = Append(@, Line("log", a))]
    <3>1. st.read = streams[a].read /\ st.text = streams[a].text
      BY <1>0 DEF StreamType
    <3> QED BY <2>1, <3>1 DEF AgentLogs
  <2>2. CASE AgentEnds(a)
    <3>1. PICK full \in BOOLEAN, error \in {"none", "error", "bare_error"} : Ends(a, full, error)
      BY <2>2 DEF AgentEnds
    <3> DEFINE st == [streams[a] EXCEPT !.step = "ended", !.logs = 0,
                          !.lines = IF NotRead(a) THEN <<>> ELSE @ \o LastLines(a, full, error)]
    <3>2. st.read = streams[a].read /\ st.text = streams[a].text
      BY <1>0 DEF StreamType
    <3> QED BY <3>1, <3>2 DEF Ends
  <2>3. CASE StopStream(a)
    <3>1. [streams[a] EXCEPT !.step = "ended"].read = streams[a].read
          /\ [streams[a] EXCEPT !.step = "ended"].text = streams[a].text
      BY <1>0 DEF StreamType
    <3> QED BY <2>3, <3>1 DEF StopStream
  <2> QED BY <2>1, <2>2, <2>3 DEF Server
<1>3. \A b \in 1..MaxAsks : streams'[b].read = streams[b].read /\ streams'[b].text = streams[b].text
  BY <1>0, <1>2, StreamKeeps
<1> QED BY <1>1, <1>3 DEF Keeps

LEMMA OtherKinds ==
    ASSUME PageInv, Uploading \/ (\E l \in Slots : Loading(l))
    PROVE  Asked \/ Keeps
<1>0. page \in PageType /\ page.sending = (send.step # "none") /\ upload \in UploadType
  BY DEF PageInv, Types, SendInv
<1>1. CASE UploadEnds /\ ~page.sending
  <2>1. Starts(upload.text, upload.session, TRUE) /\ asks < MaxAsks /\ runLog' = runLog /\ send.step = "none"
    BY <1>0, <1>1 DEF UploadEnds
  <2>2. page'.sending = TRUE
    BY <1>0, <1>1 DEF UploadEnds, PageType
  <2>3. upload.text \in Text
    BY <1>0 DEF UploadType
  <2> QED BY <2>1, <2>2, <2>3 DEF Asked
<1>2. CASE UploadFails \/ (UploadEnds /\ page.sending)
  <2>1. page'.sending = page.sending /\ UNCHANGED <<send, asks, runLog, streams>>
    BY <1>0, <1>2 DEF UploadFails, UploadEnds, PageType
  <2> QED BY <2>1 DEF Keeps
<1>3. ASSUME NEW l \in Slots, Loading(l) PROVE Keeps
  <2>1. page'.sending = page.sending /\ UNCHANGED <<send, asks, runLog, streams>>
    BY <1>0, <1>3 DEF Loading, LoadToken, NoTokenToLoad, ServeThread, ShowThread, LoadFails, PageType
  <2> QED BY <2>1 DEF Keeps
<1> QED BY <1>1, <1>2, <1>3 DEF Uploading

LEMMA Kinds ==
    ASSUME PageInv, [PageNext]_vars
    PROVE  Asked \/ Post \/ PostStatic \/ ReadLog \/ ReadError \/ Keeps
<1>1. CASE UNCHANGED vars
  BY <1>1 DEF vars, Keeps
<1> QED BY <1>1, UserKinds, AskingKinds, ServerKinds, OtherKinds DEF PageNext

\* Only a posted question gives a stream its session and its first line; only an agent ends.
LEMMA StreamFrame ==
    ASSUME PageInv, [PageNext]_vars, ~(Post \/ PostStatic), NEW b \in 1..MaxAsks
    PROVE  /\ streams'[b].session = streams[b].session
           /\ streams'[b].step = streams[b].step \/ (streams[b].step = "agent" /\ streams'[b].step = "ended")
           /\ streams[b].step = "none" => streams'[b].lines = streams[b].lines
<1>0. Types /\ streams \in [1..MaxAsks -> StreamType] /\ streams[b] \in StreamType
  BY DEF PageInv, Types
<1> DEFINE Goal == /\ streams'[b].session = streams[b].session
                   /\ streams'[b].step = streams[b].step \/ (streams[b].step = "agent" /\ streams'[b].step = "ended")
                   /\ streams[b].step = "none" => streams'[b].lines = streams[b].lines
<1> SUFFICES Goal
  OBVIOUS
<1>1. ASSUME NEW a \in 1..MaxAsks, NEW st, Streams(a, st), st.session = streams[a].session, streams[a].step # "none",
             st.step = streams[a].step \/ (streams[a].step = "agent" /\ st.step = "ended")
      PROVE  Goal
  BY <1>0, <1>1 DEF Streams
<1>2. CASE streams' = streams
  BY <1>2
<1>3. ASSUME NEW text, NEW session, NEW file, Starts(text, session, file)
      PROVE  Goal
  BY <1>0, <1>3 DEF Starts, StreamType
<1>4. CASE ReadLog \/ ReadError \/ ReadOutput \/ ReadDone
  <2>1. Reading
    BY <1>4 DEF ReadLog, ReadError, ReadOutput, ReadDone
  <2>2. send.ask \in 1..MaxAsks /\ streams[send.ask] \in StreamType
        /\ Taken = [streams[send.ask] EXCEPT !.lines = Tail(@)]
        /\ streams[send.ask].step # "none"
    BY <2>1, TakenType DEF Reading, PageInv, FreshInv
  <2>3. Taken.session = streams[send.ask].session /\ Taken.step = streams[send.ask].step
    BY <2>2 DEF StreamType
  <2>4. Taken \in StreamType
    BY <2>1, TakenType
  <2>5. PICK st : Streams(send.ask, st) /\ st.session = Taken.session /\ st.step = Taken.step
    <3>1. CASE ReadLog
      <4>1. [Taken EXCEPT !.read = @ + 1].session = Taken.session /\ [Taken EXCEPT !.read = @ + 1].step = Taken.step
        BY <2>4 DEF StreamType
      <4> QED BY <3>1, <4>1 DEF ReadLog
    <3>2. CASE ReadError
      <4> DEFINE st == [Taken EXCEPT !.read = @ + 1, !.lines = <<>>]
      <4>1. st.session = Taken.session /\ st.step = Taken.step
        BY <2>4 DEF StreamType
      <4> QED BY <3>2, <4>1 DEF ReadError
    <3>3. CASE ReadOutput \/ ReadDone
      BY <3>3 DEF ReadOutput, ReadDone
    <3> QED BY <1>4, <3>1, <3>2, <3>3
  <2> HIDE DEF Goal
  <2> QED BY <1>1, <2>2, <2>3, <2>5
<1>5. CASE ConnectionBreaks
  <2>1. send.ask \in 1..MaxAsks /\ streams[send.ask] \in StreamType /\ streams[send.ask].step # "none"
    BY <1>5, BoundsAssumption DEF ConnectionBreaks, PageInv, Types, SendInv, SendType, FreshInv
  <2> DEFINE st == [streams[send.ask] EXCEPT !.lines = <<>>, !.logs = 0]
  <2>2. st.session = streams[send.ask].session /\ st.step = streams[send.ask].step
    BY <2>1 DEF StreamType
  <2>3. Streams(send.ask, st)
    BY <1>5 DEF ConnectionBreaks
  <2> HIDE DEF st, Goal
  <2> QED BY <1>1, <2>1, <2>2, <2>3
<1>6. ASSUME NEW a \in 1..MaxAsks, Server(a) PROVE Goal
  <2>0. streams[a] \in StreamType /\ streams[a].step # "none"
    BY <1>0, <1>6 DEF Server, AgentLogs, AgentEnds, StopStream
  <2>1. PICK st : Streams(a, st) /\ st.session = streams[a].session
                  /\ (st.step = streams[a].step \/ (streams[a].step = "agent" /\ st.step = "ended"))
    <3>1. CASE AgentLogs(a)
      <4> DEFINE st == [streams[a] EXCEPT !.logs = @ + 1, !.lines = Append(@, Line("log", a))]
      <4>1. st.session = streams[a].session /\ st.step = streams[a].step
        BY <2>0 DEF StreamType
      <4> QED BY <3>1, <4>1 DEF AgentLogs
    <3>2. CASE AgentEnds(a)
      <4>1. PICK full \in BOOLEAN, error \in {"none", "error", "bare_error"} : Ends(a, full, error)
        BY <3>2 DEF AgentEnds
      <4> DEFINE st == [streams[a] EXCEPT !.step = "ended", !.logs = 0,
                            !.lines = IF NotRead(a) THEN <<>> ELSE @ \o LastLines(a, full, error)]
      <4>2. st.session = streams[a].session /\ st.step = "ended"
        BY <2>0 DEF StreamType
      <4> QED BY <3>2, <4>1, <4>2 DEF Ends, AgentEnds
    <3>3. CASE StopStream(a)
      <4>1. [streams[a] EXCEPT !.step = "ended"].session = streams[a].session
            /\ [streams[a] EXCEPT !.step = "ended"].step = "ended"
        BY <2>0 DEF StreamType
      <4> QED BY <3>3, <4>1 DEF StopStream
    <3> QED BY <1>6, <3>1, <3>2, <3>3 DEF Server
  <2> HIDE DEF Goal
  <2> QED BY <1>1, <2>0, <2>1
<1> HIDE DEF Goal
<1>7. UserActs \/ Uploading => Goal
  BY <1>2, <1>3 DEF UserActs, SendMessage, QuickQuestion, BeginUpload, RemoveFile, ClearChat, SignOut, ClearLog,
         BeginLoad, Uploading, UploadFails, UploadEnds
<1>8. Asking => Goal
  BY <1>2, <1>4, <1>5 DEF Asking, NotSent, StreamEnds
<1>9. \A l \in Slots : Loading(l) => Goal
  BY <1>2 DEF Loading, LoadToken, NoTokenToLoad, ServeThread, ShowThread, LoadFails
<1>10. UNCHANGED vars => Goal
  BY <1>2 DEF vars
<1> QED BY <1>6, <1>7, <1>8, <1>9, <1>10 DEF PageNext

-----------------------------------------------------------------------------
(* The invariant of the page.                                              *)

LEMMA SendStep ==
    ASSUME PageInv, [PageNext]_vars
    PROVE  /\ SendInv'
           /\ Posts \in 0..asks /\ Posts' \in Nat /\ Posts <= Posts'
           /\ Post \/ PostStatic => Posts' = asks
<1>0. /\ page \in PageType /\ asks \in 0..MaxAsks
      /\ page.sending = (send.step # "none")
      /\ send.step # "none" => asks > 0 /\ send.ask = asks
      /\ send \in SendType
  BY DEF PageInv, Types, SendInv
<1>1. Posts \in 0..asks
  BY <1>0, BoundsAssumption DEF Posts
<1>2. CASE Asked
  <2>1. asks' = asks + 1 /\ send'.step = "post" /\ send'.ask = asks + 1 /\ page'.sending = TRUE
    BY <1>2 DEF Asked, Starts
  <2>2. send.step = "none"
    BY <1>2 DEF Asked
  <2>3. Posts' = asks /\ Posts = asks
    BY <1>0, <2>1, <2>2, BoundsAssumption DEF Posts
  <2>4. ~(Post \/ PostStatic)
    BY <2>2 DEF Post, PostStatic
  <2>6. page'.sending = (send'.step # "none")
    BY <2>1
  <2>7. asks' > 0 /\ send'.ask = asks'
    BY <1>0, <2>1, BoundsAssumption
  <2>5. SendInv'
    BY <2>6, <2>7 DEF SendInv
  <2> QED BY <1>0, <1>1, <2>3, <2>4, <2>5, BoundsAssumption
<1>3. CASE Post \/ PostStatic
  <2>1. send.step = "post" /\ send' = [send EXCEPT !.step = "stream"] /\ asks' = asks /\ page' = page
    BY <1>3 DEF Post, PostStatic
  <2>2. send'.step = "stream" /\ send'.ask = send.ask
    BY <1>0, <2>1 DEF SendType
  <2>3. Posts' = asks
    BY <2>1, <2>2 DEF Posts
  <2>4. SendInv'
    BY <1>0, <2>1, <2>2 DEF SendInv
  <2> QED BY <1>0, <1>1, <2>3, <2>4, BoundsAssumption
<1>4. CASE ReadLog \/ ReadError \/ Keeps
  <2>1. asks' = asks
    BY <1>4 DEF ReadLog, ReadError, Keeps
  <2>2. (send' = send /\ page'.sending = page.sending) \/ (send' = NoSend /\ page'.sending = FALSE)
    <3>1. CASE ReadLog
      BY <3>1 DEF ReadLog
    <3>2. CASE ReadError
      BY <1>0, <3>2, RestedType DEF ReadError, EndSend
    <3>3. CASE Keeps
      BY <3>3 DEF Keeps
    <3> QED BY <1>4, <3>1, <3>2, <3>3
  <2>3. NoSend.step = "none"
    BY DEF NoSend
  <2>4. SendInv'
    BY <1>0, <2>1, <2>2, <2>3 DEF SendInv
  <2>5. Posts' = Posts \/ Posts' = asks
    BY <2>1, <2>2, <2>3 DEF Posts
  <2>6. Post \/ PostStatic => Posts' = asks
    BY <1>0, <2>1 DEF Post, PostStatic, Posts, SendType
  <2> QED BY <1>0, <1>1, <2>4, <2>5, <2>6, BoundsAssumption
<1> QED BY <1>2, <1>3, <1>4, Kinds

\* The stored messages and the sessions of the streams change only where a question is
\* posted or its answer recorded.
LEMMA StoreStep ==
    ASSUME PageInv, [PageNext]_vars
    PROVE  /\ \A s \in Sessions : s > Posts' => threads'[s] = <<>>
           /\ \A a \in 1..MaxAsks : streams'[a].step # "none" => streams'[a].session \in 1..Posts'
           /\ send'.step = "stream" => streams'[send'.ask].step # "none"
           /\ \A a \in 1..MaxAsks : a > Posts' => streams'[a].step = "none" /\ streams'[a].lines = <<>>
<1>0. /\ Types /\ send \in SendType /\ streams \in [1..MaxAsks -> StreamType] /\ threads \in [Sessions -> Seq(Message)]
      /\ \A s \in Sessions : s > Posts => threads[s] = <<>>
      /\ \A a \in 1..MaxAsks : streams[a].step # "none" => streams[a].session \in 1..Posts
      /\ \A a \in 1..MaxAsks : a > Posts => streams[a].step = "none" /\ streams[a].lines = <<>>
      /\ asks \in 0..MaxAsks
  BY DEF PageInv, Types, FreshInv
<1>1. Posts \in Nat /\ Posts' \in Nat /\ Posts <= Posts'
  BY <1>0, SendStep
<1>2. CASE Post \/ PostStatic
  <2>1. SessionOf \in 1..asks /\ send.ask \in 1..MaxAsks /\ Posts' = asks
    BY <1>2, FreshSession, SendStep DEF Post, PostStatic
  <2>2. PICK messages : threads' = [threads EXCEPT ![SessionOf] = messages]
    BY <1>2 DEF Post, PostStatic
  <2>3. PICK st : Streams(send.ask, st) /\ st.session = SessionOf /\ st.step # "none"
    <3>1. CASE Post
      <4> DEFINE st == [streams[send.ask] EXCEPT !.step = "agent", !.session = SessionOf]
      <4>1. st.session = SessionOf /\ st.step # "none"
        BY <1>0, <2>1 DEF StreamType
      <4> QED BY <3>1, <4>1 DEF Post
    <3>2. CASE PostStatic
      <4> DEFINE st == [streams[send.ask] EXCEPT !.step = "ended", !.session = SessionOf,
                              !.lines = <<Line("output", send.ask), Line("done", send.ask)>>]
      <4>1. st.session = SessionOf /\ st.step # "none"
        BY <1>0, <2>1 DEF StreamType
      <4> QED BY <3>2, <4>1 DEF PostStatic
    <3> QED BY <1>2, <3>1, <3>2
  <2>4. \A s \in Sessions : s > Posts' => threads'[s] = <<>>
    BY <1>0, <1>1, <2>1, <2>2 DEF Sessions
  <2>5. \A a \in 1..MaxAsks : streams'[a].step # "none" => streams'[a].session \in 1..Posts'
    BY <1>0, <1>1, <2>1, <2>3 DEF Streams
  <2>6. streams'[send.ask].step # "none"
    BY <1>0, <2>1, <2>3 DEF Streams
  <2>7. send'.ask = send.ask
    BY <1>0, <1>2 DEF Post, PostStatic, SendType
  <2>8. \A a \in 1..MaxAsks : a > Posts' => streams'[a].step = "none" /\ streams'[a].lines = <<>>
    <3>1. send.ask = asks
      BY <1>2, FreshSession DEF Post, PostStatic
    <3> QED BY <1>0, <1>1, <2>1, <2>3, <3>1 DEF Streams
  <2> QED BY <2>4, <2>5, <2>6, <2>7, <2>8
<1>3. ASSUME ~(Post \/ PostStatic)
      PROVE  \A s \in Sessions : threads'[s] = threads[s] \/ s <= Posts
  <2>1. CASE \E a \in 1..MaxAsks : AgentEnds(a)
    <3>1. PICK a \in 1..MaxAsks : AgentEnds(a)
      BY <2>1
    <3>2. streams[a].session \in 1..Posts
      BY <1>0, <3>1 DEF AgentEnds
    <3>3. PICK messages : threads' = [threads EXCEPT ![streams[a].session] = messages]
      BY <3>1 DEF AgentEnds, Ends
    <3> QED BY <1>0, <1>1, <3>2, <3>3 DEF Sessions
  <2>2. CASE ~\E a \in 1..MaxAsks : AgentEnds(a)
    <3>1. UserActs \/ Uploading => threads' = threads
      BY DEF UserActs, SendMessage, QuickQuestion, BeginUpload, RemoveFile, ClearChat, SignOut, ClearLog,
             BeginLoad, Uploading, UploadFails, UploadEnds
    <3>2. Asking => threads' = threads
      BY <1>3 DEF Asking, NotSent, ReadLog, ReadError, ReadOutput, ReadDone, StreamEnds, ConnectionBreaks
    <3>3. \A l \in Slots : Loading(l) => threads' = threads
      BY DEF Loading, LoadToken, NoTokenToLoad, ServeThread, ShowThread, LoadFails
    <3>4. \A a \in 1..MaxAsks : Server(a) => threads' = threads
      BY <2>2 DEF Server, AgentLogs, StopStream
    <3>5. UNCHANGED vars => threads' = threads
      BY DEF vars
    <3> QED BY <3>1, <3>2, <3>3, <3>4, <3>5 DEF PageNext
  <2> QED BY <2>1, <2>2
<1>4. ASSUME ~(Post \/ PostStatic), NEW a \in 1..MaxAsks
      PROVE  /\ streams'[a].session = streams[a].session
             /\ streams'[a].step = streams[a].step
                   \/ (streams[a].step = "agent" /\ streams'[a].step = "ended")
             /\ streams[a].step = "none" => streams'[a].lines = streams[a].lines
  BY <1>0, <1>4, StreamFrame
<1>5. CASE ~(Post \/ PostStatic)
  <2>1. \A s \in Sessions : s > Posts' => threads'[s] = <<>>
    BY <1>0, <1>1, <1>3, <1>5 DEF Sessions
  <2>2. \A a \in 1..MaxAsks : streams'[a].step # "none" => streams'[a].session \in 1..Posts'
    <3> TAKE a \in 1..MaxAsks
    <3>1. HAVE streams'[a].step # "none"
    <3>2. streams[a].step # "none" /\ streams'[a].session = streams[a].session
      BY <1>4, <1>5, <3>1
    <3> QED BY <1>0, <1>1, <3>2
  <2>3. send'.step = "stream" => send' = send
    <3>1. Asked => send'.step = "post"
      BY DEF Asked, Starts
    <3>2. EndSend => send'.step = "none"
      BY DEF EndSend, NoSend
    <3>3. ReadLog => send' = send
      BY DEF ReadLog
    <3>4. ReadError => EndSend
      BY DEF ReadError
    <3>5. Keeps => send' = send \/ send'.step = "none"
      BY DEF Keeps, NoSend
    <3> QED BY <1>5, <3>1, <3>2, <3>3, <3>4, <3>5, Kinds
  <2>4. send'.step = "stream" => streams'[send'.ask].step # "none"
    <3> SUFFICES ASSUME send' = send, send.step = "stream" PROVE streams'[send.ask].step # "none"
      BY <2>3
    <3>1. send.ask \in 1..MaxAsks /\ streams[send.ask].step # "none"
      BY BoundsAssumption DEF PageInv, Types, SendInv, SendType, FreshInv
    <3> QED BY <1>4, <1>5, <3>1
  <2>5. \A a \in 1..MaxAsks : a > Posts' => streams'[a].step = "none" /\ streams'[a].lines = <<>>
    <3> TAKE a \in 1..MaxAsks
    <3>1. HAVE a > Posts'
    <3>2. streams[a].step = "none" /\ streams[a].lines = <<>>
      BY <1>0, <1>1, <3>1
    <3> QED BY <1>4, <1>5, <3>2
  <2> QED BY <2>1, <2>2, <2>4, <2>5
<1> QED BY <1>2, <1>5

LEMMA PageInvStep == ASSUME PageInv, [PageNext]_vars PROVE PageInv'
<1>0. /\ Types /\ page \in PageType /\ loads \in [Slots -> LoadType] /\ upload \in UploadType
      /\ asks \in 0..MaxAsks /\ send \in SendType
      /\ page.session <= Posts /\ send.session <= Posts /\ upload.session <= Posts
      /\ page.session \in Nat /\ send.session \in Nat /\ upload.session \in Nat
      /\ \A l \in Slots : loads[l].thread <= Posts /\ (loads[l].step # "none" => loads[l].thread > 0)
      /\ \A l \in Slots : loads[l].thread \in Nat
  BY BoundsAssumption DEF PageInv, Types, FreshInv, PageType, SendType, UploadType, LoadType
<1>1. Posts \in Nat /\ Posts' \in Nat /\ Posts <= Posts'
  BY <1>0, SendStep
<1>2. page'.session \in Nat /\ page'.session <= Posts
  <2>1. CASE page'.session = page.session \/ page'.session = 0
    BY <1>0, <1>1, <2>1
  <2>2. CASE ReadDone
    <3>1. Reading /\ page' = [page EXCEPT !.session = streams[send.ask].session]
      BY <2>2 DEF ReadDone
    <3>2. send.ask \in 1..MaxAsks /\ streams[send.ask].step # "none"
      BY <3>1, TakenType DEF Reading, PageInv, FreshInv
    <3>3. streams[send.ask].session \in 1..Posts
      BY <3>2 DEF PageInv, FreshInv
    <3> QED BY <1>0, <1>1, <3>1, <3>3 DEF PageType
  <2>3. ASSUME NEW l \in Slots, ShowThread(l) PROVE page'.session \in Nat /\ page'.session <= Posts
    <3>1. page'.session = loads[l].thread
      BY <1>0, <2>3 DEF ShowThread, PageType
    <3> QED BY <1>0, <3>1
  <2>4. EndSend => page'.session = page.session
    BY <1>0, RestedType DEF EndSend
  <2>5. UserActs \/ Uploading => page'.session = page.session \/ page'.session = 0
    BY <1>0 DEF UserActs, SendMessage, QuickQuestion, BeginUpload, RemoveFile, ClearChat, SignOut, ClearLog,
           BeginLoad, Uploading, UploadFails, UploadEnds, PageType
  <2>6. Asking => page'.session = page.session \/ ReadDone
    BY <1>0, <2>4 DEF Asking, NotSent, Post, PostStatic, ReadLog, ReadError, ReadOutput, StreamEnds,
           ConnectionBreaks, PageType
  <2>7. \A l \in Slots : Loading(l) => page'.session = page.session \/ ShowThread(l)
    BY <1>0 DEF Loading, LoadToken, NoTokenToLoad, ServeThread, LoadFails, PageType
  <2>8. \A a \in 1..MaxAsks : Server(a) => page'.session = page.session
    BY DEF Server, AgentLogs, AgentEnds, StopStream, ServerOnly
  <2>9. UNCHANGED vars => page'.session = page.session
    BY DEF vars
  <2> QED BY <2>1, <2>2, <2>3, <2>5, <2>6, <2>7, <2>8, <2>9 DEF PageNext
<1>3. send'.session \in Nat /\ send'.session <= Posts
  <2>1. send'.session \in {send.session, 0, page.session, upload.session}
    <3>1. CASE Asked
      BY <3>1 DEF Asked, Starts
    <3>2. CASE Post \/ PostStatic
      BY <1>0, <3>2 DEF Post, PostStatic, SendType
    <3>3. CASE ReadLog \/ ReadError \/ Keeps
      BY <3>3 DEF ReadLog, ReadError, EndSend, Keeps, NoSend
    <3> QED BY <3>1, <3>2, <3>3, Kinds
  <2> QED BY <1>0, <1>1, <2>1
<1>4. upload'.session \in Nat /\ upload'.session <= Posts
  <2>1. upload'.session \in {upload.session, 0, page.session}
    <3>6. BeginUpload => upload'.session = page.session
      BY DEF BeginUpload
    <3>7. UserActs => upload' = upload \/ BeginUpload
      BY DEF UserActs, SendMessage, QuickQuestion, RemoveFile, ClearChat, SignOut, ClearLog, BeginLoad
    <3>8. Uploading => upload'.session = 0
      <4>1. Uploading => upload' = NoUpload
        BY DEF Uploading, UploadFails, UploadEnds
      <4>2. NoUpload.session = 0
        BY DEF NoUpload
      <4> QED BY <4>1, <4>2
    <3>1. UserActs \/ Uploading => upload'.session \in {upload.session, 0, page.session}
      BY <3>6, <3>7, <3>8
    <3>2. Asking => upload' = upload
      BY DEF Asking, NotSent, Post, PostStatic, ReadLog, ReadError, ReadOutput, ReadDone, StreamEnds,
             ConnectionBreaks
    <3>3. \A l \in Slots : Loading(l) => upload' = upload
      BY DEF Loading, LoadToken, NoTokenToLoad, ServeThread, ShowThread, LoadFails
    <3>4. \A a \in 1..MaxAsks : Server(a) => upload' = upload
      BY DEF Server, AgentLogs, AgentEnds, StopStream, ServerOnly
    <3>5. UNCHANGED vars => upload' = upload
      BY DEF vars
    <3> QED BY <3>1, <3>2, <3>3, <3>4, <3>5 DEF PageNext
  <2> QED BY <1>0, <1>1, <2>1
<1>5. \A l \in Slots : loads'[l].thread <= Posts' /\ (loads'[l].step # "none" => loads'[l].thread > 0)
  <2>0. NoLoad.thread = 0 /\ NoLoad.step = "none"
    BY DEF NoLoad
  <2>1. CASE loads' = loads
    BY <1>0, <1>1, <2>1
  <2>2. ASSUME NEW k \in Slots, BeginLoad(k) \/ Loading(k)
        PROVE  \E load : /\ loads' = [loads EXCEPT ![k] = load]
                         /\ load.thread \in 0..Posts /\ (load.step # "none" => load.thread > 0)
    <3>1. CASE BeginLoad(k)
      <4>1. PICK t \in Sessions : /\ threads[t] # <<>>
                                  /\ loads' = [loads EXCEPT ![k] = [NoLoad EXCEPT !.step = "token", !.thread = t]]
        BY <3>1 DEF BeginLoad
      <4>2. t \in 1..Posts
        BY <1>1, <4>1 DEF PageInv, FreshInv, Sessions
      <4> DEFINE load == [NoLoad EXCEPT !.step = "token", !.thread = t]
      <4>3. load.thread = t /\ loads' = [loads EXCEPT ![k] = load]
        BY <4>1 DEF NoLoad
      <4> HIDE DEF load
      <4>4. load.thread \in 0..Posts /\ load.thread > 0
        BY <1>1, <4>2, <4>3
      <4> QED BY <4>3, <4>4
    <3>2. CASE LoadToken(k) \/ ServeThread(k)
      <4>0. loads[k].step # "none" /\ loads[k] \in LoadType /\ loads[k].thread \in 0..Posts /\ loads[k].thread > 0
        BY <1>0, <1>1, <3>2 DEF LoadToken, ServeThread
      <4>1. CASE LoadToken(k)
        <5>1. loads' = [loads EXCEPT ![k] = [loads[k] EXCEPT !.step = "fetch"]]
          BY <1>0, <4>1 DEF LoadToken
        <5>2. [loads[k] EXCEPT !.step = "fetch"].thread = loads[k].thread
          BY <4>0 DEF LoadType
        <5> QED BY <4>0, <5>1, <5>2
      <4>2. CASE ServeThread(k)
        <5>0. PICK messages : loads' = [loads EXCEPT ![k].step = "served", ![k].messages = messages]
          BY <4>2 DEF ServeThread
        <5> DEFINE load == [loads[k] EXCEPT !.step = "served", !.messages = messages]
        <5>1. loads' = [loads EXCEPT ![k] = load]
          BY <1>0, <5>0
        <5>2. load.thread = loads[k].thread
          BY <4>0 DEF LoadType
        <5> HIDE DEF load
        <5> QED BY <4>0, <5>1, <5>2
      <4> QED BY <3>2, <4>1, <4>2
    <3>3. CASE NoTokenToLoad(k) \/ ShowThread(k) \/ LoadFails(k)
      <4>1. loads' = [loads EXCEPT ![k] = NoLoad]
        BY <3>3 DEF NoTokenToLoad, ShowThread, LoadFails
      <4>2. NoLoad.thread \in 0..Posts /\ (NoLoad.step # "none" => NoLoad.thread > 0)
        BY <1>1, <2>0
      <4> QED BY <4>1, <4>2
    <3> QED BY <2>2, <3>1, <3>2, <3>3 DEF Loading
  <2>3. CASE \E k \in Slots : BeginLoad(k) \/ Loading(k)
    <3>1. PICK k \in Slots : BeginLoad(k) \/ Loading(k)
      BY <2>3
    <3>2. PICK load : /\ loads' = [loads EXCEPT ![k] = load]
                      /\ load.thread \in 0..Posts /\ (load.step # "none" => load.thread > 0)
      BY <2>2, <3>1
    <3>3. TAKE l \in Slots
    <3>4. CASE l = k
      BY <1>0, <1>1, <3>2, <3>4
    <3>5. CASE l # k
      BY <1>0, <1>1, <3>2, <3>5
    <3> QED BY <3>4, <3>5
  <2>4. CASE ~\E k \in Slots : BeginLoad(k) \/ Loading(k)
    <3>1. UserActs \/ Uploading => loads' = loads
      BY <2>4 DEF UserActs, SendMessage, QuickQuestion, BeginUpload, RemoveFile, ClearChat, SignOut, ClearLog,
             Uploading, UploadFails, UploadEnds
    <3>2. Asking => loads' = loads
      BY DEF Asking, NotSent, Post, PostStatic, ReadLog, ReadError, ReadOutput, ReadDone, StreamEnds,
             ConnectionBreaks
    <3>3. \A a \in 1..MaxAsks : Server(a) => loads' = loads
      BY DEF Server, AgentLogs, AgentEnds, StopStream, ServerOnly
    <3>4. UNCHANGED vars => loads' = loads
      BY DEF vars
    <3>5. loads' = loads
      BY <2>4, <3>1, <3>2, <3>3, <3>4 DEF PageNext
    <3> QED BY <2>1, <3>5
  <2> QED BY <2>3, <2>4
<1>6. page'.session <= Posts' /\ send'.session <= Posts' /\ upload'.session <= Posts'
  BY <1>1, <1>2, <1>3, <1>4
<1>7. FreshInv'
  BY <1>5, <1>6, StoreStep DEF FreshInv
<1> QED BY <1>7, TypesStep, SendStep DEF PageInv

-----------------------------------------------------------------------------
(* The run log.                                                            *)

\* What pushLogEntry does to the runs: all but the last question's stay as they are.
LEMMA PushedFacts ==
    ASSUME Types, NEW a \in 1..MaxAsks
    PROVE  \E n \in Nat :
               /\ n = IF AskedAgain THEN Len(runLog.runs) - 1 ELSE Len(runLog.runs)
               /\ DOMAIN Pushed(a).runs = 1..n + 1 /\ Len(Pushed(a).runs) = n + 1
               /\ \A i \in 1..n : Pushed(a).runs[i] = runLog.runs[i]
               /\ Pushed(a).runs[n + 1] = [text |-> send.text, entries |-> Append(runLog.current, a)]
               /\ Pushed(a).current = Append(runLog.current, a)
               /\ Pushed(a).cleared = runLog.cleared \ {send.ask}
<1> DEFINE entries == Append(runLog.current, a)
           run == [text |-> send.text, entries |-> entries]
           before == IF AskedAgain THEN Front(runLog.runs) ELSE runLog.runs
           n == IF AskedAgain THEN Len(runLog.runs) - 1 ELSE Len(runLog.runs)
<1>1. runLog.runs \in Seq(Run) /\ runLog.current \in Seq(1..MaxAsks) /\ send.text \in Text
  BY DEF Types, SendType, LogType
<1>2. run \in Run
  BY <1>1, AppendProperties DEF Run
<1>3. /\ before \in Seq(Run) /\ Len(before) = n /\ n \in Nat
      /\ \A i \in 1..n : before[i] = runLog.runs[i]
  <2>1. CASE AskedAgain
    <3>1. runLog.runs # <<>>
      BY <2>1 DEF AskedAgain
    <3>2. before = Front(runLog.runs) /\ n = Len(runLog.runs) - 1
      BY <2>1
    <3>3. /\ Front(runLog.runs) \in Seq(Run) /\ Len(Front(runLog.runs)) = Len(runLog.runs) - 1
          /\ \A i \in 1..Len(runLog.runs) - 1 : Front(runLog.runs)[i] = runLog.runs[i]
      BY <1>1, <3>1, LastAndFront
    <3>4. Len(runLog.runs) \in Nat \ {0}
      BY <1>1, <3>1, LenProperties, EmptySeq
    <3> HIDE DEF before, n
    <3> QED BY <3>2, <3>3, <3>4
  <2>2. CASE ~AskedAgain
    BY <1>1, <2>2, LenProperties
  <2> QED BY <2>1, <2>2
<1>4. Pushed(a) = [runs |-> Append(before, run), current |-> entries, cleared |-> runLog.cleared \ {send.ask}]
  BY DEF Pushed
<1> HIDE DEF entries, run, before, n
<1>5. /\ DOMAIN Append(before, run) = 1..n + 1 /\ Len(Append(before, run)) = n + 1
      /\ \A i \in 1..n : Append(before, run)[i] = before[i]
      /\ Append(before, run)[n + 1] = run
  BY <1>2, <1>3, AppendFacts
<1>6. /\ DOMAIN Pushed(a).runs = 1..n + 1 /\ Len(Pushed(a).runs) = n + 1
      /\ \A i \in 1..n : Pushed(a).runs[i] = runLog.runs[i]
      /\ Pushed(a).runs[n + 1] = run
      /\ Pushed(a).current = entries /\ Pushed(a).cleared = runLog.cleared \ {send.ask}
  BY <1>3, <1>4, <1>5
<1> QED BY <1>3, <1>6 DEF n, run, entries

\* The runs stay true as long as nothing is read.
LEMMA RunsFrame ==
    ASSUME Types, RunsHold, RunLogKeptUnless,
           runLog'.runs = runLog.runs, runLog'.cleared = runLog.cleared, asks' \in Nat, asks <= asks',
           \A a \in 1..MaxAsks : /\ streams'[a].read = streams[a].read
                                 /\ streams[a].read > 0 => streams'[a].text = streams[a].text
    PROVE  RunsHold' /\ RunLogKeptUnless'
<1>0. asks \in Nat
  BY BoundsAssumption DEF Types
<1>1. \A i \in DOMAIN runLog.runs : Owner(i)' = Owner(i)
  BY DEF Owner
<1>2. \A a \in 1..MaxAsks : Reports(a)' = Reports(a)
  BY DEF Reports
<1>3. ASSUME NEW run, NEW a \in 1..MaxAsks, IsRunOf(run, a)
      PROVE  IsRunOf(run, a)'
  BY <1>0, <1>2, <1>3 DEF IsRunOf
<1>4. RunsHold'
  <2>1. ASSUME NEW i \in DOMAIN runLog.runs
        PROVE  Owner(i)' \in 1..MaxAsks /\ IsRunOf(runLog.runs[i], Owner(i))'
    <3>1. Owner(i) \in 1..MaxAsks /\ IsRunOf(runLog.runs[i], Owner(i))
      BY DEF RunsHold
    <3> DEFINE o == runLog.runs[i].entries[1]
               r == runLog.runs[i]
    <3>2. asks' >= o /\ streams'[o].read > 0 /\ r.entries = [n \in 1..streams'[o].read |-> o]
          /\ r.text = streams'[o].text
      <4>1. o \in 1..MaxAsks /\ o <= asks /\ streams[o].read > 0
            /\ r.entries = [n \in 1..streams[o].read |-> o] /\ r.text = streams[o].text
        BY <3>1 DEF Owner, IsRunOf, Reports
      <4> HIDE DEF o, r
      <4> QED BY <1>0, <4>1
    <3> QED BY <3>1, <3>2 DEF Owner, IsRunOf, Reports
  <2> QED BY <1>1, <2>1 DEF RunsHold, IsRunOf, Owner, Reports
<1>5. RunLogKeptUnless'
  BY DEF RunLogKeptUnless
<1> QED BY <1>4, <1>5

\* A line that is logged: what it does to the reports read.
LEMMA ReportRead ==
    ASSUME PageInv, ReadLog \/ ReadError
    PROVE  /\ send.step = "stream" /\ send.ask \in 1..MaxAsks /\ send.ask = asks /\ Posts = asks
           /\ runLog' = Pushed(send.ask) /\ asks' = asks
           /\ \A a \in 1..MaxAsks :
                  /\ streams'[a].read = IF a = send.ask THEN streams[a].read + 1 ELSE streams[a].read
                  /\ streams'[a].text = streams[a].text /\ streams[a].read \in Nat
           /\ send' = send \/ send'.step = "none"
<1>1. Reading /\ send.step = "stream" /\ runLog' = Pushed(send.ask) /\ asks' = asks
  BY DEF ReadLog, ReadError, Reading
<1>2. /\ send.ask \in 1..MaxAsks /\ send.ask = asks /\ Taken \in StreamType
      /\ streams[send.ask] \in StreamType /\ Taken = [streams[send.ask] EXCEPT !.lines = Tail(@)]
  BY <1>1, TakenType
<1>3. Posts = asks
  BY <1>1 DEF Posts
<1>4. Taken.read = streams[send.ask].read /\ Taken.text = streams[send.ask].text
  BY <1>2 DEF StreamType
<1>5. PICK st : Streams(send.ask, st) /\ st.read = Taken.read + 1 /\ st.text = Taken.text
  <2>1. CASE ReadLog
    <3>1. [Taken EXCEPT !.read = @ + 1].read = Taken.read + 1 /\ [Taken EXCEPT !.read = @ + 1].text = Taken.text
      BY <1>2 DEF StreamType
    <3> QED BY <2>1, <3>1 DEF ReadLog
  <2>2. CASE ReadError
    <3> DEFINE st == [Taken EXCEPT !.read = @ + 1, !.lines = <<>>]
    <3>1. st.read = Taken.read + 1 /\ st.text = Taken.text
      BY <1>2 DEF StreamType
    <3> QED BY <2>2, <3>1 DEF ReadError
  <2> QED BY <2>1, <2>2
<1>6. \A a \in 1..MaxAsks : streams[a] \in StreamType /\ streams[a].read \in Nat
  BY DEF PageInv, Types, StreamType
<1>7. ASSUME NEW a \in 1..MaxAsks
      PROVE  /\ streams'[a].read = IF a = send.ask THEN streams[a].read + 1 ELSE streams[a].read
             /\ streams'[a].text = streams[a].text
  <2>1. streams \in [1..MaxAsks -> StreamType]
    BY DEF PageInv, Types
  <2>2. streams' = [streams EXCEPT ![send.ask] = st]
    BY <1>5 DEF Streams
  <2> QED BY <1>2, <1>4, <1>5, <2>1, <2>2
<1>8. send' = send \/ send'.step = "none"
  BY DEF ReadLog, ReadError, EndSend, NoSend
<1> QED BY <1>1, <1>2, <1>3, <1>6, <1>7, <1>8

LEMMA PushedRuns ==
    ASSUME PageInv, RunLogInv, ReadLog \/ ReadError
    PROVE  RunLogInv'
<1> DEFINE k == send.ask
           runs == runLog.runs
           R(a) == streams[a].read
<1>1. /\ send.step = "stream" /\ k \in 1..MaxAsks /\ k = asks /\ Posts = asks
      /\ runLog' = Pushed(k) /\ asks' = asks
      /\ \A a \in 1..MaxAsks :
             /\ streams'[a].read = IF a = k THEN R(a) + 1 ELSE R(a)
             /\ streams'[a].text = streams[a].text /\ R(a) \in Nat
      /\ send' = send \/ send'.step = "none"
  BY ReportRead
<1>2. PICK n \in Nat :
          /\ n = IF AskedAgain THEN Len(runs) - 1 ELSE Len(runs)
          /\ DOMAIN runLog'.runs = 1..n + 1 /\ Len(runLog'.runs) = n + 1
          /\ \A i \in 1..n : runLog'.runs[i] = runs[i]
          /\ runLog'.runs[n + 1] = [text |-> send.text, entries |-> Append(runLog.current, k)]
          /\ runLog'.current = Append(runLog.current, k)
          /\ runLog'.cleared = runLog.cleared \ {k}
  BY <1>1, PushedFacts DEF PageInv
<1>3. /\ runs \in Seq(Run) /\ DOMAIN runs = 1..Len(runs) /\ Len(runs) \in Nat /\ 1..n \subseteq 1..Len(runs)
      /\ runLog.current = [m \in 1..R(k) |-> k] /\ send.text = streams[k].text
  <2>1. runs \in Seq(Run)
    BY DEF PageInv, Types, LogType
  <2>2. DOMAIN runs = 1..Len(runs) /\ Len(runs) \in Nat
    BY <2>1, LenProperties
  <2>3. 1..n \subseteq 1..Len(runs)
    BY <1>2, <2>2
  <2> QED BY <1>1, <2>1, <2>2, <2>3 DEF RunLogInv, ReadingHolds, Reports
<1>4. Append(runLog.current, k) = [m \in 1..R(k) + 1 |-> k]
  <2> DEFINE c == runLog.current
             d == [m \in 1..R(k) + 1 |-> k]
  <2>1. R(k) \in Nat
    BY <1>1
  <2>2. c \in Seq(1..MaxAsks) /\ Len(c) = R(k) /\ \A m \in 1..R(k) : c[m] = k
    <3>1. c \in Seq(1..MaxAsks) /\ c = [m \in 1..R(k) |-> k]
      BY <1>3 DEF PageInv, Types, LogType
    <3>2. Len(c) = R(k)
      BY <2>1, <3>1, LenProperties
    <3> QED BY <3>1, <3>2
  <2>3. d \in Seq(1..MaxAsks) /\ Len(d) = R(k) + 1 /\ \A m \in 1..R(k) + 1 : d[m] = k
    <3>1. d \in [1..R(k) + 1 -> 1..MaxAsks] /\ R(k) + 1 \in Nat
      BY <1>1, <2>1
    <3>2. d \in Seq(1..MaxAsks)
      BY <3>1, SeqDef
    <3> QED BY <3>1, <3>2, LenProperties
  <2> HIDE DEF c, d
  <2>4. /\ Append(c, k) \in Seq(1..MaxAsks) /\ Len(Append(c, k)) = R(k) + 1
        /\ \A m \in 1..R(k) : Append(c, k)[m] = c[m]
        /\ Append(c, k)[R(k) + 1] = k
    BY <1>1, <2>2, AppendFacts
  <2>5. \A m \in 1..R(k) + 1 : Append(c, k)[m] = d[m]
    BY <2>1, <2>2, <2>3, <2>4
  <2>6. Append(c, k) = d
    BY <2>3, <2>4, <2>5, SeqEqual
  <2> QED BY <2>6 DEF c, d
\* The runs that stay are those of earlier questions.
<1>5. \A i \in 1..n : Owner(i) \in 1..MaxAsks /\ IsRunOf(runs[i], Owner(i)) /\ Owner(i) < k
  <2> TAKE i \in 1..n
  <2>1. i \in DOMAIN runs /\ Owner(i) \in 1..MaxAsks /\ IsRunOf(runs[i], Owner(i))
    BY <1>3 DEF RunLogInv, RunsHold
  <2>2. Owner(i) <= k
    BY <1>1, <2>1 DEF IsRunOf
  <2>3. Owner(i) # k
    <3>1. SUFFICES ASSUME Owner(i) = k PROVE FALSE
      OBVIOUS
    <3>2. Len(runs) \in DOMAIN runs /\ i <= Len(runs) /\ runs # <<>>
      BY <1>3, <2>1, EmptySeq
    <3>3. Owner(Len(runs)) \in 1..MaxAsks /\ IsRunOf(runs[Len(runs)], Owner(Len(runs)))
      BY <3>2 DEF RunLogInv, RunsHold
    <3>4. Owner(Len(runs)) <= k
      BY <1>1, <3>3 DEF IsRunOf
    <3>5. i < Len(runs) => k < Owner(Len(runs))
      BY <2>1, <3>1, <3>2 DEF RunLogInv, RunsHold
    <3>6. i = Len(runs)
      BY <1>1, <1>3, <3>2, <3>3, <3>4, <3>5
    <3>7. Last(runs) = runs[Len(runs)] /\ runs[Len(runs)].text = send.text
      BY <1>3, <3>1, <3>3, <3>6 DEF IsRunOf, Last
    <3>8. AskedAgain
      BY <3>2, <3>7 DEF AskedAgain
    <3> QED BY <1>2, <1>3, <3>6, <3>8
  <2> QED BY <1>1, <2>1, <2>2, <2>3
<1>6. /\ streams'[k].read = R(k) + 1 /\ streams'[k].read > 0 /\ streams'[k].text = send.text
      /\ runLog'.runs[n + 1].entries = [m \in 1..streams'[k].read |-> k]
      /\ runLog'.runs[n + 1].entries[1] = k
      /\ runLog'.runs[n + 1].text = streams'[k].text
      /\ runLog'.current = [m \in 1..streams'[k].read |-> k]
  <2>1. R(k) \in Nat /\ streams'[k].read = R(k) + 1 /\ streams'[k].text = send.text
    BY <1>1, <1>3
  <2>2. runLog'.runs[n + 1].entries = [m \in 1..streams'[k].read |-> k]
        /\ runLog'.current = [m \in 1..streams'[k].read |-> k]
    BY <1>2, <1>4, <2>1
  <2>3. 1 \in 1..streams'[k].read
    BY <2>1
  <2> QED BY <1>2, <2>1, <2>2, <2>3
<1>7. ASSUME NEW i \in 1..n
      PROVE  /\ Owner(i)' = Owner(i) /\ Owner(i) \in 1..MaxAsks /\ Owner(i) < k
             /\ runLog'.runs[i] = runs[i]
             /\ asks' >= Owner(i) /\ streams'[Owner(i)].read > 0
             /\ runs[i].entries = [m \in 1..streams'[Owner(i)].read |-> Owner(i)]
             /\ runs[i].text = streams'[Owner(i)].text
  <2> DEFINE o == Owner(i)
  <2>1. /\ o \in 1..MaxAsks /\ o < k /\ o <= asks /\ streams[o].read > 0
        /\ runs[i].entries = [m \in 1..streams[o].read |-> o] /\ runs[i].text = streams[o].text
    BY <1>5 DEF IsRunOf, Reports
  <2>2. Owner(i)' = o
    BY <1>2 DEF Owner
  <2> HIDE DEF o
  <2>3. streams'[o].read = streams[o].read /\ streams'[o].text = streams[o].text
    BY <1>1, <2>1
  <2>4. asks' >= o /\ streams'[o].read > 0
        /\ runs[i].entries = [m \in 1..streams'[o].read |-> o] /\ runs[i].text = streams'[o].text
    BY <1>1, <2>1, <2>3
  <2> QED BY <1>2, <2>1, <2>2, <2>4 DEF o
<1>8. RunsHold'
  <2>1. Owner(n + 1)' = k
    BY <1>6 DEF Owner
  <2>2. ASSUME NEW i \in 1..n + 1
        PROVE  /\ Owner(i)' \in 1..MaxAsks /\ Owner(i)' <= asks' /\ streams'[Owner(i)'].read > 0
               /\ runLog'.runs[i].entries = [m \in 1..streams'[Owner(i)'].read |-> Owner(i)']
               /\ runLog'.runs[i].text = streams'[Owner(i)'].text
    <3>1. CASE i \in 1..n
      BY <1>7, <3>1
    <3>2. CASE i = n + 1
      <4> DEFINE o == Owner(n + 1)'
      <4>1. o = k
        BY <2>1
      <4> HIDE DEF o
      <4>2. /\ o \in 1..MaxAsks /\ o <= asks' /\ streams'[o].read > 0
            /\ runLog'.runs[n + 1].entries = [m \in 1..streams'[o].read |-> o]
            /\ runLog'.runs[n + 1].text = streams'[o].text
        BY <1>1, <1>6, <4>1
      <4> QED BY <3>2, <4>2 DEF o
    <3> QED BY <3>1, <3>2
  <2>3. ASSUME NEW i \in 1..n + 1, NEW j \in 1..n + 1, i < j
        PROVE  Owner(i)' < Owner(j)'
    <3>1. i \in 1..n
      BY <2>3
    <3>2. CASE j \in 1..n
      <4>1. Owner(i) < Owner(j)
        BY <1>3, <2>3, <3>1, <3>2 DEF RunLogInv, RunsHold
      <4> QED BY <1>7, <3>1, <3>2, <4>1
    <3>3. CASE j = n + 1
      BY <1>7, <2>1, <3>1, <3>3
    <3> QED BY <3>2, <3>3
  <2> QED BY <1>2, <2>2, <2>3 DEF RunsHold, IsRunOf, Reports, Owner
<1>9. RunLogKeptUnless'
  <2> SUFFICES ASSUME NEW a \in 1..MaxAsks, streams'[a].read > 0
               PROVE  \/ \E i \in 1..n + 1 : runLog'.runs[i].entries = [m \in 1..streams'[a].read |-> a]
                      \/ a \in runLog'.cleared
                      \/ \E b \in (a + 1)..MaxAsks : streams'[b].read > 0 /\ streams'[b].text = streams'[a].text
    BY <1>2 DEF RunLogKeptUnless
  <2>1. CASE a = k
    <3>1. n + 1 \in 1..n + 1
      OBVIOUS
    <3>2. runLog'.runs[n + 1].entries = [m \in 1..streams'[a].read |-> a]
      BY <1>6, <2>1
    <3> QED BY <3>1, <3>2
  <2>2. CASE a # k
    <3>1. R(a) > 0 /\ streams'[a].read = R(a) /\ streams'[a].text = streams[a].text
      BY <1>1, <2>2
    <3>2. a < k
      BY <1>1, <2>2, <3>1 DEF RunLogInv, ReadingHolds
    <3>3. CASE \E b \in (a + 1)..MaxAsks : R(b) > 0 /\ streams[b].text = streams[a].text
      <4>1. PICK b \in (a + 1)..MaxAsks : R(b) > 0 /\ streams[b].text = streams[a].text
        BY <3>3
      <4>2. streams'[b].read > 0 /\ streams'[b].text = streams'[a].text
        BY <1>1, <3>1, <4>1
      <4> QED BY <4>2
    <3>4. CASE \E i \in DOMAIN runs : runs[i].entries = [m \in 1..R(a) |-> a]
      <4>1. PICK i \in DOMAIN runs : runs[i].entries = [m \in 1..R(a) |-> a]
        BY <3>4
      <4>2. CASE i \in 1..n
        <5>1. runLog'.runs[i].entries = [m \in 1..streams'[a].read |-> a]
          BY <1>2, <3>1, <4>1, <4>2
        <5> QED BY <4>2, <5>1
      <4>3. CASE i \notin 1..n
        <5>1. i = Len(runs) /\ AskedAgain
          BY <1>2, <1>3, <4>3
        <5>2. runs[i].text = send.text
          BY <1>3, <5>1 DEF AskedAgain, Last
        <5>3. Owner(i) = a
          <6>1. 1 \in 1..R(a)
            BY <1>1, <3>1
          <6> QED BY <4>1, <6>1 DEF Owner
        <5>4. runs[i].text = streams[a].text
          BY <5>3 DEF RunLogInv, RunsHold, IsRunOf
        <5>5. streams'[k].read > 0 /\ streams'[k].text = streams'[a].text /\ k \in (a + 1)..MaxAsks
          BY <1>1, <1>6, <3>1, <3>2, <5>2, <5>4
        <5> QED BY <5>5
      <4> QED BY <4>2, <4>3
    <3>5. CASE a \in runLog.cleared
      BY <1>2, <2>2, <3>5
    <3> QED BY <3>1, <3>3, <3>4, <3>5 DEF RunLogInv, RunLogKeptUnless
  <2> QED BY <2>1, <2>2
<1>10. ReadingHolds'
  <2>1. \A a \in 1..MaxAsks : a > Posts' => streams'[a].read = 0
    <3>1. Posts' = asks
      BY <1>1 DEF Posts
    <3> QED BY <1>1, <3>1 DEF RunLogInv, ReadingHolds
  <2>2. send'.step # "none" => send' = send
    BY <1>1
  <2> QED BY <1>6, <2>1, <2>2 DEF ReadingHolds, Reports
<1> QED BY <1>8, <1>9, <1>10 DEF RunLogInv

LEMMA RunLogStep == ASSUME PageInv, RunLogInv, [PageNext]_vars PROVE RunLogInv'
<1>0. /\ Types /\ asks \in Nat /\ send \in SendType /\ streams \in [1..MaxAsks -> StreamType]
      /\ send.step # "none" => send.ask = asks /\ asks \in 1..MaxAsks
  BY BoundsAssumption DEF PageInv, Types, SendInv, SendType
<1>1. Posts \in Nat /\ Posts' \in Nat /\ Posts <= Posts' /\ Posts <= asks
  BY <1>0, SendStep
<1>2. CASE Asked
  <2>1. PICK text \in Text, session \in {page.session, upload.session}, file \in BOOLEAN :
            Starts(text, session, file)
    BY <1>2 DEF Asked
  <2>2. /\ asks' = asks + 1 /\ streams' = [streams EXCEPT ![asks + 1].text = text] /\ runLog' = runLog
        /\ send' = [step |-> "post", ask |-> asks + 1, text |-> text, session |-> session, file |-> file]
    BY <2>1, <1>2 DEF Asked, Starts
  <2>a. asks + 1 \in 1..MaxAsks
    <3>1. asks < MaxAsks
      BY <1>2 DEF Asked
    <3> QED BY <1>0, <3>1, BoundsAssumption
  <2>3. \A a \in 1..MaxAsks : /\ streams'[a].read = streams[a].read
                              /\ a # asks + 1 => streams'[a].text = streams[a].text
    BY <1>0, <2>2, <2>a DEF StreamType
  <2>4. streams'[asks + 1].text = text
    BY <1>0, <2>2, <2>a DEF StreamType
  <2>5. streams[asks + 1].read = 0
    <3>1. asks + 1 > Posts
      BY <1>0, <1>1
    <3> QED BY <2>a, <3>1 DEF RunLogInv, ReadingHolds
  <2>6. RunsHold' /\ RunLogKeptUnless'
    BY <1>0, <2>2, <2>3, <2>5, RunsFrame DEF RunLogInv
  <2>7. ReadingHolds'
    BY <1>1, <2>2, <2>3, <2>4, <2>a DEF RunLogInv, ReadingHolds
  <2> QED BY <2>6, <2>7 DEF RunLogInv
<1>3. CASE Post \/ PostStatic
  <2>1. send' = [send EXCEPT !.step = "stream"] /\ runLog' = NewRun /\ asks' = asks /\ send.step = "post"
    BY <1>3 DEF Post, PostStatic
  <2>2. send'.ask = send.ask /\ send'.text = send.text
    BY <1>0, <2>1 DEF SendType
  <2>3. runLog'.runs = runLog.runs /\ runLog'.current = <<>> /\ runLog'.cleared = runLog.cleared
    BY <1>0, <2>1 DEF NewRun, Types, LogType
  <2>4. send.ask \in 1..MaxAsks /\ send.ask = asks /\ Posts = asks - 1
    BY <1>0, <2>1 DEF Posts
  <2>5. PICK st : Streams(send.ask, st) /\ st.read = streams[send.ask].read /\ st.text = streams[send.ask].text
    <3>1. CASE Post
      <4> DEFINE st == [streams[send.ask] EXCEPT !.step = "agent", !.session = SessionOf]
      <4>1. st.read = streams[send.ask].read /\ st.text = streams[send.ask].text
        BY <1>0, <2>4 DEF StreamType
      <4> QED BY <3>1, <4>1 DEF Post
    <3>2. CASE PostStatic
      <4> DEFINE st == [streams[send.ask] EXCEPT !.step = "ended", !.session = SessionOf,
                              !.lines = <<Line("output", send.ask), Line("done", send.ask)>>]
      <4>1. st.read = streams[send.ask].read /\ st.text = streams[send.ask].text
        BY <1>0, <2>4 DEF StreamType
      <4> QED BY <3>2, <4>1 DEF PostStatic
    <3> QED BY <1>3, <3>1, <3>2
  <2>6. \A b \in 1..MaxAsks : streams'[b].read = streams[b].read /\ streams'[b].text = streams[b].text
    BY <1>0, <2>4, <2>5, StreamKeeps
  <2>7. RunsHold' /\ RunLogKeptUnless'
    BY <1>0, <2>1, <2>3, <2>6, RunsFrame DEF RunLogInv
  <2>8. streams'[send.ask].read = 0
    BY <1>0, <2>4, <2>6 DEF RunLogInv, ReadingHolds
  <2>9. [n \in 1..0 |-> send.ask] = <<>>
    OBVIOUS
  <2>10. ReadingHolds'
    <3>1. \A a \in 1..MaxAsks : a > Posts' => streams'[a].read = 0
      BY <1>1, <2>6 DEF RunLogInv, ReadingHolds
    <3>2. send'.text = streams'[send'.ask].text
      BY <2>1, <2>2, <2>4, <2>6 DEF RunLogInv, ReadingHolds
    <3>3. [n \in 1..streams'[send'.ask].read |-> send'.ask] = <<>> /\ ~(streams'[send'.ask].read > 0)
      BY <2>2, <2>8, <2>9
    <3> QED BY <2>3, <3>1, <3>2, <3>3 DEF ReadingHolds, Reports
  <2> QED BY <2>7, <2>10 DEF RunLogInv
<1>4. CASE ReadLog \/ ReadError
  BY <1>4, PushedRuns
<1>5. CASE Keeps
  <2>1. /\ asks' = asks /\ (runLog' = runLog \/ ClearLog)
        /\ \A a \in 1..MaxAsks : streams'[a].read = streams[a].read /\ streams'[a].text = streams[a].text
        /\ send' = send \/ send'.step = "none"
    BY <1>5 DEF Keeps, NoSend
  <2>a. runLog'.current = runLog.current
    BY <1>0, <2>1 DEF ClearLog, Types, LogType
  <2>2. RunsHold' /\ RunLogKeptUnless'
    <3>1. CASE runLog' = runLog
      BY <1>0, <2>1, <3>1, RunsFrame DEF RunLogInv
    <3>2. CASE ClearLog
      <4>1. runLog'.runs = <<>> /\ runLog'.cleared = {a \in 1..MaxAsks : streams[a].read > 0}
        BY <1>0, <3>2 DEF ClearLog, Types, LogType
      <4>2. RunsHold'
        BY <4>1 DEF RunsHold
      <4>3. RunLogKeptUnless'
        BY <2>1, <4>1 DEF RunLogKeptUnless
      <4> QED BY <4>2, <4>3
    <3> QED BY <2>1, <3>1, <3>2
  <2>3. ReadingHolds'
    <3>1. \A a \in 1..MaxAsks : a > Posts' => streams'[a].read = 0
      BY <1>1, <2>1 DEF RunLogInv, ReadingHolds
    <3>2. CASE send'.step = "none"
      BY <3>1, <3>2 DEF ReadingHolds
    <3>3. CASE send' = send /\ send.step # "none"
      <4>1. send.ask \in 1..MaxAsks
        BY <1>0, <3>3
      <4>2. streams'[send.ask].read = streams[send.ask].read /\ streams'[send.ask].text = streams[send.ask].text
        BY <2>1, <4>1
      <4> QED BY <2>1, <2>a, <3>1, <3>3, <4>2 DEF ReadingHolds, RunLogInv, Reports
    <3> QED BY <2>1, <3>2, <3>3
  <2> QED BY <2>2, <2>3 DEF RunLogInv
<1> QED BY <1>2, <1>3, <1>4, <1>5, Kinds

-----------------------------------------------------------------------------
(* The lines of an answer.                                                 *)

LEMMA LogLine ==
    ASSUME NEW lines \in Seq(LineType), NEW line \in LineType, line.type = "log", GoodLines("agent", lines)
    PROVE  GoodLines("agent", Append(lines, line)) /\ ~Answers(lines) /\ ~Answers(Append(lines, line))
<1>1. Len(lines) \in Nat /\ \A i \in 1..Len(lines) : lines[i].type = "log"
  BY LenProperties DEF GoodLines
<1> DEFINE more == Append(lines, line)
<1>2. /\ Len(more) = Len(lines) + 1 /\ \A i \in 1..Len(lines) : more[i] = lines[i]
      /\ more[Len(lines) + 1] = line
  BY AppendFacts
<1> HIDE DEF more
<1>3. \A i \in 1..Len(more) : more[i].type = "log"
  <2> TAKE i \in 1..Len(more)
  <2>1. i \in 1..Len(lines) \/ i = Len(lines) + 1
    BY <1>1, <1>2
  <2> QED BY <1>1, <1>2, <2>1
<1>4. ~Answers(lines)
  BY <1>1 DEF Answers
<1>5. ~Answers(more)
  BY <1>1, <1>2, <1>3 DEF Answers
<1> QED BY <1>3, <1>4, <1>5 DEF GoodLines, more

LEMMA LastLinesFacts ==
    ASSUME NEW a \in 1..MaxAsks, NEW full \in BOOLEAN, NEW error \in {"none", "error", "bare_error"}
    PROVE  LET last == LastLines(a, full, error)
               m == Len(last)
           IN  /\ last \in Seq(LineType) /\ m \in Nat /\ m > 0 /\ last[m].type = "done"
               /\ \A i \in 1..m - 1 : last[i].type # "done"
               /\ \A i \in 1..m - 2 : last[i].type # "output"
               /\ full => m > 1 /\ last[m - 1].type = "output"
               /\ ~full => \A i \in 1..m : last[i].type # "output"
<1> DEFINE says == IF error = "none" THEN <<>> ELSE <<Line(error, a)>>
           ends == IF full THEN <<Line("output", a), Line("done", a)>> ELSE <<Line("done", a)>>
           last == LastLines(a, full, error)
           k == Len(says)
           e == Len(ends)
<1>1. last = says \o ends /\ last \in Seq(LineType)
  BY LastLinesType DEF LastLines
<1>2. /\ says \in Seq(LineType) /\ k \in {0, 1}
      /\ \A i \in 1..k : says[i].type \notin {"done", "output"}
  <2>1. CASE error = "none"
    BY <2>1, EmptySeq
  <2>2. CASE error # "none"
    <3>1. Line(error, a) \in LineType /\ Line(error, a).type \notin {"done", "output"}
      BY <2>2 DEF Line, LineType
    <3>2. says = <<Line(error, a)>>
      BY <2>2
    <3>3. Len(<<Line(error, a)>>) = 1 /\ <<Line(error, a)>>[1] = Line(error, a)
      OBVIOUS
    <3> QED BY <3>1, <3>2, <3>3
  <2> QED BY <2>1, <2>2
<1>3. /\ ends \in Seq(LineType) /\ e \in {1, 2} /\ ends[e].type = "done"
      /\ full => e = 2 /\ ends[1].type = "output"
      /\ ~full => e = 1
  <2>1. Line("output", a) \in LineType /\ Line("done", a) \in LineType
        /\ Line("output", a).type = "output" /\ Line("done", a).type = "done"
    BY DEF Line, LineType
  <2>2. CASE full
    BY <2>1, <2>2
  <2>3. CASE ~full
    BY <2>1, <2>3
  <2> QED BY <2>2, <2>3
<1> HIDE DEF says, ends, last
<1>4. /\ Len(last) = k + e
      /\ \A i \in 1..k : last[i] = says[i]
      /\ \A i \in k + 1..k + e : last[i] = ends[i - k]
  <2>1. /\ Len(says \o ends) = k + e
        /\ \A i \in 1..k + e : (says \o ends)[i] = IF i <= k THEN says[i] ELSE ends[i - k]
    BY <1>2, <1>3, ConcatProperties
  <2> QED BY <1>1, <1>2, <1>3, <2>1
<1>5. last[k + e].type = "done" /\ (full => last[k + 1].type = "output")
  <2>1. last[k + e] = ends[e] /\ last[k + 1] = ends[1]
    BY <1>2, <1>3, <1>4
  <2> QED BY <1>3, <2>1
<1>6. \A i \in 1..k : last[i].type \notin {"done", "output"}
  BY <1>2, <1>4
<1>7. /\ \A i \in 1..k + e - 1 : last[i].type # "done"
      /\ \A i \in 1..k + e - 2 : last[i].type # "output"
  <2>1. \A i \in 1..k + e - 1 : i \in 1..k \/ (full /\ i = k + 1)
    BY <1>2, <1>3
  <2>2. \A i \in 1..k + e - 2 : i \in 1..k
    BY <1>2, <1>3
  <2> QED BY <1>5, <1>6, <2>1, <2>2
<1>8. full => k + e > 1 /\ last[k + e - 1].type = "output"
  <2> SUFFICES ASSUME full PROVE k + e > 1 /\ last[k + e - 1].type = "output"
    OBVIOUS
  <2>0. e = 2
    BY <1>3, Zenon
  <2>1. k + e - 1 = k + 1 /\ k + e > 1
    BY <1>2, <2>0
  <2>2. last[k + e - 1] = last[k + 1]
    BY <2>1
  <2> QED BY <1>5, <2>1, <2>2
<1>9. ~full => \A i \in 1..k + e : last[i].type # "output"
  <2> SUFFICES ASSUME ~full, NEW i \in 1..k + e PROVE last[i].type # "output"
    OBVIOUS
  <2>0. e = 1
    BY <1>3, Zenon
  <2>1. i \in 1..k \/ i = k + e
    BY <1>2, <2>0
  <2>2. CASE i \in 1..k
    BY <1>6, <2>2
  <2>3. CASE i = k + e
    BY <1>5, <2>3
  <2> QED BY <2>1, <2>2, <2>3
<1>10. k \in Nat /\ e \in Nat /\ k + e \in Nat /\ k + e > 0
  <2>1. k \in {0, 1} /\ e \in {1, 2}
    BY <1>2, <1>3, Zenon
  <2> QED BY <2>1
<1> HIDE DEF k, e
<1>11. Len(last) = k + e
  BY <1>4
<1>12. /\ last \in Seq(LineType) /\ Len(last) \in Nat /\ Len(last) > 0 /\ last[Len(last)].type = "done"
       /\ \A i \in 1..Len(last) - 1 : last[i].type # "done"
       /\ \A i \in 1..Len(last) - 2 : last[i].type # "output"
  <2>1. last[k + e].type = "done" /\ last \in Seq(LineType)
    BY <1>1, <1>5, Zenon
  <2> QED BY <1>7, <1>10, <1>11, <2>1
<1>13. full => Len(last) > 1 /\ last[Len(last) - 1].type = "output"
  <2> SUFFICES ASSUME full PROVE Len(last) > 1 /\ last[Len(last) - 1].type = "output"
    OBVIOUS
  <2>1. k + e > 1 /\ last[k + e - 1].type = "output"
    BY <1>8, Zenon
  <2> QED BY <1>10, <1>11, <2>1
<1>14. ~full => \A i \in 1..Len(last) : last[i].type # "output"
  BY <1>9, <1>11, Zenon
<1> QED BY <1>12, <1>13, <1>14, Zenon DEF last

LEMMA EndLines ==
    ASSUME NEW a \in 1..MaxAsks, NEW full \in BOOLEAN, NEW error \in {"none", "error", "bare_error"},
           NEW lines \in Seq(LineType), GoodLines("agent", lines)
    PROVE  LET all == lines \o LastLines(a, full, error)
           IN  GoodLines("ended", all) /\ all # <<>> /\ (Answers(all) <=> full)
<1> DEFINE last == LastLines(a, full, error)
           all == lines \o last
           n == Len(lines)
           m == Len(last)
<1>1. n \in Nat /\ \A i \in 1..n : lines[i].type = "log"
  BY LenProperties DEF GoodLines
<1>2. /\ last \in Seq(LineType) /\ m \in Nat /\ m > 0 /\ last[m].type = "done"
      /\ \A i \in 1..m - 1 : last[i].type # "done"
      /\ \A i \in 1..m - 2 : last[i].type # "output"
      /\ full => m > 1 /\ last[m - 1].type = "output"
      /\ ~full => \A i \in 1..m : last[i].type # "output"
  BY LastLinesFacts
<1> HIDE DEF last
<1>3. /\ Len(all) = n + m /\ all \in Seq(LineType)
      /\ \A i \in 1..n + m : all[i] = IF i <= n THEN lines[i] ELSE last[i - n]
  BY <1>2, ConcatProperties
<1> HIDE DEF all
<1>4. all[n + m].type = "done"
  <2>1. all[n + m] = last[n + m - n] /\ n + m - n = m
    BY <1>1, <1>2, <1>3
  <2> QED BY <1>2, <2>1
<1>a. \A i \in 1..n : all[i].type = "log"
  BY <1>1, <1>2, <1>3
<1>b. \A j \in 1..m : all[n + j] = last[j]
  <2> TAKE j \in 1..m
  <2>1. n + j \in 1..n + m /\ ~(n + j <= n) /\ n + j - n = j
    BY <1>1, <1>2
  <2> QED BY <1>3, <2>1
<1>c. \A i \in 1..n + m : i \in 1..n \/ \E j \in 1..m : i = n + j
  <2> TAKE i \in 1..n + m
  <2>1. i \notin 1..n => i - n \in 1..m /\ i = n + (i - n)
    BY <1>1, <1>2
  <2> QED BY <2>1
<1>5. \A i \in 1..n + m - 1 : all[i].type # "done"
  <2> TAKE i \in 1..n + m - 1
  <2>1. CASE i \in 1..n
    BY <1>a, <2>1
  <2>2. CASE i \notin 1..n
    <3>1. PICK j \in 1..m : i = n + j
      BY <1>1, <1>2, <1>c, <2>2
    <3>2. j \in 1..m - 1
      BY <1>1, <1>2, <3>1
    <3> QED BY <1>2, <1>b, <3>1, <3>2
  <2> QED BY <2>1, <2>2
<1>6. \A i \in 1..n + m - 2 : all[i].type # "output"
  <2> TAKE i \in 1..n + m - 2
  <2>1. CASE i \in 1..n
    BY <1>a, <2>1
  <2>2. CASE i \notin 1..n
    <3>1. PICK j \in 1..m : i = n + j
      BY <1>1, <1>2, <1>c, <2>2
    <3>2. j \in 1..m - 2
      BY <1>1, <1>2, <3>1
    <3> QED BY <1>2, <1>b, <3>1, <3>2
  <2> QED BY <2>1, <2>2
<1>7. full => n + m > 1 /\ all[n + m - 1].type = "output"
  <2>1. full => m - 1 \in 1..m /\ n + (m - 1) = n + m - 1 /\ n + m > 1
    BY <1>1, <1>2
  <2> QED BY <1>2, <1>b, <2>1
<1>8. ~full => \A i \in 1..n + m : all[i].type # "output"
  <2> SUFFICES ASSUME ~full, NEW i \in 1..n + m PROVE all[i].type # "output"
    OBVIOUS
  <2>1. CASE i \in 1..n
    BY <1>a, <2>1
  <2>2. CASE i \notin 1..n
    BY <1>2, <1>b, <1>c, <2>2
  <2> QED BY <2>1, <2>2
<1>9. GoodLines("ended", all)
  BY <1>3, <1>4, <1>5, <1>6 DEF GoodLines
<1>10. all # <<>>
  BY <1>1, <1>2, <1>3, EmptySeq
<1>11. Answers(all) <=> full
  BY <1>1, <1>2, <1>3, <1>7, <1>8 DEF Answers
<1> QED BY <1>9, <1>10, <1>11 DEF all, last

LEMMA TakeLine ==
    ASSUME NEW step \in {"none", "agent", "ended"}, NEW lines \in Seq(LineType), lines # <<>>,
           GoodLines(step, lines)
    PROVE  /\ GoodLines(step, Tail(lines))
           /\ lines[1].type \in {"log", "error"} =>
                  (Answers(Tail(lines)) <=> Answers(lines)) /\ (step = "ended" => Tail(lines) # <<>>)
           /\ lines[1].type = "output" =>
                  step = "ended" /\ Answers(lines) /\ ~Answers(Tail(lines)) /\ Tail(lines) # <<>>
           /\ lines[1].type = "done" =>
                  step = "ended" /\ ~Answers(lines) /\ ~Answers(Tail(lines)) /\ Tail(lines) = <<>>
<1> DEFINE rest == Tail(lines)
           n == Len(lines)
<1>1. /\ rest \in Seq(LineType) /\ Len(rest) = n - 1 /\ n \in Nat \ {0}
      /\ \A i \in 1..n - 1 : rest[i] = lines[i + 1]
  BY TailFacts
<1> HIDE DEF rest
<1>2. Len(rest) = 0 <=> rest = <<>>
  BY <1>1, EmptySeq
<1>3. step = "agent" => \A i \in 1..n : lines[i].type = "log"
  BY DEF GoodLines
<1>4. step = "ended" => /\ lines[n].type = "done"
                        /\ \A i \in 1..n - 1 : lines[i].type # "done"
                        /\ \A i \in 1..n - 2 : lines[i].type # "output"
  BY <1>1 DEF GoodLines
<1>10. step # "none"
  BY DEF GoodLines
<1>5. GoodLines(step, rest)
  <2>1. step = "agent" => \A i \in 1..Len(rest) : rest[i].type = "log"
    BY <1>1, <1>3
  <2>2. step = "ended" /\ Len(rest) > 0 =>
            /\ rest[Len(rest)].type = "done"
            /\ \A i \in 1..Len(rest) - 1 : rest[i].type # "done"
            /\ \A i \in 1..Len(rest) - 2 : rest[i].type # "output"
    <3> SUFFICES ASSUME step = "ended", Len(rest) > 0
                 PROVE  /\ rest[Len(rest)].type = "done"
                        /\ \A i \in 1..Len(rest) - 1 : rest[i].type # "done"
                        /\ \A i \in 1..Len(rest) - 2 : rest[i].type # "output"
      OBVIOUS
    <3>1. n - 1 \in 1..n - 1 /\ n - 1 + 1 = n /\ Len(rest) = n - 1
      BY <1>1
    <3>2. rest[Len(rest)].type = "done"
      BY <1>1, <1>4, <3>1
    <3>3. \A i \in 1..n - 2 : rest[i].type # "done"
      BY <1>1, <1>4
    <3>4. \A i \in 1..n - 3 : rest[i].type # "output"
      BY <1>1, <1>4
    <3>5. Len(rest) - 1 = n - 2 /\ Len(rest) - 2 = n - 3
      BY <1>1
    <3> QED BY <3>2, <3>3, <3>4, <3>5
  <2> QED BY <1>10, <2>1, <2>2, Zenon DEF GoodLines
<1>6. n > 2 => (Answers(rest) <=> Answers(lines))
  <2>1. n > 2 => rest[n - 2] = lines[n - 2 + 1] /\ n - 2 + 1 = n - 1 /\ Len(rest) - 1 = n - 2
    BY <1>1
  <2> QED BY <1>1, <2>1 DEF Answers
<1>7. n <= 2 => ~Answers(rest)
  BY <1>1 DEF Answers
<1>8. n = 1 => ~Answers(lines)
  BY DEF Answers
<1>9. n = 2 => (Answers(lines) <=> lines[1].type = "output")
  BY DEF Answers
<1>11. CASE lines[1].type \in {"log", "error"}
  <2>1. Answers(rest) <=> Answers(lines)
    BY <1>1, <1>6, <1>7, <1>8, <1>9, <1>11
  <2>2. step = "ended" => n # 1
    BY <1>4, <1>11
  <2> QED BY <1>1, <1>2, <1>5, <1>11, <2>1, <2>2 DEF rest
<1>12. CASE lines[1].type = "output"
  <2>1. step = "ended"
    BY <1>1, <1>3, <1>10, <1>12
  <2>2. n = 2
    BY <1>1, <1>4, <1>12, <2>1
  <2> QED BY <1>1, <1>2, <1>5, <1>7, <1>9, <1>12, <2>1, <2>2 DEF rest
<1>13. CASE lines[1].type = "done"
  <2>1. step = "ended"
    BY <1>1, <1>3, <1>10, <1>13
  <2>2. n = 1
    BY <1>1, <1>4, <1>13, <2>1
  <2> QED BY <1>1, <1>2, <1>5, <1>7, <1>8, <1>13, <2>1, <2>2 DEF rest
<1> QED BY <1>5, <1>11, <1>12, <1>13 DEF rest

LEMMA StaticLines ==
    ASSUME NEW a \in 1..MaxAsks
    PROVE  LET lines == <<Line("output", a), Line("done", a)>>
           IN  GoodLines("ended", lines) /\ Answers(lines) /\ lines # <<>>
<1> DEFINE o == Line("output", a)
           d == Line("done", a)
           lines == <<o, d>>
<1>1. o.type = "output" /\ d.type = "done"
  BY DEF Line
<1> HIDE DEF o, d
<1>2. Len(lines) = 2 /\ lines[1] = o /\ lines[2] = d /\ lines # <<>>
  OBVIOUS
<1> HIDE DEF lines
<1>3. GoodLines("ended", lines)
  BY <1>1, <1>2 DEF GoodLines
<1>4. Answers(lines)
  BY <1>1, <1>2 DEF Answers
<1> QED BY <1>2, <1>3, <1>4 DEF lines, o, d

-----------------------------------------------------------------------------
(* What the page shows.                                                    *)

LEMMA RolesOf ==
    ASSUME NEW a \in Int
    PROVE  /\ User(a) \in Message /\ One(User(a)) = User(a) /\ User(a).role = "user"
           /\ Assistant(a) \in Message /\ One(Assistant(a)) = Assistant(a)
           /\ [Assistant(a) EXCEPT !.role = "graph"] \in Message
           /\ One([Assistant(a) EXCEPT !.role = "graph"]) = Assistant(a)
           /\ [User(a) EXCEPT !.role = "user_document"] \in Message
           /\ One([User(a) EXCEPT !.role = "user_document"]) = User(a)
<1>1. /\ User(a) \in Message /\ User(a).role = "user" /\ Assistant(a) \in Message
      /\ [Assistant(a) EXCEPT !.role = "graph"] \in Message
      /\ [User(a) EXCEPT !.role = "user_document"] \in Message
  BY DEF User, Assistant, Message
<1>2. One(User(a)) = User(a) /\ One(Assistant(a)) = Assistant(a)
  BY DEF User, Assistant, One, As
<1>3. One([Assistant(a) EXCEPT !.role = "graph"]) = Assistant(a)
  <2>1. [Assistant(a) EXCEPT !.role = "graph"] = [role |-> "graph", of |-> a]
    BY DEF Assistant
  <2>2. One([role |-> "graph", of |-> a]) = [role |-> "assistant", of |-> a]
    BY DEF One, As
  <2>3. Assistant(a) = [role |-> "assistant", of |-> a]
    BY DEF Assistant
  <2> QED BY <2>1, <2>2, <2>3, Zenon
<1>4. One([User(a) EXCEPT !.role = "user_document"]) = User(a)
  <2>1. [User(a) EXCEPT !.role = "user_document"] = [role |-> "user_document", of |-> a]
    BY DEF User
  <2>2. One([role |-> "user_document", of |-> a]) = [role |-> "user", of |-> a]
    BY DEF One, As
  <2>3. User(a) = [role |-> "user", of |-> a]
    BY DEF User
  <2> QED BY <2>1, <2>2, <2>3, Zenon
<1> QED BY <1>1, <1>2, <1>3, <1>4

\* A page that ends with a question, whatever it is compared to.
LEMMA EndsWithUser ==
    ASSUME NEW shown \in Seq(Message), NEW stored \in Seq(Message), NEW a \in Int,
           Plain(shown) = Append(Plain(stored), User(a))
    PROVE  shown # <<>> /\ Last(shown).role # "graph"
<1>1. /\ Plain(shown) \in Seq(Message) /\ Len(Plain(shown)) = Len(shown)
      /\ \A i \in 1..Len(shown) : Plain(shown)[i] = One(shown[i])
  BY PlainType
<1>2. /\ Plain(stored) \in Seq(Message) /\ Len(Plain(stored)) \in Nat
      /\ Len(Append(Plain(stored), User(a))) = Len(Plain(stored)) + 1
      /\ Append(Plain(stored), User(a))[Len(Plain(stored)) + 1] = User(a)
  <2>1. Plain(stored) \in Seq(Message) /\ User(a) \in Message
    BY PlainType, RolesOf
  <2> QED BY <2>1, AppendFacts, LenProperties
<1>3. Len(shown) \in Nat /\ Len(shown) > 0 /\ One(shown[Len(shown)]) = User(a)
  BY <1>1, <1>2
<1>4. shown # <<>> /\ Last(shown) = shown[Len(shown)] /\ Last(shown) \in Message
  BY <1>3, LastAndFront, EmptySeq
<1>5. One(Last(shown)).role = "user"
  BY <1>3, <1>4, RolesOf
<1> QED BY <1>4, <1>5 DEF One, As, Message

\* What the properties look at stays as it is.
LEMMA ShownFrame ==
    ASSUME ShownInv, parted' = parted, page'.shown = page.shown, page'.session = page.session,
           UNCHANGED <<send, threads, streams>>
    PROVE  ShownInv'
<1>1. Running' = Running
  BY DEF Running
<1>2. \A s : Stands(s)' = Stands(s)
  BY DEF Stands
<1> QED BY <1>1 DEF ShownInv, Stands

\* A question that starts from a page at rest.
LEMMA ShownAsked ==
    ASSUME PageInv, ShownInv, parted' = parted, send.step = "none", asks < MaxAsks,
           NEW text, NEW file, Starts(text, page.session, file),
           page'.shown = Append(page.shown, User(asks + 1)), page'.session = page.session,
           threads' = threads
    PROVE  ShownInv'
<1> SUFFICES ASSUME parted = "no" PROVE ShownInv'
  BY DEF ShownInv
<1>1. /\ page \in PageType /\ page.shown \in Seq(Message) /\ asks \in Nat /\ asks + 1 \in 1..MaxAsks
      /\ streams \in [1..MaxAsks -> StreamType]
  BY BoundsAssumption DEF PageInv, Types, PageType
<1>2. /\ send'.step = "post" /\ send'.ask = asks + 1 /\ send'.session = page.session
      /\ streams' = [streams EXCEPT ![asks + 1].text = text]
  BY DEF Starts
<1>3. Running' = Running
  <2>1. \A a \in 1..MaxAsks : streams'[a].step = streams[a].step
    BY <1>1, <1>2 DEF StreamType
  <2> QED BY <2>1 DEF Running
<1>4. Running = {} /\ Plain(page.shown) = Plain(Stands(page.session))
  BY DEF ShownInv
<1>5. Plain(page'.shown) = Append(Plain(page.shown), User(asks + 1))
  <2>1. User(asks + 1) \in Message /\ One(User(asks + 1)) = User(asks + 1)
    <3>1. asks + 1 \in Int
      BY <1>1
    <3> QED BY <3>1, RolesOf, Zenon
  <2> QED BY <1>1, <2>1, PlainAppend
<1>6. page'.session = page.session
  OBVIOUS
<1> QED BY <1>2, <1>3, <1>4, <1>5, <1>6 DEF ShownInv, Stands

\* The answer under way goes on.
LEMMA ShownStream ==
    ASSUME Types, NEW a \in 1..MaxAsks, NEW st, Streams(a, st), Running \subseteq {a},
           send'.step = "stream", send'.ask = a,
           InStream(page'.shown, page'.session, threads'[st.session], st, a)
    PROVE  ShownInv'
<1>1. streams'[a] = st /\ \A b \in 1..MaxAsks : b # a => streams'[b] = streams[b]
  BY DEF Types, Streams
<1>2. Running' \subseteq {a}
  BY <1>1 DEF Running
<1>3. InStream(page'.shown, page'.session, threads'[streams'[a].session], streams'[a], a)
  BY <1>1
<1> QED BY <1>2, <1>3 DEF ShownInv

LEMMA EmptyLines == GoodLines("agent", <<>>) /\ GoodLines("ended", <<>>) /\ ~Answers(<<>>)
<1>1. Len(<<>>) = 0
  OBVIOUS
<1>2. GoodLines("agent", <<>>) /\ GoodLines("ended", <<>>)
  BY <1>1 DEF GoodLines
<1>3. ~Answers(<<>>)
  BY <1>1 DEF Answers
<1> QED BY <1>2, <1>3

LEMMA ShownPost ==
    ASSUME PageInv, ShownInv, Post \/ PostStatic
    PROVE  ShownInv'
<1> SUFFICES ASSUME parted = "no" PROVE ShownInv'
  BY DEF ShownInv, Post, PostStatic
<1> DEFINE a == send.ask
           s == SessionOf
<1>1. /\ send.step = "post" /\ send' = [send EXCEPT !.step = "stream"] /\ page' = page
      /\ send'.step = "stream" /\ send'.ask = a
  BY DEF Post, PostStatic, PageInv, Types, SendType
<1>2. /\ s \in Sessions /\ asks \in 1..MaxAsks /\ a = asks /\ a \in 1..MaxAsks /\ a \in Int
      /\ send.session = 0 => threads[s] = <<>>
      /\ send.session # 0 => s = send.session
  BY <1>1, FreshSession
<1>3. /\ Types /\ threads \in [Sessions -> Seq(Message)] /\ threads[s] \in Seq(Message)
      /\ page.shown \in Seq(Message) /\ streams[a] \in StreamType
  BY <1>2 DEF PageInv, Types, PageType
<1>4. Running = {} /\ Plain(page.shown) = Append(Plain(Stands(page.session)), User(a))
      /\ send.session = page.session
  BY <1>1 DEF ShownInv
<1>5. Stands(page.session) = threads[s]
  BY <1>2, <1>4 DEF Stands
<1>6. Plain(page.shown) = Append(Plain(threads[s]), User(a))
  BY <1>4, <1>5
<1>7. page.shown # <<>> /\ Last(page.shown).role # "graph"
  BY <1>2, <1>3, <1>6, EndsWithUser
<1>8. Stored \in Message /\ One(Stored) = User(a)
  BY <1>2, RolesOf DEF Stored
<1>9. Append(threads[s], Stored) \in Seq(Message)
      /\ Plain(Append(threads[s], Stored)) = Plain(page.shown)
  BY <1>3, <1>6, <1>8, PlainAppend, AppendFacts
<1>10. streams[a].lines = <<>>
  <2>1. a > Posts
    BY <1>1, <1>2 DEF Posts
  <2> QED BY <1>2, <2>1 DEF PageInv, FreshInv
<1>11. CASE Post
  <2> DEFINE st == [streams[a] EXCEPT !.step = "agent", !.session = s]
  <2>1. Streams(a, st) /\ threads' = [threads EXCEPT ![s] = Append(threads[s], Stored)]
    BY <1>11 DEF Post
  <2>2. st.step = "agent" /\ st.session = s /\ st.lines = <<>>
    BY <1>3, <1>10 DEF StreamType
  <2>3. threads'[s] = Append(threads[s], Stored)
    BY <1>2, <1>3, <2>1
  <2> HIDE DEF st
  <2>4. InStream(page'.shown, page'.session, threads'[st.session], st, a)
    BY <1>1, <1>7, <1>9, <2>2, <2>3, EmptyLines DEF InStream
  <2> HIDE DEF a, s
  <2> QED BY <1>1, <1>2, <1>3, <1>4, <2>1, <2>4, ShownStream
<1>12. CASE PostStatic
  <2> DEFINE lines == <<Line("output", a), Line("done", a)>>
             st == [streams[a] EXCEPT !.step = "ended", !.session = s, !.lines = lines]
  <2>1. Streams(a, st) /\ threads' = [threads EXCEPT ![s] = threads[s] \o <<Stored, Assistant(a)>>]
    BY <1>12 DEF PostStatic
  <2>2. st.step = "ended" /\ st.session = s /\ st.lines = lines
    BY <1>3 DEF StreamType
  <2>3. GoodLines("ended", lines) /\ Answers(lines) /\ lines # <<>>
    BY <1>2, StaticLines
  <2> HIDE DEF st, lines
  <2>4. threads'[s] = Append(Append(threads[s], Stored), Assistant(a))
    <3>1. Assistant(a) \in Message
      BY <1>2, RolesOf
    <3>2. threads'[s] = threads[s] \o <<Stored, Assistant(a)>>
      BY <1>2, <1>3, <2>1
    <3> QED BY <1>3, <1>8, <3>1, <3>2, ConcatTwo
  <2>5. Plain(threads'[s]) = Append(Plain(page.shown), Assistant(a))
    <3>1. Assistant(a) \in Message /\ One(Assistant(a)) = Assistant(a)
      BY <1>2, RolesOf
    <3>2. Plain(Append(Append(threads[s], Stored), Assistant(a)))
              = Append(Plain(Append(threads[s], Stored)), One(Assistant(a)))
      BY <1>9, <3>1, PlainAppend
    <3> QED BY <1>9, <2>4, <3>1, <3>2
  <2>6. InStream(page'.shown, page'.session, threads'[st.session], st, a)
    BY <1>1, <1>7, <2>2, <2>3, <2>5 DEF InStream
  <2> HIDE DEF a, s
  <2> QED BY <1>1, <1>2, <1>3, <1>4, <2>1, <2>6, ShownStream
<1> QED BY <1>11, <1>12

LEMMA ShownRead ==
    ASSUME PageInv, ShownInv, ReadLog \/ ReadOutput \/ ReadDone
    PROVE  ShownInv'
<1> SUFFICES ASSUME parted = "no" PROVE ShownInv'
  BY DEF ShownInv, ReadLog, ReadOutput, ReadDone
<1> DEFINE a == send.ask
           st0 == streams[a]
           shown == page.shown
<1>1. /\ Reading /\ send.step = "stream" /\ UNCHANGED <<send, threads>>
      /\ st0.lines # <<>> /\ NextLine = st0.lines[1]
  BY DEF ReadLog, ReadOutput, ReadDone, Reading, NextLine
<1>2. /\ a \in 1..MaxAsks /\ a \in Int /\ st0 \in StreamType /\ Taken \in StreamType
      /\ Taken = [st0 EXCEPT !.lines = Tail(@)]
  BY <1>1, TakenType
<1>3. /\ Types /\ page \in PageType /\ shown \in Seq(Message)
      /\ st0.lines \in Seq(LineType) /\ st0.step \in {"none", "agent", "ended"}
  BY <1>2 DEF PageInv, Types, PageType, StreamType
<1>4. /\ Taken.step = st0.step /\ Taken.session = st0.session /\ Taken.lines = Tail(st0.lines)
  BY <1>2 DEF StreamType
<1>5. Running \subseteq {a} /\ InStream(shown, page.session, threads[st0.session], st0, a)
  BY <1>1 DEF ShownInv
<1>6. GoodLines(st0.step, st0.lines)
  BY <1>5 DEF InStream
<1>7. /\ GoodLines(st0.step, Tail(st0.lines))
      /\ NextLine.type \in {"log", "error"} =>
             (Answers(Tail(st0.lines)) <=> Answers(st0.lines)) /\ (st0.step = "ended" => Tail(st0.lines) # <<>>)
      /\ NextLine.type = "output" =>
             st0.step = "ended" /\ Answers(st0.lines) /\ ~Answers(Tail(st0.lines)) /\ Tail(st0.lines) # <<>>
      /\ NextLine.type = "done" =>
             st0.step = "ended" /\ ~Answers(st0.lines) /\ ~Answers(Tail(st0.lines)) /\ Tail(st0.lines) = <<>>
  BY <1>1, <1>3, <1>6, TakeLine
<1> HIDE DEF a, st0, shown
<1>8. CASE ReadLog
  <2> DEFINE st == [Taken EXCEPT !.read = @ + 1]
  <2>1. Streams(a, st) /\ page' = page /\ NextLine.type \in {"log", "error"}
    BY <1>8 DEF ReadLog, a
  <2>2. st.step = st0.step /\ st.session = st0.session /\ st.lines = Tail(st0.lines)
    BY <1>2, <1>4 DEF StreamType
  <2> HIDE DEF st
  <2>3. InStream(page'.shown, page'.session, threads'[st.session], st, a)
    BY <1>1, <1>5, <1>7, <2>1, <2>2, Zenon DEF InStream, shown
  <2> QED BY <1>1, <1>2, <1>3, <1>5, <2>1, <2>3, ShownStream DEF a
<1>9. CASE ReadOutput
  <2>1. Streams(a, Taken) /\ NextLine.type = "output" /\ page' = [page EXCEPT !.shown = Answered(shown, a)]
    BY <1>9 DEF ReadOutput, a, shown
  <2> DEFINE answer == [Assistant(a) EXCEPT !.role = "graph"]
  <2>2. shown # <<>> /\ Last(shown).role # "graph" /\ Answers(st0.lines)
    BY <1>5, <1>7, <2>1 DEF InStream
  <2>3. page'.shown = Append(shown, answer) /\ page'.session = page.session
    BY <1>3, <2>1, <2>2 DEF Answered, PageType, shown
  <2>4. answer \in Message /\ One(answer) = Assistant(a)
    BY <1>2, RolesOf
  <2> HIDE DEF answer
  <2>5. Plain(page'.shown) = Append(Plain(shown), Assistant(a))
    BY <1>3, <2>3, <2>4, PlainAppend
  <2>6. Plain(threads[st0.session]) = Append(Plain(shown), Assistant(a))
    BY <1>5, <2>2 DEF InStream
  <2>7. InStream(page'.shown, page'.session, threads'[Taken.session], Taken, a)
    BY <1>1, <1>4, <1>7, <2>1, <2>5, <2>6 DEF InStream
  <2> QED BY <1>1, <1>2, <1>3, <1>5, <2>1, <2>7, ShownStream DEF a
<1>10. CASE ReadDone
  <2>1. Streams(a, Taken) /\ NextLine.type = "done" /\ page' = [page EXCEPT !.session = st0.session]
    BY <1>10 DEF ReadDone, a, st0
  <2>2. page'.shown = shown /\ page'.session = st0.session
    BY <1>3, <2>1 DEF PageType, shown
  <2>3. st0.step = "ended" /\ Plain(threads[st0.session]) = Plain(shown)
    BY <1>5, <1>7, <2>1 DEF InStream
  <2>4. InStream(page'.shown, page'.session, threads'[Taken.session], Taken, a)
    BY <1>1, <1>4, <1>7, <2>1, <2>2, <2>3 DEF InStream
  <2> QED BY <1>1, <1>2, <1>3, <1>5, <2>1, <2>4, ShownStream DEF a
<1> QED BY <1>8, <1>9, <1>10

LEMMA ShownEnd ==
    ASSUME PageInv, ShownInv, StreamEnds
    PROVE  ShownInv'
<1> SUFFICES ASSUME parted = "no" PROVE ShownInv'
  BY DEF ShownInv, StreamEnds
<1> DEFINE a == send.ask
           st == streams[a]
<1>1. /\ send.step = "stream" /\ st.lines = <<>> /\ st.step = "ended" /\ EndSend
      /\ UNCHANGED <<threads, streams>>
  BY DEF StreamEnds, Reading
<1>2. page \in PageType /\ a \in 1..MaxAsks
  BY <1>1, BoundsAssumption DEF PageInv, Types, SendInv, SendType
<1>3. page'.shown = page.shown /\ page'.session = page.session /\ send'.step = "none"
  BY <1>1, <1>2, RestedType DEF EndSend, NoSend
<1>4. Running \subseteq {a} /\ InStream(page.shown, page.session, threads[st.session], st, a)
  BY <1>1 DEF ShownInv
<1>5. page.session = st.session /\ Plain(page.shown) = Plain(threads[st.session])
  BY <1>1, <1>4, EmptyLines DEF InStream
<1>6. st.session # 0
  BY <1>1, <1>2 DEF PageInv, FreshInv
<1>7. Running' = {}
  <2>1. Running' = Running
    BY <1>1 DEF Running
  <2>2. a \notin Running
    BY <1>1 DEF Running
  <2> QED BY <1>4, <2>1, <2>2
<1>8. Stands(page.session)' = threads[st.session]
  BY <1>1, <1>3, <1>5, <1>6 DEF Stands
<1> QED BY <1>3, <1>5, <1>7, <1>8 DEF ShownInv

LEMMA ShownServer ==
    ASSUME PageInv, ShownInv, NEW a \in 1..MaxAsks, Server(a)
    PROVE  ShownInv'
<1>1. UNCHANGED <<page, send, parted>>
  BY DEF Server, AgentLogs, AgentEnds, StopStream, ServerOnly
<1> SUFFICES ASSUME parted = "no" PROVE ShownInv'
  BY <1>1 DEF ShownInv
<1> DEFINE st0 == streams[a]
<1>2. st0.step = "agent" /\ a \in Running
  BY DEF Server, AgentLogs, AgentEnds, StopStream, Running
\* An answer that nobody reads has parted the page from the store.
<1>3. /\ send.step = "stream" /\ send.ask = a /\ ~NotRead(a)
      /\ Running \subseteq {a} /\ InStream(page.shown, page.session, threads[st0.session], st0, a)
  BY <1>2 DEF ShownInv, NotRead
<1>a. Types /\ st0 \in StreamType
  BY DEF PageInv, Types
<1>4. /\ Types /\ st0 \in StreamType /\ st0.lines \in Seq(LineType) /\ page.shown \in Seq(Message)
      /\ threads \in [Sessions -> Seq(Message)] /\ a \in Int
  BY <1>a DEF PageInv, Types, PageType, StreamType
<1>5. st0.session \in Sessions
  BY <1>2 DEF PageInv, Types, FreshInv, Posts, Sessions, StreamType
<1>6. GoodLines("agent", st0.lines) /\ page.shown # <<>> /\ Last(page.shown).role # "graph"
  BY <1>2, <1>3 DEF InStream
<1>7. ~Answers(st0.lines)
  <2>1. \A i \in 1..Len(st0.lines) : st0.lines[i].type = "log"
    BY <1>6 DEF GoodLines
  <2>2. Len(st0.lines) \in Nat
    BY <1>4, LenProperties
  <2> QED BY <2>1, <2>2 DEF Answers
<1>8. Plain(threads[st0.session]) = Plain(page.shown)
  BY <1>3, <1>7 DEF InStream
<1> HIDE DEF st0
<1>9. CASE AgentLogs(a)
  <2> DEFINE lines == Append(st0.lines, Line("log", a))
             st == [st0 EXCEPT !.logs = @ + 1, !.lines = lines]
  <2>1. Streams(a, st) /\ threads' = threads
    BY <1>9 DEF AgentLogs, st0
  <2>2. st.step = "agent" /\ st.session = st0.session /\ st.lines = lines
    BY <1>2, <1>4 DEF StreamType
  <2>3. Line("log", a) \in LineType /\ Line("log", a).type = "log"
    BY DEF Line, LineType
  <2>4. GoodLines("agent", lines) /\ ~Answers(lines)
    BY <1>4, <1>6, <2>3, LogLine
  <2> HIDE DEF lines, st
  <2>5. InStream(page'.shown, page'.session, threads'[st.session], st, a)
    BY <1>1, <1>6, <1>8, <2>1, <2>2, <2>4 DEF InStream
  <2> QED BY <1>1, <1>3, <1>4, <2>1, <2>5, ShownStream
<1>10. CASE AgentEnds(a)
  <2>1. PICK full \in BOOLEAN, error \in {"none", "error", "bare_error"} : Ends(a, full, error)
    BY <1>10 DEF AgentEnds
  <2> DEFINE lines == st0.lines \o LastLines(a, full, error)
             st == [st0 EXCEPT !.step = "ended", !.logs = 0,
                       !.lines = IF NotRead(a) THEN <<>> ELSE @ \o LastLines(a, full, error)]
             s == st0.session
  <2>2. /\ Streams(a, st)
        /\ threads' = [threads EXCEPT ![s] = @ \o Recorded(a, full, error)]
    BY <2>1 DEF Ends, st0
  <2>3. st.step = "ended" /\ st.session = s /\ st.lines = lines
    BY <1>3, <1>4 DEF StreamType
  <2>4. GoodLines("ended", lines) /\ lines # <<>> /\ (Answers(lines) <=> full)
    BY <1>4, <1>6, EndLines
  <2> HIDE DEF lines, st
  <2>5. threads'[s] = threads[s] \o Recorded(a, full, error)
    BY <1>4, <1>5, <2>2
  <2>6. ASSUME full PROVE InStream(page'.shown, page'.session, threads'[st.session], st, a)
    <3>1. Assistant(a) \in Message /\ One(Assistant(a)) = Assistant(a)
      BY <1>4, RolesOf
    <3>2. Recorded(a, full, error) = <<Assistant(a)>>
      BY <2>6 DEF Recorded
    <3>3. threads[s] \in Seq(Message)
      BY <1>4, <1>5
    <3>4. threads'[s] = Append(threads[s], Assistant(a))
      BY <2>5, <3>1, <3>2, <3>3, ConcatOne
    <3>5. Plain(threads'[s]) = Append(Plain(page.shown), Assistant(a))
      BY <1>8, <3>1, <3>3, <3>4, PlainAppend
    <3>6. Answers(lines)
      BY <2>4, <2>6, Zenon
    <3> QED BY <1>1, <1>6, <2>3, <2>4, <3>5, <3>6, Zenon DEF InStream
  <2>7. ASSUME ~full PROVE InStream(page'.shown, page'.session, threads'[st.session], st, a)
    <3>1. Recorded(a, full, error) = <<>>
      BY <2>7 DEF Recorded
    <3>2. threads[s] \in Seq(Message)
      BY <1>4, <1>5
    <3>3. threads'[s] = threads[s]
      BY <2>5, <3>1, <3>2, ConcatEmptySeq
    <3>4. ~Answers(lines)
      BY <2>4, <2>7, Zenon
    <3> QED BY <1>1, <1>6, <1>8, <2>3, <2>4, <3>3, <3>4, Zenon DEF InStream
  <2>8. InStream(page'.shown, page'.session, threads'[st.session], st, a)
    BY <2>6, <2>7, Zenon
  <2> QED BY <1>1, <1>3, <1>4, <2>2, <2>8, ShownStream
<1>11. CASE StopStream(a)
  BY <1>3, <1>11 DEF StopStream
<1> QED BY <1>9, <1>10, <1>11 DEF Server

LEMMA ShownThreads ==
    ASSUME PageInv, ShownInv, ClearChat \/ \E l \in Slots : ShowThread(l)
    PROVE  ShownInv'
<1>0. page \in PageType
  BY DEF PageInv, Types
<1>1. \A why \in {"cleared", "other"} : PartedBy(why) # "no"
  BY DEF PartedBy
<1>2. CASE ClearChat
  <2> SUFFICES ASSUME parted' = "no" PROVE ShownInv'
    BY DEF ShownInv
  <2>1. send = NoSend /\ Running = {}
    BY <1>1, <1>2 DEF ClearChat, SendIdle, Settled
  <2>2. UNCHANGED <<send, threads, streams>> /\ page'.shown = <<>> /\ page'.session = 0
    BY <1>0, <1>2 DEF ClearChat, PageType
  <2>3. send'.step = "none"
    BY <2>1, <2>2 DEF NoSend
  <2>4. Running' = {}
    BY <2>1, <2>2 DEF Running
  <2>5. Stands(page.session)' = <<>>
    BY <2>2 DEF Stands
  <2> QED BY <2>2, <2>3, <2>4, <2>5 DEF ShownInv
<1>3. ASSUME NEW l \in Slots, ShowThread(l) PROVE ShownInv'
  <2> SUFFICES ASSUME parted' = "no" PROVE ShownInv'
    BY DEF ShownInv
  <2>1. send = NoSend /\ Running = {} /\ loads[l].messages = threads[loads[l].thread]
    BY <1>1, <1>3 DEF ShowThread, SendIdle, Settled
  <2>2. /\ UNCHANGED <<send, threads, streams>>
        /\ page'.shown = loads[l].messages /\ page'.session = loads[l].thread
    BY <1>0, <1>3 DEF ShowThread, PageType
  <2>3. send'.step = "none"
    BY <2>1, <2>2 DEF NoSend
  <2>4. Running' = {}
    BY <2>1, <2>2 DEF Running
  <2>5. loads[l].thread # 0
    <3>1. loads[l].step # "none"
      BY <1>3 DEF ShowThread
    <3>2. loads[l].thread > 0
      BY <3>1 DEF PageInv, FreshInv
    <3> QED BY <3>2
  <2>6. Stands(page.session)' = threads[loads[l].thread]
    BY <2>2, <2>5 DEF Stands
  <2> QED BY <2>1, <2>2, <2>3, <2>4, <2>6 DEF ShownInv
<1> QED BY <1>2, <1>3

LEMMA ShownStep == ASSUME PageInv, ShownInv, [PageNext]_vars PROVE ShownInv'
<1>0. page \in PageType /\ page.sending = (send.step # "none")
  BY DEF PageInv, Types, SendInv
<1>1. \A why \in {"local", "failed", "stale_session", "signed_out"} : Part(why) => parted' # "no"
  BY DEF Part, PartedBy
<1>2. parted' # "no" => ShownInv'
  BY DEF ShownInv
<1>3. CASE UserActs
  <2>1. CASE SendMessage
    <3>1. PICK text \in Texts : Starts(text, page.session, page.file)
      BY <2>1 DEF SendMessage
    <3>2. /\ parted' = parted /\ send.step = "none" /\ asks < MaxAsks /\ threads' = threads
          /\ page'.shown = Append(page.shown, User(asks + 1)) /\ page'.session = page.session
      BY <1>0, <2>1 DEF SendMessage, PageType
    <3> QED BY <3>1, <3>2, ShownAsked
  <2>2. CASE QuickQuestion
    BY <1>1, <1>2, <2>2 DEF QuickQuestion
  <2>3. CASE BeginUpload \/ RemoveFile \/ ClearLog
    <3>1. /\ parted' = parted /\ UNCHANGED <<send, threads, streams>>
          /\ page'.shown = page.shown /\ page'.session = page.session
      BY <1>0, <2>3 DEF BeginUpload, RemoveFile, ClearLog, PageType
    <3> QED BY <3>1, ShownFrame
  <2>4. CASE ClearChat
    BY <2>4, ShownThreads
  <2>5. CASE \E l \in Slots : BeginLoad(l)
    BY <2>5, ShownFrame DEF BeginLoad
  <2>6. CASE SignOut
    BY <1>1, <1>2, <2>6 DEF SignOut
  <2> QED BY <1>3, <2>1, <2>2, <2>3, <2>4, <2>5, <2>6 DEF UserActs
<1>4. CASE Asking
  <2>1. CASE NotSent \/ ReadError \/ ConnectionBreaks
    BY <1>1, <1>2, <2>1 DEF NotSent, ReadError, ConnectionBreaks
  <2> QED BY <1>4, <2>1, ShownPost, ShownRead, ShownEnd DEF Asking
<1>5. CASE Uploading
  <2>1. CASE UploadEnds /\ ~page.sending
    <3>1. CASE upload.session # page.session
      BY <1>1, <1>2, <2>1, <3>1 DEF UploadEnds
    <3>2. CASE upload.session = page.session
      <4>1. /\ parted' = parted /\ send.step = "none" /\ asks < MaxAsks /\ threads' = threads
            /\ page'.shown = Append(page.shown, User(asks + 1)) /\ page'.session = page.session
            /\ Starts(upload.text, page.session, TRUE)
        BY <1>0, <2>1, <3>2 DEF UploadEnds, PageType
      <4> QED BY <4>1, ShownAsked
    <3> QED BY <3>1, <3>2
  <2>2. CASE UploadFails \/ (UploadEnds /\ page.sending)
    <3>1. /\ parted' = parted /\ UNCHANGED <<send, threads, streams>>
          /\ page'.shown = page.shown /\ page'.session = page.session
      BY <1>0, <2>2 DEF UploadFails, UploadEnds, PageType
    <3> QED BY <3>1, ShownFrame
  <2> QED BY <1>5, <2>1, <2>2 DEF Uploading
<1>6. ASSUME NEW l \in Slots, Loading(l) PROVE ShownInv'
  <2>1. CASE ShowThread(l)
    BY <2>1, ShownThreads
  <2>2. CASE LoadToken(l) \/ NoTokenToLoad(l) \/ ServeThread(l) \/ LoadFails(l)
    <3>1. /\ parted' = parted /\ UNCHANGED <<send, threads, streams>>
          /\ page'.shown = page.shown /\ page'.session = page.session
      BY <1>0, <2>2 DEF LoadToken, NoTokenToLoad, ServeThread, LoadFails, PageType
    <3> QED BY <3>1, ShownFrame
  <2> QED BY <1>6, <2>1, <2>2 DEF Loading
<1>7. CASE UNCHANGED vars
  BY <1>7, ShownFrame DEF vars
<1> QED BY <1>3, <1>4, <1>5, <1>6, <1>7, ShownServer DEF PageNext

-----------------------------------------------------------------------------
(* The theorems.                                                           *)

LEMMA InitShown == PageInit => RunLogInv /\ ShownInv
<1> SUFFICES ASSUME PageInit PROVE RunLogInv /\ ShownInv
  OBVIOUS
<1>1. /\ send.step = "none" /\ runLog.runs = <<>> /\ page.shown = <<>> /\ page.session = 0
      /\ \A a \in 1..MaxAsks : streams[a].read = 0 /\ streams[a].step = "none"
  BY DEF PageInit, NoSend, NoStream
<1>2. DOMAIN runLog.runs = {}
  BY <1>1
<1>3. RunLogInv
  BY <1>1, <1>2 DEF RunLogInv, RunsHold, ReadingHolds, RunLogKeptUnless
<1>4. Running = {}
  BY <1>1 DEF Running
<1>5. ShownInv
  BY <1>1, <1>4 DEF ShownInv, Stands
<1> QED BY <1>3, <1>5

\* The page's states have their types, the page's lock (sendingRef) is closed exactly while
\* a question is under way, which is the last one asked, and no page, question, upload or
\* load names a session that graph_responses has not opened, although an upload and a load
\* go on with the session they began with.
THEOREM PageTypeCorrect == PageSpec => []PageInv
<1>1. PageInv /\ [PageNext]_vars => PageInv'
  BY PageInvStep
<1> QED BY <1>1, InitInv, PTL DEF PageSpec

\* pushLogEntry and the start of a run in callGraphBackendApi: whatever is asked, loaded,
\* cleared or broken off, for any number of questions the run log holds all that a
\* question's stream has reported and nothing of another's, unless the same text was
\* asked again later or the user emptied the log and nothing was reported since.
THEOREM RunLogKept == PageSpec => []RunLogKeptUnless
<1> DEFINE Inv == PageInv /\ RunLogInv
<1>1. PageInit => Inv
  BY InitInv, InitShown
<1>2. Inv /\ [PageNext]_vars => Inv'
  BY PageInvStep, RunLogStep
<1>3. Inv => RunLogKeptUnless
  BY DEF RunLogInv
<1> QED BY <1>1, <1>2, <1>3, PTL DEF PageSpec

\* sendMessage, handleFileUpload, loadThread, clearChat and the stream of graph_responses
\* together: when nothing is under way and nothing has parted the page from the store, it
\* shows the stored messages of the session its next question goes to, for every limit on
\* the messages served, whether the oldest or the newest are.
THEOREM ConversationShown == PageSpec => []ConversationShownUnless
<1> DEFINE Inv == PageInv /\ ShownInv
<1>1. PageInit => Inv
  BY InitInv, InitShown
<1>2. Inv /\ [PageNext]_vars => Inv'
  BY PageInvStep, ShownStep
<1>3. Inv => ConversationShownUnless
  <2> SUFFICES ASSUME ShownInv, AtRest, parted = "no"
               PROVE  Plain(page.shown) = IF page.session = 0 THEN <<>> ELSE Plain(threads[page.session])
    BY DEF ConversationShownUnless
  <2>1. send.step = "none"
    BY DEF AtRest, SendIdle, NoSend
  <2>2. Plain(page.shown) = Plain(Stands(page.session))
    BY <2>1 DEF ShownInv
  <2> QED BY <2>2, PlainEmpty DEF Stands
<1> QED BY <1>1, <1>2, <1>3, PTL DEF PageSpec

=============================================================================
