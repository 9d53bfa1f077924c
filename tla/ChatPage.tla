-------------------------------- MODULE ChatPage --------------------------------
(***************************************************************************)
(* The chat page (talent_ui/src/App.jsx) with the endpoints it talks to         *)
(* (api.py): questions and their streamed answers, the upload that sends a       *)
(* question of its own, loading a stored thread, clearing the chat, the run log.  *)
(* An operation that awaits goes on with the state of the page it began with.     *)
(***************************************************************************)
EXTENDS Integers, SequencesExt, FiniteSets

CONSTANTS
    Texts,       \* what the user asks
    RfpTexts,    \* the texts that ask to match an RFP
    Slots,       \* loads of a thread that may be under way at once
    ThreadLimit, \* messages of a thread that are served, 200
    MaxAsks,     \* cap on the questions
    MaxActs,     \* cap on what the user does
    MaxLogs      \* cap on the log events of an answer

ASSUME BoundsAssumption == MaxAsks \in Nat /\ MaxActs \in Nat /\ MaxLogs \in Nat /\ ThreadLimit \in Nat

VARIABLES
    page,     \* what React keeps: [shown, session, loading, sending, uploading, file]
    send,     \* the question under way: [step, ask, text, session, file]
    loads,    \* [Slots -> the loading of a thread: [step, thread, messages]]
    upload,   \* the upload under way: [step, text, session]
    asks,     \* questions so far
    acts,     \* what the user did so far
    runLog,   \* [runs, current, cleared]: runLogRuns, currentRunRef, and the questions whose
              \* entries the user has cleared away
    threads,  \* the stored messages of every session
    streams,  \* [1..MaxAsks -> [step, session, lines, logs, read, text]], the server's side
    parted    \* why the page may differ from the store: "no" or the first reason

vars == <<page, send, loads, upload, asks, acts, runLog, threads, streams, parted>>

\* 0 is none.
Sessions == 1..MaxAsks
User(a) == [role |-> "user", of |-> a]
Assistant(a) == [role |-> "assistant", of |-> a]
NoSend == [step |-> "none", ask |-> 0, text |-> "none", session |-> 0, file |-> FALSE]
NoLoad == [step |-> "none", thread |-> 0, messages |-> <<>>]
NoUpload == [step |-> "none", text |-> "none", session |-> 0]
NoStream == [step |-> "none", session |-> 0, lines |-> <<>>, logs |-> 0, read |-> 0, text |-> "none"]

PageInit ==
    /\ page = [shown |-> <<>>, session |-> 0, loading |-> FALSE, sending |-> FALSE, uploading |-> FALSE,
               file |-> FALSE]
    /\ send = NoSend /\ loads = [l \in Slots |-> NoLoad] /\ upload = NoUpload
    /\ asks = 0 /\ acts = 0
    /\ runLog = [runs |-> <<>>, current |-> <<>>, cleared |-> {}]
    /\ threads = [s \in Sessions |-> <<>>]
    /\ streams = [a \in 1..MaxAsks |-> NoStream]
    /\ parted = "no"

SendIdle == send = NoSend
LoadsIdle == \A l \in Slots : loads[l] = NoLoad
UploadIdle == upload = NoUpload
Running == {a \in 1..MaxAsks : streams[a].step \notin {"none", "ended"}}
PartedBy(why) == IF parted = "no" THEN why ELSE parted
Part(why) == parted' = PartedBy(why)

-----------------------------------------------------------------------------
(* A question: sendMessage, sendMessageWithFile.                           *)

Starts(text, session, file) ==
    /\ asks' = asks + 1
    /\ send' = [step |-> "post", ask |-> asks + 1, text |-> text, session |-> session, file |-> file]
    /\ streams' = [streams EXCEPT ![asks + 1].text = text]

SendMessage ==
    /\ ~page.loading /\ ~page.sending /\ asks < MaxAsks
    /\ \E text \in Texts : Starts(text, page.session, page.file)
    /\ page' = [page EXCEPT !.shown = Append(@, User(asks + 1)), !.loading = TRUE, !.sending = TRUE]
    /\ UNCHANGED <<loads, upload, runLog, threads, parted>>

\* handleQuickQuestion answers by itself a question about an RFP that nobody uploaded.
QuickQuestion ==
    /\ ~page.loading /\ ~page.file /\ RfpTexts # {} /\ User(-1) \notin Range(page.shown)
    /\ page' = [page EXCEPT !.shown = @ \o <<User(-1), Assistant(-1)>>]
    /\ Part("local")
    /\ UNCHANGED <<send, loads, upload, asks, runLog, threads, streams>>

\* The finally block (the mutant forgets the guard of sendingRef).
LeftSending(p) == [p EXCEPT !.loading = FALSE]
Rested(p) == [p EXCEPT !.loading = FALSE, !.sending = FALSE]
EndSend == page' = Rested(page) /\ send' = NoSend

\* No token, or no answer to the request.
NotSent ==
    /\ send.step = "post"
    /\ EndSend /\ Part("failed")
    /\ UNCHANGED <<loads, upload, asks, acts, runLog, threads, streams>>

-----------------------------------------------------------------------------
(* The server: graph_responses and _stream_graph.                          *)

Fresh == CHOOSE s \in Sessions : threads[s] = <<>> /\ \A r \in Sessions : threads[r] = <<>> => s <= r
SessionOf == IF send.session = 0 THEN Fresh ELSE send.session
Line(type, a) == [type |-> type, of |-> a]
Streams(a, s) == streams' = [streams EXCEPT ![a] = s]

\* _missing_rfp_context: no document now, nor among the messages of the session (a
\* question with a document is kept with it).
HasDocument(s) == \E i \in DOMAIN threads[s] : threads[s][i].role = "user_document"
MissesRfp == send.text \in RfpTexts /\ ~send.file /\ ~HasDocument(SessionOf)
Stored == IF send.file THEN [User(send.ask) EXCEPT !.role = "user_document"] ELSE User(send.ask)

\* The entries of a run start anew with each stream (the mutant goes on with the last).
OldRun == runLog
NewRun == [runLog EXCEPT !.current = <<>>]

Post ==
    /\ send.step = "post" /\ ~MissesRfp
    /\ threads' = [threads EXCEPT ![SessionOf] = Append(@, Stored)]
    /\ Streams(send.ask, [streams[send.ask] EXCEPT !.step = "agent", !.session = SessionOf])
    /\ send' = [send EXCEPT !.step = "stream"]
    /\ runLog' = NewRun
    /\ UNCHANGED <<page, loads, upload, asks, acts, parted>>

\* _stream_static_graph_response.
PostStatic ==
    /\ send.step = "post" /\ MissesRfp
    /\ threads' = [threads EXCEPT ![SessionOf] = @ \o <<Stored, Assistant(send.ask)>>]
    /\ Streams(send.ask, [streams[send.ask] EXCEPT !.step = "ended", !.session = SessionOf,
                              !.lines = <<Line("output", send.ask), Line("done", send.ask)>>])
    /\ send' = [send EXCEPT !.step = "stream"]
    /\ runLog' = NewRun
    /\ UNCHANGED <<page, loads, upload, asks, acts, parted>>

ServerOnly == UNCHANGED <<page, send, loads, upload, asks, acts, runLog, parted>>

\* The answer a is no longer read (or not yet).
NotRead(a) == send.step # "stream" \/ send.ask # a

\* An event of the agent framework's logger, which may be another request's.
AgentLogs(a) ==
    /\ streams[a].step = "agent" /\ ~NotRead(a) /\ streams[a].logs < MaxLogs
    /\ Streams(a, [streams[a] EXCEPT !.logs = @ + 1, !.lines = Append(@, Line("log", a))])
    /\ UNCHANGED threads /\ ServerOnly

\* The answer is recorded before it is sent.  An error is a line of the stream, with or
\* without a message; what was said before it is an answer all the same (the mutant loses
\* it).
RecordedUnfailed(a, full, error) == IF full /\ error = "none" THEN <<Assistant(a)>> ELSE <<>>
Recorded(a, full, error) == IF full THEN <<Assistant(a)>> ELSE <<>>
LastLines(a, full, error) ==
    (IF error = "none" THEN <<>> ELSE <<Line(error, a)>>)
        \o (IF full THEN <<Line("output", a), Line("done", a)>> ELSE <<Line("done", a)>>)
Ends(a, full, error) ==
    /\ threads' = [threads EXCEPT ![streams[a].session] = @ \o Recorded(a, full, error)]
    /\ Streams(a, [streams[a] EXCEPT !.step = "ended", !.logs = 0,
                       !.lines = IF NotRead(a) THEN <<>> ELSE @ \o LastLines(a, full, error)])
AgentEnds(a) ==
    /\ streams[a].step = "agent"
    /\ \E full \in BOOLEAN, error \in {"none", "error", "bare_error"} : Ends(a, full, error)
    /\ ServerOnly

\* The server stops an answer whose client is gone.
StopStream(a) ==
    /\ streams[a].step = "agent" /\ NotRead(a)
    /\ Streams(a, [streams[a] EXCEPT !.step = "ended"])
    /\ UNCHANGED threads /\ ServerOnly

-----------------------------------------------------------------------------
(* The page reads the stream: callGraphBackendApi.                         *)

Reading == send.step = "stream" /\ streams[send.ask].lines # <<>>
NextLine == streams[send.ask].lines[1]
Taken == [streams[send.ask] EXCEPT !.lines = Tail(@)]

\* pushLogEntry: a run whose question is that of the last run takes its place.
AskedAgain == runLog.runs # <<>> /\ Last(runLog.runs).text = send.text
Pushed(entry) ==
    LET entries == Append(runLog.current, entry)
        run == [text |-> send.text, entries |-> entries]
        before == IF AskedAgain THEN Front(runLog.runs) ELSE runLog.runs
    IN  [runs |-> Append(before, run), current |-> entries, cleared |-> runLog.cleared \ {send.ask}]
ReadLog ==
    /\ Reading /\ NextLine.type \in {"log", "error"}
    /\ runLog' = Pushed(send.ask)
    /\ Streams(send.ask, [Taken EXCEPT !.read = @ + 1])
    /\ UNCHANGED <<page, send, loads, upload, asks, acts, threads, parted>>

\* The error is thrown among the lines and caught there, unless it says "workflow error",
\* which is what an error without a message is given.
ReadError ==
    /\ Reading /\ NextLine.type = "bare_error"
    /\ runLog' = Pushed(send.ask)
    /\ Streams(send.ask, [Taken EXCEPT !.read = @ + 1, !.lines = <<>>])
    /\ EndSend /\ Part("failed")
    /\ UNCHANGED <<loads, upload, asks, acts, threads>>

\* An answer takes the place of an answer at the end.
Answered(shown, a) ==
    IF shown # <<>> /\ Last(shown).role = "graph" THEN Append(Front(shown), [Assistant(a) EXCEPT !.role = "graph"])
    ELSE Append(shown, [Assistant(a) EXCEPT !.role = "graph"])
ReadOutput ==
    /\ Reading /\ NextLine.type = "output"
    /\ page' = [page EXCEPT !.shown = Answered(@, send.ask)]
    /\ Streams(send.ask, Taken)
    /\ UNCHANGED <<send, loads, upload, asks, acts, runLog, threads, parted>>

ReadDone ==
    /\ Reading /\ NextLine.type = "done"
    /\ page' = [page EXCEPT !.session = streams[send.ask].session]
    /\ Streams(send.ask, Taken)
    /\ UNCHANGED <<send, loads, upload, asks, acts, runLog, threads, parted>>

StreamEnds ==
    /\ send.step = "stream" /\ ~Reading /\ streams[send.ask].step = "ended"
    /\ EndSend
    /\ UNCHANGED <<loads, upload, asks, acts, runLog, threads, streams, parted>>

ConnectionBreaks ==
    /\ send.step = "stream"
    /\ EndSend /\ Part("failed")
    /\ Streams(send.ask, [streams[send.ask] EXCEPT !.lines = <<>>, !.logs = 0])
    /\ UNCHANGED <<loads, upload, asks, acts, runLog, threads>>

\* The Clear button of the run log, which leaves the entries of the answer being read.
ClearLog ==
    /\ runLog.runs # <<>>
    /\ runLog' = [runLog EXCEPT !.runs = <<>>, !.cleared = {a \in 1..MaxAsks : streams[a].read > 0}]
    /\ UNCHANGED <<page, send, loads, upload, asks, threads, streams, parted>>

-----------------------------------------------------------------------------
(* Uploads: handleFileUpload.                                              *)

\* The question is what the input holds, or else the last one.
BeginUpload ==
    /\ ~page.loading /\ ~page.uploading
    /\ page' = [page EXCEPT !.uploading = TRUE]
    /\ \E text \in Texts : upload' = [step |-> "post", text |-> text, session |-> page.session]
    /\ UNCHANGED <<send, loads, asks, runLog, threads, streams, parted>>

\* No token, or no answer.
UploadFails ==
    /\ upload.step = "post"
    /\ page' = [page EXCEPT !.uploading = FALSE] /\ upload' = NoUpload
    /\ UNCHANGED <<send, loads, asks, acts, runLog, threads, streams, parted>>

\* The document is there: the question goes out with the session of the time of the
\* upload, or not at all when another question is under way.
UploadEnds ==
    /\ upload.step = "post" /\ (page.sending \/ asks < MaxAsks)
    /\ upload' = NoUpload
    /\ IF page.sending
         THEN /\ page' = [page EXCEPT !.uploading = FALSE, !.file = TRUE]
              /\ UNCHANGED <<send, asks, streams, parted>>
         ELSE /\ page' = [page EXCEPT !.uploading = FALSE, !.file = TRUE, !.shown = Append(@, User(asks + 1)),
                                      !.loading = TRUE, !.sending = TRUE]
              /\ Starts(upload.text, upload.session, TRUE)
              /\ (IF upload.session # page.session THEN Part("stale_session") ELSE UNCHANGED parted)
    /\ UNCHANGED <<loads, acts, runLog, threads>>

RemoveFile ==
    /\ page.file
    /\ page' = [page EXCEPT !.file = FALSE]
    /\ UNCHANGED <<send, loads, upload, asks, runLog, threads, streams, parted>>

-----------------------------------------------------------------------------
(* Threads: clearChat, logout and loadThread.                              *)

\* What a settled page starts from: nothing, but for an answer that may still be stored.
Settled == IF Running = {} THEN "no" ELSE "failed"

\* "Clear chat" is never disabled, "New chat" only while loading.
ClearChat ==
    /\ page.shown # <<>> \/ page.session # 0
    /\ page' = [page EXCEPT !.shown = <<>>, !.session = 0]
    /\ parted' = IF ~SendIdle THEN PartedBy("cleared") ELSE Settled
    /\ UNCHANGED <<send, loads, upload, asks, runLog, threads, streams>>

\* logout of a build with AUTH_DISABLED clears what is shown and keeps the session.
SignOut ==
    /\ page.shown # <<>>
    /\ page' = [page EXCEPT !.shown = <<>>]
    /\ Part("signed_out")
    /\ UNCHANGED <<send, loads, upload, asks, runLog, threads, streams>>

BeginLoad(l) ==
    /\ ~page.loading /\ loads[l] = NoLoad
    /\ \E t \in Sessions :
           /\ threads[t] # <<>>
           /\ loads' = [loads EXCEPT ![l] = [NoLoad EXCEPT !.step = "token", !.thread = t]]
    /\ UNCHANGED <<page, send, upload, asks, runLog, threads, streams, parted>>
LoadToken(l) ==
    /\ loads[l].step = "token"
    /\ loads' = [loads EXCEPT ![l].step = "fetch"]
    /\ page' = [page EXCEPT !.loading = TRUE]
    /\ UNCHANGED <<send, upload, asks, acts, runLog, threads, streams, parted>>
NoTokenToLoad(l) ==
    /\ loads[l].step = "token"
    /\ loads' = [loads EXCEPT ![l] = NoLoad]
    /\ UNCHANGED <<page, send, upload, asks, acts, runLog, threads, streams, parted>>

\* get_thread_messages with its limit: the oldest messages of Cosmos, the newest of the
\* fallback.
Oldest(t) == SubSeq(threads[t], 1, Min({Len(threads[t]), ThreadLimit}))
Newest(t) == SubSeq(threads[t], Max({1, Len(threads[t]) - ThreadLimit + 1}), Len(threads[t]))
ServeThread(l) ==
    /\ loads[l].step = "fetch"
    /\ \E messages \in {Oldest(loads[l].thread), Newest(loads[l].thread)} :
           loads' = [loads EXCEPT ![l].step = "served", ![l].messages = messages]
    /\ UNCHANGED <<page, send, upload, asks, acts, runLog, threads, streams, parted>>

\* Its finally also ends the loading of a question.
ShowThread(l) ==
    /\ loads[l].step = "served"
    /\ page' = [page EXCEPT !.shown = loads[l].messages, !.session = loads[l].thread, !.loading = FALSE]
    /\ loads' = [loads EXCEPT ![l] = NoLoad]
    /\ parted' = IF ~SendIdle \/ loads[l].messages # threads[loads[l].thread] THEN PartedBy("other") ELSE Settled
    /\ UNCHANGED <<send, upload, asks, acts, runLog, threads, streams>>
LoadFails(l) ==
    /\ loads[l].step \in {"fetch", "served"}
    /\ page' = [page EXCEPT !.loading = FALSE] /\ loads' = [loads EXCEPT ![l] = NoLoad]
    /\ UNCHANGED <<send, upload, asks, acts, runLog, threads, streams, parted>>

-----------------------------------------------------------------------------
Server(a) == AgentLogs(a) \/ AgentEnds(a) \/ StopStream(a)
Asking ==
    \/ NotSent \/ Post \/ PostStatic
    \/ ReadLog \/ ReadError \/ ReadOutput \/ ReadDone \/ StreamEnds \/ ConnectionBreaks
Loading(l) == LoadToken(l) \/ NoTokenToLoad(l) \/ ServeThread(l) \/ ShowThread(l) \/ LoadFails(l)
Uploading == UploadFails \/ UploadEnds
UserActs ==
    /\ acts < MaxActs /\ acts' = acts + 1
    /\ SendMessage \/ QuickQuestion \/ BeginUpload \/ RemoveFile \/ ClearChat \/ SignOut \/ ClearLog
       \/ (\E l \in Slots : BeginLoad(l))

PageNext ==
    \/ UserActs \/ Asking \/ Uploading
    \/ \E l \in Slots : Loading(l)
    \/ \E a \in 1..MaxAsks : Server(a)

PageSpec == PageInit /\ [][PageNext]_vars

\* Tokens, fetches and streams come to an end, well or badly; the user owes nothing.
FairPageSpec ==
    /\ PageSpec
    /\ WF_vars(Asking)
    /\ \A l \in Slots : WF_vars(Loading(l))
    /\ WF_vars(\E a \in 1..MaxAsks : Server(a))

-----------------------------------------------------------------------------
(* Properties.                                                             *)

AtRest == SendIdle /\ LoadsIdle /\ UploadIdle
As(role) == IF role = "graph" THEN "assistant" ELSE IF role = "user_document" THEN "user" ELSE role
Plain(seq) == [i \in DOMAIN seq |-> [seq[i] EXCEPT !.role = As(@)]]

\* When nothing is under way the page shows the stored messages of the session that its
\* next question goes to, whatever was asked, uploaded, loaded and cleared before: also
\* after an agent that failed halfway, whose error does not end the stream.  It does not
\* after a question whose stream was not read to its end, an answer of the page's own, a
\* chat cleared or a thread shown while a question was under way, a thread that changed
\* after it was served or is longer than what is served of it, a sign-out without accounts,
\* or a question sent by an upload that the user did not wait for.
\* A chat cleared or a thread loaded makes up for all of them, once no answer is being
\* written any more.
ConversationShownUnless ==
    AtRest => parted # "no" \/ Plain(page.shown) = IF page.session = 0 THEN <<>> ELSE Plain(threads[page.session])

\* The run log ("survives across queries") keeps what a question's stream has reported,
\* all of it and nothing of another's, unless the question is asked again or the log is
\* cleared; the entry that follows brings back what was cleared of its question.
RunLogKeptUnless ==
    \A a \in 1..MaxAsks : streams[a].read > 0 =>
        \/ \E i \in DOMAIN runLog.runs : runLog.runs[i].entries = [n \in 1..streams[a].read |-> a]
        \/ a \in runLog.cleared
        \/ \E b \in (a + 1)..MaxAsks : streams[b].read > 0 /\ streams[b].text = streams[a].text

\* The page does not stay locked: whatever fails, loading and sendingRef are reset.
PageUnlocks == (page.loading \/ page.sending) ~> (~page.loading /\ ~page.sending)

=============================================================================
