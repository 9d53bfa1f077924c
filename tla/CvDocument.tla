------------------------------- MODULE CvDocument -------------------------------
(***************************************************************************)
(* The CV of an employee: the conversation in which the user chooses a          *)
(* template (api.py, instructions/CV_GENERATION_AGENT.md), generate_employee_cv  *)
(* (mcp_server/cv_generator.py), which reads the graph with one statement per     *)
(* section, the two documents it can build, and the download of the file.        *)
(***************************************************************************)
EXTENDS SequencesExt, Selections

CONSTANTS
    Graphs,        \* the generations of the graph: [email -> profile and sections]
    Templates,     \* template_docs in sorted order: [file, format, boxes]
    Replies,       \* short replies of the user
    Fragments,     \* [choice -> the files whose name contains it]
    Strangers,     \* template names that the agent may make up
    NameChars,     \* [name -> its characters: "word", "space", "mark"]
    HistoryLimit,  \* messages of the history that are looked at, 6
    MaxTurns,      \* cap on the turns
    MaxRaised      \* cap on the messages of the conversation that Cosmos raises an error for

\* Templates are DOCX or PDF files.
ASSUME TemplatesAssumption ==
    /\ Templates \in Seq([file : STRING, format : {"docx", "pdf"}, boxes : Nat])
    /\ HistoryLimit \in Nat

\* Everybody has a name, which is not that of an anonymous CV, has the skills at levels
\* _build_docx knows or at none, and works for clients that are not the anonymous one.
Levels == {"", "Expert", "Guru", "Advanced", "Intermediate", "Basic"}
ASSUME GraphsAssumption ==
    \A g \in DOMAIN Graphs : \A email \in DOMAIN Graphs[g] :
        LET e == Graphs[g][email]
        IN  /\ e.profile \in Seq([name : STRING, email : STRING, phone : STRING]) \ {<<>>}
            /\ e.profile[1].name # "Candidate Profile"
            /\ e.skills \in Seq([skill : STRING, level : Levels])
            /\ e.exp \in Seq([client : STRING \ {"Confidential Client"}, start : Nat, current : BOOLEAN])
ASSUME NamesAssumption ==
    /\ \A n \in DOMAIN NameChars : NameChars[n] \subseteq {"word", "space", "mark"}
    /\ "Candidate Profile" \in DOMAIN NameChars /\ "mark" \notin NameChars["Candidate Profile"]
    /\ \A g \in DOMAIN Graphs : \A email \in DOMAIN Graphs[g] :
           Graphs[g][email].profile[1].name \in DOMAIN NameChars

VARIABLES
    loaded,    \* the generation in the graph
    cosmosUp,  \* whether there is a Cosmos and the circuit breaker of chat_history.py is closed
    messages,  \* the conversation: [role, choice, from, email, template, shown, templates, lies],
               \* where from is the store a choice was looked up in, lies those the message lies in
    cv         \* the turn: [step, email, template, anonymize, got, reloaded, doc, file]

writing == <<loaded, cosmosUp, messages, cv>>

Sections == <<"profile", "skills", "certs", "langs", "edu", "exp", "loc">>
NoDoc == [name |-> "", contact |-> <<>>, skills |-> <<>>, certs |-> <<>>, edu |-> <<>>, langs |-> <<>>, exp |-> <<>>]
NoTurn == [step |-> "idle", email |-> "", template |-> "", anonymize |-> FALSE, got |-> <<>>,
           reloaded |-> FALSE, doc |-> NoDoc, file |-> ""]
Message(role, email) ==
    [role |-> role, choice |-> "", from |-> "", email |-> email, template |-> "", shown |-> <<>>, templates |-> <<>>,
     lies |-> {}]
Files(format) == Selected(Templates, {i \in DOMAIN Templates : Templates[i].format = format})
Named(file) == {t \in Range(Templates) : t.file = file}

WriteInit ==
    /\ loaded \in DOMAIN Graphs /\ cosmosUp \in BOOLEAN
    /\ messages = <<>> /\ cv = NoTurn

-----------------------------------------------------------------------------
(* The conversation.                                                       *)

\* add_message: in Cosmos, or, when that raises, in the fallback, with or without an effect
\* in Cosmos; behind the circuit breaker only in the fallback.
Lies(place) == {i \in DOMAIN messages : place \in messages[i].lies}
Put(m, places) == messages' = Append(messages, [m EXCEPT !.lies = places])
MayRaise == Cardinality(Lies("fallback")) < MaxRaised
Says(m) ==
    /\ \/ cosmosUp /\ Put(m, {"cosmos"})
       \/ cosmosUp /\ MayRaise /\ (Put(m, {"fallback"}) \/ Put(m, {"cosmos", "fallback"}))
       \/ ~cosmosUp /\ Put(m, {"fallback"})
    /\ UNCHANGED cosmosUp

\* Enough requests of this conversation and of others have raised.
BreakerOpens == cosmosUp /\ cosmosUp' = FALSE /\ UNCHANGED <<loaded, messages, cv>>

\* get_history with a limit, of Cosmos or, when that raises or is not asked, of the
\* fallback: the oldest messages of the one, the newest of the other.
Places == IF cosmosUp THEN {"cosmos", "fallback"} ELSE {"fallback"}
History(place) ==
    {i \in Lies(place) :
        Cardinality({j \in Lies(place) : IF place = "cosmos" THEN j < i ELSE j > i}) < HistoryLimit}

\* The template that a reply stands for, if any: that of its number, or the first whose
\* name contains it.
Ordinal == [c \in {"1", "default", "any", "2", "3"} |-> IF c = "2" THEN 2 ELSE IF c = "3" THEN 3 ELSE 1]
Containing(choice, templates) == {i \in DOMAIN templates : templates[i] \in Fragments[choice]}
Chosen(choice, templates) ==
    IF choice \in DOMAIN Ordinal /\ Ordinal[choice] <= Len(templates) THEN <<templates[Ordinal[choice]]>>
    ELSE IF Containing(choice, templates) = {} THEN <<>>
    ELSE <<templates[Min(Containing(choice, templates))]>>

\* _augment_cv_template_choice: the newest template list of the history, with its email, or
\* that of the newest message of the user after it (the mutant walks from the start).
ListsIn(history) == {i \in history : messages[i].shown # <<>>}
OldestList(history) == Min(ListsIn(history))
NewestList(history) == Max(ListsIn(history))
HasEmail(m) == m.email # ""
Mentions(at, history) == {j \in history : j > at /\ messages[j].role = "user" /\ HasEmail(messages[j])}
EmailFor(at, history) ==
    IF HasEmail(messages[at]) \/ Mentions(at, history) = {} THEN messages[at].email
    ELSE messages[Max(Mentions(at, history))].email
Augment(choice, place) ==
    LET history == History(place)
        at == NewestList(history)
        chosen == Chosen(choice, messages[at].templates)
    IN  IF ListsIn(history) = {} THEN Message("user", "")
        ELSE IF chosen = <<>> \/ EmailFor(at, history) = "" THEN Message("user", "")
        ELSE [Message("user", EmailFor(at, history)) EXCEPT !.choice = choice, !.from = place, !.template = chosen[1]]

AskForCv ==
    /\ cv.step = "idle" /\ Len(messages) < 2 * MaxTurns
    /\ \E email \in UNION {DOMAIN Graphs[g] : g \in DOMAIN Graphs} : Says(Message("user", email))
    /\ cv' = [NoTurn EXCEPT !.step = "agent"]
    /\ UNCHANGED loaded
Reply ==
    /\ cv.step = "idle" /\ Len(messages) < 2 * MaxTurns
    /\ \E choice \in Replies, place \in Places : Says(Augment(choice, place))
    /\ cv' = [NoTurn EXCEPT !.step = "agent"]
    /\ UNCHANGED loaded

\* To a request without a template the agent answers with the numbered templates, of
\* which those are seen again whose names it has put in backquotes, and names the employee
\* with the address or without, or it answers anything else.
Asked == messages[Len(messages)]
ListTemplates ==
    /\ cv.step = "agent" /\ Asked.template = "" /\ Asked.email # ""
    /\ \E quoted \in BOOLEAN, email \in {Asked.email, ""} : Says([Message("assistant", email) EXCEPT
           !.shown = [i \in DOMAIN Templates |-> Templates[i].file],
           !.templates = IF quoted THEN [i \in DOMAIN Files("docx") |-> Files("docx")[i].file] ELSE <<>>])
    /\ cv' = NoTurn
    /\ UNCHANGED loaded
AnswerOtherwise ==
    /\ cv.step = "agent" /\ Asked.template = ""
    /\ Says(Message("assistant", ""))
    /\ cv' = NoTurn
    /\ UNCHANGED loaded

\* It calls the tool with the template asked for, none, or one it makes up.
CallTool ==
    /\ cv.step = "agent" /\ Asked.template # ""
    /\ \E template \in {Asked.template, ""} \union Strangers, anonymize \in BOOLEAN :
           cv' = [NoTurn EXCEPT !.step = "read", !.email = Asked.email, !.template = template, !.anonymize = anonymize]
    /\ UNCHANGED <<loaded, cosmosUp, messages>>

Refuse == cv' = NoTurn /\ Says(Message("assistant", ""))

-----------------------------------------------------------------------------
(* generate_employee_cv.                                                   *)

\* The pipeline loads another generation: the same address may be another person's.
LoadPeople ==
    /\ \E g \in DOMAIN Graphs \ {loaded} : loaded' = g
    /\ cv' = [cv EXCEPT !.reloaded = cv.step # "idle"]
    /\ UNCHANGED <<cosmosUp, messages>>

\* The rows of the next section for an email.
Section == Sections[Len(cv.got) + 1]
RowsOf(email, section) == IF email \in DOMAIN Graphs[loaded] THEN Graphs[loaded][email][section] ELSE <<>>
NoEmployee ==
    /\ cv.step = "read" /\ Section = "profile" /\ RowsOf(cv.email, Section) = <<>>
    /\ Refuse /\ UNCHANGED loaded
ReadSection ==
    /\ cv.step = "read"
    /\ Section = "profile" => RowsOf(cv.email, Section) # <<>>
    /\ cv' = [cv EXCEPT !.got = Append(@, RowsOf(cv.email, Section)),
                        !.step = IF Section = "loc" THEN "template" ELSE "read"]
    /\ UNCHANGED <<loaded, cosmosUp, messages>>
ReadFails == cv.step = "read" /\ Refuse /\ UNCHANGED loaded

\* An unknown template and a PDF are errors.
RefuseTemplate ==
    /\ cv.step = "template" /\ cv.template # ""
    /\ \A t \in Named(cv.template) : t.format # "docx"
    /\ Refuse /\ UNCHANGED loaded

\* The rows of a section.
Got(section) == cv.got[CHOOSE i \in DOMAIN Sections : Sections[i] = section]
Profile == Got("profile")[1]

\* The skills by level, those without a level last (the mutant forgets them).
Level(s) == IF s.level = "" THEN "Other" ELSE s.level
KnownLevels == <<"Expert", "Guru", "Advanced", "Intermediate", "Basic">>
SkillLevels == <<"Expert", "Guru", "Advanced", "Intermediate", "Basic", "Other">>
RankOfLevel(level) == CHOOSE k \in DOMAIN SkillLevels : SkillLevels[k] = level
SkillGroups(skills) ==
    LET listed == {i \in DOMAIN skills : Level(skills[i]) \in Range(SkillLevels)}
    IN  InOrder(skills, listed, [i \in listed |-> RankOfLevel(Level(skills[i]))])

\* Current first, then the oldest; 0 is a missing date.
SortKey(e) == IF e.current THEN e.start ELSE 10000 + e.start
CurrentFirst(exp) == InOrder(exp, DOMAIN exp, [i \in DOMAIN exp |-> SortKey(exp[i])])

\* An entry of the experience (the mutant keeps the client).
WithClient(e, anonymize) == e
JobEntry(e, anonymize) == IF anonymize THEN [e EXCEPT !.client = "Confidential Client"] ELSE e
Jobs(exp, anonymize) == [i \in DOMAIN exp |-> JobEntry(CurrentFirst(exp)[i], anonymize)]
ShownName == IF cv.anonymize THEN "Candidate Profile" ELSE Profile.name
Contact ==
    LET known == <<Profile.email, Profile.phone>> \o (IF Got("loc") = <<>> THEN <<>> ELSE <<Got("loc")[1]>>)
    IN  IF cv.anonymize THEN <<>> ELSE Selected(known, {i \in DOMAIN known : known[i] # ""})

\* _build_docx, with the skills by level.
DefaultDocument ==
    [name |-> ShownName, contact |-> Contact, skills |-> SkillGroups(Got("skills")), certs |-> Got("certs"),
     edu |-> Got("edu"), langs |-> Got("langs"), exp |-> Jobs(Got("exp"), cv.anonymize)]

\* _build_docx_from_template: the sidebar is a text box of the template and its copy; a
\* template without one has no sidebar.
Sidebar(rows) == IF \E t \in Named(cv.template) : t.boxes = 0 THEN <<>> ELSE rows
TemplateDocument ==
    [name |-> ShownName, contact |-> <<>>, skills |-> Sidebar(Got("skills")), certs |-> Sidebar(Got("certs")),
     edu |-> Sidebar(Got("edu")), langs |-> Sidebar(Got("langs")), exp |-> Jobs(Got("exp"), cv.anonymize)]

\* The file is CV_<name>_<twelve hexadecimal digits>.docx, here only the name.
BuildCv ==
    /\ cv.step = "template"
    /\ cv.template # "" => \E t \in Named(cv.template) : t.format = "docx"
    /\ cv' = [cv EXCEPT !.step = "built", !.file = ShownName,
                        !.doc = IF cv.template = "" THEN DefaultDocument ELSE TemplateDocument]
    /\ Says(Message("assistant", ""))
    /\ UNCHANGED loaded

\* Spaces became _, and download_cv takes letters, digits and _.
FileChars(name) == NameChars[name] \ {"space"}
Accepted(name) == FileChars(name) \subseteq {"word"}
DownloadCv ==
    /\ cv.step = "built"
    /\ cv' = [cv EXCEPT !.step = IF Accepted(cv.file) THEN "downloaded" ELSE "invalid filename"]
    /\ UNCHANGED <<loaded, cosmosUp, messages>>

EndTurn ==
    /\ cv.step \in {"built", "downloaded", "invalid filename"}
    /\ cv' = NoTurn
    /\ UNCHANGED <<loaded, cosmosUp, messages>>

WriteNext ==
    \/ BreakerOpens \/ AskForCv \/ Reply \/ ListTemplates \/ AnswerOtherwise \/ CallTool \/ LoadPeople
    \/ NoEmployee \/ ReadSection \/ ReadFails \/ RefuseTemplate \/ BuildCv \/ DownloadCv \/ EndTurn

WriteSpec == WriteInit /\ [][WriteNext]_writing

-----------------------------------------------------------------------------
(* Properties.                                                             *)

\* Whether a message, the i-th, asks for what the list j shows: its email, or one of the user
\* since when the list has none, and for a number the file at it, unless a PDF is listed up
\* to there.
ChosenFrom(i, j) ==
    LET m == messages[i]
        list == messages[j]
    IN  /\ \/ m.email = list.email
           \/ ~HasEmail(list) /\ \E k \in (j + 1)..(i - 1) : messages[k].role = "user" /\ messages[k].email = m.email
        /\ m.template \in Range(list.templates)
        /\ m.choice \in DOMAIN Ordinal /\ Ordinal[m.choice] <= Len(list.shown) =>
               \/ m.template = list.shown[Ordinal[m.choice]]
               \/ \E n \in 1..Ordinal[m.choice] : list.shown[n] \in {t.file : t \in Range(Files("pdf"))}

\* "Look for a recent assistant message with template list" (api.py:223): a reply becomes a
\* request for what one list of the conversation shows, and that is the newest unless Cosmos
\* gives the oldest messages of a long conversation, or an earlier request to it raised and
\* left a message out of the store that is asked now.
ChosenAsShownUnless ==
    \A i \in DOMAIN messages : messages[i].choice # "" =>
        LET lists == {j \in 1..(i - 1) : messages[j].shown # <<>>}
        IN  /\ \E j \in lists : ChosenFrom(i, j)
            /\ \/ ChosenFrom(i, Max(lists))
               \/ messages[i].from = "cosmos" /\ i - 1 > HistoryLimit
               \/ \E j \in 1..(i - 1) : messages[i].from \notin messages[j].lies

Built == cv.step \in {"built", "downloaded", "invalid filename"}
SameEntries(xs, ys) == Len(xs) = Len(ys) /\ Range(xs) = Range(ys)

\* The seven statements of a CV give the whole of one employee, and either document shows
\* all of it and nothing else, unless the graph was loaded meanwhile; the sidebar is lost
\* with a template that has no text box for it.
CvIsOfEmployeeUnless ==
    Built /\ ~cv.reloaded =>
        LET e == Graphs[loaded][cv.email]
        IN  /\ cv.doc.name \in {e.profile[1].name, "Candidate Profile"}
            /\ SameEntries(cv.doc.exp, [i \in DOMAIN e.exp |-> JobEntry(e.exp[i], cv.anonymize)])
            /\ \/ \E t \in Named(cv.template) : t.boxes = 0
               \/ /\ SameEntries(cv.doc.skills, e.skills) /\ SameEntries(cv.doc.certs, e.certs)
                  /\ SameEntries(cv.doc.edu, e.edu) /\ SameEntries(cv.doc.langs, e.langs)

\* "If true, remove personal identifiers from CV": with either document neither the file,
\* the contact nor a client is the employee's, and the file can be downloaded, as every
\* file can be but those of names with an apostrophe, a hyphen or a point.
Staff == UNION {{Graphs[g][e] : e \in DOMAIN Graphs[g]} : g \in DOMAIN Graphs}
AnonymousCvUnless ==
    Built =>
        /\ cv.step = "invalid filename" => ~cv.anonymize /\ "mark" \in NameChars[Profile.name]
        /\ cv.anonymize => \A e \in Staff :
               /\ e.profile[1].name \notin {cv.file, cv.doc.name} /\ cv.doc.contact = <<>>
               /\ \A x \in Range(e.exp), y \in Range(cv.doc.exp) : x.client # y.client

\* "Sort: current first, then by start_date desc" (cv_generator.py:400).
NewestExperienceFirst ==
    Built => \A i, j \in DOMAIN cv.doc.exp : i < j =>
        LET x == cv.doc.exp[i]
            y == cv.doc.exp[j]
        IN  (y.current => x.current) /\ (x.current = y.current => x.start >= y.start)

=============================================================================
