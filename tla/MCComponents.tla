----------------------------- MODULE MCComponents -----------------------------
(***************************************************************************)
(* CypherRewriter on three employees and a family of queries, Workforce on      *)
(* three countries, SigningKeys, EntityResolution, CandidateSearch and           *)
(* CvDocument: a behaviour runs one of the six, the others stand still.          *)
(***************************************************************************)
EXTENDS CypherRewriter, Workforce, SigningKeys, EntityResolution, CandidateSearch, CvDocument

VARIABLE part  \* the one that runs

-----------------------------------------------------------------------------
(* CypherRewriter.                                                         *)

MCEmployees == 1..3
MCEdges == [skill |-> [e \in MCEmployees |-> 1..e],
            cert  |-> [e \in MCEmployees |-> IF e = 3 THEN {} ELSE 1..(3 - e)]]

Item(kind, of, as) == [kind |-> kind, of |-> of, as |-> as]
Carry(name) == Item("carry", name, name)
Chars(kws) == [i \in DOMAIN kws |-> [kw |-> kws[i]]]

First == [kw |-> "MATCH", from |-> "e", rel |-> "skill", to |-> "s"]
Optional == [kw |-> "OPTIONAL MATCH", from |-> "e", rel |-> "cert", to |-> "c"]
Again == [kw |-> "MATCH", from |-> "e", rel |-> "cert", to |-> "d"]
Where(on) == [kw |-> "WHERE", on |-> on, min |-> 2]
With(items) == [kw |-> "WITH", items |-> items]
Return(items) == [kw |-> "RETURN", items |-> items]
OrderBy(key) == [kw |-> "ORDER BY", key |-> key, props |-> {}]
OrderByProp(key) == [kw |-> "ORDER BY", key |-> key, props |-> {"years"}]
Limit(n) == [kw |-> "LIMIT", n |-> n]
Unfold(kw, n) == [kw |-> kw, as |-> "u", n |-> n]
Word(kw, ends, items) == [kw |-> kw, ends |-> ends, items |-> items]
Skip(n) == [kw |-> "SKIP", n |-> n]

Count(of, as) == Item("agg", of, as)
Renamed(of, as) == Item("alias", of, as)

\* One choice for every part of a query.
Filters == {<<>>, <<Where("s")>>}
Groupings == {
    <<With(<<Carry("e"), Count("s", "a")>>)>>,
    <<With(<<Carry("e"), Count("s", "a")>>), OrderBy("a"), Limit(2)>>,
    <<With(<<Carry("e"), Count("s", "a")>>), Where("a")>>,
    <<With(<<Carry("e"), Count("s", "a")>>), Again>>,
    <<With(<<Carry("e"), Count("s", "a")>>), Unfold("CALL", 0)>>,
    <<With(<<Item("distinct", "e", "e"), Renamed("e", "a")>>)>>,
    <<With(<<Item("distinct", "e", "e"), Renamed("e", "a")>>), OrderBy("a")>>,
    <<With(<<Renamed("e", "a"), Count("s", "b")>>)>>,
    <<With(<<Carry("e"), Renamed("s", "a")>>)>>}
Enrichments == {
    <<>>,
    <<Optional>>,
    <<Optional, Where("c")>>,
    <<Optional, Unfold("UNWIND", 2)>>,
    <<Optional, With(<<Carry("e"), Carry("a"), Count("c", "b")>>)>>,
    <<Optional, With(<<Carry("e"), Carry("a"), Count("c", "b")>>), Where("b")>>,
    <<Optional, Where("c"), With(<<Carry("e"), Count("c", "a")>>)>>,
    <<Optional, With(<<Carry("a"), Count("c", "b")>>), OrderBy("b"), Limit(1)>>}
Results == {
    <<Return(<<Carry("e"), Carry("a")>>)>>,
    <<Return(<<Renamed("e", "name"), Carry("a")>>)>>,
    <<Return(<<Renamed("a", "a")>>)>>,
    <<Return(<<Carry("a"), Count("e", "b")>>)>>}
Orders == {<<>>, <<OrderBy("a")>>, <<OrderBy("b")>>, <<OrderByProp("e")>>, <<OrderBy("name")>>}
Cuts == {<<>>, <<Limit(1)>>, <<Limit(2)>>, <<Skip(1), Limit(2)>>}

Call(x) == [text |-> x, calls |-> 1, raises |-> FALSE]
Queries == {<<First>> \o p[1] \o p[2] \o p[3] \o p[4] \o p[5] \o p[6] :
    p \in Filters \X Groupings \X Enrichments \X Results \X Orders \X Cuts}

\* Strings of up to four characters between two quotes, in a query that the scanners can break.
StringChars == {"quote", "dquote", "backslash", "dot", "nulls"}
Bodies == UNION {[1..n -> StringChars] : n \in 0..4} \union [1..2 -> StringChars \union {"blanks"}]
Literals ==
    {<<First, Where("s")>> \o Chars(<<"open", "quote">> \o b \o <<"quote", "close">> \o more)
        \o <<With(<<Carry("e"), Count("s", "a")>>), Optional, Return(<<Carry("e"), Carry("a")>>), OrderBy("a")>>
        \o Chars(tail) \o <<Limit(2)>> :
        b \in Bodies, more \in {<<>>, <<"quote", "nulls", "quote">>}, tail \in {<<>>, <<"nulls">>}}

\* STARTS WITH, names in _match and properties called limit, at the ends of clauses.
Worded ==
    {<<First, Where("s")>> \o w \o <<With(<<Carry("e"), Count("s", "a")>>)>> \o a \o <<Optional, Return(<<Carry("e"), Carry("a")>>)>>
        \o r \o o \o c :
        w \in {<<>>, <<Word("WITH", "WHERE", <<>>)>>, <<Word("WITH", "WHERE", <<Carry("s")>>)>>, <<Word("LIMIT", "WHERE", <<>>)>>},
        a \in {<<>>, <<Word("MATCH", "WITH", <<>>)>>}, r \in {<<>>, <<Word("LIMIT", "RETURN", <<>>)>>},
        o \in {<<>>, <<OrderBy("a")>>, <<OrderBy("a"), Word("MATCH", "ORDER BY", <<>>)>>}, c \in {<<>>, <<Limit(1)>>}}

\* The copy of LIMIT opens what the query closes too early, before its first aggregation shows.
Unbalanced ==
    LET grouped == <<With(<<Carry("e"), Count("s", "a")>>), Optional>>
    IN  <<First>> \o grouped \o Chars(<<"close">>) \o grouped \o <<Limit(1)>> \o Chars(<<"open">>) \o <<Limit(1)>> \o Chars(<<"open">>)

MCInputs ==
    {Call(x) : x \in {q \in Queries : WellFormed(Clauses(q))} \union Literals \union Worded \union {Unbalanced}}
    \union {[Call(<<First, Return(<<Carry("e")>>), OrderBy("e"), Limit(1)>>) EXCEPT !.calls = n, !.raises = c] :
            n \in 0..2, c \in BOOLEAN}

-----------------------------------------------------------------------------
(* Workforce: Kafka is a skill of two domains, as in reference_data.py.     *)

MCCountryCounts == [1..3 -> 1..3]
MCTotals == 3..9
MCJobLevels == {3, 5, 14}
MCDomainSkills == <<"Spring", "Kafka">>
MCSkillNames == <<"Spring", "Kafka", "Spark", "Kafka">>
MCLanguages == {"English", "Hindi", "German"}

-----------------------------------------------------------------------------
(* SigningKeys: valid tokens of every key, and one that fails each check.   *)

Valid(k) == [kid |-> k, readable |-> TRUE, signed |-> TRUE, expired |-> FALSE, audience |-> TRUE, issuer |-> TRUE]
MCTokens == {Valid(k) : k \in 0..MaxTime} \union
            {[Valid(1) EXCEPT !.readable = FALSE], [Valid(1) EXCEPT !.signed = FALSE], [Valid(1) EXCEPT !.expired = TRUE],
             [Valid(1) EXCEPT !.audience = FALSE], [Valid(1) EXCEPT !.issuer = FALSE]}
MCNoToken == [kid |-> 0, readable |-> FALSE, signed |-> FALSE, expired |-> TRUE, audience |-> FALSE, issuer |-> FALSE]

-----------------------------------------------------------------------------
(* EntityResolution: a skill and a domain of one name, and terms that are names,  *)
(* aliases, words of several entities, other forms and parts of words, meanings     *)
(* only, one letter, and empty.                                                    *)

Entity(type, name, code, named, words, stems, aliases) ==
    [type |-> type, name |-> name, code |-> code, named |-> named, words |-> named \union words, stems |-> stems,
     aliases |-> aliases]
MCEntities ==
    {Entity("Skill", "python", "PY", {"python"}, {}, {"python", "py", "py3"}, {"py3"}),
     Entity("SkillDomain", "python", "PYD", {"python"}, {"pyd"}, {"python", "pyd"}, {}),
     Entity("Skill", "database project", "DBP", {"data", "project"}, {}, {"databas", "project", "r"}, {}),
     Entity("Certification", "pmp", "PMP", {}, {"project"}, {"pmp", "project", "manag"}, {})}
MCSources == <<"Certification", "Skill", "SkillDomain">>

Term(t, words, stems, some, hint) == [text |-> t, words |-> words, stems |-> stems, some |-> some, hint |-> hint]
OneWord(t, hint) == Term(t, {t}, {t}, {t}, hint)
Python == OneWord("python", "")
Py3 == OneWord("py3", "Skill")
Lead == Term("project lead", {"project", "lead"}, {"project", "lead"}, {"project", "lead"}, "")
Snake == OneWord("snake", "Role")
Databases == Term("databases", {"databases"}, {"databas"}, {"databas"}, "")
InsideWord == OneWord("data", "Skill")
OneLetter == Term("r", {}, {"r"}, {}, "")
ForBeginners == Term("pyd for beginners", {"pyd", "for", "beginners"}, {"pyd", "beginn"}, {"pyd", "beginn"}, "")
Empty == Term("", {}, {}, {}, "")
MCBatches == {<<Python>>, <<Databases>>, <<ForBeginners>>, <<InsideWord, OneLetter>>, <<Py3, Lead>>, <<Snake, Empty, Lead>>}
MCSimilarity == [t \in {"python", "py3", "project lead", "snake", "databases", "data", "r", "pyd for beginners", ""} |-> [r \in MCEntities |->
    CASE t = "snake" /\ r.code = "PYD" -> 80
      [] t = "pyd for beginners" /\ r.code = "PY" -> 60
      [] t = "project lead" /\ r.code = "DBP" -> 60
      [] t = "project lead" /\ r.code = "PMP" -> 40
      [] OTHER -> 10 + Cardinality(r.stems)]]
MCValidTypes == {"Skill", "SkillDomain", "Certification"}

-----------------------------------------------------------------------------
(* CandidateSearch: two generations with the same ids, and terms of up to four   *)
(* words.                                                                          *)

MCData == <<
    [nearest |-> <<"p1", "p2", "p3", "p4", "p5">>,
     country |-> ("p1" :> "Spain") @@ ("p3" :> "Mexico") @@ ("p4" :> "Spain") @@ ("p5" :> "Mexico"),
     name |-> ("p1" :> <<"jane", "smith">>) @@ ("p2" :> <<"jane", "smithson", "smith">>)
              @@ ("p3" :> <<"bo", "prof">>) @@ ("p4" :> <<"bo", "smith", "jane">>),
     label |-> ("p1" :> "Employee") @@ ("p2" :> "Employee") @@ ("p3" :> "Client") @@ ("p4" :> "Employee")],
    [nearest |-> <<"p3", "p1", "p2">>,
     country |-> [p \in {"p1", "p2", "p3"} |-> "Mexico"],
     name |-> ("p1" :> <<"li", "bo">>) @@ ("p2" :> <<"jane", "bo">>) @@ ("p3" :> <<"bo">>),
     label |-> ("p1" :> "Employee") @@ ("p2" :> "Client") @@ ("p3" :> "Employee")]>>
MCWords == {"jane", "smith", "dr", "prof", "bo", "so"}
MCSearches == UNION {[1..n -> MCWords] : n \in 1..4}
MCLetters == [w \in MCWords \union {"smithson", "li"} |-> IF w \in {"dr", "bo", "li", "so"} THEN 2 ELSE 4]
MCPartOf == [w \in DOMAIN MCLetters |-> IF w \in {"smith", "so"} THEN {"smithson"} ELSE {}]

-----------------------------------------------------------------------------
(* CvDocument: one address that is another person's in the next generation, and   *)
(* templates with and without a text box around a PDF.                             *)

Skill(name, level) == [skill |-> name, level |-> level]
Job(client, start, current) == [client |-> client, start |-> start, current |-> current]
Employee(name, email, tag, skills, exp) ==
    [profile |-> <<[name |-> name, email |-> email, phone |-> ""]>>, skills |-> skills,
     certs |-> <<tag>>, langs |-> <<tag>>, edu |-> <<>>, exp |-> exp, loc |-> <<tag>>]
Ana == Employee("Ana O'Neil", "ana@x", "a", <<Skill("spark", "Guru"), Skill("java", ""), Skill("sql", "Expert")>>,
                <<Job("acme", 2019, FALSE), Job("bolt", 2021, FALSE), Job("core", 2020, TRUE)>>)
Bo == Employee("Bo Li", "bo@x", "b", <<>>, <<Job("bolt", 2018, FALSE)>>)
Other == Employee("Ana Oneil", "ana@x", "c", <<Skill("sap", "Basic")>>, <<>>)
MCGraphs == <<("ana@x" :> Ana) @@ ("bo@x" :> Bo), "ana@x" :> Other>>
Template(file, format, boxes) == [file |-> file, format |-> format, boxes |-> boxes]
MCTemplates == <<Template("01.docx", "docx", 2), Template("a.pdf", "pdf", 0), Template("b.docx", "docx", 0)>>
MCFragments == ("1" :> {"01.docx"}) @@ ("2" :> {}) @@ ("3" :> {}) @@ ("b" :> {"b.docx"})
MCNameChars == [n \in {"Ana O'Neil", "Bo Li", "Ana Oneil", "Candidate Profile"} |->
    {"word", "space"} \union (IF n = "Ana O'Neil" THEN {"mark"} ELSE {})]

-----------------------------------------------------------------------------
\* The callers differ in nothing, nor do the requests.
Symmetry == Permutations(Callers) \union Permutations(Requests)

NoCall == [text |-> <<>>, calls |-> 0, raises |-> FALSE]
OptimizeIdle == sql = NoCall /\ text = <<>> /\ pass = "idle"
GenerateIdle ==
    /\ stage = "idle" /\ counts = <<>> /\ total = 1 /\ quota = <<>>
    /\ benched = <<>> /\ onBench = FALSE /\ hired = 0 /\ picks = 0 /\ drawn = <<>>
KeysIdle ==
    /\ clock = 0 /\ keysAt = [t \in {0} |-> {}] /\ jwks = NoKeys
    /\ request = [r \in Requests |-> [step |-> "off", reply |-> "none", token |-> NoToken]]
ResolveIdle ==
    /\ tableThere = FALSE /\ searchable = {} /\ withVector = {} /\ verified = "None" /\ opened = FALSE /\ free = 0 /\ calls = 0
    /\ call = [c \in Callers |-> Idle]
SearchIdle == tables = 1 /\ graph = 1 /\ moved = FALSE /\ tool = NoTool
WriteIdle == loaded = 1 /\ cosmosUp = TRUE /\ messages = <<>> /\ cv = NoTurn

\* While entity_search is filled, one call at a time goes on, but for those that have missed
\* the table and not noted it, and the embeddings come in two batches.
Filling ==
    /\ withVector' # withVector => Cardinality(withVector') = 1 \/ withVector' = searchable
    /\ \/ withVector' = Entities
       \/ Cardinality({c \in Callers : call'[c].step \notin {"idle", "missed"}}) <= 1

\* A conversation starts with Ana or nobody, only the second turn writes a CV, and the graph is loaded
\* during it.
Beginning ==
    /\ messages' # <<>> => messages'[1].email \in {"ana@x", ""}
    /\ Len(messages) > 3 => cv'.got \in {<<>>, cv.got}
    /\ loaded' # loaded => cv.got # <<>>

Parts == {"rewriter", "workforce", "keys", "entities", "search", "cv"}
Init ==
    /\ part \in Parts
    /\ IF part = "rewriter" THEN OptimizeInit ELSE OptimizeIdle
    /\ IF part = "workforce" THEN GenerateInit ELSE GenerateIdle
    /\ IF part = "keys" THEN KeysInit ELSE KeysIdle
    /\ IF part = "entities" THEN ResolveInit ELSE ResolveIdle
    /\ IF part = "search" THEN SearchInit ELSE SearchIdle
    /\ IF part = "cv" THEN WriteInit ELSE WriteIdle

Next ==
    /\ UNCHANGED part
    /\ \/ part = "rewriter" /\ OptimizeNext /\ UNCHANGED <<workforce, signing, resolving, searching, writing>>
       \/ part = "workforce" /\ GenerateNext /\ UNCHANGED <<rewriting, signing, resolving, searching, writing>>
       \/ part = "keys" /\ KeysNext /\ UNCHANGED <<rewriting, workforce, resolving, searching, writing>>
       \/ part = "entities" /\ ResolveNext /\ Filling /\ UNCHANGED <<rewriting, workforce, signing, searching, writing>>
       \/ part = "search" /\ SearchNext /\ UNCHANGED <<rewriting, workforce, signing, resolving, writing>>
       \/ part = "cv" /\ WriteNext /\ Beginning /\ UNCHANGED <<rewriting, workforce, signing, resolving, searching>>

vars == <<part, rewriting, workforce, signing, resolving, searching, writing>>
Spec == Init /\ [][Next]_vars

\* CvDocument alone.
CvSpec == Init /\ part = "cv" /\ [][Next]_vars

=============================================================================
