----------------------------- MODULE CypherPasses -----------------------------
(***************************************************************************)
(* optimize_sql of mcp_server/cypher_rewriter.py: the three passes that     *)
(* rewrite the Cypher of an agent before the query tool of graph_tools.py   *)
(* executes it.  The text of a query is a sequence of tokens: a clause head  *)
(* (keyword and projection parsed) or a character the scanners tell apart.   *)
(* A place is a position in that text; a clause goes from its head to the    *)
(* head of the next one.  The end of a clause that is only spelled like a     *)
(* head (STARTS WITH x, skill_match, e.limit) is a token of its own: to the   *)
(* passes a head, to Clauses of CypherRewriter none.                          *)
(***************************************************************************)
EXTENDS Integers, SequencesExt, Selections

CONSTANT Inputs      \* the calls: [text, calls, raises]; raises: the body counts a CASE, or its last word
                     \* is spelled like the end of a head: _starts_keyword reads past the end

ASSUME TextsAssumption == \A s \in Inputs : s.text \in Seq(Range(s.text))

VARIABLES
    sql,        \* the call as the agent made it
    text,       \* the Cypher body, rewritten pass by pass
    pass        \* the next pass: "cleanup", "push", "alias" or "done"

rewriting == <<sql, text, pass>>

Keywords == {"MATCH", "OPTIONAL MATCH", "WHERE", "WITH", "RETURN", "ORDER BY", "SKIP", "LIMIT", "UNWIND", "CALL"}
IsHead(t) == t.kw \in Keywords

-----------------------------------------------------------------------------
(* The scanners.                                                           *)

TopLevel == [mode |-> "out", parens |-> 0, squares |-> 0]

\* One character: a quote opens a string or closes it, unless the character before
\* it is a backslash; outside of strings parentheses and brackets are counted.
ScanStep(s, before, t) ==
    CASE s.mode = "out" /\ t.kw = "quote" -> [s EXCEPT !.mode = "single"]
      [] s.mode = "out" /\ t.kw = "dquote" -> [s EXCEPT !.mode = "double"]
      [] s.mode = "out" /\ t.kw = "open" -> [s EXCEPT !.parens = @ + 1]
      [] s.mode = "out" /\ t.kw = "close" -> [s EXCEPT !.parens = @ - 1]
      [] s.mode = "out" /\ t.kw = "openSquare" -> [s EXCEPT !.squares = @ + 1]
      [] s.mode = "out" /\ t.kw = "closeSquare" -> [s EXCEPT !.squares = @ - 1]
      [] s.mode = "single" /\ t.kw = "quote" /\ before.kw # "backslash" -> [s EXCEPT !.mode = "out"]
      [] s.mode = "double" /\ t.kw = "dquote" /\ before.kw # "backslash" -> [s EXCEPT !.mode = "out"]
      [] OTHER -> s

\* Where the scanner is after each of the first i characters of x.
Scanned(x) ==
    LET state[i \in 0..Len(x)] ==
            IF i = 0 THEN TopLevel ELSE ScanStep(state[i - 1], x[IF i = 1 THEN 1 ELSE i - 1], x[i])
    IN  state

\* Every string, parenthesis and bracket is closed.
Balanced(x) == Scanned(x)[Len(x)] = TopLevel

\* _split_clauses: the places of the clause keywords at the top level.
ClauseStarts(x) ==
    LET state == Scanned(x)
    IN  {i \in DOMAIN x : IsHead(x[i]) /\ state[i - 1] = TopLevel}

\* The clause at j follows the one at i, of those that start at T.
Adjacent(T, i, j) == i \in T /\ j \in T /\ i < j /\ \A k \in T : k <= i \/ j <= k

\* _strip_outside_strings with _NULLS_RE.
StripNulls(x) ==
    LET state == Scanned(x)
    IN  FlattenSeq([i \in DOMAIN x |-> IF x[i].kw = "nulls" /\ state[i - 1].mode = "out" THEN <<>> ELSE <<x[i]>>])

\* _fix_invalid_escapes: inside a single-quoted string a backslash and a letter of
\* _INVALID_ESCAPE_MAP ("dot" for all of them) become a character class.
FixEscapes(x) ==
    LET state == Scanned(x)
        Pair(i) == /\ i \in DOMAIN x /\ i + 1 \in DOMAIN x
                   /\ state[i - 1].mode = "single" /\ x[i].kw = "backslash" /\ x[i + 1].kw = "dot"
    IN  FlattenSeq([i \in DOMAIN x |-> IF Pair(i) THEN <<[kw |-> "class"]>>
                                       ELSE IF Pair(i - 1) THEN <<>> ELSE <<x[i]>>])

\* Runs of blanks become one, in strings too.
Collapsed(x) == [i \in DOMAIN x |-> IF x[i].kw = "blanks" THEN [kw |-> "blank"] ELSE x[i]]

\* _cleanup_age_syntax: blanks are collapsed where a NULLS was dropped.
Cleaned(x) == FixEscapes(IF StripNulls(x) = x THEN x ELSE Collapsed(StripNulls(x)))

-----------------------------------------------------------------------------
(* The clauses as the passes parse them.  An item of a projection is        *)
(* [kind, of, as]: "carry" (e), "alias" (e.p AS r), "agg" (count(s) AS a) or *)
(* "distinct" (DISTINCT e).                                                 *)

\* _with_aliases_and_carries.  DISTINCT e is no identifier: it is neither.
Defined(c) == {it.as : it \in {i \in Range(c.items) : i.kind # "distinct"}}
Carried(c) == {it.as : it \in {i \in Range(c.items) : i.kind = "carry"}}
HasAgg(c) == \E it \in Range(c.items) : it.kind = "agg"

\* The aliases that _fix_agg_order_alias reads in a RETURN: only "... AS name".
ReturnAliases(c) ==
    LET its == Selected(c.items, {i \in DOMAIN c.items : c.items[i].kind \in {"alias", "agg"}})
    IN  [i \in DOMAIN its |-> its[i].as]

\* _final_order_aliases: every identifier of the clause, properties included.
OrderNames(c) == {c.key} \union c.props

-----------------------------------------------------------------------------
(* Pass 2.  T is the set of the places where the clauses of x start; a place   *)
(* that is 0 is none.                                                        *)

FinalClause(T) == IF T = {} THEN 0 ELSE Max(T)

\* Rule 2: the ORDER BY right before the final LIMIT, if there is one.
FinalOrder(x, T) == {i \in T : Adjacent(T, i, FinalClause(T)) /\ x[i].kw = "ORDER BY"}

\* Rules 3 and 4: the first OPTIONAL MATCH and the WITH whose aggregation feeds it.
FirstOptional(x, T) ==
    LET opts == {i \in T : x[i].kw = "OPTIONAL MATCH"}
    IN  IF opts = {} THEN 0 ELSE Min(opts)
AggregationBefore(x, T, o) ==
    LET aggs == {i \in T : i < o /\ x[i].kw = "WITH" /\ HasAgg(x[i])}
    IN  IF aggs = {} THEN 0 ELSE Max(aggs)

\* Rule 5 (with its mutant): nothing is ordered or limited between the aggregation and the enrichment.
LimitedAtOnce(x, T, w, o) == \E c \in T : Adjacent(T, w, c) /\ x[c].kw \in {"ORDER BY", "LIMIT"}
AlreadyLimited(x, T, w, o) == \E c \in T : w < c /\ c < o /\ x[c].kw \in {"ORDER BY", "LIMIT"}

\* Rule 6 (with its mutant): every identifier of the final ORDER BY is one the aggregation defines.
OrderUnchecked(order, agg) == OrderNames(order) # {}
OrderIsDefined(order, agg) == OrderNames(order) \subseteq Defined(agg)

\* Rules 2 to 6 of _rewrite_cypher_body.
Pushes(x, T) ==
    LET o == FirstOptional(x, T)
        w == AggregationBefore(x, T, o)
    IN  /\ T # {} /\ x[FinalClause(T)].kw = "LIMIT"
        /\ o # 0 /\ w # 0
        /\ x[o].from \in Carried(x[w])
        /\ ~AlreadyLimited(x, T, w, o)
        /\ \A i \in FinalOrder(x, T) : OrderIsDefined(x[i], x[w])

\* The final ORDER BY and LIMIT again, before the first OPTIONAL MATCH.
PushLimit(x) ==
    LET T == ClauseStarts(x)
        o == FirstOptional(x, T)
        from == Min(FinalOrder(x, T) \union {FinalClause(T)})
    IN  IF Pushes(x, T) THEN SubSeq(x, 1, o - 1) \o SubSeq(x, from, Len(x)) \o SubSeq(x, o, Len(x)) ELSE x

-----------------------------------------------------------------------------
(* Pass 3, _fix_agg_order_alias.                                             *)

Through(names) == [kw |-> "WITH", items |-> [i \in DOMAIN names |-> [kind |-> "carry", of |-> names[i], as |-> names[i]]]]

\* The names that a WITH in front of place i passes through: in front of an ORDER BY
\* those its WITH defines, in front of a RETURN that is ordered its aliases.
NamesBefore(x, T, i) ==
    CASE x[i].kw = "ORDER BY" /\ \E p \in T : Adjacent(T, p, i) /\ x[p].kw = "WITH" ->
             SetToSeq(UNION {Defined(x[p]) : p \in {q \in T : Adjacent(T, q, i)}})
      [] x[i].kw = "RETURN" /\ \E q \in T : Adjacent(T, i, q) /\ x[q].kw = "ORDER BY" -> ReturnAliases(x[i])
      [] OTHER -> <<>>

FixAliases(x) ==
    LET T == ClauseStarts(x)
    IN  FlattenSeq([i \in DOMAIN x |-> IF i \in T /\ NamesBefore(x, T, i) # <<>>
                                       THEN <<Through(NamesBefore(x, T, i)), x[i]>> ELSE <<x[i]>>])

-----------------------------------------------------------------------------
(* optimize_sql.                                                           *)

OptimizeInit ==
    /\ sql \in Inputs
    /\ text = sql.text
    /\ pass = "cleanup"

\* Rule 1, and the exceptions that the handler at the end of optimize_sql catches: the
\* call goes out as it came.
LeaveAlone ==
    /\ pass = "cleanup"
    /\ sql.calls # 1 \/ sql.raises
    /\ pass' = "done"
    /\ UNCHANGED <<sql, text>>

\* Pass 1.
Cleanup ==
    /\ pass = "cleanup"
    /\ sql.calls = 1 /\ ~sql.raises
    /\ text' = Cleaned(text)
    /\ pass' = "push"
    /\ UNCHANGED sql

Push ==
    /\ pass = "push"
    /\ text' = PushLimit(text)
    /\ pass' = "alias"
    /\ UNCHANGED sql

Alias ==
    /\ pass = "alias"
    /\ text' = FixAliases(text)
    /\ pass' = "done"
    /\ UNCHANGED sql

OptimizeNext == LeaveAlone \/ Cleanup \/ Push \/ Alias

OptimizeSpec == OptimizeInit /\ [][OptimizeNext]_rewriting

-----------------------------------------------------------------------------
(* Properties.                                                             *)

\* The push-down finds nothing more to push in a query that went through the three
\* passes, whatever they inserted (rule 5; test_skips_already_optimised_query), unless
\* the strings, parentheses and brackets of the query do not balance: the copy of its
\* end then hides clauses or shows hidden ones.
PushedOnceUnless ==
    pass = "done" /\ sql.calls = 1 /\ ~sql.raises =>
        ~Balanced(Cleaned(sql.text)) \/ PushLimit(text) = text

=============================================================================
