---------------------------- MODULE CypherRewriter ----------------------------
(***************************************************************************)
(* What the passes of CypherPasses have to preserve: the meaning of a query,   *)
(* defined apart from them by the openCypher reading of its clauses.          *)
(***************************************************************************)
EXTENDS CypherPasses

CONSTANTS
    Employees,  \* the employees of the graph, positive numbers
    Edges       \* [relation -> [Employees -> set of positive numbers]]

Null == 0

-----------------------------------------------------------------------------
(* The syntax of a query.                                                  *)

\* A string ends at a quote that is not escaped; a backslash escapes one character.
ReadStep(mode, t) ==
    CASE mode = "out" /\ t.kw = "quote" -> "single"
      [] mode = "out" /\ t.kw = "dquote" -> "double"
      [] mode = "single" /\ t.kw = "quote" -> "out"
      [] mode = "double" /\ t.kw = "dquote" -> "out"
      [] mode = "single" /\ t.kw = "backslash" -> "singleEsc"
      [] mode = "double" /\ t.kw = "backslash" -> "doubleEsc"
      [] mode = "singleEsc" -> "single"
      [] mode = "doubleEsc" -> "double"
      [] OTHER -> mode

\* The mode before every token of x, and after the last.
ModesOf(x) ==
    FoldLeftDomain(LAMBDA modes, i : Append(modes, ReadStep(Last(modes), x[i])), <<"out">>, x)

\* The end of a clause that _starts_keyword takes for a head: t.ends is the clause.
IsWord(t) == "ends" \in DOMAIN t

\* The characters of the strings, and the clauses outside of them.
Strings(x) == LET modes == ModesOf(x)
              IN  FlattenSeq([i \in DOMAIN x |-> IF modes[i] = "out" THEN <<>> ELSE <<x[i].kw>>])
Clauses(x) == LET modes == ModesOf(x)
              IN  FlattenSeq([i \in DOMAIN x |-> IF modes[i] = "out" /\ IsHead(x[i]) /\ ~IsWord(x[i])
                                                 THEN <<x[i]>> ELSE <<>>])

\* The query the agent asks for, as far as AGE can be asked: it cannot be told where
\* nulls come, and takes a class for an escape it does not know.
Intended(x) ==
    LET modes == ModesOf(x)
        Pair(i) == /\ i \in DOMAIN x /\ i + 1 \in DOMAIN x
                   /\ modes[i] = "single" /\ x[i].kw = "backslash" /\ x[i + 1].kw = "dot"
    IN  FlattenSeq([i \in DOMAIN x |-> IF Pair(i) THEN <<[kw |-> "class"]>>
                                       ELSE IF Pair(i - 1) \/ (modes[i] = "out" /\ x[i].kw = "nulls") THEN <<>>
                                       ELSE <<x[i]>>])

\* AGE rejects NULLS FIRST and NULLS LAST, an escape it does not know and an end
\* without its clause.
Readable(x) ==
    LET modes == ModesOf(x)
    IN  /\ Last(modes) = "out"
        /\ \A i \in DOMAIN x : /\ modes[i] = "out" => x[i].kw # "nulls"
                               /\ modes[i] \in {"singleEsc", "doubleEsc"} => x[i].kw \in {"quote", "dquote", "backslash"}
                               /\ modes[i] = "out" /\ IsWord(x[i]) =>
                                      \E j \in 1..(i - 1) : /\ x[j].kw = x[i].ends
                                                            /\ \A k \in (j + 1)..(i - 1) : ~IsHead(x[k])

Names(c) == {it.as : it \in Range(c.items)}
Projections == {"WITH", "RETURN"}
Unfolding == {"UNWIND", "CALL"}

\* The names that clause c reads, the clauses it may follow, and the names after it.
Reads(c) ==
    CASE c.kw \in Projections -> {it.of : it \in Range(c.items)}
      [] c.kw = "WHERE" -> {c.on}
      [] c.kw = "ORDER BY" -> {c.key}
      [] OTHER -> {}
Follows(c) ==
    CASE c.kw = "WHERE" -> {"MATCH", "OPTIONAL MATCH", "WITH"}
      [] c.kw = "ORDER BY" -> Projections
      [] c.kw = "SKIP" -> Projections \union {"ORDER BY"}
      [] c.kw = "LIMIT" -> Projections \union {"ORDER BY", "SKIP"}
      [] OTHER -> Keywords
NamesAfter(c, names) ==
    CASE c.kw \in {"MATCH", "OPTIONAL MATCH"} -> names \union {c.from, c.to}
      [] c.kw \in Unfolding -> names \union {c.as}
      [] c.kw \in Projections -> Names(c)
      [] OTHER -> names

\* Whether the clauses are a query: every clause in a place it may have, every name
\* in scope.  An ORDER BY also sees the names its projection was made from, unless
\* that aggregates or drops duplicates.
WellFormed(cs) ==
    LET After == FoldLeftDomain(LAMBDA scopes, i : Append(scopes, NamesAfter(cs[i], Last(scopes))), <<{}>>, cs)
        Plain(c) == \A it \in Range(c.items) : it.kind \in {"carry", "alias"}
        Seen(i) == After[i] \union (IF cs[i].kw = "ORDER BY" /\ i > 1 /\ cs[i - 1].kw \in Projections /\ Plain(cs[i - 1])
                                    THEN After[i - 1] ELSE {})
    IN  /\ \A i \in DOMAIN cs : Reads(cs[i]) \subseteq Seen(i)
        /\ \A i \in 2..Len(cs) : cs[i - 1].kw \in Follows(cs[i])
        /\ \A i \in DOMAIN cs : cs[i].kw \in Projections => \A j, k \in DOMAIN cs[i].items :
               j # k => cs[i].items[j].as # cs[i].items[k].as
        /\ cs # <<>> /\ cs[1].kw = "MATCH"
        /\ \E i \in DOMAIN cs : /\ cs[i].kw = "RETURN"
                                /\ \A j \in (i + 1)..Len(cs) : cs[j].kw \in {"ORDER BY", "SKIP", "LIMIT"}

Executable(x) == Readable(x) /\ WellFormed(Clauses(x))

\* The rows after a MATCH of c; the WHERE behind an OPTIONAL MATCH is part of it.
Extensions(row, scope, c) ==
    {(c.to :> t) @@ (c.from :> e) @@ row : <<e, t>> \in
        {p \in (IF c.from \in scope THEN {row[c.from]} ELSE Employees) \X UNION Range(Edges[c.rel]) :
            p[2] \in Edges[c.rel][p[1]]}}
Matched(rows, scope, c) == FlattenSeq([i \in DOMAIN rows |-> SetToSeq(Extensions(rows[i], scope, c))])
OptionallyMatched(rows, scope, c, Keep(_)) ==
    FlattenSeq([i \in DOMAIN rows |->
        LET exts == {r \in Extensions(rows[i], scope, c) : Keep(r)}
        IN  IF exts = {} THEN <<(c.to :> Null) @@ rows[i]>> ELSE SetToSeq(exts)])

\* The rows of a projection; one with an aggregate counts per group of the others.
Projected(rows, c) ==
    LET its == Range(c.items)
        Keys == {it \in its : it.kind # "agg"}
        KeyOf(row) == [a \in {it.as : it \in Keys} |-> row[(CHOOSE it \in Keys : it.as = a).of]]
        Groups == {KeyOf(rows[i]) : i \in DOMAIN rows}
        Counted(g) == [a \in {it.as : it \in its \ Keys} |->
            LET of == (CHOOSE it \in its : it.as = a).of
            IN  Cardinality({rows[i][of] : i \in {j \in DOMAIN rows : KeyOf(rows[j]) = g}} \ {Null})]
    IN  IF \A it \in its : it.kind \in {"carry", "alias"}
        THEN [i \in DOMAIN rows |-> KeyOf(rows[i]) @@ rows[i]]
        ELSE SetToSeq({Counted(g) @@ g : g \in Groups})

Sorted(rows, key) == SortSeq(rows, LAMBDA r, s : r[key] > s[key])

RowsAfter(cs, i, rows, scope) ==
    LET c == cs[i]
        Holds(r, w) == r[w.on] >= w.min
        Keep(r) == i < Len(cs) /\ cs[i + 1].kw = "WHERE" => Holds(r, cs[i + 1])
    IN  CASE c.kw = "MATCH" -> Matched(rows, scope, c)
          [] c.kw = "OPTIONAL MATCH" -> OptionallyMatched(rows, scope, c, Keep)
          [] c.kw = "WHERE" -> IF cs[i - 1].kw = "OPTIONAL MATCH" THEN rows ELSE SelectSeq(rows, LAMBDA r : Holds(r, c))
          [] c.kw \in Projections -> Projected(rows, c)
          [] c.kw \in Unfolding -> FlattenSeq([r \in DOMAIN rows |-> [v \in 1..c.n |-> (c.as :> v) @@ rows[r]]])
          [] c.kw = "ORDER BY" -> Sorted(rows, c.key)
          [] c.kw = "SKIP" -> SubSeq(rows, c.n + 1, Len(rows))
          [] c.kw = "LIMIT" -> SubSeq(rows, 1, IF c.n < Len(rows) THEN c.n ELSE Len(rows))

Rows(cs) ==
    FoldLeftDomain(LAMBDA acc, i : [rows |-> RowsAfter(cs, i, acc.rows, acc.scope),
                                    scope |-> NamesAfter(cs[i], acc.scope)],
                   [rows |-> << << >> >>, scope |-> {}], cs).rows

\* Whether the answer of the clauses new is one the database may give to those of
\* old: where rows tie, or no ORDER BY says which come first, any of them may.
Answers(old, new) ==
    LET tail == SelectSeq(old, LAMBDA c : c.kw = "RETURN")[1]
        Cut == SelectInSeq(old, LAMBDA c : c = tail)
        orders == {i \in (Cut + 1)..Len(old) : old[i].kw = "ORDER BY"}
        shown(r) == [a \in Names(tail) |-> r[a]]
        want == Rows(old)
        got == Rows(new)
        all == {shown(r) : r \in Range(Rows(SubSeq(old, 1, Cut)))}
    IN  /\ Len(got) = Len(want)
        /\ \A i \in DOMAIN got : shown(got[i]) \in all
        /\ \A o \in orders, i \in DOMAIN got : got[i][old[o].key] = want[i][old[o].key]

-----------------------------------------------------------------------------
(* Properties.                                                             *)

\* A string with an escaped backslash before its closing quote, or before a
\* letter that only looks like the end of an escape.
HasEscapedBackslash(x) ==
    LET modes == ModesOf(x)
    IN  \E i \in DOMAIN x : /\ modes[i] \in {"singleEsc", "doubleEsc"} /\ x[i].kw = "backslash"
                           /\ i < Len(x) /\ x[i + 1].kw \in {"quote", "dquote", "dot"}

\* A RETURN before an ORDER BY whose aliases are not just names in scope.
RenamesInReturn(cs) ==
    \E i \in 1..(Len(cs) - 1) :
        /\ cs[i].kw = "RETURN" /\ cs[i + 1].kw = "ORDER BY" /\ ReturnAliases(cs[i]) # <<>>
        /\ \/ \E it \in Range(cs[i].items) : it.kind # "alias" \/ it.of # it.as
           \/ cs[i + 1].key \notin Names(cs[i])

\* A WITH before an ORDER BY that drops names a later clause may read.
HidesInWith(cs) ==
    \E i \in 1..(Len(cs) - 1) :
        /\ cs[i].kw = "WITH" /\ cs[i + 1].kw = "ORDER BY" /\ Defined(cs[i]) # {}
        /\ Defined(cs[i]) # Names(cs[i]) \/ cs[i + 1].key \notin Defined(cs[i])

\* The LIMIT is pushed over clauses that change how many rows there are, or their order.
PushesOverChange(x) ==
    LET cs == Clauses(x)
        T == DOMAIN cs
        o == FirstOptional(cs, T)
        w == AggregationBefore(cs, T, o)
        keys == UNION {OrderNames(cs[i]) : i \in FinalOrder(cs, T)} \intersect Defined(cs[w])
        Changes(i) ==
            \/ cs[i].kw \in {"MATCH", "SKIP"} \union Unfolding
            \/ cs[i].kw = "WHERE" /\ cs[i - 1].kw # "OPTIONAL MATCH"
            \/ cs[i].kw \in {"ORDER BY", "LIMIT"} /\ i < Len(cs) - 1
            \/ /\ cs[i].kw \in Projections
               /\ \/ HasAgg(cs[i]) /\ cs[o].from \notin Carried(cs[i])
                  \/ \E it \in Range(cs[i].items) : (it.as \in keys /\ it.of # it.as) \/ it.kind = "distinct"
    IN  Pushes(cs, T) /\ \E i \in (w + 1)..Len(cs) : Changes(i)

\* Two blanks in a string of a query with NULLS FIRST or NULLS LAST.
HasBlanksByNulls(x) ==
    LET modes == ModesOf(x)
    IN  /\ \E i \in DOMAIN x : modes[i] = "out" /\ x[i].kw = "nulls"
        /\ \E i \in DOMAIN x : modes[i] # "out" /\ x[i].kw = "blanks"

\* An ORDER BY that ends in what is spelled like a head, so that none is seen before the
\* LIMIT, or a query that ends in what is spelled like a LIMIT.
EndsLikeHead(x) ==
    LET modes == ModesOf(x)
    IN  \E i \in DOMAIN x : /\ modes[i] = "out" /\ IsWord(x[i])
                           /\ \/ x[i].ends = "ORDER BY"
                              \/ x[i].kw = "LIMIT" /\ \A k \in (i + 1)..Len(x) : ~IsHead(x[k])

\* The answer is the one the agent's query asks for ("Detection failures degrade to
\* current behaviour (slow but correct)"): a query that AGE could execute but for what
\* pass 1 is there to mend is executable, with its strings and with rows that are an
\* answer of the original, unless it has one of the six shapes above.  For the third
\* and the second of them the tests test_no_deref_for_non_agg_with and
\* test_cleanup_only_when_no_optional_match expect that pass 3 leaves the query alone.
MeaningKeptUnless ==
    pass = "done" /\ sql.calls = 1 /\ ~sql.raises /\ Executable(Intended(sql.text)) =>
        \/ HasEscapedBackslash(sql.text)
        \/ RenamesInReturn(Clauses(sql.text))
        \/ HidesInWith(Clauses(sql.text))
        \/ PushesOverChange(sql.text)
        \/ HasBlanksByNulls(sql.text)
        \/ EndsLikeHead(sql.text)
        \/ /\ Executable(text)
           /\ Strings(text) = Strings(Intended(sql.text))
           /\ Answers(Clauses(sql.text), Clauses(text))

=============================================================================
