----------------------------- MODULE ToolServerProofs -----------------------------
(***************************************************************************)
(* Theorems of the tools of the tool server: EntityResolution, CandidateSearch,   *)
(* CvDocument and CypherPasses, for any callers, entities, queries, people,        *)
(* searches, limits, templates, rows and texts that the assumptions of the four    *)
(* modules allow.                                                                *)
(***************************************************************************)
EXTENDS EntityResolution, CandidateSearch, CvDocument, CypherPasses, FiniteSetTheorems, SequenceTheorems, TLAPS

-----------------------------------------------------------------------------
(* Numbers and sequences.                                                  *)

LEMMA LeastOf == ASSUME NEW T \in SUBSET Nat, T # {} PROVE \E x \in T : \A y \in T : x <= y
<1>1. PICK x \in T : \A y \in T : ~(<<y, x>> \in OpToRel(<, Nat))
  BY NatLessThanWellFounded, WFMin
<1>2. \A y \in T : ~(y < x)
  BY <1>1 DEF OpToRel
<1> QED BY <1>2

LEMMA GreatestOf == ASSUME NEW n \in Nat, NEW T \in SUBSET (1..n), T # {} PROVE Max(T) \in T /\ \A y \in T : y <= Max(T)
<1> DEFINE Down == {k \in 0..n : n - k \in T}
<1>1. Down \in SUBSET Nat /\ Down # {}
  <2>1. PICK t \in T : TRUE
    OBVIOUS
  <2>2. n - t \in Down
    <3>1. n - t \in 0..n /\ n - (n - t) = t
      OBVIOUS
    <3> QED BY <2>1, <3>1
  <2>3. Down \in SUBSET Nat
    OBVIOUS
  <2> HIDE DEF Down
  <2> QED BY <2>2, <2>3
<1>2. PICK x \in Down : \A y \in Down : x <= y
  <2> HIDE DEF Down
  <2> QED BY <1>1, LeastOf
<1>3. \A t \in T : n - t \in Down
  OBVIOUS
<1>4. n - x \in T /\ \A y \in T : y <= n - x
  BY <1>2, <1>3
<1> QED BY <1>4 DEF Max

LEMMA MoreIsEnough ==
    ASSUME NEW a \in Nat, NEW b \in Nat, NEW d \in Nat, d > 0, a <= b, (100 * a) \div d >= 50
    PROVE  (100 * b) \div d >= 50
  OBVIOUS

LEMMA AllIsEnough == ASSUME NEW d \in Nat, d > 0 PROVE (100 * d) \div d >= 50
  OBVIOUS

LEMMA MaxOfTwo == ASSUME NEW a \in Int, NEW b \in Int, Max({a, b}) >= 50 PROVE a >= 50 \/ b >= 50
<1>1. \E x \in {a, b} : \A y \in {a, b} : x >= y
  <2>1. a >= b \/ b >= a
    OBVIOUS
  <2> QED BY <2>1
<1>2. Max({a, b}) \in {a, b}
  BY <1>1 DEF Max
<1> QED BY <1>2

LEMMA Appended ==
    ASSUME NEW S, NEW s \in Seq(S), NEW e \in S, NEW t, t = Append(s, e)
    PROVE  /\ t \in Seq(S) /\ Len(s) \in Nat /\ Len(t) = Len(s) + 1
           /\ DOMAIN s = 1..Len(s) /\ DOMAIN t = 1..(Len(s) + 1)
           /\ t[Len(s) + 1] = e
           /\ \A i \in DOMAIN s : i \in DOMAIN t /\ t[i] = s[i]
           /\ \A i \in DOMAIN t : i \in DOMAIN s \/ i = Len(s) + 1
<1>1. /\ t \in Seq(S) /\ Len(s) \in Nat /\ Len(t) = Len(s) + 1
      /\ DOMAIN s = 1..Len(s) /\ DOMAIN t = 1..Len(t)
      /\ t[Len(s) + 1] = e /\ \A i \in 1..Len(s) : t[i] = s[i]
  BY AppendProperties, LenProperties
<1> QED BY <1>1

-----------------------------------------------------------------------------
(* Members of a sequence in order.                                           *)

\* Places with integers for keys.
Sortable(I, key) == IsFiniteSet(I) /\ I \subseteq Int /\ \A i \in I : key[i] \in Int

LEMMA EarlierIsStrict ==
    ASSUME NEW I, NEW key, Sortable(I, key), NEW i \in I, NEW j \in I, i # j
    PROVE  Cardinality(Earlier(I, key, i)) # Cardinality(Earlier(I, key, j))
<1>1. ASSUME NEW a \in I, NEW b \in I, a \in Earlier(I, key, b)
      PROVE  Cardinality(Earlier(I, key, a)) # Cardinality(Earlier(I, key, b))
  <2> DEFINE A == Earlier(I, key, a)
             B == Earlier(I, key, b)
  <2>1. /\ a \in Int /\ b \in Int /\ key[a] \in Int /\ key[b] \in Int
        /\ \A c \in I : c \in Int /\ key[c] \in Int
    BY DEF Sortable
  <2>2. key[a] < key[b] \/ (key[a] = key[b] /\ a < b)
    BY <1>1 DEF Earlier
  <2>3. ASSUME NEW c \in A PROVE c \in B
    <3>1. c \in I /\ (key[c] < key[a] \/ (key[c] = key[a] /\ c < a))
      BY DEF Earlier
    <3>2. c \in Int /\ key[c] \in Int
      BY <2>1, <3>1
    <3>3. key[c] < key[b] \/ (key[c] = key[b] /\ c < b)
      BY <2>1, <2>2, <3>1, <3>2
    <3> QED BY <3>1, <3>3 DEF Earlier
  <2>4. a \notin A /\ a \in B
    BY <1>1, <2>1 DEF Earlier
  <2>5. IsFiniteSet(B)
    BY FS_Subset DEF Sortable, Earlier
  <2> HIDE DEF A, B
  <2>6. Cardinality(A) = Cardinality(B) => A = B
    BY <2>3, <2>5, FS_Subset
  <2> QED BY <2>4, <2>6 DEF A, B
<1>2. i \in Earlier(I, key, j) \/ j \in Earlier(I, key, i)
  <2>1. i \in Int /\ j \in Int /\ key[i] \in Int /\ key[j] \in Int
    BY DEF Sortable
  <2> QED BY <2>1 DEF Earlier
<1> QED BY <1>1, <1>2

LEMMA EarlierIsFew ==
    ASSUME NEW I, NEW key, Sortable(I, key), NEW i \in I
    PROVE  Cardinality(I) \in Nat /\ Cardinality(Earlier(I, key, i)) \in 0..(Cardinality(I) - 1)
<1>1. IsFiniteSet(I) /\ i \in Int /\ key[i] \in Int
  BY DEF Sortable
<1>2. Earlier(I, key, i) \subseteq I \ {i}
  BY <1>1 DEF Earlier
<1>3. /\ Cardinality(I) \in Nat /\ IsFiniteSet(I \ {i})
      /\ Cardinality(I \ {i}) = Cardinality(I) - 1
  BY <1>1, FS_CardinalityType, FS_RemoveElement
<1> HIDE DEF Earlier
<1>4. /\ IsFiniteSet(Earlier(I, key, i)) /\ Cardinality(Earlier(I, key, i)) \in Nat
      /\ Cardinality(Earlier(I, key, i)) <= Cardinality(I \ {i})
  BY <1>2, <1>3, FS_Subset, FS_CardinalityType
<1> QED BY <1>3, <1>4

\* Every number of the list is that of one place, and every place has a number.
LEMMA PlacesAreNumbered ==
    ASSUME NEW I, NEW key, Sortable(I, key)
    PROVE  /\ Cardinality(I) \in Nat
           /\ \A n \in 1..Cardinality(I) :
                  PlaceOf(I, key, n) \in I /\ Cardinality(Earlier(I, key, PlaceOf(I, key, n))) = n - 1
           /\ \A i \in I : \E n \in 1..Cardinality(I) : PlaceOf(I, key, n) = i
<1> DEFINE N == Cardinality(I)
           number == [i \in I |-> Cardinality(Earlier(I, key, i)) + 1]
<1>1. N \in Nat /\ IsFiniteSet(1..N) /\ Cardinality(1..N) = N
  <2>1. N \in Nat
    BY FS_CardinalityType DEF Sortable
  <2> HIDE DEF N
  <2> QED BY <2>1, FS_Interval
<1>2. \A i \in I : Cardinality(Earlier(I, key, i)) + 1 \in 1..N
  BY EarlierIsFew
<1>3. number \in Injection(I, 1..N)
  <2>1. number \in [I -> 1..N]
    BY <1>2
  <2>2. ASSUME NEW i \in I, NEW j \in I, number[i] = number[j] PROVE i = j
    <3>1. Cardinality(Earlier(I, key, i)) \in Int /\ Cardinality(Earlier(I, key, j)) \in Int
      BY EarlierIsFew
    <3>2. Cardinality(Earlier(I, key, i)) = Cardinality(Earlier(I, key, j))
      BY <2>2, <3>1
    <3> QED BY <3>2, EarlierIsStrict
  <2> QED BY <2>1, <2>2 DEF Injection, IsInjective
<1>4. number \in Surjection(I, 1..N)
  <2> HIDE DEF number
  <2> QED BY <1>1, <1>3, FS_Injection
<1>5. ASSUME NEW n \in 1..N
      PROVE  /\ \E i \in I : Cardinality(Earlier(I, key, i)) = n - 1
             /\ PlaceOf(I, key, n) \in I /\ Cardinality(Earlier(I, key, PlaceOf(I, key, n))) = n - 1
  <2>1. PICK i \in I : number[i] = n
    BY <1>4 DEF Surjection
  <2>2. Cardinality(Earlier(I, key, i)) = n - 1
    BY <2>1, EarlierIsFew
  <2> QED BY <2>2 DEF PlaceOf
<1>6. ASSUME NEW i \in I PROVE \E n \in 1..N : PlaceOf(I, key, n) = i
  <2> DEFINE n == Cardinality(Earlier(I, key, i)) + 1
  <2>1. n \in 1..N
    BY <1>2
  <2>2. PlaceOf(I, key, n) \in I /\ Cardinality(Earlier(I, key, PlaceOf(I, key, n))) = n - 1
    BY <1>5, <2>1
  <2>3. n - 1 = Cardinality(Earlier(I, key, i))
    BY EarlierIsFew
  <2>4. PlaceOf(I, key, n) = i
    BY <2>2, <2>3, EarlierIsStrict
  <2> QED BY <2>1, <2>4
<1> QED BY <1>1, <1>5, <1>6

\* The list has the members at the places, all of them and no other.
LEMMA InOrderHasMembers ==
    ASSUME NEW seq, NEW I, NEW key, Sortable(I, key)
    PROVE  /\ Cardinality(I) \in Nat
           /\ DOMAIN InOrder(seq, I, key) = 1..Cardinality(I)
           /\ \A n \in DOMAIN InOrder(seq, I, key) : \E i \in I : InOrder(seq, I, key)[n] = seq[i]
           /\ \A i \in I : \E n \in DOMAIN InOrder(seq, I, key) : InOrder(seq, I, key)[n] = seq[i]
<1>1. /\ Cardinality(I) \in Nat
      /\ \A n \in 1..Cardinality(I) : PlaceOf(I, key, n) \in I
      /\ \A i \in I : \E n \in 1..Cardinality(I) : PlaceOf(I, key, n) = i
  BY PlacesAreNumbered
<1>2. /\ DOMAIN InOrder(seq, I, key) = 1..Cardinality(I)
      /\ \A n \in 1..Cardinality(I) : InOrder(seq, I, key)[n] = seq[PlaceOf(I, key, n)]
  BY DEF InOrder
<1> HIDE DEF InOrder
<1> QED BY <1>1, <1>2

LEMMA InOrderIsSeq ==
    ASSUME NEW S, NEW seq, NEW I, NEW key, Sortable(I, key), \A i \in I : seq[i] \in S
    PROVE  InOrder(seq, I, key) \in Seq(S) /\ Len(InOrder(seq, I, key)) = Cardinality(I)
<1>1. /\ Cardinality(I) \in Nat
      /\ \A n \in 1..Cardinality(I) : PlaceOf(I, key, n) \in I
  BY PlacesAreNumbered
<1>2. InOrder(seq, I, key) \in [1..Cardinality(I) -> S]
  BY <1>1 DEF InOrder
<1> HIDE DEF InOrder
<1> QED BY <1>1, <1>2, SeqDef, LenProperties

\* Places of a sequence are sortable by themselves.
LEMMA PlacesAreSortable ==
    ASSUME NEW n \in Nat, NEW I \in SUBSET (1..n)
    PROVE  Sortable(I, [i \in I |-> i]) /\ Cardinality(I) \in 0..n
<1>1. IsFiniteSet(1..n) /\ Cardinality(1..n) = n
  BY FS_Interval
<1>2. IsFiniteSet(I) /\ Cardinality(I) \in Nat /\ Cardinality(I) <= n
  BY <1>1, FS_Subset, FS_CardinalityType
<1> QED BY <1>2 DEF Sortable

\* Where nothing is left out up to n, the n-th selected member is the n-th.
LEMMA SelectedFromTheStart ==
    ASSUME NEW seq, NEW l \in Nat, NEW I \in SUBSET (1..l), NEW n \in 1..l, 1..n \subseteq I
    PROVE  n \in DOMAIN Selected(seq, I) /\ Selected(seq, I)[n] = seq[n]
<1> DEFINE key == [i \in I |-> i]
<1>1. Sortable(I, key) /\ n \in I
  BY PlacesAreSortable
<1>2. Earlier(I, key, n) = 1..(n - 1)
  <2>1. Earlier(I, key, n) = {j \in I : j < n}
    BY <1>1 DEF Earlier
  <2> HIDE DEF key
  <2>2. ASSUME NEW j \in I, j < n PROVE j \in 1..(n - 1)
    <3>1. j \in 1..l
      OBVIOUS
    <3> QED BY <2>2, <3>1
  <2>3. ASSUME NEW j \in 1..(n - 1) PROVE j \in I /\ j < n
    <3>1. j \in 1..n /\ j < n
      OBVIOUS
    <3> QED BY <3>1
  <2> QED BY <2>1, <2>2, <2>3
<1> HIDE DEF key
<1>3. Cardinality(Earlier(I, key, n)) = n - 1
  BY <1>2, FS_Interval
<1>4. n \in 1..Cardinality(I)
  BY <1>1, <1>3, EarlierIsFew
<1>5. PlaceOf(I, key, n) \in I /\ Cardinality(Earlier(I, key, PlaceOf(I, key, n))) = n - 1
  BY <1>1, <1>4, PlacesAreNumbered
<1>6. PlaceOf(I, key, n) = n
  BY <1>1, <1>3, <1>5, EarlierIsStrict
<1> QED BY <1>4, <1>6 DEF Selected, InOrder, key

-----------------------------------------------------------------------------
(* EntityResolution.                                                       *)

\* What is known of a query of Batches.
TermType == [text : STRING, words : SUBSET STRING, stems : SUBSET STRING, some : SUBSET STRING,
             hint : STRING]
IsQuery(q) == q \in TermType /\ IsFiniteSet(q.words) /\ Similarity[q.text] \in [Entities -> 0..100]

\* What the properties say of one result.
ResultType == [term : STRING \union {NoText}, found : BOOLEAN, row : Entities \union {NoRow}]
Meant(q, row) ==
    row \in InScope(q) /\ (Supports(q, row) \/ \E s \in Namesakes(row) : Supports(q, s))

\* What the first pass finds and did not find among the rows seen when the call began.
Unnamed(q, seen) ==
    /\ (ByCode(q) \union ByName(q)) \intersect seen = {}
    /\ ByAllStems(q) \intersect seen = {} \/ Inflected(q)
Right(q, result) ==
    result \in ResultType /\ result.term = q.text /\ (result.found => Meant(q, result.row))
Justified(q, result, seen) ==
    ~result.found => q.text = NoText \/ (Unnamed(q, seen) /\ ByAlias(q) \intersect seen = {})
Resolved(q, result, seen) == Right(q, result) /\ Justified(q, result, seen)

\* A call: its types, and the lengths of its lists.
EarlySteps == {"idle", "open", "connect", "check", "seen", "missed", "no_table"}
CallSteps == EarlySteps \union {"pass1", "embed", "pass2", "answered"}
NeedType == [at : Nat, q : TermType, fts : Seq(Entities)]
CallType == [step : CallSteps, queries : Seq(TermType), results : Seq(ResultType),
             need : Seq(NeedType), embedded : Seq(STRING), cause : {"done", "no_table", "fault"},
             seen : SUBSET Entities]
Lengths(k) ==
    /\ Len(k.results) <= Len(k.queries)
    /\ k.step \in EarlySteps => k.results = <<>> /\ k.need = <<>>
    /\ k.step \in {"embed", "pass2", "answered"} => Len(k.results) = Len(k.queries)

\* What waits for the second pass: the entry is that of its query, which nothing is named
\* like, with the rows of the full text search.
NeedIsOf(k, n) ==
    /\ n.at \in DOMAIN k.results /\ n.q = k.queries[n.at]
    /\ n.q.text # NoText /\ Unnamed(n.q, k.seen) /\ n.fts \in Seq(InScope(n.q))
NeedsHold(k) == \A j \in DOMAIN k.need : NeedIsOf(k, k.need[j])

\* Every place of the results is resolved or waits.
Waits(k, i) == k.results[i] = Pending /\ \E j \in DOMAIN k.need : k.need[j].at = i
ResultsHold(k) == \A i \in DOMAIN k.results : Resolved(k.queries[i], k.results[i], k.seen) \/ Waits(k, i)

\* The embeddings in hand are those of the terms that wait.
EmbeddedHold(k) == k.embedded = <<>> \/ \A j \in DOMAIN k.need : k.embedded[j] = k.need[j].q.text

WorkHolds(k) ==
    /\ k.step # "answered" => NeedsHold(k) /\ ResultsHold(k)
    /\ IF k.step = "pass2" THEN EmbeddedHold(k) ELSE k.step # "answered" => k.embedded = <<>>

\* The answer of a call that is over.
AnswerHolds(k) ==
    k.step = "answered" => \A i \in DOMAIN k.results :
        /\ Right(k.queries[i], k.results[i])
        /\ k.cause = "done" => Justified(k.queries[i], k.results[i], k.seen)

CallInv(k) ==
    /\ k \in CallType
    /\ \A i \in DOMAIN k.queries : IsQuery(k.queries[i])
    /\ Lengths(k) /\ WorkHolds(k) /\ AnswerHolds(k)

CallsInv == call \in [Callers -> CallType] /\ \A c \in Callers : CallInv(call[c])

\* The rows of the table are entities, and those seen by a call stay.
RowsInv ==
    /\ searchable \subseteq Entities
    /\ \A c \in Callers : call[c].seen \subseteq searchable

ResolveInv == CallsInv /\ RowsInv

-----------------------------------------------------------------------------
(* The words and the lists of one term.                                      *)

LEMMA OverlapGrows ==
    ASSUME NEW q, IsFiniteSet(q.words), NEW A, NEW B, A \subseteq B, Overlap(q, A) >= 50
    PROVE  Overlap(q, B) >= 50
<1> DEFINE a == Cardinality(q.words \intersect A)
           b == Cardinality(q.words \intersect B)
           d == Cardinality(q.words)
<1>1. q.words # {}
  BY DEF Overlap
<1>2. d \in Nat /\ d > 0
  BY <1>1, FS_CardinalityType, FS_EmptySet
<1>3. IsFiniteSet(q.words \intersect B) /\ b \in Nat
  BY FS_Subset, FS_CardinalityType
<1>4. a \in Nat /\ a <= b
  BY <1>3, FS_Subset, FS_CardinalityType
<1>5. (100 * a) \div d >= 50
  BY <1>1 DEF Overlap
<1>6. (100 * b) \div d >= 50
  <2> HIDE DEF a, b, d
  <2> QED BY <1>2, <1>3, <1>4, <1>5, MoreIsEnough
<1> QED BY <1>1, <1>6 DEF Overlap

LEMMA OverlapIsInt == ASSUME NEW q, IsQuery(q), NEW words PROVE Overlap(q, words) \in Int
<1>1. CASE q.words = {}
  BY <1>1 DEF Overlap
<1>2. CASE q.words # {}
  <2> DEFINE a == Cardinality(q.words \intersect words)
             d == Cardinality(q.words)
  <2>1. a \in Nat
    BY FS_Subset, FS_CardinalityType DEF IsQuery
  <2>2. d \in Nat /\ d > 0
    BY <1>2, FS_CardinalityType, FS_EmptySet DEF IsQuery
  <2>3. (100 * a) \div d \in Int
    <3> HIDE DEF a, d
    <3> QED BY <2>1, <2>2
  <2> QED BY <1>2, <2>3 DEF Overlap
<1> QED BY <1>1, <1>2

LEMMA ScopeOfEntities ==
    ASSUME NEW q
    PROVE  /\ InScope(q) \subseteq Entities
           /\ ByCode(q) \union ByName(q) \union ByAlias(q) \subseteq InScope(q)
           /\ ByAllStems(q) \union ByAnyStem(q) \subseteq InScope(q)
  BY DEF InScope, ByCode, ByName, ByAlias, ByAllStems, ByAnyStem

\* The first rows of a listing of a set are rows of it, one at least if it has any.
LEMMA FirstOfListing ==
    ASSUME NEW S, IsFiniteSet(S), NEW s \in SetToSeqs(S)
    PROVE  /\ FirstOf(s) \in Seq(S)
           /\ S # {} => Len(FirstOf(s)) > 0
<1>1. Cardinality(S) \in Nat /\ (S # {} => Cardinality(S) > 0)
  BY FS_CardinalityType, FS_EmptySet
<1>2. s \in [1..Cardinality(S) -> S]
  BY DEF SetToSeqs
<1>3. s \in Seq(S) /\ Len(s) = Cardinality(S)
  BY <1>1, <1>2
<1> QED BY <1>1, <1>3, CandidatesAssumption DEF FirstOf

LEMMA FullTextRows ==
    ASSUME NEW q, NEW rows, NEW s \in FullText(q, rows)
    PROVE  /\ s \in Seq(InScope(q))
           /\ ByAllStems(q) \intersect rows # {} => Len(s) > 0 /\ s[1] \in ByAllStems(q)
<1> DEFINE all == ByAllStems(q) \intersect rows
           S == IF all # {} THEN all ELSE ByAnyStem(q) \intersect rows
<1>1. S \in SUBSET InScope(q) /\ S \in SUBSET Entities
  BY ScopeOfEntities
<1>2. IsFiniteSet(S)
  <2> HIDE DEF S
  <2> QED BY <1>1, EntitiesAssumption, FS_Subset
<1>3. PICK t \in SetToSeqs(S) : s = FirstOf(t)
  BY DEF FullText
<1>4. s \in Seq(S) /\ (S # {} => Len(s) > 0)
  <2> HIDE DEF S
  <2> QED BY <1>2, <1>3, FirstOfListing
<1>5. s \in Seq(InScope(q))
  <2> HIDE DEF S
  <2> QED BY <1>1, <1>4
<1>6. ASSUME all # {} PROVE Len(s) > 0 /\ s[1] \in ByAllStems(q)
  <2>1. s \in Seq(all) /\ Len(s) > 0
    BY <1>4, <1>6
  <2>2. s[1] \in all
    <3> HIDE DEF all
    <3> QED BY <2>1
  <2> QED BY <2>1, <2>2
<1> QED BY <1>5, <1>6

LEMMA NearestRows ==
    ASSUME NEW q, NEW sent, NEW near, NEW vec \in Nearest(q, sent, near)
    PROVE  vec \in Seq(InScope(q))
<1> DEFINE S == InScope(q) \intersect near
<1>1. PICK s \in SetToSeqs(S) : vec = FirstOf(s)
  BY DEF Nearest
<1>2. IsFiniteSet(S)
  BY ScopeOfEntities, EntitiesAssumption, FS_Subset
<1>3. vec \in Seq(S)
  <2> HIDE DEF S
  <2> QED BY <1>1, <1>2, FirstOfListing
<1> QED BY <1>3

LEMMA RankIsOfName ==
    ASSUME NEW R, NEW seq \in Seq(R), NEW name, RankOf(seq, name) # 0
    PROVE  /\ RankOf(seq, name) \in DOMAIN seq /\ RankOf(seq, name) > 0
           /\ seq[RankOf(seq, name)].name = name
<1> DEFINE at == {i \in DOMAIN seq : seq[i].name = name}
<1>1. at # {} /\ RankOf(seq, name) = Max(at)
  BY DEF RankOf
<1>2. at \in SUBSET (1..Len(seq)) /\ Len(seq) \in Nat
  OBVIOUS
<1>3. Max(at) \in at
  <2> HIDE DEF at
  <2> QED BY <1>1, <1>2, GreatestOf
<1> QED BY <1>1, <1>3

-----------------------------------------------------------------------------
(* The passes.                                                             *)

LEMMA FoundIsResolved ==
    ASSUME NEW q, IsQuery(q), NEW r, Meant(q, r), NEW seen
    PROVE  Found(q, r) # Pending /\ Resolved(q, Found(q, r), seen)
<1>1. Found(q, r).term = q.text /\ Found(q, r).found = TRUE /\ Found(q, r).row = r
  BY DEF Found
<1>2. Pending.found = FALSE
  BY DEF Pending
<1>3. r \in Entities /\ q.text \in STRING
  BY ScopeOfEntities DEF Meant, IsQuery, TermType
<1>4. Found(q, r) \in ResultType
  BY <1>3 DEF Found, ResultType
<1> QED BY <1>1, <1>2, <1>4 DEF Resolved, Right, Justified

LEMMA NotFoundIsRight == ASSUME NEW q, IsQuery(q) PROVE Right(q, NotFound(q)) /\ ~NotFound(q).found
<1>1. NotFound(q) \in ResultType
  BY DEF NotFound, ResultType, IsQuery, TermType
<1> QED BY <1>1 DEF NotFound, Right

LEMMA SupportedIsMeant == ASSUME NEW q, NEW r \in InScope(q), Supports(q, r) PROVE Meant(q, r)
  BY DEF Meant

\* The first pass resolves a term, or hands its rows on when nothing is named like it.
LEMMA FirstPassResolves ==
    ASSUME NEW q, IsQuery(q), q.text # NoText, NEW rows, NEW seen, seen \subseteq rows, NEW p \in Pass1(q, rows)
    PROVE  /\ p.result # Pending => Resolved(q, p.result, seen)
           /\ p.result = Pending => Unnamed(q, seen) /\ p.fts \in Seq(InScope(q))
<1> DEFINE code == ByCode(q) \intersect rows
           name == ByName(q) \intersect rows
           all == ByAllStems(q) \intersect rows
<1>0. Pass1(q, rows) =
          IF code # {} THEN {[result |-> Found(q, r), fts |-> <<>>] : r \in code}
          ELSE IF name # {} THEN {[result |-> Found(q, r), fts |-> <<>>] : r \in name}
          ELSE {[result |-> IF all # {} /\ Overlap(q, s[1].words) >= 50 THEN Found(q, s[1]) ELSE Pending,
                 fts |-> s] : s \in FullText(q, rows)}
  BY DEF Pass1
<1>1. CASE code # {}
  <2>1. PICK r \in code : p = [result |-> Found(q, r), fts |-> <<>>]
    BY <1>0, <1>1
  <2>2. r \in InScope(q) /\ Supports(q, r)
    BY ScopeOfEntities DEF Supports
  <2> QED BY <2>1, <2>2, FoundIsResolved, SupportedIsMeant
<1>2. CASE code = {} /\ name # {}
  <2>1. PICK r \in name : p = [result |-> Found(q, r), fts |-> <<>>]
    BY <1>0, <1>2
  <2>2. r \in InScope(q) /\ Supports(q, r)
    BY ScopeOfEntities DEF Supports
  <2> QED BY <2>1, <2>2, FoundIsResolved, SupportedIsMeant
<1>3. CASE code = {} /\ name = {}
  <2>1. PICK s \in FullText(q, rows) :
            p = [result |-> IF all # {} /\ Overlap(q, s[1].words) >= 50 THEN Found(q, s[1]) ELSE Pending,
                 fts |-> s]
    BY <1>0, <1>3
  <2>2. s \in Seq(InScope(q)) /\ (all # {} => s[1] \in ByAllStems(q))
    BY FullTextRows
  <2>3. CASE all # {} /\ Overlap(q, s[1].words) >= 50
    <3>1. p.result = Found(q, s[1])
      BY <2>1, <2>3
    <3>2. s[1] \in InScope(q) /\ Supports(q, s[1])
      BY <2>2, <2>3, ScopeOfEntities DEF Supports
    <3> QED BY <3>1, <3>2, FoundIsResolved, SupportedIsMeant
  <2>4. CASE ~(all # {} /\ Overlap(q, s[1].words) >= 50)
    <3>1. p.result = Pending /\ p.fts = s
      BY <2>1, <2>4
    <3>2. all = {} \/ Inflected(q)
      <4>1. ASSUME all # {} PROVE Overlap(q, s[1].words) < 50
        <5>1. Overlap(q, s[1].words) \in Int
          BY OverlapIsInt
        <5> QED BY <2>4, <4>1, <5>1
      <4> QED BY <2>2, <4>1 DEF Inflected
    <3>3. Unnamed(q, seen)
      BY <1>3, <3>2 DEF Unnamed
    <3> QED BY <2>2, <3>1, <3>3
  <2> QED BY <2>3, <2>4
<1> QED BY <1>1, <1>2, <1>3

\* A candidate of either list that is confident enough is meant, or is taken for one of
\* its name that is.
LEMMA ConfidentIsMeant ==
    ASSUME NEW q, IsQuery(q), NEW fts \in Seq(InScope(q)), NEW vec \in Seq(InScope(q)), NEW sent,
           vec = <<>> \/ sent = q.text, NEW c \in Confident(q, fts, vec, sent)
    PROVE  Meant(q, c.row)
<1>1. PICK i \in DOMAIN (fts \o vec) : c = Candidate(fts, vec, (fts \o vec)[i])
  BY DEF Confident, Top
<1> DEFINE row == (fts \o vec)[i]
           v == RankOf(vec, row.name)
           near == IF c.vec > 0 THEN Similarity[sent][c.similar] ELSE 0
           shared == Overlap(q, IF c.fts > 0 THEN c.row.words ELSE c.row.named)
<1>2. row \in InScope(q) /\ row \in Entities
  BY ScopeOfEntities
<1>3. c.row = row /\ c.vec = v /\ c.similar = IF v = 0 THEN row ELSE vec[v]
  BY <1>1 DEF Candidate
<1>4. ASSUME v # 0
      PROVE  sent = q.text /\ v > 0 /\ vec[v] \in Entities /\ vec[v].name = row.name
  <2>1. v \in DOMAIN vec /\ v > 0 /\ vec[v].name = row.name
    BY <1>4, RankIsOfName
  <2> QED BY <2>1, ScopeOfEntities
<1> HIDE DEF row, v
<1>5. near \in Int /\ (near >= 50 => v # 0 /\ Similarity[q.text][vec[v]] >= 50)
  <2>1. CASE v = 0
    BY <1>3, <2>1
  <2>2. CASE v # 0
    <3>1. near = Similarity[q.text][vec[v]]
      BY <1>3, <1>4, <2>2
    <3>2. Similarity[q.text][vec[v]] \in 0..100
      BY <1>4, <2>2 DEF IsQuery
    <3> DEFINE S == Similarity[q.text][vec[v]]
    <3>3. S \in 0..100 /\ near = S
      BY <3>1, <3>2
    <3>4. near \in Int /\ (near >= 50 => S >= 50)
      <4> HIDE DEF near, S
      <4> QED BY <3>3
    <3> QED BY <2>2, <3>4
  <2> QED BY <2>1, <2>2
<1>6. shared \in Int
  BY OverlapIsInt
<1>7. near >= 50 \/ shared >= 50
  <2>1. Max({near, shared}) >= 50
    BY DEF Confident, Confidence
  <2> HIDE DEF near, shared
  <2> QED BY <1>5, <1>6, <2>1, MaxOfTwo
<1>8. CASE near >= 50
  <2>1. vec[v] \in Entities /\ vec[v].name = row.name /\ Supports(q, vec[v])
    BY <1>4, <1>5, <1>8 DEF Supports
  <2>2. vec[v] = row \/ vec[v] \in Namesakes(row)
    BY <2>1 DEF Namesakes
  <2> QED BY <1>2, <1>3, <2>1, <2>2 DEF Meant
<1>9. CASE shared >= 50
  <2>1. row.named \subseteq row.words
    BY <1>2, EntitiesAssumption
  <2>2. Overlap(q, row.words) >= 50
    BY <1>3, <1>9, <2>1, OverlapGrows DEF IsQuery
  <2> QED BY <1>2, <1>3, <2>2 DEF Meant, Supports
<1> QED BY <1>7, <1>8, <1>9

\* The second pass, with the embedding of the term or without.
LEMMA SecondPassResolves ==
    ASSUME NEW q, IsQuery(q), NEW rows, NEW near, NEW seen, seen \subseteq rows, Unnamed(q, seen),
           NEW fts \in Seq(InScope(q)),
           NEW sent \in {NoText, q.text}, NEW result \in Pass2(q, fts, sent, rows, near)
    PROVE  Resolved(q, result, seen)
<1> DEFINE alias == ByAlias(q) \intersect rows
<1>1. PICK vec \in Vectors(q, sent, near) :
          result \in IF Confident(q, fts, vec, sent) # {} THEN {Found(q, c.row) : c \in Confident(q, fts, vec, sent)}
                     ELSE IF alias # {} THEN {Found(q, r) : r \in alias}
                     ELSE {NotFound(q)}
  BY DEF Pass2
<1>2. vec \in Seq(InScope(q)) /\ (vec = <<>> \/ sent = q.text)
  <2>1. CASE sent = NoText
    <3>1. vec = <<>>
      BY <2>1 DEF Vectors
    <3>2. <<>> \in Seq(InScope(q))
      BY EmptySeq
    <3> QED BY <3>1, <3>2
  <2>2. CASE sent = q.text /\ sent # NoText
    BY <1>1, <2>2, NearestRows DEF Vectors
  <2> QED BY <2>1, <2>2
<1>3. CASE Confident(q, fts, vec, sent) # {}
  <2>1. PICK c \in Confident(q, fts, vec, sent) : result = Found(q, c.row)
    BY <1>1, <1>3
  <2>2. Meant(q, c.row)
    BY <1>2, ConfidentIsMeant
  <2> QED BY <2>1, <2>2, FoundIsResolved
<1>4. CASE Confident(q, fts, vec, sent) = {} /\ alias # {}
  <2>1. PICK r \in alias : result = Found(q, r)
    BY <1>1, <1>4
  <2>2. r \in InScope(q) /\ Supports(q, r)
    BY ScopeOfEntities DEF Supports
  <2> QED BY <2>1, <2>2, FoundIsResolved, SupportedIsMeant
<1>5. CASE Confident(q, fts, vec, sent) = {} /\ alias = {}
  <2>1. result = NotFound(q)
    BY <1>1, <1>5
  <2>2. ByAlias(q) \intersect seen = {}
    BY <1>5
  <2> QED BY <2>1, <2>2, NotFoundIsRight DEF Resolved, Justified
<1> QED BY <1>3, <1>4, <1>5

\* Whatever the order of the answer, an embedding goes to the term it was made of.
LEMMA EmbeddingOfTerm ==
    ASSUME NEW T, NEW need \in Seq(T), NEW order \in [DOMAIN need -> DOMAIN need], IsInjective(order),
           NEW data, data = [i \in DOMAIN need |-> [index |-> order[i], text |-> need[order[i]].q.text]],
           NEW j \in DOMAIN need
    PROVE  ByIndex(data)[j] = need[j].q.text
<1> DEFINE n == Len(need)
           at == {i \in 1..Len(data) : data[i].index = j}
<1>1. n \in Nat /\ DOMAIN need = 1..n
  OBVIOUS
<1>2. IsFiniteSet(1..n)
  BY <1>1, FS_Interval
<1>3. order \in Surjection(1..n, 1..n)
  <2>1. order \in Injection(1..n, 1..n)
    BY <1>1 DEF Injection
  <2> QED BY <1>2, <2>1, FS_Injection
<1>4. PICK k \in 1..n : order[k] = j
  BY <1>1, <1>3 DEF Surjection
<1>5. data \in Seq([index : 1..n, text : {need[order[i]].q.text : i \in DOMAIN need}]) /\ Len(data) = n
  BY <1>1
<1>6. k \in at /\ at \in SUBSET Nat
  BY <1>1, <1>4, <1>5
<1>7. Min(at) \in at
  <2>1. \E x \in at : \A y \in at : x <= y
    <3> HIDE DEF at
    <3> QED BY <1>6, LeastOf
  <2> QED BY <2>1 DEF Min
<1>8. SelectInSeq(data, LAMBDA d : d.index = j) = Min(at)
  BY <1>6 DEF SelectInSeq
<1>9. ByIndex(data)[j] = data[Min(at)].text
  BY <1>1, <1>5, <1>8 DEF ByIndex
<1>10. Min(at) \in 1..n /\ order[Min(at)] = j
  BY <1>1, <1>5, <1>7
<1> QED BY <1>1, <1>9, <1>10

-----------------------------------------------------------------------------
(* The steps of a call.                                                      *)

\* One call goes on, the others stand still.
LEMMA OneCall ==
    ASSUME ResolveInv, NEW c \in Callers, NEW k, CallInv(k), call' = [call EXCEPT ![c] = k]
    PROVE  CallsInv'
  BY DEF ResolveInv, CallsInv, CallInv

LEMMA CallOfInv == ASSUME ResolveInv, NEW c \in Callers PROVE CallInv(call[c]) /\ call[c] \in CallType
  BY DEF ResolveInv, CallsInv

\* A step that moves a call on and leaves its lists alone.
LEMMA MoveOn ==
    ASSUME NEW k, CallInv(k), NEW to \in CallSteps,
           to \in EarlySteps => k.step \in EarlySteps,
           to \in {"embed", "pass2"} => Len(k.results) = Len(k.queries),
           k.step \notin {"pass2", "answered"}, to # "answered"
    PROVE  CallInv([k EXCEPT !.step = to])
<1> DEFINE m == [k EXCEPT !.step = to]
<1>1. /\ m \in CallType /\ m.step = to /\ m.queries = k.queries /\ m.results = k.results
      /\ m.need = k.need /\ m.embedded = k.embedded /\ m.cause = k.cause /\ m.seen = k.seen
  BY DEF CallInv, CallType
<1> HIDE DEF m
<1>2. \A i \in DOMAIN m.queries : IsQuery(m.queries[i])
  BY <1>1 DEF CallInv
<1>3. Lengths(m)
  BY <1>1 DEF CallInv, Lengths
<1>4. NeedsHold(m)
  BY <1>1 DEF CallInv, WorkHolds, NeedsHold, NeedIsOf
<1>5. ResultsHold(m)
  BY <1>1 DEF CallInv, WorkHolds, ResultsHold, Waits
<1>6. m.embedded = <<>> /\ EmbeddedHold(m)
  BY <1>1 DEF EmbeddedHold, CallInv, WorkHolds
<1>7. AnswerHolds(m)
  BY <1>1 DEF AnswerHolds
<1>8. CallInv(m)
  BY <1>1, <1>2, <1>3, <1>4, <1>5, <1>6, <1>7 DEF CallInv, WorkHolds
<1> QED BY <1>8 DEF m

\* The answer of a call.
LEMMA Answer ==
    ASSUME NEW k, CallInv(k), NEW results \in Seq(ResultType), NEW cause \in {"done", "no_table", "fault"},
           Len(results) = Len(k.queries),
           \A i \in DOMAIN results :
               Right(k.queries[i], results[i]) /\ (cause = "done" => Justified(k.queries[i], results[i], k.seen))
    PROVE  CallInv([k EXCEPT !.step = "answered", !.results = results, !.cause = cause, !.need = <<>>, !.embedded = <<>>])
<1> DEFINE m == [k EXCEPT !.step = "answered", !.results = results, !.cause = cause, !.need = <<>>, !.embedded = <<>>]
<1>0. k \in CallType /\ <<>> \in Seq(NeedType) /\ <<>> \in Seq(STRING) /\ "answered" \in CallSteps
  BY EmptySeq DEF CallInv, CallSteps
<1>1. /\ m \in CallType /\ m.step = "answered" /\ m.queries = k.queries /\ m.results = results /\ m.cause = cause
      /\ m.seen = k.seen
  BY <1>0 DEF CallType
<1> HIDE DEF m
<1>2. \A i \in DOMAIN m.queries : IsQuery(m.queries[i])
  BY <1>1 DEF CallInv
<1>3. Lengths(m)
  <2>1. k.queries \in Seq(TermType) /\ Len(k.queries) \in Nat
    BY LenProperties DEF CallInv, CallType
  <2>2. m.step \notin EarlySteps
    BY <1>1 DEF EarlySteps
  <2>3. Len(m.results) = Len(m.queries) /\ Len(m.results) <= Len(m.queries)
    BY <1>1, <2>1
  <2> QED BY <2>2, <2>3 DEF Lengths
<1>4. WorkHolds(m) /\ AnswerHolds(m)
  BY <1>1 DEF WorkHolds, AnswerHolds
<1>5. CallInv(m)
  BY <1>1, <1>2, <1>3, <1>4 DEF CallInv
<1> QED BY <1>5 DEF m

LEMMA IdleHolds == CallInv(Idle)
<1>1. Idle \in CallType
  BY DEF Idle, CallType, CallSteps, EarlySteps
<1>2. /\ Idle.queries = <<>> /\ Idle.results = <<>> /\ Idle.need = <<>> /\ Idle.step = "idle" /\ Idle.embedded = <<>>
      /\ Idle.seen = {}
  BY DEF Idle
<1>3. Len(<<>>) = 0 /\ DOMAIN (<<>>) = {}
  OBVIOUS
<1>4. Lengths(Idle)
  BY <1>2, <1>3 DEF Lengths
<1> QED BY <1>1, <1>2, <1>3, <1>4 DEF CallInv, WorkHolds, NeedsHold, ResultsHold, AnswerHolds

LEMMA InitResolve == ResolveInit => ResolveInv
  BY IdleHolds DEF ResolveInit, ResolveInv, CallsInv, RowsInv, CallInv, Idle

LEMMA BeginKeeps == ASSUME ResolveInv, NEW c \in Callers, BeginCall(c) PROVE CallsInv'
<1>1. PICK qs \in Batches :
          call' = [call EXCEPT ![c] = [Idle EXCEPT !.step = IF opened THEN "connect" ELSE "open", !.queries = qs, !.seen = searchable]]
  BY DEF BeginCall
<1> DEFINE m == [Idle EXCEPT !.step = IF opened THEN "connect" ELSE "open", !.queries = qs, !.seen = searchable]
<1>2. qs \in Seq(TermType) /\ \A i \in DOMAIN qs : IsQuery(qs[i])
  <2>1. qs \in Seq(TermType)
    BY BatchesAssumption DEF TermType
  <2>2. \A i \in DOMAIN qs : qs[i] \in TermType
    BY <2>1
  <2> QED BY <2>1, <2>2, BatchesAssumption DEF IsQuery
<1>3. /\ m.step \in EarlySteps /\ m.queries = qs /\ m.results = <<>> /\ m.need = <<>>
      /\ m.embedded = <<>> /\ m.cause = "done"
  BY DEF Idle, EarlySteps
<1>4. m \in CallType
  <2>1. Idle \in CallType
    BY IdleHolds DEF CallInv
  <2>2. (IF opened THEN "connect" ELSE "open") \in CallSteps
    BY DEF CallSteps, EarlySteps
  <2>3. searchable \in SUBSET Entities
    BY DEF ResolveInv, RowsInv
  <2> QED BY <1>2, <2>1, <2>2, <2>3 DEF CallType
<1> HIDE DEF m
<1>5. Len(<<>>) = 0 /\ DOMAIN (<<>>) = {} /\ Len(qs) >= 0
  BY <1>2
<1>6. Lengths(m)
  BY <1>3, <1>5 DEF Lengths, EarlySteps
<1>7. CallInv(m)
  BY <1>2, <1>3, <1>4, <1>5, <1>6 DEF CallInv, WorkHolds, NeedsHold, ResultsHold, AnswerHolds, EarlySteps
<1>8. call' = [call EXCEPT ![c] = m]
  BY <1>1 DEF m
<1> QED BY <1>7, <1>8, OneCall

LEMMA StepsKeep ==
    ASSUME ResolveInv, NEW c \in Callers, NEW to \in CallSteps, Steps(c, to),
           to \in EarlySteps => call[c].step \in EarlySteps,
           to \in {"embed", "pass2"} => Len(call[c].results) = Len(call[c].queries),
           call[c].step \notin {"pass2", "answered"}, to # "answered"
    PROVE  CallsInv'
<1>1. call' = [call EXCEPT ![c] = [call[c] EXCEPT !.step = to]]
  BY DEF Steps, ResolveInv, CallsInv
<1> DEFINE k == [call[c] EXCEPT !.step = to]
<1>2. CallInv(k)
  BY CallOfInv, MoveOn
<1> HIDE DEF k
<1>3. call' = [call EXCEPT ![c] = k]
  BY <1>1 DEF k
<1> QED BY <1>2, <1>3, OneCall

LEMMA EarlyKeeps ==
    ASSUME ResolveInv, NEW c \in Callers,
           OpenPool(c) \/ Connect(c) \/ LookForTable(c) \/ NoteTable(c)
    PROVE  CallsInv'
<1>1. PICK to \in {"connect", "check", "seen", "missed", "pass1", "no_table"} : Steps(c, to)
  BY DEF OpenPool, Connect, LookForTable, NoteTable
<1>2. call[c].step \in EarlySteps /\ call[c].step \notin {"pass2", "answered"}
  BY DEF OpenPool, Connect, LookForTable, NoteTable, EarlySteps
<1>3. to \in CallSteps /\ to \notin {"embed", "pass2", "answered"}
  BY DEF CallSteps, EarlySteps
<1> QED BY <1>1, <1>2, <1>3, StepsKeep

LEMMA ReturnsKeep ==
    ASSUME ResolveInv, NEW c \in Callers, NEW results \in Seq(ResultType), NEW cause \in {"done", "no_table", "fault"},
           Returns(c, results, cause), Len(results) = Len(call[c].queries),
           \A i \in DOMAIN results :
               Right(call[c].queries[i], results[i]) /\ (cause = "done" => Justified(call[c].queries[i], results[i], call[c].seen))
    PROVE  CallsInv'
<1> DEFINE k == [call[c] EXCEPT !.step = "answered", !.results = results, !.cause = cause, !.need = <<>>, !.embedded = <<>>]
<1>1. call' = [call EXCEPT ![c] = k]
  BY DEF Returns, ResolveInv, CallsInv
<1>2. CallInv(k)
  BY CallOfInv, Answer
<1> HIDE DEF k
<1> QED BY <1>1, <1>2, OneCall

\* Every query is answered when there is no table, or after a fault.
LEMMA NoTableKeeps == ASSUME ResolveInv, NEW c \in Callers, NoTable(c) PROVE CallsInv'
<1> DEFINE qs == call[c].queries
           results == [i \in DOMAIN qs |-> NotFound(qs[i])]
<1>1. qs \in Seq(TermType) /\ \A i \in DOMAIN qs : IsQuery(qs[i])
  BY CallOfInv DEF CallInv, CallType
<1>2. \A i \in DOMAIN qs : Right(qs[i], NotFound(qs[i]))
  BY <1>1, NotFoundIsRight
<1>3. \A i \in DOMAIN qs : NotFound(qs[i]) \in ResultType
  BY <1>2 DEF Right
<1>4. Returns(c, results, "no_table")
  BY DEF NoTable
<1> HIDE DEF qs
<1>5. results \in Seq(ResultType) /\ Len(results) = Len(qs) /\ DOMAIN results = DOMAIN qs
  BY <1>1, <1>3
<1>6. \A i \in DOMAIN results : Right(qs[i], results[i])
  BY <1>2, <1>5
<1> HIDE DEF results
<1> QED BY <1>4, <1>5, <1>6, ReturnsKeep DEF qs

LEMMA FaultKeeps == ASSUME ResolveInv, NEW c \in Callers, CallFails(c) PROVE CallsInv'
<1> DEFINE qs == call[c].queries
           had == call[c].results
           results == Filled(qs, had)
<1>1. qs \in Seq(TermType) /\ (\A i \in DOMAIN qs : IsQuery(qs[i])) /\ had \in Seq(ResultType)
  BY CallOfInv DEF CallInv, CallType
<1>2. \A i \in DOMAIN had : had[i] # Pending => Right(qs[i], had[i])
  <2>1. call[c].step # "answered"
    BY DEF CallFails
  <2> QED BY <2>1, CallOfInv DEF CallInv, WorkHolds, ResultsHold, Waits, Resolved
<1>3. \A i \in DOMAIN qs : Right(qs[i], NotFound(qs[i]))
  BY <1>1, NotFoundIsRight
<1>4. Returns(c, results, "fault")
  BY DEF CallFails
<1> HIDE DEF qs, had
<1>5. results = [i \in DOMAIN qs |-> IF i > Len(had) \/ had[i] = Pending THEN NotFound(qs[i]) ELSE had[i]]
  BY DEF Filled
<1> HIDE DEF results
<1>6. \A i \in DOMAIN qs : Right(qs[i], results[i])
  <2> SUFFICES ASSUME NEW i \in DOMAIN qs PROVE Right(qs[i], results[i])
    OBVIOUS
  <2>1. CASE i > Len(had) \/ had[i] = Pending
    BY <1>3, <1>5, <2>1
  <2>2. CASE ~(i > Len(had)) /\ had[i] # Pending
    <3>1. i \in DOMAIN had /\ results[i] = had[i]
      BY <1>1, <1>5, <2>2
    <3> QED BY <1>2, <2>2, <3>1
  <2> QED BY <2>1, <2>2
<1>7. \A i \in DOMAIN qs : results[i] \in ResultType
  BY <1>6 DEF Right
<1>8. results \in Seq(ResultType) /\ Len(results) = Len(qs) /\ DOMAIN results = DOMAIN qs
  BY <1>1, <1>5, <1>7
<1> QED BY <1>4, <1>6, <1>8, ReturnsKeep DEF qs

\* The first pass adds the result of the next term, and the term to those that wait.
LEMMA Added ==
    ASSUME NEW k, CallInv(k), k.step = "pass1", Len(k.results) < Len(k.queries),
           NEW result \in ResultType, NEW more \in Seq(NeedType),
           NEW n, n = Len(k.results) + 1,
           \/ more = k.need /\ Resolved(k.queries[n], result, k.seen)
           \/ /\ result = Pending
              /\ \E fts \in Seq(InScope(k.queries[n])) :
                     more = Append(k.need, [at |-> n, q |-> k.queries[n], fts |-> fts])
              /\ k.queries[n].text # NoText /\ Unnamed(k.queries[n], k.seen)
    PROVE  CallInv([k EXCEPT !.results = Append(k.results, result), !.need = more])
<1> DEFINE m == [k EXCEPT !.results = Append(k.results, result), !.need = more]
<1>1. /\ k.results \in Seq(ResultType) /\ k.need \in Seq(NeedType) /\ k.queries \in Seq(TermType)
      /\ NeedsHold(k) /\ ResultsHold(k)
  BY DEF CallInv, CallType, WorkHolds
<1>2. /\ m \in CallType /\ m.step = "pass1" /\ m.queries = k.queries
      /\ m.results = Append(k.results, result) /\ m.need = more /\ m.embedded = <<>>
      /\ m.seen = k.seen
  <2>1. Append(k.results, result) \in Seq(ResultType)
    BY <1>1, Appended
  <2>2. k \in CallType
    BY DEF CallInv
  <2>3. k.embedded = <<>>
    BY DEF CallInv, WorkHolds
  <2> QED BY <2>1, <2>2, <2>3 DEF CallType
<1> HIDE DEF m
<1>3. /\ Len(m.results) = n /\ n \in Nat /\ n <= Len(m.queries) /\ n \in DOMAIN m.results /\ m.results[n] = result
      /\ \A i \in DOMAIN k.results : i \in DOMAIN m.results /\ m.results[i] = k.results[i]
      /\ \A i \in DOMAIN m.results : i \in DOMAIN k.results \/ i = n
  <2> DEFINE s == k.results
             t == m.results
  <2>1. /\ Len(s) \in Nat /\ Len(t) = Len(s) + 1 /\ DOMAIN t = 1..(Len(s) + 1) /\ t[Len(s) + 1] = result
        /\ \A i \in DOMAIN s : i \in DOMAIN t /\ t[i] = s[i]
        /\ \A i \in DOMAIN t : i \in DOMAIN s \/ i = Len(s) + 1
    BY <1>1, <1>2, Appended
  <2>2. n = Len(s) + 1 /\ n \in Nat /\ n \in 1..(Len(s) + 1)
    BY <2>1
  <2>3. n <= Len(m.queries)
    <3>1. Len(k.queries) \in Nat
      BY <1>1, LenProperties
    <3> QED BY <1>2, <2>1, <2>2, <3>1
  <2> QED BY <2>1, <2>2, <2>3
<1>4. /\ DOMAIN k.need \subseteq DOMAIN more
      /\ \A j \in DOMAIN k.need : more[j] = k.need[j]
      /\ \A j \in DOMAIN more :
             \/ j \in DOMAIN k.need
             \/ NeedIsOf(m, more[j])
      /\ Resolved(k.queries[n], result, k.seen) \/ (result = Pending /\ \E j \in DOMAIN more : more[j].at = n)
  <2>1. CASE more = k.need /\ Resolved(k.queries[n], result, k.seen)
    BY <2>1
  <2>2. CASE ~(more = k.need /\ Resolved(k.queries[n], result, k.seen))
    <3>1. result = Pending /\ k.queries[n].text # NoText /\ Unnamed(k.queries[n], k.seen)
      BY <2>2
    <3>2. PICK fts \in Seq(InScope(k.queries[n])) : more = Append(k.need, [at |-> n, q |-> k.queries[n], fts |-> fts])
      BY <2>2
    <3> DEFINE e == [at |-> n, q |-> k.queries[n], fts |-> fts]
    <3>3. e.at = n /\ e.q = k.queries[n] /\ e.fts = fts
      OBVIOUS
    <3>4. NeedIsOf(m, e)
      <4> HIDE DEF e
      <4>1. e.at \in DOMAIN m.results /\ e.q = m.queries[e.at]
        BY <1>2, <1>3, <3>3
      <4>2. e.q.text # NoText /\ Unnamed(e.q, m.seen) /\ e.fts \in Seq(InScope(e.q))
        BY <1>2, <3>1, <3>2, <3>3
      <4> QED BY <4>1, <4>2 DEF NeedIsOf
    <3>5. more = Append(k.need, e)
      BY <3>2
    <3> HIDE DEF e
    <3>6. e \in NeedType
      <4>1. n \in DOMAIN k.queries /\ n \in Nat
        BY <1>1, <1>2, <1>3, LenProperties
      <4>2. k.queries[n] \in TermType
        BY <1>1, <4>1
      <4>3. fts \in Seq(InScope(k.queries[n])) /\ InScope(k.queries[n]) \subseteq Entities
        BY <3>2, ScopeOfEntities
      <4>4. fts \in Seq(Entities)
        BY <4>3
      <4> QED BY <4>1, <4>2, <4>4 DEF NeedType, e
    <3> DEFINE l == Len(k.need) + 1
    <3>7. /\ l \in DOMAIN more /\ more[l] = e
          /\ \A j \in DOMAIN k.need : j \in DOMAIN more /\ more[j] = k.need[j]
          /\ \A j \in DOMAIN more : j \in DOMAIN k.need \/ j = l
      <4>1. l \in DOMAIN more
        <5>1. Len(k.need) \in Nat /\ DOMAIN more = 1..(Len(k.need) + 1)
          BY <1>1, <3>5, <3>6, Appended
        <5> QED BY <5>1
      <4> QED BY <1>1, <3>5, <3>6, <4>1, Appended
    <3> HIDE DEF l
    <3> QED BY <3>1, <3>3, <3>4, <3>7
  <2> QED BY <2>1, <2>2
<1>5. NeedsHold(m)
  <2> SUFFICES ASSUME NEW j \in DOMAIN more PROVE NeedIsOf(m, more[j])
    BY <1>2 DEF NeedsHold
  <2>1. CASE j \in DOMAIN k.need
    <3>1. NeedIsOf(k, k.need[j])
      BY <1>1, <2>1 DEF NeedsHold
    <3> QED BY <1>2, <1>3, <1>4, <2>1, <3>1 DEF NeedIsOf
  <2> QED BY <1>4, <2>1
<1>6. ResultsHold(m)
  <2> SUFFICES ASSUME NEW i \in DOMAIN m.results PROVE Resolved(m.queries[i], m.results[i], m.seen) \/ Waits(m, i)
    BY DEF ResultsHold
  <2>1. CASE i \in DOMAIN k.results
    <3>1. Resolved(k.queries[i], k.results[i], k.seen) \/ Waits(k, i)
      BY <1>1, <2>1 DEF ResultsHold
    <3> QED BY <1>2, <1>3, <1>4, <2>1, <3>1 DEF Waits
  <2>2. CASE i \notin DOMAIN k.results
    <3>1. i = n
      BY <1>3, <2>2
    <3>2. Resolved(m.queries[n], m.results[n], m.seen) \/ (m.results[n] = Pending /\ \E j \in DOMAIN m.need : m.need[j].at = n)
      BY <1>2, <1>3, <1>4
    <3> QED BY <3>1, <3>2 DEF Waits
  <2> QED BY <2>1, <2>2
<1>7. Lengths(m)
  BY <1>2, <1>3 DEF Lengths, EarlySteps
<1>8. CallInv(m)
  BY <1>2, <1>5, <1>6, <1>7 DEF CallInv, WorkHolds, AnswerHolds
<1> QED BY <1>8 DEF m

LEMMA AtIsNext ==
    ASSUME ResolveInv, NEW c \in Callers, At(c) <= Len(call[c].queries)
    PROVE  /\ At(c) = Len(call[c].results) + 1 /\ Len(call[c].results) < Len(call[c].queries)
           /\ At(c) \in DOMAIN call[c].queries /\ IsQuery(call[c].queries[At(c)])
<1>1. call[c].results \in Seq(ResultType) /\ call[c].queries \in Seq(TermType)
  BY CallOfInv DEF CallInv, CallType
<1>2. At(c) = Len(call[c].results) + 1 /\ Len(call[c].results) < Len(call[c].queries) /\ At(c) \in DOMAIN call[c].queries
  BY <1>1 DEF At
<1> QED BY <1>2, CallOfInv DEF CallInv

LEMMA SkipKeeps == ASSUME ResolveInv, NEW c \in Callers, SkipEmpty(c) PROVE CallsInv'
<1> DEFINE q == call[c].queries[At(c)]
           k == call[c]
           m == [k EXCEPT !.results = Append(k.results, NotFound(q)), !.need = k.need]
<1>1. IsQuery(q) /\ q.text = NoText /\ k.step = "pass1" /\ Len(k.results) < Len(k.queries) /\ At(c) = Len(k.results) + 1
  BY AtIsNext DEF SkipEmpty
<1>2. NotFound(q) \in ResultType /\ Resolved(q, NotFound(q), k.seen)
  BY <1>1, NotFoundIsRight DEF Resolved, Justified, Right
<1>3. CallInv(k) /\ k.need \in Seq(NeedType) /\ k \in CallType
  BY CallOfInv DEF CallInv, CallType
<1>4. CallInv(m)
  <2> HIDE DEF k
  <2>1. NotFound(q) \in ResultType /\ k.need = k.need
    BY <1>2
  <2>2. Resolved(k.queries[At(c)], NotFound(q), k.seen)
    BY <1>2 DEF k
  <2> QED BY <1>1, <1>3, <2>1, <2>2, Added
<1>5. call' = [call EXCEPT ![c] = m]
  <2>1. call' = [call EXCEPT ![c].results = Append(@, NotFound(q))]
    BY DEF SkipEmpty
  <2>2. m = [k EXCEPT !.results = Append(k.results, NotFound(q))]
    BY <1>3 DEF CallType
  <2> QED BY <2>1, <2>2 DEF ResolveInv, CallsInv
<1> HIDE DEF m
<1> QED BY <1>4, <1>5, OneCall

LEMMA FirstPassKeeps == ASSUME ResolveInv, NEW c \in Callers, FirstPass(c) PROVE CallsInv'
<1> DEFINE q == call[c].queries[At(c)]
           k == call[c]
           Entry(p) == [at |-> At(c), q |-> q, fts |-> p.fts]
           More(p) == IF p.result = Pending THEN Append(k.need, Entry(p)) ELSE k.need
           M(p) == [k EXCEPT !.results = Append(k.results, p.result), !.need = More(p)]
<1>1. /\ IsQuery(q) /\ q.text # NoText /\ k.step = "pass1" /\ Len(k.results) < Len(k.queries)
      /\ At(c) = Len(k.results) + 1
  BY AtIsNext DEF FirstPass
<1>2. CallInv(k) /\ k \in CallType /\ k.need \in Seq(NeedType) /\ At(c) \in Nat
  <2>1. CallInv(k) /\ k \in CallType /\ k.need \in Seq(NeedType) /\ k.results \in Seq(ResultType)
    BY CallOfInv DEF CallInv, CallType
  <2>2. At(c) \in Nat
    <3>1. Len(k.results) \in Nat
      BY <2>1, LenProperties
    <3> QED BY <1>1, <3>1
  <2> QED BY <2>1, <2>2
<1>3. PICK p \in Pass1(q, searchable) :
          call' = [call EXCEPT ![c].results = Append(@, p.result),
                               ![c].need = IF p.result = Pending THEN Append(@, Entry(p)) ELSE @]
  BY DEF FirstPass
<1>0. k.seen \subseteq searchable
  BY DEF ResolveInv, RowsInv
<1>4. p.result # Pending => Resolved(q, p.result, k.seen)
  BY <1>0, <1>1, FirstPassResolves
<1>5. p.result = Pending => Unnamed(q, k.seen) /\ p.fts \in Seq(InScope(q))
  BY <1>0, <1>1, FirstPassResolves
<1>6. p.result \in ResultType
  <2>1. Pending \in ResultType
    <3>1. NoRow \in Entities \union {NoRow}
      OBVIOUS
    <3> QED BY <3>1 DEF Pending, ResultType
  <2> QED BY <1>4, <2>1 DEF Resolved, Right
<1>7. More(p) \in Seq(NeedType)
  <2>1. CASE p.result # Pending
    BY <1>2, <2>1
  <2>2. CASE p.result = Pending
    <3>1. p.fts \in Seq(InScope(q))
      BY <1>5, <2>2
    <3>2. InScope(q) \subseteq Entities
      BY ScopeOfEntities
    <3>3. p.fts \in Seq(Entities)
      BY <3>1, <3>2
    <3>4. Entry(p) \in NeedType
      BY <1>1, <1>2, <3>3 DEF NeedType, IsQuery
    <3> HIDE DEF Entry
    <3> QED BY <1>2, <2>2, <3>4
  <2> QED BY <2>1, <2>2
<1>8. CallInv(M(p))
  <2> DEFINE more == More(p)
  <2>1. \/ more = k.need /\ Resolved(q, p.result, k.seen)
        \/ /\ p.result = Pending /\ Unnamed(q, k.seen)
           /\ \E fts \in Seq(InScope(q)) : more = Append(k.need, [at |-> At(c), q |-> q, fts |-> fts])
    BY <1>4, <1>5
  <2>2. more \in Seq(NeedType)
    BY <1>7
  <2>4. q = k.queries[At(c)]
    OBVIOUS
  <2> HIDE DEF k, more, q
  <2>3. CallInv([k EXCEPT !.results = Append(k.results, p.result), !.need = more])
    BY <1>1, <1>2, <1>6, <2>1, <2>2, <2>4, Added
  <2> QED BY <2>3 DEF more
<1>9. call' = [call EXCEPT ![c] = M(p)]
  BY <1>3 DEF ResolveInv, CallsInv
<1> HIDE DEF M
<1> QED BY <1>8, <1>9, OneCall

LEMMA EndFirstPassKeeps == ASSUME ResolveInv, NEW c \in Callers, EndFirstPass(c) PROVE CallsInv'
<1>1. call[c].results \in Seq(ResultType) /\ call[c].queries \in Seq(TermType)
  BY CallOfInv DEF CallInv, CallType
<1>2. Len(call[c].results) + 1 > Len(call[c].queries) /\ call[c].step = "pass1" /\ Steps(c, "embed")
  BY DEF EndFirstPass, At
<1>3. Len(call[c].results) <= Len(call[c].queries)
  BY CallOfInv DEF CallInv, Lengths
<1>4. Len(call[c].results) = Len(call[c].queries)
  BY <1>1, <1>2, <1>3, LenProperties
<1>5. "embed" \in CallSteps /\ "embed" \notin EarlySteps
  BY DEF CallSteps, EarlySteps
<1> QED BY <1>2, <1>4, <1>5, StepsKeep

\* The embeddings arrive, or do not.
LEMMA Embedded ==
    ASSUME NEW k, CallInv(k), k.step = "embed", NEW embedded \in Seq(STRING),
           embedded = <<>> \/ \A j \in DOMAIN k.need : embedded[j] = k.need[j].q.text
    PROVE  CallInv([k EXCEPT !.step = "pass2", !.embedded = embedded])
<1> DEFINE m == [k EXCEPT !.step = "pass2", !.embedded = embedded]
<1>1. /\ m \in CallType /\ m.step = "pass2" /\ m.queries = k.queries /\ m.results = k.results
      /\ m.need = k.need /\ m.embedded = embedded /\ m.seen = k.seen
  BY DEF CallInv, CallType, CallSteps
<1> HIDE DEF m
<1>2. Lengths(m)
  BY <1>1 DEF CallInv, Lengths, EarlySteps
<1>3. NeedsHold(m) /\ ResultsHold(m)
  <2>1. NeedsHold(k) /\ ResultsHold(k)
    BY DEF CallInv, WorkHolds
  <2>2. NeedsHold(m)
    BY <1>1, <2>1 DEF NeedsHold, NeedIsOf
  <2>3. ResultsHold(m)
    BY <1>1, <2>1 DEF ResultsHold, Waits
  <2> QED BY <2>2, <2>3
<1>5. EmbeddedHold(m)
  BY <1>1 DEF EmbeddedHold
<1>4. CallInv(m)
  BY <1>1, <1>2, <1>3, <1>5 DEF CallInv, WorkHolds, AnswerHolds
<1> QED BY <1>4 DEF m

LEMMA EmbedKeeps == ASSUME ResolveInv, NEW c \in Callers, Embed(c) PROVE CallsInv'
<1> DEFINE k == call[c]
           need == call[c].need
           Listed(order) == [i \in DOMAIN need |-> [index |-> order[i], text |-> need[order[i]].q.text]]
           M(order) == [k EXCEPT !.step = "pass2", !.embedded = ByIndex(Listed(order))]
<1>1. CallInv(k) /\ k.step = "embed" /\ need \in Seq(NeedType)
  BY CallOfInv DEF CallInv, CallType, Embed
<1>2. PICK order \in [DOMAIN need -> DOMAIN need] :
          /\ IsInjective(order)
          /\ call' = [call EXCEPT ![c].step = "pass2", ![c].embedded = ByIndex(Listed(order))]
  BY DEF Embed
<1> DEFINE data == Listed(order)
           embedded == ByIndex(data)
<1>3. \A j \in DOMAIN need : embedded[j] = need[j].q.text
  <2> HIDE DEF need, embedded
  <2>1. data = [i \in DOMAIN need |-> [index |-> order[i], text |-> need[order[i]].q.text]]
    OBVIOUS
  <2> HIDE DEF data
  <2> QED BY <1>1, <1>2, <2>1, EmbeddingOfTerm DEF embedded
<1>4. embedded \in Seq(STRING)
  <2>1. embedded = [j \in DOMAIN need |-> embedded[j]]
    <3> DEFINE Text(i) == data[SelectInSeq(data, LAMBDA d : d.index = i)].text
    <3>1. embedded = [i \in DOMAIN data |-> Text(i)] /\ DOMAIN data = DOMAIN need
      BY DEF ByIndex
    <3> HIDE DEF Text, embedded, data, need
    <3> QED BY <3>1
  <2>2. \A j \in DOMAIN need : need[j].q.text \in STRING
    <3>1. \A j \in DOMAIN need : need[j] \in NeedType
      BY <1>1
    <3>2. \A n \in NeedType : n.q.text \in STRING
      BY DEF NeedType, TermType
    <3> QED BY <3>1, <3>2
  <2> HIDE DEF need, embedded
  <2>3. Len(need) \in Nat /\ DOMAIN need = 1..Len(need)
    BY <1>1, LenProperties
  <2>4. \A j \in 1..Len(need) : embedded[j] \in STRING
    BY <1>3, <2>2, <2>3
  <2>5. embedded = [j \in 1..Len(need) |-> embedded[j]]
    BY <2>1, <2>3
  <2> QED BY <2>3, <2>4, <2>5
<1>5. CallInv(M(order))
  <2>1. \A j \in DOMAIN k.need : embedded[j] = k.need[j].q.text
    BY <1>3
  <2> HIDE DEF embedded, k
  <2>2. CallInv([k EXCEPT !.step = "pass2", !.embedded = embedded])
    BY <1>1, <1>4, <2>1, Embedded
  <2> QED BY <2>2 DEF embedded
<1>6. call' = [call EXCEPT ![c] = M(order)]
  BY <1>2 DEF ResolveInv, CallsInv
<1> HIDE DEF M
<1> QED BY <1>5, <1>6, OneCall

LEMMA NoEmbeddingKeeps == ASSUME ResolveInv, NEW c \in Callers, NoEmbedding(c) PROVE CallsInv'
<1>1. call[c].step = "embed" /\ Steps(c, "pass2")
  BY DEF NoEmbedding
<1>3. Len(call[c].results) = Len(call[c].queries)
  BY <1>1, CallOfInv DEF CallInv, Lengths
<1>4. "pass2" \in CallSteps /\ "pass2" \notin EarlySteps
  BY DEF CallSteps, EarlySteps
<1> QED BY <1>1, <1>3, <1>4, StepsKeep

\* The second pass puts a result in the place of one that waits.
LEMMA Placed ==
    ASSUME NEW k, CallInv(k), k.step = "pass2", NEW j \in DOMAIN k.need, NEW result,
           Resolved(k.need[j].q, result, k.seen)
    PROVE  CallInv([k EXCEPT !.results = [k.results EXCEPT ![k.need[j].at] = result]])
<1> DEFINE n == k.need[j].at
           m == [k EXCEPT !.results = [k.results EXCEPT ![n] = result]]
<1>1. /\ k \in CallType /\ k.results \in Seq(ResultType) /\ NeedsHold(k) /\ ResultsHold(k) /\ EmbeddedHold(k)
      /\ Len(k.results) = Len(k.queries) /\ Len(k.results) <= Len(k.queries)
  BY DEF CallInv, CallType, WorkHolds, Lengths
<1>2. n \in DOMAIN k.results /\ k.need[j].q = k.queries[n] /\ result \in ResultType
  BY <1>1 DEF NeedsHold, NeedIsOf, Resolved, Right
<1> HIDE DEF n
<1> DEFINE t == [k.results EXCEPT ![n] = result]
<1>3. /\ t \in Seq(ResultType) /\ Len(t) = Len(k.results) /\ DOMAIN t = DOMAIN k.results
      /\ t[n] = result /\ \A i \in DOMAIN t : i # n => t[i] = k.results[i]
  BY <1>1, <1>2
<1> HIDE DEF t
<1>4. /\ m \in CallType /\ m.step = "pass2" /\ m.queries = k.queries /\ m.results = t
      /\ m.need = k.need /\ m.embedded = k.embedded /\ m.seen = k.seen
  BY <1>1, <1>3 DEF CallType, t
<1> HIDE DEF m
<1>5. Lengths(m)
  BY <1>1, <1>3, <1>4 DEF Lengths, EarlySteps
<1>6. NeedsHold(m)
  BY <1>1, <1>3, <1>4 DEF NeedsHold, NeedIsOf
<1>7. ResultsHold(m)
  <2> SUFFICES ASSUME NEW i \in DOMAIN m.results PROVE Resolved(m.queries[i], m.results[i], m.seen) \/ Waits(m, i)
    BY DEF ResultsHold
  <2>1. CASE i = n
    BY <1>2, <1>3, <1>4, <2>1
  <2>2. CASE i # n
    <3>1. Resolved(k.queries[i], k.results[i], k.seen) \/ Waits(k, i)
      BY <1>1, <1>3, <1>4 DEF ResultsHold
    <3>2. m.results[i] = k.results[i]
      BY <1>3, <1>4, <2>2
    <3> QED BY <1>4, <3>1, <3>2 DEF Waits
  <2> QED BY <2>1, <2>2
<1>8. EmbeddedHold(m)
  BY <1>1, <1>4 DEF EmbeddedHold
<1>9. CallInv(m)
  BY <1>4, <1>5, <1>6, <1>7, <1>8 DEF CallInv, WorkHolds, AnswerHolds
<1> QED BY <1>9 DEF m, n

LEMMA SecondPassKeeps == ASSUME ResolveInv, NEW c \in Callers, SecondPass(c) PROVE CallsInv'
<1> DEFINE k == call[c]
<1>1. CallInv(k) /\ k.step = "pass2" /\ NeedsHold(k) /\ EmbeddedHold(k)
  BY CallOfInv DEF SecondPass, CallInv, WorkHolds
<1>2. PICK j \in DOMAIN k.need :
          \E result \in Pass2(k.need[j].q, k.need[j].fts, IF k.embedded = <<>> THEN NoText ELSE k.embedded[j],
                                searchable, withVector) :
              call' = [call EXCEPT ![c].results[k.need[j].at] = result]
  BY DEF SecondPass, Unresolved
<1> DEFINE n == k.need[j]
           sent == IF k.embedded = <<>> THEN NoText ELSE k.embedded[j]
<1>3. PICK result \in Pass2(n.q, n.fts, sent, searchable, withVector) : call' = [call EXCEPT ![c].results[n.at] = result]
  BY <1>2
<1>4. sent \in {NoText, n.q.text}
  <2> HIDE DEF k
  <2> QED BY <1>1 DEF EmbeddedHold
<1>5. IsQuery(n.q) /\ Unnamed(n.q, k.seen) /\ n.fts \in Seq(InScope(n.q))
  <2>1. NeedIsOf(k, n)
    BY <1>1 DEF NeedsHold
  <2>2. Len(k.results) \in Nat /\ Len(k.queries) = Len(k.results) /\ DOMAIN k.results = DOMAIN k.queries
    <3>1. k.results \in Seq(ResultType) /\ k.queries \in Seq(TermType) /\ Len(k.queries) = Len(k.results)
      BY <1>1 DEF CallInv, CallType, Lengths
    <3> QED BY <3>1, LenProperties
  <2>3. n.at \in DOMAIN k.queries /\ n.q = k.queries[n.at]
    BY <2>1, <2>2 DEF NeedIsOf
  <2>4. IsQuery(k.queries[n.at])
    BY <1>1, <2>3 DEF CallInv
  <2> QED BY <2>1, <2>3, <2>4 DEF NeedIsOf
<1>6. Resolved(n.q, result, k.seen)
  <2>1. k.seen \subseteq searchable
    BY DEF ResolveInv, RowsInv
  <2> HIDE DEF n, sent, k
  <2> QED BY <1>3, <1>4, <1>5, <2>1, SecondPassResolves
<1> DEFINE m == [k EXCEPT !.results = [k.results EXCEPT ![n.at] = result]]
<1>7. CallInv(m)
  <2> HIDE DEF k
  <2> QED BY <1>1, <1>6, Placed
<1>8. call' = [call EXCEPT ![c] = m]
  BY <1>3 DEF ResolveInv, CallsInv
<1> HIDE DEF m
<1> QED BY <1>7, <1>8, OneCall

LEMMA EndKeeps == ASSUME ResolveInv, NEW c \in Callers, EndCall(c) PROVE CallsInv'
<1> DEFINE k == call[c]
<1>1. /\ k.results \in Seq(ResultType) /\ k.queries \in Seq(TermType) /\ k.step \in {"pass1", "pass2"}
      /\ Returns(c, k.results, "done")
  BY CallOfInv DEF CallInv, CallType, EndCall
<1>2. Len(k.results) = Len(k.queries)
  <2>1. CASE k.step = "pass2"
    BY <2>1, CallOfInv DEF CallInv, Lengths
  <2>2. CASE k.step = "pass1"
    <3>1. Len(k.results) + 1 > Len(k.queries) /\ Len(k.results) <= Len(k.queries)
      BY <2>2, CallOfInv DEF CallInv, Lengths, EndCall, At
    <3>2. Len(k.results) \in Nat /\ Len(k.queries) \in Nat
      BY <1>1, LenProperties
    <3> QED BY <3>1, <3>2
  <2> QED BY <1>1, <2>1, <2>2
<1>3. \A i \in DOMAIN k.results : ~Waits(k, i)
  <2> SUFFICES ASSUME NEW j \in DOMAIN k.need, k.results[k.need[j].at] = Pending PROVE FALSE
    BY DEF Waits
  <2>1. CASE k.step = "pass2"
    <3>1. j \in Unresolved(c)
      BY DEF Unresolved
    <3> QED BY <2>1, <3>1 DEF EndCall
  <2>2. CASE k.step = "pass1"
    <3>1. k.need = <<>>
      BY <2>2 DEF EndCall
    <3> QED BY <3>1
  <2> QED BY <1>1, <2>1, <2>2
<1>4. \A i \in DOMAIN k.results : Resolved(k.queries[i], k.results[i], k.seen)
  BY <1>1, <1>3, CallOfInv DEF CallInv, WorkHolds, ResultsHold
<1>5. \A i \in DOMAIN k.results : Right(k.queries[i], k.results[i]) /\ Justified(k.queries[i], k.results[i], k.seen)
  BY <1>4 DEF Resolved
<1> QED BY <1>1, <1>2, <1>5, ReturnsKeep

LEMMA StepKeepsCalls == ASSUME ResolveInv, ResolveNext PROVE CallsInv'
<1>1. CASE MakeTable \/ LoadType \/ EmbedRows
  BY <1>1 DEF MakeTable, LoadType, EmbedRows, ResolveInv, CallsInv
<1>2. ASSUME NEW c \in Callers, NextCall(c) PROVE CallsInv'
  <2>1. call' = [call EXCEPT ![c] = Idle]
    BY <1>2 DEF NextCall
  <2> QED BY <2>1, IdleHolds, OneCall
<1>3. ASSUME NEW c \in Callers,
             OpenPool(c) \/ Connect(c) \/ LookForTable(c) \/ NoteTable(c)
      PROVE  CallsInv'
  BY <1>3, EarlyKeeps
<1>4. ASSUME NEW c \in Callers, SkipEmpty(c) \/ FirstPass(c) \/ EndFirstPass(c) PROVE CallsInv'
  BY <1>4, SkipKeeps, FirstPassKeeps, EndFirstPassKeeps
<1>5. ASSUME NEW c \in Callers, Embed(c) \/ NoEmbedding(c) \/ SecondPass(c) PROVE CallsInv'
  BY <1>5, EmbedKeeps, NoEmbeddingKeeps, SecondPassKeeps
<1>6. ASSUME NEW c \in Callers, BeginCall(c) \/ NoTable(c) \/ EndCall(c) \/ CallFails(c) PROVE CallsInv'
  BY <1>6, BeginKeeps, NoTableKeeps, EndKeeps, FaultKeeps
<1> QED BY <1>1, <1>2, <1>3, <1>4, <1>5, <1>6 DEF ResolveNext

\* A call that goes on has seen what it had, or what is there.
Sees(c) == call'[c].seen \subseteq searchable /\ \A d \in Callers \ {c} : call'[d] = call[d]

LEMMA SeenStays ==
    ASSUME ResolveInv, NEW c \in Callers, Sees(c), searchable' = searchable
    PROVE  RowsInv'
<1>1. ASSUME NEW d \in Callers PROVE call'[d].seen \subseteq searchable
  <2>1. call[d].seen \subseteq searchable
    BY DEF ResolveInv, RowsInv
  <2> QED BY <2>1 DEF Sees
<1>2. searchable \subseteq Entities
  BY DEF ResolveInv, RowsInv
<1> QED BY <1>1, <1>2 DEF RowsInv

\* Rows are only added, and a call sees those of its beginning.
LEMMA StepKeepsRows == ASSUME ResolveInv, ResolveNext PROVE RowsInv'
<1>1. /\ call \in [Callers -> CallType] /\ searchable \subseteq Entities
      /\ \A c \in Callers : call[c] \in CallType /\ call[c].seen \subseteq searchable
  BY DEF ResolveInv, CallsInv, RowsInv
<1>2. CASE MakeTable \/ LoadType \/ EmbedRows
  <2>1. call' = call /\ searchable \subseteq searchable' /\ searchable' \subseteq Entities
    BY <1>1, <1>2 DEF MakeTable, LoadType, EmbedRows, OfType
  <2> QED BY <1>1, <2>1 DEF RowsInv
<1>3. ASSUME NEW c \in Callers, NEW to, Steps(c, to), searchable' = searchable PROVE RowsInv'
  <2> DEFINE k == [call[c] EXCEPT !.step = to]
  <2>1. call' = [call EXCEPT ![c] = k]
    BY <1>1, <1>3 DEF Steps
  <2>2. k.seen = call[c].seen
    BY <1>1 DEF CallType
  <2> HIDE DEF k
  <2>3. Sees(c)
    BY <1>1, <2>1, <2>2 DEF Sees
  <2> QED BY <1>3, <2>3, SeenStays
<1>4. ASSUME NEW c \in Callers, NEW results, NEW cause, Returns(c, results, cause), searchable' = searchable PROVE RowsInv'
  <2> DEFINE k == [call[c] EXCEPT !.step = "answered", !.results = results, !.cause = cause, !.need = <<>>, !.embedded = <<>>]
  <2>1. call' = [call EXCEPT ![c] = k]
    BY <1>1, <1>4 DEF Returns
  <2>2. k.seen = call[c].seen
    BY <1>1 DEF CallType
  <2> HIDE DEF k
  <2>3. Sees(c)
    BY <1>1, <2>1, <2>2 DEF Sees
  <2> QED BY <1>4, <2>3, SeenStays
<1>5. ASSUME NEW c \in Callers, BeginCall(c) PROVE RowsInv'
  <2>1. PICK qs \in Batches :
            call' = [call EXCEPT ![c] = [Idle EXCEPT !.step = IF opened THEN "connect" ELSE "open", !.queries = qs, !.seen = searchable]]
    BY <1>5 DEF BeginCall, table
  <2> DEFINE k == [Idle EXCEPT !.step = IF opened THEN "connect" ELSE "open", !.queries = qs, !.seen = searchable]
  <2>2. k.seen = searchable
    BY DEF Idle
  <2>3. searchable' = searchable /\ call' = [call EXCEPT ![c] = k]
    BY <1>5, <2>1 DEF BeginCall, table
  <2> HIDE DEF k
  <2>4. Sees(c)
    BY <1>1, <2>2, <2>3 DEF Sees
  <2> QED BY <2>3, <2>4, SeenStays
<1>6. ASSUME NEW c \in Callers, NextCall(c) PROVE RowsInv'
  <2>1. call' = [call EXCEPT ![c] = Idle] /\ searchable' = searchable
    BY <1>6 DEF NextCall, table
  <2>2. Idle.seen = {}
    BY DEF Idle
  <2>3. Sees(c)
    BY <1>1, <2>1, <2>2 DEF Sees
  <2> QED BY <2>1, <2>3, SeenStays
<1>7. ASSUME NEW c \in Callers,
             OpenPool(c) \/ Connect(c) \/ LookForTable(c) \/ NoteTable(c) \/ EndFirstPass(c) \/ NoEmbedding(c)
      PROVE  RowsInv'
  <2>1. PICK to : Steps(c, to) /\ searchable' = searchable
    BY <1>7 DEF OpenPool, Connect, LookForTable, NoteTable, EndFirstPass, NoEmbedding, table
  <2> QED BY <1>3, <2>1
<1>8. ASSUME NEW c \in Callers, NoTable(c) \/ EndCall(c) \/ CallFails(c) PROVE RowsInv'
  <2>1. PICK results, cause : Returns(c, results, cause) /\ searchable' = searchable
    BY <1>8 DEF NoTable, EndCall, CallFails, table
  <2> QED BY <1>4, <2>1
<1>9. ASSUME NEW c \in Callers, SkipEmpty(c) \/ FirstPass(c) PROVE RowsInv'
  <2>1. PICK results, need :
            call' = [call EXCEPT ![c] = [call[c] EXCEPT !.results = results, !.need = need]] /\ searchable' = searchable
    <3>1. CASE SkipEmpty(c)
      <4> DEFINE results == Append(call[c].results, NotFound(call[c].queries[At(c)]))
      <4>1. call' = [call EXCEPT ![c].results = results] /\ searchable' = searchable
        BY <1>1, <3>1 DEF SkipEmpty, table
      <4> HIDE DEF results
      <4>2. call' = [call EXCEPT ![c] = [call[c] EXCEPT !.results = results, !.need = call[c].need]]
        BY <1>1, <4>1 DEF CallType
      <4> QED BY <4>1, <4>2
    <3>2. CASE FirstPass(c)
      BY <1>1, <3>2 DEF FirstPass, table
    <3> QED BY <1>9, <3>1, <3>2
  <2> DEFINE k == [call[c] EXCEPT !.results = results, !.need = need]
  <2>2. k.seen = call[c].seen
    BY <1>1 DEF CallType
  <2>3. call' = [call EXCEPT ![c] = k]
    BY <2>1
  <2> HIDE DEF k
  <2>4. Sees(c)
    BY <1>1, <2>2, <2>3 DEF Sees
  <2> QED BY <2>1, <2>4, SeenStays
<1>10. ASSUME NEW c \in Callers, Embed(c) PROVE RowsInv'
  <2>1. PICK embedded :
            call' = [call EXCEPT ![c] = [call[c] EXCEPT !.step = "pass2", !.embedded = embedded]] /\ searchable' = searchable
    BY <1>1, <1>10 DEF Embed, table
  <2> DEFINE k == [call[c] EXCEPT !.step = "pass2", !.embedded = embedded]
  <2>2. k.seen = call[c].seen
    BY <1>1 DEF CallType
  <2>3. call' = [call EXCEPT ![c] = k]
    BY <2>1
  <2> HIDE DEF k
  <2>4. Sees(c)
    BY <1>1, <2>2, <2>3 DEF Sees
  <2> QED BY <2>1, <2>4, SeenStays
<1>11. ASSUME NEW c \in Callers, SecondPass(c) PROVE RowsInv'
  <2>1. PICK at, result :
            call' = [call EXCEPT ![c] = [call[c] EXCEPT !.results = [call[c].results EXCEPT ![at] = result]]] /\ searchable' = searchable
    BY <1>1, <1>11 DEF SecondPass, table
  <2> DEFINE k == [call[c] EXCEPT !.results = [call[c].results EXCEPT ![at] = result]]
  <2>2. k.seen = call[c].seen
    BY <1>1 DEF CallType
  <2>3. call' = [call EXCEPT ![c] = k]
    BY <2>1
  <2> HIDE DEF k
  <2>4. Sees(c)
    BY <1>1, <2>2, <2>3 DEF Sees
  <2> QED BY <2>1, <2>4, SeenStays
<1> QED BY <1>2, <1>5, <1>6, <1>7, <1>8, <1>9, <1>10, <1>11 DEF ResolveNext

LEMMA ResultsInvariant == ResolveSpec => []ResolveInv
<1>1. ResolveInv /\ ResolveNext => ResolveInv'
  BY StepKeepsCalls, StepKeepsRows DEF ResolveInv
<1>2. ResolveInv /\ UNCHANGED resolving => ResolveInv'
  BY DEF ResolveInv, CallsInv, RowsInv, resolving, table
<1> QED BY <1>1, <1>2, InitResolve, PTL DEF ResolveSpec

-----------------------------------------------------------------------------
(* The theorems of EntityResolution.                                         *)

\* One result per query, in their order and about their terms, however far a call came.
THEOREM ResultPerQuery == ResolveSpec => []OneResultPerQuery
<1>1. ResolveInv => OneResultPerQuery
  <2> SUFFICES ASSUME ResolveInv, NEW c \in Callers, Answered(c)
      PROVE  [i \in DOMAIN call[c].results |-> call[c].results[i].term]
                 = [i \in DOMAIN call[c].queries |-> call[c].queries[i].text]
    BY DEF OneResultPerQuery
  <2>1. /\ call[c].results \in Seq(ResultType) /\ call[c].queries \in Seq(TermType)
        /\ Len(call[c].results) = Len(call[c].queries)
    BY CallOfInv DEF CallInv, CallType, Lengths, Answered
  <2>2. DOMAIN call[c].results = DOMAIN call[c].queries
    BY <2>1, LenProperties
  <2>3. \A i \in DOMAIN call[c].results : call[c].results[i].term = call[c].queries[i].text
    BY CallOfInv DEF CallInv, AnswerHolds, Right, Answered
  <2> QED BY <2>2, <2>3
<1> QED BY <1>1, ResultsInvariant, PTL

\* A row that a term resolves to is of its type and is meant by it, or by a row of its name,
\* whatever order the embeddings come in and whatever became of the other terms.
THEOREM FoundIsMeant == ResolveSpec => []FoundIsMeantUnless
<1>1. ResolveInv => FoundIsMeantUnless
  BY CallOfInv DEF CallInv, AnswerHolds, Right, Meant, Answered, FoundIsMeantUnless
<1> QED BY <1>1, ResultsInvariant, PTL

\* A term that has an entity is only reported as unknown after a fault, or without the table.
THEOREM UnknownIsUnknown == ResolveSpec => []UnknownIsUnknownUnless
<1>1. ResolveInv => UnknownIsUnknownUnless
  BY CallOfInv DEF CallInv, AnswerHolds, Justified, Unnamed, Answered, UnknownIsUnknownUnless
<1> QED BY <1>1, ResultsInvariant, PTL

-----------------------------------------------------------------------------
(* CandidateSearch.                                                        *)

(* Parts of sequences.                                                     *)

LEMMA LeadingIs ==
    ASSUME NEW S, NEW s \in Seq(S), NEW n \in Int
    PROVE  /\ Leading(s, n) \in Seq(S) /\ Len(Leading(s, n)) \in Nat /\ Len(Leading(s, n)) <= Len(s)
           /\ DOMAIN Leading(s, n) = 1..Len(Leading(s, n)) /\ DOMAIN s = 1..Len(s)
           /\ \A i \in DOMAIN Leading(s, n) : i \in DOMAIN s /\ Leading(s, n)[i] = s[i]
           /\ n \in Nat => Len(Leading(s, n)) = IF Len(s) < n THEN Len(s) ELSE n
<1> DEFINE m == IF Len(s) < n THEN Len(s) ELSE n
           t == SubSeq(s, 1, m)
<1>1. Len(s) \in Nat /\ DOMAIN s = 1..Len(s) /\ m \in Int /\ m <= Len(s) /\ (n \in Nat => m \in Nat)
  BY LenProperties
<1>2. \A i \in 1..m : i \in DOMAIN s /\ s[i] \in S
  <2>1. \A i \in DOMAIN s : s[i] \in S
    BY ElementOfSeq, LenProperties
  <2> QED BY <1>1, <2>1
<1>3. Leading(s, n) = t
  BY DEF Leading
<1> HIDE DEF m
<1>4. /\ t \in Seq(S) /\ Len(t) = (IF 1 <= m THEN m - 1 + 1 ELSE 0)
      /\ \A i \in 1..(m - 1 + 1) : t[i] = s[1 + i - 1]
  BY <1>1, <1>2, SubSeqProperties
<1> HIDE DEF t
<1>5. Len(t) = (IF 1 <= m THEN m ELSE 0) /\ \A i \in 1..m : t[i] = s[i]
  BY <1>1, <1>4
<1>6. DOMAIN t = 1..Len(t)
  BY <1>4, LenProperties
<1> QED BY <1>1, <1>2, <1>3, <1>4, <1>5, <1>6 DEF m

LEMMA SelectedIs ==
    ASSUME NEW S, NEW s \in Seq(S), NEW I \in SUBSET DOMAIN s
    PROVE  /\ Selected(s, I) \in Seq(S) /\ Cardinality(I) \in Nat /\ Len(Selected(s, I)) = Cardinality(I)
           /\ DOMAIN Selected(s, I) = 1..Cardinality(I)
           /\ \A n \in 1..Cardinality(I) :
                  PlaceOf(I, [i \in I |-> i], n) \in I /\ Selected(s, I)[n] = s[PlaceOf(I, [i \in I |-> i], n)]
           /\ \A i \in I : \E n \in DOMAIN Selected(s, I) : Selected(s, I)[n] = s[i]
<1> DEFINE key == [i \in I |-> i]
<1>1. DOMAIN s = 1..Len(s) /\ Len(s) \in Nat /\ \A i \in I : s[i] \in S
  BY ElementOfSeq, LenProperties
<1>2. Sortable(I, key)
  BY <1>1, PlacesAreSortable
<1>3. Selected(s, I) = InOrder(s, I, key)
  BY DEF Selected
<1> HIDE DEF key
<1>4. InOrder(s, I, key) \in Seq(S) /\ Len(InOrder(s, I, key)) = Cardinality(I) /\ Cardinality(I) \in Nat
      /\ DOMAIN InOrder(s, I, key) = 1..Cardinality(I)
  BY <1>1, <1>2, InOrderIsSeq, InOrderHasMembers
<1>5. \A n \in 1..Cardinality(I) : PlaceOf(I, key, n) \in I /\ InOrder(s, I, key)[n] = s[PlaceOf(I, key, n)]
  BY <1>2, PlacesAreNumbered DEF InOrder
<1>6. \A i \in I : \E n \in DOMAIN InOrder(s, I, key) : InOrder(s, I, key)[n] = s[i]
  <2>1. \A i \in I : \E n \in 1..Cardinality(I) : PlaceOf(I, key, n) = i
    BY <1>2, PlacesAreNumbered
  <2> QED BY <1>4, <1>5, <2>1
<1> QED BY <1>3, <1>4, <1>5, <1>6 DEF key

LEMMA SelectedAll ==
    ASSUME NEW S, NEW s \in Seq(S)
    PROVE  Selected(s, DOMAIN s) = s
<1> DEFINE t == Selected(s, DOMAIN s)
<1>1. DOMAIN s = 1..Len(s) /\ Len(s) \in Nat
  BY LenProperties
<1>2. Cardinality(DOMAIN s) = Len(s)
  BY <1>1, FS_Interval
<1>3. t \in Seq(S) /\ Len(t) = Len(s)
  BY <1>2, SelectedIs
<1>4. ASSUME NEW n \in 1..Len(s) PROVE t[n] = s[n]
  <2>1. 1..n \subseteq DOMAIN s /\ n \in 1..Len(s)
    BY <1>1
  <2> QED BY <1>1, <2>1, SelectedFromTheStart
<1> HIDE DEF t
<1> QED BY <1>3, <1>4, SeqEqual DEF t

-----------------------------------------------------------------------------
(* vector_search.                                                          *)

People(d) == Range(Data[d].nearest)
RowType(d) == [id : People(d), from : {d}]
Fetched(d, limit, countries) == Leading(Data[d].nearest, FetchLimit(limit, countries))
RowsFrom(d, limit, countries) ==
    [i \in DOMAIN Fetched(d, limit, countries) |-> [id |-> Fetched(d, limit, countries)[i], from |-> d]]
DetailsFrom(d, rows) ==
    [p \in {rows[j].id : j \in {k \in DOMAIN rows : rows[k].id \in DOMAIN Data[d].country}} |->
        [id |-> p, from |-> d, country |-> Data[d].country[p]]]
DetailIn(details, r) == IF details # None /\ r.id \in DOMAIN details THEN details[r.id] ELSE NoDetail
OfCountries(details, countries, rows) ==
    {j \in DOMAIN rows : countries = {} \/ DetailIn(details, rows[j]).country \in countries}
AnswerFrom(rows, details, countries, limit) ==
    LET kept == Leading(Selected(rows, OfCountries(details, countries, rows)), limit)
    IN  [i \in DOMAIN kept |-> [id |-> kept[i].id, from |-> kept[i].from, detail |-> DetailIn(details, kept[i])]]

LEMMA RowsFetched ==
    ASSUME NEW d \in DOMAIN Data, NEW limit \in 1..MaxLimit, NEW countries
    PROVE  /\ FetchLimit(limit, countries) = (IF countries = {} THEN limit ELSE
                  IF limit * OverFetch > FetchCap THEN FetchCap ELSE limit * OverFetch)
           /\ Fetched(d, limit, countries) \in Seq(People(d))
           /\ RowsFrom(d, limit, countries) \in Seq(RowType(d))
           /\ DOMAIN RowsFrom(d, limit, countries) = DOMAIN Fetched(d, limit, countries)
           /\ \A j \in DOMAIN Fetched(d, limit, countries) :
                  RowsFrom(d, limit, countries)[j] = [id |-> Fetched(d, limit, countries)[j], from |-> d]
<1> DEFINE n == limit * OverFetch
           near == Fetched(d, limit, countries)
           rows == RowsFrom(d, limit, countries)
<1>1. limit \in Nat /\ limit <= FetchCap /\ FetchCap \in Nat /\ OverFetch \in Int
  <2>1. MaxLimit \in Nat /\ FetchCap \in Nat /\ MaxLimit <= FetchCap /\ OverFetch \in Int
    BY RowsAssumption
  <2> HIDE DEF n, near, rows
  <2> QED BY <2>1
<1>2. n \in Int
  BY <1>1
<1>3. FetchLimit(limit, countries) = (IF countries = {} THEN limit ELSE IF n > FetchCap THEN FetchCap ELSE n)
  BY <1>1 DEF FetchLimit
<1> HIDE DEF n
<1>4. FetchLimit(limit, countries) \in Int
  BY <1>1, <1>2, <1>3
<1>5. Data[d].nearest \in Seq(People(d))
  BY RowsAssumption DEF People
<1>6. near \in Seq(People(d)) /\ DOMAIN near = 1..Len(near) /\ Len(near) \in Nat
  BY <1>4, <1>5, LeadingIs DEF Fetched
<1>7. DOMAIN rows = DOMAIN near /\ \A j \in DOMAIN near : rows[j] = [id |-> near[j], from |-> d]
  BY DEF RowsFrom
<1>8. rows \in Seq(RowType(d))
  <2>1. \A j \in DOMAIN near : near[j] \in People(d)
    BY <1>6, ElementOfSeq
  <2>2. rows = [j \in 1..Len(near) |-> [id |-> near[j], from |-> d]]
    BY <1>6 DEF RowsFrom
  <2> HIDE DEF rows, near
  <2>3. rows \in [1..Len(near) -> RowType(d)]
    BY <1>6, <2>1, <2>2 DEF RowType
  <2> QED BY <1>6, <2>3, SeqDef
<1> QED BY <1>3, <1>6, <1>7, <1>8 DEF n

\* Whom the graph has in the countries asked for.
LEMMA ScopeIsOfCountries ==
    ASSUME NEW d \in DOMAIN Data, NEW limit \in 1..MaxLimit, NEW countries \in SUBSET Countries,
           NEW details, details = DetailsFrom(d, RowsFrom(d, limit, countries)), details # None
    PROVE  /\ countries # {} =>
                  OfCountries(details, countries, RowsFrom(d, limit, countries)) =
                  {j \in DOMAIN Fetched(d, limit, countries) :
                       /\ Fetched(d, limit, countries)[j] \in DOMAIN Data[d].country
                       /\ Data[d].country[Fetched(d, limit, countries)[j]] \in countries}
           /\ \A r \in Range(RowsFrom(d, limit, countries)) :
                  r.id \in DOMAIN Data[d].country => DetailIn(details, r).id = r.id /\ DetailIn(details, r).from = d
<1> DEFINE rows == RowsFrom(d, limit, countries)
           near == Fetched(d, limit, countries)
           country == Data[d].country
<1>1. DOMAIN rows = DOMAIN near /\ \A j \in DOMAIN near : rows[j] = [id |-> near[j], from |-> d]
  BY RowsFetched
<1>2. DOMAIN details = {rows[j].id : j \in {k \in DOMAIN rows : rows[k].id \in DOMAIN country}}
      /\ \A p \in DOMAIN details : details[p] = [id |-> p, from |-> d, country |-> country[p]]
  BY DEF DetailsFrom
<1>3. "" \notin countries
  <2>1. ASSUME NEW g \in DOMAIN Data, NEW p \in DOMAIN Data[g].country PROVE Data[g].country[p] # ""
    BY RowsAssumption
  <2>2. "" \notin Countries
    BY <2>1 DEF Countries
  <2> QED BY <2>2
<1> HIDE DEF rows, near, country
<1>4. ASSUME NEW j \in DOMAIN rows
      PROVE  /\ rows[j].id = near[j]
             /\ near[j] \in DOMAIN country =>
                    DetailIn(details, rows[j]) = [id |-> near[j], from |-> d, country |-> country[near[j]]]
             /\ near[j] \notin DOMAIN country => DetailIn(details, rows[j]) = NoDetail
  <2>1. rows[j].id = near[j]
    BY <1>1
  <2>2. ASSUME near[j] \in DOMAIN country
        PROVE  DetailIn(details, rows[j]) = [id |-> near[j], from |-> d, country |-> country[near[j]]]
    <3>1. near[j] \in DOMAIN details
      BY <1>2, <2>1, <2>2
    <3> QED BY <1>2, <2>1, <3>1 DEF DetailIn
  <2>3. ASSUME near[j] \notin DOMAIN country PROVE DetailIn(details, rows[j]) = NoDetail
    <3>1. near[j] \notin DOMAIN details
      BY <1>2, <2>3
    <3> QED BY <2>1, <3>1 DEF DetailIn
  <2> QED BY <2>1, <2>2, <2>3
<1>5. ASSUME countries # {}, NEW j \in DOMAIN rows
      PROVE  DetailIn(details, rows[j]).country \in countries <=> near[j] \in DOMAIN country /\ country[near[j]] \in countries
  <2>1. CASE near[j] \in DOMAIN country
    <3>1. DetailIn(details, rows[j]) = [id |-> near[j], from |-> d, country |-> country[near[j]]]
      BY <1>4, <2>1
    <3>2. DetailIn(details, rows[j]).country = country[near[j]]
      BY <3>1
    <3> QED BY <2>1, <3>2
  <2>2. CASE near[j] \notin DOMAIN country
    <3>1. DetailIn(details, rows[j]) = NoDetail
      BY <1>4, <2>2
    <3>2. NoDetail.country = ""
      BY DEF NoDetail
    <3>3. DetailIn(details, rows[j]).country \notin countries
      BY <1>3, <3>1, <3>2
    <3> QED BY <2>2, <3>3
  <2> QED BY <2>1, <2>2
<1>6. ASSUME countries # {}
      PROVE  OfCountries(details, countries, rows) = {j \in DOMAIN near : near[j] \in DOMAIN country /\ country[near[j]] \in countries}
  BY <1>1, <1>5, <1>6 DEF OfCountries
<1>7. ASSUME NEW r \in Range(rows), r.id \in DOMAIN country
      PROVE  DetailIn(details, r).id = r.id /\ DetailIn(details, r).from = d
  <2>1. PICK j \in DOMAIN rows : r = rows[j]
    BY DEF Range
  <2> QED BY <1>4, <1>7, <2>1
<1> QED BY <1>6, <1>7 DEF rows, near, country

\* The ids of the rows that are kept are the people that are kept.
LEMMA IdsOfKept ==
    ASSUME NEW S, NEW near \in Seq(S), NEW T, NEW rows \in Seq(T), DOMAIN rows = DOMAIN near,
           \A j \in DOMAIN near : rows[j].id = near[j],
           NEW I \in SUBSET DOMAIN near, NEW n \in Nat
    PROVE  /\ DOMAIN Leading(Selected(rows, I), n) = DOMAIN Leading(Selected(near, I), n)
           /\ Leading(Selected(near, I), n) \in Seq(S)
           /\ \A i \in DOMAIN Leading(Selected(rows, I), n) :
                  /\ Leading(Selected(rows, I), n)[i].id = Leading(Selected(near, I), n)[i]
                  /\ Leading(Selected(rows, I), n)[i] \in Range(rows)
<1> DEFINE a == Selected(rows, I)
           b == Selected(near, I)
           place(i) == PlaceOf(I, [k \in I |-> k], i)
<1>1. /\ a \in Seq(T) /\ Len(a) = Cardinality(I) /\ DOMAIN a = 1..Cardinality(I)
      /\ \A i \in 1..Cardinality(I) : place(i) \in I /\ a[i] = rows[place(i)]
  BY SelectedIs
<1>2. /\ b \in Seq(S) /\ Len(b) = Cardinality(I)
      /\ \A i \in 1..Cardinality(I) : place(i) \in I /\ b[i] = near[place(i)]
  BY SelectedIs
<1>3. \A i \in DOMAIN a : a[i].id = b[i] /\ a[i] \in Range(rows)
  <2> HIDE DEF a, b, place
  <2> TAKE i \in DOMAIN a
  <2>1. place(i) \in I /\ place(i) \in DOMAIN rows /\ a[i] = rows[place(i)] /\ b[i] = near[place(i)]
    BY <1>1, <1>2
  <2> QED BY <2>1 DEF Range
<1> HIDE DEF a, b
<1>4. /\ DOMAIN Leading(a, n) = 1..Len(Leading(a, n)) /\ Len(Leading(a, n)) = IF Len(a) < n THEN Len(a) ELSE n
      /\ \A i \in DOMAIN Leading(a, n) : i \in DOMAIN a /\ Leading(a, n)[i] = a[i]
  BY <1>1, LeadingIs
<1>5. /\ DOMAIN Leading(b, n) = 1..Len(Leading(b, n)) /\ Len(Leading(b, n)) = IF Len(b) < n THEN Len(b) ELSE n
      /\ \A i \in DOMAIN Leading(b, n) : Leading(b, n)[i] = b[i]
      /\ Leading(b, n) \in Seq(S)
  BY <1>2, LeadingIs
<1>6. DOMAIN Leading(a, n) = DOMAIN Leading(b, n)
  BY <1>1, <1>2, <1>4, <1>5
<1> QED BY <1>3, <1>4, <1>5, <1>6 DEF a, b

ToolFields == {"step", "limit", "countries", "term", "retries", "rows", "details", "answer"}
VectorSteps == {"embed", "rank", "enrich", "format"}

\* What a call c of vector_search has read so far, from tables t and graph g unless they moved.
VectorHolds(c, t, g, m) ==
    /\ c.step \in VectorSteps => c.term = <<>>
    /\ c.step \in VectorSteps \/ (c.step = "answered" /\ c.term = <<>>) =>
           c.limit \in 1..MaxLimit /\ c.countries \in SUBSET Countries
    /\ c.step \in {"embed", "rank", "enrich"} => c.details = None
    /\ ~m /\ (c.step \in {"enrich", "format"} \/ (c.step = "answered" /\ c.term = <<>>)) =>
           c.rows = RowsFrom(t, c.limit, c.countries)
    /\ ~m /\ (c.step = "format" \/ (c.step = "answered" /\ c.term = <<>>)) =>
           c.details = None \/ c.details = DetailsFrom(g, c.rows)
    /\ c.step = "answered" /\ c.term = <<>> => c.answer = AnswerFrom(c.rows, c.details, c.countries, c.limit)

LEMMA AnswerIsNearest ==
    ASSUME tables \in DOMAIN Data, VectorHolds(tool, tables, graph, moved), VectorAnswered,
           tool.details # None, ~moved, tables = graph
    PROVE  LET fetched == Leading(Data[tables].nearest, IF tool.countries = {} THEN tool.limit ELSE
                                    IF tool.limit * OverFetch > FetchCap THEN FetchCap ELSE tool.limit * OverFetch)
               country == Data[graph].country
               scope == {j \in DOMAIN fetched : fetched[j] \in DOMAIN country /\ country[fetched[j]] \in tool.countries}
               wanted == IF tool.countries = {} THEN fetched ELSE Selected(fetched, scope)
           IN  /\ tool.limit \in 1..MaxLimit
               /\ Ids(tool.answer) = Leading(wanted, tool.limit)
               /\ \A i \in DOMAIN tool.answer :
                      LET c == tool.answer[i]
                      IN  c.id \in DOMAIN country => c.detail.id = c.id /\ c.detail.from = c.from
<1> DEFINE d == tables
           l == tool.limit
           rows == RowsFrom(d, l, tool.countries)
           near == Fetched(d, l, tool.countries)
           country == Data[d].country
           places == OfCountries(tool.details, tool.countries, rows)
           scope == {j \in DOMAIN near : near[j] \in DOMAIN country /\ country[near[j]] \in tool.countries}
           wanted == IF tool.countries = {} THEN near ELSE Selected(near, scope)
           kept == Leading(Selected(rows, places), l)
<1>1. /\ l \in 1..MaxLimit /\ tool.countries \in SUBSET Countries /\ tool.rows = rows
      /\ tool.details = DetailsFrom(d, rows) /\ tool.answer = AnswerFrom(rows, tool.details, tool.countries, l)
  BY DEF VectorHolds, VectorAnswered
<1>2. /\ near \in Seq(People(d)) /\ rows \in Seq(RowType(d)) /\ DOMAIN rows = DOMAIN near
      /\ \A j \in DOMAIN near : rows[j].id = near[j] /\ rows[j].from = d
      /\ near = Leading(Data[d].nearest, IF tool.countries = {} THEN l ELSE
                                           IF l * OverFetch > FetchCap THEN FetchCap ELSE l * OverFetch)
  <2>1. FetchLimit(l, tool.countries) = (IF tool.countries = {} THEN l ELSE
                  IF l * OverFetch > FetchCap THEN FetchCap ELSE l * OverFetch)
    BY <1>1, RowsFetched
  <2>2. /\ near \in Seq(People(d)) /\ rows \in Seq(RowType(d)) /\ DOMAIN rows = DOMAIN near
        /\ \A j \in DOMAIN near : rows[j] = [id |-> near[j], from |-> d]
    BY <1>1, RowsFetched
  <2>3. near = Leading(Data[d].nearest, FetchLimit(l, tool.countries))
    BY DEF Fetched
  <2> HIDE DEF near, rows, l, d
  <2> QED BY <2>1, <2>2, <2>3
<1>3. /\ tool.countries # {} => places = scope
      /\ \A r \in Range(rows) :
             r.id \in DOMAIN country => DetailIn(tool.details, r).id = r.id /\ DetailIn(tool.details, r).from = d
  BY <1>1, ScopeIsOfCountries
<1>4. tool.countries = {} => places = DOMAIN near
  BY <1>2 DEF OfCountries
<1>5. Selected(near, places) = wanted /\ places \in SUBSET DOMAIN near /\ l \in Nat
  <2>1. l \in Nat
    <3>1. MaxLimit \in Nat
      BY RowsAssumption
    <3> HIDE DEF l
    <3> QED BY <1>1, <3>1
  <2>2. places \in SUBSET DOMAIN near
    BY <1>2 DEF OfCountries
  <2>3. Selected(near, places) = wanted
    <3> HIDE DEF near, places, scope
    <3> QED BY <1>2, <1>3, <1>4, SelectedAll
  <2> QED BY <2>1, <2>2, <2>3
<1>6. /\ DOMAIN kept = DOMAIN Leading(wanted, l) /\ Leading(wanted, l) \in Seq(People(d))
      /\ \A i \in DOMAIN kept : kept[i].id = Leading(wanted, l)[i] /\ kept[i] \in Range(rows)
  <2> HIDE DEF near, places, scope, rows, l, wanted
  <2> QED BY <1>2, <1>5, IdsOfKept
<1>7. tool.answer = [i \in DOMAIN kept |->
          [id |-> kept[i].id, from |-> kept[i].from, detail |-> DetailIn(tool.details, kept[i])]]
  BY <1>1 DEF AnswerFrom
<1> HIDE DEF rows, near, country, places, scope, wanted, kept, l
<1>8. Ids(tool.answer) = Leading(wanted, l)
  <2>1. Ids(tool.answer) = [i \in DOMAIN kept |-> kept[i].id]
    BY <1>7 DEF Ids
  <2>2. Leading(wanted, l) = [i \in DOMAIN Leading(wanted, l) |-> Leading(wanted, l)[i]]
    BY <1>6, SeqDef
  <2> QED BY <1>6, <2>1, <2>2
<1>9. ASSUME NEW i \in DOMAIN tool.answer, tool.answer[i].id \in DOMAIN country
      PROVE  tool.answer[i].detail.id = tool.answer[i].id /\ tool.answer[i].detail.from = tool.answer[i].from
  <2>1. /\ i \in DOMAIN kept /\ tool.answer[i].id = kept[i].id /\ tool.answer[i].from = kept[i].from
        /\ tool.answer[i].detail = DetailIn(tool.details, kept[i]) /\ kept[i] \in Range(rows)
    BY <1>6, <1>7
  <2>2. kept[i].from = d
    <3>1. PICK j \in DOMAIN rows : kept[i] = rows[j]
      BY <2>1 DEF Range
    <3> QED BY <1>2, <3>1
  <2> QED BY <1>3, <1>9, <2>1, <2>2
<1> QED BY <1>1, <1>2, <1>8, <1>9, Zenon DEF wanted, scope, country, near, l, d

-----------------------------------------------------------------------------
(* The length of a search term.                                            *)

\* The letters of the first words, up to the nth.
IsTable(t, words, n) == t = [k \in 0..n |-> IF k = 0 THEN 0 ELSE t[k - 1] + Letters[words[k]]]

LEMMA TableExists == ASSUME NEW words, NEW n \in Nat PROVE \E t : IsTable(t, words, n)
<1> DEFINE Without == {m \in Nat : ~(\E t : IsTable(t, words, m))}
<1> SUFFICES ASSUME Without # {} PROVE FALSE
  OBVIOUS
<1>1. PICK m \in Without : \A y \in Without : m <= y
  <2> HIDE DEF Without
  <2>1. Without \in SUBSET Nat
    BY DEF Without
  <2> QED BY <2>1, LeastOf
<1>2. CASE m = 0
  <2>1. IsTable([k \in 0..0 |-> 0], words, 0)
    BY DEF IsTable
  <2> QED BY <1>2, <2>1
<1>3. CASE m # 0
  <2>1. m - 1 \in Nat /\ m - 1 \notin Without
    BY <1>1, <1>3
  <2>2. PICK s : IsTable(s, words, m - 1)
    BY <2>1
  <2> DEFINE t == [k \in 0..m |-> IF k = m THEN s[m - 1] + Letters[words[m]] ELSE s[k]]
  <2>3. ASSUME NEW k \in 0..m PROVE t[k] = IF k = 0 THEN 0 ELSE t[k - 1] + Letters[words[k]]
    <3>1. CASE k = m
      BY <3>1, <1>3, <2>1
    <3>2. CASE k # m
      <4>1. k \in 0..(m - 1)
        BY <3>2, <2>1
      <4>2. s[k] = IF k = 0 THEN 0 ELSE s[k - 1] + Letters[words[k]]
        BY <4>1, <2>2 DEF IsTable
      <4>3. k # 0 => k - 1 \in 0..m /\ k - 1 # m
        BY <4>1, <2>1
      <4> QED BY <3>2, <4>2, <4>3
    <3> QED BY <3>1, <3>2
  <2>4. DOMAIN t = 0..m /\ t = [k \in 0..m |-> t[k]]
    OBVIOUS
  <2> HIDE DEF t
  <2>5. IsTable(t, words, m)
    BY <2>3, <2>4 DEF IsTable
  <2> QED BY <1>1, <2>5
<1> QED BY <1>2, <1>3

\* Two words and the space between them have three characters.
LEMMA TwoWordsAreLong ==
    ASSUME NEW words \in Seq(DOMAIN Letters), Len(words) >= 2
    PROVE  Length(words) >= 3
<1> DEFINE letters == CHOOSE t : t = [k \in 0..Len(words) |-> IF k = 0 THEN 0 ELSE t[k - 1] + Letters[words[k]]]
           Few == {k \in 0..Len(words) : ~(letters[k] \in Nat /\ letters[k] >= k)}
<1>1. Len(words) \in Nat /\ \A k \in 1..Len(words) : Letters[words[k]] \in Nat \ {0}
  <2>1. \A k \in 1..Len(words) : words[k] \in DOMAIN Letters
    BY ElementOfSeq
  <2> QED BY <2>1, WordsAssumption, LenProperties
<1>2. Length(words) = letters[Len(words)] + Len(words) - 1
  BY DEF Length
<1>3. IsTable(letters, words, Len(words))
  BY <1>1, TableExists DEF IsTable
<1> HIDE DEF letters
<1>4. Few = {}
  <2> SUFFICES ASSUME Few # {} PROVE FALSE
    OBVIOUS
  <2>1. PICK k \in Few : \A y \in Few : k <= y
    <3>1. Few \in SUBSET Nat
      BY <1>1
    <3> HIDE DEF Few
    <3> QED BY <3>1, LeastOf
  <2>2. letters[k] = IF k = 0 THEN 0 ELSE letters[k - 1] + Letters[words[k]]
    BY <1>3, <2>1 DEF IsTable
  <2>3. CASE k = 0
    BY <2>1, <2>2, <2>3
  <2>4. CASE k # 0
    <3>1. k \in 1..Len(words) /\ k - 1 \in 0..Len(words) /\ k - 1 \notin Few
      BY <1>1, <2>1, <2>4
    <3> QED BY <1>1, <2>1, <2>2, <2>4, <3>1
  <2> QED BY <2>3, <2>4
<1>5. Len(words) \in 0..Len(words)
  BY <1>1
<1> QED BY <1>1, <1>2, <1>4, <1>5

-----------------------------------------------------------------------------
(* search_graph.                                                           *)

Part(words, j) == SubSeq(words, 1, Len(words) - j)
MatchesIn(g, words) == {n \in DOMAIN Data[g].name : words # <<>> /\ Range(words) \subseteq Range(Data[g].name[n])}
NoneIn(g, words, n) == \A j \in 0..(n - 1) : MatchesIn(g, Part(words, j)) = {}
EntryIn(g, n) == [id |-> n, label |-> Data[g].label[n], name |-> Data[g].name[n]]
EntriesIn(g, s) == [i \in DOMAIN s |-> EntryIn(g, s[i])]
FoundIn(g, words, limit, rows) ==
    \E s \in SetToSeqs(MatchesIn(g, words)) : rows = EntriesIn(g, Leading(s, limit))
NamedIn(rows, term) == {i \in DOMAIN rows : NameMatches(rows[i].name, SearchWords(term))}
ResultsOf(rows, term) ==
    IF Len(rows) > 1 /\ NamedIn(rows, term) # {} THEN Selected(rows, NamedIn(rows, term)) ELSE rows
Stops(words, q) == ~(q <= 3 /\ q < Len(words) /\ Length(Part(words, q)) >= 3)

\* The rows are those of the longest part of the term that has any.
LongestFound(c, g) ==
    LET words == StripTitles(c.term)
    IN  \/ Len(words) <= 1
        \/ c.rows # <<>> /\ \E j \in Nat : NoneIn(g, words, j) /\ FoundIn(g, Part(words, j), c.limit, c.rows)
        \/ c.rows = <<>> /\ \E q \in Nat : NoneIn(g, words, q) /\ Stops(words, q)

\* What a call c of search_graph has found so far in graph g, unless it moved.
GraphHolds(c, g, m) ==
    /\ c.step \in {"find", "retry", "verify"} => c.term # <<>>
    /\ c.step \in {"find", "retry", "verify"} \/ (c.step = "answered" /\ c.term # <<>>) =>
           c.term \in Searches /\ c.limit \in Limits
    /\ c.step = "retry" =>
           c.rows = <<>> /\ c.retries \in Nat /\ (~m /\ c.limit >= 1 => NoneIn(g, StripTitles(c.term), c.retries))
    /\ c.step = "verify" \/ (c.step = "answered" /\ c.term # <<>>) =>
           Len(c.rows) \in Nat /\ (~m /\ c.limit >= 1 => LongestFound(c, g))
    /\ c.step = "answered" /\ c.term # <<>> =>
           /\ c.answer.results = ResultsOf(c.rows, c.term)
           /\ c.answer.labels = LabelCounts(c.answer.results)

LEMMA TermsAreWords ==
    ASSUME NEW term \in Searches
    PROVE  /\ term \in Seq(DOMAIN Letters) /\ term # <<>>
           /\ Plain(term) \in Seq(DOMAIN Letters) /\ StripTitles(term) \in Seq(DOMAIN Letters)
           /\ Len(Plain(term)) \in Nat /\ Len(StripTitles(term)) \in Nat
           /\ Len(Plain(term)) >= 2 => StripTitles(term) = Plain(term)
<1>1. term \in Seq(DOMAIN Letters) /\ term # <<>>
  BY WordsAssumption
<1> DEFINE I == {i \in DOMAIN term : term[i] \notin Titles}
<1>2. I \in SUBSET DOMAIN term /\ Plain(term) = Selected(term, I)
  BY DEF Plain
<1> HIDE DEF I
<1>3. Plain(term) \in Seq(DOMAIN Letters)
  BY <1>1, <1>2, SelectedIs
<1>4. StripTitles(term) \in {term, Plain(term)}
  BY DEF StripTitles
<1>5. StripTitles(term) \in Seq(DOMAIN Letters)
  BY <1>1, <1>3, <1>4
<1>6. Len(Plain(term)) \in Nat /\ Len(StripTitles(term)) \in Nat
  BY <1>3, <1>5, LenProperties
<1>7. ASSUME Len(Plain(term)) >= 2 PROVE StripTitles(term) = Plain(term)
  <2>1. Plain(term) # <<>>
    BY <1>7, EmptySeq
  <2> QED BY <1>6, <1>7, <2>1 DEF StripTitles
<1> QED BY <1>1, <1>3, <1>5, <1>6, <1>7

LEMMA AllMatches ==
    ASSUME NEW g \in DOMAIN Data, NEW words, NEW s \in SetToSeqs(MatchesIn(g, words)), NEW limit \in Int
    PROVE  /\ s \in Seq(MatchesIn(g, words)) /\ Len(s) \in Nat
           /\ Len(Leading(s, limit)) \in Nat
           /\ Leading(s, limit) = <<>> /\ limit >= 1 => MatchesIn(g, words) = {}
           /\ Len(Leading(s, limit)) < limit =>
                  \A n \in MatchesIn(g, words) : \E i \in DOMAIN Leading(s, limit) : Leading(s, limit)[i] = n
<1> DEFINE M == MatchesIn(g, words)
           C == Cardinality(M)
           first == Leading(s, limit)
<1>1. IsFiniteSet(M) /\ C \in Nat
  <2>1. IsFiniteSet(DOMAIN Data[g].name) /\ M \in SUBSET DOMAIN Data[g].name
    BY WordsAssumption DEF MatchesIn
  <2> HIDE DEF M
  <2>2. IsFiniteSet(M)
    BY <2>1, FS_Subset
  <2> QED BY <2>2, FS_CardinalityType
<1> HIDE DEF M
<1>2. s \in [1..C -> M] /\ \A i, j \in 1..C : i # j => s[i] # s[j]
  BY DEF SetToSeqs, M
<1>3. s \in Seq(M) /\ Len(s) = C /\ DOMAIN s = 1..C
  <2>1. s \in Seq(M)
    BY <1>1, <1>2, SeqDef
  <2> QED BY <1>1, <1>2, <2>1, LenProperties
<1>4. \A n \in M : \E i \in 1..C : s[i] = n
  <2>1. s \in Injection(1..C, M)
    BY <1>2 DEF Injection, IsInjective
  <2>2. Cardinality(1..C) = C
    BY <1>1, FS_Interval
  <2>3. s \in Surjection(1..C, M)
    BY <1>1, <2>1, <2>2, FS_Injection
  <2> QED BY <2>3 DEF Surjection
<1>5. /\ Len(first) \in Nat /\ DOMAIN first = 1..Len(first)
      /\ \A i \in DOMAIN first : i \in DOMAIN s /\ first[i] = s[i]
      /\ limit \in Nat => Len(first) = IF C < limit THEN C ELSE limit
  BY <1>3, LeadingIs
<1> HIDE DEF C, first
<1>6. ASSUME first = <<>>, limit >= 1 PROVE M = {}
  <2>1. Len(first) = 0
    BY <1>6, EmptySeq
  <2>2. C = 0
    BY <1>1, <1>5, <1>6, <2>1
  <2> QED BY <1>1, <2>2, FS_EmptySet DEF C
<1>7. ASSUME Len(first) < limit, NEW n \in M PROVE \E i \in DOMAIN first : first[i] = n
  <2>1. Len(first) = C
    <3>1. limit \in Nat /\ Len(first) # limit
      <4>1. Len(first) \in Nat /\ Len(first) < limit
        BY <1>5, <1>7
      <4> QED BY <4>1
    <3>2. Len(first) = IF C < limit THEN C ELSE limit
      BY <1>5, <3>1
    <3> QED BY <1>1, <3>1, <3>2
  <2>2. PICK i \in 1..C : s[i] = n
    BY <1>4
  <2> QED BY <1>5, <2>1, <2>2
<1> QED BY <1>1, <1>3, <1>5, <1>6, <1>7 DEF M, first

\* The term without its last j words, when the first are a name.
PartIs(words, name, k, j) ==
    /\ Part(words, j) \in Seq(DOMAIN Letters) /\ Len(Part(words, j)) = Len(name) + (k - j)
    /\ Part(words, j) = SubSeq(words, 1, Len(name) + (k - j))
    /\ j = k => Part(words, j) = name

LEMMA PartsOfName ==
    ASSUME NEW words \in Seq(DOMAIN Letters), NEW name \in Seq(DOMAIN Letters), NEW k \in Nat,
           Len(words) = Len(name) + k, IsPrefix(name, words), NEW j \in 0..k
    PROVE  PartIs(words, name, k, j)
<1> DEFINE l == Len(words) - j
<1>1. Len(words) \in Nat /\ Len(name) \in Nat /\ l \in Nat /\ l <= Len(words) /\ l = Len(name) + (k - j)
  BY LenProperties
<1>2. \A i \in 1..l : words[i] \in DOMAIN Letters
  <2>1. \A i \in 1..Len(words) : words[i] \in DOMAIN Letters
    BY ElementOfSeq
  <2> QED BY <1>1, <2>1
<1>3. Part(words, j) = SubSeq(words, 1, l)
  BY DEF Part
<1> HIDE DEF l
<1>4. SubSeq(words, 1, l) \in Seq(DOMAIN Letters) /\ Len(SubSeq(words, 1, l)) = IF 1 <= l THEN l - 1 + 1 ELSE 0
  BY <1>1, <1>2, SubSeqProperties
<1>5. Len(SubSeq(words, 1, l)) = l
  BY <1>1, <1>4
<1>6. ASSUME j = k PROVE Part(words, j) = name
  <2>1. l = Len(name)
    BY <1>1, <1>6
  <2>2. SubSeq(name, 1, Len(name)) = SubSeq(words, 1, Len(name))
    BY DEF IsPrefix
  <2>3. SubSeq(name, 1, Len(name)) = name
    BY SubSeqFull
  <2> QED BY <1>3, <2>1, <2>2, <2>3
<1> QED BY <1>1, <1>3, <1>4, <1>5, <1>6 DEF PartIs

\* The name of p, then k more words none of which make the name another's.
BeginsWithName(c, g, p, k, name, words) ==
    /\ name = Data[g].name[p] /\ Len(name) >= 2 /\ words = Plain(c.term)
    /\ Len(words) = Len(name) + k /\ IsPrefix(name, words)
    /\ \A j \in 1..k : MatchesIn(g, SubSeq(words, 1, Len(name) + j)) = {}
FindsPerson(c, g, p) ==
    \E s \in Seq(DOMAIN Data[g].name) : c.rows = EntriesIn(g, s) /\ \E i \in DOMAIN s : s[i] = p

\* The longest part of the term that finds anybody is the name.
LEMMA NameIsFound ==
    ASSUME NEW g \in DOMAIN Data, NEW c, c.term \in Searches, c.limit \in Limits, LongestFound(c, g),
           Len(c.rows) \in Nat, Len(c.rows) < c.limit,
           NEW p \in DOMAIN Data[g].name, NEW k \in 0..3, NEW name, NEW words, BeginsWithName(c, g, p, k, name, words)
    PROVE  FindsPerson(c, g, p)
<1>a. /\ name = Data[g].name[p] /\ Len(name) >= 2 /\ words = Plain(c.term)
      /\ Len(words) = Len(name) + k /\ IsPrefix(name, words)
      /\ \A j \in 1..k : MatchesIn(g, SubSeq(words, 1, Len(name) + j)) = {}
  BY DEF BeginsWithName
<1>b. SUFFICES \E s \in Seq(DOMAIN Data[g].name) : c.rows = EntriesIn(g, s) /\ \E i \in DOMAIN s : s[i] = p
  BY DEF FindsPerson
<1>1. name \in Seq(DOMAIN Letters) /\ words \in Seq(DOMAIN Letters) /\ Len(name) \in Nat /\ Len(words) \in Nat
  BY <1>a, WordsAssumption, TermsAreWords, LenProperties
<1>2. StripTitles(c.term) = words /\ Len(words) >= 2
  BY <1>a, <1>1, TermsAreWords
<1>0. k \in Nat /\ k <= 3
  OBVIOUS
<1>3. ASSUME NEW j \in 0..k
      PROVE  /\ Part(words, j) \in Seq(DOMAIN Letters) /\ Len(Part(words, j)) = Len(name) + (k - j)
             /\ Part(words, j) = SubSeq(words, 1, Len(name) + (k - j))
             /\ j = k => Part(words, j) = name
  <2>1. PartIs(words, name, k, j)
    BY <1>a, <1>0, <1>1, PartsOfName
  <2> QED BY <2>1, Zenon DEF PartIs
<1>4. Part(words, k) = name /\ p \in MatchesIn(g, Part(words, k))
  <2>1. Part(words, k) = name
    BY <1>3
  <2>2. name # <<>>
    BY <1>a, <1>1, EmptySeq
  <2> QED BY <1>a, <2>1, <2>2 DEF MatchesIn
<1>5. ASSUME NEW n \in Nat, NoneIn(g, words, n) PROVE n <= k
  <2>1. SUFFICES ASSUME k < n PROVE FALSE
    OBVIOUS
  <2>2. k \in 0..(n - 1)
    BY <2>1
  <2> QED BY <1>4, <1>5, <2>2 DEF NoneIn
<1>6. ASSUME NEW j \in Nat, j < k PROVE MatchesIn(g, Part(words, j)) = {}
  <2>1. j \in 0..k /\ k - j \in 1..k
    BY <1>6
  <2> QED BY <1>a, <1>3, <2>1
<1>7. CASE c.rows # <<>> /\ \E j \in Nat : NoneIn(g, words, j) /\ FoundIn(g, Part(words, j), c.limit, c.rows)
  <2>1. PICK j \in Nat : NoneIn(g, words, j) /\ FoundIn(g, Part(words, j), c.limit, c.rows)
    BY <1>7
  <2>2. c.limit \in Int
    BY RowsAssumption
  <2>3. PICK s \in SetToSeqs(MatchesIn(g, Part(words, j))) : c.rows = EntriesIn(g, Leading(s, c.limit))
    BY <2>1 DEF FoundIn
  <2> DEFINE t == Leading(s, c.limit)
  <2>4. s \in Seq(MatchesIn(g, Part(words, j)))
    BY <2>2, <2>3, AllMatches
  <2>5. /\ t \in Seq(MatchesIn(g, Part(words, j))) /\ Len(t) \in Nat /\ DOMAIN t = 1..Len(t)
    BY <2>2, <2>4, LeadingIs
  <2>6. \A i \in DOMAIN t : t[i] \in MatchesIn(g, Part(words, j))
    BY <2>5, ElementOfSeq
  <2> HIDE DEF t
  <2>7. j = k
    <3>1. SUFFICES ASSUME j # k PROVE FALSE
      OBVIOUS
    <3>2. MatchesIn(g, Part(words, j)) = {}
      BY <1>5, <1>6, <2>1, <3>1
    <3>3. Len(t) = 0
      BY <2>5, <2>6, <3>2
    <3>4. c.rows = <<>>
      <4>1. DOMAIN t = {}
        BY <2>5, <3>3
      <4>2. c.rows = [i \in DOMAIN t |-> EntryIn(g, t[i])]
        BY <2>3 DEF EntriesIn, t
      <4>3. <<>> = [i \in {} |-> EntryIn(g, t[i])]
        OBVIOUS
      <4> QED BY <4>1, <4>2, <4>3
    <3> QED BY <1>7, <3>4
  <2>8. Len(t) < c.limit
    <3>1. c.rows = [i \in 1..Len(t) |-> EntryIn(g, t[i])]
      BY <2>3, <2>5 DEF EntriesIn, t
    <3>2. Len(c.rows) = Len(t)
      BY <2>5, <3>1
    <3> QED BY <3>2
  <2>9. \E i \in DOMAIN t : t[i] = p
    BY <1>4, <2>2, <2>3, <2>7, <2>8, AllMatches DEF t
  <2>10. t \in Seq(DOMAIN Data[g].name)
    <3> DEFINE D == DOMAIN Data[g].name
               M == MatchesIn(g, Part(words, j))
    <3>1. M \subseteq D
      BY DEF MatchesIn
    <3>2. t \in Seq(M)
      BY <2>5
    <3> HIDE DEF D, M
    <3>3. t \in Seq(D)
      BY <3>1, <3>2, SeqDef
    <3> QED BY <3>3 DEF D
  <2> QED BY <2>3, <2>9, <2>10 DEF t
<1>8. CASE c.rows = <<>> /\ \E q \in Nat : NoneIn(g, words, q) /\ Stops(words, q)
  <2>1. PICK q \in Nat : NoneIn(g, words, q) /\ Stops(words, q)
    BY <1>8
  <2>2. q <= k
    BY <1>5, <2>1
  <2>3. q \in 0..k /\ q <= 3 /\ q < Len(words)
    BY <1>a, <1>1, <2>2
  <2>4. Part(words, q) \in Seq(DOMAIN Letters) /\ Len(Part(words, q)) >= 2
    BY <1>a, <1>1, <1>3, <2>3
  <2>5. Length(Part(words, q)) >= 3
    BY <2>4, TwoWordsAreLong
  <2> QED BY <2>1, <2>3, <2>5 DEF Stops
<1>9. ~(Len(words) <= 1)
  BY <1>1, <1>2
<1> QED BY <1>2, <1>7, <1>8, <1>9 DEF LongestFound

NobodyElse(rows, term, g, p, k) ==
    /\ k = 0 => NameMatches(Data[g].name[p], SearchWords(term))
    /\ k > 0 => ~(\E r \in Range(rows) : r.id # p /\ NameMatches(r.name, SearchWords(term)))
ShowsPerson(results, term, g, p, k) ==
    /\ EntryIn(g, p) \in Range(results)
    /\ k = 0 => \A r \in Range(results) : NameMatches(r.name, SearchWords(term))

\* The person is among the results, by himself when the name is all there is.
LEMMA PersonIsShown ==
    ASSUME NEW term \in Searches, NEW g \in DOMAIN Data, NEW p, NEW k \in Nat, NEW c,
           FindsPerson(c, g, p), NobodyElse(c.rows, term, g, p, k)
    PROVE  ShowsPerson(ResultsOf(c.rows, term), term, g, p, k)
<1> DEFINE rows == c.rows
<1>a. PICK s \in Seq(DOMAIN Data[g].name) : rows = EntriesIn(g, s) /\ \E i \in DOMAIN s : s[i] = p
  BY DEF FindsPerson
<1>b. /\ k = 0 => NameMatches(Data[g].name[p], SearchWords(term))
      /\ k > 0 => ~(\E r \in Range(rows) : r.id # p /\ NameMatches(r.name, SearchWords(term)))
  BY DEF NobodyElse
<1>c. SUFFICES EntryIn(g, p) \in Range(ResultsOf(rows, term)) /\
               (k = 0 => \A r \in Range(ResultsOf(rows, term)) : NameMatches(r.name, SearchWords(term)))
  BY Zenon DEF ShowsPerson
<1> HIDE DEF rows
<1> DEFINE named == NamedIn(rows, term)
           Good(r) == NameMatches(r.name, SearchWords(term))
           Rows == Range(rows)
<1>1. DOMAIN s = 1..Len(s) /\ Len(s) \in Nat /\ DOMAIN rows = DOMAIN s /\ \A i \in DOMAIN s : rows[i] = EntryIn(g, s[i])
  BY <1>a, LenProperties DEF EntriesIn
<1>2. rows \in Seq(Rows) /\ Len(rows) = Len(s)
  <2>1. rows = [i \in 1..Len(s) |-> rows[i]] /\ \A i \in 1..Len(s) : rows[i] \in Range(rows)
    BY <1>a, <1>1 DEF EntriesIn, Range
  <2> HIDE DEF Rows
  <2>2. rows \in [1..Len(s) -> Rows]
    BY <2>1 DEF Rows
  <2> QED BY <1>1, <2>2, SeqDef, LenProperties
<1>3. PICK i \in DOMAIN rows : rows[i] = EntryIn(g, p)
  BY <1>a, <1>1
<1>4. \A n : EntryIn(g, n).id = n /\ EntryIn(g, n).name = Data[g].name[n]
  BY DEF EntryIn
<1>5. named = {n \in DOMAIN rows : Good(rows[n])}
  BY DEF NamedIn
<1> HIDE DEF named
<1>6. k = 0 => i \in named
  <2>1. k = 0 => Good(rows[i])
    BY <1>b, <1>3, <1>4
  <2> QED BY <1>3, <1>5, <2>1
<1>7. CASE Len(rows) > 1 /\ named # {}
  <2>1. ResultsOf(rows, term) = Selected(rows, named)
    BY <1>7 DEF ResultsOf, named
  <2>2. named \in SUBSET DOMAIN rows
    BY <1>5
  <2> DEFINE t == Selected(rows, named)
             place(n) == PlaceOf(named, [m \in named |-> m], n)
  <2>3. /\ DOMAIN t = 1..Cardinality(named)
        /\ \A n \in 1..Cardinality(named) : place(n) \in named /\ t[n] = rows[place(n)]
        /\ \A m \in named : \E n \in DOMAIN t : t[n] = rows[m]
    BY <1>2, <2>2, SelectedIs
  <2> HIDE DEF t, place
  <2>4. PICK m \in named : rows[m] = EntryIn(g, p)
    <3>1. CASE k = 0
      BY <1>3, <1>6, <3>1
    <3>2. CASE k > 0
      <4>1. PICK m \in named : TRUE
        BY <1>7
      <4>2. m \in DOMAIN rows /\ Good(rows[m]) /\ rows[m] \in Range(rows)
        BY <1>5 DEF Range
      <4>3. rows[m].id = p
        BY <1>b, <3>2, <4>2
      <4>4. rows[m] = EntryIn(g, s[m]) /\ s[m] = p
        BY <1>1, <1>4, <4>2, <4>3
      <4> QED BY <4>4
    <3> QED BY <3>1, <3>2
  <2>5. EntryIn(g, p) \in Range(t)
    <3>1. PICK n \in DOMAIN t : t[n] = rows[m]
      BY <2>3
    <3> QED BY <2>4, <3>1 DEF Range
  <2>6. \A r \in Range(t) : Good(r)
    <3> TAKE r \in Range(t)
    <3>1. PICK n \in DOMAIN t : r = t[n]
      BY DEF Range
    <3>2. place(n) \in named /\ r = rows[place(n)]
      BY <2>3, <3>1
    <3> QED BY <1>5, <3>2
  <2> QED BY <2>1, <2>5, <2>6 DEF t
<1>8. CASE ~(Len(rows) > 1 /\ named # {})
  <2>1. ResultsOf(rows, term) = rows
    BY <1>8 DEF ResultsOf, named
  <2>2. EntryIn(g, p) \in Range(rows)
    BY <1>3 DEF Range
  <2>3. ASSUME k = 0, NEW r \in Range(rows) PROVE Good(r)
    <3>1. PICK n \in DOMAIN rows : r = rows[n]
      BY DEF Range
    <3>2. ~(Len(rows) > 1)
      BY <1>6, <1>8, <2>3
    <3>3. n = i
      <4>1. n \in 1..Len(s) /\ i \in 1..Len(s) /\ ~(Len(s) > 1) /\ Len(s) \in Nat
        BY <1>1, <1>2, <1>3, <3>1, <3>2
      <4> QED BY <4>1
    <3> QED BY <1>5, <1>6, <2>3, <3>1, <3>3
  <2> QED BY <2>1, <2>2, <2>3
<1> QED BY <1>7, <1>8

LEMMA HoldsNamed ==
    ASSUME graph \in DOMAIN Data, GraphHolds(tool, graph, moved) PROVE NamedIsFoundUnless
<1> SUFFICES ASSUME GraphAnswered PROVE NamedIsFoundUnless
  BY DEF NamedIsFoundUnless
<1> DEFINE term == tool.term
           words == Plain(term)
           found == Range(tool.answer.results)
<1>1. /\ term \in Searches /\ tool.limit \in Limits /\ Len(tool.rows) \in Nat
      /\ ~moved /\ tool.limit >= 1 => LongestFound(tool, graph)
      /\ tool.answer.results = ResultsOf(tool.rows, term) /\ tool.answer.labels = LabelCounts(tool.answer.results)
  BY DEF GraphHolds, GraphAnswered
<1>2. ASSUME NEW p \in DOMAIN Data[graph].name, NEW k \in 0..3, NEW name, name = Data[graph].name[p],
             ~moved, ~(Len(tool.rows) >= tool.limit), ~(Len(name) < 2), ~(Len(words) # Len(name) + k), IsPrefix(name, words),
             ~(\E j \in 1..k : Matching(SubSeq(words, 1, Len(name) + j)) # {}),
             ~(k > 0 /\ \E r \in Range(tool.rows) : r.id # p /\ NameMatches(r.name, SearchWords(term)))
      PROVE  NodeEntry(p) \in found /\ (k = 0 => \A r \in found : NameMatches(r.name, SearchWords(term)))
  <2>1. name \in Seq(DOMAIN Letters) /\ Len(name) \in Nat /\ tool.limit \in Int /\ words \in Seq(DOMAIN Letters)
    BY <1>1, <1>2, WordsAssumption, RowsAssumption, LenProperties, TermsAreWords
  <2>2. Len(tool.rows) < tool.limit /\ tool.limit >= 1 /\ Len(name) >= 2 /\ Len(words) = Len(name) + k
    BY <1>1, <1>2, <2>1
  <2>3. \A j \in 1..k : MatchesIn(graph, SubSeq(words, 1, Len(name) + j)) = {}
    <3>1. \A w : Matching(w) = MatchesIn(graph, w)
      BY DEF Matching, MatchesIn
    <3> HIDE DEF words
    <3> QED BY <1>2, <3>1
  <2>4. LongestFound(tool, graph)
    BY <1>1, <1>2, <2>2
  <2>5. FindsPerson(tool, graph, p)
    <3>1. BeginsWithName(tool, graph, p, k, name, words)
      BY <1>2, <2>2, <2>3 DEF BeginsWithName
    <3> HIDE DEF words
    <3> QED BY <1>1, <2>2, <2>4, <3>1, NameIsFound
  <2>6. ASSUME k = 0 PROVE NameMatches(Data[graph].name[p], SearchWords(term))
    <3>1. words = name
      <4>1. Len(words) = Len(name)
        BY <2>1, <2>2, <2>6
      <4>2. SubSeq(name, 1, Len(name)) = SubSeq(words, 1, Len(name))
        BY <1>2 DEF IsPrefix
      <4>3. SubSeq(name, 1, Len(name)) = name /\ SubSeq(words, 1, Len(words)) = words
        BY <2>1, SubSeqFull
      <4> QED BY <4>1, <4>2, <4>3
    <3>2. SearchWords(term) \subseteq Range(name)
      BY <3>1 DEF SearchWords
    <3> QED BY <1>2, <3>2 DEF NameMatches
  <2>7. k > 0 => ~(\E r \in Range(tool.rows) : r.id # p /\ NameMatches(r.name, SearchWords(term)))
    BY <1>2
  <2>8. EntryIn(graph, p) \in Range(ResultsOf(tool.rows, term)) /\
        (k = 0 => \A r \in Range(ResultsOf(tool.rows, term)) : NameMatches(r.name, SearchWords(term)))
    <3>1. NobodyElse(tool.rows, term, graph, p, k)
      BY <2>6, <2>7 DEF NobodyElse
    <3>2. k \in Nat
      OBVIOUS
    <3>3. ShowsPerson(ResultsOf(tool.rows, term), term, graph, p, k)
      BY <1>1, <2>5, <3>1, <3>2, PersonIsShown
    <3> QED BY <3>3 DEF ShowsPerson
  <2>9. NodeEntry(p) = EntryIn(graph, p)
    BY DEF NodeEntry, EntryIn
  <2> QED BY <1>1, <2>8, <2>9
<1> QED BY <1>1, <1>2, Zenon DEF NamedIsFoundUnless

LEMMA HoldsNearest ==
    ASSUME tables \in DOMAIN Data, VectorHolds(tool, tables, graph, moved) PROVE NearestInScopeUnless
<1>1. CASE VectorAnswered /\ tool.details # None /\ ~moved /\ tables = graph
  BY <1>1, AnswerIsNearest, Zenon DEF NearestInScopeUnless
<1>2. CASE ~(VectorAnswered /\ tool.details # None /\ ~moved /\ tables = graph)
  BY <1>2, Zenon DEF NearestInScopeUnless
<1> QED BY <1>1, <1>2

-----------------------------------------------------------------------------
(* The steps of the two tools.                                             *)

GraphSteps == {"find", "retry", "verify"}
SearchHolds ==
    /\ tables \in DOMAIN Data /\ graph \in DOMAIN Data /\ DOMAIN tool = ToolFields
    /\ VectorHolds(tool, tables, graph, moved)
    /\ GraphHolds(tool, graph, moved)

\* What one tool has read says nothing of a call of the other.
LEMMA OtherTool ==
    ASSUME NEW c, NEW t, NEW g, NEW m
    PROVE  /\ c.step \notin VectorSteps /\ (c.step = "answered" => c.term # <<>>) => VectorHolds(c, t, g, m)
           /\ c.step \notin GraphSteps /\ (c.step = "answered" => c.term = <<>>) => GraphHolds(c, g, m)
<1>1. ASSUME c.step \notin VectorSteps, c.step = "answered" => c.term # <<>> PROVE VectorHolds(c, t, g, m)
  BY <1>1 DEF VectorHolds, VectorSteps
<1>2. ASSUME c.step \notin GraphSteps, c.step = "answered" => c.term = <<>> PROVE GraphHolds(c, g, m)
  BY <1>2 DEF GraphHolds, GraphSteps
<1> QED BY <1>1, <1>2

LEMMA LoadedMeanwhile ==
    ASSUME NEW c, NEW t, NEW g, NEW m, NEW u, NEW h, VectorHolds(c, t, g, m), GraphHolds(c, g, m)
    PROVE  VectorHolds(c, u, h, TRUE) /\ GraphHolds(c, h, TRUE)
<1>1. VectorHolds(c, u, h, TRUE)
  BY DEF VectorHolds
<1>2. GraphHolds(c, h, TRUE)
  BY DEF GraphHolds
<1> QED BY <1>1, <1>2

LEMMA VectorSearchHolds ==
    ASSUME SearchHolds,
           BeginVectorSearch \/ EmbedQuery \/ RankRows \/ Enrich \/ EnrichFails \/ FormatResults
    PROVE  SearchHolds'
<1> USE DEF SearchHolds
<1>1. CASE BeginVectorSearch
  <2>1. PICK limit \in Limits, countries \in SUBSET Countries, known \in BOOLEAN :
            tool' = [NoTool EXCEPT !.limit = Clamped(limit), !.countries = countries,
                                   !.step = IF known THEN "embed" ELSE "refused"]
    BY <1>1 DEF BeginVectorSearch
  <2>2. /\ tool'.step \in {"embed", "refused"} /\ tool'.limit = Clamped(limit) /\ tool'.countries = countries
        /\ tool'.term = <<>> /\ tool'.details = None /\ DOMAIN tool' = ToolFields
    BY <2>1 DEF NoTool, ToolFields
  <2>3. Clamped(limit) \in 1..MaxLimit
    <3>1. limit \in Int /\ MaxLimit \in Nat \ {0}
      BY RowsAssumption
    <3> QED BY <3>1 DEF Clamped
  <2>4. VectorHolds(tool', tables', graph', moved')
    BY <2>2, <2>3 DEF VectorHolds, VectorSteps
  <2>5. GraphHolds(tool', graph', moved')
    BY <2>2, OtherTool DEF GraphSteps
  <2> QED BY <1>1, <2>2, <2>4, <2>5 DEF BeginVectorSearch
<1>2. CASE EmbedQuery
  <2>1. /\ tool.step = "embed" /\ tool'.step = "rank" /\ DOMAIN tool' = ToolFields /\ Still
        /\ tool'.limit = tool.limit /\ tool'.countries = tool.countries /\ tool'.term = tool.term /\ tool'.details = tool.details
    BY <1>2 DEF EmbedQuery, Goes, ToolFields
  <2>2. VectorHolds(tool', tables', graph', moved')
    BY <2>1 DEF VectorHolds, VectorSteps
  <2>3. GraphHolds(tool', graph', moved')
    BY <2>1, OtherTool DEF GraphSteps
  <2> QED BY <2>1, <2>2, <2>3 DEF Still
<1>3. CASE RankRows
  <2>1. /\ tool.step = "rank" /\ tool'.step = "enrich" /\ DOMAIN tool' = ToolFields /\ Still
        /\ tool'.rows = RowsFrom(tables, tool.limit, tool.countries)
        /\ tool'.limit = tool.limit /\ tool'.countries = tool.countries /\ tool'.term = tool.term /\ tool'.details = tool.details
    BY <1>3 DEF RankRows, ToolFields, RowsFrom, Fetched
  <2>2. VectorHolds(tool', tables', graph', moved')
    BY <2>1 DEF VectorHolds, VectorSteps, Still
  <2>3. GraphHolds(tool', graph', moved')
    BY <2>1, OtherTool DEF GraphSteps
  <2> QED BY <2>1, <2>2, <2>3 DEF Still
<1>4. CASE Enrich
  <2>1. /\ tool.step = "enrich" /\ tool'.step = "format" /\ DOMAIN tool' = ToolFields /\ Still
        /\ tool'.details = ById(tool.rows) /\ tool'.rows = tool.rows
        /\ tool'.limit = tool.limit /\ tool'.countries = tool.countries /\ tool'.term = tool.term
    BY <1>4 DEF Enrich, ToolFields
  <2>2. ById(tool.rows) = DetailsFrom(graph, tool.rows)
    BY DEF ById, DetailsFrom, Known, Detail
  <2>3. VectorHolds(tool', tables', graph', moved')
    BY <2>1, <2>2 DEF VectorHolds, VectorSteps, Still
  <2>4. GraphHolds(tool', graph', moved')
    BY <2>1, OtherTool DEF GraphSteps
  <2> QED BY <2>1, <2>3, <2>4 DEF Still
<1>5. CASE EnrichFails
  <2>1. /\ tool.step = "enrich" /\ tool'.step = "format" /\ DOMAIN tool' = ToolFields /\ Still
        /\ tool'.details = tool.details /\ tool'.rows = tool.rows
        /\ tool'.limit = tool.limit /\ tool'.countries = tool.countries /\ tool'.term = tool.term
    BY <1>5 DEF EnrichFails, Goes, ToolFields
  <2>2. VectorHolds(tool', tables', graph', moved')
    BY <2>1 DEF VectorHolds, VectorSteps, Still
  <2>3. GraphHolds(tool', graph', moved')
    BY <2>1, OtherTool DEF GraphSteps
  <2> QED BY <2>1, <2>2, <2>3 DEF Still
<1>6. CASE FormatResults
  <2>1. /\ tool.step = "format" /\ tool'.step = "answered" /\ DOMAIN tool' = ToolFields /\ Still
        /\ tool'.details = tool.details /\ tool'.rows = tool.rows
        /\ tool'.limit = tool.limit /\ tool'.countries = tool.countries /\ tool'.term = tool.term
    BY <1>6 DEF FormatResults, AnswersWith, ToolFields
  <2>2. \A r : DetailOf(r) = DetailIn(tool.details, r)
    BY DEF DetailOf, DetailIn
  <2>3. {j \in DOMAIN tool.rows : Wanted(tool.rows[j])} = OfCountries(tool.details, tool.countries, tool.rows)
    BY <2>2 DEF Wanted, OfCountries
  <2>4. tool'.answer = AnswerFrom(tool.rows, tool.details, tool.countries, tool.limit)
    <3> DEFINE kept == Leading(Selected(tool.rows, OfCountries(tool.details, tool.countries, tool.rows)), tool.limit)
    <3>1. tool'.answer = [i \in DOMAIN kept |-> [id |-> kept[i].id, from |-> kept[i].from, detail |-> DetailOf(kept[i])]]
      BY <1>6, <2>3 DEF FormatResults, AnswersWith, ToolFields
    <3> HIDE DEF kept
    <3>2. tool'.answer = [i \in DOMAIN kept |->
              [id |-> kept[i].id, from |-> kept[i].from, detail |-> DetailIn(tool.details, kept[i])]]
      BY <2>2, <3>1
    <3> QED BY <3>2 DEF kept, AnswerFrom
  <2>5. VectorHolds(tool', tables', graph', moved')
    BY <2>1, <2>4 DEF VectorHolds, VectorSteps, Still
  <2>6. GraphHolds(tool', graph', moved')
    BY <2>1, OtherTool DEF GraphSteps, VectorHolds, VectorSteps
  <2> QED BY <2>1, <2>5, <2>6 DEF Still
<1> QED BY <1>1, <1>2, <1>3, <1>4, <1>5, <1>6

LEMMA EntriesAreOf ==
    ASSUME NEW g, NEW S, NEW s \in Seq(S)
    PROVE  Len(EntriesIn(g, s)) = Len(s) /\ Len(s) \in Nat /\ (EntriesIn(g, s) = <<>> <=> s = <<>>)
<1> DEFINE e == EntriesIn(g, s)
<1>1. Len(s) \in Nat /\ DOMAIN s = 1..Len(s) /\ (Len(s) = 0 <=> s = <<>>)
  BY LenProperties, EmptySeq
<1>2. e = [i \in 1..Len(s) |-> e[i]]
  BY <1>1 DEF EntriesIn
<1>3. e \in Seq({e[i] : i \in 1..Len(s)})
  <2> HIDE DEF e
  <2>1. e \in [1..Len(s) -> {e[i] : i \in 1..Len(s)}]
    BY <1>2
  <2> QED BY <1>1, <2>1, SeqDef
<1> HIDE DEF e
<1>4. Len(e) = Len(s)
  BY <1>1, <1>2, <1>3, LenProperties
<1>5. e = <<>> <=> Len(e) = 0
  BY <1>3, EmptySeq
<1> QED BY <1>1, <1>4, <1>5 DEF e

\* One statement of search_graph, about the term without its last q words.
LEMMA StatementFinds ==
    ASSUME graph \in DOMAIN Data, tool.limit \in Limits, NEW words \in Seq(DOMAIN Letters), NEW q \in Nat,
           NEW s \in Ranked(Part(words, q)), NoneIn(graph, words, q)
    PROVE  /\ Len(Entries(s)) \in Nat /\ (Entries(s) = <<>> <=> s = <<>>)
           /\ s = <<>> /\ tool.limit >= 1 => NoneIn(graph, words, q + 1)
           /\ FoundIn(graph, Part(words, q), tool.limit, Entries(s))
<1>1. Matching(Part(words, q)) = MatchesIn(graph, Part(words, q)) /\ Entries(s) = EntriesIn(graph, s)
  BY DEF Matching, MatchesIn, Entries, EntriesIn, NodeEntry, EntryIn
<1>2. PICK a \in SetToSeqs(MatchesIn(graph, Part(words, q))) : s = Leading(a, tool.limit)
  BY <1>1 DEF Ranked
<1>3. tool.limit \in Int
  BY RowsAssumption
<1>4. /\ a \in Seq(MatchesIn(graph, Part(words, q)))
      /\ Leading(a, tool.limit) = <<>> /\ tool.limit >= 1 => MatchesIn(graph, Part(words, q)) = {}
  BY <1>3, AllMatches
<1>5. s \in Seq(MatchesIn(graph, Part(words, q)))
  BY <1>2, <1>3, <1>4, LeadingIs
<1>6. Len(Entries(s)) \in Nat /\ (Entries(s) = <<>> <=> s = <<>>)
  BY <1>1, <1>5, EntriesAreOf
<1>7. ASSUME s = <<>>, tool.limit >= 1 PROVE NoneIn(graph, words, q + 1)
  <2>1. MatchesIn(graph, Part(words, q)) = {}
    BY <1>2, <1>4, <1>7
  <2>2. ASSUME NEW j \in 0..(q + 1 - 1) PROVE MatchesIn(graph, Part(words, j)) = {}
    <3>1. j = q \/ j \in 0..(q - 1)
      OBVIOUS
    <3> QED BY <2>1, <3>1 DEF NoneIn
  <2> QED BY <2>2 DEF NoneIn
<1>8. FoundIn(graph, Part(words, q), tool.limit, Entries(s))
  BY <1>1, <1>2 DEF FoundIn
<1> QED BY <1>6, <1>7, <1>8

LEMMA GraphSearchHolds ==
    ASSUME SearchHolds, BeginGraphSearch \/ Find \/ Retry \/ EndRetries \/ VerifyNames
    PROVE  SearchHolds'
<1> USE DEF SearchHolds
<1> DEFINE words == StripTitles(tool.term)
<1>1. CASE BeginGraphSearch
  <2>1. PICK max \in Limits, term \in Searches : tool' = [NoTool EXCEPT !.step = "find", !.limit = max, !.term = term]
    BY <1>1 DEF BeginGraphSearch
  <2>2. /\ tool'.step = "find" /\ tool'.limit = max /\ tool'.term = term /\ DOMAIN tool' = ToolFields
    BY <2>1 DEF NoTool, ToolFields
  <2>3. term # <<>>
    BY TermsAreWords
  <2>4. GraphHolds(tool', graph', moved')
    BY <2>2, <2>3 DEF GraphHolds
  <2>5. VectorHolds(tool', tables', graph', moved')
    BY <2>2, OtherTool DEF VectorSteps
  <2> QED BY <1>1, <2>2, <2>4, <2>5 DEF BeginGraphSearch
<1>2. CASE Find
  <2>1. /\ tool.step = "find" /\ tool.term # <<>> /\ tool.term \in Searches /\ tool.limit \in Limits
        /\ words \in Seq(DOMAIN Letters) /\ Len(words) \in Nat
    BY <1>2, TermsAreWords DEF Find, GraphHolds
  <2>2. PICK s \in Ranked(words) :
            tool' = [tool EXCEPT !.rows = Entries(s), !.retries = 1,
                                 !.step = IF s = <<>> /\ Len(words) > 1 THEN "retry" ELSE "verify"]
    BY <1>2 DEF Find
  <2>3. /\ tool'.rows = Entries(s) /\ tool'.retries = 1 /\ tool'.term = tool.term /\ tool'.limit = tool.limit
        /\ tool'.step = (IF s = <<>> /\ Len(words) > 1 THEN "retry" ELSE "verify") /\ DOMAIN tool' = ToolFields /\ Still
    BY <1>2, <2>2 DEF Find, ToolFields
  <2> HIDE DEF words
  <2>4. Part(words, 0) = words /\ NoneIn(graph, words, 0)
    <3>1. SubSeq(words, 1, Len(words)) = words
      BY <2>1, SubSeqFull
    <3>2. Len(words) - 0 = Len(words)
      BY <2>1
    <3> QED BY <3>1, <3>2 DEF Part, NoneIn
  <2>5. /\ Len(Entries(s)) \in Nat /\ (Entries(s) = <<>> <=> s = <<>>)
        /\ s = <<>> /\ tool.limit >= 1 => NoneIn(graph, words, 0 + 1)
        /\ FoundIn(graph, Part(words, 0), tool.limit, Entries(s))
    BY <2>1, <2>2, <2>4, StatementFinds
  <2>6. GraphHolds(tool', graph', moved') /\ tool'.step \notin VectorSteps \union {"answered"}
    <3>1. GraphHolds(tool', graph', moved')
      <4>1. CASE s = <<>> /\ Len(words) > 1
        <5>1. tool'.step = "retry" /\ tool'.rows = <<>> /\ tool'.retries \in Nat
          BY <2>3, <2>5, <4>1
        <5>2. tool'.limit >= 1 => NoneIn(graph', StripTitles(tool'.term), tool'.retries)
          BY <2>3, <2>5, <4>1 DEF words, Still
        <5> QED BY <2>1, <2>3, <5>1, <5>2 DEF GraphHolds
      <4>2. CASE ~(s = <<>> /\ Len(words) > 1)
        <5>1. tool'.step = "verify" /\ Len(tool'.rows) \in Nat
          BY <2>3, <2>5, <4>2
        <5>2. LongestFound(tool', graph')
          <6>1. CASE Len(words) <= 1
            BY <2>3, <6>1 DEF LongestFound, words
          <6>2. CASE Len(words) > 1
            <7>1. tool'.rows # <<>> /\ FoundIn(graph', Part(words, 0), tool'.limit, tool'.rows) /\ NoneIn(graph', words, 0)
              BY <2>3, <2>4, <2>5, <4>2, <6>2 DEF Still
            <7> QED BY <2>3, <7>1 DEF LongestFound, words
          <6> QED BY <2>1, <6>1, <6>2
        <5> QED BY <2>1, <2>3, <5>1, <5>2 DEF GraphHolds
      <4> QED BY <4>1, <4>2
    <3> QED BY <2>3, <3>1 DEF VectorSteps
  <2> QED BY <2>3, <2>6, OtherTool DEF Still
<1>3. CASE Retry
  <2>1. /\ tool.step = "retry" /\ tool.term # <<>> /\ tool.term \in Searches /\ tool.limit \in Limits
        /\ tool.rows = <<>> /\ tool.retries \in Nat
        /\ ~moved /\ tool.limit >= 1 => NoneIn(graph, words, tool.retries)
    BY <1>3 DEF Retry, GraphHolds
  <2>2. words \in Seq(DOMAIN Letters)
    BY <2>1, TermsAreWords
  <2>3. PICK s \in Ranked(Shorter) :
            tool' = [tool EXCEPT !.rows = Entries(s), !.retries = @ + 1, !.step = IF s = <<>> THEN "retry" ELSE "verify"]
    BY <1>3 DEF Retry
  <2>4. /\ tool'.rows = Entries(s) /\ tool'.retries = tool.retries + 1 /\ tool'.term = tool.term /\ tool'.limit = tool.limit
        /\ tool'.step = (IF s = <<>> THEN "retry" ELSE "verify") /\ DOMAIN tool' = ToolFields /\ Still
    BY <1>3, <2>3 DEF Retry, ToolFields
  <2>5. Shorter = Part(words, tool.retries)
    BY DEF Shorter, Part
  <2> HIDE DEF words
  <2>6. /\ Len(Entries(s)) \in Nat /\ (Entries(s) = <<>> <=> s = <<>>)
    <3>1. Matching(Shorter) = MatchesIn(graph, Shorter) /\ Entries(s) = EntriesIn(graph, s)
      BY DEF Matching, MatchesIn, Entries, EntriesIn, NodeEntry, EntryIn
    <3>2. PICK a \in SetToSeqs(MatchesIn(graph, Shorter)) : s = Leading(a, tool.limit)
      BY <3>1 DEF Ranked
    <3>3. tool.limit \in Int
      BY <2>1, RowsAssumption
    <3>4. s \in Seq(MatchesIn(graph, Shorter))
      BY <3>2, <3>3, AllMatches, LeadingIs
    <3> QED BY <3>1, <3>4, EntriesAreOf
  <2>7. ASSUME ~moved, tool.limit >= 1
        PROVE  /\ NoneIn(graph, words, tool.retries)
               /\ s = <<>> => NoneIn(graph, words, tool.retries + 1)
               /\ FoundIn(graph, Part(words, tool.retries), tool.limit, Entries(s))
    BY <2>1, <2>2, <2>3, <2>5, <2>7, StatementFinds
  <2>8. CASE s = <<>>
    <3>1. tool'.step = "retry" /\ tool'.rows = <<>> /\ tool'.retries \in Nat
      BY <2>1, <2>4, <2>6, <2>8
    <3>2. ~moved' /\ tool'.limit >= 1 => NoneIn(graph', StripTitles(tool'.term), tool'.retries)
      BY <2>4, <2>7, <2>8 DEF words, Still
    <3>3. GraphHolds(tool', graph', moved')
      BY <2>1, <2>4, <3>1, <3>2 DEF GraphHolds
    <3> QED BY <2>4, <3>1, <3>3, OtherTool DEF Still, VectorSteps
  <2>9. CASE s # <<>>
    <3>1. tool'.step = "verify" /\ Len(tool'.rows) \in Nat /\ tool'.rows # <<>>
      BY <2>4, <2>6, <2>9
    <3>2. ~moved' /\ tool'.limit >= 1 => LongestFound(tool', graph')
      <4>1. ASSUME ~moved, tool.limit >= 1
            PROVE  NoneIn(graph', words, tool.retries) /\ FoundIn(graph', Part(words, tool.retries), tool'.limit, tool'.rows)
        BY <2>4, <2>7, <4>1 DEF Still
      <4>2. StripTitles(tool'.term) = words
        BY <2>4 DEF words
      <4> QED BY <2>1, <2>4, <3>1, <4>1, <4>2 DEF LongestFound, Still
    <3>3. GraphHolds(tool', graph', moved')
      BY <2>1, <2>4, <3>1, <3>2 DEF GraphHolds
    <3> QED BY <2>4, <3>1, <3>3, OtherTool DEF Still, VectorSteps
  <2> QED BY <2>8, <2>9
<1>4. CASE EndRetries
  <2>1. /\ tool.step = "retry" /\ tool.term # <<>> /\ tool.term \in Searches /\ tool.limit \in Limits
        /\ tool.rows = <<>> /\ tool.retries \in Nat
        /\ ~moved /\ tool.limit >= 1 => NoneIn(graph, words, tool.retries)
    BY <1>4 DEF EndRetries, GraphHolds
  <2>2. /\ tool'.rows = tool.rows /\ tool'.term = tool.term /\ tool'.limit = tool.limit
        /\ tool'.step = "verify" /\ DOMAIN tool' = ToolFields /\ Still /\ ~MayRetry
    BY <1>4 DEF EndRetries, Goes, ToolFields
  <2>3. Stops(words, tool.retries)
    BY <2>2 DEF Stops, MayRetry, Shorter, Part
  <2>4. StripTitles(tool'.term) = words
    BY <2>2
  <2> HIDE DEF words
  <2>5. ~moved' /\ tool'.limit >= 1 => LongestFound(tool', graph')
    BY <2>1, <2>2, <2>3, <2>4 DEF LongestFound, Still
  <2>6. Len(tool'.rows) \in Nat
    <3>1. Len(<<>>) = 0
      OBVIOUS
    <3> QED BY <2>1, <2>2, <3>1
  <2>7. GraphHolds(tool', graph', moved')
    BY <2>1, <2>2, <2>5, <2>6 DEF GraphHolds
  <2> QED BY <2>2, <2>7, OtherTool DEF Still, VectorSteps
<1>5. CASE VerifyNames
  <2>1. /\ tool.step = "verify" /\ tool.term # <<>> /\ tool.term \in Searches /\ tool.limit \in Limits
        /\ Len(tool.rows) \in Nat /\ (~moved /\ tool.limit >= 1 => LongestFound(tool, graph))
    BY <1>5 DEF VerifyNames, GraphHolds
  <2>2. /\ tool'.step = "answered" /\ tool'.rows = tool.rows /\ tool'.term = tool.term /\ tool'.limit = tool.limit
        /\ tool'.answer = Summary(tool.rows) /\ DOMAIN tool' = ToolFields /\ Still
    BY <1>5 DEF VerifyNames, AnswersWith, ToolFields
  <2>3. Verified(tool.rows) = ResultsOf(tool.rows, tool.term)
    BY DEF Verified, ResultsOf, NamedIn
  <2>4. tool'.answer.results = ResultsOf(tool'.rows, tool'.term) /\ tool'.answer.labels = LabelCounts(tool'.answer.results)
    BY <2>2, <2>3 DEF Summary
  <2>5. ~moved' /\ tool'.limit >= 1 => LongestFound(tool', graph')
    BY <2>1, <2>2 DEF LongestFound, Still
  <2>6. GraphHolds(tool', graph', moved')
    BY <2>1, <2>2, <2>4, <2>5 DEF GraphHolds
  <2> QED BY <2>1, <2>2, <2>6, OtherTool DEF Still, VectorSteps
<1> QED BY <1>1, <1>2, <1>3, <1>4, <1>5

\* What both search tools rest on: the step a call is at, and what it has read in the
\* generation it reads in, unless a load came in between.
THEOREM SearchIsSound == SearchSpec => []SearchHolds
<1>1. SearchInit => SearchHolds
  <2> SUFFICES ASSUME SearchInit PROVE SearchHolds
    OBVIOUS
  <2>1. tool.step = "idle" /\ DOMAIN tool = ToolFields
    BY DEF SearchInit, NoTool, ToolFields
  <2> QED BY <2>1, OtherTool DEF SearchInit, SearchHolds, VectorSteps, GraphSteps
<1>2. SearchHolds /\ [SearchNext]_searching => SearchHolds'
  <2> SUFFICES ASSUME SearchHolds, [SearchNext]_searching PROVE SearchHolds'
    OBVIOUS
  <2>1. CASE LoadTables
    <3>1. tables' \in DOMAIN Data /\ moved' = TRUE /\ graph' = graph /\ tool' = tool
      BY <2>1 DEF LoadTables
    <3> QED BY <3>1, LoadedMeanwhile DEF SearchHolds
  <2>2. CASE LoadGraph
    <3>1. graph' \in DOMAIN Data /\ moved' = TRUE /\ tables' = tables /\ tool' = tool
      BY <2>2 DEF LoadGraph
    <3> QED BY <3>1, LoadedMeanwhile DEF SearchHolds
  <2>3. CASE BeginVectorSearch \/ EmbedQuery \/ RankRows \/ Enrich \/ EnrichFails \/ FormatResults
    BY <2>3, VectorSearchHolds
  <2>4. CASE BeginGraphSearch \/ Find \/ Retry \/ EndRetries \/ VerifyNames
    BY <2>4, GraphSearchHolds
  <2>5. CASE ToolRaises \/ NextTool
    <3>1. tool'.step \in {"raised", "idle"} /\ DOMAIN tool' = ToolFields /\ Still
      BY <2>5 DEF ToolRaises, NextTool, NoTool, ToolFields
    <3> QED BY <3>1, OtherTool DEF Still, SearchHolds, VectorSteps, GraphSteps
  <2>6. CASE UNCHANGED searching
    BY <2>6 DEF searching, SearchHolds, VectorHolds, GraphHolds
  <2> QED BY <2>1, <2>2, <2>3, <2>4, <2>5, <2>6 DEF SearchNext
<1> QED BY <1>1, <1>2, PTL DEF SearchSpec

\* vector_search answers with the nearest people of the countries asked for, each with
\* his own details.
THEOREM NearestInScope == SearchSpec => []NearestInScopeUnless
<1>1. SearchHolds => NearestInScopeUnless
  BY HoldsNearest DEF SearchHolds
<1> QED BY <1>1, SearchIsSound, PTL

\* search_graph finds the person its term names.
THEOREM NamedIsFound == SearchSpec => []NamedIsFoundUnless
<1>1. SearchHolds => NamedIsFoundUnless
  BY HoldsNamed DEF SearchHolds
<1> QED BY <1>1, SearchIsSound, PTL

-----------------------------------------------------------------------------
(* CvDocument.                                                             *)

(* The templates of a list and what a reply means.                             *)

AllFiles == [i \in DOMAIN Templates |-> Templates[i].file]
DocxFiles == [i \in DOMAIN Files("docx") |-> Files("docx")[i].file]

LEMMA TemplateList ==
    /\ Len(Templates) \in Nat /\ DOMAIN Templates = 1..Len(Templates)
    /\ \A i \in DOMAIN Templates : Templates[i] \in [file : STRING, format : {"docx", "pdf"}, boxes : Nat]
  BY TemplatesAssumption, LenProperties, ElementOfSeq

LEMMA FilesOfFormat ==
    ASSUME NEW format
    PROVE  LET places == {i \in DOMAIN Templates : Templates[i].format = format}
           IN  /\ places \subseteq 1..Len(Templates)
               /\ Files(format) = Selected(Templates, places)
               /\ Files(format) \in Seq([file : STRING, format : {"docx", "pdf"}, boxes : Nat])
               /\ \A i \in places : \E n \in DOMAIN Files(format) : Files(format)[n] = Templates[i]
<1> DEFINE places == {i \in DOMAIN Templates : Templates[i].format = format}
           key == [i \in places |-> i]
           T == [file : STRING, format : {"docx", "pdf"}, boxes : Nat]
<1>1. places \in SUBSET (1..Len(Templates)) /\ Len(Templates) \in Nat /\ \A i \in places : Templates[i] \in T
  BY TemplateList
<1>2. Sortable(places, key)
  <2> HIDE DEF places
  <2> QED BY <1>1, PlacesAreSortable
<1>3. Files(format) = InOrder(Templates, places, key)
  BY DEF Files, Selected
<1> HIDE DEF places, key, T
<1>4. InOrder(Templates, places, key) \in Seq(T)
  BY <1>1, <1>2, InOrderIsSeq
<1>5. \A i \in places : \E n \in DOMAIN InOrder(Templates, places, key) : InOrder(Templates, places, key)[n] = Templates[i]
  BY <1>2, InOrderHasMembers
<1> QED BY <1>1, <1>3, <1>4, <1>5 DEF places, T, Files

LEMMA FilesAreNames ==
    /\ AllFiles \in Seq(STRING) /\ Len(AllFiles) = Len(Templates)
    /\ DocxFiles \in Seq(STRING) /\ DOMAIN DocxFiles = DOMAIN Files("docx") /\ Len(DocxFiles) = Len(Files("docx"))
<1> DEFINE T == [file : STRING, format : {"docx", "pdf"}, boxes : Nat]
<1>1. Templates \in Seq(T) /\ Files("docx") \in Seq(T)
  BY TemplatesAssumption, FilesOfFormat
<1>2. \A t \in T : t.file \in STRING
  OBVIOUS
<1> HIDE DEF T
<1>3. ASSUME NEW s \in Seq(T), NEW f, f = [i \in DOMAIN s |-> s[i].file]
      PROVE  f \in Seq(STRING) /\ DOMAIN f = DOMAIN s /\ Len(f) = Len(s)
  <2>1. DOMAIN s = 1..Len(s) /\ Len(s) \in Nat /\ \A i \in DOMAIN s : s[i] \in T
    BY LenProperties, ElementOfSeq
  <2>2. f \in [1..Len(s) -> STRING]
    BY <1>2, <1>3, <2>1
  <2> QED BY <2>1, <2>2, SeqDef, LenProperties
<1> QED BY <1>1, <1>3 DEF AllFiles, DocxFiles

LEMMA Ordinals == ASSUME NEW choice \in DOMAIN Ordinal PROVE Ordinal[choice] \in 1..3
  BY DEF Ordinal

LEMMA ChosenFromList ==
    ASSUME NEW choice, NEW templates \in Seq(STRING), Chosen(choice, templates) # <<>>
    PROVE  \E i \in DOMAIN templates :
               /\ Chosen(choice, templates)[1] = templates[i]
               /\ choice \in DOMAIN Ordinal /\ Ordinal[choice] <= Len(templates) => i = Ordinal[choice]
<1>1. DOMAIN templates = 1..Len(templates) /\ Len(templates) \in Nat
  BY LenProperties
<1>2. CASE choice \in DOMAIN Ordinal /\ Ordinal[choice] <= Len(templates)
  <2>1. Chosen(choice, templates) = <<templates[Ordinal[choice]]>>
    BY <1>2 DEF Chosen
  <2>2. Ordinal[choice] \in DOMAIN templates
    BY <1>1, <1>2, Ordinals
  <2> QED BY <2>1, <2>2
<1>3. CASE ~(choice \in DOMAIN Ordinal /\ Ordinal[choice] <= Len(templates))
  <2> DEFINE P == Containing(choice, templates)
  <2>1. P # {} /\ Chosen(choice, templates) = <<templates[Min(P)]>>
    BY <1>3 DEF Chosen
  <2>2. P \in SUBSET Nat /\ P \subseteq DOMAIN templates
    BY <1>1 DEF Containing
  <2> HIDE DEF P
  <2>3. Min(P) \in P
    BY <2>1, <2>2, LeastOf DEF Min
  <2>4. Min(P) \in DOMAIN templates /\ Chosen(choice, templates)[1] = templates[Min(P)]
    <3>1. Chosen(choice, templates)[1] = templates[Min(P)]
      BY <2>1
    <3> QED BY <2>2, <2>3, <3>1
  <2> QED BY <1>3, <2>4
<1> QED BY <1>2, <1>3

\* A number stands for the file shown at it, unless a PDF is shown up to there.
LEMMA NumberAsShown ==
    ASSUME NEW choice \in DOMAIN Ordinal, Ordinal[choice] <= Len(Templates), Chosen(choice, DocxFiles) # <<>>
    PROVE  \/ Chosen(choice, DocxFiles)[1] = AllFiles[Ordinal[choice]]
           \/ \E j \in 1..Ordinal[choice] : AllFiles[j] \in {t.file : t \in Range(Files("pdf"))}
<1> DEFINE o == Ordinal[choice]
           docx == {i \in DOMAIN Templates : Templates[i].format = "docx"}
           pdf == {i \in DOMAIN Templates : Templates[i].format = "pdf"}
<1>1. o \in 1..3 /\ Len(Templates) \in Nat /\ o \in 1..Len(Templates) /\ DOMAIN Templates = 1..Len(Templates)
  BY Ordinals, TemplateList
<1>2. \A j \in 1..o : j \in docx \/ j \in pdf
  <2>1. \A j \in 1..o : j \in DOMAIN Templates
    BY <1>1
  <2> QED BY <2>1, TemplateList
<1>3. CASE 1..o \subseteq docx
  <2>1. docx \in SUBSET (1..Len(Templates)) /\ Files("docx") = Selected(Templates, docx)
    BY FilesOfFormat
  <2> HIDE DEF docx, o
  <2>2. o \in DOMAIN Files("docx") /\ Files("docx")[o] = Templates[o]
    BY <1>1, <1>3, <2>1, SelectedFromTheStart
  <2>3. DocxFiles[o] = Templates[o].file /\ AllFiles[o] = Templates[o].file
    BY <1>1, <2>2 DEF DocxFiles, AllFiles
  <2>4. o <= Len(DocxFiles)
    <3>1. o \in 1..Len(DocxFiles)
      BY <2>2, FilesAreNames, LenProperties
    <3> QED BY <3>1
  <2>5. Chosen(choice, DocxFiles)[1] = DocxFiles[o]
    BY <2>4, FilesAreNames, ChosenFromList DEF o
  <2> QED BY <2>3, <2>5 DEF o
<1>4. ASSUME NEW j \in 1..o, j \in pdf PROVE AllFiles[j] \in {t.file : t \in Range(Files("pdf"))}
  <2>1. PICK n \in DOMAIN Files("pdf") : Files("pdf")[n] = Templates[j]
    BY <1>4, FilesOfFormat
  <2>2. Templates[j] \in Range(Files("pdf"))
    BY <2>1 DEF Range
  <2>3. AllFiles[j] = Templates[j].file
    BY <1>4 DEF AllFiles
  <2> QED BY <2>2, <2>3
<1> QED BY <1>2, <1>3, <1>4

-----------------------------------------------------------------------------
(* The conversation.                                                       *)

Emails == UNION {DOMAIN Graphs[g] : g \in DOMAIN Graphs}
Addresses == Emails \union {""}
Stores == {"cosmos", "fallback"}
Texts == STRING \union Stores \union {""}
MessageType ==
    [role : {"user", "assistant"}, choice : Texts \union Replies, from : Texts, email : Addresses,
     template : Texts, shown : Seq(STRING), templates : Seq(STRING), lies : SUBSET Stores]

\* A message that shows a list shows all templates, and is seen to name the DOCX ones or none.
ListHolds(m) == m.shown # <<>> => m.shown = AllFiles /\ m.templates \in {<<>>, DocxFiles}

\* A choice is from a list before it, the newest unless the store gives others.
Lists(ms, n) == {j \in 1..n : ms[j].shown # <<>>}
FromList(m, list) ==
    /\ m.template \in Range(list.templates)
    /\ m.choice \in DOMAIN Ordinal /\ Ordinal[m.choice] <= Len(list.shown) =>
           \/ m.template = list.shown[Ordinal[m.choice]]
           \/ \E k \in 1..Ordinal[m.choice] : list.shown[k] \in {t.file : t \in Range(Files("pdf"))}
WithEmail(ms, m, n, j) ==
    \/ m.email = ms[j].email
    \/ ~HasEmail(ms[j]) /\ \E k \in (j + 1)..n : ms[k].role = "user" /\ ms[k].email = m.email
FromAt(ms, m, n, j) == WithEmail(ms, m, n, j) /\ FromList(m, ms[j])
Excused(ms, m, n) ==
    \/ m.from = "cosmos" /\ n > HistoryLimit
    \/ \E k \in 1..n : m.from \notin ms[k].lies
ChoiceHolds(ms, m, n) ==
    m.choice # "" =>
        /\ \E j \in Lists(ms, n) : FromAt(ms, m, n, j)
        /\ FromAt(ms, m, n, Max(Lists(ms, n))) \/ Excused(ms, m, n)
MessagesHold ==
    /\ messages \in Seq(MessageType)
    /\ \A i \in DOMAIN messages : ListHolds(messages[i]) /\ ChoiceHolds(messages, messages[i], i - 1)

LEMMA MessageIsOne ==
    ASSUME NEW role \in {"user", "assistant"}, NEW email \in Addresses
    PROVE  /\ Message(role, email) \in MessageType
           /\ Message(role, email).choice = "" /\ Message(role, email).shown = <<>> /\ Message(role, email).email = email
<1>1. <<>> \in Seq(STRING) /\ "" \in Texts
  BY EmptySeq, Zenon DEF Texts
<1>2. Message(role, email) = [role |-> role, choice |-> "", from |-> "", email |-> email, template |-> "", shown |-> <<>>,
                              templates |-> <<>>, lies |-> {}]
  BY Zenon DEF Message
<1>3. \A none \in Texts : [role |-> role, choice |-> none, from |-> none, email |-> email, template |-> none, shown |-> <<>>,
                              templates |-> <<>>, lies |-> {}] \in MessageType
  BY <1>1 DEF MessageType
<1>4. Message(role, email) \in MessageType
  BY <1>1, <1>2, <1>3, Zenon
<1>5. \A none \in Texts :
          LET m == [role |-> role, choice |-> none, from |-> none, email |-> email, template |-> none, shown |-> <<>>,
                    templates |-> <<>>, lies |-> {}]
          IN  m.choice = none /\ m.shown = <<>> /\ m.email = email
  OBVIOUS
<1>6. Message(role, email).choice = "" /\ Message(role, email).shown = <<>> /\ Message(role, email).email = email
  BY <1>1, <1>2, <1>5, Zenon
<1> QED BY <1>4, <1>6, Zenon

\* Where a message lies does not matter to its choice.
LEMMA LyingMatters ==
    ASSUME NEW m \in MessageType, NEW places \in SUBSET Stores, NEW p, p = [m EXCEPT !.lies = places],
           ListHolds(m), NEW ms, NEW n, ChoiceHolds(ms, m, n)
    PROVE  p \in MessageType /\ ListHolds(p) /\ ChoiceHolds(ms, p, n)
<1>1. /\ p \in MessageType /\ p.choice = m.choice /\ p.from = m.from /\ p.email = m.email /\ p.template = m.template
      /\ p.shown = m.shown /\ p.templates = m.templates
  BY DEF MessageType
<1>2. \A list : FromList(p, list) <=> FromList(m, list)
  BY <1>1 DEF FromList
<1>3. \A j : WithEmail(ms, p, n, j) <=> WithEmail(ms, m, n, j)
  BY <1>1 DEF WithEmail
<1>4. \A j : FromAt(ms, p, n, j) <=> FromAt(ms, m, n, j)
  BY <1>2, <1>3 DEF FromAt
<1>5. Excused(ms, p, n) <=> Excused(ms, m, n)
  BY <1>1 DEF Excused
<1> QED BY <1>1, <1>4, <1>5 DEF ListHolds, ChoiceHolds

\* A choice stays as good when the conversation goes on.
Agree(ms, new, n) == \A k \in 1..n : new[k] = ms[k]
LEMMA ChoiceStays ==
    ASSUME NEW ms, NEW new, NEW n \in Nat, Agree(ms, new, n), NEW m, ChoiceHolds(ms, m, n)
    PROVE  ChoiceHolds(new, m, n)
<1>1. Lists(new, n) = Lists(ms, n)
  BY DEF Lists, Agree
<1>2. ASSUME NEW j \in 1..n PROVE FromAt(new, m, n, j) <=> FromAt(ms, m, n, j)
  <2>1. new[j] = ms[j]
    BY <1>2 DEF Agree
  <2>2. \A k \in (j + 1)..n : new[k] = ms[k]
    BY <1>2 DEF Agree
  <2>3. WithEmail(new, m, n, j) <=> WithEmail(ms, m, n, j)
    BY <2>1, <2>2 DEF WithEmail
  <2> QED BY <2>1, <2>3 DEF FromAt
<1>3. Excused(new, m, n) <=> Excused(ms, m, n)
  BY DEF Excused, Agree
<1>4. Lists(ms, n) \in SUBSET (1..n)
  BY DEF Lists
<1>5. Lists(ms, n) # {} => Max(Lists(ms, n)) \in 1..n
  BY <1>4, GreatestOf
<1>6. (\E j \in Lists(ms, n) : FromAt(ms, m, n, j)) => \E j \in Lists(ms, n) : FromAt(new, m, n, j)
  BY <1>2, <1>4
<1>7. CASE m.choice # ""
  <2>1. \E j \in Lists(ms, n) : FromAt(ms, m, n, j)
    BY <1>7 DEF ChoiceHolds
  <2>2. Max(Lists(ms, n)) \in 1..n
    BY <1>5, <2>1
  <2>3. FromAt(new, m, n, Max(Lists(ms, n))) <=> FromAt(ms, m, n, Max(Lists(ms, n)))
    BY <1>2, <2>2
  <2> QED BY <1>1, <1>3, <1>6, <2>1, <2>3, <1>7, Zenon DEF ChoiceHolds
<1> QED BY <1>7 DEF ChoiceHolds

\* What a new message has to fulfil.
Fits(m) == ListHolds(m) /\ ChoiceHolds(messages, m, Len(messages))

LEMMA SaysPuts ==
    ASSUME NEW m, Says(m)
    PROVE  \E places \in SUBSET Stores : messages' = Append(messages, [m EXCEPT !.lies = places])
<1>1. {"cosmos"} \in SUBSET Stores /\ {"fallback"} \in SUBSET Stores /\ {"cosmos", "fallback"} \in SUBSET Stores
  BY DEF Stores
<1>2. Put(m, {"cosmos"}) \/ Put(m, {"fallback"}) \/ Put(m, {"cosmos", "fallback"})
  BY DEF Says
<1> QED BY <1>1, <1>2, Zenon DEF Put

\* What holds of a conversation holds when a message is added for which it holds.
LEMMA SaysKeeps ==
    ASSUME MessagesHold, NEW m \in MessageType, Says(m), Fits(m)
    PROVE  MessagesHold'
<1>1. PICK places \in SUBSET Stores : messages' = Append(messages, [m EXCEPT !.lies = places])
  BY SaysPuts
<1> DEFINE p == [m EXCEPT !.lies = places]
           new == messages'
           n == Len(messages)
<1>2. p \in MessageType /\ ListHolds(p) /\ ChoiceHolds(messages, p, n)
  BY LyingMatters DEF Fits
<1> HIDE DEF p
<1>3. messages \in Seq(MessageType) /\ \A i \in DOMAIN messages : ListHolds(messages[i]) /\ ChoiceHolds(messages, messages[i], i - 1)
  BY DEF MessagesHold
<1>4. new = Append(messages, p)
  BY <1>1 DEF p
<1> HIDE DEF new
<1>5. /\ new \in Seq(MessageType) /\ n \in Nat /\ DOMAIN messages = 1..n /\ DOMAIN new = 1..(n + 1) /\ new[n + 1] = p
      /\ \A i \in DOMAIN messages : new[i] = messages[i]
      /\ \A i \in DOMAIN new : i \in DOMAIN messages \/ i = n + 1
  BY <1>2, <1>3, <1>4, Appended
<1>6. \A l \in 0..n : Agree(messages, new, l)
  BY <1>5 DEF Agree
<1>7. ASSUME NEW i \in DOMAIN new PROVE ListHolds(new[i]) /\ ChoiceHolds(new, new[i], i - 1)
  <2>1. CASE i \in DOMAIN messages
    <3>1. new[i] = messages[i] /\ i - 1 \in 0..n /\ i - 1 \in Nat
      BY <1>5, <2>1
    <3>2. ListHolds(messages[i]) /\ ChoiceHolds(messages, messages[i], i - 1)
      BY <1>3, <2>1
    <3>3. Agree(messages, new, i - 1)
      BY <1>6, <3>1
    <3>4. ChoiceHolds(new, messages[i], i - 1)
      BY <3>1, <3>2, <3>3, ChoiceStays
    <3> QED BY <3>1, <3>2, <3>4
  <2>2. CASE i = n + 1
    <3>1. new[i] = p /\ i - 1 = n /\ n \in 0..n /\ n \in Nat
      BY <1>5, <2>2
    <3>2. ChoiceHolds(new, p, n)
      BY <1>2, <1>6, <3>1, ChoiceStays
    <3> QED BY <1>2, <3>1, <3>2
  <2> QED BY <1>5, <2>1, <2>2
<1> QED BY <1>5, <1>7 DEF MessagesHold, new

\* The messages without a choice and without a list.
LEMMA PlainMessageKeeps ==
    ASSUME MessagesHold, NEW role \in {"user", "assistant"}, NEW email \in Addresses, Says(Message(role, email))
    PROVE  MessagesHold'
<1>1. Message(role, email) \in MessageType /\ Fits(Message(role, email))
  BY MessageIsOne DEF ListHolds, Fits, ChoiceHolds
<1> QED BY <1>1, SaysKeeps

LEMMA AnswerKeeps == ASSUME MessagesHold, Says(Message("assistant", "")) PROVE MessagesHold'
<1>1. "" \in Addresses /\ "assistant" \in {"user", "assistant"}
  BY Zenon DEF Addresses
<1> QED BY <1>1, PlainMessageKeeps, Zenon

LEMMA HistoryIsPart ==
    ASSUME messages \in Seq(MessageType), NEW place
    PROVE  History(place) \subseteq DOMAIN messages
  BY DEF History, Lies

\* The history of a store with all messages goes on to the newest, unless it is the oldest
\* ones of a long conversation.
LEMMA HistoryOfAll ==
    ASSUME messages \in Seq(MessageType), NEW place, Lies(place) = DOMAIN messages, NEW i \in History(place),
           NEW k \in DOMAIN messages, k > i, ~(place = "cosmos" /\ Len(messages) > HistoryLimit)
    PROVE  k \in History(place)
<1> DEFINE n == Len(messages)
           after(x) == {j \in Lies(place) : j > x}
           before(x) == {j \in Lies(place) : j < x}
<1>1. n \in Nat /\ HistoryLimit \in Nat /\ DOMAIN messages = 1..n
  BY TemplatesAssumption, LenProperties
<1>2. CASE place = "cosmos"
  <2>1. before(k) = 1..(k - 1) /\ k \in 1..n /\ n <= HistoryLimit
    BY <1>1, <1>2
  <2>2. Cardinality(1..(k - 1)) = k - 1
    BY <1>1, FS_Interval
  <2>3. k - 1 < HistoryLimit
    BY <1>1, <2>1
  <2>4. Cardinality({j \in Lies(place) : j < k}) < HistoryLimit
    BY <2>1, <2>2, <2>3, Zenon
  <2> QED BY <1>2, <2>4 DEF History
<1>3. CASE place # "cosmos"
  <2>1. IsFiniteSet(1..n)
    BY <1>1, FS_Interval
  <2>7. i \in Int /\ k \in Int /\ \A j \in Lies(place) : j \in 1..n /\ j \in Int
    BY <1>1, HistoryIsPart
  <2>2. after(k) \subseteq after(i) /\ after(i) \subseteq 1..n
    BY <2>7
  <2>3. IsFiniteSet(after(i)) /\ IsFiniteSet(after(k)) /\ Cardinality(after(k)) <= Cardinality(after(i))
    BY <2>1, <2>2, FS_Subset
  <2>4. Cardinality(after(i)) < HistoryLimit
    BY <1>3 DEF History
  <2>5. Cardinality(after(i)) \in Nat /\ Cardinality(after(k)) \in Nat
    BY <2>3, FS_CardinalityType
  <2>6. Cardinality(after(k)) < HistoryLimit
    BY <1>1, <2>3, <2>4, <2>5
  <2> QED BY <1>3, <2>6 DEF History
<1> QED BY <1>2, <1>3

\* A reply that is taken for a template is for one of the list it was read from.
LEMMA ChoiceFromList ==
    ASSUME NEW choice, NEW list \in MessageType, ListHolds(list), list.shown # <<>>, Chosen(choice, list.templates) # <<>>,
           NEW m \in MessageType, m.choice = choice, m.template = Chosen(choice, list.templates)[1]
    PROVE  FromList(m, list)
<1>1. list.templates \in Seq(STRING)
  BY DEF MessageType
<1>2. PICK i \in DOMAIN list.templates : Chosen(choice, list.templates)[1] = list.templates[i]
  BY <1>1, ChosenFromList
<1>3. m.template \in Range(list.templates)
  BY <1>2 DEF Range
<1>4. list.shown = AllFiles /\ list.templates = DocxFiles
  <2>1. DOMAIN list.templates # {}
    BY <1>2
  <2>2. DOMAIN (<<>>) = {}
    OBVIOUS
  <2>3. list.templates # <<>>
    BY <2>1, <2>2
  <2> QED BY <2>3 DEF ListHolds
<1>5. ASSUME choice \in DOMAIN Ordinal, Ordinal[choice] <= Len(list.shown)
      PROVE  \/ m.template = list.shown[Ordinal[choice]]
             \/ \E j \in 1..Ordinal[choice] : list.shown[j] \in {t.file : t \in Range(Files("pdf"))}
  <2>1. Ordinal[choice] <= Len(Templates)
    BY <1>4, <1>5, FilesAreNames
  <2> QED BY <1>4, <1>5, <2>1, NumberAsShown
<1> QED BY <1>3, <1>5 DEF FromList

\* The email of a choice is that of its list, or one the user has named since.
LEMMA EmailIsNamed ==
    ASSUME messages \in Seq(MessageType), NEW history \in SUBSET (DOMAIN messages), NEW at \in DOMAIN messages,
           NEW m, m.email = EmailFor(at, history)
    PROVE  WithEmail(messages, m, Len(messages), at) /\ m.email \in Addresses
<1> DEFINE n == Len(messages)
<1>0. \A i \in DOMAIN messages : messages[i] \in MessageType
  BY ElementOfSeq
<1>4. n \in Nat /\ DOMAIN messages = 1..n
  BY LenProperties
<1>5. \A i \in DOMAIN messages : messages[i].email \in Addresses
  BY <1>0 DEF MessageType
<1>1. n \in Nat /\ DOMAIN messages = 1..n /\ (\A i \in DOMAIN messages : messages[i].email \in Addresses) /\ at \in Int
  BY <1>4, <1>5
<1>2. CASE HasEmail(messages[at]) \/ Mentions(at, history) = {}
  BY <1>1, <1>2 DEF WithEmail, EmailFor
<1>3. CASE ~(HasEmail(messages[at]) \/ Mentions(at, history) = {})
  <2>1. Mentions(at, history) \in SUBSET (1..n) /\ Mentions(at, history) # {}
    BY <1>1, <1>3 DEF Mentions
  <2>2. Max(Mentions(at, history)) \in Mentions(at, history)
    BY <1>1, <2>1, GreatestOf
  <2>3. PICK k \in Mentions(at, history) : k = Max(Mentions(at, history))
    BY <2>2
  <2>4. k \in (at + 1)..n /\ messages[k].role = "user" /\ k \in DOMAIN messages
    BY <1>1, <2>1 DEF Mentions
  <2>5. m.email = messages[k].email
    BY <1>3, <2>3 DEF EmailFor
  <2> QED BY <1>1, <1>3, <2>4, <2>5 DEF WithEmail
<1> QED BY <1>2, <1>3

LEMMA PlainFits == Message("user", "") \in MessageType /\ Fits(Message("user", ""))
<1>1. "" \in Addresses /\ "user" \in {"user", "assistant"}
  BY Zenon DEF Addresses
<1>2. \A email \in Addresses : Message("user", email) \in MessageType /\ Fits(Message("user", email))
  BY <1>1, MessageIsOne, Zenon DEF ListHolds, Fits, ChoiceHolds
<1> QED BY <1>1, <1>2, Zenon

LEMMA AugmentFits ==
    ASSUME MessagesHold, NEW choice \in Replies, NEW place \in Places
    PROVE  Augment(choice, place) \in MessageType /\ Fits(Augment(choice, place))
<1> DEFINE history == History(place)
           at == NewestList(history)
           list == messages[at]
           chosen == Chosen(choice, list.templates)
           m == [Message("user", EmailFor(at, history)) EXCEPT !.choice = choice, !.from = place, !.template = chosen[1]]
           n == Len(messages)
<1>1. messages \in Seq(MessageType) /\ \A i \in DOMAIN messages : ListHolds(messages[i])
  BY DEF MessagesHold
<1>2. CASE ListsIn(history) = {} \/ chosen = <<>> \/ EmailFor(at, history) = ""
  <2>1. Augment(choice, place) = Message("user", "")
    BY <1>2, Zenon DEF Augment
  <2> QED BY <2>1, PlainFits, Zenon
<1>3. CASE ~(ListsIn(history) = {} \/ chosen = <<>> \/ EmailFor(at, history) = "")
  <2>1. Augment(choice, place) = m
    BY <1>3, Zenon DEF Augment
  <2>19. ListsIn(history) # {} /\ chosen # <<>>
    BY <1>3, Zenon
  <2>2. n \in Nat /\ DOMAIN messages = 1..n
    BY <1>1, LenProperties
  <2>3. history \in SUBSET (DOMAIN messages)
    BY <1>1, HistoryIsPart
  <2>4. ListsIn(history) \in SUBSET (1..n) /\ ListsIn(history) # {} /\ at = Max(ListsIn(history))
    BY <2>19, <2>2, <2>3 DEF ListsIn, NewestList
  <2>5. at \in ListsIn(history) /\ \A j \in ListsIn(history) : j <= at
    BY <2>2, <2>4, GreatestOf
  <2>6. at \in DOMAIN messages /\ at \in history /\ list.shown # <<>> /\ at \in Lists(messages, n)
    BY <2>2, <2>3, <2>5 DEF ListsIn, Lists
  <2>18. list \in MessageType /\ ListHolds(list)
    BY <1>1, <2>6, ElementOfSeq
  <2>7. list \in MessageType /\ ListHolds(list) /\ list.templates \in Seq(STRING)
    BY <2>18 DEF MessageType
  <2>8. place \in Stores
    BY DEF Places, Stores
  <2> HIDE DEF history, at, list, chosen
  <2>9. PICK i \in DOMAIN list.templates : chosen[1] = list.templates[i]
    BY <2>19, <2>7, ChosenFromList DEF chosen
  <2>10. chosen[1] \in STRING
    BY <2>7, <2>9, ElementOfSeq
  <2>11. \A e \in Addresses : EmailFor(at, history) = e =>
            /\ m \in MessageType /\ m.choice = choice /\ m.from = place /\ m.email = e /\ m.shown = <<>>
            /\ m.template = chosen[1]
    <3> TAKE e \in Addresses
    <3> HAVE EmailFor(at, history) = e
    <3>1. /\ Message("user", e) \in MessageType /\ Message("user", e).shown = <<>> /\ Message("user", e).email = e
          /\ choice \in Texts \union Replies
      BY MessageIsOne
    <3>2. place \in Texts /\ chosen[1] \in Texts
      BY <2>8, <2>10, Zenon DEF Texts
    <3>3. m = [Message("user", e) EXCEPT !.choice = choice, !.from = place, !.template = chosen[1]]
      OBVIOUS
    <3> QED BY <3>1, <3>2, <3>3 DEF MessageType
  <2>12. EmailFor(at, history) \in Addresses
    <3>1. [email |-> EmailFor(at, history)].email = EmailFor(at, history)
      OBVIOUS
    <3> QED BY <1>1, <2>3, <2>6, <3>1, EmailIsNamed
  <2>13. /\ m \in MessageType /\ m.choice = choice /\ m.from = place /\ m.email = EmailFor(at, history) /\ m.shown = <<>>
         /\ m.template = chosen[1]
    BY <2>11, <2>12
  <2> HIDE DEF m
  <2>14. FromAt(messages, m, n, at)
    <3>1. WithEmail(messages, m, n, at)
      BY <1>1, <2>3, <2>6, <2>13, EmailIsNamed
    <3>2. FromList(m, list)
      BY <2>19, <2>6, <2>7, <2>13, ChoiceFromList DEF chosen
    <3> QED BY <3>1, <3>2 DEF FromAt, list
  <2>15. FromAt(messages, m, n, Max(Lists(messages, n))) \/ Excused(messages, m, n)
    <3>1. SUFFICES ASSUME ~Excused(messages, m, n) PROVE Max(Lists(messages, n)) = at
      BY <2>14
    <3>2. Lies(place) = DOMAIN messages /\ ~(place = "cosmos" /\ n > HistoryLimit)
      <4>1. \A k \in 1..n : place \in messages[k].lies
        BY <2>13, <3>1 DEF Excused
      <4>2. ~(place = "cosmos" /\ n > HistoryLimit)
        BY <2>13, <3>1 DEF Excused
      <4> QED BY <2>2, <4>1, <4>2 DEF Lies
    <3>3. Lists(messages, n) \in SUBSET (1..n)
      BY DEF Lists
    <3>4. Max(Lists(messages, n)) \in Lists(messages, n) /\ \A j \in Lists(messages, n) : j <= Max(Lists(messages, n))
      BY <2>2, <2>6, <3>3, GreatestOf
    <3>5. ASSUME NEW j \in Lists(messages, n), j > at PROVE FALSE
      <4>1. j \in DOMAIN messages /\ messages[j].shown # <<>>
        BY <2>2, <3>5 DEF Lists
      <4>2. j \in history
        BY <1>1, <2>6, <3>2, <3>5, <4>1, HistoryOfAll DEF history
      <4>3. j <= at
        BY <2>5, <4>1, <4>2 DEF ListsIn
      <4> QED BY <2>2, <2>6, <3>5, <4>1, <4>3
    <3> QED BY <2>2, <2>6, <3>3, <3>4, <3>5
  <2>16. ChoiceHolds(messages, m, n)
    BY <2>6, <2>14, <2>15, Zenon DEF ChoiceHolds
  <2>17. Fits(m)
    BY <2>13, <2>16 DEF Fits, ListHolds
  <2> QED BY <2>1, <2>13, <2>17
<1> QED BY <1>2, <1>3

-----------------------------------------------------------------------------
(* The turn in which the CV is made.                                       *)

TurnFields == {"step", "email", "template", "anonymize", "got", "reloaded", "doc", "file"}
BuiltSteps == {"built", "downloaded", "invalid filename"}
RowsAt(section) == {<<>>} \union UNION {{Graphs[g][e][section] : e \in DOMAIN Graphs[g]} : g \in DOMAIN Graphs}
AnyRows == UNION {RowsAt(section) : section \in {"profile", "skills", "certs", "langs", "edu", "exp", "loc"}}
RowsIn(l, email, section) == IF email \in DOMAIN Graphs[l] THEN Graphs[l][email][section] ELSE <<>>

\* The sections read so far are the employee's, who exists, unless the graph was loaded meanwhile.
ReadHolds(c, l) ==
    /\ DOMAIN c = TurnFields
    /\ c.got \in Seq(AnyRows) /\ Len(c.got) <= 7
    /\ \A k \in DOMAIN c.got : c.got[k] \in RowsAt(Sections[k]) /\ (k = 1 => c.got[k] # <<>>)
    /\ c.step \in {"idle", "agent"} => c.got = <<>>
    /\ c.step = "read" => Len(c.got) < 7
    /\ c.step \in {"template"} \union BuiltSteps => Len(c.got) = 7
    /\ ~c.reloaded => \A k \in DOMAIN c.got : c.got[k] = RowsIn(l, c.email, Sections[k])

LEMMA EmptyTurn ==
    ASSUME NEW c, NEW l, DOMAIN c = TurnFields, c.got = <<>>, c.step \in {"idle", "agent", "read"}
    PROVE  ReadHolds(c, l)
<1>1. <<>> \in Seq(AnyRows) /\ Len(<<>>) = 0 /\ DOMAIN (<<>>) = {}
  BY EmptySeq
<1>2. c.got \in Seq(AnyRows) /\ Len(c.got) = 0 /\ DOMAIN c.got = {}
  BY <1>1
<1>3. c.step \notin {"template"} \union BuiltSteps
  BY DEF BuiltSteps
<1> QED BY <1>2, <1>3 DEF ReadHolds

LEMMA SectionsInOrder ==
    ASSUME NEW k \in 1..7
    PROVE  /\ Sections[k] \in {"profile", "skills", "certs", "langs", "edu", "exp", "loc"}
           /\ Sections[k] = "profile" <=> k = 1
           /\ Sections[k] = "loc" <=> k = 7
  BY DEF Sections

LEMMA NoTurnIsEmpty == DOMAIN NoTurn = TurnFields /\ NoTurn.got = <<>> /\ NoTurn.step = "idle"
  BY DEF NoTurn, TurnFields

\* The next section is read.
LEMMA SectionIsRead ==
    ASSUME ReadHolds(cv, loaded), loaded \in DOMAIN Graphs, ReadSection
    PROVE  ReadHolds(cv', loaded)
<1> DEFINE n == Len(cv.got)
           rows == RowsOf(cv.email, Section)
<1>1. /\ DOMAIN cv = TurnFields /\ cv.got \in Seq(AnyRows) /\ n \in Nat /\ n < 7 /\ DOMAIN cv.got = 1..n
      /\ \A k \in DOMAIN cv.got : cv.got[k] \in RowsAt(Sections[k]) /\ (k = 1 => cv.got[k] # <<>>)
      /\ ~cv.reloaded => \A k \in DOMAIN cv.got : cv.got[k] = RowsIn(loaded, cv.email, Sections[k])
  BY LenProperties DEF ReadHolds, ReadSection
<1>2. /\ DOMAIN cv' = TurnFields /\ cv'.got = Append(cv.got, rows) /\ cv'.email = cv.email /\ cv'.reloaded = cv.reloaded
      /\ cv'.step = IF Section = "loc" THEN "template" ELSE "read"
  BY <1>1 DEF ReadSection, TurnFields
<1>3. /\ n + 1 \in 1..7 /\ Section = Sections[n + 1] /\ rows = RowsIn(loaded, cv.email, Sections[n + 1])
  <2>1. n + 1 \in 1..7
    BY <1>1
  <2> QED BY <2>1 DEF Section, RowsOf, RowsIn
<1>4. rows \in RowsAt(Sections[n + 1]) /\ (n + 1 = 1 => rows # <<>>) /\ rows \in AnyRows
  <2>1. rows \in RowsAt(Sections[n + 1])
    <3>1. CASE cv.email \in DOMAIN Graphs[loaded]
      BY <1>3, <3>1 DEF RowsIn, RowsAt
    <3>2. CASE cv.email \notin DOMAIN Graphs[loaded]
      BY <1>3, <3>2 DEF RowsIn, RowsAt
    <3> QED BY <3>1, <3>2
  <2>2. n + 1 = 1 => rows # <<>>
    BY <1>3, SectionsInOrder DEF ReadSection
  <2>3. Sections[n + 1] \in {"profile", "skills", "certs", "langs", "edu", "exp", "loc"}
    BY <1>3, SectionsInOrder
  <2> QED BY <2>1, <2>2, <2>3 DEF AnyRows
<1>5. Section = "loc" <=> n + 1 = 7
  BY <1>3, SectionsInOrder
<1> HIDE DEF rows
<1>6. /\ cv'.got \in Seq(AnyRows) /\ Len(cv'.got) = n + 1 /\ DOMAIN cv'.got = 1..(n + 1)
      /\ cv'.got[n + 1] = rows /\ \A k \in DOMAIN cv.got : cv'.got[k] = cv.got[k]
      /\ \A k \in DOMAIN cv'.got : k \in DOMAIN cv.got \/ k = n + 1
  BY <1>1, <1>2, <1>4, Appended
<1> HIDE DEF n
<1>7. \A k \in DOMAIN cv'.got : cv'.got[k] \in RowsAt(Sections[k]) /\ (k = 1 => cv'.got[k] # <<>>)
  BY <1>1, <1>4, <1>6
<1>8. ~cv'.reloaded => \A k \in DOMAIN cv'.got : cv'.got[k] = RowsIn(loaded, cv'.email, Sections[k])
  BY <1>1, <1>2, <1>3, <1>6
<1>9. n + 1 <= 7 /\ (cv'.step = "read" => n + 1 < 7) /\ (cv'.step \in {"template"} \union BuiltSteps => n + 1 = 7)
      /\ cv'.step \notin {"idle", "agent"}
  BY <1>1, <1>2, <1>3, <1>5 DEF BuiltSteps
<1> QED BY <1>2, <1>6, <1>7, <1>8, <1>9 DEF ReadHolds

\* Another generation is loaded.
LEMMA LoadKeepsRead ==
    ASSUME ReadHolds(cv, loaded), LoadPeople
    PROVE  ReadHolds(cv', loaded')
<1>1. /\ DOMAIN cv' = TurnFields /\ cv'.got = cv.got /\ cv'.email = cv.email /\ cv'.step = cv.step
      /\ (~cv'.reloaded => cv.step = "idle")
  BY DEF ReadHolds, LoadPeople, TurnFields
<1>2. CASE cv.step = "idle"
  BY <1>1, <1>2, EmptyTurn DEF ReadHolds
<1>3. CASE cv.step # "idle"
  BY <1>1, <1>3 DEF ReadHolds
<1> QED BY <1>2, <1>3

-----------------------------------------------------------------------------
(* The document.                                                           *)

Shown(skills) == skills \in {SkillGroups(Got("skills")), Got("skills")}
NoSidebar(template) == \E t \in Named(template) : t.boxes = 0

\* The document is made of the rows, whichever of the two builds it.
DocHolds ==
    cv.step \in BuiltSteps =>
        /\ cv.file = ShownName /\ cv.doc.name = ShownName
        /\ cv.doc.exp = Jobs(Got("exp"), cv.anonymize)
        /\ cv.anonymize => cv.doc.contact = <<>>
        /\ \/ NoSidebar(cv.template)
           \/ /\ Shown(cv.doc.skills)
              /\ cv.doc.certs = Got("certs") /\ cv.doc.edu = Got("edu") /\ cv.doc.langs = Got("langs")
        /\ cv.step = "invalid filename" => ~Accepted(cv.file)

LEMMA SameRows ==
    ASSUME cv'.got = cv.got, cv'.anonymize = cv.anonymize
    PROVE  /\ ShownName' = ShownName /\ Got("exp")' = Got("exp") /\ Got("skills")' = Got("skills")
           /\ Got("certs")' = Got("certs") /\ Got("edu")' = Got("edu") /\ Got("langs")' = Got("langs")
<1>1. /\ Got("profile")' = Got("profile") /\ Got("exp")' = Got("exp") /\ Got("skills")' = Got("skills")
      /\ Got("certs")' = Got("certs") /\ Got("edu")' = Got("edu") /\ Got("langs")' = Got("langs")
  BY DEF Got
<1>2. Profile' = Profile
  BY <1>1 DEF Profile
<1>3. ShownName' = ShownName
  BY <1>2 DEF ShownName
<1> QED BY <1>1, <1>3

LEMMA BuiltFromRows ==
    ASSUME DOMAIN cv = TurnFields, BuildCv
    PROVE  DocHolds'
<1> DEFINE d == cv'.doc
<1>1. /\ cv'.got = cv.got /\ cv'.anonymize = cv.anonymize /\ cv'.template = cv.template
      /\ cv'.step = "built" /\ cv'.file = ShownName
      /\ d = (IF cv.template = "" THEN DefaultDocument ELSE TemplateDocument)
  BY DEF BuildCv, TurnFields
<1>2. cv.anonymize => Contact = <<>>
  BY DEF Contact
<1>3. CASE cv.template = ""
  <2>1. d = DefaultDocument
    BY <1>1, <1>3
  <2>2. d = [name |-> ShownName, contact |-> Contact, skills |-> SkillGroups(Got("skills")), certs |-> Got("certs"),
             edu |-> Got("edu"), langs |-> Got("langs"), exp |-> Jobs(Got("exp"), cv.anonymize)]
    BY <2>1, Zenon DEF DefaultDocument
  <2> HIDE DEF d
  <2>3. /\ d.name = ShownName /\ d.exp = Jobs(Got("exp"), cv.anonymize) /\ (cv.anonymize => d.contact = <<>>)
        /\ Shown(d.skills) /\ d.certs = Got("certs") /\ d.edu = Got("edu") /\ d.langs = Got("langs")
    BY <1>2, <2>2 DEF Shown
  <2> QED BY <1>1, <2>3, SameRows DEF DocHolds, Shown, d
<1>4. CASE cv.template # ""
  <2>1. d = TemplateDocument
    BY <1>1, <1>4
  <2>2. d = [name |-> ShownName, contact |-> <<>>, skills |-> Sidebar(Got("skills")), certs |-> Sidebar(Got("certs")),
             edu |-> Sidebar(Got("edu")), langs |-> Sidebar(Got("langs")), exp |-> Jobs(Got("exp"), cv.anonymize)]
    BY <2>1, Zenon DEF TemplateDocument
  <2> HIDE DEF d
  <2>3. \/ NoSidebar(cv.template)
        \/ /\ Sidebar(Got("skills")) = Got("skills") /\ Sidebar(Got("certs")) = Got("certs")
           /\ Sidebar(Got("edu")) = Got("edu") /\ Sidebar(Got("langs")) = Got("langs")
    BY DEF Sidebar, NoSidebar
  <2>4. /\ d.name = ShownName /\ d.exp = Jobs(Got("exp"), cv.anonymize) /\ d.contact = <<>>
        /\ \/ NoSidebar(cv.template)
           \/ Shown(d.skills) /\ d.certs = Got("certs") /\ d.edu = Got("edu") /\ d.langs = Got("langs")
    BY <2>2, <2>3 DEF Shown
  <2> QED BY <1>1, <2>4, SameRows DEF DocHolds, Shown, d
<1> QED BY <1>3, <1>4

LEMMA DownloadKeeps ==
    ASSUME DOMAIN cv = TurnFields, DocHolds, DownloadCv
    PROVE  DocHolds'
<1>1. /\ cv'.got = cv.got /\ cv'.anonymize = cv.anonymize /\ cv'.template = cv.template /\ cv'.doc = cv.doc
      /\ cv'.file = cv.file /\ cv'.step = IF Accepted(cv.file) THEN "downloaded" ELSE "invalid filename"
      /\ cv.step \in BuiltSteps
  BY DEF DownloadCv, TurnFields, BuiltSteps
<1>2. Shown(cv.doc.skills)' <=> Shown(cv.doc.skills)
  BY <1>1, SameRows DEF Shown
<1> QED BY <1>1, <1>2, SameRows DEF DocHolds

-----------------------------------------------------------------------------
(* The invariant.                                                          *)

WriteHolds ==
    /\ MessagesHold /\ (cv.step = "agent" => messages # <<>>)
    /\ loaded \in DOMAIN Graphs /\ ReadHolds(cv, loaded)
    /\ DocHolds

LEMMA WriteHoldsInitially == WriteInit => WriteHolds
<1> SUFFICES ASSUME WriteInit PROVE WriteHolds
  OBVIOUS
<1>1. loaded \in DOMAIN Graphs /\ messages = <<>> /\ cv = NoTurn
  BY DEF WriteInit
<1>2. messages \in Seq(MessageType) /\ DOMAIN messages = {}
  BY <1>1, EmptySeq
<1>3. ReadHolds(cv, loaded)
  BY <1>1, NoTurnIsEmpty, EmptyTurn
<1>4. cv.step = "idle"
  BY <1>1, NoTurnIsEmpty
<1> QED BY <1>1, <1>2, <1>3, <1>4 DEF WriteHolds, MessagesHold, DocHolds, BuiltSteps

LEMMA ListIsShown ==
    ASSUME WriteHolds, ListTemplates
    PROVE  MessagesHold'
<1>2. Asked \in MessageType
  <2>1. messages \in Seq(MessageType) /\ messages # <<>>
    BY Zenon DEF WriteHolds, MessagesHold, ListTemplates
  <2>2. Len(messages) \in DOMAIN messages
    BY <2>1, EmptySeq, LenProperties
  <2> QED BY <2>1, <2>2, ElementOfSeq DEF Asked
<1>1. PICK quoted \in BOOLEAN, email \in {Asked.email, ""} : Says([Message("assistant", email) EXCEPT !.shown = AllFiles,
          !.templates = IF quoted THEN DocxFiles ELSE <<>>])
  BY Zenon DEF ListTemplates, AllFiles, DocxFiles
<1> DEFINE m == [Message("assistant", email) EXCEPT !.shown = AllFiles,
                    !.templates = IF quoted THEN DocxFiles ELSE <<>>]
<1>6. Asked.email \in Addresses
  BY <1>2 DEF MessageType
<1>7. email \in Addresses
  BY <1>6, Zenon DEF Addresses
<1>8. Message("assistant", email) \in MessageType /\ Message("assistant", email).choice = ""
  BY <1>7, MessageIsOne, Zenon
<1>3. /\ m.choice = Message("assistant", email).choice /\ m.shown = AllFiles
      /\ m.templates \in {<<>>, DocxFiles} /\ m \in MessageType
  <2>1. <<>> \in Seq(STRING) /\ AllFiles \in Seq(STRING) /\ DocxFiles \in Seq(STRING)
    BY FilesAreNames, EmptySeq
  <2>2. Message("assistant", email) \in MessageType
    BY <1>8, Zenon
  <2> QED BY <2>1, <2>2 DEF MessageType
<1> HIDE DEF m
<1>4. Fits(m)
  BY <1>3, <1>8, Zenon DEF Fits, ListHolds, ChoiceHolds
<1>5. MessagesHold /\ Says(m)
  BY <1>1, Zenon DEF WriteHolds, m
<1> QED BY <1>3, <1>4, <1>5, SaysKeeps

LEMMA AddsOne ==
    ASSUME MessagesHold, NEW m, Says(m)
    PROVE  messages' # <<>>
<1>1. PICK places \in SUBSET Stores : messages' = Append(messages, [m EXCEPT !.lies = places])
  BY SaysPuts
<1>2. messages \in Seq(MessageType)
  BY DEF MessagesHold
<1>3. Len(messages') = Len(messages) + 1 /\ Len(messages) \in Nat /\ Len(<<>>) = 0
  BY <1>1, <1>2
<1> QED BY <1>3

LEMMA MessagesStay == ASSUME MessagesHold, messages' = messages PROVE MessagesHold'
  BY DEF MessagesHold

LEMMA DocumentStays ==
    ASSUME DocHolds, cv'.step = cv.step, cv'.got = cv.got, cv'.anonymize = cv.anonymize, cv'.template = cv.template,
           cv'.doc = cv.doc, cv'.file = cv.file
    PROVE  DocHolds'
  BY SameRows DEF DocHolds, Shown

LEMMA Empties ==
    ASSUME cv' = NoTurn, loaded \in DOMAIN Graphs, loaded' = loaded
    PROVE  (cv.step = "agent" => messages # <<>>)' /\ loaded' \in DOMAIN Graphs /\ ReadHolds(cv', loaded') /\ DocHolds'
  BY NoTurnIsEmpty, EmptyTurn DEF DocHolds, BuiltSteps

LEMMA Begins ==
    ASSUME DOMAIN cv' = TurnFields, cv'.got = <<>>, cv'.step \in {"agent", "read"},
           loaded \in DOMAIN Graphs, loaded' = loaded, messages' # <<>> \/ cv'.step = "read"
    PROVE  (cv.step = "agent" => messages # <<>>)' /\ loaded' \in DOMAIN Graphs /\ ReadHolds(cv', loaded') /\ DocHolds'
<1>1. ReadHolds(cv', loaded')
  BY EmptyTurn
<1> QED BY <1>1 DEF DocHolds, BuiltSteps

LEMMA WriteHoldsStays == WriteHolds /\ [WriteNext]_writing => WriteHolds'
<1> SUFFICES ASSUME WriteHolds, [WriteNext]_writing PROVE WriteHolds'
  OBVIOUS
<1>0. MessagesHold /\ loaded \in DOMAIN Graphs /\ ReadHolds(cv, loaded) /\ DOMAIN cv = TurnFields /\ DocHolds
  BY DEF WriteHolds, ReadHolds
<1>1. ASSUME AskForCv PROVE WriteHolds'
  <2>1. PICK email \in Emails : Says(Message("user", email))
    BY <1>1 DEF AskForCv, Emails
  <2>2. loaded' = loaded /\ cv' = [NoTurn EXCEPT !.step = "agent"]
    BY <1>1 DEF AskForCv
  <2>5. email \in Addresses /\ "user" \in {"user", "assistant"}
    BY Zenon DEF Addresses
  <2>3. MessagesHold' /\ messages' # <<>>
    BY <1>0, <2>1, <2>5, PlainMessageKeeps, AddsOne
  <2>4. DOMAIN cv' = TurnFields /\ cv'.got = <<>> /\ cv'.step = "agent"
    BY <2>2 DEF NoTurn, TurnFields
  <2> QED BY <1>0, <2>2, <2>3, <2>4, Begins DEF WriteHolds
<1>2. ASSUME Reply PROVE WriteHolds'
  <2>1. PICK choice \in Replies, place \in Places : Says(Augment(choice, place))
    BY <1>2 DEF Reply
  <2>2. loaded' = loaded /\ cv' = [NoTurn EXCEPT !.step = "agent"]
    BY <1>2 DEF Reply
  <2>3. MessagesHold' /\ messages' # <<>>
    BY <1>0, <2>1, <2>2, AugmentFits, SaysKeeps, AddsOne
  <2>4. DOMAIN cv' = TurnFields /\ cv'.got = <<>> /\ cv'.step = "agent"
    BY <2>2 DEF NoTurn, TurnFields
  <2> QED BY <1>0, <2>2, <2>3, <2>4, Begins DEF WriteHolds
<1>3. ASSUME ListTemplates PROVE WriteHolds'
  <2>1. MessagesHold'
    BY <1>3, ListIsShown
  <2> QED BY <1>0, <1>3, <2>1, Empties DEF ListTemplates, WriteHolds
<1>4. ASSUME cv' = NoTurn, Says(Message("assistant", "")), loaded' = loaded PROVE WriteHolds'
  <2>1. MessagesHold'
    BY <1>0, <1>4, AnswerKeeps, Zenon
  <2> QED BY <1>0, <1>4, <2>1, Empties DEF WriteHolds
<1>5. ASSUME AnswerOtherwise PROVE WriteHolds'
  BY <1>4, <1>5 DEF AnswerOtherwise
<1>6. ASSUME NoEmployee \/ ReadFails \/ RefuseTemplate PROVE WriteHolds'
  BY <1>4, <1>6 DEF NoEmployee, ReadFails, RefuseTemplate, Refuse
<1>7. ASSUME CallTool PROVE WriteHolds'
  <2>1. PICK template \in {Asked.template, ""} \union Strangers, anonymize \in BOOLEAN :
            cv' = [NoTurn EXCEPT !.step = "read", !.email = Asked.email, !.template = template, !.anonymize = anonymize]
    BY <1>7 DEF CallTool
  <2>2. loaded' = loaded /\ messages' = messages
    BY <1>7 DEF CallTool
  <2>3. DOMAIN cv' = TurnFields /\ cv'.got = <<>> /\ cv'.step = "read"
    BY <2>1 DEF NoTurn, TurnFields
  <2> QED BY <1>0, <2>2, <2>3, Begins, MessagesStay DEF WriteHolds
<1>8. ASSUME LoadPeople PROVE WriteHolds'
  <2>1. /\ messages' = messages /\ loaded' \in DOMAIN Graphs
        /\ cv' = [cv EXCEPT !.reloaded = cv.step # "idle"]
    BY <1>8 DEF LoadPeople
  <2>2. /\ cv'.step = cv.step /\ cv'.got = cv.got /\ cv'.anonymize = cv.anonymize /\ cv'.template = cv.template
        /\ cv'.doc = cv.doc /\ cv'.file = cv.file
    BY <1>0, <2>1 DEF TurnFields
  <2>3. ReadHolds(cv', loaded')
    BY <1>0, <1>8, LoadKeepsRead
  <2> QED BY <1>0, <2>1, <2>2, <2>3, MessagesStay, DocumentStays DEF WriteHolds
<1>9. ASSUME ReadSection PROVE WriteHolds'
  <2>1. messages' = messages /\ loaded' = loaded /\ cv'.step \in {"read", "template"}
    BY <1>0, <1>9 DEF ReadSection, TurnFields
  <2>2. ReadHolds(cv', loaded)
    BY <1>0, <1>9, SectionIsRead
  <2> QED BY <1>0, <2>1, <2>2, MessagesStay DEF WriteHolds, DocHolds, BuiltSteps
<1>10. ASSUME BuildCv PROVE WriteHolds'
  <2>1. /\ loaded' = loaded /\ Says(Message("assistant", "")) /\ cv.step = "template"
        /\ DOMAIN cv' = TurnFields /\ cv'.step = "built" /\ cv'.got = cv.got /\ cv'.email = cv.email /\ cv'.reloaded = cv.reloaded
    BY <1>0, <1>10 DEF BuildCv, TurnFields
  <2>2. MessagesHold'
    BY <1>0, <2>1, AnswerKeeps, Zenon
  <2>3. ReadHolds(cv', loaded')
    BY <1>0, <2>1 DEF ReadHolds, BuiltSteps
  <2> QED BY <1>0, <1>10, <2>1, <2>2, <2>3, BuiltFromRows DEF WriteHolds
<1>11. ASSUME DownloadCv PROVE WriteHolds'
  <2>1. /\ loaded' = loaded /\ messages' = messages /\ cv.step = "built" /\ cv'.step \in BuiltSteps
        /\ DOMAIN cv' = TurnFields /\ cv'.got = cv.got /\ cv'.email = cv.email /\ cv'.reloaded = cv.reloaded
    BY <1>0, <1>11 DEF DownloadCv, TurnFields, BuiltSteps
  <2>2. ReadHolds(cv', loaded')
    BY <1>0, <2>1 DEF ReadHolds, BuiltSteps
  <2>3. cv'.step # "agent"
    BY <2>1 DEF BuiltSteps
  <2> QED BY <1>0, <1>11, <2>1, <2>2, <2>3, MessagesStay, DownloadKeeps DEF WriteHolds
<1>12. ASSUME EndTurn PROVE WriteHolds'
  <2>1. loaded' = loaded /\ messages' = messages /\ cv' = NoTurn
    BY <1>12 DEF EndTurn
  <2> QED BY <1>0, <2>1, MessagesStay, Empties DEF WriteHolds
<1>14. ASSUME BreakerOpens PROVE WriteHolds'
  <2>1. loaded' = loaded /\ messages' = messages /\ cv' = cv
    BY <1>14 DEF BreakerOpens
  <2> QED BY <1>0, <2>1, MessagesStay, DocumentStays DEF WriteHolds
<1>13. CASE UNCHANGED writing
  <2>1. loaded' = loaded /\ messages' = messages /\ cv' = cv
    BY <1>13 DEF writing
  <2> QED BY <1>0, <2>1, MessagesStay, DocumentStays DEF WriteHolds
<1> QED BY <1>1, <1>2, <1>3, <1>5, <1>6, <1>7, <1>8, <1>9, <1>10, <1>11, <1>12, <1>13, <1>14 DEF WriteNext

-----------------------------------------------------------------------------
(* The rows of a section.                                                  *)

LEMMA SectionPlaces ==
    /\ Got("profile") = cv.got[1] /\ Got("skills") = cv.got[2] /\ Got("certs") = cv.got[3]
    /\ Got("langs") = cv.got[4] /\ Got("edu") = cv.got[5] /\ Got("exp") = cv.got[6]
<1>1. DOMAIN Sections = 1..7
  BY DEF Sections
<1>2. ASSUME NEW n \in 1..6 PROVE (CHOOSE i \in DOMAIN Sections : Sections[i] = Sections[n]) = n
  <2>1. \A i \in DOMAIN Sections : Sections[i] = Sections[n] <=> i = n
    BY <1>1 DEF Sections
  <2>2. n \in DOMAIN Sections
    BY <1>1
  <2> QED BY <2>1, <2>2
<1>3. ASSUME NEW n \in 1..6 PROVE Got(Sections[n]) = cv.got[n]
  BY <1>2 DEF Got
<1>4. /\ Sections[1] = "profile" /\ Sections[2] = "skills" /\ Sections[3] = "certs" /\ Sections[4] = "langs"
      /\ Sections[5] = "edu" /\ Sections[6] = "exp"
  BY DEF Sections
<1> QED BY <1>3, <1>4

\* Every row is of an employee of some generation, and without a reload of the one in the graph.
LEMMA RowsOfEmployee ==
    ASSUME WriteHolds, Built
    PROVE  /\ Got("profile") \in RowsAt("profile") \ {<<>>}
           /\ Got("skills") \in RowsAt("skills") /\ Got("exp") \in RowsAt("exp")
           /\ ~cv.reloaded =>
                  /\ loaded \in DOMAIN Graphs /\ cv.email \in DOMAIN Graphs[loaded]
                  /\ Got("profile") = Graphs[loaded][cv.email].profile /\ Got("skills") = Graphs[loaded][cv.email].skills
                  /\ Got("certs") = Graphs[loaded][cv.email].certs /\ Got("langs") = Graphs[loaded][cv.email].langs
                  /\ Got("edu") = Graphs[loaded][cv.email].edu /\ Got("exp") = Graphs[loaded][cv.email].exp
<1>1. /\ cv.got \in Seq(AnyRows) /\ Len(cv.got) = 7 /\ loaded \in DOMAIN Graphs
      /\ \A k \in DOMAIN cv.got : cv.got[k] \in RowsAt(Sections[k]) /\ (k = 1 => cv.got[k] # <<>>)
      /\ ~cv.reloaded => \A k \in DOMAIN cv.got : cv.got[k] = RowsIn(loaded, cv.email, Sections[k])
  BY DEF WriteHolds, ReadHolds, Built, BuiltSteps
<1>2. DOMAIN cv.got = 1..7
  BY <1>1, LenProperties
<1>3. /\ Sections[1] = "profile" /\ Sections[2] = "skills" /\ Sections[3] = "certs" /\ Sections[4] = "langs"
      /\ Sections[5] = "edu" /\ Sections[6] = "exp"
  BY DEF Sections
<1>4. cv.got[1] \in RowsAt("profile") \ {<<>>} /\ cv.got[2] \in RowsAt("skills") /\ cv.got[6] \in RowsAt("exp")
  BY <1>1, <1>2, <1>3
<1>5. ASSUME ~cv.reloaded
      PROVE  /\ cv.email \in DOMAIN Graphs[loaded]
             /\ cv.got[1] = Graphs[loaded][cv.email].profile /\ cv.got[2] = Graphs[loaded][cv.email].skills
             /\ cv.got[3] = Graphs[loaded][cv.email].certs /\ cv.got[4] = Graphs[loaded][cv.email].langs
             /\ cv.got[5] = Graphs[loaded][cv.email].edu /\ cv.got[6] = Graphs[loaded][cv.email].exp
  <2>1. /\ cv.got[1] = RowsIn(loaded, cv.email, "profile") /\ cv.got[2] = RowsIn(loaded, cv.email, "skills")
        /\ cv.got[3] = RowsIn(loaded, cv.email, "certs") /\ cv.got[4] = RowsIn(loaded, cv.email, "langs")
        /\ cv.got[5] = RowsIn(loaded, cv.email, "edu") /\ cv.got[6] = RowsIn(loaded, cv.email, "exp")
    BY <1>1, <1>2, <1>3, <1>5
  <2>2. cv.email \in DOMAIN Graphs[loaded]
    BY <1>4, <2>1 DEF RowsIn
  <2> QED BY <2>1, <2>2 DEF RowsIn
<1> QED BY <1>1, <1>4, <1>5, SectionPlaces

\* What is known of the rows of a section.
SkillType == [skill : STRING, level : Levels]
JobType == [client : STRING \ {"Confidential Client"}, start : Nat, current : BOOLEAN]

LEMMA RowsAreTyped ==
    /\ RowsAt("skills") \subseteq Seq(SkillType) /\ RowsAt("exp") \subseteq Seq(JobType)
    /\ \A rows \in RowsAt("profile") \ {<<>>} : rows[1].name # "Candidate Profile" /\ rows[1].name \in DOMAIN NameChars
<1> DEFINE RowsStored(section, rows) ==
        \E g \in DOMAIN Graphs : \E e \in DOMAIN Graphs[g] : rows = Graphs[g][e][section]
<1>1. ASSUME NEW section, NEW rows \in RowsAt(section) PROVE rows = <<>> \/ RowsStored(section, rows)
  BY DEF RowsAt
<1>2. ASSUME NEW g \in DOMAIN Graphs, NEW e \in DOMAIN Graphs[g]
      PROVE  /\ Graphs[g][e].skills \in Seq(SkillType) /\ Graphs[g][e].exp \in Seq(JobType)
             /\ Graphs[g][e].profile[1].name # "Candidate Profile"
             /\ Graphs[g][e].profile[1].name \in DOMAIN NameChars
  BY GraphsAssumption, NamesAssumption DEF SkillType, JobType
<1>3. <<>> \in Seq(SkillType) /\ <<>> \in Seq(JobType)
  BY EmptySeq
<1>4. ASSUME NEW rows \in RowsAt("skills") PROVE rows \in Seq(SkillType)
  <2>1. CASE RowsStored("skills", rows)
    <3>1. PICK g \in DOMAIN Graphs : \E e \in DOMAIN Graphs[g] : rows = Graphs[g][e]["skills"]
      BY <2>1
    <3>2. PICK e \in DOMAIN Graphs[g] : rows = Graphs[g][e]["skills"]
      BY <3>1
    <3> QED BY <1>2, <3>2
  <2> QED BY <1>1, <1>3, <2>1
<1>5. ASSUME NEW rows \in RowsAt("exp") PROVE rows \in Seq(JobType)
  <2>1. CASE RowsStored("exp", rows)
    <3>1. PICK g \in DOMAIN Graphs : \E e \in DOMAIN Graphs[g] : rows = Graphs[g][e]["exp"]
      BY <2>1
    <3>2. PICK e \in DOMAIN Graphs[g] : rows = Graphs[g][e]["exp"]
      BY <3>1
    <3> QED BY <1>2, <3>2
  <2> QED BY <1>1, <1>3, <2>1
<1>6. ASSUME NEW rows \in RowsAt("profile") \ {<<>>}
      PROVE  rows[1].name # "Candidate Profile" /\ rows[1].name \in DOMAIN NameChars
  <2>1. PICK g \in DOMAIN Graphs : \E e \in DOMAIN Graphs[g] : rows = Graphs[g][e]["profile"]
    BY <1>1
  <2>2. PICK e \in DOMAIN Graphs[g] : rows = Graphs[g][e]["profile"]
    BY <2>1
  <2> QED BY <1>2, <2>2
<1> QED BY <1>4, <1>5, <1>6

\* sorted() returns the entries it was given.
LEMMA AllInOrder ==
    ASSUME NEW T, NEW s \in Seq(T), NEW key, \A i \in DOMAIN s : key[i] \in Int
    PROVE  /\ InOrder(s, DOMAIN s, key) \in Seq(T)
           /\ DOMAIN InOrder(s, DOMAIN s, key) = DOMAIN s
           /\ SameEntries(InOrder(s, DOMAIN s, key), s)
<1> DEFINE t == InOrder(s, DOMAIN s, key)
<1>1. DOMAIN s = 1..Len(s) /\ Len(s) \in Nat /\ \A i \in DOMAIN s : s[i] \in T
  BY LenProperties, ElementOfSeq
<1>2. IsFiniteSet(DOMAIN s) /\ Cardinality(DOMAIN s) = Len(s)
  BY <1>1, FS_Interval
<1>3. Sortable(DOMAIN s, key)
  BY <1>1, <1>2 DEF Sortable
<1>4. t \in Seq(T) /\ Len(t) = Len(s) /\ DOMAIN t = DOMAIN s
  BY <1>1, <1>2, <1>3, InOrderIsSeq, InOrderHasMembers
<1>5. /\ \A n \in DOMAIN t : \E i \in DOMAIN s : t[n] = s[i]
      /\ \A i \in DOMAIN s : \E n \in DOMAIN t : t[n] = s[i]
  <2>1. ASSUME NEW I, Sortable(I, key)
        PROVE  /\ \A n \in DOMAIN InOrder(s, I, key) : \E i \in I : InOrder(s, I, key)[n] = s[i]
               /\ \A i \in I : \E n \in DOMAIN InOrder(s, I, key) : InOrder(s, I, key)[n] = s[i]
    BY <2>1, InOrderHasMembers
  <2> QED BY <1>3, <2>1
<1> HIDE DEF t
<1>6. Range(t) = Range(s)
  BY <1>5 DEF Range
<1> QED BY <1>4, <1>6 DEF SameEntries, t

LEMMA AllSkillsShown ==
    ASSUME NEW skills \in Seq(SkillType)
    PROVE  SameEntries(SkillGroups(skills), skills)
<1> DEFINE listed == {i \in DOMAIN skills : Level(skills[i]) \in Range(SkillLevels)}
           key == [i \in listed |-> RankOfLevel(Level(skills[i]))]
<1>1. \A i \in DOMAIN skills : skills[i].level \in Levels
  <2> TAKE i \in DOMAIN skills
  <2>1. skills[i] \in SkillType
    BY ElementOfSeq
  <2> QED BY <2>1 DEF SkillType
<1>2. ASSUME NEW level \in {"Expert", "Guru", "Advanced", "Intermediate", "Basic", "Other"}
      PROVE  level \in Range(SkillLevels) /\ RankOfLevel(level) \in Int
  <2>1. DOMAIN SkillLevels = 1..6
    BY DEF SkillLevels
  <2>2. \E k \in DOMAIN SkillLevels : SkillLevels[k] = level
    <3>1. /\ SkillLevels[1] = "Expert" /\ SkillLevels[2] = "Guru" /\ SkillLevels[3] = "Advanced"
          /\ SkillLevels[4] = "Intermediate" /\ SkillLevels[5] = "Basic" /\ SkillLevels[6] = "Other"
      BY DEF SkillLevels
    <3> QED BY <2>1, <3>1
  <2>3. RankOfLevel(level) \in DOMAIN SkillLevels
    BY <2>2 DEF RankOfLevel
  <2>4. level \in Range(SkillLevels)
    BY <2>2 DEF Range
  <2> QED BY <2>1, <2>3, <2>4
<1>3. \A i \in DOMAIN skills : Level(skills[i]) \in {"Expert", "Guru", "Advanced", "Intermediate", "Basic", "Other"}
  BY <1>1 DEF Level, Levels
<1>4. listed = DOMAIN skills /\ \A i \in DOMAIN skills : key[i] \in Int
  <2>1. listed = DOMAIN skills
    BY <1>2, <1>3
  <2> QED BY <1>2, <1>3, <2>1
<1>5. SkillGroups(skills) = InOrder(skills, listed, key)
  BY DEF SkillGroups
<1> HIDE DEF listed, key
<1> QED BY <1>4, <1>5, AllInOrder

LEMMA AllJobsShown ==
    ASSUME NEW exp \in Seq(JobType), NEW anonymize
    PROVE  /\ SameEntries(Jobs(exp, anonymize), [i \in DOMAIN exp |-> JobEntry(exp[i], anonymize)])
           /\ anonymize => \A y \in Range(Jobs(exp, anonymize)) : y.client = "Confidential Client"
<1> DEFINE key == [i \in DOMAIN exp |-> SortKey(exp[i])]
           jobs == Jobs(exp, anonymize)
           those == [i \in DOMAIN exp |-> JobEntry(exp[i], anonymize)]
<1>1. DOMAIN exp = 1..Len(exp) /\ Len(exp) \in Nat /\ \A i \in DOMAIN exp : exp[i] \in JobType
  BY LenProperties, ElementOfSeq
<1>2. \A i \in DOMAIN exp : key[i] \in Int
  <2>1. ASSUME NEW e \in JobType PROVE SortKey(e) \in Int
    <3>1. e.start \in Nat
      BY DEF JobType
    <3> QED BY <3>1 DEF SortKey
  <2> QED BY <1>1, <2>1
<1>3. CurrentFirst(exp) = InOrder(exp, DOMAIN exp, key)
  BY DEF CurrentFirst
<1> HIDE DEF key
<1>4. /\ CurrentFirst(exp) \in Seq(JobType) /\ DOMAIN CurrentFirst(exp) = DOMAIN exp
      /\ Range(CurrentFirst(exp)) = Range(exp)
  BY <1>2, <1>3, AllInOrder DEF SameEntries
<1>5. DOMAIN jobs = DOMAIN exp /\ \A i \in DOMAIN exp : jobs[i] = JobEntry(CurrentFirst(exp)[i], anonymize)
  BY DEF Jobs
<1>6. DOMAIN those = DOMAIN exp /\ \A i \in DOMAIN exp : those[i] = JobEntry(exp[i], anonymize)
  OBVIOUS
<1> HIDE DEF jobs, those
<1>7. Len(jobs) = Len(those)
  BY <1>1, <1>5, <1>6
<1>8. Range(jobs) = {JobEntry(e, anonymize) : e \in Range(CurrentFirst(exp))}
  BY <1>4, <1>5 DEF Range
<1>9. Range(those) = {JobEntry(e, anonymize) : e \in Range(exp)}
  BY <1>6 DEF Range
<1>10. SameEntries(jobs, those)
  BY <1>4, <1>7, <1>8, <1>9 DEF SameEntries
<1>11. ASSUME anonymize, NEW y \in Range(jobs) PROVE y.client = "Confidential Client"
  <2>1. PICK i \in DOMAIN exp : y = JobEntry(CurrentFirst(exp)[i], anonymize)
    BY <1>5 DEF Range
  <2>2. CurrentFirst(exp)[i] \in JobType
    BY <1>4, ElementOfSeq
  <2> QED BY <1>11, <2>1, <2>2 DEF JobEntry, JobType
<1> QED BY <1>10, <1>11 DEF jobs, those

-----------------------------------------------------------------------------
(* The theorems of CvDocument.                                             *)

\* The messages and the lists they choose from, the sections read so far and the document
\* made of them fit together in every state of the conversation and of the tool.
THEOREM CvTurnIsSound == WriteSpec => []WriteHolds
<1>1. WriteInit => WriteHolds
  BY WriteHoldsInitially
<1>2. WriteHolds /\ [WriteNext]_writing => WriteHolds'
  BY WriteHoldsStays
<1> QED BY <1>1, <1>2, PTL DEF WriteSpec

LEMMA HoldsChosen == WriteHolds => ChosenAsShownUnless
<1> SUFFICES ASSUME WriteHolds, NEW i \in DOMAIN messages, messages[i].choice # ""
             PROVE  LET lists == {j \in 1..(i - 1) : messages[j].shown # <<>>}
                    IN  /\ \E j \in lists : ChosenFrom(i, j)
                        /\ \/ ChosenFrom(i, Max(lists))
                           \/ messages[i].from = "cosmos" /\ i - 1 > HistoryLimit
                           \/ \E j \in 1..(i - 1) : messages[i].from \notin messages[j].lies
  BY Zenon DEF ChosenAsShownUnless
<1>1. ChoiceHolds(messages, messages[i], i - 1)
  BY DEF WriteHolds, MessagesHold
<1>2. \A j : ChosenFrom(i, j) <=> FromAt(messages, messages[i], i - 1, j)
  BY Zenon DEF ChosenFrom, FromAt, WithEmail, FromList
<1> QED BY <1>1, <1>2, Zenon DEF ChoiceHolds, Lists, Excused

\* _augment_cv_template_choice takes a short reply for a template of a list of the
\* conversation and the employee named with it, and a number for the file shown at it unless
\* a PDF is listed, and that of the newest list but for long conversations in Cosmos and
\* for messages that are not in the store it asks, whatever the templates and replies.
THEOREM ChoiceIsOfNewestList == WriteSpec => []ChosenAsShownUnless
<1>1. WriteHolds => ChosenAsShownUnless
  BY HoldsChosen
<1> QED BY <1>1, CvTurnIsSound, PTL

LEMMA HoldsEmployee == WriteHolds => CvIsOfEmployeeUnless
<1> SUFFICES ASSUME WriteHolds, Built, ~cv.reloaded
             PROVE  LET e == Graphs[loaded][cv.email]
                    IN  /\ cv.doc.name \in {e.profile[1].name, "Candidate Profile"}
                        /\ SameEntries(cv.doc.exp, [i \in DOMAIN e.exp |-> JobEntry(e.exp[i], cv.anonymize)])
                        /\ \/ \E t \in Named(cv.template) : t.boxes = 0
                           \/ /\ SameEntries(cv.doc.skills, e.skills) /\ SameEntries(cv.doc.certs, e.certs)
                              /\ SameEntries(cv.doc.edu, e.edu) /\ SameEntries(cv.doc.langs, e.langs)
  BY Zenon DEF CvIsOfEmployeeUnless
<1> DEFINE e == Graphs[loaded][cv.email]
<1>1. /\ Got("profile") = e.profile /\ Got("skills") = e.skills /\ Got("certs") = e.certs
      /\ Got("langs") = e.langs /\ Got("edu") = e.edu /\ Got("exp") = e.exp
      /\ Got("skills") \in Seq(SkillType) /\ Got("exp") \in Seq(JobType)
  BY RowsOfEmployee, RowsAreTyped
<1>2. /\ cv.doc.name = ShownName /\ cv.doc.exp = Jobs(Got("exp"), cv.anonymize)
      /\ \/ NoSidebar(cv.template)
         \/ /\ Shown(cv.doc.skills)
            /\ cv.doc.certs = Got("certs") /\ cv.doc.edu = Got("edu") /\ cv.doc.langs = Got("langs")
  BY DEF WriteHolds, DocHolds, Built, BuiltSteps
<1> HIDE DEF e
<1>3. cv.doc.name \in {e.profile[1].name, "Candidate Profile"}
  BY <1>1, <1>2 DEF ShownName, Profile
<1>4. SameEntries(cv.doc.exp, [i \in DOMAIN e.exp |-> JobEntry(e.exp[i], cv.anonymize)])
  <2>1. SameEntries(Jobs(Got("exp"), cv.anonymize),
                    [i \in DOMAIN Got("exp") |-> JobEntry(Got("exp")[i], cv.anonymize)])
    BY <1>1, AllJobsShown
  <2> QED BY <1>1, <1>2, <2>1
<1>5. \A rows : SameEntries(rows, rows)
  BY DEF SameEntries
<1>6. SameEntries(SkillGroups(Got("skills")), Got("skills"))
  BY <1>1, AllSkillsShown
<1>7. Shown(cv.doc.skills) => SameEntries(cv.doc.skills, Got("skills"))
  BY <1>5, <1>6 DEF Shown
<1> QED BY <1>1, <1>2, <1>3, <1>4, <1>5, <1>7, Zenon DEF NoSidebar, e

\* generate_employee_cv: the CV has the name, the jobs and, but for templates without a text
\* box, the skills, certificates, languages and education of the employee asked for, all of
\* them and no others, unless the graph was loaded between two of its statements.
THEOREM CvIsOfEmployee == WriteSpec => []CvIsOfEmployeeUnless
<1>1. WriteHolds => CvIsOfEmployeeUnless
  BY HoldsEmployee
<1> QED BY <1>1, CvTurnIsSound, PTL

LEMMA HoldsAnonymous == WriteHolds => AnonymousCvUnless
<1> SUFFICES ASSUME WriteHolds, Built PROVE AnonymousCvUnless
  BY DEF AnonymousCvUnless
<1>1. /\ cv.file = ShownName /\ cv.doc.name = ShownName /\ cv.doc.exp = Jobs(Got("exp"), cv.anonymize)
      /\ cv.anonymize => cv.doc.contact = <<>>
      /\ cv.step = "invalid filename" => ~Accepted(cv.file)
  BY DEF WriteHolds, DocHolds, Built, BuiltSteps
<1>2. Got("profile") \in RowsAt("profile") \ {<<>>} /\ Got("exp") \in Seq(JobType)
  BY RowsOfEmployee, RowsAreTyped
<1>3. Profile.name \in DOMAIN NameChars
  BY <1>2, RowsAreTyped DEF Profile
<1>4. ASSUME cv.step = "invalid filename" PROVE ~cv.anonymize /\ "mark" \in NameChars[Profile.name]
  <2>1. ~(NameChars[ShownName] \ {"space"} \subseteq {"word"})
    BY <1>1, <1>4 DEF Accepted, FileChars
  <2>2. ShownName \in DOMAIN NameChars
    BY <1>3, NamesAssumption DEF ShownName
  <2>3. NameChars[ShownName] \subseteq {"word", "space", "mark"}
    BY <2>2, NamesAssumption
  <2>4. "mark" \in NameChars[ShownName]
    BY <2>1, <2>3
  <2>5. ShownName # "Candidate Profile"
    BY <2>4, NamesAssumption
  <2> QED BY <2>4, <2>5 DEF ShownName
<1>5. ASSUME cv.anonymize, NEW s \in Staff
      PROVE  /\ s.profile[1].name \notin {cv.file, cv.doc.name} /\ cv.doc.contact = <<>>
             /\ \A x \in Range(s.exp), y \in Range(cv.doc.exp) : x.client # y.client
  <2>1. PICK g \in DOMAIN Graphs : s \in {Graphs[g][email] : email \in DOMAIN Graphs[g]}
    BY DEF Staff
  <2>2. PICK email \in DOMAIN Graphs[g] : s = Graphs[g][email]
    BY <2>1
  <2>3. s.profile[1].name # "Candidate Profile" /\ s.exp \in Seq(JobType)
    BY <2>2, GraphsAssumption DEF JobType
  <2>4. ShownName = "Candidate Profile"
    BY <1>5 DEF ShownName
  <2>5. ASSUME NEW x \in Range(s.exp), NEW y \in Range(cv.doc.exp) PROVE x.client # y.client
    <3>1. x \in JobType
      <4>1. PICK i \in DOMAIN s.exp : x = s.exp[i]
        BY DEF Range
      <4>2. \A seq \in Seq(JobType) : \A k \in DOMAIN seq : seq[k] \in JobType
        BY ElementOfSeq
      <4> QED BY <2>3, <4>1, <4>2
    <3>2. x.client # "Confidential Client"
      BY <3>1 DEF JobType
    <3>3. y.client = "Confidential Client"
      BY <1>1, <1>2, <1>5, AllJobsShown
    <3> QED BY <3>2, <3>3
  <2> QED BY <1>1, <1>5, <2>3, <2>4, <2>5
<1> QED BY <1>4, <1>5 DEF AnonymousCvUnless

\* An anonymous CV names neither an employee, nor a contact, nor a client of anybody, in the
\* file and in the document, and only a name with a mark keeps download_cv from its file.
THEOREM AnonymousCvIsAnonymous == WriteSpec => []AnonymousCvUnless
<1>1. WriteHolds => AnonymousCvUnless
  BY HoldsAnonymous
<1> QED BY <1>1, CvTurnIsSound, PTL

-----------------------------------------------------------------------------
(* The scanner of the rewriter.                                              *)

\* The states of the scanner after each of the first n characters of x.
Before(x, i) == x[IF i = 1 THEN 1 ELSE i - 1]
IsScan(t, x, n) == t = [i \in 0..n |-> IF i = 0 THEN TopLevel ELSE ScanStep(t[i - 1], x[IF i = 1 THEN 1 ELSE i - 1], x[i])]

LEMMA ScanExists == ASSUME NEW x, NEW n \in Nat PROVE \E t : IsScan(t, x, n)
<1> DEFINE Without == {m \in Nat : ~(\E t : IsScan(t, x, m))}
<1> SUFFICES ASSUME Without # {} PROVE FALSE
  OBVIOUS
<1>1. PICK m \in Without : \A y \in Without : m <= y
  <2> HIDE DEF Without
  <2>1. Without \in SUBSET Nat
    BY DEF Without
  <2> QED BY <2>1, LeastOf
<1>2. CASE m = 0
  <2>1. IsScan([i \in 0..0 |-> TopLevel], x, 0)
    BY DEF IsScan
  <2> QED BY <1>2, <2>1
<1>3. CASE m # 0
  <2>1. m - 1 \in Nat /\ m - 1 \notin Without
    BY <1>1, <1>3
  <2>2. PICK s : IsScan(s, x, m - 1)
    BY <2>1
  <2> DEFINE t == [i \in 0..m |-> IF i = m THEN ScanStep(s[m - 1], Before(x, m), x[m]) ELSE s[i]]
  <2>3. ASSUME NEW i \in 0..m PROVE t[i] = IF i = 0 THEN TopLevel ELSE ScanStep(t[i - 1], Before(x, i), x[i])
    <3>1. CASE i = m
      BY <3>1, <1>3, <2>1
    <3>2. CASE i # m
      <4>1. i \in 0..(m - 1)
        BY <3>2, <2>1
      <4>2. s[i] = IF i = 0 THEN TopLevel ELSE ScanStep(s[i - 1], Before(x, i), x[i])
        BY <4>1, <2>2 DEF IsScan, Before
      <4>3. i # 0 => i - 1 \in 0..m /\ i - 1 # m
        BY <4>1, <2>1
      <4> QED BY <3>2, <4>2, <4>3
    <3> QED BY <3>1, <3>2
  <2>4. DOMAIN t = 0..m /\ t = [i \in 0..m |-> t[i]]
    OBVIOUS
  <2> HIDE DEF t
  <2>5. IsScan(t, x, m)
    BY <2>3, <2>4 DEF IsScan, Before
  <2> QED BY <1>1, <2>5
<1> QED BY <1>2, <1>3

LEMMA ScanIs ==
    ASSUME NEW x, Len(x) \in Nat
    PROVE  /\ Scanned(x)[0] = TopLevel
           /\ \A i \in 1..Len(x) : Scanned(x)[i] = ScanStep(Scanned(x)[i - 1], Before(x, i), x[i])
<1> DEFINE state == CHOOSE t : t = [i \in 0..Len(x) |-> IF i = 0 THEN TopLevel ELSE ScanStep(t[i - 1], x[IF i = 1 THEN 1 ELSE i - 1], x[i])]
<1>1. Scanned(x) = state
  BY DEF Scanned
<1>2. IsScan(state, x, Len(x))
  BY ScanExists DEF IsScan
<1> HIDE DEF state
<1>3. 0 \in 0..Len(x) /\ \A i \in 1..Len(x) : i \in 0..Len(x) /\ i # 0
  OBVIOUS
<1> QED BY <1>1, <1>2, <1>3 DEF IsScan, Before

\* At the top level the character before makes no difference.
LEMMA TopIsPlain == ASSUME NEW t, NEW b, NEW c PROVE ScanStep(TopLevel, b, t) = ScanStep(TopLevel, c, t)
<1>1. TopLevel.mode = "out"
  BY DEF TopLevel
<1> QED BY <1>1 DEF ScanStep

\* A head leaves the scanner where it is.
LEMMA HeadIsPassed == ASSUME NEW t, IsHead(t), NEW b PROVE ScanStep(TopLevel, b, t) = TopLevel
BY DEF ScanStep, IsHead, Keywords, TopLevel

\* Two texts that agree from top-level places on are scanned alike.
Alike(x, k, y, m, n) == \A i \in 1..n : x[k + i] = y[m + i]

LEMMA ScannedAlike ==
    ASSUME NEW x, NEW y, Len(x) \in Nat, Len(y) \in Nat,
           NEW k \in Nat, NEW m \in Nat, NEW n \in Nat, k + n <= Len(x), m + n <= Len(y),
           Scanned(x)[k] = TopLevel, Scanned(y)[m] = TopLevel, Alike(x, k, y, m, n)
    PROVE  \A i \in 0..n : Scanned(x)[k + i] = Scanned(y)[m + i]
<1> DEFINE Other == {i \in 0..n : Scanned(x)[k + i] # Scanned(y)[m + i]}
<1> SUFFICES ASSUME Other # {} PROVE FALSE
  OBVIOUS
<1>1. PICK i \in Other : \A j \in Other : i <= j
  <2>1. Other \in SUBSET Nat
    OBVIOUS
  <2> HIDE DEF Other
  <2> QED BY <2>1, LeastOf
<1>2. i # 0
  <2>1. k + 0 = k /\ m + 0 = m
    OBVIOUS
  <2> QED BY <1>1, <2>1
<1>3. i \in 1..n /\ i - 1 \in 0..n /\ i - 1 \notin Other
  <2>1. i \in 0..n
    BY <1>1
  <2> HIDE DEF Other
  <2>2. i \in 1..n /\ i - 1 \in 0..n /\ ~(i <= i - 1)
    BY <1>2, <2>1
  <2> QED BY <1>1, <2>2
<1>4. Scanned(x)[k + (i - 1)] = Scanned(y)[m + (i - 1)]
  BY <1>3
<1>5. k + i \in 1..Len(x) /\ m + i \in 1..Len(y) /\ (k + i) - 1 = k + (i - 1) /\ (m + i) - 1 = m + (i - 1)
  BY <1>3
<1>6. /\ Scanned(x)[k + i] = ScanStep(Scanned(x)[k + (i - 1)], Before(x, k + i), x[k + i])
      /\ Scanned(y)[m + i] = ScanStep(Scanned(y)[m + (i - 1)], Before(y, m + i), y[m + i])
  BY <1>5, ScanIs
<1>7. x[k + i] = y[m + i]
  BY <1>3 DEF Alike
<1>8. CASE i = 1
  <2>1. k + (i - 1) = k
    BY <1>8
  <2>2. Scanned(x)[k + (i - 1)] = TopLevel
    BY <2>1
  <2> QED BY <1>1, <1>4, <1>6, <1>7, <2>2, TopIsPlain
<1>9. CASE i # 1
  <2>1. i - 1 \in 1..n /\ k + i # 1 /\ m + i # 1
    BY <1>3, <1>9
  <2>2. Before(x, k + i) = x[k + (i - 1)] /\ Before(y, m + i) = y[m + (i - 1)]
    BY <2>1, <1>5 DEF Before
  <2>3. Before(x, k + i) = Before(y, m + i)
    BY <2>1, <2>2 DEF Alike
  <2> QED BY <1>1, <1>4, <1>6, <1>7, <2>3
<1> QED BY <1>8, <1>9

-----------------------------------------------------------------------------
(* Texts put together from pieces.                                           *)

IsFlat(f, ss, n) == f = [i \in 1..n |-> IF i = 1 THEN ss[i] ELSE f[i - 1] \o ss[i]]

LEMMA FlatExists == ASSUME NEW ss, NEW n \in Nat PROVE \E f : IsFlat(f, ss, n)
<1> DEFINE Without == {m \in Nat : ~(\E f : IsFlat(f, ss, m))}
<1> SUFFICES ASSUME Without # {} PROVE FALSE
  OBVIOUS
<1>1. PICK m \in Without : \A y \in Without : m <= y
  <2> HIDE DEF Without
  <2>1. Without \in SUBSET Nat
    BY DEF Without
  <2> QED BY <2>1, LeastOf
<1>2. CASE m = 0
  <2>1. IsFlat([i \in 1..0 |-> ss[i]], ss, 0)
    BY DEF IsFlat
  <2> QED BY <1>2, <2>1
<1>3. CASE m # 0
  <2>1. m - 1 \in Nat /\ m - 1 \notin Without
    BY <1>1, <1>3
  <2>2. PICK g : IsFlat(g, ss, m - 1)
    BY <2>1
  <2> DEFINE f == [i \in 1..m |-> IF i = 1 THEN ss[i] ELSE IF i = m THEN g[m - 1] \o ss[m] ELSE g[i]]
  <2>3. ASSUME NEW i \in 1..m PROVE f[i] = IF i = 1 THEN ss[i] ELSE f[i - 1] \o ss[i]
    <3>1. CASE i = 1
      BY <3>1
    <3>2. CASE i # 1
      <4>1. i - 1 \in 1..(m - 1) /\ i - 1 \in 1..m /\ i - 1 # m
        BY <3>2, <2>1
      <4>2. f[i - 1] = g[i - 1]
        <5>1. g[i - 1] = IF i - 1 = 1 THEN ss[i - 1] ELSE g[(i - 1) - 1] \o ss[i - 1]
          BY <4>1, <2>2 DEF IsFlat
        <5> QED BY <4>1, <5>1
      <4>3. CASE i = m
        BY <3>2, <4>2, <4>3
      <4>4. CASE i # m
        <5>1. i \in 1..(m - 1)
          BY <4>4, <2>1
        <5>2. g[i] = g[i - 1] \o ss[i]
          BY <5>1, <3>2, <2>2 DEF IsFlat
        <5> QED BY <3>2, <4>2, <4>4, <5>2
      <4> QED BY <4>3, <4>4
    <3> QED BY <3>1, <3>2
  <2>4. f = [i \in 1..m |-> f[i]]
    OBVIOUS
  <2> HIDE DEF f
  <2>5. IsFlat(f, ss, m)
    BY <2>3, <2>4 DEF IsFlat
  <2> QED BY <1>1, <2>5
<1> QED BY <1>2, <1>3

LEMMA FlattenIs ==
    ASSUME NEW ss, Len(ss) \in Nat, Len(ss) > 0
    PROVE  \E f : /\ FlattenSeq(ss) = f[Len(ss)]
                  /\ \A i \in 1..Len(ss) : f[i] = IF i = 1 THEN ss[i] ELSE f[i - 1] \o ss[i]
<1> DEFINE flatten == CHOOSE f : f = [i \in 1..Len(ss) |-> IF i = 1 THEN ss[i] ELSE f[i - 1] \o ss[i]]
<1>1. FlattenSeq(ss) = flatten[Len(ss)]
  BY DEF FlattenSeq
<1>2. IsFlat(flatten, ss, Len(ss))
  BY FlatExists DEF IsFlat
<1> HIDE DEF flatten
<1>3. \A i \in 1..Len(ss) : flatten[i] = IF i = 1 THEN ss[i] ELSE flatten[i - 1] \o ss[i]
  BY <1>2 DEF IsFlat
<1> QED BY <1>1, <1>3

LEMMA FlattenIsSeq == ASSUME NEW A, NEW ss \in Seq(Seq(A)) PROVE FlattenSeq(ss) \in Seq(A)
<1>1. Len(ss) \in Nat /\ \A i \in 1..Len(ss) : ss[i] \in Seq(A)
  BY LenProperties, ElementOfSeq
<1>2. CASE Len(ss) = 0
  <2>1. ss = <<>>
    BY <1>2, EmptySeq
  <2> QED BY <1>2, <2>1 DEF FlattenSeq
<1>3. CASE Len(ss) # 0
  <2>1. PICK f : /\ FlattenSeq(ss) = f[Len(ss)]
                 /\ \A i \in 1..Len(ss) : f[i] = IF i = 1 THEN ss[i] ELSE f[i - 1] \o ss[i]
    BY <1>1, <1>3, FlattenIs
  <2> DEFINE Bad == {i \in 1..Len(ss) : f[i] \notin Seq(A)}
  <2>2. Bad = {}
    <3> SUFFICES ASSUME Bad # {} PROVE FALSE
      OBVIOUS
    <3>1. PICK i \in Bad : \A j \in Bad : i <= j
      <4>1. Bad \in SUBSET Nat
        OBVIOUS
      <4> HIDE DEF Bad
      <4> QED BY <4>1, LeastOf
    <3>2. CASE i = 1
      BY <3>1, <3>2, <2>1, <1>1
    <3>3. CASE i # 1
      <4>1. i \in 1..Len(ss) /\ i - 1 \in 1..Len(ss) /\ ~(i <= i - 1)
        BY <3>1, <3>3, <1>1
      <4>2. i - 1 \notin Bad
        <5> HIDE DEF Bad
        <5> QED BY <3>1, <4>1
      <4>3. f[i - 1] \in Seq(A) /\ ss[i] \in Seq(A) /\ f[i] = f[i - 1] \o ss[i]
        BY <4>1, <4>2, <3>3, <2>1, <1>1
      <4> QED BY <3>1, <4>3, ConcatProperties
    <3> QED BY <3>2, <3>3
  <2> QED BY <1>1, <1>3, <2>1, <2>2
<1> QED BY <1>2, <1>3

\* x with t[i] in front of its characters at the places I: z, whose character e[i]
\* is the ith of x.
Merge(x, I, t, e, z) ==
    /\ e \in [0..Len(x) -> Nat] /\ e[0] = 0 /\ Len(z) = e[Len(x)]
    /\ \A i \in 1..Len(x) :
           /\ e[i] = e[i - 1] + (IF i \in I THEN 2 ELSE 1)
           /\ z[e[i]] = x[i]
           /\ i \in I => z[e[i] - 1] = t[i]

LEMMA MergeOf ==
    ASSUME NEW A, NEW x \in Seq(A), x # <<>>, NEW I, NEW t, \A i \in I : t[i] \in A
    PROVE  LET z == FlattenSeq([i \in 1..Len(x) |-> IF i \in I THEN <<t[i], x[i]>> ELSE <<x[i]>>])
           IN  z \in Seq(A) /\ \E e : Merge(x, I, t, e, z)
<1> DEFINE ss == [i \in 1..Len(x) |-> IF i \in I THEN <<t[i], x[i]>> ELSE <<x[i]>>]
           n == Len(x)
<1>1. n \in Nat /\ n # 0 /\ \A i \in 1..n : x[i] \in A
  BY LenProperties, ElementOfSeq, EmptySeq
<1>2. ss \in Seq(Seq(A)) /\ Len(ss) = n
  <2>1. \A i \in 1..n : ss[i] \in Seq(A)
    BY <1>1
  <2> QED BY <1>1, <2>1, IsASeq, LenProperties
<1>3. FlattenSeq(ss) \in Seq(A)
  BY <1>2, FlattenIsSeq
<1>4. PICK f : /\ FlattenSeq(ss) = f[n]
               /\ \A i \in 1..n : f[i] = IF i = 1 THEN ss[i] ELSE f[i - 1] \o ss[i]
  <2> HIDE DEF ss
  <2>1. Len(ss) = n /\ Len(ss) \in Nat /\ Len(ss) > 0
    BY <1>1, <1>2
  <2> QED BY <2>1, FlattenIs
<1> DEFINE e == [i \in 0..n |-> IF i = 0 THEN 0 ELSE Len(f[i])]
           Old(i, j) == /\ e[j] = e[j - 1] + (IF j \in I THEN 2 ELSE 1)
                        /\ e[j] \in 1..Len(f[i]) /\ f[i][e[j]] = x[j]
                        /\ j \in I => e[j] - 1 \in 1..Len(f[i]) /\ f[i][e[j] - 1] = t[j]
           Good(i) == f[i] \in Seq(A) /\ \A j \in 1..i : Old(i, j)
           Bad == {i \in 1..n : ~Good(i)}
<1>5. Bad = {}
  <2> SUFFICES ASSUME Bad # {} PROVE FALSE
    OBVIOUS
  <2>1. PICK i \in Bad : \A j \in Bad : i <= j
    <3>1. Bad \in SUBSET Nat
      OBVIOUS
    <3> HIDE DEF Bad
    <3> QED BY <3>1, LeastOf
  <2>2. i \in 1..n /\ ~Good(i)
    BY <2>1
  <2>3. CASE i = 1
    <3>1. f[1] = ss[1] /\ 1 \in 1..n /\ ss[1] \in Seq(A)
      BY <1>1, <1>2, <1>4, ElementOfSeq
    <3>2. e[0] = 0 /\ e[1] = Len(ss[1])
      <4>1. 0 \in 0..n /\ 1 \in 0..n
        BY <1>1
      <4> HIDE DEF ss
      <4> QED BY <3>1, <4>1
    <3>3. Old(1, 1)
      <4>1. CASE 1 \in I
        <5>1. ss[1] = <<t[1], x[1]>>
          BY <3>1, <4>1
        <5> HIDE DEF ss, e
        <5>2. Len(ss[1]) = 2 /\ ss[1][1] = t[1] /\ ss[1][2] = x[1]
          BY <5>1
        <5>3. e[1] = 2 /\ Len(f[1]) = 2 /\ f[1][2] = x[1] /\ f[1][1] = t[1] /\ 1 - 1 = 0
          BY <3>1, <3>2, <5>2
        <5> QED BY <3>2, <4>1, <5>3
      <4>2. CASE 1 \notin I
        <5>1. ss[1] = <<x[1]>>
          BY <3>1, <4>2
        <5> HIDE DEF ss, e
        <5>2. Len(ss[1]) = 1 /\ ss[1][1] = x[1]
          BY <5>1
        <5>3. e[1] = 1 /\ Len(f[1]) = 1 /\ f[1][1] = x[1] /\ 1 - 1 = 0
          BY <3>1, <3>2, <5>2
        <5> QED BY <3>2, <4>2, <5>3
      <4> QED BY <4>1, <4>2
    <3>4. \A j \in 1..1 : j = 1
      OBVIOUS
    <3> HIDE DEF Old, e, ss
    <3> QED BY <2>2, <2>3, <3>1, <3>3, <3>4
  <2>4. CASE i # 1
    <3>1. i - 1 \in 1..n /\ ~(i <= i - 1)
      BY <2>2, <2>4, <1>1
    <3>2. Good(i - 1)
      <4>1. i - 1 \notin Bad
        <5> HIDE DEF Bad
        <5> QED BY <2>1, <3>1
      <4> HIDE DEF Good
      <4> QED BY <3>1, <4>1
    <3> DEFINE g == f[i - 1]
    <3>3. g \in Seq(A) /\ ss[i] \in Seq(A) /\ f[i] = g \o ss[i] /\ Len(g) \in Nat
      BY <3>2, <1>2, <1>4, <2>2, <2>4, ElementOfSeq, LenProperties
    <3>4. /\ f[i] \in Seq(A) /\ Len(f[i]) = Len(g) + Len(ss[i])
          /\ \A k \in 1..Len(g) : f[i][k] = g[k]
          /\ \A k \in 1..Len(ss[i]) : f[i][Len(g) + k] = ss[i][k]
      <4> HIDE DEF g, ss
      <4> QED BY <3>3
    <3>5. e[i - 1] = Len(g) /\ e[i] = Len(f[i])
      BY <3>1, <2>2
    <3>6. Old(i, i)
      <4>1. CASE i \in I
        <5>1. ss[i] = <<t[i], x[i]>>
          BY <2>2, <4>1
        <5>2. Len(ss[i]) = 2 /\ ss[i][1] = t[i] /\ ss[i][2] = x[i]
          BY <5>1
        <5>3. f[i][Len(g) + 1] = t[i] /\ f[i][Len(g) + 2] = x[i] /\ Len(f[i]) = Len(g) + 2
          <6> HIDE DEF g, ss
          <6> QED BY <3>3, <3>4, <5>2
        <5> HIDE DEF g, ss, e
        <5> QED BY <3>3, <3>5, <4>1, <5>3
      <4>2. CASE i \notin I
        <5>1. ss[i] = <<x[i]>>
          BY <2>2, <4>2
        <5>2. Len(ss[i]) = 1 /\ ss[i][1] = x[i]
          BY <5>1
        <5>3. f[i][Len(g) + 1] = x[i] /\ Len(f[i]) = Len(g) + 1
          <6> HIDE DEF g, ss
          <6> QED BY <3>3, <3>4, <5>2
        <5> HIDE DEF g, ss, e
        <5> QED BY <3>3, <3>5, <4>2, <5>3
      <4> QED BY <4>1, <4>2
    <3>7. ASSUME NEW j \in 1..(i - 1) PROVE Old(i, j)
      <4>1. Old(i - 1, j)
        BY <3>2
      <4>2. Len(g) \in Nat /\ Len(ss[i]) \in Nat
        BY <3>3, LenProperties
      <4> HIDE DEF ss, e
      <4>3. /\ e[j] = e[j - 1] + (IF j \in I THEN 2 ELSE 1)
            /\ e[j] \in 1..Len(g) /\ g[e[j]] = x[j]
            /\ j \in I => e[j] - 1 \in 1..Len(g) /\ g[e[j] - 1] = t[j]
        BY <4>1
      <4> HIDE DEF g
      <4>4. /\ e[j] \in 1..Len(f[i]) /\ f[i][e[j]] = x[j]
            /\ j \in I => e[j] - 1 \in 1..Len(f[i]) /\ f[i][e[j] - 1] = t[j]
        <5>1. \A k \in 1..Len(g) : k \in 1..Len(f[i]) /\ f[i][k] = g[k]
          <6>1. Len(f[i]) = Len(g) + Len(ss[i])
            BY <3>4
          <6>2. \A k \in 1..Len(g) : k \in 1..(Len(g) + Len(ss[i]))
            BY <4>2
          <6> QED BY <3>4, <6>1, <6>2
        <5> QED BY <4>3, <5>1
      <4> QED BY <4>3, <4>4
    <3>8. \A j \in 1..i : j = i \/ j \in 1..(i - 1)
      BY <2>2
    <3> HIDE DEF Old, e, ss
    <3> QED BY <2>2, <3>4, <3>6, <3>7, <3>8
  <2> QED BY <2>3, <2>4
<1>6. \A i \in 1..n : Good(i)
  <2> HIDE DEF Good
  <2> QED BY <1>5
<1>7. e \in [0..n -> Nat]
  <2>1. \A i \in 1..n : Len(f[i]) \in Nat
    BY <1>6, LenProperties
  <2> QED BY <2>1
<1>8. n \in 1..n /\ e[0] = 0 /\ e[n] = Len(f[n])
  BY <1>1
<1>9. \A j \in 1..n : Old(n, j)
  BY <1>6, <1>8
<1>10. Merge(x, I, t, e, f[n])
  <2> HIDE DEF e
  <2> QED BY <1>7, <1>8, <1>9 DEF Merge
<1> HIDE DEF e, ss
<1>11. FlattenSeq(ss) \in Seq(A) /\ \E ee : Merge(x, I, t, ee, FlattenSeq(ss))
  BY <1>3, <1>4, <1>10
<1> QED BY <1>11 DEF ss

\* The places of x keep their order.
LEMMA MergeGrows ==
    ASSUME NEW x, Len(x) \in Nat, NEW I, NEW t, NEW e, NEW z, Merge(x, I, t, e, z)
    PROVE  \A i, j \in 0..Len(x) : i < j => e[i] < e[j]
<1> SUFFICES ASSUME NEW i \in 0..Len(x) PROVE \A j \in 0..Len(x) : i < j => e[i] < e[j]
  OBVIOUS
<1> DEFINE Bad == {j \in 0..Len(x) : i < j /\ ~(e[i] < e[j])}
<1> SUFFICES ASSUME Bad # {} PROVE FALSE
  OBVIOUS
<1>1. PICK j \in Bad : \A k \in Bad : j <= k
  <2>1. Bad \in SUBSET Nat
    OBVIOUS
  <2> HIDE DEF Bad
  <2> QED BY <2>1, LeastOf
<1>2. j \in 1..Len(x) /\ j - 1 \in 0..Len(x) /\ i < j /\ ~(e[i] < e[j]) /\ ~(j <= j - 1)
  BY <1>1
<1>3. e[j] = e[j - 1] + (IF j \in I THEN 2 ELSE 1) /\ e[i] \in Nat /\ e[j - 1] \in Nat
  BY <1>2 DEF Merge
<1>4. e[j - 1] < e[j]
  BY <1>3
<1>5. i # j - 1
  BY <1>2, <1>4
<1>6. j - 1 \in Bad
  BY <1>2, <1>3, <1>4, <1>5
<1> HIDE DEF Bad
<1> QED BY <1>1, <1>2, <1>6

LEMMA MergeBounds ==
    ASSUME NEW x, Len(x) \in Nat, NEW I, NEW t, NEW e, NEW z, Merge(x, I, t, e, z), NEW i \in 1..Len(x)
    PROVE  /\ Len(z) \in Nat /\ e[i] \in 1..Len(z) /\ z[e[i]] = x[i]
           /\ i \in 0..Len(x) /\ i - 1 \in 0..Len(x) /\ e[i - 1] \in Nat
           /\ i \in I => e[i] - 1 \in 1..Len(z) /\ (e[i] - 1) - 1 = e[i - 1] /\ z[e[i] - 1] = t[i]
           /\ i \notin I => e[i] - 1 = e[i - 1]
<1> DEFINE n == Len(x)
<1>1. n \in 0..n /\ 0 \in 0..n /\ e[0] = 0 /\ Len(z) = e[n] /\ Len(z) \in Nat
  BY DEF Merge
<1>2. i \in 0..n /\ i - 1 \in 0..n /\ 0 < i /\ (i = n \/ i < n)
  OBVIOUS
<1>3. /\ e[i] \in Nat /\ e[i - 1] \in Nat /\ e[i] = e[i - 1] + (IF i \in I THEN 2 ELSE 1)
      /\ z[e[i]] = x[i] /\ (i \in I => z[e[i] - 1] = t[i])
  BY <1>2 DEF Merge
<1>4. e[i] = Len(z) \/ e[i] < Len(z)
  BY <1>1, <1>2, MergeGrows
<1>5. e[i] \in 1..Len(z)
  BY <1>1, <1>3, <1>4
<1>6. CASE i \in I
  <2>1. e[i] = e[i - 1] + 2 /\ z[e[i] - 1] = t[i]
    BY <1>3, <1>6
  <2>2. e[i] - 1 \in 1..Len(z) /\ (e[i] - 1) - 1 = e[i - 1]
    BY <1>1, <1>3, <1>4, <2>1
  <2> QED BY <1>1, <1>2, <1>3, <1>5, <1>6, <2>1, <2>2
<1>7. CASE i \notin I
  <2>1. e[i] - 1 = e[i - 1]
    BY <1>3, <1>7
  <2> QED BY <1>1, <1>2, <1>3, <1>5, <1>7, <2>1
<1> QED BY <1>6, <1>7

LEMMA MergeEnds ==
    ASSUME NEW x, Len(x) \in Nat, NEW I, NEW t, NEW e, NEW z, Merge(x, I, t, e, z)
    PROVE  e[0] = 0 /\ e[Len(x)] = Len(z) /\ Len(z) \in Nat
BY DEF Merge

\* Every character of z is one of x or one put in front of one.
LEMMA MergeCovers ==
    ASSUME NEW x, Len(x) \in Nat, NEW I, NEW t, NEW e, NEW z, Merge(x, I, t, e, z), NEW k \in 1..Len(z)
    PROVE  \E i \in 1..Len(x) : k = e[i] \/ (i \in I /\ k = e[i] - 1)
<1> DEFINE n == Len(x)
           Up == {i \in 0..n : k <= e[i]}
<1>1. n \in Up /\ Up \in SUBSET Nat
  <2>1. e[n] = Len(z) /\ Len(z) \in Nat
    BY MergeEnds
  <2> QED BY <2>1
<1>2. PICK i \in Up : \A j \in Up : i <= j
  <2> HIDE DEF Up
  <2> QED BY <1>1, LeastOf
<1>3. i \in 0..n /\ k <= e[i]
  BY <1>2
<1>4. i # 0
  <2>1. e[0] = 0 /\ k \in Nat /\ k >= 1
    BY MergeEnds
  <2> QED BY <1>3, <2>1
<1>5. i \in 1..n /\ i - 1 \in 0..n /\ ~(i <= i - 1)
  BY <1>3, <1>4
<1>6. i - 1 \notin Up
  <2> HIDE DEF Up
  <2> QED BY <1>2, <1>5
<1>7. ~(k <= e[i - 1]) /\ k \in Nat
  BY <1>5, <1>6, MergeBounds
<1>8. e[i] \in Nat /\ e[i - 1] \in Nat /\ e[i] = e[i - 1] + (IF i \in I THEN 2 ELSE 1)
  BY <1>5 DEF Merge
<1>9. k = e[i] \/ (i \in I /\ k = e[i] - 1)
  BY <1>3, <1>7, <1>8
<1> QED BY <1>5, <1>9

\* Heads put in front of characters at the top level do not disturb the scanner.
Between(x, I, t) == I \subseteq {i \in 1..Len(x) : Scanned(x)[i - 1] = TopLevel} /\ \A i \in I : IsHead(t[i])

LEMMA MergeScanned ==
    ASSUME NEW x, Len(x) \in Nat, NEW I, NEW t, NEW e, NEW z, Merge(x, I, t, e, z), Between(x, I, t)
    PROVE  /\ \A i \in 0..Len(x) : Scanned(z)[e[i]] = Scanned(x)[i]
           /\ \A i \in I : Scanned(z)[e[i] - 1] = TopLevel
<1> DEFINE n == Len(x)
           Bad == {i \in 0..n : Scanned(z)[e[i]] # Scanned(x)[i]}
<1>1. ASSUME NEW i \in I, Scanned(z)[e[i - 1]] = Scanned(x)[i - 1] PROVE Scanned(z)[e[i] - 1] = TopLevel
  <2>1. i \in 1..n /\ Scanned(x)[i - 1] = TopLevel /\ IsHead(t[i])
    BY DEF Between
  <2>2. e[i] - 1 \in 1..Len(z) /\ (e[i] - 1) - 1 = e[i - 1] /\ Len(z) \in Nat
    BY <2>1, MergeBounds
  <2>3. z[e[i] - 1] = t[i]
    BY <2>1, MergeBounds
  <2>4. Scanned(z)[e[i] - 1] = ScanStep(Scanned(z)[e[i - 1]], Before(z, e[i] - 1), z[e[i] - 1])
    BY <2>2, ScanIs
  <2> QED BY <1>1, <2>1, <2>3, <2>4, HeadIsPassed
<1>2. Bad = {}
  <2> SUFFICES ASSUME Bad # {} PROVE FALSE
    OBVIOUS
  <2>1. PICK i \in Bad : \A j \in Bad : i <= j
    <3>1. Bad \in SUBSET Nat
      OBVIOUS
    <3> HIDE DEF Bad
    <3> QED BY <3>1, LeastOf
  <2>2. i \in 0..n /\ Scanned(z)[e[i]] # Scanned(x)[i]
    BY <2>1
  <2>3. i # 0
    <3>1. e[0] = 0 /\ Scanned(x)[0] = TopLevel
      BY ScanIs, MergeEnds
    <3>2. Scanned(z)[0] = TopLevel
      BY MergeEnds, ScanIs
    <3> QED BY <2>2, <3>1, <3>2
  <2>4. i \in 1..n /\ i - 1 \in 0..n /\ ~(i <= i - 1)
    BY <2>2, <2>3
  <2>5. Scanned(z)[e[i - 1]] = Scanned(x)[i - 1]
    <3>1. i - 1 \notin Bad
      <4> HIDE DEF Bad
      <4> QED BY <2>1, <2>4
    <3> QED BY <2>4, <3>1
  <2>6. Len(z) \in Nat /\ e[i] \in 1..Len(z) /\ z[e[i]] = x[i]
    BY <2>4, MergeBounds
  <2>7. /\ Scanned(z)[e[i]] = ScanStep(Scanned(z)[e[i] - 1], Before(z, e[i]), x[i])
        /\ Scanned(x)[i] = ScanStep(Scanned(x)[i - 1], Before(x, i), x[i])
    BY <2>4, <2>6, ScanIs
  <2>8. CASE i \in I
    <3>1. Scanned(z)[e[i] - 1] = TopLevel /\ Scanned(x)[i - 1] = TopLevel
      BY <1>1, <2>5, <2>8 DEF Between
    <3> QED BY <2>2, <2>7, <3>1, TopIsPlain
  <2>9. CASE i \notin I
    <3>1. e[i] - 1 = e[i - 1]
      BY <2>4, <2>9, MergeBounds
    <3>2. CASE i = 1
      <4>1. i - 1 = 0 /\ Scanned(x)[i - 1] = TopLevel
        BY <3>2, ScanIs
      <4> QED BY <2>2, <2>5, <2>7, <3>1, <4>1, TopIsPlain
    <3>3. CASE i # 1
      <4>1. i - 1 \in 1..n
        BY <2>4, <3>3
      <4>2. z[e[i - 1]] = x[i - 1] /\ e[i - 1] \in 1..Len(z)
        BY <4>1, MergeBounds
      <4>3. e[i] # 1
        BY <2>6, <3>1, <4>2
      <4>4. Before(z, e[i]) = x[i - 1] /\ Before(x, i) = x[i - 1]
        BY <3>1, <3>3, <4>2, <4>3 DEF Before
      <4> QED BY <2>2, <2>5, <2>7, <3>1, <4>4
    <3> QED BY <3>2, <3>3
  <2> QED BY <2>8, <2>9
<1>3. \A i \in 0..n : Scanned(z)[e[i]] = Scanned(x)[i]
  BY <1>2
<1>4. \A i \in I : i - 1 \in 0..n
  BY DEF Between
<1> QED BY <1>1, <1>3, <1>4

\* The clauses of z are those of x and the heads put between them.
LEMMA MergeStarts ==
    ASSUME NEW A, NEW x \in Seq(A), NEW B, NEW z \in Seq(B), NEW I, NEW t, NEW e, Merge(x, I, t, e, z), Between(x, I, t)
    PROVE  /\ ClauseStarts(x) \subseteq 1..Len(x) /\ ClauseStarts(z) \subseteq 1..Len(z)
           /\ \A i \in ClauseStarts(x) : e[i] \in ClauseStarts(z)
           /\ \A k \in ClauseStarts(z) : (\E i \in ClauseStarts(x) : k = e[i]) \/ (\E i \in I : k = e[i] - 1)
<1> DEFINE n == Len(x)
<1>1. n \in Nat /\ DOMAIN x = 1..n /\ DOMAIN z = 1..Len(z)
  BY LenProperties
<1>2. ASSUME NEW i \in 1..n PROVE Scanned(z)[e[i] - 1] = TopLevel <=> Scanned(x)[i - 1] = TopLevel
  <2>1. CASE i \in I
    <3>1. Scanned(z)[e[i] - 1] = TopLevel
      BY <1>1, <2>1, MergeScanned
    <3> QED BY <2>1, <3>1 DEF Between
  <2>2. CASE i \notin I
    <3>1. e[i] - 1 = e[i - 1] /\ i - 1 \in 0..n
      BY <1>1, <2>2, MergeBounds
    <3>2. Scanned(z)[e[i - 1]] = Scanned(x)[i - 1]
      BY <1>1, <3>1, MergeScanned
    <3> QED BY <3>1, <3>2
  <2> QED BY <2>1, <2>2
<1>3. \A i \in 1..n : z[e[i]] = x[i] /\ e[i] \in 1..Len(z)
  BY <1>1, MergeBounds
<1>4. \A i \in 1..n : i \in ClauseStarts(x) <=> e[i] \in ClauseStarts(z)
  BY <1>1, <1>2, <1>3 DEF ClauseStarts
<1>5. ASSUME NEW k \in ClauseStarts(z)
      PROVE  (\E i \in ClauseStarts(x) : k = e[i]) \/ (\E i \in I : k = e[i] - 1)
  <2>1. k \in 1..Len(z)
    BY <1>1 DEF ClauseStarts
  <2>2. PICK i \in 1..n : k = e[i] \/ (i \in I /\ k = e[i] - 1)
    BY <1>1, <2>1, MergeCovers
  <2> QED BY <1>4, <2>2
<1>6. ClauseStarts(x) \subseteq 1..n /\ ClauseStarts(z) \subseteq 1..Len(z)
  BY <1>1 DEF ClauseStarts
<1> QED BY <1>4, <1>5, <1>6

-----------------------------------------------------------------------------
(* The rules of pass 2.                                                      *)

\* The final LIMIT is at l, the first OPTIONAL MATCH at o, the aggregation at w.
Rules(x, T, l, o, w) ==
    /\ \A i \in T : i <= l
    /\ \A i \in T : x[i].kw = "OPTIONAL MATCH" => o <= i
    /\ \A i \in T : i < o /\ x[i].kw = "WITH" /\ HasAgg(x[i]) => i <= w
    /\ x[l].kw = "LIMIT"
    /\ x[o].kw = "OPTIONAL MATCH"
    /\ w < o /\ x[w].kw = "WITH" /\ HasAgg(x[w])
    /\ x[o].from \in Carried(x[w])
    /\ \A c \in T : w < c /\ c < o => x[c].kw \notin {"ORDER BY", "LIMIT"}
    /\ \A i \in T : Adjacent(T, i, l) /\ x[i].kw = "ORDER BY" => OrderIsDefined(x[i], x[w])

LEMMA MinOf == ASSUME NEW T \in SUBSET Nat, T # {} PROVE Min(T) \in T /\ \A y \in T : Min(T) <= y
<1>1. \E x \in T : \A y \in T : x <= y
  BY LeastOf
<1> QED BY <1>1 DEF Min

LEMMA FinalIs ==
    ASSUME NEW n \in Nat, NEW T \in SUBSET (1..n), T # {}
    PROVE  FinalClause(T) \in T /\ \A i \in T : i <= FinalClause(T)
BY GreatestOf DEF FinalClause

LEMMA FirstOptionalIs ==
    ASSUME NEW x, NEW n \in Nat, NEW T \in SUBSET (1..n)
    PROVE  LET o == FirstOptional(x, T)
           IN  /\ (\E i \in T : x[i].kw = "OPTIONAL MATCH") => o # 0
               /\ o # 0 => o \in T /\ x[o].kw = "OPTIONAL MATCH" /\ \A i \in T : x[i].kw = "OPTIONAL MATCH" => o <= i
<1> DEFINE opts == {i \in T : x[i].kw = "OPTIONAL MATCH"}
           o == FirstOptional(x, T)
<1>0. \A i \in T : i \in Nat /\ i # 0
  OBVIOUS
<1>1. o = IF opts = {} THEN 0 ELSE Min(opts)
  BY DEF FirstOptional
<1>2. opts # {} => Min(opts) \in opts /\ \A i \in opts : Min(opts) <= i
  <2>1. opts \in SUBSET Nat
    BY <1>0
  <2> HIDE DEF opts
  <2> QED BY <2>1, MinOf
<1> HIDE DEF o
<1>3. \A i \in T : x[i].kw = "OPTIONAL MATCH" => i \in opts
  OBVIOUS
<1>4. \A i \in opts : i \in T /\ x[i].kw = "OPTIONAL MATCH" /\ i # 0
  BY <1>0
<1> HIDE DEF opts
<1>5. /\ (\E i \in T : x[i].kw = "OPTIONAL MATCH") => o # 0
      /\ o # 0 => o \in T /\ x[o].kw = "OPTIONAL MATCH" /\ \A i \in T : x[i].kw = "OPTIONAL MATCH" => o <= i
  BY <1>1, <1>2, <1>3, <1>4
<1> QED BY <1>5 DEF o

LEMMA AggregationIs ==
    ASSUME NEW x, NEW n \in Nat, NEW T \in SUBSET (1..n), NEW o
    PROVE  LET w == AggregationBefore(x, T, o)
               Agg(i) == i < o /\ x[i].kw = "WITH" /\ HasAgg(x[i])
           IN  /\ (\E i \in T : Agg(i)) => w # 0
               /\ w # 0 => w \in T /\ Agg(w) /\ \A i \in T : Agg(i) => i <= w
<1> DEFINE Agg(i) == i < o /\ x[i].kw = "WITH" /\ HasAgg(x[i])
           aggs == {i \in T : i < o /\ x[i].kw = "WITH" /\ HasAgg(x[i])}
           w == AggregationBefore(x, T, o)
<1>1. w = IF aggs = {} THEN 0 ELSE Max(aggs)
  BY DEF AggregationBefore
<1>2. aggs # {} => Max(aggs) \in aggs /\ \A i \in aggs : i <= Max(aggs)
  <2>1. aggs \in SUBSET (1..n)
    OBVIOUS
  <2> HIDE DEF aggs
  <2> QED BY <2>1, GreatestOf
<1> HIDE DEF w
<1>3. \A i \in T : Agg(i) => i \in aggs
  OBVIOUS
<1>4. \A i \in aggs : i \in T /\ Agg(i) /\ i # 0
  OBVIOUS
<1> HIDE DEF aggs, Agg
<1>5. /\ (\E i \in T : Agg(i)) => w # 0
      /\ w # 0 => w \in T /\ Agg(w) /\ \A i \in T : Agg(i) => i <= w
  BY <1>1, <1>2, <1>3, <1>4
<1> QED BY <1>5 DEF w, Agg

\* What pushes has such places, and only that.
LEMMA PushesIs ==
    ASSUME NEW x, NEW n \in Nat, NEW T \in SUBSET (1..n)
    PROVE  /\ Pushes(x, T) => LET l == FinalClause(T) o == FirstOptional(x, T) w == AggregationBefore(x, T, o)
                              IN  l \in T /\ o \in T /\ w \in T /\ Rules(x, T, l, o, w)
           /\ (\E l, o, w \in T : Rules(x, T, l, o, w)) => Pushes(x, T)
<1> DEFINE L == FinalClause(T)
           O == FirstOptional(x, T)
           W == AggregationBefore(x, T, O)
<1>1. T # {} => L \in T /\ \A i \in T : i <= L
  BY FinalIs
<1>2. /\ (\E i \in T : x[i].kw = "OPTIONAL MATCH") => O # 0
      /\ O # 0 => O \in T /\ x[O].kw = "OPTIONAL MATCH" /\ \A i \in T : x[i].kw = "OPTIONAL MATCH" => O <= i
  BY FirstOptionalIs
<1>3. /\ (\E i \in T : i < O /\ x[i].kw = "WITH" /\ HasAgg(x[i])) => W # 0
      /\ W # 0 => /\ W \in T /\ W < O /\ x[W].kw = "WITH" /\ HasAgg(x[W])
                  /\ \A i \in T : i < O /\ x[i].kw = "WITH" /\ HasAgg(x[i]) => i <= W
  BY AggregationIs
<1>4. Pushes(x, T) <=> /\ T # {} /\ x[L].kw = "LIMIT" /\ O # 0 /\ W # 0
                       /\ x[O].from \in Carried(x[W])
                       /\ ~AlreadyLimited(x, T, W, O)
                       /\ \A i \in FinalOrder(x, T) : OrderIsDefined(x[i], x[W])
  BY DEF Pushes
<1>5. FinalOrder(x, T) = {i \in T : Adjacent(T, i, L) /\ x[i].kw = "ORDER BY"}
  BY DEF FinalOrder
<1>6. \A a, b : AlreadyLimited(x, T, a, b) <=> \E c \in T : a < c /\ c < b /\ x[c].kw \in {"ORDER BY", "LIMIT"}
  BY DEF AlreadyLimited
<1> HIDE DEF L, O, W
<1>7. Pushes(x, T) => L \in T /\ O \in T /\ W \in T /\ Rules(x, T, L, O, W)
  <2> SUFFICES ASSUME Pushes(x, T) PROVE L \in T /\ O \in T /\ W \in T /\ Rules(x, T, L, O, W)
    OBVIOUS
  <2>1. /\ x[L].kw = "LIMIT" /\ O # 0 /\ W # 0 /\ T # {} /\ x[O].from \in Carried(x[W])
        /\ ~AlreadyLimited(x, T, W, O) /\ \A i \in FinalOrder(x, T) : OrderIsDefined(x[i], x[W])
    BY <1>4
  <2>2. \A c \in T : W < c /\ c < O => x[c].kw \notin {"ORDER BY", "LIMIT"}
    BY <2>1, <1>6
  <2>3. \A i \in T : Adjacent(T, i, L) /\ x[i].kw = "ORDER BY" => OrderIsDefined(x[i], x[W])
    BY <2>1, <1>5
  <2> QED BY <1>1, <1>2, <1>3, <2>1, <2>2, <2>3 DEF Rules
<1>8. ASSUME NEW l \in T, NEW o \in T, NEW w \in T, Rules(x, T, l, o, w) PROVE Pushes(x, T)
  <2>1. /\ \A i \in T : i <= l
        /\ \A i \in T : x[i].kw = "OPTIONAL MATCH" => o <= i
        /\ \A i \in T : i < o /\ x[i].kw = "WITH" /\ HasAgg(x[i]) => i <= w
        /\ x[l].kw = "LIMIT" /\ x[o].kw = "OPTIONAL MATCH" /\ w < o /\ x[w].kw = "WITH" /\ HasAgg(x[w])
        /\ x[o].from \in Carried(x[w])
        /\ \A c \in T : w < c /\ c < o => x[c].kw \notin {"ORDER BY", "LIMIT"}
        /\ \A i \in T : Adjacent(T, i, l) /\ x[i].kw = "ORDER BY" => OrderIsDefined(x[i], x[w])
    BY <1>8 DEF Rules
  <2>2. T # {} /\ \A i \in T : i \in Nat /\ i # 0
    OBVIOUS
  <2>3. L = l
    <3>1. L \in T /\ L <= l /\ l <= L
      BY <1>1, <2>1, <2>2
    <3>2. L \in Nat /\ l \in Nat
      BY <2>2, <3>1
    <3> QED BY <3>1, <3>2
  <2>4. O = o /\ O # 0
    <3>1. O # 0
      BY <1>2, <2>1
    <3>2. O \in T /\ O <= o /\ o <= O
      BY <1>2, <2>1, <3>1
    <3>3. O \in Nat /\ o \in Nat
      BY <2>2, <3>2
    <3> QED BY <3>1, <3>2, <3>3
  <2>5. W = w /\ W # 0
    <3>1. w < O /\ x[w].kw = "WITH" /\ HasAgg(x[w])
      BY <2>1, <2>4
    <3>2. W # 0
      BY <1>3, <3>1
    <3>3. W \in T /\ W < O /\ x[W].kw = "WITH" /\ HasAgg(x[W]) /\ w <= W
      BY <1>3, <3>1, <3>2
    <3>4. W <= w
      BY <2>1, <2>4, <3>3
    <3>5. W \in Nat /\ w \in Nat
      BY <2>2, <3>3
    <3> QED BY <3>2, <3>3, <3>4, <3>5
  <2>6. ~AlreadyLimited(x, T, W, O)
    BY <1>6, <2>1, <2>4, <2>5
  <2>7. \A i \in FinalOrder(x, T) : OrderIsDefined(x[i], x[W])
    BY <1>5, <2>1, <2>3, <2>5
  <2> QED BY <1>4, <2>1, <2>2, <2>3, <2>4, <2>5, <2>6, <2>7
<1> QED BY <1>7, <1>8 DEF L, O, W

\* A WITH that only passes names through, before an ORDER BY or a RETURN, changes
\* nothing that the rules of pass 2 look at.
Passing(x, I, t) == \A i \in I : t[i].kw = "WITH" /\ ~HasAgg(t[i]) /\ x[i].kw \in {"ORDER BY", "RETURN"}

LEMMA MergePushesNothing ==
    ASSUME NEW A, NEW x \in Seq(A), NEW B, NEW z \in Seq(B), NEW I, NEW t, NEW e,
           Merge(x, I, t, e, z), Between(x, I, t), Passing(x, I, t),
           Pushes(z, ClauseStarts(z))
    PROVE  Pushes(x, ClauseStarts(x))
<1> DEFINE T == ClauseStarts(x)
           U == ClauseStarts(z)
<1>1. /\ T \in SUBSET (1..Len(x)) /\ U \in SUBSET (1..Len(z)) /\ Len(x) \in Nat /\ Len(z) \in Nat
      /\ \A i \in T : e[i] \in U
      /\ \A k \in U : (\E i \in T : k = e[i]) \/ (\E i \in I : k = e[i] - 1)
  <2>1. Len(x) \in Nat /\ Len(z) \in Nat
    BY LenProperties
  <2>2. /\ T \subseteq 1..Len(x) /\ U \subseteq 1..Len(z)
        /\ \A i \in T : e[i] \in U
        /\ \A k \in U : (\E i \in T : k = e[i]) \/ (\E i \in I : k = e[i] - 1)
    BY MergeStarts
  <2> HIDE DEF T, U
  <2> QED BY <2>1, <2>2
<1>2. \A i \in 1..Len(x) : /\ i \in 0..Len(x) /\ z[e[i]] = x[i] /\ e[i] \in Nat
                           /\ i \in I => z[e[i] - 1] = t[i] /\ e[i - 1] \in Nat /\ e[i] - 1 > e[i - 1] /\ i - 1 \in 0..Len(x)
  <2> TAKE i \in 1..Len(x)
  <2>1. /\ Len(z) \in Nat /\ e[i] \in 1..Len(z) /\ z[e[i]] = x[i]
        /\ i \in 0..Len(x) /\ i - 1 \in 0..Len(x) /\ e[i - 1] \in Nat
        /\ i \in I => e[i] - 1 \in 1..Len(z) /\ (e[i] - 1) - 1 = e[i - 1] /\ z[e[i] - 1] = t[i]
    BY <1>1, MergeBounds
  <2>2. e[i] \in Nat
    BY <2>1
  <2>3. i \in I => e[i] - 1 > e[i - 1]
    BY <2>1, <2>2
  <2> QED BY <2>1, <2>2, <2>3
<1>3. \A i, j \in 0..Len(x) : i < j => e[i] < e[j]
  BY <1>1, MergeGrows
<1>4. I \subseteq 1..Len(x)
  BY DEF Between
<1>5. PICK l \in U, o \in U, w \in U : Rules(z, U, l, o, w)
  BY <1>1, PushesIs
<1>6. /\ \A i \in U : i <= l
      /\ \A i \in U : z[i].kw = "OPTIONAL MATCH" => o <= i
      /\ \A i \in U : i < o /\ z[i].kw = "WITH" /\ HasAgg(z[i]) => i <= w
      /\ z[l].kw = "LIMIT" /\ z[o].kw = "OPTIONAL MATCH"
      /\ w < o /\ z[w].kw = "WITH" /\ HasAgg(z[w])
      /\ z[o].from \in Carried(z[w])
      /\ \A c \in U : w < c /\ c < o => z[c].kw \notin {"ORDER BY", "LIMIT"}
      /\ \A i \in U : Adjacent(U, i, l) /\ z[i].kw = "ORDER BY" => OrderIsDefined(z[i], z[w])
  BY <1>5 DEF Rules
<1> HIDE DEF T, U
<1>7. \A i \in I : z[e[i] - 1].kw = "WITH" /\ ~HasAgg(z[e[i] - 1])
  BY <1>2, <1>4 DEF Passing
<1>8. PICK l1 \in T : l = e[l1]
  BY <1>1, <1>6, <1>7
<1>9. PICK o1 \in T : o = e[o1]
  BY <1>1, <1>6, <1>7
<1>10. PICK w1 \in T : w = e[w1]
  BY <1>1, <1>6, <1>7
<1>11. \A i \in T : i \in Nat /\ i \in 0..Len(x) /\ e[i] \in U /\ e[i] \in Nat /\ z[e[i]] = x[i]
  BY <1>1, <1>2
<1>12. \A i, j \in T : (i < j <=> e[i] < e[j]) /\ (i <= j <=> e[i] <= e[j])
  <2> SUFFICES ASSUME NEW i \in T, NEW j \in T PROVE (i < j <=> e[i] < e[j]) /\ (i <= j <=> e[i] <= e[j])
    OBVIOUS
  <2>1. i < j => e[i] < e[j]
    BY <1>3, <1>11
  <2>2. j < i => e[j] < e[i]
    BY <1>3, <1>11
  <2>3. i \in Nat /\ j \in Nat /\ e[i] \in Nat /\ e[j] \in Nat
    BY <1>11
  <2>4. i < j \/ i = j \/ j < i
    BY <2>3
  <2> QED BY <2>1, <2>2, <2>3, <2>4
<1>13. ASSUME NEW i \in T, Adjacent(T, i, l1), x[i].kw = "ORDER BY" PROVE OrderIsDefined(x[i], x[w1])
  <2>1. i < l1 /\ \A k \in T : k <= i \/ l1 <= k
    BY <1>13 DEF Adjacent
  <2>2. ASSUME NEW k \in U PROVE k <= e[i] \/ l <= k
    <3>1. CASE \E j \in T : k = e[j]
      <4>1. PICK j \in T : k = e[j]
        BY <3>1
      <4>2. j <= i \/ l1 <= j
        BY <2>1
      <4> QED BY <1>8, <1>12, <4>1, <4>2
    <3>2. CASE \E j \in I : k = e[j] - 1
      <4>1. PICK j \in I : k = e[j] - 1
        BY <3>2
      <4>2. j \in T
        <5>1. j \in 1..Len(x) /\ Scanned(x)[j - 1] = TopLevel /\ DOMAIN x = 1..Len(x)
          BY LenProperties DEF Between
        <5>2. IsHead(x[j])
          BY DEF IsHead, Keywords, Passing
        <5> QED BY <5>1, <5>2 DEF T, ClauseStarts
      <4>3. j <= i \/ l1 <= j
        BY <2>1, <4>2
      <4>4. j # l1
        <5>1. x[l1].kw = "LIMIT"
          BY <1>6, <1>8, <1>11
        <5>2. x[j].kw \in {"ORDER BY", "RETURN"}
          BY DEF Passing
        <5> QED BY <5>1, <5>2
      <4>5. e[j] \in Nat /\ e[i] \in Nat /\ e[l1] \in Nat /\ j \in Nat /\ l1 \in Nat
        BY <1>11, <4>2
      <4>6. CASE j <= i
        <5>1. e[j] <= e[i]
          BY <1>12, <4>2, <4>6
        <5> QED BY <4>1, <4>5, <5>1
      <4>7. CASE l1 <= j
        <5>1. l1 < j
          BY <4>4, <4>5, <4>7
        <5>2. e[l1] < e[j]
          BY <1>12, <4>2, <5>1
        <5> QED BY <1>8, <4>1, <4>5, <5>2
      <4> QED BY <4>3, <4>6, <4>7
    <3> QED BY <1>1, <3>1, <3>2
  <2>3. Adjacent(U, e[i], l)
    BY <1>8, <1>11, <1>12, <2>1, <2>2 DEF Adjacent
  <2>4. z[e[i]] = x[i] /\ z[w] = x[w1] /\ e[i] \in U
    BY <1>10, <1>11
  <2> QED BY <1>6, <1>13, <2>3, <2>4
<1>14. /\ \A i \in T : i <= l1
       /\ \A i \in T : x[i].kw = "OPTIONAL MATCH" => o1 <= i
       /\ \A i \in T : i < o1 /\ x[i].kw = "WITH" /\ HasAgg(x[i]) => i <= w1
       /\ \A c \in T : w1 < c /\ c < o1 => x[c].kw \notin {"ORDER BY", "LIMIT"}
  <2>1. ASSUME NEW i \in T PROVE i <= l1
    <3>1. e[i] <= e[l1]
      BY <1>6, <1>8, <1>11
    <3> QED BY <1>12, <3>1
  <2>2. ASSUME NEW i \in T, x[i].kw = "OPTIONAL MATCH" PROVE o1 <= i
    <3>1. e[o1] <= e[i]
      BY <1>6, <1>9, <1>11, <2>2
    <3> QED BY <1>12, <3>1
  <2>3. ASSUME NEW i \in T, i < o1, x[i].kw = "WITH", HasAgg(x[i]) PROVE i <= w1
    <3>1. e[i] < e[o1]
      BY <1>12, <2>3
    <3>2. e[i] <= e[w1]
      BY <1>6, <1>9, <1>10, <1>11, <2>3, <3>1
    <3> QED BY <1>12, <3>2
  <2>4. ASSUME NEW c \in T, w1 < c, c < o1 PROVE x[c].kw \notin {"ORDER BY", "LIMIT"}
    <3>1. e[w1] < e[c] /\ e[c] < e[o1]
      BY <1>12, <2>4
    <3> QED BY <1>6, <1>9, <1>10, <1>11, <3>1
  <2> QED BY <2>1, <2>2, <2>3, <2>4
<1>15. /\ x[l1].kw = "LIMIT" /\ x[o1].kw = "OPTIONAL MATCH"
       /\ w1 < o1 /\ x[w1].kw = "WITH" /\ HasAgg(x[w1]) /\ x[o1].from \in Carried(x[w1])
  BY <1>6, <1>8, <1>9, <1>10, <1>11, <1>12
<1>16. Rules(x, T, l1, o1, w1)
  BY <1>13, <1>14, <1>15 DEF Rules
<1> QED BY <1>1, <1>16, PushesIs DEF T

\* The text after pass 3 pushes only what the text before it does.
LEMMA AliasesPushNothing ==
    ASSUME NEW A, NEW x \in Seq(A), ~Pushes(x, ClauseStarts(x))
    PROVE  ~Pushes(FixAliases(x), ClauseStarts(FixAliases(x)))
<1> DEFINE T == ClauseStarts(x)
           I == {i \in T : NamesBefore(x, T, i) # <<>>}
           t == [i \in I |-> Through(NamesBefore(x, T, i))]
           B == A \union {t[i] : i \in I}
           ss == [i \in 1..Len(x) |-> IF i \in I THEN <<t[i], x[i]>> ELSE <<x[i]>>]
           z == FixAliases(x)
<1>1. Len(x) \in Nat /\ DOMAIN x = 1..Len(x) /\ \A i \in 1..Len(x) : x[i] \in A
  BY LenProperties, ElementOfSeq
<1>2. z = FlattenSeq(ss)
  <2>1. ss = [i \in DOMAIN x |-> IF i \in T /\ NamesBefore(x, T, i) # <<>>
                                 THEN <<Through(NamesBefore(x, T, i)), x[i]>> ELSE <<x[i]>>]
    <3>1. \A i \in I : t[i] = Through(NamesBefore(x, T, i))
      OBVIOUS
    <3>2. \A i : i \in I <=> i \in T /\ NamesBefore(x, T, i) # <<>>
      OBVIOUS
    <3> HIDE DEF t, I, T
    <3> QED BY <1>1, <3>1, <3>2
  <2> HIDE DEF ss
  <2> QED BY <2>1 DEF FixAliases
<1>3. CASE x = <<>>
  <2>1. Len(x) = 0
    BY <1>3
  <2>2. ss = <<>>
    BY <2>1
  <2>3. z = <<>>
    <3> HIDE DEF ss
    <3> QED BY <1>2, <2>2 DEF FlattenSeq
  <2>4. z = x
    BY <1>3, <2>3
  <2> QED BY <2>4
<1>4. CASE x # <<>>
  <2>1. Passing(x, I, t) /\ Between(x, I, t)
    <3>1. ASSUME NEW i \in I PROVE t[i].kw = "WITH" /\ ~HasAgg(t[i]) /\ x[i].kw \in {"ORDER BY", "RETURN"}
      <4>1. t[i] = Through(NamesBefore(x, T, i)) /\ NamesBefore(x, T, i) # <<>>
        OBVIOUS
      <4> HIDE DEF t, T
      <4>2. t[i].kw = "WITH"
        BY <4>1 DEF Through
      <4>3. ~HasAgg(t[i])
        BY <4>1 DEF Through, HasAgg, Range
      <4>4. x[i].kw \in {"ORDER BY", "RETURN"}
        BY <4>1 DEF NamesBefore
      <4> QED BY <4>2, <4>3, <4>4
    <3>2. \A i \in I : i \in 1..Len(x) /\ Scanned(x)[i - 1] = TopLevel
      BY <1>1 DEF ClauseStarts
    <3>3. \A i \in I : IsHead(t[i])
      BY <3>1 DEF IsHead, Keywords
    <3> HIDE DEF t, I
    <3> QED BY <3>1, <3>2, <3>3 DEF Passing, Between
  <2>2. x \in Seq(B) /\ \A i \in I : t[i] \in B
    <3>1. A \subseteq B /\ \A i \in I : t[i] \in B
      OBVIOUS
    <3> HIDE DEF B
    <3> QED BY <1>1, <3>1, IsASeq
  <2>3. z \in Seq(B) /\ \E e : Merge(x, I, t, e, z)
    <3>1. FlattenSeq(ss) \in Seq(B) /\ \E e : Merge(x, I, t, e, FlattenSeq(ss))
      <4> HIDE DEF B, I, t
      <4> QED BY <1>4, <2>2, MergeOf
    <3> HIDE DEF ss, z
    <3> QED BY <1>2, <3>1
  <2>4. PICK e : Merge(x, I, t, e, z)
    BY <2>3
  <2> HIDE DEF B, I, t, z
  <2> QED BY <2>1, <2>2, <2>3, <2>4, MergePushesNothing DEF z
<1> QED BY <1>3, <1>4

\* The clauses of the final ORDER BY and LIMIT.
LEMMA EndOfText ==
    ASSUME NEW x, NEW n \in Nat, NEW T \in SUBSET (1..n), T # {}
    PROVE  LET l == FinalClause(T)
               from == Min(FinalOrder(x, T) \union {l})
           IN  /\ l \in T /\ from \in T /\ from <= l
               /\ \A i \in T : from <= i => i = l \/ (i = from /\ x[i].kw = "ORDER BY")
<1> DEFINE l == FinalClause(T)
           ends == FinalOrder(x, T) \union {l}
           from == Min(ends)
<1>1. l \in T /\ \A i \in T : i <= l
  BY FinalIs
<1>0. \A i \in T : i \in Nat
  OBVIOUS
<1>2. \A i \in ends : i \in T /\ (i = l \/ (Adjacent(T, i, l) /\ x[i].kw = "ORDER BY"))
  BY <1>1 DEF FinalOrder
<1>3. ends \in SUBSET Nat /\ l \in ends
  <2>1. l \in ends
    OBVIOUS
  <2> HIDE DEF ends
  <2> QED BY <1>0, <1>2, <2>1
<1> HIDE DEF ends, l
<1>4. from \in ends /\ from <= l
  BY <1>3, MinOf
<1> HIDE DEF from
<1>5. ASSUME NEW i \in T, from <= i PROVE i = l \/ (i = from /\ x[i].kw = "ORDER BY")
  <2>1. from \in T /\ i \in Nat /\ l \in Nat /\ from \in Nat /\ i <= l
    BY <1>0, <1>1, <1>2, <1>3, <1>4
  <2>0. from <= i
    BY <1>5
  <2>2. CASE from = l
    <3>1. l <= i /\ i <= l
      BY <2>0, <2>1, <2>2
    <3>2. i = l
      BY <2>1, <3>1
    <3> QED BY <3>2
  <2>3. CASE from # l
    <3>1. x[from].kw = "ORDER BY" /\ \A k \in T : k <= from \/ l <= k
      BY <1>2, <1>4, <2>3 DEF Adjacent
    <3>2. i <= from \/ l <= i
      BY <3>1
    <3>3. i = from \/ i = l
      BY <2>0, <2>1, <3>2
    <3> QED BY <3>1, <3>3
  <2> QED BY <2>2, <2>3
<1> QED BY <1>1, <1>2, <1>4, <1>5 DEF from, ends, l

\* Where the characters of x stand when those from place f on are copied to place o.
LEMMA CopyPlaces ==
    ASSUME NEW A, NEW x \in Seq(A), NEW o \in 1..Len(x), NEW f \in 1..Len(x)
    PROVE  LET n == Len(x)
               d == n - f + 1
               y == SubSeq(x, 1, o - 1) \o SubSeq(x, f, n) \o SubSeq(x, o, n)
           IN  /\ y \in Seq(A) /\ Len(y) = n + d /\ d \in Nat
               /\ \A i \in 1..(o - 1) : y[i] = x[i]
               /\ \A i \in 1..d : y[(o - 1) + i] = x[(f - 1) + i]
               /\ \A i \in 1..(n - o + 1) : y[(o - 1) + d + i] = x[(o - 1) + i]
<1> DEFINE n == Len(x)
           d == n - f + 1
           a == SubSeq(x, 1, o - 1)
           b == SubSeq(x, f, n)
           c == SubSeq(x, o, n)
<1>1. n \in Nat /\ o \in 1..n /\ f \in 1..n
  BY LenProperties
<1>2. a \in Seq(A) /\ Len(a) = o - 1 /\ \A i \in 1..(o - 1) : a[i] = x[i]
  BY <1>1
<1>3. b \in Seq(A) /\ Len(b) = d /\ \A i \in 1..d : b[i] = x[(f - 1) + i]
  BY <1>1
<1>4. c \in Seq(A) /\ Len(c) = n - o + 1 /\ \A i \in 1..(n - o + 1) : c[i] = x[(o - 1) + i]
  BY <1>1
<1> HIDE DEF a, b, c
<1>5. /\ a \o b \in Seq(A) /\ Len(a \o b) = (o - 1) + d
      /\ \A i \in 1..((o - 1) + d) : (a \o b)[i] = IF i <= o - 1 THEN a[i] ELSE b[i - (o - 1)]
  <2>1. /\ a \o b \in Seq(A) /\ Len(a \o b) = Len(a) + Len(b)
        /\ \A i \in 1..(Len(a) + Len(b)) : (a \o b)[i] = IF i <= Len(a) THEN a[i] ELSE b[i - Len(a)]
    BY <1>2, <1>3, ConcatProperties
  <2> QED BY <1>2, <1>3, <2>1
<1>6. /\ (a \o b) \o c \in Seq(A) /\ Len((a \o b) \o c) = ((o - 1) + d) + (n - o + 1)
      /\ \A i \in 1..(((o - 1) + d) + (n - o + 1)) :
             ((a \o b) \o c)[i] = IF i <= (o - 1) + d THEN (a \o b)[i] ELSE c[i - ((o - 1) + d)]
  <2> DEFINE p == a \o b
  <2>1. p \in Seq(A) /\ Len(p) = (o - 1) + d
    BY <1>5
  <2> HIDE DEF p
  <2>2. /\ p \o c \in Seq(A) /\ Len(p \o c) = Len(p) + Len(c)
        /\ \A i \in 1..(Len(p) + Len(c)) : (p \o c)[i] = IF i <= Len(p) THEN p[i] ELSE c[i - Len(p)]
    BY <1>4, <2>1, ConcatProperties
  <2>3. /\ p \o c \in Seq(A) /\ Len(p \o c) = ((o - 1) + d) + (n - o + 1)
        /\ \A i \in 1..(((o - 1) + d) + (n - o + 1)) :
               (p \o c)[i] = IF i <= (o - 1) + d THEN p[i] ELSE c[i - ((o - 1) + d)]
    BY <1>4, <2>1, <2>2
  <2> QED BY <2>3 DEF p
<1> DEFINE y == (a \o b) \o c
<1>7. ASSUME NEW i \in 1..(o - 1) PROVE y[i] = x[i]
  <2>1. i \in 1..(((o - 1) + d) + (n - o + 1)) /\ i <= (o - 1) + d /\ i \in 1..((o - 1) + d) /\ i <= o - 1
    BY <1>1
  <2> QED BY <1>2, <1>5, <1>6, <2>1
<1>8. ASSUME NEW i \in 1..d PROVE y[(o - 1) + i] = x[(f - 1) + i]
  <2>1. /\ (o - 1) + i \in 1..(((o - 1) + d) + (n - o + 1)) /\ (o - 1) + i <= (o - 1) + d
        /\ (o - 1) + i \in 1..((o - 1) + d) /\ ~((o - 1) + i <= o - 1) /\ ((o - 1) + i) - (o - 1) = i
    BY <1>1
  <2> QED BY <1>3, <1>5, <1>6, <2>1
<1>9. ASSUME NEW i \in 1..(n - o + 1) PROVE y[(o - 1) + d + i] = x[(o - 1) + i]
  <2>1. /\ (o - 1) + d + i \in 1..(((o - 1) + d) + (n - o + 1)) /\ ~((o - 1) + d + i <= (o - 1) + d)
        /\ ((o - 1) + d + i) - ((o - 1) + d) = i
    BY <1>1
  <2> QED BY <1>4, <1>6, <2>1
<1>10. y \in Seq(A) /\ Len(y) = n + d /\ d \in Nat
  BY <1>1, <1>6
<1> HIDE DEF y
<1> QED BY <1>7, <1>8, <1>9, <1>10 DEF y, a, b, c

\* The clauses of a text whose end, from place f on, is copied to place o.
LEMMA CopyStarts ==
    ASSUME NEW A, NEW x \in Seq(A), Balanced(x), NEW y \in Seq(A), NEW d \in Nat,
           NEW o \in ClauseStarts(x), NEW f \in ClauseStarts(x), d = Len(x) - f + 1, Len(y) = Len(x) + d,
           \A i \in 1..(o - 1) : y[i] = x[i],
           \A i \in 1..d : y[(o - 1) + i] = x[(f - 1) + i],
           \A i \in 1..(Len(x) - o + 1) : y[(o - 1) + d + i] = x[(o - 1) + i]
    PROVE  /\ \A i \in 1..(o - 1) : i \in ClauseStarts(y) <=> i \in ClauseStarts(x)
           /\ \A i \in 1..d : (o - 1) + i \in ClauseStarts(y) <=> (f - 1) + i \in ClauseStarts(x)
           /\ o + d \in ClauseStarts(y) /\ y[o + d] = x[o]
<1> DEFINE n == Len(x)
<1>1. /\ n \in Nat /\ Len(y) \in Nat /\ DOMAIN x = 1..n /\ DOMAIN y = 1..(n + d)
  BY LenProperties
<1>2. o \in 1..n /\ f \in 1..n /\ IsHead(x[o]) /\ Scanned(x)[o - 1] = TopLevel /\ Scanned(x)[f - 1] = TopLevel
  BY <1>1 DEF ClauseStarts
<1>3. \A i \in 0..(o - 1) : Scanned(x)[i] = Scanned(y)[i]
  <2> DEFINE k == 0
             j == 0
             m == o - 1
  <2>1. k \in Nat /\ j \in Nat /\ m \in Nat /\ k + m <= Len(x) /\ j + m <= Len(y)
    BY <1>1, <1>2
  <2>2. Scanned(x)[k] = TopLevel /\ Scanned(y)[j] = TopLevel
    BY <1>1, ScanIs
  <2>3. Alike(x, k, y, j, m)
    BY DEF Alike
  <2>4. \A i \in 0..m : k + i = i /\ j + i = i
    BY <1>2
  <2> HIDE DEF k, j, m
  <2>5. \A i \in 0..m : Scanned(x)[k + i] = Scanned(y)[j + i]
    BY <1>1, <2>1, <2>2, <2>3, ScannedAlike
  <2> QED BY <2>4, <2>5 DEF m
<1>4. Scanned(y)[o - 1] = TopLevel
  BY <1>2, <1>3
<1>5. \A i \in 0..d : Scanned(x)[(f - 1) + i] = Scanned(y)[(o - 1) + i]
  <2> DEFINE k == f - 1
             m == o - 1
  <2>1. k \in Nat /\ m \in Nat /\ k + d <= Len(x) /\ m + d <= Len(y)
    <3>1. f \in 1..n /\ o \in 1..n /\ n \in Nat /\ d = n - f + 1 /\ Len(y) = n + d
      BY <1>1, <1>2
    <3> HIDE DEF n
    <3>2. k \in Nat /\ m \in Nat /\ k + d <= n /\ m + d <= n + d
      BY <3>1
    <3> QED BY <3>1, <3>2 DEF n
  <2>2. Alike(x, k, y, m, d)
    BY DEF Alike
  <2>3. Scanned(x)[k] = TopLevel /\ Scanned(y)[m] = TopLevel
    BY <1>2, <1>4
  <2> HIDE DEF k, m
  <2>4. \A i \in 0..d : Scanned(x)[k + i] = Scanned(y)[m + i]
    BY <1>1, <2>1, <2>2, <2>3, ScannedAlike
  <2> QED BY <2>4 DEF k, m
<1>6. Scanned(y)[(o - 1) + d] = TopLevel
  <2>1. d \in 0..d /\ (f - 1) + d = n
    BY <1>1, <1>2
  <2>2. Scanned(x)[n] = TopLevel
    BY DEF Balanced
  <2> QED BY <1>5, <2>1, <2>2
<1>7. \A i \in 1..(o - 1) : i \in ClauseStarts(y) <=> i \in ClauseStarts(x)
  <2> TAKE i \in 1..(o - 1)
  <2>1. i \in 1..n /\ i \in 1..(n + d) /\ i - 1 \in 0..(o - 1)
    BY <1>1, <1>2
  <2>2. y[i] = x[i] /\ Scanned(x)[i - 1] = Scanned(y)[i - 1]
    BY <1>3, <2>1
  <2> QED BY <1>1, <2>1, <2>2 DEF ClauseStarts
<1>8. \A i \in 1..d : (o - 1) + i \in ClauseStarts(y) <=> (f - 1) + i \in ClauseStarts(x)
  <2> TAKE i \in 1..d
  <2>1. /\ (f - 1) + i \in 1..n /\ (o - 1) + i \in 1..(n + d) /\ i - 1 \in 0..d
        /\ ((f - 1) + i) - 1 = (f - 1) + (i - 1) /\ ((o - 1) + i) - 1 = (o - 1) + (i - 1)
    BY <1>1, <1>2
  <2>2. y[(o - 1) + i] = x[(f - 1) + i] /\ Scanned(x)[((f - 1) + i) - 1] = Scanned(y)[((o - 1) + i) - 1]
    BY <1>5, <2>1
  <2> HIDE DEF n
  <2> QED BY <1>1, <2>1, <2>2 DEF ClauseStarts
<1>9. o + d \in ClauseStarts(y) /\ y[o + d] = x[o]
  <2>1. /\ 1 \in 1..(n - o + 1) /\ (o - 1) + d + 1 = o + d /\ (o - 1) + 1 = o
        /\ o + d \in 1..(n + d) /\ (o + d) - 1 = (o - 1) + d
    BY <1>1, <1>2
  <2>2. y[o + d] = x[o]
    BY <2>1
  <2> QED BY <1>1, <1>2, <1>6, <2>1, <2>2 DEF ClauseStarts
<1> QED BY <1>7, <1>8, <1>9

\* The copy of the LIMIT stands between the aggregation and the first OPTIONAL MATCH.
LEMMA LimitIsPushedOnce ==
    ASSUME NEW A, NEW x \in Seq(A), Balanced(x)
    PROVE  PushLimit(x) \in Seq(A) /\ ~Pushes(PushLimit(x), ClauseStarts(PushLimit(x)))
<1> DEFINE T == ClauseStarts(x)
           n == Len(x)
<1>1. CASE ~Pushes(x, T)
  <2>1. PushLimit(x) = x
    BY <1>1 DEF PushLimit
  <2> QED BY <1>1, <2>1
<1>2. CASE Pushes(x, T)
  <2> DEFINE l == FinalClause(T)
             o == FirstOptional(x, T)
             w == AggregationBefore(x, T, o)
             f == Min(FinalOrder(x, T) \union {l})
             d == n - f + 1
             y == SubSeq(x, 1, o - 1) \o SubSeq(x, f, n) \o SubSeq(x, o, n)
             U == ClauseStarts(y)
  <2>1. PushLimit(x) = y
    BY <1>2 DEF PushLimit
  <2>2. n \in Nat /\ DOMAIN x = 1..n /\ T \in SUBSET (1..n)
    BY LenProperties DEF ClauseStarts
  <2>3. l \in T /\ o \in T /\ w \in T /\ Rules(x, T, l, o, w)
    BY <1>2, <2>2, PushesIs
  <2>4. f \in T /\ f <= l /\ \A i \in T : f <= i => i = l \/ (i = f /\ x[i].kw = "ORDER BY")
    BY <2>2, <2>3, EndOfText
  <2> HIDE DEF T, l, o, w, f
  <2>5. l \in 1..n /\ o \in 1..n /\ w \in 1..n /\ f \in 1..n
    BY <2>2, <2>3, <2>4
  <2>6. /\ y \in Seq(A) /\ Len(y) = n + d /\ d \in Nat
        /\ \A i \in 1..(o - 1) : y[i] = x[i]
        /\ \A i \in 1..d : y[(o - 1) + i] = x[(f - 1) + i]
        /\ \A i \in 1..(n - o + 1) : y[(o - 1) + d + i] = x[(o - 1) + i]
    BY <2>5, CopyPlaces
  <2> HIDE DEF y, d
  <2>7. /\ \A i \in 1..(o - 1) : i \in U <=> i \in T
        /\ \A i \in 1..d : (o - 1) + i \in U <=> (f - 1) + i \in T
        /\ o + d \in U /\ y[o + d] = x[o]
    <3>1. d = n - f + 1 /\ o \in ClauseStarts(x) /\ f \in ClauseStarts(x)
      BY <2>3, <2>4 DEF d, T
    <3> QED BY <2>6, <3>1, CopyStarts DEF T
  <2>8. U \in SUBSET (1..(n + d))
    BY <2>6, LenProperties DEF ClauseStarts
  <2> HIDE DEF U, n
  <2>9. /\ \A i \in T : x[i].kw = "OPTIONAL MATCH" => o <= i
        /\ \A i \in T : i < o /\ x[i].kw = "WITH" /\ HasAgg(x[i]) => i <= w
        /\ x[l].kw = "LIMIT" /\ x[o].kw = "OPTIONAL MATCH" /\ w < o /\ x[w].kw = "WITH" /\ HasAgg(x[w])
    BY <2>3 DEF Rules
  <2>10. ASSUME NEW i \in 1..d, (o - 1) + i \in U PROVE y[(o - 1) + i].kw \in {"ORDER BY", "LIMIT"}
    <3>1. (f - 1) + i \in T /\ y[(o - 1) + i] = x[(f - 1) + i]
      BY <2>6, <2>7, <2>10
    <3>2. f <= (f - 1) + i
      BY <2>5, <2>6
    <3> QED BY <2>4, <2>9, <3>1, <3>2
  <2>11. ASSUME NEW k \in U, k < o + d, y[k].kw \notin {"ORDER BY", "LIMIT"} PROVE k \in T /\ k < o /\ y[k] = x[k]
    <3>1. k \in 1..(n + d) /\ n \in Nat /\ k \in Nat /\ k >= 1 /\ o \in Nat
      BY <2>2, <2>5, <2>6, <2>8
    <3>2. k < o
      <4> SUFFICES ASSUME ~(k < o) PROVE FALSE
        OBVIOUS
      <4>0. d \in Nat /\ k < o + d
        BY <2>6, <2>11
      <4>1. k - (o - 1) \in 1..d /\ (o - 1) + (k - (o - 1)) = k
        BY <3>1, <4>0
      <4> QED BY <2>10, <2>11, <4>1
    <3>3. k \in 1..(o - 1)
      BY <3>1, <3>2
    <3> QED BY <2>6, <2>7, <3>2, <3>3
  <2>12. ASSUME Pushes(y, U) PROVE FALSE
    <3>1. PICK l2 \in U, o2 \in U, w2 \in U : Rules(y, U, l2, o2, w2)
      <4>1. n + d \in Nat
        BY <2>2, <2>6
      <4> QED BY <2>8, <2>12, <4>1, PushesIs
    <3>2. /\ \A i \in U : y[i].kw = "OPTIONAL MATCH" => o2 <= i
          /\ \A i \in U : i < o2 /\ y[i].kw = "WITH" /\ HasAgg(y[i]) => i <= w2
          /\ y[o2].kw = "OPTIONAL MATCH"
          /\ w2 < o2 /\ y[w2].kw = "WITH" /\ HasAgg(y[w2])
          /\ \A c \in U : w2 < c /\ c < o2 => y[c].kw \notin {"ORDER BY", "LIMIT"}
      BY <3>1 DEF Rules
    <3>3. /\ o \in Nat /\ d \in Nat /\ n \in Nat /\ o2 \in Nat /\ w2 \in Nat /\ w \in Nat /\ l \in Nat /\ f \in Nat
          /\ l <= n /\ w >= 1
      BY <2>2, <2>5, <2>6, <2>8
    <3>4. o2 = o + d
      <4>1. o2 <= o + d
        BY <2>7, <2>9, <3>2
      <4>2. ~(o2 < o + d)
        <5> SUFFICES ASSUME o2 < o + d PROVE FALSE
          OBVIOUS
        <5>1. o2 \in T /\ o2 < o /\ y[o2] = x[o2]
          BY <2>11, <3>2
        <5>2. o <= o2
          BY <2>9, <3>2, <5>1
        <5> QED BY <3>3, <5>1, <5>2
      <4> QED BY <3>3, <4>1, <4>2
    <3>5. w \in U /\ y[w] = x[w] /\ w < o2
      <4>0. w < o
        BY <2>9
      <4>1. w \in 1..(o - 1) /\ w < o + d
        BY <3>3, <4>0
      <4> QED BY <2>3, <2>6, <2>7, <3>4, <4>1
    <3>6. w2 = w
      <4>1. w <= w2
        BY <2>9, <3>2, <3>5
      <4>2. w2 \in T /\ w2 < o /\ y[w2] = x[w2]
        BY <2>11, <3>2, <3>4
      <4>3. w2 <= w
        BY <2>9, <3>2, <4>2
      <4> QED BY <3>3, <4>1, <4>3
    <3> DEFINE c == (o - 1) + (l - f + 1)
    <3>7. l - f + 1 \in 1..d /\ (f - 1) + (l - f + 1) = l /\ w < c /\ c < o + d
      <4>1. d = n - f + 1 /\ f <= l /\ w < o
        BY <2>4, <2>9 DEF d
      <4> QED BY <3>3, <4>1
    <3>8. c \in U /\ y[c] = x[l]
      BY <2>3, <2>6, <2>7, <3>7
    <3> QED BY <2>9, <3>2, <3>4, <3>6, <3>7, <3>8
  <2> QED BY <2>1, <2>6, <2>12 DEF U
<1> QED BY <1>1, <1>2

-----------------------------------------------------------------------------
(* The three passes.                                                       *)

LEMMA StrippedIsText ==
    ASSUME NEW A, NEW x \in Seq(A)
    PROVE  StripNulls(x) \in Seq(A)
<1> DEFINE ss == [i \in 1..Len(x) |-> IF x[i].kw = "nulls" /\ Scanned(x)[i - 1].mode = "out" THEN <<>> ELSE <<x[i]>>]
<1>1. Len(x) \in Nat /\ DOMAIN x = 1..Len(x) /\ \A i \in 1..Len(x) : x[i] \in A
  BY LenProperties, ElementOfSeq
<1>2. \A i \in 1..Len(x) : (IF x[i].kw = "nulls" /\ Scanned(x)[i - 1].mode = "out" THEN <<>> ELSE <<x[i]>>) \in Seq(A)
  BY <1>1
<1>3. ss \in Seq(Seq(A))
  BY <1>1, <1>2, IsASeq
<1>4. StripNulls(x) = FlattenSeq(ss)
  BY <1>1 DEF StripNulls
<1> HIDE DEF ss
<1> QED BY <1>3, <1>4, FlattenIsSeq

LEMMA CollapsedIsText ==
    ASSUME NEW A, NEW x \in Seq(A), [kw |-> "blank"] \in A
    PROVE  Collapsed(x) \in Seq(A)
<1>1. Len(x) \in Nat /\ DOMAIN x = 1..Len(x) /\ \A i \in 1..Len(x) : x[i] \in A
  BY LenProperties, ElementOfSeq
<1>2. \A i \in 1..Len(x) : (IF x[i].kw = "blanks" THEN [kw |-> "blank"] ELSE x[i]) \in A
  BY <1>1
<1>3. Collapsed(x) = [i \in 1..Len(x) |-> IF x[i].kw = "blanks" THEN [kw |-> "blank"] ELSE x[i]]
  BY <1>1 DEF Collapsed
<1> QED BY <1>1, <1>2, <1>3, IsASeq

LEMMA FixedIsText ==
    ASSUME NEW A, NEW u \in Seq(A), [kw |-> "class"] \in A
    PROVE  FixEscapes(u) \in Seq(A)
<1> DEFINE Pair(i) == /\ i \in DOMAIN u /\ i + 1 \in DOMAIN u
                      /\ Scanned(u)[i - 1].mode = "single" /\ u[i].kw = "backslash" /\ u[i + 1].kw = "dot"
           ss == [i \in 1..Len(u) |-> IF Pair(i) THEN <<[kw |-> "class"]>> ELSE IF Pair(i - 1) THEN <<>> ELSE <<u[i]>>]
<1>1. Len(u) \in Nat /\ DOMAIN u = 1..Len(u) /\ \A i \in 1..Len(u) : u[i] \in A
  BY LenProperties, ElementOfSeq
<1>2. FixEscapes(u) = FlattenSeq(ss)
  BY <1>1 DEF FixEscapes
<1> HIDE DEF Pair
<1>3. \A i \in 1..Len(u) : (IF Pair(i) THEN <<[kw |-> "class"]>> ELSE IF Pair(i - 1) THEN <<>> ELSE <<u[i]>>) \in Seq(A)
  <2> TAKE i \in 1..Len(u)
  <2>1. u[i] \in A
    BY <1>1
  <2>2. <<u[i]>> \in Seq(A) /\ <<[kw |-> "class"]>> \in Seq(A) /\ <<>> \in Seq(A)
    BY <2>1
  <2> QED BY <2>2
<1>4. ss \in Seq(Seq(A))
  BY <1>1, <1>3, IsASeq
<1> HIDE DEF ss
<1> QED BY <1>2, <1>4, FlattenIsSeq

LEMMA CleanedIsText ==
    ASSUME NEW A, NEW x \in Seq(A)
    PROVE  Cleaned(x) \in Seq(A \union {[kw |-> "class"], [kw |-> "blank"]})
<1> DEFINE B == A \union {[kw |-> "class"], [kw |-> "blank"]}
           u == IF StripNulls(x) = x THEN x ELSE Collapsed(StripNulls(x))
<1>1. x \in Seq(B) /\ [kw |-> "class"] \in B /\ [kw |-> "blank"] \in B
  BY LenProperties, ElementOfSeq, IsASeq
<1> HIDE DEF B
<1>2. StripNulls(x) \in Seq(B)
  BY <1>1, StrippedIsText
<1>3. Collapsed(StripNulls(x)) \in Seq(B)
  BY <1>1, <1>2, CollapsedIsText
<1>4. u \in Seq(B)
  BY <1>1, <1>3
<1>5. Cleaned(x) = FixEscapes(u)
  BY DEF Cleaned
<1> HIDE DEF u
<1>6. FixEscapes(u) \in Seq(B)
  BY <1>1, <1>4, FixedIsText
<1> QED BY <1>5, <1>6 DEF B

\* The text between two passes, and what the last one leaves.
PassInv ==
    /\ sql \in Inputs
    /\ pass \in {"cleanup", "push", "alias", "done"}
    /\ pass = "cleanup" => text = sql.text
    /\ pass \in {"push", "alias"} => sql.calls = 1 /\ ~sql.raises
    /\ pass = "push" => text = Cleaned(sql.text)
    /\ pass = "alias" => text = PushLimit(Cleaned(sql.text))
    /\ pass = "done" /\ sql.calls = 1 /\ ~sql.raises => text = FixAliases(PushLimit(Cleaned(sql.text)))

LEMMA PassesInOrder == OptimizeSpec => []PassInv
<1>1. OptimizeInit => PassInv
  BY DEF OptimizeInit, PassInv
<1>2. PassInv /\ [OptimizeNext]_rewriting => PassInv'
  <2> SUFFICES ASSUME PassInv, [OptimizeNext]_rewriting PROVE PassInv'
    OBVIOUS
  <2> USE DEF PassInv
  <2>1. CASE LeaveAlone
    BY <2>1 DEF LeaveAlone
  <2>2. CASE Cleanup
    BY <2>2 DEF Cleanup
  <2>3. CASE Push
    BY <2>3 DEF Push
  <2>4. CASE Alias
    BY <2>4 DEF Alias
  <2>5. CASE UNCHANGED rewriting
    BY <2>5 DEF rewriting
  <2> QED BY <2>1, <2>2, <2>3, <2>4, <2>5 DEF OptimizeNext
<1> QED BY <1>1, <1>2, PTL DEF OptimizeSpec

\* For every text: what went through the three passes is not pushed again, unless its
\* strings, parentheses and brackets do not balance.
THEOREM PushedOnce == OptimizeSpec => []PushedOnceUnless
<1>1. PassInv => PushedOnceUnless
  <2> SUFFICES ASSUME PassInv, pass = "done", sql.calls = 1, ~sql.raises, Balanced(Cleaned(sql.text))
               PROVE  PushLimit(text) = text
    BY DEF PushedOnceUnless
  <2> DEFINE x == Cleaned(sql.text)
             A == Range(sql.text) \union {[kw |-> "class"], [kw |-> "blank"]}
             y == PushLimit(x)
             z == FixAliases(y)
  <2>1. sql \in Inputs /\ text = z
    BY DEF PassInv
  <2>2. x \in Seq(A)
    BY <2>1, TextsAssumption, CleanedIsText
  <2>3. y \in Seq(A) /\ ~Pushes(y, ClauseStarts(y))
    <3> HIDE DEF x, A
    <3> QED BY <2>2, LimitIsPushedOnce DEF x
  <2>4. ~Pushes(z, ClauseStarts(z))
    <3> HIDE DEF x, A, y
    <3> QED BY <2>3, AliasesPushNothing
  <2>5. PushLimit(z) = z
    <3> HIDE DEF z
    <3> QED BY <2>4 DEF PushLimit
  <2> QED BY <2>1, <2>5
<1> QED BY <1>1, PassesInOrder, PTL

=============================================================================
