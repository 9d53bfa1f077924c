---------------------------- MODULE WorkforceProofs ----------------------------
(***************************************************************************)
(* Theorems of Workforce, for any tables of countries, skills, languages,       *)
(* certifications and clients.                                                 *)
(***************************************************************************)
EXTENDS Workforce, FiniteSetTheorems, SequenceTheorems, TLAPS

Labels == {"STUDIED_AT", "HAS_SKILL", "HOLDS_CERT", "SPEAKS", "WORKED_FOR"}

\* The quotas and the bench.  A country that is staffed gave what its quota or the
\* country allows, and the one that raised had a negative quota.
Given(c) == Least(quota[c], counts[c])
QuotasHold ==
    /\ stage \in Labels \union {"quotas", "staff", "raised"}
    /\ counts \in CountryCounts /\ total \in Totals
    /\ benched \in Seq(Nat) /\ Len(benched) <= Len(counts)
    /\ IF stage = "quotas" THEN quota = <<>> /\ benched = <<>>
       ELSE quota = [c \in DOMAIN counts |-> QuotaOf(c)]
    /\ \A c \in DOMAIN benched : benched[c] = Given(c)
    /\ stage \in Labels => Len(benched) = Len(counts)
    /\ stage = "raised" => Len(benched) < Len(counts) /\ Given(Len(benched) + 1) < 0

\* The edges of a label.
Stati == {"Valid", "Expiring", "Expired"}
SkillEdges == [to : STRING, primary : BOOLEAN]
CertEdges == [to : Certs, status : Stati, issued : Int, expires : Int]
TongueEdges == [to : Natives \union Languages, native : BOOLEAN]
WorkEdges == [to : Clients, start : Nat, end : Nat]

StudiesHold ==
    /\ hired \in 2000..(ThisYear - 1)
    /\ drawn \in Seq([to : {"university"}, year : 1990..hired]) /\ Len(drawn) <= 1
Distinct == \A i, j \in DOMAIN drawn : drawn[i].to = drawn[j].to => i = j
Doubled(name) == \E k, l \in DOMAIN SkillNames : k # l /\ SkillNames[k] = name /\ SkillNames[l] = name
SkillsHold ==
    /\ picks \in Nat /\ drawn \in Seq(SkillEdges)
    /\ \A i, j \in DOMAIN drawn : i # j /\ drawn[i].to = drawn[j].to => Doubled(drawn[i].to)
CertsHold ==
    /\ drawn \in Seq(CertEdges) /\ Distinct
    /\ \A i \in DOMAIN drawn :
           /\ drawn[i].issued < drawn[i].expires
           /\ drawn[i].status = "Expired" <=> drawn[i].expires < ThisYear
TonguesHold == picks \in Nat /\ drawn \in Seq(TongueEdges) /\ Distinct
WorkHolds ==
    /\ drawn \in Seq(WorkEdges) /\ Distinct
    /\ \A i \in DOMAIN drawn : IF i = 1 /\ ~onBench THEN drawn[i].end = NoEnd ELSE drawn[i].start < drawn[i].end
EdgesHold ==
    /\ onBench \in BOOLEAN
    /\ stage \notin Labels => drawn = <<>>
    /\ stage = "STUDIED_AT" => StudiesHold
    /\ stage = "HAS_SKILL" => SkillsHold
    /\ stage = "HOLDS_CERT" => CertsHold
    /\ stage = "SPEAKS" => TonguesHold
    /\ stage = "WORKED_FOR" => WorkHolds

-----------------------------------------------------------------------------
(* Sums.                                                                   *)

LEMMA LeastOf == ASSUME NEW T \in SUBSET Nat, T # {} PROVE \E x \in T : \A y \in T : x <= y
<1>1. PICK x \in T : \A y \in T : ~(<<y, x>> \in OpToRel(<, Nat))
  BY NatLessThanWellFounded, WFMin
<1>2. \A y \in T : ~(y < x)
  BY <1>1 DEF OpToRel
<1> QED BY <1>2

\* s is the table of the sums of the first 0 to n numbers of f.
IsSumTo(s, f, n) == s = [k \in 0..n |-> IF k = 0 THEN 0 ELSE s[k - 1] + f[k]]

\* There is one for every n.
LEMMA SumTableExists == ASSUME NEW f, NEW n \in Nat PROVE \E s : IsSumTo(s, f, n)
<1> DEFINE Without == {m \in Nat : ~(\E s : IsSumTo(s, f, m))}
<1> SUFFICES ASSUME Without # {} PROVE FALSE
  OBVIOUS
<1>1. PICK m \in Without : \A y \in Without : m <= y
  <2> HIDE DEF Without
  <2>1. Without \in SUBSET Nat
    BY DEF Without
  <2> QED BY <2>1, LeastOf
<1>2. CASE m = 0
  <2>1. IsSumTo([k \in 0..0 |-> 0], f, 0)
    BY DEF IsSumTo
  <2> QED BY <1>2, <2>1
<1>3. CASE m # 0
  <2>1. m - 1 \in Nat /\ m - 1 \notin Without
    BY <1>1, <1>3
  <2>2. PICK s : IsSumTo(s, f, m - 1)
    BY <2>1
  <2> DEFINE t == [k \in 0..m |-> IF k = m THEN s[m - 1] + f[m] ELSE s[k]]
  <2>3. ASSUME NEW k \in 0..m PROVE t[k] = IF k = 0 THEN 0 ELSE t[k - 1] + f[k]
    <3>1. CASE k = m
      BY <3>1, <1>3, <2>1
    <3>2. CASE k # m
      <4>1. k \in 0..(m - 1)
        BY <3>2, <2>1
      <4>2. s[k] = IF k = 0 THEN 0 ELSE s[k - 1] + f[k]
        BY <4>1, <2>2 DEF IsSumTo
      <4>3. k # 0 => k - 1 \in 0..m /\ k - 1 # m
        BY <4>1, <2>1
      <4>4. t[k] = s[k] /\ (k # 0 => t[k - 1] = s[k - 1])
        BY <3>2, <4>3
      <4> QED BY <4>2, <4>4
    <3> QED BY <3>1, <3>2
  <2>4. IsSumTo(t, f, m)
    BY <2>3 DEF IsSumTo
  <2> QED BY <2>4, <1>1
<1> QED BY <1>2, <1>3

AgreeUpTo(f, g, n) == \A i \in 1..n : f[i] = g[i]

\* Two tables agree as far as the numbers and the tables go.
LEMMA SumTablesAgree ==
    ASSUME NEW f, NEW g, NEW m \in Nat, NEW n \in Nat, m <= n, AgreeUpTo(f, g, m),
           NEW s, IsSumTo(s, f, m), NEW t, IsSumTo(t, g, n), NEW k \in 0..m
    PROVE  s[k] = t[k]
<1> DEFINE Apart == {i \in 0..m : s[i] # t[i]}
<1> SUFFICES ASSUME Apart # {} PROVE FALSE
  OBVIOUS
<1>1. PICK i \in Apart : \A y \in Apart : i <= y
  <2>1. Apart \in SUBSET Nat
    OBVIOUS
  <2> HIDE DEF Apart
  <2> QED BY <2>1, LeastOf
<1>2. i \in 0..m /\ i \in 0..n
  BY <1>1
<1>3. /\ s[i] = IF i = 0 THEN 0 ELSE s[i - 1] + f[i]
      /\ t[i] = IF i = 0 THEN 0 ELSE t[i - 1] + g[i]
  BY <1>2 DEF IsSumTo
<1>4. i # 0 => i - 1 \in 0..m /\ i - 1 \notin Apart /\ f[i] = g[i]
  BY <1>1, <1>2 DEF AgreeUpTo
<1> QED BY <1>1, <1>3, <1>4

LEMMA SumIsOfTable ==
    ASSUME NEW f, NEW n \in Nat, NEW s, IsSumTo(s, f, n) PROVE SumOf(f, n) = s[n]
<1> DEFINE sum == CHOOSE h : h = [k \in 0..n |-> IF k = 0 THEN 0 ELSE h[k - 1] + f[k]]
<1>1. IsSumTo(sum, f, n)
  BY DEF IsSumTo
<1>2. SumOf(f, n) = sum[n]
  BY DEF SumOf
<1>3. n \in 0..n
  OBVIOUS
<1> HIDE DEF sum
<1>4. AgreeUpTo(f, f, n)
  BY DEF AgreeUpTo
<1> QED BY <1>1, <1>2, <1>3, <1>4, SumTablesAgree

\* The sum by its last number, and of equal numbers.
LEMMA SumOfNone == ASSUME NEW f PROVE SumOf(f, 0) = 0
<1>1. IsSumTo([k \in 0..0 |-> 0], f, 0)
  BY DEF IsSumTo
<1> QED BY <1>1, SumIsOfTable

LEMMA SumOfOneMore == ASSUME NEW f, NEW n \in Nat PROVE SumOf(f, n + 1) = SumOf(f, n) + f[n + 1]
<1>1. PICK s : IsSumTo(s, f, n)
  BY SumTableExists
<1>2. PICK t : IsSumTo(t, f, n + 1)
  BY SumTableExists
<1>3. t[n + 1] = t[n] + f[n + 1]
  BY <1>2 DEF IsSumTo
<1>4. n <= n + 1 /\ n + 1 \in Nat /\ n \in 0..n
  OBVIOUS
<1>5. s[n] = t[n]
  <2>1. AgreeUpTo(f, f, n)
    BY DEF AgreeUpTo
  <2> QED BY <1>1, <1>2, <1>4, <2>1, SumTablesAgree
<1> QED BY <1>1, <1>2, <1>3, <1>4, <1>5, SumIsOfTable

LEMMA SumOfEquals ==
    ASSUME NEW f, NEW g, NEW n \in Nat, AgreeUpTo(f, g, n) PROVE SumOf(f, n) = SumOf(g, n)
<1>1. PICK s : IsSumTo(s, f, n)
  BY SumTableExists
<1>2. PICK t : IsSumTo(t, g, n)
  BY SumTableExists
<1>3. s[n] = t[n]
  BY <1>1, <1>2, n <= n, n \in 0..n, SumTablesAgree
<1> QED BY <1>1, <1>2, <1>3, SumIsOfTable

LEMMA SumOfNumbers ==
    ASSUME NEW f, NEW n \in Nat, \A i \in 1..n : f[i] \in Int PROVE SumOf(f, n) \in Int
<1> DEFINE Not == {k \in 0..n : SumOf(f, k) \notin Int}
<1> SUFFICES ASSUME Not # {} PROVE FALSE
  OBVIOUS
<1>1. PICK k \in Not : \A y \in Not : k <= y
  <2>1. Not \in SUBSET Nat
    OBVIOUS
  <2> HIDE DEF Not
  <2> QED BY <2>1, LeastOf
<1>2. CASE k = 0
  BY <1>1, <1>2, SumOfNone
<1>3. CASE k # 0
  <2>1. k - 1 \in 0..n /\ k - 1 \in Nat /\ k - 1 \notin Not /\ f[k] \in Int
    BY <1>1, <1>3
  <2>2. SumOf(f, k) = SumOf(f, k - 1) + f[k]
    BY <2>1, SumOfOneMore, (k - 1) + 1 = k
  <2> QED BY <2>1, <2>2, <1>1
<1> QED BY <1>2, <1>3

-----------------------------------------------------------------------------
(* The bench.                                                              *)

LEMMA Tables ==
    ASSUME counts \in CountryCounts
    PROVE  /\ counts \in Seq(Nat) /\ Len(counts) \in Nat \ {0} /\ DOMAIN counts = 1..Len(counts)
           /\ \A c \in 1..Len(counts) : counts[c] \in Nat
           /\ BenchCount \in Nat /\ BenchCount <= SumOf(counts, Len(counts))
  BY CountsAssumption, BenchAssumption, EmptySeq, LenProperties, ElementOfSeq

LEMMA Products ==
    ASSUME NEW a \in Nat, NEW b \in Nat, NEW d \in Nat, b <= d
    PROVE  a * b \in Nat /\ a * d \in Nat /\ a * b <= a * d
<1>1. PICK e \in Nat : d = b + e
  <2>1. d - b \in Nat /\ d = b + (d - b)
    OBVIOUS
  <2> QED BY <2>1
<1>2. a * b \in Nat /\ a * e \in Nat
  OBVIOUS
<1>3. a * (b + e) = a * b + a * e
  OBVIOUS
<1> QED BY <1>1, <1>2, <1>3

LEMMA DivisionFacts ==
    ASSUME NEW x \in Nat, NEW e \in Nat, e > 0
    PROVE  x = e * (x \div e) + (x % e) /\ x % e \in 0..(e - 1) /\ x \div e \in Nat
  OBVIOUS

\* Rounding to the nearest never leaves 0..a when the quotient is at most a.
LEMMA Rounded ==
    ASSUME NEW a \in Nat, NEW d \in Nat, d > 0, NEW x \in Nat, x <= a * (2 * d),
           NEW down, down = x \div (2 * d), NEW rest, rest = x - down * 2 * d
    PROVE  /\ down \in 0..a /\ rest \in Nat
           /\ rest > 0 => down + 1 <= a
<1> DEFINE e == 2 * d
<1>1. e \in Nat /\ e > 0
  OBVIOUS
<1>2. x = e * (x \div e) + (x % e) /\ x % e \in 0..(e - 1) /\ x \div e \in Nat
  BY <1>1, DivisionFacts
<1>3. down \in Nat /\ x = e * down + (x % e)
  BY <1>2
<1>4. rest = x % e
  <2>1. down * 2 * d = e * down
    BY <1>3
  <2> HIDE DEF e
  <2>2. e * down \in Int
    BY <1>1, <1>3
  <2> QED BY <1>2, <1>3, <2>1, <2>2
<1>5. ASSUME down >= a + 1 PROVE FALSE
  <2>1. e * (a + 1) <= e * down
    BY <1>1, <1>3, <1>5, Products
  <2>2. e * (a + 1) = a * e + e
    OBVIOUS
  <2> HIDE DEF e
  <2>3. x <= a * e
    BY DEF e
  <2>4. a * e \in Nat /\ e * down \in Nat
    BY <1>1, <1>3
  <2> QED BY <1>1, <1>2, <1>3, <2>1, <2>2, <2>3, <2>4
<1>6. ASSUME down = a PROVE rest = 0
  <2>1. e * down = a * e
    BY <1>6
  <2> HIDE DEF e
  <2>2. x <= a * e
    BY DEF e
  <2>3. a * e \in Nat
    BY <1>1
  <2> QED BY <1>2, <1>3, <1>4, <2>1, <2>2, <2>3
<1>7. rest \in Nat
  BY <1>1, <1>2, <1>4
<1> HIDE DEF e
<1> QED BY <1>3, <1>5, <1>6, <1>7

LEMMA ShareFits ==
    ASSUME NEW cnt \in Nat, total \in Nat, total > 0, BenchCount \in Nat, BenchCount <= total
    PROVE  Share(cnt) \in 0..cnt
<1> DEFINE twice == 2 * cnt * BenchCount
           down == twice \div (2 * total)
           rest == twice - down * 2 * total
<1>1. twice \in Nat /\ twice <= cnt * (2 * total)
  <2>1. cnt * BenchCount \in Nat /\ cnt * total \in Nat /\ cnt * BenchCount <= cnt * total
    BY Products
  <2>2. 2 * cnt * BenchCount = 2 * (cnt * BenchCount) /\ cnt * (2 * total) = 2 * (cnt * total)
    OBVIOUS
  <2> QED BY <2>1, <2>2
<1>2. Share(cnt) = IF rest > total \/ (rest = total /\ down % 2 = 1) THEN down + 1 ELSE down
  BY DEF Share
<1> HIDE DEF twice
<1>3. down \in 0..cnt /\ rest \in Nat /\ (rest > 0 => down + 1 <= cnt)
  BY <1>1, Rounded
<1> HIDE DEF down, rest
<1> QED BY <1>2, <1>3

LEMMA ShareIsInt ==
    ASSUME NEW cnt \in Nat, total \in Nat, total > 0 PROVE Share(cnt) \in Int
<1>1. 2 * cnt * BenchCount \in Nat /\ 2 * total \in Nat /\ 2 * total > 0
  <2>1. cnt * BenchCount \in Nat
    BY BenchAssumption
  <2>2. 2 * cnt * BenchCount = 2 * (cnt * BenchCount)
    BY BenchAssumption
  <2> QED BY <2>1, <2>2
<1>2. (2 * cnt * BenchCount) \div (2 * total) \in Int
  BY <1>1, DivisionFacts
<1> HIDE DEF Share
<1>3. \E down \in Int : Share(cnt) = down + 1 \/ Share(cnt) = down
  BY <1>2 DEF Share
<1> QED BY <1>3

LEMMA QuotaIsInt ==
    ASSUME counts \in CountryCounts, total \in Totals, quota = [d \in DOMAIN counts |-> QuotaOf(d)],
           NEW c \in DOMAIN counts
    PROVE  quota[c] \in Int
<1> DEFINE shares == [d \in 1..c |-> Share(counts[d])]
<1>1. c \in 1..Len(counts) /\ Len(counts) \in Nat /\ total \in Nat /\ total > 0 /\ BenchCount \in Nat
  BY Tables, CountsAssumption
<1>2. \A d \in 1..c : shares[d] \in Int
  <2>1. \A d \in 1..c : counts[d] \in Nat
    BY <1>1, Tables
  <2> QED BY <1>1, <2>1, ShareIsInt
<1>3. QuotaOf(c) = IF c = Len(counts) THEN BenchCount - SumOf(shares, c - 1) ELSE shares[c]
  BY <1>1 DEF QuotaOf, LastShare
<1> HIDE DEF shares
<1>4. SumOf(shares, c - 1) \in Int
  <2>1. c - 1 \in Nat /\ \A d \in 1..(c - 1) : d \in 1..c
    BY <1>1
  <2> QED BY <1>2, <2>1, SumOfNumbers
<1>5. c \in 1..c
  BY <1>1
<1> QED BY <1>1, <1>2, <1>3, <1>4, <1>5

\* The shares and what they leave to the last country add up to the bench.
LEMMA QuotasAddUp ==
    ASSUME counts \in CountryCounts, total \in Nat, total > 0, total = SumOf(counts, Len(counts)),
           quota = [c \in DOMAIN counts |-> QuotaOf(c)]
    PROVE  /\ \A c \in 1..(Len(counts) - 1) : quota[c] \in 0..counts[c]
           /\ quota[Len(counts)] \in Int
           /\ SumOf(quota, Len(counts)) = BenchCount
<1> DEFINE last == Len(counts)
           shares == [c \in 1..last |-> Share(counts[c])]
<1>1. /\ last \in Nat /\ last > 0 /\ DOMAIN counts = 1..last
      /\ \A c \in 1..last : counts[c] \in Nat
      /\ BenchCount \in Nat /\ BenchCount <= total
  BY Tables
<1>2. \A c \in 1..last : shares[c] \in 0..counts[c]
  BY <1>1, ShareFits
<1>3. ASSUME NEW c \in 1..(last - 1) PROVE quota[c] = shares[c] /\ c \in 1..last
  <2>1. c \in 1..last /\ c # last /\ c \in DOMAIN counts
    <3>1. ASSUME NEW n \in Nat, n > 0, NEW k \in 1..(n - 1) PROVE k \in 1..n /\ k # n
      OBVIOUS
    <3>2. c \in 1..last /\ c # last
      BY <1>1, <3>1
    <3> QED BY <1>1, <3>2
  <2>2. quota[c] = QuotaOf(c)
    BY <2>1
  <2>3. QuotaOf(c) = Share(counts[c])
    BY <2>1 DEF QuotaOf
  <2> QED BY <2>1, <2>2, <2>3
<1>4. quota[last] = BenchCount - SumOf(shares, last - 1)
  BY <1>1 DEF QuotaOf, LastShare
<1> HIDE DEF shares
<1>5. last - 1 \in Nat /\ SumOf(shares, last - 1) \in Int
  <2>1. \A c \in 1..(last - 1) : shares[c] \in Int
    BY <1>1, <1>2
  <2> QED BY <1>1, <2>1, SumOfNumbers
<1>6. SumOf(quota, last - 1) = SumOf(shares, last - 1)
  <2>1. AgreeUpTo(quota, shares, last - 1)
    BY <1>3 DEF AgreeUpTo
  <2> QED BY <1>5, <2>1, SumOfEquals
<1>7. SumOf(quota, last) = SumOf(quota, last - 1) + quota[last]
  BY <1>1, <1>5, SumOfOneMore, (last - 1) + 1 = last
<1>8. \A c \in 1..(last - 1) : quota[c] \in 0..counts[c]
  BY <1>2, <1>3
<1>9. quota[last] \in Int /\ SumOf(quota, last) = BenchCount
  BY <1>1, <1>4, <1>5, <1>6, <1>7
<1> QED BY <1>8, <1>9

\* A quota that a country can give is what it gives.
LEMMA QuotasGiven ==
    ASSUME QuotasHold, stage # "quotas", total = SumOf(counts, Len(counts)), Last(quota) \in 0..Last(counts)
    PROVE  /\ \A c \in 1..Len(counts) : Given(c) = quota[c] /\ Given(c) \in Nat
           /\ SumOf(quota, Len(counts)) = BenchCount
<1>1. /\ Len(counts) \in Nat \ {0} /\ DOMAIN counts = 1..Len(counts)
      /\ \A c \in 1..Len(counts) : counts[c] \in Nat
      /\ total \in Nat /\ total > 0
  BY Tables, CountsAssumption DEF QuotasHold
<1>2. quota = [c \in DOMAIN counts |-> QuotaOf(c)]
  BY DEF QuotasHold
<1>3. quota[Len(counts)] \in 0..counts[Len(counts)]
  <2>1. quota \in Seq({QuotaOf(c) : c \in DOMAIN counts}) /\ Len(quota) = Len(counts)
    <3>1. quota \in [1..Len(counts) -> {QuotaOf(c) : c \in DOMAIN counts}]
      BY <1>1, <1>2
    <3> QED BY <1>1, <3>1, SeqDef, LenProperties
  <2> QED BY <2>1 DEF Last
<1>4. \A c \in 1..Len(counts) : quota[c] \in 0..counts[c]
  <2>1. \A c \in 1..(Len(counts) - 1) : quota[c] \in 0..counts[c]
    BY <1>1, <1>2, QuotasAddUp DEF QuotasHold
  <2> QED BY <1>1, <1>3, <2>1
<1> QED BY <1>1, <1>2, <1>4, QuotasAddUp DEF QuotasHold, Given, Least

\* Only a country raises: an employee is hired by last year, and every certificate has
\* a year to expire in.
LEMMA HiredByLastYear ==
    ASSUME NEW level \in JobLevels, NEW luck \in -1..3, NEW gap \in 0..2
    PROVE  HireYear(Experience(level, luck), gap) \in 2000..(ThisYear - 1)
<1>1. level \in Int
  BY YearsAssumption
<1>2. Experience(level, luck) \in Int /\ Experience(level, luck) >= 1
  BY <1>1 DEF Experience, Most
<1> QED BY <1>2 DEF HireYear, Most, ThisYear

LEMMA ExpiryFits ==
    ASSUME NEW status \in Stati, NEW year \in FirstYear..(ThisYear - 1)
    PROVE  LET issue == IssueYear(status, year)
           IN  /\ issue \in Int /\ ExpiryYears(status, issue) # {}
               /\ \A expiry \in ExpiryYears(status, issue) :
                      expiry \in Int /\ issue < expiry /\ (status = "Expired" <=> expiry < ThisYear)
<1> DEFINE issue == IssueYear(status, year)
<1>1. year \in Int /\ year <= 2025
  BY YearsAssumption DEF ThisYear
<1>2. CASE status = "Expired"
  <2>1. issue \in Int /\ issue <= 2024
    BY <1>1, <1>2 DEF IssueYear, Least, ThisYear
  <2>2. ExpiryYears(status, issue) = (issue + 1)..2025
    BY <1>2 DEF ExpiryYears, ThisYear
  <2> HIDE DEF issue
  <2>3. 2025 \in (issue + 1)..2025
    BY <2>1
  <2>4. \A expiry \in (issue + 1)..2025 : expiry \in Int /\ issue < expiry /\ expiry < ThisYear
    BY <2>1 DEF ThisYear
  <2>5. ExpiryYears(status, issue) # {}
    BY <2>2, <2>3
  <2> QED BY <1>2, <2>1, <2>2, <2>4, <2>5 DEF issue
<1>3. CASE status = "Expiring"
  BY <1>1, <1>3 DEF IssueYear, ExpiryYears, ThisYear
<1>4. CASE status = "Valid"
  <2>1. issue = year /\ ExpiryYears(status, issue) = 2026..2029
    BY <1>4 DEF IssueYear, ExpiryYears, ThisYear
  <2> HIDE DEF issue
  <2> QED BY <1>1, <1>4, <2>1, 2026 \in 2026..2029 DEF issue, ThisYear
<1> QED BY <1>2, <1>3, <1>4 DEF Stati

\* What a draw does to the rest of the state.
LEMMA PickedEmployee ==
    ASSUME PickEmployee
    PROVE  /\ stage = "staff" /\ Len(benched) = Len(counts)
           /\ stage' = "STUDIED_AT" /\ drawn' = <<>> /\ hired' \in 2000..(ThisYear - 1)
           /\ onBench' \in BOOLEAN /\ UNCHANGED <<counts, total, quota, benched>>
<1>1. hired' \in 2000..(ThisYear - 1)
  <2>1. PICK level \in JobLevels, luck \in -1..3, gap \in 0..2 :
            hired' = HireYear(Experience(level, luck), gap)
    BY DEF PickEmployee
  <2> QED BY <2>1, HiredByLastYear
<1>2. ~(hired' > ThisYear - 1)
  BY <1>1 DEF ThisYear
<1> QED BY <1>1, <1>2 DEF PickEmployee, Begin

LEMMA HeldCert ==
    ASSUME HoldsCert
    PROVE  /\ stage = "HOLDS_CERT" /\ UNCHANGED <<stage, counts, total, quota, benched, onBench>>
           /\ \E cert \in Certs \ Targets, status \in Stati, year \in FirstYear..(ThisYear - 1) :
              \E expiry \in ExpiryYears(status, IssueYear(status, year)) :
                  drawn' = Append(drawn, [to |-> cert, status |-> status,
                                          issued |-> IssueYear(status, year), expires |-> expiry])
<1>1. PICK cert \in Certs \ Targets, status \in Stati, year \in FirstYear..(ThisYear - 1) :
          IF ExpiryYears(status, IssueYear(status, year)) = {}
          THEN stage' = "raised" /\ UNCHANGED <<counts, total, quota, benched, onBench, hired, drawn>>
          ELSE \E expiry \in ExpiryYears(status, IssueYear(status, year)) :
                   Draw([to |-> cert, status |-> status, issued |-> IssueYear(status, year), expires |-> expiry])
  BY DEF HoldsCert, Stati
<1>2. ExpiryYears(status, IssueYear(status, year)) # {}
  BY ExpiryFits
<1>3. PICK expiry \in ExpiryYears(status, IssueYear(status, year)) :
          Draw([to |-> cert, status |-> status, issued |-> IssueYear(status, year), expires |-> expiry])
  BY <1>1, <1>2
<1>4. stage = "HOLDS_CERT"
  BY DEF HoldsCert
<1> QED BY <1>3, <1>4 DEF Draw

\* The actions that draw edges or go on to the next label.
EdgeStep ==
    \/ StudiedAt \/ AfterStudies \/ HasSkill \/ AfterSkills \/ HoldsCert \/ AfterCerts
    \/ Speaks \/ AfterLanguages \/ WorkedFor
LEMMA EdgeStepsKeepBench ==
    ASSUME EdgeStep
    PROVE  stage \in Labels /\ stage' \in Labels /\ UNCHANGED <<counts, total, quota, benched, onBench>>
<1>1. CASE StudiedAt
  BY <1>1 DEF StudiedAt, Labels
<1>2. CASE AfterStudies
  BY <1>2 DEF AfterStudies, Begin, Labels
<1>3. CASE HasSkill
  BY <1>3 DEF HasSkill, Labels
<1>4. CASE AfterSkills
  BY <1>4 DEF AfterSkills, Begin, Labels
<1>5. CASE HoldsCert
  BY <1>5, HeldCert DEF Labels
<1>6. CASE AfterCerts
  BY <1>6 DEF AfterCerts, Begin, Labels
<1>7. CASE Speaks
  BY <1>7 DEF Speaks, Labels
<1>8. CASE AfterLanguages
  BY <1>8 DEF AfterLanguages, Begin, Labels
<1>9. CASE WorkedFor
  BY <1>9 DEF WorkedFor, Draw, Labels
<1> QED BY <1>1, <1>2, <1>3, <1>4, <1>5, <1>6, <1>7, <1>8, <1>9 DEF EdgeStep

LEMMA QuotasStep == ASSUME QuotasHold, [GenerateNext]_workforce PROVE QuotasHold'
<1>1. CASE AssignQuotas
  <2>1. /\ stage = "quotas" /\ stage' = "staff" /\ quota' = [c \in DOMAIN counts |-> QuotaOf(c)]
        /\ UNCHANGED <<counts, total, benched>>
    BY <1>1 DEF AssignQuotas
  <2>2. benched' = <<>>
    BY <2>1 DEF QuotasHold
  <2>3. \A c : QuotaOf(c)' = QuotaOf(c)
    BY <2>1 DEF QuotaOf, LastShare, Share
  <2>4. quota' = [c \in DOMAIN counts' |-> QuotaOf(c)']
    BY <2>1, <2>3
  <2>5. DOMAIN benched' = {}
    BY <2>2
  <2> QED BY <2>1, <2>2, <2>4, <2>5 DEF QuotasHold, Labels
<1>2. CASE StaffCountry
  <2> DEFINE c == Len(benched) + 1
             n == Given(c)
  <2>1. /\ stage = "staff" /\ Len(benched) < Len(counts) /\ UNCHANGED <<counts, total, quota>>
        /\ \/ n < 0 /\ stage' = "raised" /\ UNCHANGED benched
           \/ ~(n < 0) /\ benched' = Append(benched, n) /\ UNCHANGED stage
    BY <1>2 DEF StaffCountry, Given
  <2>2. /\ counts \in CountryCounts /\ total \in Totals /\ benched \in Seq(Nat)
        /\ quota = [d \in DOMAIN counts |-> QuotaOf(d)]
        /\ \A d \in DOMAIN benched : benched[d] = Given(d)
    BY <2>1 DEF QuotasHold
  <2>3. \A d : QuotaOf(d)' = QuotaOf(d) /\ Given(d)' = Given(d)
    BY <2>1 DEF QuotaOf, LastShare, Share, Given
  <2>4. quota' = [d \in DOMAIN counts' |-> QuotaOf(d)']
    BY <2>1, <2>2, <2>3
  <2>5. CASE n < 0 /\ stage' = "raised" /\ UNCHANGED benched
    BY <2>1, <2>2, <2>3, <2>4, <2>5 DEF QuotasHold, Labels
  <2>6. CASE ~(n < 0) /\ benched' = Append(benched, n) /\ UNCHANGED stage
    <3>1. n \in Nat
      <4>1. /\ Len(counts) \in Nat /\ DOMAIN counts = 1..Len(counts)
            /\ \A d \in 1..Len(counts) : counts[d] \in Nat
            /\ Len(benched) \in Nat
        BY <2>2, Tables, LenProperties
      <4>2. c \in 1..Len(counts)
        BY <2>1, <4>1
      <4>3. quota[c] \in Int
        BY <2>2, <4>1, <4>2, QuotaIsInt
      <4> QED BY <2>6, <4>1, <4>2, <4>3 DEF Given, Least
    <3>2. /\ benched' \in Seq(Nat) /\ Len(benched') = Len(benched) + 1 /\ benched'[c] = n
          /\ \A d \in DOMAIN benched' : d = c \/ (d \in DOMAIN benched /\ benched'[d] = benched[d])
      BY <2>2, <2>6, <3>1, AppendProperties, LenProperties
    <3>3. \A d \in DOMAIN benched' : benched'[d] = Given(d)'
      BY <2>2, <2>3, <3>2
    <3> HIDE DEF n
    <3>4. Len(benched) \in Nat /\ Len(counts) \in Nat
      BY <2>2, Tables, LenProperties
    <3> QED BY <2>1, <2>2, <2>4, <2>6, <3>2, <3>3, <3>4 DEF QuotasHold, Labels
  <2> QED BY <2>1, <2>5, <2>6
<1>3. CASE PickEmployee \/ EdgeStep
  <2>1. /\ stage \in Labels \union {"staff"} /\ stage' \in Labels
        /\ Len(benched) = Len(counts) /\ UNCHANGED <<counts, total, quota, benched>>
    BY <1>3, PickedEmployee, EdgeStepsKeepBench DEF QuotasHold, Labels
  <2>2. \A d : QuotaOf(d)' = QuotaOf(d) /\ Given(d)' = Given(d)
    BY <2>1 DEF QuotaOf, LastShare, Share, Given
  <2>3. quota = [d \in DOMAIN counts |-> QuotaOf(d)]
    BY <2>1 DEF QuotasHold, Labels
  <2>4. quota' = [d \in DOMAIN counts' |-> QuotaOf(d)']
    BY <2>1, <2>2, <2>3
  <2> QED BY <2>1, <2>2, <2>4 DEF QuotasHold, Labels
<1>4. CASE UNCHANGED workforce
  <2>1. UNCHANGED <<stage, counts, total, quota, benched>>
    BY <1>4 DEF workforce
  <2>2. \A d : QuotaOf(d)' = QuotaOf(d) /\ Given(d)' = Given(d)
    BY <2>1 DEF QuotaOf, LastShare, Share, Given
  <2>3. CASE stage = "quotas"
    BY <2>1, <2>2, <2>3 DEF QuotasHold
  <2>4. CASE stage # "quotas"
    <3>1. quota = [d \in DOMAIN counts |-> QuotaOf(d)]
      BY <2>4 DEF QuotasHold
    <3>2. quota' = [d \in DOMAIN counts' |-> QuotaOf(d)']
      BY <2>1, <2>2, <3>1
    <3> QED BY <2>1, <2>2, <3>2 DEF QuotasHold
  <2> QED BY <2>3, <2>4
<1> QED BY <1>1, <1>2, <1>3, <1>4 DEF GenerateNext, EdgeStep

-----------------------------------------------------------------------------
(* The edges.                                                              *)

LEMMA Appended ==
    ASSUME NEW S, NEW s \in Seq(S), NEW e \in S, NEW t, t = Append(s, e)
    PROVE  /\ t \in Seq(S) /\ Len(s) \in Nat
           /\ DOMAIN s = 1..Len(s) /\ t[Len(s) + 1] = e /\ Len(s) + 1 \in DOMAIN t
           /\ \A i \in DOMAIN t : i = Len(s) + 1 \/ (i \in DOMAIN s /\ t[i] = s[i])
<1>1. /\ t \in Seq(S) /\ Len(s) \in Nat /\ Len(t) = Len(s) + 1
      /\ DOMAIN s = 1..Len(s) /\ DOMAIN t = 1..Len(t)
      /\ t[Len(s) + 1] = e /\ \A i \in 1..Len(s) : t[i] = s[i]
  BY AppendProperties, LenProperties
<1> QED BY <1>1

\* An edge to a new target keeps the targets distinct.
LEMMA DistinctAppended ==
    ASSUME NEW S, drawn \in Seq(S), NEW e \in S, e.to \notin Targets, Distinct, drawn' = Append(drawn, e)
    PROVE  Distinct'
<1>1. /\ drawn'[Len(drawn) + 1] = e /\ Len(drawn) + 1 \in DOMAIN drawn'
      /\ \A i \in DOMAIN drawn' : i = Len(drawn) + 1 \/ (i \in DOMAIN drawn /\ drawn'[i] = drawn[i])
  BY Appended
<1>2. \A i \in DOMAIN drawn : drawn[i].to # e.to
  BY DEF Targets
<1> QED BY <1>1, <1>2 DEF Distinct

LEMMA SeqOfFcn == ASSUME NEW S, NEW n \in Nat, NEW f \in [1..n -> S] PROVE f \in Seq(S) /\ Len(f) = n
  BY SeqDef, LenProperties

\* What follows other edges in a sequence.
IsJoined(u, s, t) ==
    /\ Len(s) \in Nat /\ Len(t) \in Nat
    /\ DOMAIN s = 1..Len(s) /\ DOMAIN t = 1..Len(t) /\ DOMAIN u = 1..(Len(s) + Len(t))
    /\ \A i \in DOMAIN u : \/ i \in DOMAIN s /\ u[i] = s[i]
                           \/ i - Len(s) \in DOMAIN t /\ u[i] = t[i - Len(s)]
LEMMA Joined == ASSUME NEW S, NEW s \in Seq(S), NEW t \in Seq(S) PROVE s \o t \in Seq(S) /\ IsJoined(s \o t, s, t)
<1> DEFINE u == s \o t
<1>1. /\ u \in Seq(S) /\ Len(s) \in Nat /\ Len(t) \in Nat /\ Len(u) = Len(s) + Len(t)
      /\ DOMAIN s = 1..Len(s) /\ DOMAIN t = 1..Len(t) /\ DOMAIN u = 1..Len(u)
      /\ \A i \in 1..Len(u) : u[i] = IF i <= Len(s) THEN s[i] ELSE t[i - Len(s)]
  BY ConcatProperties, LenProperties
<1> HIDE DEF u
<1>2. ASSUME NEW i \in DOMAIN u
      PROVE  \/ i \in DOMAIN s /\ u[i] = s[i]
             \/ i - Len(s) \in DOMAIN t /\ u[i] = t[i - Len(s)]
  <2>1. i <= Len(s) => i \in DOMAIN s
    BY <1>1
  <2>2. ~(i <= Len(s)) => i - Len(s) \in DOMAIN t
    BY <1>1
  <2> QED BY <1>1, <2>1, <2>2
<1>3. IsJoined(u, s, t)
  BY <1>1, <1>2 DEF IsJoined
<1> QED BY <1>1, <1>3 DEF u

\* A name at two places of the domain is twice in the list of all skills.
LEMMA OwnTwice ==
    ASSUME NEW i \in DOMAIN DomainSkills, NEW j \in DOMAIN DomainSkills, i # j, DomainSkills[i] = DomainSkills[j]
    PROVE  Doubled(DomainSkills[i])
<1>1. PICK e \in [DOMAIN DomainSkills -> DOMAIN SkillNames] :
          IsInjective(e) /\ \A k \in DOMAIN e : SkillNames[e[k]] = DomainSkills[k]
  BY SkillsAssumption
<1>2. e[i] \in DOMAIN SkillNames /\ e[j] \in DOMAIN SkillNames /\ e[i] # e[j]
  BY <1>1 DEF IsInjective
<1>3. SkillNames[e[i]] = DomainSkills[i] /\ SkillNames[e[j]] = DomainSkills[i]
  BY <1>1
<1> QED BY <1>2, <1>3 DEF Doubled

\* The skills that generate_has_skill draws.
LEMMA SkillsDrawn ==
    ASSUME HasSkill, SkillsHold
    PROVE  SkillsHold'
<1>1. PICK n \in 1..Least(3, Len(DomainSkills)) : \E p \in Sampled(DOMAIN DomainSkills, n) :
           LET own == [i \in 1..n |-> DomainSkills[p[i]]]
               others == Others(own)
               m == IF picks > n THEN Least(picks - n, Cardinality(others)) ELSE 0
           IN  \E q \in Sampled(others, m) :
                   LET chosen == own \o [i \in 1..m |-> SkillNames[q[i]]]
                   IN  drawn' = [i \in DOMAIN chosen |-> [to |-> chosen[i], primary |-> i = 1]]
  BY DEF HasSkill
<1>2. PICK p \in Sampled(DOMAIN DomainSkills, n) :
           LET own == [i \in 1..n |-> DomainSkills[p[i]]]
               others == Others(own)
               m == IF picks > n THEN Least(picks - n, Cardinality(others)) ELSE 0
           IN  \E q \in Sampled(others, m) :
                   LET chosen == own \o [i \in 1..m |-> SkillNames[q[i]]]
                   IN  drawn' = [i \in DOMAIN chosen |-> [to |-> chosen[i], primary |-> i = 1]]
  BY <1>1
<1> DEFINE own == [i \in 1..n |-> DomainSkills[p[i]]]
           others == Others(own)
           m == IF picks > n THEN Least(picks - n, Cardinality(others)) ELSE 0
<1>3. PICK q \in Sampled(others, m) :
           drawn' = LET chosen == own \o [i \in 1..m |-> SkillNames[q[i]]]
                    IN  [i \in DOMAIN chosen |-> [to |-> chosen[i], primary |-> i = 1]]
  BY <1>2
<1> DEFINE rest == [i \in 1..m |-> SkillNames[q[i]]]
           chosen == own \o rest
<1>4. drawn' = [i \in DOMAIN chosen |-> [to |-> chosen[i], primary |-> i = 1]]
  BY <1>3
<1>5. p \in [1..n -> DOMAIN DomainSkills] /\ IsInjective(p) /\ n \in Nat
  BY DEF Sampled
<1>6. q \in [1..m -> others] /\ IsInjective(q)
  BY DEF Sampled
<1>7. own \in [1..n -> STRING] /\ own \in Seq(STRING) /\ Len(own) = n
  <2>1. own \in [1..n -> STRING]
    BY <1>5, SkillsAssumption, ElementOfSeq
  <2> HIDE DEF own
  <2> QED BY <1>5, <2>1, SeqOfFcn
<1>8. others \subseteq DOMAIN SkillNames /\ \A k \in others, i \in 1..n : SkillNames[k] # own[i]
  <2>1. others = {k \in DOMAIN SkillNames : SkillNames[k] \notin Range(own)}
    BY DEF Others
  <2>2. \A i \in 1..n : own[i] \in Range(own)
    BY DEF Range
  <2> HIDE DEF own, others
  <2> QED BY <2>1, <2>2
<1>9. m \in Nat
  <2>1. IsFiniteSet(DOMAIN SkillNames)
    BY SkillsAssumption, LenProperties, FS_Interval
  <2>2. Cardinality(others) \in Nat
    BY <1>8, <2>1, FS_Subset, FS_CardinalityType
  <2> HIDE DEF others
  <2>3. picks \in Nat /\ n \in Nat
    BY <1>5 DEF SkillsHold
  <2> QED BY <2>2, <2>3 DEF Least
<1> HIDE DEF m, others
<1>10. rest \in [1..m -> STRING] /\ rest \in Seq(STRING)
  <2>1. rest \in [1..m -> STRING]
    BY <1>6, <1>8, SkillsAssumption, ElementOfSeq
  <2> HIDE DEF rest
  <2> QED BY <1>9, <2>1, SeqOfFcn
<1>11. \A i, j \in 1..n : i # j /\ own[i] = own[j] => Doubled(own[i])
  BY <1>5, OwnTwice DEF IsInjective
<1>12. \A i, j \in 1..m : i # j /\ rest[i] = rest[j] => Doubled(rest[i])
  BY <1>6, <1>8 DEF IsInjective, Doubled
<1>13. \A i \in 1..n, j \in 1..m : own[i] # rest[j]
  BY <1>6, <1>8
<1> HIDE DEF own, rest
<1>14. /\ chosen \in Seq(STRING) /\ Len(own) = n /\ DOMAIN own = 1..n /\ DOMAIN rest = 1..m
       /\ \A i \in DOMAIN chosen : \/ i \in DOMAIN own /\ chosen[i] = own[i]
                                   \/ i - n \in DOMAIN rest /\ chosen[i] = rest[i - n]
  <2>1. DOMAIN own = 1..n /\ DOMAIN rest = 1..m
    BY <1>7, <1>10
  <2>2. own \in Seq(STRING) /\ rest \in Seq(STRING) /\ Len(own) = n
    BY <1>7, <1>10
  <2>3. chosen \in Seq(STRING) /\ IsJoined(chosen, own, rest)
    BY <2>2, Joined
  <2> HIDE DEF chosen
  <2> QED BY <2>1, <2>2, <2>3 DEF IsJoined
<1> HIDE DEF chosen
<1>15. \A i, j \in DOMAIN chosen : i # j /\ chosen[i] = chosen[j] => Doubled(chosen[i])
  <2> TAKE i, j \in DOMAIN chosen
  <2> HAVE i # j /\ chosen[i] = chosen[j]
  <2>1. i \in Int /\ j \in Int /\ (i # j => i - n # j - n)
    BY <1>5, <1>14, LenProperties
  <2>2. CASE chosen[i] = own[i] /\ i \in 1..n
    BY <1>11, <1>13, <1>14, <2>2
  <2>3. CASE chosen[i] = rest[i - n] /\ i - n \in 1..m
    BY <1>12, <1>13, <1>14, <2>1, <2>3
  <2> QED BY <1>14, <2>2, <2>3
<1>16. /\ DOMAIN drawn' = DOMAIN chosen /\ drawn' \in Seq(SkillEdges)
       /\ \A i \in DOMAIN drawn' : drawn'[i].to = chosen[i]
  <2>1. \A i \in DOMAIN chosen : [to |-> chosen[i], primary |-> i = 1] \in SkillEdges
    BY <1>14, ElementOfSeq, LenProperties DEF SkillEdges
  <2>2. DOMAIN chosen = 1..Len(chosen) /\ Len(chosen) \in Nat
    BY <1>14, LenProperties
  <2>3. drawn' \in [1..Len(chosen) -> SkillEdges]
    BY <1>4, <2>1, <2>2
  <2> QED BY <1>4, <2>2, <2>3, SeqOfFcn
<1>17. \A name : Doubled(name)' = Doubled(name)
  BY DEF Doubled
<1>18. picks' = 0
  BY DEF HasSkill
<1> QED BY <1>15, <1>16, <1>17, <1>18 DEF SkillsHold

\* The languages that generate_speaks draws.
LEMMA LanguagesDrawn ==
    ASSUME Speaks, TonguesHold
    PROVE  TonguesHold'
<1>1. PICK native \in Natives : \E extra \in ExtraLanguages(native, picks) :
           drawn' = <<[to |-> native, native |-> TRUE]>> \o [i \in DOMAIN extra |-> [to |-> extra[i], native |-> FALSE]]
  BY DEF Speaks
<1>2. PICK extra \in ExtraLanguages(native, picks) :
           drawn' = <<[to |-> native, native |-> TRUE]>> \o [i \in DOMAIN extra |-> [to |-> extra[i], native |-> FALSE]]
  BY <1>1
<1> DEFINE other == Languages \ {native}
<1>3. extra \in Seq(other) /\ \A i, j \in DOMAIN extra : extra[i] = extra[j] => i = j
  <2>1. picks \in Nat
    BY DEF TonguesHold
  <2>2. CASE extra = <<>>
    BY <2>2
  <2>3. CASE extra = <<English>> /\ English \in other
    BY <2>3
  <2>4. CASE English \in other /\ \E l \in other \ {English} : extra = <<English, l>>
    <3>1. PICK l \in other \ {English} : extra = <<English, l>>
      BY <2>4
    <3> HIDE DEF other
    <3>2. English \in other /\ l \in other /\ l # English
      BY <2>4
    <3> QED BY <3>1, <3>2
  <2>5. CASE extra \in {l \in [1..Least(picks, Cardinality(other)) -> other] : IsInjective(l)}
    <3>1. Cardinality(other) \in Nat
      BY LanguagesAssumption, FS_Subset, FS_CardinalityType
    <3>2. Least(picks, Cardinality(other)) \in Nat
      BY <2>1, <3>1 DEF Least
    <3> HIDE DEF other
    <3> QED BY <2>5, <3>2, SeqOfFcn DEF IsInjective
  <2>6. \/ extra = <<>>
        \/ extra = <<English>> /\ English \in other
        \/ English \in other /\ \E l \in other \ {English} : extra = <<English, l>>
        \/ extra \in {l \in [1..Least(picks, Cardinality(other)) -> other] : IsInjective(l)}
    BY <1>2 DEF ExtraLanguages
  <2> QED BY <2>2, <2>3, <2>4, <2>5, <2>6
<1> DEFINE first == <<[to |-> native, native |-> TRUE]>>
           rest == [i \in DOMAIN extra |-> [to |-> extra[i], native |-> FALSE]]
<1>4. first \in Seq(TongueEdges) /\ Len(first) = 1 /\ DOMAIN first = 1..1 /\ first[1].to = native
  <2>1. [to |-> native, native |-> TRUE] \in TongueEdges
    BY DEF TongueEdges
  <2> QED BY <2>1
<1>5. /\ rest \in Seq(TongueEdges) /\ DOMAIN rest = DOMAIN extra
      /\ \A i \in DOMAIN extra : rest[i].to = extra[i] /\ extra[i] # native
  <2>1. DOMAIN extra = 1..Len(extra) /\ Len(extra) \in Nat /\ \A i \in DOMAIN extra : extra[i] \in other
    BY <1>3, LenProperties, ElementOfSeq
  <2>2. \A i \in DOMAIN extra : [to |-> extra[i], native |-> FALSE] \in TongueEdges
    BY <2>1 DEF TongueEdges
  <2>3. rest \in [1..Len(extra) -> TongueEdges]
    BY <2>1, <2>2
  <2>4. rest \in Seq(TongueEdges)
    <3> HIDE DEF rest
    <3> QED BY <2>1, <2>3, SeqOfFcn
  <2> QED BY <2>1, <2>4
<1>6. drawn' = first \o rest
  BY <1>2
<1> HIDE DEF first, rest
<1>7. drawn' \in Seq(TongueEdges) /\ IsJoined(drawn', first, rest)
  BY <1>4, <1>5, <1>6, Joined
<1>8. ASSUME NEW i \in DOMAIN drawn'
       PROVE  /\ i \in Int
              /\ \/ i = 1 /\ drawn'[i].to = native
                 \/ i - 1 \in DOMAIN extra /\ drawn'[i].to = extra[i - 1] /\ extra[i - 1] # native
  <2>1. i \in Int /\ (\/ i \in DOMAIN first /\ drawn'[i] = first[i]
                      \/ i - 1 \in DOMAIN rest /\ drawn'[i] = rest[i - 1])
    BY <1>4, <1>7 DEF IsJoined
  <2>2. i \in 1..1 => i = 1
    OBVIOUS
  <2> QED BY <1>4, <1>5, <2>1, <2>2
<1>9. Distinct'
  <2> SUFFICES ASSUME NEW i \in DOMAIN drawn', NEW j \in DOMAIN drawn', drawn'[i].to = drawn'[j].to
               PROVE  i = j
    BY DEF Distinct
  <2> QED BY <1>3, <1>8
<1>10. picks' = 0
  BY DEF Speaks
<1> QED BY <1>7, <1>9, <1>10 DEF TonguesHold

LEMMA EngagementAdded ==
    ASSUME WorkedFor, WorkHolds, onBench \in BOOLEAN
    PROVE  WorkHolds'
<1>1. PICK client \in Clients \ Targets :
       \E start \in FirstYear..(IF IsCurrent THEN ThisYear - 1 ELSE ThisYear - 2) :
       \E end \in (IF IsCurrent THEN {NoEnd} ELSE (start + 1)..ThisYear) :
           Draw([to |-> client, start |-> start, end |-> end])
  BY DEF WorkedFor
<1>2. PICK start \in FirstYear..(IF IsCurrent THEN ThisYear - 1 ELSE ThisYear - 2),
           end \in Int :
          /\ end \in (IF IsCurrent THEN {NoEnd} ELSE (start + 1)..ThisYear)
          /\ Draw([to |-> client, start |-> start, end |-> end])
  BY <1>1 DEF NoEnd
<1> DEFINE edge == [to |-> client, start |-> start, end |-> end]
<1>3. start \in Nat /\ end \in Nat /\ (IF IsCurrent THEN end = NoEnd ELSE start < end)
  BY <1>2, YearsAssumption DEF NoEnd
<1>4. edge \in WorkEdges /\ edge.to \notin Targets
  BY <1>3 DEF WorkEdges
<1>5. drawn' = Append(drawn, edge) /\ onBench' = onBench /\ drawn \in Seq(WorkEdges)
  BY <1>2 DEF Draw, WorkHolds
<1> HIDE DEF edge
<1>6. Distinct'
  BY <1>4, <1>5, DistinctAppended DEF WorkHolds
<1>7. /\ drawn' \in Seq(WorkEdges) /\ Len(drawn) \in Nat /\ drawn'[Len(drawn) + 1] = edge
      /\ \A i \in DOMAIN drawn' : i = Len(drawn) + 1 \/ (i \in DOMAIN drawn /\ drawn'[i] = drawn[i])
  BY <1>4, <1>5, Appended
<1>8. IsCurrent <=> Len(drawn) + 1 = 1 /\ ~onBench
  BY <1>5, <1>7, EmptySeq, LenProperties DEF IsCurrent
<1>9. \A i \in DOMAIN drawn' : IF i = 1 /\ ~onBench' THEN drawn'[i].end = NoEnd ELSE drawn'[i].start < drawn'[i].end
  <2>1. edge.start = start /\ edge.end = end
    BY DEF edge
  <2> QED BY <1>3, <1>5, <1>7, <1>8, <2>1 DEF WorkHolds
<1> QED BY <1>6, <1>7, <1>9 DEF WorkHolds

LEMMA CertAdded == ASSUME HoldsCert, CertsHold PROVE CertsHold'
<1>1. PICK cert \in Certs \ Targets, status \in Stati, year \in FirstYear..(ThisYear - 1) :
      \E expiry \in ExpiryYears(status, IssueYear(status, year)) :
          drawn' = Append(drawn, [to |-> cert, status |-> status,
                                  issued |-> IssueYear(status, year), expires |-> expiry])
  BY HeldCert
<1>2. PICK expiry \in ExpiryYears(status, IssueYear(status, year)) :
          drawn' = Append(drawn, [to |-> cert, status |-> status,
                                  issued |-> IssueYear(status, year), expires |-> expiry])
  BY <1>1
<1> DEFINE issue == IssueYear(status, year)
           edge == [to |-> cert, status |-> status, issued |-> issue, expires |-> expiry]
<1>3. issue \in Int /\ expiry \in Int /\ issue < expiry /\ (status = "Expired" <=> expiry < ThisYear)
  BY ExpiryFits
<1> HIDE DEF issue
<1>4. /\ edge \in CertEdges /\ edge.to \notin Targets
      /\ edge.issued < edge.expires /\ (edge.status = "Expired" <=> edge.expires < ThisYear)
  BY <1>3 DEF CertEdges
<1>5. drawn' = Append(drawn, edge) /\ drawn \in Seq(CertEdges)
  BY <1>2 DEF issue, CertsHold
<1> HIDE DEF edge
<1>6. Distinct'
  BY <1>4, <1>5, DistinctAppended DEF CertsHold
<1>7. /\ drawn' \in Seq(CertEdges) /\ drawn'[Len(drawn) + 1] = edge
      /\ \A i \in DOMAIN drawn' : i = Len(drawn) + 1 \/ (i \in DOMAIN drawn /\ drawn'[i] = drawn[i])
  BY <1>4, <1>5, Appended
<1> QED BY <1>4, <1>6, <1>7 DEF CertsHold

LEMMA YearOfStudies == ASSUME StudiedAt, StudiesHold PROVE StudiesHold'
<1>1. PICK gap \in 0..3 : drawn' = <<[to |-> "university", year |-> Most(1990, hired - gap)]>>
  BY DEF StudiedAt
<1>2. hired' = hired /\ hired \in 2000..(ThisYear - 1)
  BY DEF StudiedAt, StudiesHold
<1>3. Most(1990, hired - gap) \in 1990..hired
  BY <1>2 DEF Most, ThisYear
<1>4. [to |-> "university", year |-> Most(1990, hired - gap)] \in [to : {"university"}, year : 1990..hired]
  BY <1>3
<1> QED BY <1>1, <1>2, <1>4 DEF StudiesHold

\* A label begins without edges.
LEMMA LabelBegins ==
    ASSUME drawn' = <<>>, onBench' \in BOOLEAN, stage' \in {"HAS_SKILL", "HOLDS_CERT", "SPEAKS", "WORKED_FOR"},
           picks' \in Nat
    PROVE  EdgesHold'
  BY DEF EdgesHold, SkillsHold, CertsHold, TonguesHold, WorkHolds, Distinct, Labels

LEMMA EdgesStep == ASSUME EdgesHold, [GenerateNext]_workforce PROVE EdgesHold'
<1>1. CASE AssignQuotas
  BY <1>1 DEF AssignQuotas, EdgesHold, Labels
<1>2. CASE StaffCountry
  BY <1>2 DEF StaffCountry, EdgesHold, Labels
<1>3. CASE PickEmployee
  BY <1>3, PickedEmployee DEF EdgesHold, StudiesHold, Labels
<1>4. CASE StudiedAt
  BY <1>4, YearOfStudies DEF StudiedAt, EdgesHold, Labels
<1>5. CASE AfterStudies
  <2>1. picks' \in Nat /\ stage' = "HAS_SKILL" /\ drawn' = <<>> /\ onBench' = onBench
    BY <1>5 DEF AfterStudies, Begin
  <2> QED BY <2>1, LabelBegins DEF EdgesHold
<1>6. CASE HasSkill
  BY <1>6, SkillsDrawn DEF HasSkill, EdgesHold, Labels
<1>7. CASE AfterSkills
  <2>1. picks' \in Nat /\ stage' = "HOLDS_CERT" /\ drawn' = <<>> /\ onBench' = onBench
    BY <1>7 DEF AfterSkills, Begin
  <2> QED BY <2>1, LabelBegins DEF EdgesHold
<1>8. CASE HoldsCert
  BY <1>8, HeldCert, CertAdded DEF EdgesHold, Labels
<1>9. CASE AfterCerts
  <2>1. picks' \in Nat /\ stage' = "SPEAKS" /\ drawn' = <<>> /\ onBench' = onBench
    BY <1>9 DEF AfterCerts, Begin
  <2> QED BY <2>1, LabelBegins DEF EdgesHold
<1>10. CASE Speaks
  BY <1>10, LanguagesDrawn DEF Speaks, EdgesHold, Labels
<1>11. CASE AfterLanguages
  <2>1. picks' \in Nat /\ stage' = "WORKED_FOR" /\ drawn' = <<>> /\ onBench' = onBench
    BY <1>11 DEF AfterLanguages, Begin
  <2> QED BY <2>1, LabelBegins DEF EdgesHold
<1>12. CASE WorkedFor
  BY <1>12, EngagementAdded DEF WorkedFor, Draw, EdgesHold, Labels
<1>13. CASE UNCHANGED workforce
  BY <1>13 DEF workforce, EdgesHold, StudiesHold, SkillsHold, CertsHold, TonguesHold, WorkHolds, Distinct, Doubled
<1> QED BY <1>1, <1>2, <1>3, <1>4, <1>5, <1>6, <1>7, <1>8, <1>9, <1>10, <1>11, <1>12, <1>13 DEF GenerateNext

-----------------------------------------------------------------------------
(* The theorems.                                                           *)

\* The quotas, the bench and the edges of every label are what the generators intend.
THEOREM WorkforceIsSound == GenerateSpec => [](QuotasHold /\ EdgesHold)
<1>1. GenerateInit => QuotasHold /\ EdgesHold
  <2> HAVE GenerateInit
  <2>1. counts \in Seq(Nat) /\ Len(counts) \in Nat
    BY Tables DEF GenerateInit
  <2>2. benched = <<>> /\ Len(benched) = 0 /\ benched \in Seq(Nat) /\ DOMAIN benched = {}
    BY DEF GenerateInit
  <2>3. QuotasHold
    BY <2>1, <2>2 DEF GenerateInit, QuotasHold, Labels
  <2>4. EdgesHold
    BY DEF GenerateInit, EdgesHold, Labels
  <2> QED BY <2>3, <2>4
<1>2. QuotasHold /\ EdgesHold /\ [GenerateNext]_workforce => (QuotasHold /\ EdgesHold)'
  BY QuotasStep, EdgesStep
<1> QED BY <1>1, <1>2, PTL DEF GenerateSpec

LEMMA BenchIsFilled == ASSUME QuotasHold PROVE BenchFilledUnless
<1> SUFFICES ASSUME total = SumOf(counts, Len(counts)), ~(stage # "quotas" /\ Last(quota) \notin 0..Last(counts))
             PROVE  stage # "raised" /\ (Len(benched) = Len(counts) => SumOf(benched, Len(benched)) = BenchCount)
  BY DEF BenchFilledUnless
<1>1. Len(benched) \in Nat /\ Len(counts) \in Nat \ {0} /\ DOMAIN benched = 1..Len(benched)
  BY Tables, LenProperties DEF QuotasHold
<1>2. CASE stage = "quotas"
  BY <1>1, <1>2 DEF QuotasHold
<1>3. CASE stage # "quotas"
  <2>1. /\ \A c \in 1..Len(counts) : Given(c) = quota[c] /\ Given(c) \in Nat
        /\ SumOf(quota, Len(counts)) = BenchCount
    BY <1>3, QuotasGiven
  <2>2. stage # "raised"
    <3> SUFFICES ASSUME stage = "raised" PROVE FALSE
      OBVIOUS
    <3>1. Len(benched) < Len(counts) /\ Given(Len(benched) + 1) < 0
      BY DEF QuotasHold
    <3>2. Len(benched) + 1 \in 1..Len(counts)
      BY <1>1, <3>1
    <3> QED BY <2>1, <3>1, <3>2
  <2>3. ASSUME Len(benched) = Len(counts) PROVE SumOf(benched, Len(benched)) = BenchCount
    <3>1. AgreeUpTo(benched, quota, Len(counts))
      BY <1>1, <2>1, <2>3 DEF QuotasHold, AgreeUpTo
    <3> QED BY <1>1, <2>1, <2>3, <3>1, SumOfEquals
  <2> QED BY <2>2, <2>3
<1> QED BY <1>2, <1>3

\* The quotas add up to the bench and no country is asked for a negative number, when the
\* countries add up to EMPLOYEE_COUNT and the last one bears what rounding leaves to it.
THEOREM BenchIsFilledUnless == GenerateSpec => []BenchFilledUnless
<1>1. QuotasHold /\ EdgesHold => BenchFilledUnless
  BY BenchIsFilled
<1> QED BY <1>1, WorkforceIsSound, PTL

LEMMA TwicePlaced == ASSUME NEW name, Doubled(name) PROVE Cardinality({k \in DOMAIN SkillNames : SkillNames[k] = name}) > 1
<1> DEFINE places == {k \in DOMAIN SkillNames : SkillNames[k] = name}
<1>1. PICK k, l \in DOMAIN SkillNames : k # l /\ SkillNames[k] = name /\ SkillNames[l] = name
  BY DEF Doubled
<1>2. IsFiniteSet(places)
  BY SkillsAssumption, LenProperties, FS_Interval, FS_Subset
<1>3. k \in places /\ l \in places \ {k}
  BY <1>1
<1> HIDE DEF places
<1>4. IsFiniteSet(places \ {k}) /\ Cardinality(places) \in Nat /\ Cardinality(places \ {k}) \in Nat
  BY <1>2, FS_Subset, FS_CardinalityType
<1>5. Cardinality(places \ {k}) = Cardinality(places) - 1 /\ Cardinality(places \ {k}) # 0
  BY <1>2, <1>3, <1>4, FS_RemoveElement, FS_EmptySet
<1> QED BY <1>4, <1>5 DEF places

\* No label has two edges of one employee to one target, but for the skills that two
\* domains list.
THEOREM OneEdgePerTarget == GenerateSpec => []OneEdgePerTargetUnless
<1>1. ASSUME QuotasHold, EdgesHold PROVE OneEdgePerTargetUnless
  <2> SUFFICES ASSUME NEW i \in DOMAIN drawn, NEW j \in DOMAIN drawn, i # j, drawn[i].to = drawn[j].to
               PROVE  stage = "HAS_SKILL" /\ Cardinality({k \in DOMAIN SkillNames : SkillNames[k] = drawn[i].to}) > 1
    BY DEF OneEdgePerTargetUnless
  <2>1. stage \in Labels
    BY <1>1 DEF EdgesHold
  <2>2. stage # "STUDIED_AT"
    <3> SUFFICES ASSUME stage = "STUDIED_AT" PROVE FALSE
      OBVIOUS
    <3>1. DOMAIN drawn = 1..Len(drawn) /\ Len(drawn) \in Nat /\ Len(drawn) <= 1
      BY <1>1, LenProperties DEF EdgesHold, StudiesHold
    <3> QED BY <3>1
  <2>3. stage = "HAS_SKILL"
    BY <1>1, <2>1, <2>2 DEF EdgesHold, Labels, CertsHold, TonguesHold, WorkHolds, Distinct
  <2>4. Doubled(drawn[i].to)
    BY <1>1, <2>3 DEF EdgesHold, SkillsHold
  <2> QED BY <2>3, <2>4, TwicePlaced
<1> QED BY <1>1, WorkforceIsSound, PTL

\* The edges of an employee agree with the bench, with one another and with the year.
THEOREM EdgesFit == GenerateSpec => []EdgesFitEmployee
<1>1. ASSUME QuotasHold, EdgesHold PROVE EdgesFitEmployee
  <2>1. ASSUME stage = "WORKED_FOR", drawn # <<>>
        PROVE  /\ {i \in DOMAIN drawn : drawn[i].end = NoEnd} = (IF onBench THEN {} ELSE {1})
               /\ \A i \in DOMAIN drawn : drawn[i].end # NoEnd => drawn[i].start < drawn[i].end
    <3>1. WorkHolds /\ onBench \in BOOLEAN
      BY <1>1, <2>1 DEF EdgesHold
    <3>2. 1 \in DOMAIN drawn
      <4>1. DOMAIN drawn = 1..Len(drawn) /\ Len(drawn) \in Nat /\ Len(drawn) # 0
        BY <2>1, <3>1, LenProperties, EmptySeq DEF WorkHolds
      <4> QED BY <4>1
    <3>3. \A i \in DOMAIN drawn : drawn[i].start \in Nat /\ drawn[i].end \in Nat
      <4>1. \A i \in DOMAIN drawn : drawn[i] \in WorkEdges
        BY <3>1, ElementOfSeq, LenProperties DEF WorkHolds
      <4> QED BY <4>1 DEF WorkEdges
    <3> QED BY <3>1, <3>2, <3>3 DEF WorkHolds, NoEnd
  <2>2. stage = "HOLDS_CERT" => CertsHold
    BY <1>1 DEF EdgesHold
  <2>3. ASSUME stage = "STUDIED_AT" PROVE hired < ThisYear /\ \A i \in DOMAIN drawn : drawn[i].year \in 1990..hired
    <3>1. StudiesHold
      BY <1>1, <2>3 DEF EdgesHold
    <3> DEFINE edges == [to : {"university"}, year : 1990..hired]
    <3>2. \A i \in DOMAIN drawn : drawn[i] \in edges
      <4>1. drawn \in Seq(edges)
        BY <3>1 DEF StudiesHold
      <4> HIDE DEF edges
      <4> QED BY <4>1, ElementOfSeq, LenProperties
    <3> QED BY <3>1, <3>2 DEF StudiesHold, ThisYear
  <2>4. ASSUME stage = "raised" PROVE quota # <<>> /\ Len(benched) < Len(counts)
    <3>1. /\ quota = [c \in DOMAIN counts |-> QuotaOf(c)] /\ Len(benched) < Len(counts)
          /\ 1 \in DOMAIN counts
      <4>1. Len(counts) \in Nat \ {0} /\ DOMAIN counts = 1..Len(counts)
        BY <1>1, Tables DEF QuotasHold
      <4> QED BY <1>1, <2>4, <4>1 DEF QuotasHold
    <3>2. DOMAIN quota # {}
      BY <3>1
    <3> QED BY <3>1, <3>2
  <2> QED BY <2>1, <2>2, <2>3, <2>4 DEF EdgesFitEmployee, CertsHold
<1> QED BY <1>1, WorkforceIsSound, PTL

=============================================================================
