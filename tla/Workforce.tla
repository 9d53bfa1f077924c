------------------------------- MODULE Workforce -------------------------------
(***************************************************************************)
(* The synthetic workforce of talent_data_pipeline/generators: the bench     *)
(* quotas and the employees of EmployeeGenerator.generate_all, and the edges  *)
(* EdgeGenerator draws for one of them.  A random draw is a choice; the        *)
(* weights of the draws are left out.                                        *)
(***************************************************************************)
EXTENDS Integers, SequencesExt

CONSTANTS
    CountryCounts,   \* the tables of country -> employees tried, as sequences
    Totals,          \* the values of EMPLOYEE_COUNT tried
    BenchCount,      \* 32487 in the code
    DomainSkills,    \* the names of the skills of the employee's domain, in order
    SkillNames,      \* the names of all skills, in order; a name may come twice
    Certs, Clients,  \* names of certifications and of clients (or projects)
    Natives,         \* the native languages of the employee's country
    Languages,
    JobLevels,       \* 3..14 in the code, by the skill level
    FirstYear,       \* of certificates and engagements; 2018 in the code
    MaxPicks         \* cap on the number of skills, certifications and clients

\* The sum of the first n numbers of f.
SumOf(f, n) ==
    LET sum[k \in 0..n] == IF k = 0 THEN 0 ELSE sum[k - 1] + f[k]
    IN  sum[n]

\* The tables are static and add up to 130000, of whom 32487 are on the bench.
ASSUME CountsAssumption ==
    /\ CountryCounts \subseteq Seq(Nat) \ {<<>>}
    /\ Totals \subseteq Nat \ {0}
ASSUME BenchAssumption ==
    BenchCount \in Nat /\ \A c \in CountryCounts : BenchCount <= SumOf(c, Len(c))

\* The skills of a domain are some of the list of all skills.
ASSUME SkillsAssumption ==
    /\ DomainSkills \in Seq(STRING) /\ SkillNames \in Seq(STRING)
    /\ \E e \in [DOMAIN DomainSkills -> DOMAIN SkillNames] :
           IsInjective(e) /\ \A i \in DOMAIN e : SkillNames[e[i]] = DomainSkills[i]
ASSUME YearsAssumption == JobLevels \subseteq Int /\ FirstYear \in Nat
ASSUME LanguagesAssumption == IsFiniteSet(Languages)

VARIABLES
    stage,    \* "quotas", "staff", "raised", or the edge label drawn next
    counts,   \* the table in use
    total,    \* EMPLOYEE_COUNT
    quota,    \* bench quota per country
    benched,  \* benched employees of the countries generated so far
    onBench,  \* whether the employee whose edges are drawn is on the bench
    hired,    \* the year they were hired, until STUDIED_AT is drawn
    picks,    \* how many targets the employee still gets, or 0
    drawn     \* the edges of the label at hand, in order

workforce == <<stage, counts, total, quota, benched, onBench, hired, picks, drawn>>

English == "English"
ThisYear == 2026
Least(a, b) == IF a < b THEN a ELSE b
Most(a, b) == IF a > b THEN a ELSE b

-----------------------------------------------------------------------------
(* EmployeeGenerator.                                                      *)

\* round(cnt / total * bench_count): to the nearest, halves to the even number.
Share(cnt) ==
    LET twice == 2 * cnt * BenchCount
        down == twice \div (2 * total)
        rest == twice - down * 2 * total
    IN  IF rest > total \/ (rest = total /\ down % 2 = 1) THEN down + 1 ELSE down

\* The last country takes what the others left (the mutant: its own share).
LastShareRounded(n) == Share(counts[n])
LastShare(n) == BenchCount - SumOf([c \in 1..n |-> Share(counts[c])], n - 1)
QuotaOf(c) == IF c = Len(counts) THEN LastShare(c) ELSE Share(counts[c])

GenerateInit ==
    /\ stage = "quotas"
    /\ counts \in CountryCounts
    /\ total \in Totals
    /\ quota = <<>> /\ benched = <<>> /\ drawn = <<>> /\ picks = 0
    /\ onBench = FALSE /\ hired = 0

AssignQuotas ==
    /\ stage = "quotas"
    /\ quota' = [c \in DOMAIN counts |-> QuotaOf(c)]
    /\ stage' = "staff"
    /\ UNCHANGED <<counts, total, benched, onBench, hired, picks, drawn>>

\* The next country; a sample of a negative size raises and ends the pipeline.
StaffCountry ==
    /\ stage = "staff" /\ Len(benched) < Len(counts)
    /\ LET c == Len(benched) + 1
           n == Least(quota[c], counts[c])
       IN  IF n < 0 THEN stage' = "raised" /\ UNCHANGED benched
           ELSE benched' = Append(benched, n) /\ UNCHANGED stage
    /\ UNCHANGED <<counts, total, quota, onBench, hired, picks, drawn>>

-----------------------------------------------------------------------------
(* EdgeGenerator, for an employee of either kind.                          *)

Targets == {drawn[i].to : i \in DOMAIN drawn}

\* The edges of the next label begin.
Begin(label) ==
    /\ stage' = label /\ drawn' = <<>>
    /\ UNCHANGED <<counts, total, quota, benched>>

\* An employee of a job level and some luck: at least a year of experience, hired
\* no later than last year (date_between of 2026 and 2025 would raise).  The mutant
\* takes the experience as it comes.
ExperienceAsDrawn(level, luck) == level - 2 + luck
Experience(level, luck) == Most(1, level - 2 + luck)
HireYear(experience, gap) == Most(2000, ThisYear - experience - gap)
PickEmployee ==
    /\ stage = "staff" /\ Len(benched) = Len(counts)
    /\ onBench' \in {b \in BOOLEAN : IF b THEN SumOf(benched, Len(benched)) > 0
                                     ELSE SumOf(benched, Len(benched)) < SumOf(counts, Len(counts))}
    /\ \E level \in JobLevels, luck \in -1..3, gap \in 0..2 :
           hired' = HireYear(Experience(level, luck), gap)
    /\ Begin(IF hired' > ThisYear - 1 THEN "raised" ELSE "STUDIED_AT")
    /\ picks' = 0

\* generate_studied_at: a year of graduation up to three years before they were hired.
StudiedAt ==
    /\ stage = "STUDIED_AT" /\ drawn = <<>>
    /\ \E gap \in 0..3 : drawn' = <<[to |-> "university", year |-> Most(1990, hired - gap)]>>
    /\ UNCHANGED <<stage, counts, total, quota, benched, onBench, hired, picks>>

AfterStudies ==
    /\ stage = "STUDIED_AT" /\ drawn # <<>>
    /\ Begin("HAS_SKILL")
    /\ picks' \in 1..MaxPicks
    /\ hired' = 0
    /\ UNCHANGED onBench

Draw(edge) ==
    /\ drawn' = Append(drawn, edge)
    /\ UNCHANGED <<stage, counts, total, quota, benched, onBench, hired>>

\* Every way to draw n different places, as random.sample does.
Sampled(places, n) == {p \in [1..n -> places] : IsInjective(p)}

\* generate_has_skill: one to three skills of the domain, the rest from the list of
\* all skills without the names chosen so far; the places drawn differ, the names
\* need not.
Others(chosen) == {k \in DOMAIN SkillNames : SkillNames[k] \notin Range(chosen)}
HasSkill ==
    /\ stage = "HAS_SKILL" /\ drawn = <<>>
    /\ \E n \in 1..Least(3, Len(DomainSkills)) : \E p \in Sampled(DOMAIN DomainSkills, n) :
           LET own == [i \in 1..n |-> DomainSkills[p[i]]]
               others == Others(own)
               m == IF picks > n THEN Least(picks - n, Cardinality(others)) ELSE 0
           IN  \E q \in Sampled(others, m) :
                   LET chosen == own \o [i \in 1..m |-> SkillNames[q[i]]]
                   IN  drawn' = [i \in DOMAIN chosen |-> [to |-> chosen[i], primary |-> i = 1]]
    /\ picks' = 0
    /\ UNCHANGED <<stage, counts, total, quota, benched, onBench, hired>>

AfterSkills ==
    /\ stage = "HAS_SKILL" /\ drawn # <<>>
    /\ Begin("HOLDS_CERT")
    /\ picks' \in 0..Least(MaxPicks, Cardinality(Certs))
    /\ UNCHANGED <<onBench, hired>>

\* The years of a certificate of a status; an expired one is issued a year earlier
\* if there would be no room for its expiry.
IssueYear(status, year) == IF status = "Expired" THEN Least(year, ThisYear - 2) ELSE year
ExpiryYears(status, issue) ==
    CASE status = "Expired" -> (issue + 1)..(ThisYear - 1)
      [] status = "Expiring" -> {ThisYear}
      [] status = "Valid" -> ThisYear..(ThisYear + 3)

\* randint(a, b) raises when a > b.
HoldsCert ==
    /\ stage = "HOLDS_CERT" /\ Len(drawn) < picks
    /\ \E cert \in Certs \ Targets, status \in {"Valid", "Expiring", "Expired"}, year \in FirstYear..(ThisYear - 1) :
           LET issue == IssueYear(status, year)
           IN  IF ExpiryYears(status, issue) = {}
               THEN stage' = "raised" /\ UNCHANGED <<counts, total, quota, benched, onBench, hired, drawn>>
               ELSE \E expiry \in ExpiryYears(status, issue) :
                        Draw([to |-> cert, status |-> status, issued |-> issue, expires |-> expiry])
    /\ UNCHANGED picks

AfterCerts ==
    /\ stage = "HOLDS_CERT" /\ Len(drawn) = picks
    /\ Begin("SPEAKS")
    /\ picks' \in 0..2
    /\ UNCHANGED <<onBench, hired>>

\* generate_speaks: a native language, then English if it is not the native one and
\* one more, or as many others as are wanted (the mutant forgets to remove English).
ExtraLanguagesKept(native, n) ==
    LET other == Languages \ {native}
    IN  IF n = 0 THEN {<<>>}
        ELSE IF English \in other
             THEN IF n > 1 THEN {<<English, l>> : l \in other} ELSE {<<English>>}
             ELSE {l \in [1..Least(n, Cardinality(other)) -> other] : IsInjective(l)}
ExtraLanguages(native, n) ==
    LET other == Languages \ {native}
    IN  IF n = 0 THEN {<<>>}
        ELSE IF English \in other
             THEN LET more == other \ {English}
                  IN  IF n > 1 /\ more # {} THEN {<<English, l>> : l \in more} ELSE {<<English>>}
             ELSE {l \in [1..Least(n, Cardinality(other)) -> other] : IsInjective(l)}
Speaks ==
    /\ stage = "SPEAKS" /\ drawn = <<>>
    /\ \E native \in Natives : \E extra \in ExtraLanguages(native, picks) :
           drawn' = <<[to |-> native, native |-> TRUE]>> \o [i \in DOMAIN extra |-> [to |-> extra[i], native |-> FALSE]]
    /\ picks' = 0
    /\ UNCHANGED <<stage, counts, total, quota, benched, onBench, hired>>

AfterLanguages ==
    /\ stage = "SPEAKS" /\ drawn # <<>>
    /\ Begin("WORKED_FOR")
    /\ picks' \in 1..Least(MaxPicks, Cardinality(Clients))
    /\ UNCHANGED <<onBench, hired>>

\* generate_worked_for and generate_worked_on: the first engagement of somebody who
\* is not on the bench goes on; any other one has ended.
IsCurrentFirst == drawn = <<>>
IsCurrent == drawn = <<>> /\ ~onBench
NoEnd == 0
WorkedFor ==
    /\ stage = "WORKED_FOR" /\ Len(drawn) < picks
    /\ \E client \in Clients \ Targets :
       \E start \in FirstYear..(IF IsCurrent THEN ThisYear - 1 ELSE ThisYear - 2) :
       \E end \in (IF IsCurrent THEN {NoEnd} ELSE (start + 1)..ThisYear) :
           Draw([to |-> client, start |-> start, end |-> end])
    /\ UNCHANGED picks

GenerateNext ==
    \/ AssignQuotas \/ StaffCountry \/ PickEmployee
    \/ StudiedAt \/ AfterStudies \/ HasSkill \/ AfterSkills \/ HoldsCert \/ AfterCerts
    \/ Speaks \/ AfterLanguages \/ WorkedFor

GenerateSpec == GenerateInit /\ [][GenerateNext]_workforce

-----------------------------------------------------------------------------
(* Properties.                                                             *)

\* The bench holds BenchCount employees when all countries are staffed, and the
\* generator does not raise, provided that EMPLOYEE_COUNT is what the table adds up
\* to and the last country is large enough for what rounding leaves to it: neither
\* is checked by the code.
BenchFilledUnless ==
    \/ total # SumOf(counts, Len(counts))
    \/ stage # "quotas" /\ Last(quota) \notin 0..Last(counts)
    \/ /\ stage # "raised"
       /\ Len(benched) = Len(counts) => SumOf(benched, Len(benched)) = BenchCount

\* Nobody has two edges of a label to one target, unless the target is a skill whose
\* name the reference data lists twice (Kafka and Azure Functions are).
OneEdgePerTargetUnless ==
    \A i, j \in DOMAIN drawn : i # j /\ drawn[i].to = drawn[j].to =>
        /\ stage = "HAS_SKILL"
        /\ Cardinality({k \in DOMAIN SkillNames : SkillNames[k] = drawn[i].to}) > 1

\* Whether somebody works for a client now agrees with the bench, and an engagement
\* begins before it ends; the certificates that are to have expired have; nobody is
\* hired before they graduate or in a year to come.  The generator only raises where
\* a country is staffed.
EdgesFitEmployee ==
    /\ stage = "WORKED_FOR" /\ drawn # <<>> =>
           /\ {i \in DOMAIN drawn : drawn[i].end = NoEnd} = (IF onBench THEN {} ELSE {1})
           /\ \A i \in DOMAIN drawn : drawn[i].end # NoEnd => drawn[i].start < drawn[i].end
    /\ stage = "HOLDS_CERT" => \A i \in DOMAIN drawn :
           /\ drawn[i].issued < drawn[i].expires
           /\ drawn[i].status = "Expired" <=> drawn[i].expires < ThisYear
    /\ stage = "STUDIED_AT" => hired < ThisYear /\ \A i \in DOMAIN drawn : drawn[i].year \in 1990..hired
    /\ stage = "raised" => quota # <<>> /\ Len(benched) < Len(counts)

=============================================================================
