----------------------------- MODULE FetchProofs -----------------------------
(***************************************************************************)
(* What a run of the football-data client hands on, for any leagues, any    *)
(* number of seasons and any size of page.                                  *)
(***************************************************************************)
EXTENDS Fetch, SequenceTheorems, WellFoundedInduction, TLAPS

-----------------------------------------------------------------------------
(* The plan                                                                  *)

PageType == [league : STRING \cup {""}, season : Int]

\* A set of numbers that is not empty has a least one.
LEMMA LeastNat ==
  ASSUME NEW S \in SUBSET Nat, S # {}
  PROVE  \E n \in S : \A m \in S : n <= m
<1> DEFINE Below == {ss \in Nat \X Nat : ss[1] < ss[2]}
<1>1. IsWellFoundedOn(Below, Nat)
  BY NatLessThanWellFounded DEF OpToRel
<1>2. PICK n \in S : \A m \in S : ~(<<m, n>> \in Below)
  <2> HIDE DEF Below
  <2>1. QED
    BY <1>1, WFMin
<1>3. \A m \in S : <<m, n>> \in Below <=> m < n
  OBVIOUS
<1>4. QED
  <2> HIDE DEF Below
  <2>1. \A m \in S : ~(m < n)
    BY <1>2, <1>3
  <2>2. QED
    BY <2>1

\* What the recursive function in FlattenSeq is, and that there is one.
IsFlat(f, s, n) == f = [i \in 1..n |-> IF i = 1 THEN s[i] ELSE f[i - 1] \o s[i]]

LEMMA FlatExists ==
  ASSUME NEW s, NEW n \in Nat
  PROVE  \E f : IsFlat(f, s, n)
<1> DEFINE S == {m \in Nat : ~ \E f : IsFlat(f, s, m)}
<1> SUFFICES ASSUME S # {} PROVE FALSE
  OBVIOUS
<1>1. PICK m \in S : \A k \in S : m <= k
  <2>1. S \in SUBSET Nat
    OBVIOUS
  <2> HIDE DEF S
  <2>2. QED
    BY <2>1, LeastNat
<1>2. m \in Nat
  OBVIOUS
<1>3. PICK g : m > 0 => IsFlat(g, s, m - 1)
  <2>1. CASE m > 0
    <3>1. m - 1 \in Nat /\ m - 1 \notin S
      BY <1>1, <2>1
    <3>2. QED
      BY <3>1
  <2>2. QED
    BY <2>1
<1> DEFINE h == [i \in 1..m |-> IF i < m THEN g[i]
                               ELSE IF m = 1 THEN s[m] ELSE g[m - 1] \o s[m]]
<1>4. ASSUME NEW i \in 1..m
      PROVE  h[i] = IF i = 1 THEN s[i] ELSE h[i - 1] \o s[i]
  <2>1. CASE i = m
    BY <1>2, <2>1
  <2>2. CASE i < m
    <3>1. i \in 1..(m - 1) /\ m > 0
      BY <1>2, <2>2
    <3>2. g[i] = IF i = 1 THEN s[i] ELSE g[i - 1] \o s[i]
      BY <1>3, <3>1 DEF IsFlat
    <3>3. h[i] = g[i] /\ (i # 1 => h[i - 1] = g[i - 1])
      BY <1>2, <2>2
    <3>4. QED
      BY <3>2, <3>3
  <2>3. QED
    BY <1>2, <2>1, <2>2
<1>5. IsFlat(h, s, m)
  <2>1. h = [i \in 1..m |-> h[i]]
    OBVIOUS
  <2> HIDE DEF h
  <2>2. QED
    BY <1>4, <2>1 DEF IsFlat
<1>6. QED
  BY <1>1, <1>5

\* The backfill goes back season by season.
Newest(s) == \A i, j \in 1..Len(s) : i < j => s[j].season <= s[i].season

Season(j) == [i \in DOMAIN Leagues |-> [league |-> Leagues[i], season |-> PastSeasons[j]]]

LEMMA SeasonPages ==
  ASSUME NEW j \in 1..Back
  PROVE  /\ Season(j) \in Seq(PageType)
         /\ \A i \in 1..Len(Season(j)) : Season(j)[i].season = Year - j
<1>1. DOMAIN Leagues = 1..Len(Leagues) /\ Len(Leagues) \in Nat
      /\ \A i \in 1..Len(Leagues) : Leagues[i] \in STRING
  BY LeaguesAssumption
<1>2. PastSeasons[j] = Year - j /\ Year - j \in Int
  BY NumbersAssumption DEF PastSeasons
<1>3. \A i \in 1..Len(Leagues) : Season(j)[i] \in PageType /\ Season(j)[i].season = Year - j
  BY <1>1, <1>2 DEF Season, PageType
<1>4. Season(j) = [i \in 1..Len(Leagues) |-> Season(j)[i]]
  BY <1>1 DEF Season
<1> HIDE DEF Season
<1>5. Season(j) \in Seq(PageType) /\ Len(Season(j)) = Len(Leagues)
  BY <1>1, <1>3, <1>4
<1>6. QED
  BY <1>3, <1>5

LEMMA SeasonOfPage ==
  ASSUME NEW s \in Seq(PageType), NEW i \in 1..Len(s)
  PROVE  s[i].season \in Int
<1>1. s[i] \in PageType
  BY ElementOfSeq
<1>2. QED
  BY <1>1 DEF PageType

LEMMA NewestAppended ==
  ASSUME NEW s \in Seq(PageType), NEW t \in Seq(PageType), NEW y \in Int,
         Newest(s), \A i \in 1..Len(s) : s[i].season > y,
         \A i \in 1..Len(t) : t[i].season = y
  PROVE  /\ s \o t \in Seq(PageType) /\ Newest(s \o t)
         /\ \A i \in 1..Len(s \o t) : (s \o t)[i].season >= y
<1>1. /\ s \o t \in Seq(PageType) /\ Len(s \o t) = Len(s) + Len(t)
      /\ Len(s) \in Nat /\ Len(t) \in Nat
      /\ \A i \in 1..Len(s \o t) :
           (s \o t)[i] = IF i <= Len(s) THEN s[i] ELSE t[i - Len(s)]
  BY ConcatProperties, LenProperties
<1>2. ASSUME NEW i \in 1..Len(s \o t)
      PROVE  IF i <= Len(s) THEN (s \o t)[i] = s[i] /\ i \in 1..Len(s)
                            ELSE (s \o t)[i].season = y
  <2>1. CASE i <= Len(s)
    BY <1>1, <2>1
  <2>2. CASE ~(i <= Len(s))
    <3>1. i - Len(s) \in 1..Len(t) /\ (s \o t)[i] = t[i - Len(s)]
      BY <1>1, <2>2
    <3>2. QED
      BY <2>2, <3>1
  <2>3. QED
    BY <2>1, <2>2
<1>3. \A i \in 1..Len(s) : s[i].season \in Int
  BY SeasonOfPage
<1>4. \A i \in 1..Len(s \o t) : (s \o t)[i].season >= y
  BY <1>2, <1>3
<1>5. ASSUME NEW i \in 1..Len(s \o t), NEW j \in 1..Len(s \o t), i < j
      PROVE  (s \o t)[j].season <= (s \o t)[i].season
  <2>1. CASE j <= Len(s)
    BY <1>1, <1>2, <1>5, <2>1 DEF Newest
  <2>2. CASE ~(j <= Len(s))
    BY <1>2, <1>4, <2>2
  <2>3. QED
    BY <2>1, <2>2
<1>6. QED
  BY <1>1, <1>4, <1>5 DEF Newest

LEMMA Backfill ==
  ASSUME NEW mon
  PROVE  Plan("backfill", mon) \in Seq(PageType) /\ Newest(Plan("backfill", mon))
<1> DEFINE seqs == [j \in 1..Back |-> Season(j)]
           flat == CHOOSE f : IsFlat(f, seqs, Back)
           Good(j) == /\ flat[j] \in Seq(PageType) /\ Newest(flat[j])
                      /\ \A i \in 1..Len(flat[j]) : flat[j][i].season >= Year - j
<1>1. Back \in Nat /\ Back > 0 /\ Len(seqs) = Back /\ Year \in Nat
  BY NumbersAssumption
<1>2. Plan("backfill", mon) = flat[Back]
  BY <1>1 DEF Plan, FlattenSeq, IsFlat, Season
<1>3. \A j \in 1..Back : flat[j] = IF j = 1 THEN Season(j) ELSE flat[j - 1] \o Season(j)
  <2>1. IsFlat(flat, seqs, Back)
    BY <1>1, FlatExists
  <2>2. \A j \in 1..Back : seqs[j] = Season(j)
    OBVIOUS
  <2> HIDE DEF flat, seqs
  <2>3. QED
    BY <2>1, <2>2 DEF IsFlat
<1> DEFINE S == {j \in 1..Back : ~Good(j)}
<1>4. S = {}
  <2> SUFFICES ASSUME S # {} PROVE FALSE
    OBVIOUS
  <2>1. PICK j \in S : \A k \in S : j <= k
    <3>1. S \in SUBSET Nat
      BY <1>1
    <3> HIDE DEF S
    <3>2. QED
      BY <3>1, LeastNat
  <2>2. j \in 1..Back /\ ~Good(j)
    OBVIOUS
  <2>3. /\ Season(j) \in Seq(PageType) /\ Year - j \in Int
        /\ \A i \in 1..Len(Season(j)) : Season(j)[i].season = Year - j
    BY <1>1, <2>2, SeasonPages
  <2> HIDE DEF flat
  <2>4. CASE j = 1
    <3>1. flat[j] = Season(j)
      BY <1>3, <2>2, <2>4
    <3>2. Newest(Season(j))
      BY <2>3 DEF Newest
    <3>3. QED
      BY <2>2, <2>3, <3>1, <3>2
  <2>5. CASE j # 1
    <3>1. j - 1 \in 1..Back /\ j - 1 \notin S
      BY <1>1, <2>1, <2>2, <2>5
    <3>2. Good(j - 1)
      BY <3>1
    <3>3. \A i \in 1..Len(flat[j - 1]) : flat[j - 1][i].season > Year - j
      <4>1. \A i \in 1..Len(flat[j - 1]) : flat[j - 1][i].season \in Int
        BY <3>2, SeasonOfPage
      <4>2. QED
        BY <1>1, <2>2, <3>2, <4>1
    <3>4. flat[j] = flat[j - 1] \o Season(j)
      BY <1>3, <2>2, <2>5
    <3>5. Good(j)
      BY <2>3, <3>2, <3>3, <3>4, NewestAppended
    <3>6. QED
      BY <2>2, <3>5
  <2>6. QED
    BY <2>4, <2>5
<1>5. Good(Back)
  <2> HIDE DEF Good
  <2>1. Back \in 1..Back
    BY <1>1
  <2>2. QED
    BY <1>4, <2>1
<1>6. QED
  BY <1>2, <1>5

LEMMA Daily ==
  ASSUME NEW mon \in 1..12
  PROVE  Plan("daily", mon) \in Seq(PageType)
<1> DEFINE t == [i \in DOMAIN Leagues |-> [league |-> Leagues[i], season |-> SeasonStart(mon)]]
<1>1. DOMAIN Leagues = 1..Len(Leagues) /\ Len(Leagues) \in Nat
      /\ \A i \in 1..Len(Leagues) : Leagues[i] \in STRING
  BY LeaguesAssumption
<1>2. SeasonStart(mon) \in Int
  BY NumbersAssumption DEF SeasonStart
<1>3. \A i \in 1..Len(Leagues) : t[i] \in PageType
  BY <1>1, <1>2 DEF PageType
<1>4. t = [i \in 1..Len(Leagues) |-> t[i]]
  BY <1>1
<1>5. t \in Seq(PageType)
  <2> HIDE DEF t
  <2>1. QED
    BY <1>1, <1>3, <1>4
<1>6. <<Competitions>> \in Seq(PageType)
  <2>1. Competitions \in PageType
    BY DEF Competitions, PageType
  <2>2. QED
    BY <2>1
<1>7. Plan("daily", mon) = <<Competitions>> \o t
  BY DEF Plan
<1>8. QED
  <2> HIDE DEF t
  <2>1. QED
    BY <1>5, <1>6, <1>7, ConcatProperties

-----------------------------------------------------------------------------
(* What has been read                                                        *)

\* The fixtures of the first n pages of a plan.
Read(s, n) == UNION {ToSet(Fixtures(s[i], PageSize)) : i \in 1..n}

WholeIn(p, read) == {m \in read : m.page = p} = ToSet(Fixtures(p, PageSize))

LEMMA FullPage == PageSize \in 0..PageSize
BY NumbersAssumption

LEMMA FixturesOfPage ==
  ASSUME NEW p, NEW n \in 0..PageSize
  PROVE  /\ Fixtures(p, n) \in Seq([page : {p}, place : 1..PageSize])
         /\ \A m \in ToSet(Fixtures(p, n)) : m.page = p
         /\ ToSet(Fixtures(p, n)) \subseteq ToSet(Fixtures(p, PageSize))
<1>1. n \in Nat /\ PageSize \in Nat /\ 1..n \subseteq 1..PageSize
  BY NumbersAssumption
<1>2. CASE p = Competitions
  BY <1>2 DEF Fixtures, ToSet
<1>3. CASE p # Competitions
  <2>1. Fixtures(p, n) = [i \in 1..n |-> [page |-> p, place |-> i]]
        /\ Fixtures(p, PageSize) = [i \in 1..PageSize |-> [page |-> p, place |-> i]]
    BY <1>3 DEF Fixtures
  <2>2. Fixtures(p, n) \in Seq([page : {p}, place : 1..PageSize])
    BY <1>1, <2>1
  <2>3. \A m \in ToSet(Fixtures(p, n)) : m.page = p
    BY <2>1 DEF ToSet
  <2>4. ToSet(Fixtures(p, n)) \subseteq ToSet(Fixtures(p, PageSize))
    BY <1>1, <2>1 DEF ToSet
  <2>5. QED
    BY <2>2, <2>3, <2>4
<1>4. QED
  BY <1>2, <1>3

LEMMA ReadIsWhole ==
  ASSUME NEW s \in Seq(PageType), NEW read, NEW k \in 0..Len(s),
         Read(s, k) \subseteq read, read \subseteq Read(s, Len(s)),
         NEW i \in 1..k
  PROVE  WholeIn(s[i], read)
<1>1. Len(s) \in Nat /\ i \in 1..Len(s)
  BY LenProperties
<1>2. \A p : \A m \in ToSet(Fixtures(p, PageSize)) : m.page = p
  BY FixturesOfPage, FullPage
<1>3. ToSet(Fixtures(s[i], PageSize)) \subseteq read
  BY Zenon DEF Read
<1>4. ASSUME NEW m \in read, m.page = s[i] PROVE m \in ToSet(Fixtures(s[i], PageSize))
  <2>1. PICK j \in 1..Len(s) : m \in ToSet(Fixtures(s[j], PageSize))
    BY Zenon DEF Read
  <2>2. m.page = s[j]
    BY <1>2, <2>1
  <2>3. QED
    BY <1>4, <2>1, <2>2
<1>5. QED
  BY <1>2, <1>3, <1>4 DEF WholeIn

LEMMA ReadOn ==
  ASSUME NEW s \in Seq(PageType), NEW k \in 0..(Len(s) - 1)
  PROVE  Read(s, k + 1) = Read(s, k) \cup ToSet(Fixtures(s[k + 1], PageSize))
<1>1. 1..(k + 1) = (1..k) \cup {k + 1}
  BY LenProperties
<1>2. QED
  BY <1>1, Zenon DEF Read

LEMMA ReadMore ==
  ASSUME NEW s \in Seq(PageType), NEW k \in 0..Len(s), NEW j \in k..Len(s)
  PROVE  Read(s, k) \subseteq Read(s, j)
<1>1. 1..k \subseteq 1..j
  BY LenProperties
<1>2. QED
  BY <1>1, Zenon DEF Read

\* Read page by page and cut short, a plan that goes back season by season leaves
\* the newest seasons whole.
LEMMA CutShort ==
  ASSUME NEW s \in Seq(PageType), Newest(s), NEW read, NEW k \in 0..Len(s), NEW n \in 0..Len(s),
         n <= k + 1, Read(s, k) \subseteq read, read \subseteq Read(s, n)
  PROVE  /\ \A m \in read : \A i \in 1..Len(s) :
              s[i].season > m.page.season => WholeIn(s[i], read)
         /\ k < Len(s) => \A i \in 1..Len(s) :
              s[i].season > s[k + 1].season => WholeIn(s[i], read)
<1>1. Len(s) \in Nat /\ \A i \in 1..Len(s) : s[i].season \in Int
  BY LenProperties, SeasonOfPage
<1>2. read \subseteq Read(s, Len(s))
  BY <1>1, ReadMore
<1>3. ASSUME NEW i \in 1..Len(s), NEW j \in 1..Len(s), j <= k + 1, s[i].season > s[j].season
      PROVE  WholeIn(s[i], read)
  <2>1. ~(j < i) /\ i # j
    BY <1>1, <1>3 DEF Newest
  <2>2. i \in 1..k
    BY <1>1, <1>3, <2>1
  <2>3. QED
    BY <1>2, <2>2, ReadIsWhole
<1>4. ASSUME NEW m \in read, NEW i \in 1..Len(s), s[i].season > m.page.season
      PROVE  WholeIn(s[i], read)
  <2>1. PICK j \in 1..n : m \in ToSet(Fixtures(s[j], PageSize))
    BY Zenon DEF Read
  <2>2. m.page = s[j]
    BY <2>1, FixturesOfPage, FullPage
  <2>3. j \in 1..Len(s) /\ j <= k + 1
    BY <1>1, <2>1
  <2>4. QED
    BY <1>3, <1>4, <2>2, <2>3
<1>5. k < Len(s) => k + 1 \in 1..Len(s)
  BY <1>1
<1>6. QED
  BY <1>1, <1>3, <1>4, <1>5

-----------------------------------------------------------------------------
(* The inductive invariant                                                   *)

\* While a run goes on it holds every page it has asked for, and nothing else.
ReadSoFar ==
  Running => ToSet(matches) = Read(Pages, page - 1) /\ denied = {}

FInv == TypeOK /\ ReadSoFar /\ DailyAllOrNothing /\ NewestSeasonsKept

LEMMA PagesPlanned ==
  ASSUME kind \in {"daily", "backfill"}, month \in 1..12
  PROVE  /\ Pages \in Seq(PageType) /\ Len(Pages) \in Nat /\ DOMAIN Pages = 1..Len(Pages)
         /\ kind = "backfill" => Newest(Pages)
         /\ Asked = {Pages[i] : i \in 1..Len(Pages)}
<1>1. Pages \in Seq(PageType) /\ (kind = "backfill" => Newest(Pages))
  BY Daily, Backfill DEF Pages
<1>2. Len(Pages) \in Nat /\ DOMAIN Pages = 1..Len(Pages)
  BY <1>1, LenProperties
<1>3. QED
  BY <1>1, <1>2 DEF Asked, ToSet

LEMMA ToSetConcat ==
  ASSUME NEW S, NEW s \in Seq(S), NEW t \in Seq(S)
  PROVE  ToSet(s \o t) = ToSet(s) \cup ToSet(t)
<1>1. /\ s \o t \in Seq(S) /\ Len(s \o t) = Len(s) + Len(t)
      /\ Len(s) \in Nat /\ Len(t) \in Nat
      /\ \A i \in 1..Len(s) + Len(t) :
           (s \o t)[i] = IF i <= Len(s) THEN s[i] ELSE t[i - Len(s)]
  BY ConcatProperties, LenProperties
<1>2. DOMAIN s = 1..Len(s) /\ DOMAIN t = 1..Len(t) /\ DOMAIN (s \o t) = 1..Len(s) + Len(t)
  BY <1>1, LenProperties
<1>3. ASSUME NEW i \in DOMAIN s PROVE s[i] \in ToSet(s \o t)
  <2>1. i \in DOMAIN (s \o t) /\ (s \o t)[i] = s[i]
    BY <1>1, <1>2
  <2>2. QED
    BY <2>1 DEF ToSet
<1>4. ASSUME NEW i \in DOMAIN t PROVE t[i] \in ToSet(s \o t)
  <2>1. /\ i + Len(s) \in DOMAIN (s \o t) /\ ~(i + Len(s) <= Len(s))
        /\ (i + Len(s)) - Len(s) = i
    BY <1>1, <1>2
  <2>2. (s \o t)[i + Len(s)] = t[i]
    BY <1>1, <1>2, <2>1
  <2>3. QED
    BY <2>1, <2>2 DEF ToSet
<1>5. ASSUME NEW i \in DOMAIN (s \o t) PROVE (s \o t)[i] \in ToSet(s) \cup ToSet(t)
  <2>1. CASE i <= Len(s)
    <3>1. i \in DOMAIN s /\ (s \o t)[i] = s[i]
      BY <1>1, <1>2, <2>1
    <3>2. QED
      BY <3>1 DEF ToSet
  <2>2. CASE ~(i <= Len(s))
    <3>1. i - Len(s) \in DOMAIN t /\ (s \o t)[i] = t[i - Len(s)]
      BY <1>1, <1>2, <2>2
    <3>2. QED
      BY <3>1 DEF ToSet
  <2>3. QED
    BY <2>1, <2>2
<1>6. ToSet(s \o t) \subseteq ToSet(s) \cup ToSet(t)
  BY <1>5 DEF ToSet
<1>7. ToSet(s) \cup ToSet(t) \subseteq ToSet(s \o t)
  <2>1. ToSet(s) \subseteq ToSet(s \o t)
    BY <1>3, Zenon DEF ToSet
  <2>2. ToSet(t) \subseteq ToSet(s \o t)
    BY <1>4, Zenon DEF ToSet
  <2>3. QED
    BY <2>1, <2>2
<1>8. QED
  BY <1>6, <1>7

Fixture == [page : Asked, place : 1..PageSize]

\* Some or all of the fixtures of the page a run is at, added to those it has.
LEMMA Added ==
  ASSUME TypeOK, ReadSoFar, Running, page <= Len(Pages), NEW n \in 0..PageSize
  PROVE  LET kept == matches \o Fixtures(Pages[page], n) IN
         /\ kept \in Seq(Fixture)
         /\ Read(Pages, page - 1) \subseteq ToSet(kept)
         /\ ToSet(kept) \subseteq Read(Pages, page)
         /\ n = PageSize => ToSet(kept) = Read(Pages, page)
<1> DEFINE p == Pages[page]
           kept == matches \o Fixtures(p, n)
<1>1. /\ Pages \in Seq(PageType) /\ Len(Pages) \in Nat /\ page \in 1..Len(Pages)
      /\ page - 1 \in 0..(Len(Pages) - 1) /\ (page - 1) + 1 = page
      /\ p \in Asked
  <2>1. /\ Pages \in Seq(PageType) /\ Len(Pages) \in Nat
        /\ Asked = {Pages[i] : i \in 1..Len(Pages)}
    BY PagesPlanned DEF TypeOK
  <2>2. page \in 1..Len(Pages)
    <3>1. page \in 1..Len(Pages) + 1
      BY DEF TypeOK
    <3>2. QED
      BY <2>1, <3>1
  <2>3. QED
    BY <2>1, <2>2
<1>2. Read(Pages, page) = Read(Pages, page - 1) \cup ToSet(Fixtures(p, PageSize))
  BY <1>1, ReadOn
<1>3. /\ Fixtures(p, n) \in Seq([page : {p}, place : 1..PageSize])
      /\ ToSet(Fixtures(p, n)) \subseteq ToSet(Fixtures(p, PageSize))
  BY FixturesOfPage
<1>4. matches \in Seq(Fixture) /\ ToSet(matches) = Read(Pages, page - 1)
  BY DEF TypeOK, ReadSoFar, Fixture
<1>5. Fixtures(p, n) \in Seq(Fixture)
  <2>1. [page : {p}, place : 1..PageSize] \subseteq Fixture
    BY <1>1 DEF Fixture
  <2>2. QED
    BY <1>3, <2>1, SeqMonotonic
<1>6. kept \in Seq(Fixture) /\ ToSet(kept) = ToSet(matches) \cup ToSet(Fixtures(p, n))
  BY <1>4, <1>5, ToSetConcat, ConcatProperties
<1>7. QED
  BY <1>2, <1>3, <1>4, <1>6

\* The backfill ends with what it has read.
LEMMA StopKeeps ==
  ASSUME FInv, Running, NEW kept \in Seq(Fixture), kind = "backfill",
         NEW n \in 0..Len(Pages), n <= page,
         Read(Pages, page - 1) \subseteq ToSet(kept), ToSet(kept) \subseteq Read(Pages, n),
         Stop(kept), UNCHANGED <<kind, month, page, attempt>>,
         denied' \subseteq {page} \cap DOMAIN Pages
  PROVE  FInv'
<1>1. /\ Pages \in Seq(PageType) /\ Len(Pages) \in Nat /\ DOMAIN Pages = 1..Len(Pages)
      /\ Newest(Pages) /\ Asked = {Pages[i] : i \in 1..Len(Pages)}
      /\ page \in 1..Len(Pages) + 1
  BY PagesPlanned DEF FInv, TypeOK
<1>2. Pages' = Pages /\ Asked' = Asked
  BY DEF Pages, Asked
<1>3. matches' = kept /\ outcome' \in {"none", "returned"}
  BY DEF Stop, End
<1>4. TypeOK'
  BY <1>1, <1>2, <1>3 DEF FInv, TypeOK, Fixture
<1>5. ReadSoFar' /\ DailyAllOrNothing'
  BY <1>3 DEF ReadSoFar, Running, DailyAllOrNothing
<1> DEFINE k == page - 1
<1>6. k \in 0..Len(Pages) /\ n <= k + 1 /\ k + 1 = page
  BY <1>1
<1>7. /\ \A m \in ToSet(kept) : \A i \in 1..Len(Pages) :
           Pages[i].season > m.page.season => WholeIn(Pages[i], ToSet(kept))
      /\ page - 1 < Len(Pages) => \A i \in 1..Len(Pages) :
           Pages[i].season > Pages[page].season => WholeIn(Pages[i], ToSet(kept))
  BY <1>1, <1>6, CutShort
<1>8. \A p : Whole(p)' <=> WholeIn(p, ToSet(kept))
  BY <1>3 DEF Whole, Kept, WholeIn
<1>9. NewestSeasonsKept'
  <2>1. \A m \in ToSet(kept) : \A p \in Asked : p.season > m.page.season => Whole(p)'
    BY <1>1, <1>7, <1>8
  <2>2. \A i \in denied' : \A p \in Asked : p.season > Pages[i].season => Whole(p)'
    <3> SUFFICES ASSUME NEW i \in denied' PROVE \A p \in Asked : p.season > Pages[i].season => Whole(p)'
      OBVIOUS
    <3>1. i = page /\ page - 1 < Len(Pages)
      BY <1>1
    <3>2. QED
      BY <1>1, <1>7, <1>8, <3>1
  <2>3. QED
    BY <1>2, <1>3, <2>1, <2>2 DEF NewestSeasonsKept
<1>10. QED
  BY <1>4, <1>5, <1>9 DEF FInv

LEMMA RaiseKeeps ==
  ASSUME FInv, Running, page <= Len(Pages), NEW kept \in Seq(Fixture),
         Read(Pages, page - 1) \subseteq ToSet(kept), ToSet(kept) \subseteq Read(Pages, page),
         Raise(kept), UNCHANGED <<kind, month, page, attempt>>, denied' \subseteq {page}
  PROVE  FInv'
<1>1. Len(Pages) \in Nat /\ page \in 1..Len(Pages) /\ DOMAIN Pages = 1..Len(Pages)
  <2>1. Len(Pages) \in Nat /\ DOMAIN Pages = 1..Len(Pages)
    BY PagesPlanned DEF FInv, TypeOK
  <2>2. page \in 1..Len(Pages) + 1
    BY DEF FInv, TypeOK
  <2>3. QED
    BY <2>1, <2>2
<1>2. CASE kind = "daily"
  <2>1. outcome' = "raised" /\ matches' = <<>>
    BY <1>2 DEF Raise, End
  <2>2. Pages' = Pages /\ Asked' = Asked
    BY DEF Pages, Asked
  <2>3. TypeOK'
    <3>1. denied' \subseteq DOMAIN Pages
      BY <1>1
    <3>2. matches' \in Seq([page : Asked, place : 1..PageSize])
      BY <2>1
    <3>3. page' \in 1..Len(Pages) + 1 /\ page' = page
      BY DEF FInv, TypeOK
    <3>4. QED
      BY <2>1, <2>2, <3>1, <3>2, <3>3 DEF FInv, TypeOK
  <2>4. QED
    BY <1>2, <2>1, <2>3 DEF FInv, ReadSoFar, Running, DailyAllOrNothing, NewestSeasonsKept
<1>3. CASE kind = "backfill"
  BY <1>1, <1>3, StopKeeps DEF Raise
<1>4. QED
  BY <1>2, <1>3 DEF FInv, TypeOK

LEMMA Initially == Init => FInv
<1> SUFFICES ASSUME Init PROVE FInv
  OBVIOUS
<1>1. Len(Pages) \in Nat
  BY PagesPlanned DEF Init
<1>2. TypeOK
  <2>1. page = 1 /\ attempt = 1 /\ Attempts \in Nat \ {0}
    BY NumbersAssumption DEF Init
  <2>2. page \in 1..Len(Pages) + 1 /\ attempt \in 1..Attempts
    BY <1>1, <2>1
  <2>3. matches \in Seq([page : Asked, place : 1..PageSize])
    <3>1. matches = <<>>
      BY DEF Init
    <3>2. QED
      BY <3>1
  <2>4. QED
    BY <2>2, <2>3 DEF Init, TypeOK
<1>3. ToSet(<<>>) = {} /\ Read(Pages, 0) = {}
  <2>1. 1..0 = {}
    OBVIOUS
  <2>2. QED
    BY <2>1 DEF ToSet, Read
<1>4. ReadSoFar
  <2>1. page = 1 /\ matches = <<>> /\ denied = {}
    BY DEF Init
  <2>2. page - 1 = 0
    BY <2>1
  <2>3. QED
    BY <1>3, <2>1, <2>2 DEF ReadSoFar
<1>5. QED
  BY <1>2, <1>4 DEF Init, FInv, DailyAllOrNothing, NewestSeasonsKept

LEMMA StepKeeps == FInv /\ [Next]_vars => FInv'
<1> SUFFICES ASSUME FInv, [Next]_vars PROVE FInv'
  OBVIOUS
<1>0. /\ Pages \in Seq(PageType) /\ Len(Pages) \in Nat /\ DOMAIN Pages = 1..Len(Pages)
      /\ page \in 1..Len(Pages) + 1 /\ TypeOK /\ ReadSoFar
  BY PagesPlanned DEF FInv, TypeOK
<1>1. CASE Page
  <2>1. /\ Running /\ page <= Len(Pages) /\ UNCHANGED <<kind, month, denied, outcome>>
        /\ page' = page + 1 /\ attempt' = 1
        /\ matches' = matches \o Fixtures(Pages[page], PageSize)
    BY <1>1 DEF Page, Request
  <2>2. matches' \in Seq(Fixture) /\ ToSet(matches') = Read(Pages, page)
    BY <1>0, <2>1, Added, FullPage
  <2>3. Pages' = Pages /\ Asked' = Asked
    BY <2>1 DEF Pages, Asked
  <2>4. TypeOK'
    <3>1. page' \in 1..Len(Pages') + 1 /\ attempt' \in 1..Attempts
      BY <1>0, <2>1, <2>3, NumbersAssumption
    <3>2. QED
      BY <1>0, <2>1, <2>2, <2>3, <3>1 DEF TypeOK, Fixture
  <2>5. page' - 1 = page
    BY <1>0, <2>1
  <2>6. ReadSoFar'
    BY <1>0, <2>1, <2>2, <2>3, <2>5 DEF ReadSoFar, Running
  <2>7. QED
    BY <2>1, <2>4, <2>6 DEF FInv, Running, DailyAllOrNothing, NewestSeasonsKept
<1>2. ASSUME Running, page <= Len(Pages), UNCHANGED <<kind, month, page, attempt>>,
             Raise(matches), denied' \subseteq {page}
      PROVE  FInv'
  <2>1. matches \in Seq(Fixture) /\ ToSet(matches) = Read(Pages, page - 1)
    BY <1>0, <1>2 DEF TypeOK, Fixture, ReadSoFar
  <2>2. Read(Pages, page - 1) \subseteq Read(Pages, page)
    <3>1. page - 1 \in 0..Len(Pages) /\ page \in (page - 1)..Len(Pages)
      BY <1>0, <1>2
    <3>2. QED
      BY <1>0, <3>1, ReadMore
  <2>3. QED
    BY <1>2, <2>1, <2>2, RaiseKeeps
<1>3. CASE Denied
  BY <1>0, <1>2, <1>3 DEF Denied, Request, ReadSoFar
<1>4. CASE Failed
  <2>1. CASE attempt = Attempts
    BY <1>0, <1>2, <1>4, <2>1 DEF Failed, Request, ReadSoFar
  <2>2. CASE attempt # Attempts
    <3>1. /\ Running /\ UNCHANGED <<kind, month, page, matches, outcome, denied>>
          /\ attempt' = attempt + 1
      BY <1>4, <2>2 DEF Failed, Request
    <3>2. Pages' = Pages /\ Asked' = Asked
      BY <3>1 DEF Pages, Asked
    <3>3. attempt' \in 1..Attempts
      <4>1. attempt \in 1..Attempts
        BY <1>0 DEF TypeOK
      <4>2. QED
        BY <2>2, <3>1, <4>1, NumbersAssumption
    <3>4. TypeOK'
      BY <1>0, <3>1, <3>2, <3>3 DEF TypeOK
    <3>5. QED
      BY <1>0, <3>1, <3>2, <3>4 DEF FInv, ReadSoFar, Running, DailyAllOrNothing, NewestSeasonsKept
  <2>3. QED
    BY <2>1, <2>2
<1>5. CASE Invalid
  <2>1. PICK n \in 0..PageSize - 1 : Raise(matches \o Fixtures(Pages[page], n))
    BY <1>5 DEF Invalid
  <2>2. /\ Running /\ page <= Len(Pages) /\ UNCHANGED <<kind, month, page, attempt>>
        /\ denied' = {}
    BY <1>0, <1>5 DEF Invalid, Request, ReadSoFar
  <2>3. n \in 0..PageSize
    BY <2>1, NumbersAssumption
  <2>4. QED
    BY <1>0, <2>1, <2>2, <2>3, Added, RaiseKeeps
<1>6. CASE Return
  <2>1. /\ Running /\ page = Len(Pages) + 1 /\ page - 1 = Len(Pages)
        /\ UNCHANGED <<kind, month, page, attempt, denied>>
        /\ matches \in Seq(Fixture) /\ ToSet(matches) = Read(Pages, page - 1) /\ denied = {}
    <3>1. Running /\ page > Len(Pages) /\ UNCHANGED <<kind, month, page, attempt, denied>>
      BY <1>6 DEF Return
    <3>2. page = Len(Pages) + 1 /\ page - 1 = Len(Pages)
      BY <1>0, <3>1
    <3>3. matches \in Seq(Fixture) /\ ToSet(matches) = Read(Pages, page - 1) /\ denied = {}
      BY <1>0, <3>1 DEF TypeOK, Fixture, ReadSoFar
    <3>4. QED
      BY <3>1, <3>2, <3>3
  <2>2. CASE kind = "daily"
    <3>1. outcome' = "returned" /\ matches' = matches
      BY <1>6, <2>2 DEF Return, End
    <3>2. Pages' = Pages /\ Asked' = Asked
      BY <2>1 DEF Pages, Asked
    <3>3. TypeOK'
      BY <1>0, <2>1, <3>1, <3>2 DEF TypeOK
    <3>4. \A i \in 1..Len(Pages) : WholeIn(Pages[i], ToSet(matches))
      <4>1. Len(Pages) \in 0..Len(Pages)
        BY <1>0
      <4>2. QED
        BY <1>0, <2>1, <4>1, ReadIsWhole
    <3>5. \A p \in Asked : Whole(p)'
      <4>1. \A p : Whole(p)' <=> WholeIn(p, ToSet(matches))
        BY <3>1 DEF Whole, WholeIn, Kept
      <4>2. Asked = {Pages[i] : i \in 1..Len(Pages)}
        BY <1>0, PagesPlanned DEF TypeOK
      <4>3. QED
        BY <3>4, <4>1, <4>2
    <3>6. DailyAllOrNothing'
      BY <3>1, <3>2, <3>5 DEF DailyAllOrNothing
    <3>7. QED
      BY <2>1, <2>2, <3>1, <3>3, <3>6 DEF FInv, ReadSoFar, Running, NewestSeasonsKept
  <2>3. CASE kind = "backfill"
    <3>1. Stop(matches)
      BY <1>6, <2>3 DEF Return
    <3>2. Len(Pages) \in 0..Len(Pages) /\ Len(Pages) <= page
      BY <1>0, <2>1
    <3>3. ToSet(matches) = Read(Pages, Len(Pages))
      BY <2>1
    <3>4. QED
      BY <2>1, <2>3, <3>1, <3>2, <3>3, StopKeeps
  <2>4. QED
    BY <1>0, <2>2, <2>3 DEF TypeOK
<1>7. CASE UNCHANGED vars
  <2>1. Pages' = Pages /\ Asked' = Asked
    BY <1>7 DEF Pages, Asked, vars
  <2>2. QED
    BY <1>7, <2>1 DEF vars, FInv, TypeOK, ReadSoFar, Running, DailyAllOrNothing,
       NewestSeasonsKept, Whole, Kept
<1>8. QED
  BY <1>1, <1>3, <1>4, <1>5, <1>6, <1>7 DEF Next

LEMMA Invariance == Spec => []FInv
<1>1. QED
  BY Initially, StepKeeps, PTL DEF Spec

-----------------------------------------------------------------------------
(* Theorems                                                                  *)

\* Every variable has its type: no page is asked for more often than MAX_RETRIES, and
\* none beyond the plan.
THEOREM TypeCorrect == Spec => []TypeOK
<1>1. FInv => TypeOK
  BY DEF FInv
<1>2. QED
  BY <1>1, Invariance, PTL

\* The daily run hands on every page of its plan or ends with the exception.
THEOREM DailyComplete == Spec => []DailyAllOrNothing
<1>1. FInv => DailyAllOrNothing
  BY DEF FInv
<1>2. QED
  BY <1>1, Invariance, PTL

\* Whatever page an error ends the backfill at, it keeps its newest seasons whole.
THEOREM BackfillKeepsNewest == Spec => []NewestSeasonsKept
<1>1. FInv => NewestSeasonsKept
  BY DEF FInv
<1>2. QED
  BY <1>1, Invariance, PTL
=============================================================================
