--------------------------- MODULE UpsertsProofs ---------------------------
(***************************************************************************)
(* Proofs about Upserts, for any tables, runs and lists of fixtures: the    *)
(* types, the exclusion the row locks give, that no foreign key fires, and  *)
(* that a run cut short leaves no hole.                                     *)
(***************************************************************************)
EXTENDS Upserts, TLAPS

-----------------------------------------------------------------------------
(* The inductive invariant                                                   *)

\* What a run has already written when it reaches a statement.
Progress(r) ==
  LET m == Head(fixtures[r])
      found == table \cup locked[r] IN
  /\ pc[r] = "current" =>
       /\ listed[r] # <<>>
       /\ CurrentSeason[Head(listed[r])] # None
       /\ Head(listed[r]) \in locked[r]
  /\ \A i \in 1..Len(fixtures[r]) : Competing(fixtures[r][i]) \in table
  /\ pc[r] \in {"link", "home", "away", "match"} =>
       fixtures[r] # <<>> /\ SeasonOf[m] \in found
  /\ pc[r] \in {"away", "match"} => Home[m] \in found
  /\ pc[r] = "match" => Away[m] \in found

\* What a transaction is about to commit, and what it needs.
Staged(r) == \A x \in locked[r] : Parents(x) \subseteq table \cup locked[r]

Closed == \A x \in table : Parents(x) \subseteq table

\* The seasons a fixtures' transaction has inserted had no row, and still have none
\* but in that transaction.
Inserted(r) == pc[r] \notin {"competition", "current"} => locked[r] \cap Season \cap table = {}

UInv ==
  /\ TypeOK
  /\ Closed
  /\ \A r \in Run : Staged(r) /\ Progress(r)
  /\ LocksExclude

-----------------------------------------------------------------------------
(* Lemmas                                                                    *)

LEMMA HeadTail ==
  ASSUME NEW S, NEW s \in Seq(S), s # <<>>
  PROVE  /\ Head(s) \in S /\ Tail(s) \in Seq(S)
         /\ Len(s) \in Nat /\ Len(s) > 0 /\ Head(s) = s[1]
         /\ Len(Tail(s)) = Len(s) - 1
         /\ \A i \in 1..Len(Tail(s)) : i + 1 \in 1..Len(s) /\ Tail(s)[i] = s[i + 1]
OBVIOUS

\* The row a statement locks, by statement.
LEMMA WantedRow ==
  ASSUME TypeOK, NEW r \in Run, Progress(r)
  PROVE  /\ pc[r] = "competition" /\ listed[r] # <<>> =>
              Wanted(r) = Head(listed[r]) /\ Wanted(r) \in Competition
         /\ pc[r] = "current" =>
              Wanted(r) = CurrentSeason[Head(listed[r])] /\ Wanted(r) \in Season
         /\ pc[r] = "season" /\ fixtures[r] # <<>> =>
              Wanted(r) = SeasonOf[Head(fixtures[r])] /\ Wanted(r) \in Season
         /\ pc[r] = "link" =>
              Wanted(r) = Competing(Head(fixtures[r])) /\ Wanted(r) \in Competition
         /\ pc[r] = "home" =>
              Wanted(r) = Home[Head(fixtures[r])] /\ Wanted(r) \in Team
         /\ pc[r] = "away" =>
              Wanted(r) = Away[Head(fixtures[r])] /\ Wanted(r) \in Team
         /\ pc[r] = "match" =>
              Wanted(r) = Head(fixtures[r]) /\ Wanted(r) \in Match
<1>1. listed[r] \in Seq(Competition) /\ fixtures[r] \in Seq(Match)
  BY DEF TypeOK
<1>2. /\ listed[r] # <<>> => Head(listed[r]) \in Competition
      /\ fixtures[r] # <<>> => Head(fixtures[r]) \in Match
  BY <1>1, HeadTail
<1>3. pc[r] = "current" => listed[r] # <<>> /\ CurrentSeason[Head(listed[r])] # None
  BY DEF Progress
<1>4. pc[r] \in {"link", "home", "away", "match"} => fixtures[r] # <<>>
  BY DEF Progress
<1>5. CASE pc[r] = "competition"
  BY <1>2, <1>5 DEF Wanted
<1>6. CASE pc[r] = "current"
  BY <1>2, <1>3, <1>6, KeysAssumption DEF Wanted
<1>7. CASE pc[r] = "season"
  BY <1>2, <1>7, KeysAssumption DEF Wanted
<1>8. CASE pc[r] = "link"
  BY <1>2, <1>4, <1>8, KeysAssumption DEF Wanted, Competing
<1>9. CASE pc[r] \in {"home", "away", "match"}
  BY <1>2, <1>4, <1>9, KeysAssumption DEF Wanted
<1>10. QED
  BY <1>5, <1>6, <1>7, <1>8, <1>9

\* A run that does not wait may lock the row: no other run holds it at all.
LEMMA FreeRow ==
  ASSUME TypeOK, NEW r \in Run, Free(r), pc[r] # "link",
         pc[r] = "season" => Wanted(r) \in Season \ table,
         NEW q \in Run, q # r
  PROVE  Wanted(r) \notin locked[q] \cup shared[q]
<1>1. ~WaitsFor(r, q)
  BY DEF Free
<1>2. CASE pc[r] = "season"
  <2>1. shared[q] \subseteq Competition
    BY DEF TypeOK
  <2>2. QED
    BY <1>1, <1>2, <2>1, TablesAssumption DEF WaitsFor
<1>3. CASE pc[r] # "season"
  BY <1>1, <1>3 DEF WaitsFor
<1>4. QED
  BY <1>2, <1>3

\* Locking a row nobody holds keeps the exclusion.
LEMMA LockExcludes ==
  ASSUME TypeOK, LocksExclude, NEW r \in Run, NEW x,
         \A q \in Run \ {r} : x \notin locked[q] \cup shared[q],
         locked' = [locked EXCEPT ![r] = @ \cup {x}], shared' = shared
  PROVE  LocksExclude'
<1> SUFFICES ASSUME NEW p \in Run, NEW q \in Run, p # q
             PROVE  locked'[p] \cap (locked'[q] \cup shared'[q]) = {}
  BY DEF LocksExclude
<1>1. locked[p] \cap (locked[q] \cup shared[q]) = {}
  BY DEF LocksExclude
<1>2. \A k \in Run : locked'[k] = IF k = r THEN locked[k] \cup {x} ELSE locked[k]
  BY DEF TypeOK
<1>3. CASE p = r
  BY <1>1, <1>2, <1>3
<1>4. CASE q = r
  BY <1>1, <1>2, <1>4
<1>5. CASE p # r /\ q # r
  BY <1>1, <1>2, <1>5
<1>6. QED
  BY <1>3, <1>4, <1>5

\* The end of a transaction keeps the exclusion.
LEMMA ReleaseExcludes ==
  ASSUME TypeOK, LocksExclude, NEW r \in Run, Release(r)
  PROVE  LocksExclude'
<1> SUFFICES ASSUME NEW p \in Run, NEW q \in Run, p # q
             PROVE  locked'[p] \cap (locked'[q] \cup shared'[q]) = {}
  BY DEF LocksExclude
<1>1. locked[p] \cap (locked[q] \cup shared[q]) = {}
  BY DEF LocksExclude
<1>2. \A k \in Run : /\ locked'[k] = IF k = r THEN {} ELSE locked[k]
                     /\ shared'[k] = IF k = r THEN {} ELSE shared[k]
  BY DEF TypeOK, Release
<1>3. QED
  BY <1>1, <1>2

\* A run that does not move keeps what it has, whatever others commit.
LEMMA OthersKeep ==
  ASSUME NEW q \in Run, Staged(q), Progress(q), table \subseteq table',
         pc'[q] = pc[q], listed'[q] = listed[q], fixtures'[q] = fixtures[q],
         locked'[q] = locked[q]
  PROVE  Staged(q)' /\ Progress(q)'
<1>1. Staged(q)'
  BY DEF Staged
<1>2. Progress(q)'
  BY DEF Progress
<1>3. QED
  BY <1>1, <1>2

\* The parents of a row, by table.
LEMMA ParentRows ==
  /\ \A c \in Competition : Parents(c) = {}
  /\ \A t \in Team : Parents(t) = {}
  /\ \A s \in Season : Parents(s) = {CompetitionOf[s]}
  /\ \A m \in Match : Parents(m) = {SeasonOf[m], Home[m], Away[m]}
BY TablesAssumption, KeysAssumption DEF Parents

\* The seasons, teams and fixtures one run may write are rows of the tables.
LEMMA LockType ==
  ASSUME TypeOK, NEW r \in Run, NEW x \in Table,
         locked' = [locked EXCEPT ![r] = @ \cup {x}]
  PROVE  locked' \in [Run -> SUBSET Table]
BY DEF TypeOK

\* A transaction that adds a row whose parents are there stays complete.
LEMMA StagedGrows ==
  ASSUME TypeOK, NEW r \in Run, Staged(r), NEW x, UNCHANGED table,
         Parents(x) \subseteq table \cup locked[r],
         locked' = [locked EXCEPT ![r] = @ \cup {x}]
  PROVE  Staged(r)'
<1>1. locked'[r] = locked[r] \cup {x}
  BY DEF TypeOK
<1>2. QED
  BY <1>1 DEF Staged

-----------------------------------------------------------------------------
(* The steps                                                                 *)

LEMMA InitUInv == Init => UInv
<1> SUFFICES ASSUME Init PROVE UInv
  OBVIOUS
<1>1. TypeOK
  BY DEF Init, TypeOK, Statement, Resting, Table
<1>2. Closed
  BY ParentRows DEF Init, Closed
<1>3. ASSUME NEW r \in Run PROVE Staged(r) /\ Progress(r)
  BY DEF Init, Staged, Progress
<1>4. LocksExclude
  BY DEF Init, LocksExclude
<1>5. QED
  BY <1>1, <1>2, <1>3, <1>4 DEF UInv

\* What every statement that locks a row has in common.
LEMMA LockStep ==
  ASSUME UInv, NEW r \in Run, NEW next, Lock(r, next),
         Wanted(r) \in Table, pc[r] # "link",
         pc[r] = "season" => Wanted(r) \in Season \ table,
         Parents(Wanted(r)) \subseteq table \cup locked[r],
         UNCHANGED <<table, shared>>,
         \A q \in Run \ {r} : listed'[q] = listed[q] /\ fixtures'[q] = fixtures[q]
  PROVE  /\ locked' \in [Run -> SUBSET Table]
         /\ locked'[r] = locked[r] \cup {Wanted(r)}
         /\ pc'[r] = next
         /\ Closed'
         /\ \A q \in Run \ {r} : Staged(q)' /\ Progress(q)'
         /\ Staged(r)'
         /\ LocksExclude'
<1>0. TypeOK /\ Closed /\ LocksExclude /\ \A q \in Run : Staged(q) /\ Progress(q)
  BY DEF UInv
<1>1. /\ Free(r)
      /\ locked' = [locked EXCEPT ![r] = @ \cup {Wanted(r)}]
      /\ pc' = [pc EXCEPT ![r] = next]
  BY DEF Lock
<1>2. locked' \in [Run -> SUBSET Table]
  BY <1>0, <1>1, LockType
<1>3. locked'[r] = locked[r] \cup {Wanted(r)} /\ pc'[r] = next
  BY <1>0, <1>1 DEF TypeOK
<1>4. Closed'
  BY <1>0 DEF Closed
<1>5. ASSUME NEW q \in Run \ {r} PROVE Staged(q)' /\ Progress(q)'
  <2>1. pc'[q] = pc[q] /\ locked'[q] = locked[q]
    BY <1>0, <1>1 DEF TypeOK
  <2>2. QED
    BY <1>0, <2>1, OthersKeep
<1>6. Staged(r)'
  BY <1>0, <1>1, StagedGrows
<1>7. \A q \in Run \ {r} : Wanted(r) \notin locked[q] \cup shared[q]
  BY <1>0, <1>1, FreeRow
<1>8. LocksExclude'
  BY <1>0, <1>1, <1>7, LockExcludes
<1>9. QED
  BY <1>2, <1>3, <1>4, <1>5, <1>6, <1>8

\* What the end of a transaction has in common, committed or rolled back.
LEMMA EndStep ==
  ASSUME UInv, NEW r \in Run, NEW next, Release(r),
         table' = table \/ Committed(r),
         pc' = [pc EXCEPT ![r] = next],
         \A q \in Run \ {r} : listed'[q] = listed[q] /\ fixtures'[q] = fixtures[q]
  PROVE  /\ table' \subseteq Table /\ table \subseteq table'
         /\ locked' \in [Run -> SUBSET Table]
         /\ shared' \in [Run -> SUBSET Competition]
         /\ pc'[r] = next
         /\ Closed'
         /\ \A q \in Run \ {r} : Staged(q)' /\ Progress(q)'
         /\ Staged(r)'
         /\ LocksExclude'
<1>0. TypeOK /\ Closed /\ LocksExclude /\ \A q \in Run : Staged(q) /\ Progress(q)
  BY DEF UInv
<1>1. table' \subseteq Table /\ table \subseteq table'
  BY <1>0 DEF TypeOK, Committed
<1>2. /\ locked' \in [Run -> SUBSET Table] /\ locked'[r] = {}
      /\ shared' \in [Run -> SUBSET Competition]
      /\ pc'[r] = next
  BY <1>0 DEF TypeOK, Release
<1>3. Closed'
  <2>1. CASE table' = table
    BY <1>0, <2>1 DEF Closed
  <2>2. CASE Committed(r)
    BY <1>0, <2>2 DEF Closed, Staged, Committed
  <2>3. QED
    BY <2>1, <2>2
<1>4. ASSUME NEW q \in Run \ {r} PROVE Staged(q)' /\ Progress(q)'
  <2>1. pc'[q] = pc[q] /\ locked'[q] = locked[q]
    BY <1>0 DEF TypeOK, Release
  <2>2. QED
    BY <1>0, <1>1, <2>1, OthersKeep
<1>5. Staged(r)'
  BY <1>2 DEF Staged
<1>6. LocksExclude'
  BY <1>0, ReleaseExcludes
<1>7. QED
  BY <1>1, <1>2, <1>3, <1>4, <1>5, <1>6

LEMMA StartStep ==
  ASSUME UInv, NEW r \in Run, Start(r) PROVE UInv'
<1>0. TypeOK /\ Closed /\ LocksExclude /\ \A q \in Run : Staged(q) /\ Progress(q)
  BY DEF UInv
<1>1. TypeOK'
  <2>1. retries' \in [Run -> Nat]
    <3>1. retries[r] \in Nat
      BY <1>0 DEF TypeOK
    <3>2. CASE retries' = retries
      BY <1>0, <3>2 DEF TypeOK
    <3>3. CASE retries' = [retries EXCEPT ![r] = @ + 1]
      BY <1>0, <3>1, <3>3 DEF TypeOK
    <3>4. QED
      BY <3>2, <3>3 DEF Start
  <2>2. pc' \in [Run -> Statement \cup Resting \cup {"fetch"}]
    BY <1>0 DEF TypeOK, Start, Statement
  <2>3. listed' \in [Run -> Seq(Competition)]
    <3>1. Catalogue \in Seq(Competition) /\ <<>> \in Seq(Competition)
      BY KeysAssumption
    <3>2. QED
      BY <1>0, <3>1 DEF TypeOK, Start
  <2>4. QED
    BY <1>0, <2>1, <2>2, <2>3 DEF TypeOK, Start
<1>2. Closed' /\ LocksExclude'
  BY <1>0 DEF Closed, LocksExclude, Start
<1>3. ASSUME NEW q \in Run PROVE Staged(q)' /\ Progress(q)'
  <2>1. Staged(q)'
    BY <1>0 DEF Staged, Start
  <2>2. CASE q = r
    <3>1. pc'[r] \in {"competition", "fetch"}
      BY <1>0 DEF Start, TypeOK
    <3>2. fixtures'[r] = fixtures[r] /\ table' = table
      BY DEF Start
    <3>3. QED
      BY <1>0, <2>1, <2>2, <3>1, <3>2 DEF Progress
  <2>3. CASE q # r
    <3>1. pc'[q] = pc[q] /\ listed'[q] = listed[q]
      BY <1>0, <2>3 DEF Start, TypeOK
    <3>2. QED
      BY <1>0, <3>1, OthersKeep DEF Start
  <2>4. QED
    BY <2>1, <2>2, <2>3
<1>4. QED
  BY <1>1, <1>2, <1>3 DEF UInv

LEMMA UpsertCompetitionStep ==
  ASSUME UInv, NEW r \in Run, UpsertCompetition(r) PROVE UInv'
<1>0. TypeOK /\ Progress(r) /\ listed[r] \in Seq(Competition)
  BY DEF UInv, TypeOK
<1> DEFINE c == Head(listed[r])
           next == IF CurrentSeason[c] # None THEN "current" ELSE "competition"
<1>1. /\ pc[r] = "competition" /\ listed[r] # <<>> /\ Lock(r, next)
      /\ listed' = IF CurrentSeason[c] # None THEN listed ELSE [listed EXCEPT ![r] = Tail(@)]
      /\ UNCHANGED <<table, curated, fixtures, shared, batch, wrote, retries, faults>>
  BY DEF UpsertCompetition
<1>2. Wanted(r) = c /\ c \in Competition /\ Tail(listed[r]) \in Seq(Competition)
  BY <1>0, <1>1, WantedRow, HeadTail
<1>3. Wanted(r) \in Table /\ Parents(Wanted(r)) = {}
  BY <1>2, ParentRows DEF Table
<1>4. \A q \in Run \ {r} : listed'[q] = listed[q] /\ fixtures'[q] = fixtures[q]
  BY <1>0, <1>1 DEF TypeOK
<1> HIDE DEF next
<1>5. /\ locked' \in [Run -> SUBSET Table]
      /\ locked'[r] = locked[r] \cup {Wanted(r)}
      /\ pc'[r] = next
      /\ Closed'
      /\ \A q \in Run \ {r} : Staged(q)' /\ Progress(q)'
      /\ Staged(r)'
      /\ LocksExclude'
  BY <1>1, <1>3, <1>4, LockStep
<1>6. TypeOK'
  <2>1. listed' \in [Run -> Seq(Competition)]
    BY <1>0, <1>1, <1>2 DEF TypeOK
  <2>2. pc' \in [Run -> Statement \cup Resting \cup {"fetch"}]
    BY <1>0, <1>1 DEF TypeOK, Lock, Statement, next
  <2>3. QED
    BY <1>0, <1>1, <1>5, <2>1, <2>2 DEF TypeOK
<1>7. Progress(r)'
  <2>1. CASE CurrentSeason[c] # None
    BY <1>0, <1>1, <1>2, <1>5, <2>1 DEF Progress, next
  <2>2. CASE CurrentSeason[c] = None
    BY <1>0, <1>1, <1>2, <1>5, <2>2 DEF Progress, next
  <2>3. QED
    BY <2>1, <2>2
<1>8. QED
  BY <1>5, <1>6, <1>7 DEF UInv

LEMMA UpsertSeasonStep ==
  ASSUME UInv, NEW r \in Run, UpsertSeason(r) PROVE UInv'
<1>0. TypeOK /\ Progress(r) /\ listed[r] \in Seq(Competition)
  BY DEF UInv, TypeOK
<1> DEFINE c == Head(listed[r])
<1>1. /\ pc[r] = "current" /\ Lock(r, "competition")
      /\ listed' = [listed EXCEPT ![r] = Tail(@)]
      /\ UNCHANGED <<table, curated, fixtures, shared, batch, wrote, retries, faults>>
  BY DEF UpsertSeason
<1>2. /\ listed[r] # <<>> /\ CurrentSeason[c] # None /\ c \in locked[r]
      /\ c \in Competition /\ Tail(listed[r]) \in Seq(Competition)
  BY <1>0, <1>1, HeadTail DEF Progress
<1>3. Wanted(r) = CurrentSeason[c] /\ Wanted(r) \in Season
  BY <1>0, <1>1, WantedRow
<1>4. Wanted(r) \in Table /\ Parents(Wanted(r)) \subseteq table \cup locked[r]
  BY <1>2, <1>3, ParentRows, KeysAssumption DEF Table
<1>5. \A q \in Run \ {r} : listed'[q] = listed[q] /\ fixtures'[q] = fixtures[q]
  BY <1>0, <1>1 DEF TypeOK
<1>6. /\ locked' \in [Run -> SUBSET Table]
      /\ locked'[r] = locked[r] \cup {Wanted(r)}
      /\ pc'[r] = "competition"
      /\ Closed'
      /\ \A q \in Run \ {r} : Staged(q)' /\ Progress(q)'
      /\ Staged(r)'
      /\ LocksExclude'
  BY <1>1, <1>4, <1>5, LockStep
<1>7. TypeOK'
  <2>1. listed' \in [Run -> Seq(Competition)]
    BY <1>0, <1>1, <1>2 DEF TypeOK
  <2>2. pc' \in [Run -> Statement \cup Resting \cup {"fetch"}]
    BY <1>0, <1>1 DEF TypeOK, Lock, Statement
  <2>3. QED
    BY <1>0, <1>1, <1>6, <2>1, <2>2 DEF TypeOK
<1>8. Progress(r)'
  BY <1>0, <1>1, <1>6 DEF Progress
<1>9. QED
  BY <1>6, <1>7, <1>8 DEF UInv

LEMMA CommitCatalogueStep ==
  ASSUME UInv, NEW r \in Run, CommitCatalogue(r) PROVE UInv'
<1>0. TypeOK /\ Progress(r)
  BY DEF UInv
<1>1. /\ Release(r) /\ Committed(r) /\ pc' = [pc EXCEPT ![r] = "fetch"]
      /\ curated' = curated \cup (locked[r] \cap Season)
      /\ UNCHANGED <<listed, fixtures, batch, wrote, retries, faults>>
  BY DEF CommitCatalogue
<1>2. /\ table' \subseteq Table /\ table \subseteq table'
      /\ locked' \in [Run -> SUBSET Table]
      /\ shared' \in [Run -> SUBSET Competition]
      /\ pc'[r] = "fetch"
      /\ Closed'
      /\ \A q \in Run \ {r} : Staged(q)' /\ Progress(q)'
      /\ Staged(r)'
      /\ LocksExclude'
  BY <1>1, EndStep
<1>3. TypeOK'
  <2>1. pc' \in [Run -> Statement \cup Resting \cup {"fetch"}]
    BY <1>0, <1>1 DEF TypeOK
  <2>2. curated' \subseteq Season
    BY <1>0, <1>1 DEF TypeOK
  <2>3. QED
    BY <1>0, <1>1, <1>2, <2>1, <2>2 DEF TypeOK
<1>4. Progress(r)'
  BY <1>0, <1>1, <1>2 DEF Progress
<1>5. QED
  BY <1>2, <1>3, <1>4 DEF UInv

LEMMA FetchStep ==
  ASSUME UInv, NEW r \in Run, Fetch(r) PROVE UInv'
<1>0. TypeOK /\ Closed /\ LocksExclude /\ \A q \in Run : Staged(q) /\ Progress(q)
  BY DEF UInv
<1>1. PICK b \in IF Answers(r) = {} THEN {<<>>} ELSE Answers(r) :
        fixtures' = [fixtures EXCEPT ![r] = b] /\ batch' = [batch EXCEPT ![r] = b]
  BY DEF Fetch
<1>2. b \in Seq(Match) /\ \A i \in 1..Len(b) : Competing(b[i]) \in table
  <2>1. CASE b = <<>>
    BY <2>1
  <2>2. CASE b \in Answers(r)
    BY <2>2, RunAssumption DEF Answers
  <2>3. QED
    BY <1>1, <2>1, <2>2
<1>3. /\ pc' = [pc EXCEPT ![r] = "season"] /\ wrote' = [wrote EXCEPT ![r] = {}]
      /\ UNCHANGED <<table, curated, listed, locked, shared, retries, faults>>
  BY DEF Fetch
<1>4. TypeOK'
  <2>1. fixtures' \in [Run -> Seq(Match)] /\ batch' \in [Run -> Seq(Match)]
    BY <1>0, <1>1, <1>2 DEF TypeOK
  <2>2. pc' \in [Run -> Statement \cup Resting \cup {"fetch"}]
    BY <1>0, <1>3 DEF TypeOK, Statement
  <2>3. wrote' \in [Run -> SUBSET Match]
    BY <1>0, <1>3 DEF TypeOK
  <2>4. QED
    BY <1>0, <1>3, <2>1, <2>2, <2>3 DEF TypeOK
<1>5. Closed' /\ LocksExclude'
  BY <1>0, <1>3 DEF Closed, LocksExclude
<1>6. ASSUME NEW q \in Run PROVE Staged(q)' /\ Progress(q)'
  <2>1. Staged(q)'
    BY <1>0, <1>3 DEF Staged
  <2>2. CASE q = r
    <3>1. fixtures'[r] = b /\ pc'[r] = "season"
      BY <1>0, <1>1, <1>3 DEF TypeOK
    <3>2. QED
      BY <1>2, <1>3, <2>1, <2>2, <3>1 DEF Progress
  <2>3. CASE q # r
    <3>1. pc'[q] = pc[q] /\ fixtures'[q] = fixtures[q]
      BY <1>0, <1>1, <1>3, <2>3 DEF TypeOK
    <3>2. QED
      BY <1>0, <1>3, <3>1, OthersKeep
  <2>4. QED
    BY <2>2, <2>3
<1>7. QED
  BY <1>4, <1>5, <1>6 DEF UInv

LEMMA EnsureSeasonStep ==
  ASSUME UInv, NEW r \in Run, EnsureSeason(r) PROVE UInv'
<1>0. TypeOK /\ Closed /\ LocksExclude /\ \A q \in Run : Staged(q) /\ Progress(q)
  BY DEF UInv
<1> DEFINE m == Head(fixtures[r])
<1>1. /\ pc[r] = "season" /\ fixtures[r] # <<>>
      /\ UNCHANGED <<table, curated, listed, fixtures, shared, batch, wrote, retries, faults>>
  BY DEF EnsureSeason
<1>2. /\ m \in Match /\ Competing(m) \in table
      /\ SeasonOf[m] \in Season /\ CompetitionOf[SeasonOf[m]] = Competing(m)
  <2>1. fixtures[r] \in Seq(Match)
    BY <1>0 DEF TypeOK
  <2>2. m \in Match /\ m = fixtures[r][1] /\ 1 \in 1..Len(fixtures[r])
    BY <1>1, <2>1, HeadTail
  <2>3. Competing(m) \in table
    BY <1>0, <2>2 DEF Progress
  <2>4. QED
    BY <2>2, <2>3, KeysAssumption DEF Competing
<1>3. CASE SeasonOf[m] \in table \cup locked[r]
  <2>1. pc' = [pc EXCEPT ![r] = "home"] /\ UNCHANGED locked
    BY <1>3 DEF EnsureSeason
  <2>2. TypeOK'
    <3>1. pc' \in [Run -> Statement \cup Resting \cup {"fetch"}]
      BY <1>0, <2>1 DEF TypeOK, Statement
    <3>2. QED
      BY <1>0, <1>1, <2>1, <3>1 DEF TypeOK
  <2>3. Closed' /\ LocksExclude'
    BY <1>0, <1>1, <2>1 DEF Closed, LocksExclude
  <2>4. ASSUME NEW q \in Run PROVE Staged(q)' /\ Progress(q)'
    <3>1. Staged(q)'
      BY <1>0, <1>1, <2>1 DEF Staged
    <3>2. CASE q = r
      <4>1. pc'[r] = "home"
        BY <1>0, <2>1 DEF TypeOK
      <4>2. QED
        BY <1>0, <1>1, <1>3, <2>1, <3>1, <3>2, <4>1 DEF Progress
    <3>3. CASE q # r
      <4>1. pc'[q] = pc[q]
        BY <1>0, <2>1, <3>3 DEF TypeOK
      <4>2. QED
        BY <1>0, <1>1, <2>1, <4>1, OthersKeep
    <3>4. QED
      BY <3>2, <3>3
  <2>5. QED
    BY <2>2, <2>3, <2>4 DEF UInv
<1>4. CASE SeasonOf[m] \notin table \cup locked[r]
  <2>1. Lock(r, "link")
    BY <1>4 DEF EnsureSeason
  <2>2. Wanted(r) = SeasonOf[m]
    BY <1>0, <1>1, WantedRow
  <2>3. /\ Wanted(r) \in Season \ table /\ Wanted(r) \in Table
        /\ Parents(Wanted(r)) \subseteq table \cup locked[r]
    BY <1>2, <1>4, <2>2, ParentRows DEF Table
  <2>4. /\ locked' \in [Run -> SUBSET Table]
        /\ locked'[r] = locked[r] \cup {Wanted(r)}
        /\ pc'[r] = "link"
        /\ Closed'
        /\ \A q \in Run \ {r} : Staged(q)' /\ Progress(q)'
        /\ Staged(r)'
        /\ LocksExclude'
    BY <1>1, <2>1, <2>3, LockStep
  <2>5. TypeOK'
    <3>1. pc' \in [Run -> Statement \cup Resting \cup {"fetch"}]
      BY <1>0, <2>1 DEF TypeOK, Lock, Statement
    <3>2. QED
      BY <1>0, <1>1, <2>4, <3>1 DEF TypeOK
  <2>6. Progress(r)'
    BY <1>0, <1>1, <2>2, <2>4 DEF Progress
  <2>7. QED
    BY <2>4, <2>5, <2>6 DEF UInv
<1>5. QED
  BY <1>3, <1>4

LEMMA LinkSeasonStep ==
  ASSUME UInv, NEW r \in Run, LinkSeason(r) PROVE UInv'
<1>0. TypeOK /\ Closed /\ LocksExclude /\ \A q \in Run : Staged(q) /\ Progress(q)
  BY DEF UInv
<1>1. /\ pc[r] = "link" /\ Free(r)
      /\ shared' = [shared EXCEPT ![r] = @ \cup {Wanted(r)}]
      /\ pc' = [pc EXCEPT ![r] = "home"]
      /\ UNCHANGED <<table, curated, listed, fixtures, locked, batch, wrote, retries, faults>>
  BY DEF LinkSeason
<1>2. Wanted(r) \in Competition
  BY <1>0, <1>1, WantedRow
<1>3. TypeOK'
  <2>1. pc' \in [Run -> Statement \cup Resting \cup {"fetch"}]
    BY <1>0, <1>1 DEF TypeOK, Statement
  <2>2. shared' \in [Run -> SUBSET Competition]
    BY <1>0, <1>1, <1>2 DEF TypeOK
  <2>3. QED
    BY <1>0, <1>1, <2>1, <2>2 DEF TypeOK
<1>4. Closed'
  BY <1>0, <1>1 DEF Closed
<1>5. LocksExclude'
  <2> SUFFICES ASSUME NEW p \in Run, NEW q \in Run, p # q
               PROVE  locked[p] \cap (locked[q] \cup shared'[q]) = {}
    BY <1>1 DEF LocksExclude
  <2>1. locked[p] \cap (locked[q] \cup shared[q]) = {}
    BY <1>0 DEF LocksExclude
  <2>2. q = r => Wanted(r) \notin locked[p]
    BY <1>1 DEF Free, WaitsFor
  <2>3. shared'[q] = IF q = r THEN shared[q] \cup {Wanted(r)} ELSE shared[q]
    BY <1>0, <1>1 DEF TypeOK
  <2>4. QED
    BY <2>1, <2>2, <2>3
<1>6. ASSUME NEW q \in Run PROVE Staged(q)' /\ Progress(q)'
  <2>1. Staged(q)'
    BY <1>0, <1>1 DEF Staged
  <2>2. CASE q # r
    <3>1. pc'[q] = pc[q]
      BY <1>0, <1>1, <2>2 DEF TypeOK
    <3>2. QED
      BY <1>0, <1>1, <3>1, OthersKeep
  <2>3. CASE q = r
    <3>1. pc'[r] = "home"
      BY <1>0, <1>1 DEF TypeOK
    <3>2. QED
      BY <1>0, <1>1, <2>1, <2>3, <3>1 DEF Progress
  <2>4. QED
    BY <2>2, <2>3
<1>7. QED
  BY <1>3, <1>4, <1>5, <1>6 DEF UInv

LEMMA UpsertHomeStep ==
  ASSUME UInv, NEW r \in Run, UpsertHome(r) PROVE UInv'
<1>0. TypeOK /\ Progress(r)
  BY DEF UInv
<1>1. /\ pc[r] = "home" /\ Lock(r, "away")
      /\ UNCHANGED <<table, curated, listed, fixtures, shared, batch, wrote, retries, faults>>
  BY DEF UpsertHome
<1>2. Wanted(r) = Home[Head(fixtures[r])] /\ Wanted(r) \in Team
  BY <1>0, <1>1, WantedRow
<1>3. Wanted(r) \in Table /\ Parents(Wanted(r)) = {}
  BY <1>2, ParentRows DEF Table
<1>4. /\ locked' \in [Run -> SUBSET Table]
      /\ locked'[r] = locked[r] \cup {Wanted(r)}
      /\ pc'[r] = "away"
      /\ Closed'
      /\ \A q \in Run \ {r} : Staged(q)' /\ Progress(q)'
      /\ Staged(r)'
      /\ LocksExclude'
  BY <1>1, <1>3, LockStep
<1>5. TypeOK'
  <2>1. pc' \in [Run -> Statement \cup Resting \cup {"fetch"}]
    BY <1>0, <1>1 DEF TypeOK, Lock, Statement
  <2>2. QED
    BY <1>0, <1>1, <1>4, <2>1 DEF TypeOK
<1>6. Progress(r)'
  BY <1>0, <1>1, <1>2, <1>4 DEF Progress
<1>7. QED
  BY <1>4, <1>5, <1>6 DEF UInv

LEMMA UpsertAwayStep ==
  ASSUME UInv, NEW r \in Run, UpsertAway(r) PROVE UInv'
<1>0. TypeOK /\ Progress(r)
  BY DEF UInv
<1>1. /\ pc[r] = "away" /\ Lock(r, "match")
      /\ UNCHANGED <<table, curated, listed, fixtures, shared, batch, wrote, retries, faults>>
  BY DEF UpsertAway
<1>2. Wanted(r) = Away[Head(fixtures[r])] /\ Wanted(r) \in Team
  BY <1>0, <1>1, WantedRow
<1>3. Wanted(r) \in Table /\ Parents(Wanted(r)) = {}
  BY <1>2, ParentRows DEF Table
<1>4. /\ locked' \in [Run -> SUBSET Table]
      /\ locked'[r] = locked[r] \cup {Wanted(r)}
      /\ pc'[r] = "match"
      /\ Closed'
      /\ \A q \in Run \ {r} : Staged(q)' /\ Progress(q)'
      /\ Staged(r)'
      /\ LocksExclude'
  BY <1>1, <1>3, LockStep
<1>5. TypeOK'
  <2>1. pc' \in [Run -> Statement \cup Resting \cup {"fetch"}]
    BY <1>0, <1>1 DEF TypeOK, Lock, Statement
  <2>2. QED
    BY <1>0, <1>1, <1>4, <2>1 DEF TypeOK
<1>6. Progress(r)'
  BY <1>0, <1>1, <1>2, <1>4 DEF Progress
<1>7. QED
  BY <1>4, <1>5, <1>6 DEF UInv

LEMMA UpsertMatchStep ==
  ASSUME UInv, NEW r \in Run, UpsertMatch(r) PROVE UInv'
<1>0. TypeOK /\ Progress(r) /\ fixtures[r] \in Seq(Match)
  BY DEF UInv, TypeOK
<1> DEFINE m == Head(fixtures[r])
           next == IF r \in Daily THEN "commit" ELSE "season"
<1>1. /\ pc[r] = "match" /\ Lock(r, next)
      /\ fixtures' = [fixtures EXCEPT ![r] = Tail(@)]
      /\ UNCHANGED <<table, curated, listed, shared, batch, wrote, retries, faults>>
  BY DEF UpsertMatch
<1>2. /\ fixtures[r] # <<>>
      /\ {SeasonOf[m], Home[m], Away[m]} \subseteq table \cup locked[r]
  BY <1>0, <1>1 DEF Progress
<1>3. /\ m \in Match /\ Tail(fixtures[r]) \in Seq(Match)
      /\ Len(fixtures[r]) \in Nat
      /\ \A i \in 1..Len(Tail(fixtures[r])) :
           i + 1 \in 1..Len(fixtures[r]) /\ Tail(fixtures[r])[i] = fixtures[r][i + 1]
  BY <1>0, <1>2, HeadTail
<1>4. Wanted(r) = m
  BY <1>0, <1>1, WantedRow
<1>5. Wanted(r) \in Table /\ Parents(Wanted(r)) \subseteq table \cup locked[r]
  BY <1>2, <1>3, <1>4, ParentRows DEF Table
<1>6. /\ \A q \in Run \ {r} : listed'[q] = listed[q] /\ fixtures'[q] = fixtures[q]
      /\ fixtures'[r] = Tail(fixtures[r])
  BY <1>0, <1>1 DEF TypeOK
<1>7. next \in {"commit", "season"}
  OBVIOUS
<1> HIDE DEF next
<1>8. /\ locked' \in [Run -> SUBSET Table]
      /\ locked'[r] = locked[r] \cup {Wanted(r)}
      /\ pc'[r] = next
      /\ Closed'
      /\ \A q \in Run \ {r} : Staged(q)' /\ Progress(q)'
      /\ Staged(r)'
      /\ LocksExclude'
  BY <1>1, <1>5, <1>6, LockStep
<1>9. TypeOK'
  <2>1. fixtures' \in [Run -> Seq(Match)]
    BY <1>0, <1>1, <1>3 DEF TypeOK
  <2>2. pc' \in [Run -> Statement \cup Resting \cup {"fetch"}]
    BY <1>0, <1>1, <1>7 DEF TypeOK, Lock, Statement
  <2>3. QED
    BY <1>0, <1>1, <1>8, <2>1, <2>2 DEF TypeOK
<1>10. Progress(r)'
  <2>1. \A i \in 1..Len(fixtures'[r]) : Competing(fixtures'[r][i]) \in table'
    BY <1>0, <1>1, <1>3, <1>6 DEF Progress
  <2>2. QED
    BY <1>7, <1>8, <2>1 DEF Progress
<1>11. QED
  BY <1>8, <1>9, <1>10 DEF UInv

LEMMA CommitFixtureStep ==
  ASSUME UInv, NEW r \in Run, CommitFixture(r) PROVE UInv'
<1>0. TypeOK /\ Progress(r)
  BY DEF UInv
<1>1. /\ Release(r) /\ Committed(r) /\ curated' = curated \ locked[r]
      /\ pc' = [pc EXCEPT ![r] = "season"]
      /\ wrote' = [wrote EXCEPT ![r] = @ \cup (locked[r] \cap Match)]
      /\ UNCHANGED <<listed, fixtures, batch, retries, faults>>
  BY DEF CommitFixture, CommitPayload
<1>2. /\ table' \subseteq Table /\ table \subseteq table'
      /\ locked' \in [Run -> SUBSET Table]
      /\ shared' \in [Run -> SUBSET Competition]
      /\ pc'[r] = "season"
      /\ Closed'
      /\ \A q \in Run \ {r} : Staged(q)' /\ Progress(q)'
      /\ Staged(r)'
      /\ LocksExclude'
  BY <1>1, EndStep
<1>3. TypeOK'
  <2>1. pc' \in [Run -> Statement \cup Resting \cup {"fetch"}]
    BY <1>0, <1>1 DEF TypeOK, Statement, Resting
  <2>2. wrote' \in [Run -> SUBSET Match]
    BY <1>0, <1>1 DEF TypeOK
  <2>3. QED
    BY <1>0, <1>1, <1>2, <2>1, <2>2 DEF TypeOK
<1>4. Progress(r)'
  BY <1>0, <1>1, <1>2 DEF Progress
<1>5. QED
  BY <1>2, <1>3, <1>4 DEF UInv

LEMMA FinishStep ==
  ASSUME UInv, NEW r \in Run, Finish(r) PROVE UInv'
<1>0. TypeOK /\ Progress(r)
  BY DEF UInv
<1>1. /\ Release(r) /\ Committed(r) /\ curated' = curated \ locked[r]
      /\ pc' = [pc EXCEPT ![r] = "done"]
      /\ wrote' = [wrote EXCEPT ![r] = @ \cup (locked[r] \cap Match)]
      /\ UNCHANGED <<listed, fixtures, batch, retries, faults>>
  BY DEF Finish, CommitPayload
<1>2. /\ table' \subseteq Table /\ table \subseteq table'
      /\ locked' \in [Run -> SUBSET Table]
      /\ shared' \in [Run -> SUBSET Competition]
      /\ pc'[r] = "done"
      /\ Closed'
      /\ \A q \in Run \ {r} : Staged(q)' /\ Progress(q)'
      /\ Staged(r)'
      /\ LocksExclude'
  BY <1>1, EndStep
<1>3. TypeOK'
  <2>1. pc' \in [Run -> Statement \cup Resting \cup {"fetch"}]
    BY <1>0, <1>1 DEF TypeOK, Statement, Resting
  <2>2. wrote' \in [Run -> SUBSET Match]
    BY <1>0, <1>1 DEF TypeOK
  <2>3. QED
    BY <1>0, <1>1, <1>2, <2>1, <2>2 DEF TypeOK
<1>4. Progress(r)'
  BY <1>0, <1>1, <1>2 DEF Progress
<1>5. QED
  BY <1>2, <1>3, <1>4 DEF UInv

LEMMA RolledBackStep ==
  ASSUME UInv, NEW r \in Run, RolledBack(r), faults' \in Nat PROVE UInv'
<1>0. TypeOK /\ Progress(r)
  BY DEF UInv
<1>1. /\ Release(r) /\ pc' = [pc EXCEPT ![r] = "failed"]
      /\ fixtures' = [fixtures EXCEPT ![r] = <<>>]
      /\ listed' = [listed EXCEPT ![r] = <<>>]
      /\ UNCHANGED <<table, curated, batch, wrote, retries>>
  BY DEF RolledBack
<1>2. /\ \A q \in Run \ {r} : listed'[q] = listed[q] /\ fixtures'[q] = fixtures[q]
      /\ fixtures'[r] = <<>>
  BY <1>0, <1>1 DEF TypeOK
<1>3. /\ table' \subseteq Table /\ table \subseteq table'
      /\ locked' \in [Run -> SUBSET Table]
      /\ shared' \in [Run -> SUBSET Competition]
      /\ pc'[r] = "failed"
      /\ Closed'
      /\ \A q \in Run \ {r} : Staged(q)' /\ Progress(q)'
      /\ Staged(r)'
      /\ LocksExclude'
  BY <1>1, <1>2, EndStep
<1>4. TypeOK'
  <2>1. pc' \in [Run -> Statement \cup Resting \cup {"fetch"}]
    BY <1>0, <1>1 DEF TypeOK, Resting
  <2>2. fixtures' \in [Run -> Seq(Match)] /\ listed' \in [Run -> Seq(Competition)]
    BY <1>0, <1>1 DEF TypeOK
  <2>3. QED
    BY <1>0, <1>1, <1>3, <2>1, <2>2 DEF TypeOK
<1>5. Progress(r)'
  BY <1>2, <1>3 DEF Progress
<1>6. QED
  BY <1>3, <1>4, <1>5 DEF UInv

\* Every step keeps the invariant.
LEMMA NextUInv == UInv /\ [Next]_vars => UInv'
<1> SUFFICES ASSUME UInv, [Next]_vars PROVE UInv'
  OBVIOUS
<1>1. CASE UNCHANGED vars
  <2>1. TypeOK'
    BY <1>1 DEF UInv, TypeOK, vars
  <2>2. Closed' /\ LocksExclude'
    BY <1>1 DEF UInv, Closed, LocksExclude, vars
  <2>3. ASSUME NEW q \in Run PROVE Staged(q)' /\ Progress(q)'
    BY <1>1, OthersKeep DEF UInv, vars
  <2>4. QED
    BY <2>1, <2>2, <2>3 DEF UInv
<1>2. ASSUME NEW r \in Run, Start(r) \/ Advance(r) \/ Abort(r) \/ Fail(r)
      PROVE  UInv'
  <2>1. CASE Start(r)
    BY <2>1, StartStep
  <2>2. CASE Advance(r)
    BY <2>2, UpsertCompetitionStep, UpsertSeasonStep, CommitCatalogueStep, FetchStep,
       EnsureSeasonStep, LinkSeasonStep, UpsertHomeStep, UpsertAwayStep,
       UpsertMatchStep, CommitFixtureStep, FinishStep DEF Advance
  <2>3. CASE Abort(r)
    BY <2>3, RolledBackStep DEF Abort, UInv, TypeOK
  <2>4. CASE Fail(r)
    BY <2>4, RolledBackStep DEF Fail, UInv, TypeOK
  <2>5. QED
    BY <1>2, <2>1, <2>2, <2>3, <2>4
<1>3. QED
  BY <1>1, <1>2 DEF Next

-----------------------------------------------------------------------------
(* No holes                                                                  *)

\* The fixtures a run is through with, and the first k of its batch.
Sent(r) == Len(batch[r]) - Len(fixtures[r])
UpTo(r, k) == {batch[r][i] : i \in 1..k}

Filling == {"season", "link", "home", "away", "match"}

\* What is left of the batch is its end; of what is sent a daily run has committed
\* everything, but for the fixture it is about to commit, and the backfill nothing.
InOrder(r) ==
  /\ \E k \in IF r \in Daily THEN 0..Len(batch[r]) ELSE {0, Len(batch[r])} :
       wrote[r] = UpTo(r, k)
  /\ r \notin Daily => pc[r] \notin {"competition", "current", "commit"}
  /\ pc[r] \notin Filling \cup {"commit"} => locked[r] \cap Match = {}
  /\ pc[r] \in Filling \cup {"commit"} =>
       /\ Sent(r) \in 0..Len(batch[r])
       /\ \A i \in 1..Len(fixtures[r]) : fixtures[r][i] = batch[r][Sent(r) + i]
  /\ pc[r] \in Filling =>
       IF r \in Daily
       THEN locked[r] \cap Match = {} /\ wrote[r] = UpTo(r, Sent(r))
       ELSE locked[r] \cap Match = UpTo(r, Sent(r)) /\ wrote[r] = {}
  /\ pc[r] = "commit" =>
       /\ Sent(r) > 0
       /\ locked[r] \cap Match = {batch[r][Sent(r)]} /\ wrote[r] = UpTo(r, Sent(r) - 1)

\* The first k of a batch, one by one.
LEMMA UpToNext ==
  ASSUME NEW r, NEW k \in Nat, k > 0
  PROVE  UpTo(r, k) = UpTo(r, k - 1) \cup {batch[r][k]}
<1>1. 1..k = (1..(k - 1)) \cup {k}
  OBVIOUS
<1>2. QED
  BY <1>1, Zenon DEF UpTo

LEMMA OneLess ==
  ASSUME NEW n \in Nat, NEW m \in Nat, m > 0, NEW k \in 0..n, k = n - m
  PROVE  n - (m - 1) = k + 1 /\ k + 1 \in 0..n
OBVIOUS

LEMMA UpToNone ==
  ASSUME NEW r PROVE UpTo(r, 0) = {}
<1>1. 1..0 = {}
  OBVIOUS
<1>2. QED
  BY <1>1, Zenon DEF UpTo

LEMMA SameBatch ==
  ASSUME NEW r, batch'[r] = batch[r]
  PROVE  /\ \A k : UpTo(r, k)' = UpTo(r, k)
         /\ fixtures'[r] = fixtures[r] => Sent(r)' = Sent(r)
<1>1. ASSUME NEW k PROVE UpTo(r, k)' = UpTo(r, k)
  BY Zenon DEF UpTo
<1>2. QED
  BY <1>1 DEF Sent

\* A run that does not move keeps its order.
LEMMA OrderKept ==
  ASSUME NEW q \in Run, InOrder(q), pc'[q] = pc[q], fixtures'[q] = fixtures[q],
         batch'[q] = batch[q], wrote'[q] = wrote[q], locked'[q] = locked[q]
  PROVE  InOrder(q)'
BY SameBatch DEF InOrder

\* No statement but the fixture's own locks a fixture.
LEMMA LockKeepsOrder ==
  ASSUME UInv, NEW r \in Run, InOrder(r), NEW next, Lock(r, next),
         Wanted(r) \in Table \ Match, UNCHANGED <<fixtures, batch, wrote>>,
         \/ pc[r] \in Filling /\ next \in Filling
         \/ pc[r] \in {"competition", "current"} /\ next \in {"competition", "current"}
  PROVE  InOrder(r)'
<1>1. pc'[r] = next /\ locked'[r] = locked[r] \cup {Wanted(r)}
  BY DEF UInv, TypeOK, Lock
<1>2. locked'[r] \cap Match = locked[r] \cap Match
  BY <1>1
<1>3. CASE pc[r] \in Filling /\ next \in Filling
  BY <1>1, <1>2, <1>3, SameBatch DEF InOrder, Filling
<1>4. CASE pc[r] \in {"competition", "current"} /\ next \in {"competition", "current"}
  BY <1>1, <1>2, <1>4, SameBatch DEF InOrder, Filling
<1>5. QED
  BY <1>3, <1>4

\* A run at rest, or on its way to a new batch, has only its past to keep.
LEMMA RestKeepsOrder ==
  ASSUME NEW r \in Run, InOrder(r), UNCHANGED <<batch, wrote>>,
         locked'[r] \cap Match = {},
         \/ pc'[r] \in {"done", "failed", "fetch"}
         \/ r \in Daily /\ pc'[r] = "competition"
  PROVE  InOrder(r)'
BY SameBatch DEF InOrder, Filling

LEMMA NextInOrder ==
  (UInv /\ \A r \in Run : InOrder(r)) /\ [Next]_vars => \A r \in Run : InOrder(r)'
<1> SUFFICES ASSUME UInv, \A r \in Run : InOrder(r), [Next]_vars
             PROVE  \A r \in Run : InOrder(r)'
  OBVIOUS
<1>0. TypeOK
  BY DEF UInv
<1>1. CASE UNCHANGED vars
  BY <1>1, OrderKept DEF vars
<1>2. ASSUME NEW r \in Run, Start(r) \/ Advance(r) \/ Abort(r) \/ Fail(r)
      PROVE  \A q \in Run : InOrder(q)'
  <2>1. ASSUME NEW q \in Run, q # r PROVE InOrder(q)'
    <3>1. /\ pc'[q] = pc[q] /\ fixtures'[q] = fixtures[q] /\ locked'[q] = locked[q]
          /\ batch'[q] = batch[q] /\ wrote'[q] = wrote[q]
      <4>1. CASE Start(r) \/ Abort(r) \/ Fail(r)
        BY <1>0, <2>1, <4>1 DEF TypeOK, Start, Abort, Fail, RolledBack, Release
      <4>2. CASE UpsertCompetition(r) \/ UpsertSeason(r) \/ CommitCatalogue(r) \/ Fetch(r)
        BY <1>0, <2>1, <4>2 DEF TypeOK, UpsertCompetition, UpsertSeason, CommitCatalogue,
                                Fetch, Lock, Release
      <4>3. CASE EnsureSeason(r) \/ LinkSeason(r) \/ UpsertHome(r) \/ UpsertAway(r)
        BY <1>0, <2>1, <4>3 DEF TypeOK, EnsureSeason, LinkSeason, UpsertHome, UpsertAway, Lock
      <4>4. CASE UpsertMatch(r) \/ CommitFixture(r) \/ Finish(r)
        BY <1>0, <2>1, <4>4 DEF TypeOK, UpsertMatch, CommitFixture, Finish, Lock, Release
      <4>5. QED
        BY <1>2, <4>1, <4>2, <4>3, <4>4 DEF Advance
    <3>2. QED
      BY <3>1, OrderKept
  <2>2. InOrder(r)'
    <3>0. InOrder(r) /\ Progress(r) /\ fixtures[r] \in Seq(Match)
      BY <1>0 DEF UInv, TypeOK
    <3>1. CASE Start(r)
      <4>1. locked'[r] \cap Match = {}
        BY <3>0, <3>1 DEF Start, InOrder, Filling
      <4>2. pc'[r] = IF r \in Daily THEN "competition" ELSE "fetch"
        BY <1>0, <3>1 DEF Start, TypeOK
      <4>3. QED
        BY <3>0, <3>1, <4>1, <4>2, RestKeepsOrder DEF Start
    <3>2. CASE Abort(r) \/ Fail(r)
      <4>1. locked'[r] = {} /\ pc'[r] = "failed" /\ UNCHANGED <<batch, wrote>>
        BY <1>0, <3>2 DEF Abort, Fail, RolledBack, Release, TypeOK
      <4>2. QED
        BY <3>0, <4>1, RestKeepsOrder
    <3>3. CASE UpsertCompetition(r)
      <4>1. Wanted(r) \in Competition
        BY <1>0, <3>0, <3>3, WantedRow DEF UpsertCompetition
      <4>2. QED
        BY <3>0, <3>3, <4>1, LockKeepsOrder, TablesAssumption DEF UpsertCompetition, Table
    <3>4. CASE UpsertSeason(r)
      <4>1. Wanted(r) \in Season
        BY <1>0, <3>0, <3>4, WantedRow DEF UpsertSeason
      <4>2. QED
        BY <3>0, <3>4, <4>1, LockKeepsOrder, TablesAssumption DEF UpsertSeason, Table
    <3>5. CASE CommitCatalogue(r)
      <4>1. locked'[r] = {} /\ pc'[r] = "fetch" /\ UNCHANGED <<batch, wrote>>
        BY <1>0, <3>5 DEF CommitCatalogue, Release, TypeOK
      <4>2. QED
        BY <3>0, <4>1, RestKeepsOrder
    <3>6. CASE Fetch(r)
      <4>1. PICK b \in Seq(Match) : fixtures'[r] = b /\ batch'[r] = b
        <5>1. PICK b \in IF Answers(r) = {} THEN {<<>>} ELSE Answers(r) :
                fixtures' = [fixtures EXCEPT ![r] = b] /\ batch' = [batch EXCEPT ![r] = b]
          BY <3>6 DEF Fetch
        <5>2. b \in Seq(Match)
          <6>1. CASE b = <<>>
            BY <6>1
          <6>2. CASE b \in Answers(r)
            BY <6>2, RunAssumption DEF Answers
          <6>3. QED
            BY <5>1, <6>1, <6>2
        <5>3. QED
          BY <1>0, <5>1, <5>2 DEF TypeOK
      <4>2. pc'[r] = "season" /\ wrote'[r] = {} /\ locked'[r] \cap Match = {}
        BY <1>0, <3>0, <3>6 DEF Fetch, TypeOK, InOrder, Filling
      <4>3. Sent(r)' = 0 /\ Len(b) \in Nat
        BY <4>1 DEF Sent
      <4>4. UpTo(r, 0)' = {}
        <5>1. 1..0 = {}
          OBVIOUS
        <5>2. QED
          BY <5>1, Zenon DEF UpTo
      <4>5. \A i \in 1..Len(b) : 0 + i = i
        BY <4>3
      <4>6. QED
        BY <4>1, <4>2, <4>3, <4>4, <4>5 DEF InOrder, Filling
    <3>7. CASE EnsureSeason(r)
      <4>1. CASE SeasonOf[Head(fixtures[r])] \in table \cup locked[r]
        <5>1. pc[r] = "season" /\ pc'[r] = "home" /\ UNCHANGED <<locked, fixtures, batch, wrote>>
          BY <1>0, <3>7, <4>1 DEF EnsureSeason, TypeOK
        <5>2. QED
          BY <3>0, <5>1, SameBatch DEF InOrder, Filling
      <4>2. CASE SeasonOf[Head(fixtures[r])] \notin table \cup locked[r]
        <5>1. Wanted(r) \in Season
          BY <1>0, <3>0, <3>7, WantedRow DEF EnsureSeason
        <5>2. QED
          BY <3>0, <3>7, <4>2, <5>1, LockKeepsOrder, TablesAssumption
             DEF EnsureSeason, Table, Filling
      <4>3. QED
        BY <4>1, <4>2
    <3>8. CASE LinkSeason(r)
      <4>1. pc[r] = "link" /\ pc'[r] = "home" /\ UNCHANGED <<locked, fixtures, batch, wrote>>
        BY <1>0, <3>8 DEF LinkSeason, TypeOK
      <4>2. QED
        BY <3>0, <4>1, SameBatch DEF InOrder, Filling
    <3>9. CASE UpsertHome(r) \/ UpsertAway(r)
      <4>1. Wanted(r) \in Team
        BY <1>0, <3>0, <3>9, WantedRow DEF UpsertHome, UpsertAway
      <4>2. QED
        BY <3>0, <3>9, <4>1, LockKeepsOrder, TablesAssumption
           DEF UpsertHome, UpsertAway, Table, Filling
    <3>10. CASE UpsertMatch(r)
      <4> DEFINE k == Sent(r)
      <4>1. /\ pc[r] = "match" /\ pc'[r] = IF r \in Daily THEN "commit" ELSE "season"
            /\ locked'[r] = locked[r] \cup {Wanted(r)}
            /\ fixtures'[r] = Tail(fixtures[r])
            /\ UNCHANGED <<batch, wrote>>
        BY <1>0, <3>10 DEF UpsertMatch, Lock, TypeOK
      <4>2. Wanted(r) = Head(fixtures[r]) /\ Wanted(r) \in Match /\ fixtures[r] # <<>>
        BY <1>0, <3>0, <4>1, WantedRow DEF Progress
      <4>3. /\ Len(fixtures[r]) \in Nat /\ Len(fixtures[r]) > 0
            /\ Head(fixtures[r]) = fixtures[r][1]
            /\ Len(Tail(fixtures[r])) = Len(fixtures[r]) - 1
            /\ \A i \in 1..Len(Tail(fixtures[r])) :
                 i + 1 \in 1..Len(fixtures[r]) /\ Tail(fixtures[r])[i] = fixtures[r][i + 1]
        BY <3>0, <4>2, HeadTail
      <4>4. /\ k \in 0..Len(batch[r])
            /\ \A i \in 1..Len(fixtures[r]) : fixtures[r][i] = batch[r][k + i]
            /\ IF r \in Daily
               THEN locked[r] \cap Match = {} /\ wrote[r] = UpTo(r, k)
               ELSE locked[r] \cap Match = UpTo(r, k) /\ wrote[r] = {}
            /\ Len(batch[r]) \in Nat
        BY <1>0, <3>0, <4>1 DEF InOrder, Filling, TypeOK
      <4>5. Sent(r)' = k + 1 /\ k + 1 \in 0..Len(batch[r])
        <5>1. Sent(r)' = Len(batch[r]) - (Len(fixtures[r]) - 1)
          BY <4>1, <4>3 DEF Sent
        <5>2. k = Len(batch[r]) - Len(fixtures[r])
          BY DEF Sent
        <5> HIDE DEF k
        <5>3. /\ Len(batch[r]) \in Nat /\ Len(fixtures[r]) \in Nat /\ Len(fixtures[r]) > 0
              /\ k \in 0..Len(batch[r])
          BY <4>3, <4>4
        <5>4. Len(batch[r]) - (Len(fixtures[r]) - 1) = k + 1 /\ k + 1 \in 0..Len(batch[r])
          BY <5>2, <5>3, OneLess
        <5>5. QED
          BY <5>1, <5>4
      <4>6. Wanted(r) = batch[r][k + 1]
        BY <4>2, <4>3, <4>4
      <4>7. \A i \in 1..Len(fixtures'[r]) : fixtures'[r][i] = batch'[r][(k + 1) + i]
        <5> SUFFICES ASSUME NEW i \in 1..Len(Tail(fixtures[r]))
                     PROVE  Tail(fixtures[r])[i] = batch[r][(k + 1) + i]
          BY <4>1
        <5>1. i \in Nat /\ k \in Nat
          BY <4>3, <4>4
        <5> HIDE DEF k
        <5>2. k + (i + 1) = (k + 1) + i
          BY <5>1
        <5>3. QED
          BY <4>3, <4>4, <5>2
      <4> HIDE DEF k
      <4>8. UpTo(r, k + 1) = UpTo(r, k) \cup {batch[r][k + 1]} /\ (k + 1) - 1 = k /\ k + 1 > 0
        BY <4>4, UpToNext
      <4>9. \A j : UpTo(r, j)' = UpTo(r, j)
        BY <4>1, SameBatch
      <4>10. locked'[r] \cap Match = (locked[r] \cap Match) \cup {batch[r][k + 1]}
        BY <4>1, <4>2, <4>6
      <4>11. (k + 1) - 1 = k /\ k + 1 > 0
        BY <4>4
      <4>12. \E j \in IF r \in Daily THEN 0..Len(batch'[r]) ELSE {0, Len(batch'[r])} :
               wrote'[r] = UpTo(r, j)'
        BY <3>0, <4>1, <4>9 DEF InOrder
      <4>13. CASE r \in Daily
        BY <4>1, <4>4, <4>5, <4>7, <4>9, <4>10, <4>11, <4>12, <4>13 DEF InOrder, Filling
      <4>14. CASE r \notin Daily
        BY <4>1, <4>4, <4>5, <4>7, <4>8, <4>9, <4>10, <4>12, <4>14 DEF InOrder, Filling
      <4>15. QED
        BY <4>13, <4>14
    <3>11. CASE CommitFixture(r)
      <4> DEFINE k == Sent(r)
      <4>1. /\ pc[r] = "commit" /\ pc'[r] = "season" /\ locked'[r] = {}
            /\ wrote'[r] = wrote[r] \cup (locked[r] \cap Match)
            /\ UNCHANGED <<fixtures, batch>>
        BY <1>0, <3>11 DEF CommitFixture, Release, TypeOK
      <4>2. /\ r \in Daily /\ k \in 0..Len(batch[r]) /\ k > 0
            /\ locked[r] \cap Match = {batch[r][k]} /\ wrote[r] = UpTo(r, k - 1)
            /\ \A i \in 1..Len(fixtures[r]) : fixtures[r][i] = batch[r][k + i]
            /\ Len(batch[r]) \in Nat
        BY <1>0, <3>0, <4>1 DEF InOrder, TypeOK
      <4>3. Sent(r)' = k
        BY <4>1 DEF Sent
      <4> HIDE DEF k
      <4>4. wrote'[r] = UpTo(r, k)
        BY <4>1, <4>2, UpToNext
      <4>5. \A j : UpTo(r, j)' = UpTo(r, j)
        BY <4>1, SameBatch
      <4>6. QED
        BY <4>1, <4>2, <4>3, <4>4, <4>5 DEF InOrder, Filling
    <3>12. CASE Finish(r)
      <4>1. /\ pc[r] = "season" /\ pc'[r] = "done" /\ locked'[r] = {} /\ fixtures[r] = <<>>
            /\ wrote'[r] = wrote[r] \cup (locked[r] \cap Match)
            /\ UNCHANGED <<fixtures, batch>>
        BY <1>0, <3>12 DEF Finish, Release, TypeOK
      <4>2. Sent(r) = Len(batch[r]) /\ Len(batch[r]) \in Nat
        BY <1>0, <4>1 DEF Sent, TypeOK
      <4>3. wrote'[r] = UpTo(r, Len(batch[r]))
        BY <3>0, <4>1, <4>2 DEF InOrder, Filling
      <4>4. \A j : UpTo(r, j)' = UpTo(r, j)
        BY <4>1, SameBatch
      <4>5. QED
        BY <4>1, <4>2, <4>3, <4>4 DEF InOrder, Filling
    <3>13. QED
      BY <1>2, <3>1, <3>2, <3>3, <3>4, <3>5, <3>6, <3>7, <3>8, <3>9, <3>10, <3>11, <3>12
         DEF Advance
  <2>3. QED
    BY <2>1, <2>2
<1>3. QED
  BY <1>1, <1>2 DEF Next

LEMMA InitInOrder == Init => \A r \in Run : InOrder(r)
<1> SUFFICES ASSUME Init, NEW r \in Run PROVE InOrder(r)
  OBVIOUS
<1>1. batch[r] = <<>> /\ wrote[r] = {} /\ locked[r] = {} /\ pc[r] = "idle" /\ Len(batch[r]) = 0
  BY DEF Init
<1>2. UpTo(r, 0) = {}
  BY UpToNone
<1>3. QED
  BY <1>1, <1>2 DEF InOrder, Filling

-----------------------------------------------------------------------------
(* Who wrote a season                                                        *)

SeasonInv == curated \subseteq table /\ \A r \in Run : Inserted(r)

\* Locking a row that is no season, or one without a row, keeps what is inserted.
LEMMA LockInserts ==
  ASSUME UInv, \A q \in Run : Inserted(q), NEW r \in Run, NEW next, Lock(r, next),
         Wanted(r) \notin Season \cap table, UNCHANGED table,
         next \in {"competition", "current"} <=> pc[r] \in {"competition", "current"}
  PROVE  \A q \in Run : Inserted(q)'
<1> SUFFICES ASSUME NEW q \in Run, pc'[q] \notin {"competition", "current"}
             PROVE  locked'[q] \cap Season \cap table = {}
  BY DEF Inserted
<1>1. TypeOK /\ Inserted(q)
  BY DEF UInv
<1>2. CASE q = r
  <2>1. pc'[r] = next /\ locked'[r] = locked[r] \cup {Wanted(r)}
    BY <1>1 DEF Lock, TypeOK
  <2>2. QED
    BY <1>1, <1>2, <2>1 DEF Inserted
<1>3. CASE q # r
  <2>1. pc'[q] = pc[q] /\ locked'[q] = locked[q]
    BY <1>1, <1>3 DEF Lock, TypeOK
  <2>2. QED
    BY <1>1, <2>1 DEF Inserted
<1>4. QED
  BY <1>2, <1>3

\* The end of a transaction: what it commits, no other one has inserted.
LEMMA EndInserts ==
  ASSUME UInv, \A q \in Run : Inserted(q), NEW r \in Run, Release(r), NEW next,
         pc' = [pc EXCEPT ![r] = next], table' = table \/ Committed(r)
  PROVE  \A q \in Run : Inserted(q)'
<1> SUFFICES ASSUME NEW q \in Run, pc'[q] \notin {"competition", "current"}
             PROVE  locked'[q] \cap Season \cap table' = {}
  BY DEF Inserted
<1>1. TypeOK /\ LocksExclude /\ Inserted(q)
  BY DEF UInv
<1>2. CASE q = r
  BY <1>1, <1>2 DEF Release, TypeOK
<1>3. CASE q # r
  <2>1. pc'[q] = pc[q] /\ locked'[q] = locked[q]
    BY <1>1, <1>3 DEF Release, TypeOK
  <2>2. locked[q] \cap Season \cap table = {} /\ locked[q] \cap locked[r] = {}
    BY <1>1, <1>3, <2>1 DEF Inserted, LocksExclude
  <2>3. QED
    BY <2>1, <2>2 DEF Committed
<1>4. QED
  BY <1>2, <1>3

LEMMA InitSeasonInv == Init => SeasonInv
BY DEF Init, SeasonInv, Inserted

\* Every step keeps the invariant, and no step takes a curated season away: what a
\* fixtures' transaction commits it has inserted, and a curated season has a row.
LEMMA NextSeasonInv ==
  UInv /\ SeasonInv /\ [Next]_vars
    => SeasonInv' /\ curated \subseteq curated'
<1> SUFFICES ASSUME UInv, SeasonInv, [Next]_vars
             PROVE  SeasonInv' /\ curated \subseteq curated'
  OBVIOUS
<1>0. TypeOK /\ curated \subseteq table /\ (\A q \in Run : Inserted(q) /\ Progress(q))
  BY DEF UInv, SeasonInv
<1>1. CASE UNCHANGED vars
  BY <1>0, <1>1 DEF vars, SeasonInv, Inserted
<1>2. ASSUME NEW r \in Run, UpsertCompetition(r) \/ UpsertSeason(r)
      PROVE  SeasonInv' /\ curated \subseteq curated'
  <2> SUFFICES ASSUME NEW q \in Run, pc'[q] \notin {"competition", "current"}
               PROVE  locked'[q] \cap Season \cap table = {}
    BY <1>0, <1>2 DEF SeasonInv, Inserted, UpsertCompetition, UpsertSeason
  <2>1. q # r
    BY <1>0, <1>2 DEF UpsertCompetition, UpsertSeason, Lock, TypeOK
  <2>2. pc'[q] = pc[q] /\ locked'[q] = locked[q]
    BY <1>0, <1>2, <2>1 DEF UpsertCompetition, UpsertSeason, Lock, TypeOK
  <2>3. QED
    BY <1>0, <2>2 DEF Inserted
<1>3. ASSUME NEW r \in Run, EnsureSeason(r)
      PROVE  SeasonInv' /\ curated \subseteq curated'
  <2>1. UNCHANGED <<table, curated>> /\ pc[r] = "season" /\ fixtures[r] # <<>>
    BY <1>3 DEF EnsureSeason
  <2>2. CASE SeasonOf[Head(fixtures[r])] \in table \cup locked[r]
    <3>1. pc' = [pc EXCEPT ![r] = "home"] /\ UNCHANGED locked
      BY <1>3, <2>2 DEF EnsureSeason
    <3>2. \A q \in Run : Inserted(q)'
      BY <1>0, <2>1, <3>1 DEF Inserted, TypeOK
    <3>3. QED
      BY <1>0, <2>1, <3>2 DEF SeasonInv
  <2>3. CASE SeasonOf[Head(fixtures[r])] \notin table \cup locked[r]
    <3>1. Lock(r, "link") /\ Wanted(r) = SeasonOf[Head(fixtures[r])]
      BY <1>0, <1>3, <2>1, <2>3, WantedRow DEF EnsureSeason
    <3>2. \A q \in Run : Inserted(q)'
      BY <1>0, <2>1, <2>3, <3>1, LockInserts
    <3>3. QED
      BY <1>0, <2>1, <3>2 DEF SeasonInv
  <2>4. QED
    BY <2>2, <2>3
<1>4. ASSUME NEW r \in Run, UpsertHome(r) \/ UpsertAway(r) \/ UpsertMatch(r)
      PROVE  SeasonInv' /\ curated \subseteq curated'
  <2>1. UNCHANGED <<table, curated>>
    BY <1>4 DEF UpsertHome, UpsertAway, UpsertMatch
  <2>2. PICK next \in {"away", "match", "commit", "season"} :
          Lock(r, next) /\ pc[r] \in {"home", "away", "match"}
    BY <1>4 DEF UpsertHome, UpsertAway, UpsertMatch
  <2>3. Wanted(r) \in Team \cup Match
    BY <1>0, <2>2, WantedRow
  <2>4. \A q \in Run : Inserted(q)'
    BY <1>0, <2>1, <2>2, <2>3, LockInserts, TablesAssumption
  <2>5. QED
    BY <1>0, <2>1, <2>4 DEF SeasonInv
<1>5. ASSUME NEW r \in Run, CommitCatalogue(r)
      PROVE  SeasonInv' /\ curated \subseteq curated'
  <2>1. \A q \in Run : Inserted(q)'
    BY <1>0, <1>5, EndInserts DEF CommitCatalogue
  <2>2. curated' \subseteq table' /\ curated \subseteq curated'
    BY <1>0, <1>5 DEF CommitCatalogue, Committed
  <2>3. QED
    BY <2>1, <2>2 DEF SeasonInv
<1>6. ASSUME NEW r \in Run, CommitFixture(r) \/ Finish(r)
      PROVE  SeasonInv' /\ curated \subseteq curated'
  <2>1. PICK next \in {"season", "done"} : pc' = [pc EXCEPT ![r] = next]
    BY <1>6 DEF CommitFixture, Finish
  <2>2. /\ Release(r) /\ Committed(r) /\ curated' = curated \ locked[r]
        /\ pc[r] \in {"commit", "season"}
    BY <1>6 DEF CommitFixture, Finish, CommitPayload
  <2>3. \A q \in Run : Inserted(q)'
    BY <1>0, <2>1, <2>2, EndInserts
  <2>4. locked[r] \cap curated = {}
    BY <1>0, <2>2 DEF Inserted, TypeOK
  <2>5. QED
    BY <1>0, <2>2, <2>3, <2>4 DEF SeasonInv, Committed
<1>7. ASSUME NEW r \in Run, Start(r) \/ Fetch(r) \/ LinkSeason(r)
      PROVE  SeasonInv' /\ curated \subseteq curated'
  <2>1. UNCHANGED <<table, curated, locked>>
    BY <1>7 DEF Start, Fetch, LinkSeason
  <2>2. ASSUME NEW q \in Run PROVE Inserted(q)'
    <3>1. CASE pc[q] \in {"competition", "current"}
      BY <1>0, <1>7, <3>1 DEF Inserted, Start, Fetch, LinkSeason, TypeOK
    <3>2. CASE pc[q] \notin {"competition", "current"}
      BY <1>0, <2>1, <3>2 DEF Inserted
    <3>3. QED
      BY <3>1, <3>2
  <2>3. QED
    BY <1>0, <2>1, <2>2 DEF SeasonInv
<1>8. ASSUME NEW r \in Run, Abort(r) \/ Fail(r)
      PROVE  SeasonInv' /\ curated \subseteq curated'
  <2>1. UNCHANGED <<table, curated>> /\ Release(r) /\ pc' = [pc EXCEPT ![r] = "failed"]
    BY <1>8 DEF Abort, Fail, RolledBack
  <2>2. \A q \in Run : Inserted(q)'
    BY <1>0, <2>1, EndInserts
  <2>3. QED
    BY <1>0, <2>1, <2>2 DEF SeasonInv
<1>9. QED
  BY <1>1, <1>2, <1>3, <1>4, <1>5, <1>6, <1>7, <1>8 DEF Next, Advance

-----------------------------------------------------------------------------
(* Theorems                                                                  *)

\* The invariant the other theorems follow from.
THEOREM UpsertInvariant == Spec => []UInv
<1>1. QED
  BY InitUInv, NextUInv, PTL DEF Spec

\* Every variable has its type.
THEOREM TypeCorrect == Spec => []TypeOK
<1>1. UInv => TypeOK
  BY DEF UInv
<1>2. QED
  BY <1>1, UpsertInvariant, PTL

\* No two open transactions hold a row, but for two foreign keys that share one.
THEOREM LocksHeldByOne == Spec => []LocksExclude
<1>1. UInv => LocksExclude
  BY DEF UInv
<1>2. QED
  BY <1>1, UpsertInvariant, PTL

\* Whatever order the runs commit or are rolled back in, no foreign key fires.
THEOREM ForeignKeysHold == Spec => []RowsFindParents
<1>1. UInv => RowsFindParents
  BY DEF UInv, Closed, Staged, RowsFindParents
<1>2. QED
  BY <1>1, UpsertInvariant, PTL

\* A fixtures' transaction never commits a season that sync_competitions has
\* written, whichever of them was opened first and whoever waited for whom.
THEOREM SeasonDataStays == Spec => SeasonDataKept
<1>1. UInv /\ SeasonInv /\ [Next]_vars => SeasonInv' /\ [curated \subseteq curated']_vars
  BY NextSeasonInv
<1>2. QED
  BY <1>1, InitSeasonInv, UpsertInvariant, PTL DEF Spec, SeasonDataKept

\* A run that fails leaves no hole in its batch, whichever statement it fails at.
THEOREM NoHolesLeft == Spec => []NoHoles
<1> DEFINE Ordered == \A r \in Run : InOrder(r)
<1>1. Spec => []Ordered
  <2>1. Init => Ordered
    BY InitInOrder
  <2>2. UInv /\ Ordered /\ [Next]_vars => Ordered'
    BY NextInOrder
  <2> HIDE DEF Ordered
  <2>3. QED
    BY <2>1, <2>2, UpsertInvariant, PTL DEF Spec
<1>2. Ordered => NoHoles
  BY DEF InOrder, UpTo, NoHoles
<1>3. QED
  BY <1>1, <1>2, PTL
=============================================================================
