------------------------------ MODULE Upserts ------------------------------
(***************************************************************************)
(* The write side of a-game-worker/app/db.py seen from the row locks: what  *)
(* sync_competitions, sync_matches_per_competition and                      *)
(* sync_historic_matches do to the competition, season, team and match      *)
(* tables when several runs write them at once.  Module Worker follows what *)
(* is written and announced; this one follows who waits for whom.           *)
(*                                                                          *)
(* A daily run commits the catalogue in one transaction and then every      *)
(* fixture in one of its own.  The backfill writes all it fetched in a      *)
(* single transaction.  Both upsert the home team before the away team, so  *)
(* a fixture and its return fixture lock their teams in opposite orders.    *)
(***************************************************************************)
EXTENDS Naturals, Sequences, FiniteSets

CONSTANTS
  Competition, Season, Team, Match,  \* the rows, by table
  Catalogue,       \* the competitions in the order the API lists them
  CurrentSeason,   \* the usable currentSeason of each competition, or None
  CompetitionOf,   \* the competition of each season
  SeasonOf,        \* the season of each fixture
  Home, Away,      \* the two sides of each fixture
  Daily,           \* the slots of daily runs, scheduled or started by hand
  Historic,        \* the slots of backfill runs
  Batches,         \* the lists of fixtures the API may answer each run with
  None,            \* no usable currentSeason
  MaxRetries,      \* backoffLimit of the Job: pods started after a failed one
  MaxFaults        \* bound: runs cut short by anything but a deadlock

Run == Daily \cup Historic
Table == Competition \cup Season \cup Team \cup Match

ASSUME TablesAssumption ==
  /\ Competition \cap (Season \cup Team \cup Match) = {}
  /\ Season \cap (Team \cup Match) = {}
  /\ Team \cap Match = {}
  /\ None \notin Table
ASSUME KeysAssumption ==
  /\ Catalogue \in Seq(Competition)
  /\ CurrentSeason \in [Competition -> Season \cup {None}]
  /\ CompetitionOf \in [Season -> Competition]
  /\ SeasonOf \in [Match -> Season]
  /\ Home \in [Match -> Team] /\ Away \in [Match -> Team]
  /\ \A c \in Competition :
       CurrentSeason[c] # None => CompetitionOf[CurrentSeason[c]] = c
ASSUME RunAssumption ==
  /\ Daily \cap Historic = {}
  /\ Batches \in [Run -> SUBSET Seq(Match)]
ASSUME BoundAssumption == MaxRetries \in Nat /\ MaxFaults \in Nat

VARIABLES
  table,     \* the committed rows
  curated,   \* the committed seasons whose columns sync_competitions wrote last
  pc,        \* the statement each run is at
  listed,    \* the competitions a run has still to upsert
  fixtures,  \* the fixtures a run has still to upsert
  locked,    \* the rows each open transaction wrote or locked for itself
  shared,    \* the competitions it holds with the KEY SHARE of a foreign key
  batch,     \* history: the fixtures the run was answered with
  wrote,     \* history: the fixtures it has committed
  retries,   \* pods started for a failed Job
  faults     \* counts towards MaxFaults

vars == <<table, curated, pc, listed, fixtures, locked, shared, batch, wrote,
          retries, faults>>

\* The statements, in code order; between them the run talks to the API only.
Statement == {"competition", "current", "season", "link", "home", "away",
              "match", "commit"}
Resting == {"idle", "done", "failed"}

-----------------------------------------------------------------------------
(* Row locks                                                                 *)

Competing(m) == CompetitionOf[SeasonOf[m]]

\* The row the next statement of a run has to lock, None when it locks none.
Wanted(r) ==
  LET m == Head(fixtures[r]) IN
  CASE pc[r] = "competition" /\ listed[r] # <<>> -> Head(listed[r])
    [] pc[r] = "current" -> CurrentSeason[Head(listed[r])]
    [] pc[r] = "season" /\ fixtures[r] # <<>> -> SeasonOf[m]
    [] pc[r] = "link" -> Competing(m)
    [] pc[r] = "home" -> Home[m]
    [] pc[r] = "away" -> Away[m]
    [] pc[r] = "match" -> m
    [] OTHER -> None

\* r cannot go on before q's transaction ends.  ON CONFLICT DO NOTHING waits only
\* for a row that is being inserted; the foreign key of an inserted season asks
\* for KEY SHARE, which conflicts with sync_competitions only, whose SET list
\* holds the unique `code`; ON CONFLICT DO UPDATE conflicts with every holder.
WaitsFor(r, q) ==
  /\ r # q
  /\ CASE pc[r] = "season" -> Wanted(r) \in locked[q] \ table
       [] pc[r] = "link" -> Wanted(r) \in locked[q]
       [] OTHER -> Wanted(r) \in locked[q] \cup shared[q]

Free(r) == \A q \in Run : ~WaitsFor(r, q)

\* A cycle of waiting transactions through r: a set of them none of whose parts
\* can be left without following an edge.
InCycle(r) ==
  /\ ~Free(r)
  /\ \E S \in SUBSET Run :
       /\ r \in S /\ S # {r}
       /\ \A T \in SUBSET S \ {{}, S} : \E p \in T, q \in S \ T : WaitsFor(p, q)

-----------------------------------------------------------------------------
(* The start of a run and sync_competitions                                  *)

\* main(): a fresh Job, or the pod that replaces a failed one.  The backfill ends
\* with exit code 0 whatever happened and is never replaced.
Start(r) ==
  /\ \/ pc[r] = "idle" /\ UNCHANGED retries
     \/ /\ r \in Daily /\ pc[r] = "failed" /\ retries[r] < MaxRetries
        /\ retries' = [retries EXCEPT ![r] = @ + 1]
  /\ pc' = [pc EXCEPT ![r] = IF r \in Daily THEN "competition" ELSE "fetch"]
  /\ listed' = [listed EXCEPT ![r] = IF r \in Daily THEN Catalogue ELSE <<>>]
  /\ UNCHANGED <<table, curated, fixtures, locked, shared, batch, wrote, faults>>

\* Lock the wanted row and go on at `next`.
Lock(r, next) ==
  /\ Free(r)
  /\ locked' = [locked EXCEPT ![r] = @ \cup {Wanted(r)}]
  /\ pc' = [pc EXCEPT ![r] = next]

\* Slip: a competition without a usable currentSeason is not skipped.
UpsertCompetitionUnchecked(r) ==
  /\ pc[r] = "competition" /\ listed[r] # <<>>
  /\ Lock(r, "current")
  /\ UNCHANGED <<table, curated, listed, fixtures, shared, batch, wrote, retries, faults>>

UpsertCompetition(r) ==
  /\ pc[r] = "competition" /\ listed[r] # <<>>
  /\ LET current == CurrentSeason[Head(listed[r])] # None IN
       /\ Lock(r, IF current THEN "current" ELSE "competition")
       /\ listed' = IF current THEN listed
                    ELSE [listed EXCEPT ![r] = Tail(@)]
  /\ UNCHANGED <<table, curated, fixtures, shared, batch, wrote, retries, faults>>

UpsertSeason(r) ==
  /\ pc[r] = "current"
  /\ Lock(r, "competition")
  /\ listed' = [listed EXCEPT ![r] = Tail(@)]
  /\ UNCHANGED <<table, curated, fixtures, shared, batch, wrote, retries, faults>>

\* The end of a transaction, either way.
Release(r) ==
  /\ locked' = [locked EXCEPT ![r] = {}]
  /\ shared' = [shared EXCEPT ![r] = {}]

Committed(r) == table' = table \cup locked[r]

CommitCatalogue(r) ==
  /\ pc[r] = "competition" /\ listed[r] = <<>>
  /\ Committed(r) /\ Release(r)
  /\ curated' = curated \cup (locked[r] \cap Season)
  /\ pc' = [pc EXCEPT ![r] = "fetch"]
  /\ UNCHANGED <<listed, fixtures, batch, wrote, retries, faults>>

-----------------------------------------------------------------------------
(* The fixtures                                                              *)

\* The answers that only list fixtures of leagues get_league_codes can return.
Answers(r) == {b \in Batches[r] : \A i \in DOMAIN b : Competing(b[i]) \in table}

\* get_league_codes and the API; without a league there is nothing to ask for.
Fetch(r) ==
  /\ pc[r] = "fetch"
  /\ \E b \in IF Answers(r) = {} THEN {<<>>} ELSE Answers(r) :
       /\ fixtures' = [fixtures EXCEPT ![r] = b]
       /\ batch' = [batch EXCEPT ![r] = b]
  /\ wrote' = [wrote EXCEPT ![r] = {}]
  /\ pc' = [pc EXCEPT ![r] = "season"]
  /\ UNCHANGED <<table, curated, listed, locked, shared, retries, faults>>

\* Slip: the teams' statement is copied, ON CONFLICT DO UPDATE writes the season.
EnsureSeasonOverwriting(r) ==
  /\ pc[r] = "season" /\ fixtures[r] # <<>>
  /\ Lock(r, IF SeasonOf[Head(fixtures[r])] \in table \cup locked[r] THEN "home" ELSE "link")
  /\ UNCHANGED <<table, curated, listed, fixtures, shared, batch, wrote, retries, faults>>

\* The season as the fixture's payload has it, ON CONFLICT DO NOTHING: one that has
\* a row is neither written nor locked, one that another run inserts is waited for.
EnsureSeason(r) ==
  /\ pc[r] = "season" /\ fixtures[r] # <<>>
  /\ IF SeasonOf[Head(fixtures[r])] \in table \cup locked[r]
     THEN pc' = [pc EXCEPT ![r] = "home"] /\ UNCHANGED locked
     ELSE Lock(r, "link")
  /\ UNCHANGED <<table, curated, listed, fixtures, shared, batch, wrote, retries, faults>>

\* The foreign key of the season just inserted.
LinkSeason(r) ==
  /\ pc[r] = "link"
  /\ Free(r)
  /\ shared' = [shared EXCEPT ![r] = @ \cup {Wanted(r)}]
  /\ pc' = [pc EXCEPT ![r] = "home"]
  /\ UNCHANGED <<table, curated, listed, fixtures, locked, batch, wrote, retries, faults>>

\* Slip: only the home side of a fixture is upserted.
UpsertHomeOnly(r) ==
  /\ pc[r] = "home"
  /\ Lock(r, "match")
  /\ UNCHANGED <<table, curated, listed, fixtures, shared, batch, wrote, retries, faults>>

UpsertHome(r) ==
  /\ pc[r] = "home"
  /\ Lock(r, "away")
  /\ UNCHANGED <<table, curated, listed, fixtures, shared, batch, wrote, retries, faults>>

UpsertAway(r) ==
  /\ pc[r] = "away"
  /\ Lock(r, "match")
  /\ UNCHANGED <<table, curated, listed, fixtures, shared, batch, wrote, retries, faults>>

\* The fixture itself.  A daily run commits next, the backfill takes the next one.
UpsertMatch(r) ==
  /\ pc[r] = "match"
  /\ Lock(r, IF r \in Daily THEN "commit" ELSE "season")
  /\ fixtures' = [fixtures EXCEPT ![r] = Tail(@)]
  /\ UNCHANGED <<table, curated, listed, shared, batch, wrote, retries, faults>>

\* What the fixtures' transaction wrote is committed.  A season among it holds the
\* columns of a fixture's payload from now on, whoever wrote it before.
CommitPayload(r) == Committed(r) /\ curated' = curated \ locked[r]

CommitFixture(r) ==
  /\ pc[r] = "commit"
  /\ CommitPayload(r) /\ Release(r)
  /\ wrote' = [wrote EXCEPT ![r] = @ \cup (locked[r] \cap Match)]
  /\ pc' = [pc EXCEPT ![r] = "season"]
  /\ UNCHANGED <<listed, fixtures, batch, retries, faults>>

\* The loop is over: the backfill commits now, a daily run has nothing open.
Finish(r) ==
  /\ pc[r] = "season" /\ fixtures[r] = <<>>
  /\ CommitPayload(r) /\ Release(r)
  /\ wrote' = [wrote EXCEPT ![r] = @ \cup (locked[r] \cap Match)]
  /\ pc' = [pc EXCEPT ![r] = "done"]
  /\ UNCHANGED <<listed, fixtures, batch, retries, faults>>

-----------------------------------------------------------------------------
(* Errors                                                                    *)

\* Slip: the error is caught in the loop and the next fixture is tried.
RolledBackSkipping(r) ==
  /\ Release(r)
  /\ fixtures' = [fixtures EXCEPT ![r] = IF @ = <<>> THEN @ ELSE Tail(@)]
  /\ listed' = [listed EXCEPT ![r] = <<>>]
  /\ pc' = [pc EXCEPT ![r] = "season"]
  /\ UNCHANGED <<table, curated, batch, wrote, retries>>

\* Slip: the statement is sent again inside the transaction it has failed.
RolledBackResending(r) ==
  UNCHANGED <<table, curated, pc, listed, fixtures, locked, shared, batch, wrote, retries>>

\* The exception leaves the transaction's block and then main().
RolledBack(r) ==
  /\ Release(r)
  /\ fixtures' = [fixtures EXCEPT ![r] = <<>>]
  /\ listed' = [listed EXCEPT ![r] = <<>>]
  /\ pc' = [pc EXCEPT ![r] = "failed"]
  /\ UNCHANGED <<table, curated, batch, wrote, retries>>

\* Postgres breaks a cycle by raising deadlock_detected in one of its sessions.
Abort(r) == InCycle(r) /\ RolledBack(r) /\ UNCHANGED faults

\* Anything else: a lost connection, an API error, a killed pod.
Fail(r) ==
  /\ pc[r] \in Statement \cup {"fetch"}
  /\ faults < MaxFaults
  /\ RolledBack(r)
  /\ faults' = faults + 1

-----------------------------------------------------------------------------
(* Specification                                                             *)

\* Earlier runs may have left competitions, the API listing no season for them.
Init ==
  /\ table \in SUBSET Competition /\ curated = {}
  /\ pc = [r \in Run |-> "idle"]
  /\ listed = [r \in Run |-> <<>>] /\ fixtures = [r \in Run |-> <<>>]
  /\ locked = [r \in Run |-> {}] /\ shared = [r \in Run |-> {}]
  /\ batch = [r \in Run |-> <<>>] /\ wrote = [r \in Run |-> {}]
  /\ retries = [r \in Run |-> 0] /\ faults = 0

\* What a run does by itself once it has been started.
Advance(r) ==
  \/ UpsertCompetition(r) \/ UpsertSeason(r) \/ CommitCatalogue(r)
  \/ Fetch(r)
  \/ EnsureSeason(r) \/ LinkSeason(r)
  \/ UpsertHome(r) \/ UpsertAway(r) \/ UpsertMatch(r) \/ CommitFixture(r)
  \/ Finish(r)

Next == \E r \in Run : Start(r) \/ Advance(r) \/ Abort(r) \/ Fail(r)

\* A run goes on whenever it can, and Postgres looks for deadlocks after every
\* deadlock_timeout of waiting.
Spec ==
  /\ Init /\ [][Next]_vars
  /\ \A r \in Run : WF_vars(Advance(r)) /\ WF_vars(Abort(r))

-----------------------------------------------------------------------------
(* Properties                                                                *)

\* Type invariant.
TypeOK ==
  /\ table \subseteq Table
  /\ curated \subseteq Season
  /\ pc \in [Run -> Statement \cup Resting \cup {"fetch"}]
  /\ listed \in [Run -> Seq(Competition)]
  /\ fixtures \in [Run -> Seq(Match)]
  /\ locked \in [Run -> SUBSET Table]
  /\ shared \in [Run -> SUBSET Competition]
  /\ batch \in [Run -> Seq(Match)]
  /\ wrote \in [Run -> SUBSET Match]
  /\ retries \in [Run -> Nat]
  /\ faults \in Nat

\* The rows a row refers to.
Parents(x) ==
  {c \in Competition : x \in Season /\ c = CompetitionOf[x]}
  \cup {s \in Season : x \in Match /\ s = SeasonOf[x]}
  \cup {t \in Team : x \in Match /\ t \in {Home[x], Away[x]}}

\* No foreign key ever fires: whatever order the runs commit in, and whichever of
\* them is rolled back, a row that is committed or about to be refers to rows that
\* are committed or in the same transaction (db.py: season, teams, then match).
RowsFindParents ==
  /\ \A x \in table : Parents(x) \subseteq table
  /\ \A r \in Run : \A x \in locked[r] : Parents(x) \subseteq table \cup locked[r]

\* Two open transactions never hold the same row unless both only refer to it.
LocksExclude ==
  \A r, q \in Run :
    r # q => locked[r] \cap (locked[q] \cup shared[q]) = {}

\* A failed run leaves no hole: a daily run has committed the first fixtures of
\* its list and none behind one it gave up on, the backfill all of them or none.
NoHoles ==
  LET upTo(r, k) == {batch[r][i] : i \in 1..k} IN
  \A r \in Run :
    \E k \in IF r \in Daily THEN 0..Len(batch[r]) ELSE {0, Len(batch[r])} :
      wrote[r] = upTo(r, k)

\* "never overwrite it. sync_competitions owns season data" (db.py): a season it has
\* written is not in what a fixtures' transaction commits, although that transaction
\* was opened before the season was written or waited for the one that wrote it.
SeasonDataKept == [][curated \subseteq curated']_vars

\* No run waits for ever: every started run ends, done or with an error.
EveryRunEnds ==
  \A r \in Run : pc[r] \notin Resting ~> pc[r] \in Resting
=============================================================================
