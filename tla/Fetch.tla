------------------------------- MODULE Fetch -------------------------------
(***************************************************************************)
(* The football-data client (a-game-worker/app/api_client.py) as the daily  *)
(* run (main.py) and the backfill (backfill.py) use it: which pages a run   *)
(* asks for and in what order, the retries of one request, and what becomes *)
(* of the pages already read when a later one fails.                        *)
(*                                                                          *)
(* The service may answer any request with a page, with an error worth      *)
(* another attempt, with a permanent one, or with a page in which a fixture *)
(* does not validate.  A fixture is the page it is listed on and its place. *)
(***************************************************************************)
EXTENDS Integers, Sequences, SequencesExt

CONSTANTS
  Leagues,     \* the enabled league codes, in the order the query returns them
  Year,        \* the calendar year of the run
  PageSize,    \* fixtures on every page
  Back,        \* seasons the backfill looks back: 4
  Attempts     \* requests made for one page before giving up: 3

ASSUME LeaguesAssumption == Leagues \in Seq(STRING) /\ IsInjective(Leagues)
ASSUME NumbersAssumption ==
  /\ Year \in Nat /\ Year > Back
  /\ {PageSize, Back, Attempts} \subseteq Nat \ {0}

VARIABLES
  kind,      \* which program runs
  month,     \* the month it runs in
  page,      \* the page it asks for, counted from 1
  attempt,   \* the attempt at that page
  matches,   \* the fixtures read so far
  outcome,   \* "" while it runs
  denied     \* history: the pages answered with a permanent error

vars == <<kind, month, page, attempt, matches, outcome, denied>>

-----------------------------------------------------------------------------
(* The plan of a run                                                         *)

\* get_matches_per_competition: a season is named after the year it starts in.
SeasonStart(mon) == IF mon >= 7 THEN Year ELSE Year - 1

\* `seasons`, newest first.
PastSeasons == [i \in 1..Back |-> Year - i]

\* The pages of a run in the order it asks for them.  The daily run begins with
\* the list of competitions, which is no page of fixtures.
Competitions == [league |-> "", season |-> 0]
Plan(k, mon) ==
  IF k = "daily"
  THEN <<Competitions>> \o
       [i \in DOMAIN Leagues |-> [league |-> Leagues[i], season |-> SeasonStart(mon)]]
  ELSE FlattenSeq([j \in 1..Back |->
         [i \in DOMAIN Leagues |-> [league |-> Leagues[i], season |-> PastSeasons[j]]]])

\* The first n fixtures of a page.
Fixtures(p, n) ==
  IF p = Competitions THEN <<>> ELSE [i \in 1..n |-> [page |-> p, place |-> i]]

Pages == Plan(kind, month)
Running == outcome = ""

-----------------------------------------------------------------------------
(* One request                                                               *)

\* How a run ends: with the fixtures it hands on, or with the exception.
End(how, kept) == outcome' = how /\ matches' = kept

\* The backfill hands on what it has, None when that is nothing.
Stop(kept) == End(IF kept = <<>> THEN "none" ELSE "returned", kept)

\* Slip: the daily run stops at the first error as the backfill does.
RaiseStopping(kept) == Stop(kept)

\* Slip: the backfill drops what it has read when an error ends it.
RaiseDropping(kept) == End("raised", <<>>)

\* An exception of one page: it leaves the daily run; the backfill breaks out of
\* its seasons and keeps every fixture appended before.
Raise(kept) == IF kind = "daily" THEN End("raised", <<>>) ELSE Stop(kept)

\* The request is made; `answered` says how it ends.
Request(answered) ==
  /\ Running /\ page <= Len(Pages)
  /\ denied' = IF answered = "denied" THEN denied \cup {page} ELSE denied
  /\ UNCHANGED <<kind, month>>

\* 200: the page is read and the next one asked for.
Page ==
  /\ Request("page")
  /\ matches' = matches \o Fixtures(Pages[page], PageSize)
  /\ page' = page + 1 /\ attempt' = 1
  /\ UNCHANGED outcome

\* A 4xx that is not 429 is permanent: no other attempt.
Denied ==
  /\ Request("denied")
  /\ Raise(matches)
  /\ UNCHANGED <<page, attempt>>

\* Slip: the attempts begin again when they are used up.
FailedForEver ==
  /\ Request("failed")
  /\ attempt' = 1 + (attempt % Attempts)
  /\ UNCHANGED <<page, matches, outcome>>

\* Slip: one attempt too many.
FailedOnceMore ==
  /\ Request("failed")
  /\ IF attempt > Attempts THEN Raise(matches) /\ UNCHANGED attempt
     ELSE attempt' = attempt + 1 /\ UNCHANGED <<matches, outcome>>
  /\ UNCHANGED page

\* 429, 5xx or no answer: another attempt after three seconds, if one is left.
Failed ==
  /\ Request("failed")
  /\ IF attempt = Attempts THEN Raise(matches) /\ UNCHANGED attempt
     ELSE attempt' = attempt + 1 /\ UNCHANGED <<matches, outcome>>
  /\ UNCHANGED page

\* A page whose fixture n + 1 does not validate, or that is no page at all: the
\* backfill has appended the n fixtures before it.
Invalid ==
  /\ Request("page")
  /\ \E n \in 0..PageSize - 1 : Raise(matches \o Fixtures(Pages[page], n))
  /\ UNCHANGED <<page, attempt>>

\* Every page has been read.
Return ==
  /\ Running /\ page > Len(Pages)
  /\ IF kind = "daily" THEN End("returned", matches) ELSE Stop(matches)
  /\ UNCHANGED <<kind, month, page, attempt, denied>>

-----------------------------------------------------------------------------
(* Specification                                                             *)

Init ==
  /\ kind \in {"daily", "backfill"} /\ month \in 1..12
  /\ page = 1 /\ attempt = 1 /\ matches = <<>> /\ outcome = ""
  /\ denied = {}

Next == Page \/ Denied \/ Failed \/ Invalid \/ Return

\* Every request ends, by its timeout of ten seconds if nothing else.
Spec == Init /\ [][Next]_vars /\ WF_vars(Next)

-----------------------------------------------------------------------------
(* Properties                                                                *)

Asked == ToSet(Pages)
Kept(p) == {m \in ToSet(matches) : m.page = p}
Whole(p) == Kept(p) = ToSet(Fixtures(p, PageSize))

\* Type invariant.
TypeOK ==
  /\ kind \in {"daily", "backfill"} /\ month \in 1..12
  /\ page \in 1..Len(Pages) + 1 /\ attempt \in 1..Attempts
  /\ matches \in Seq([page : Asked, place : 1..PageSize])
  /\ outcome \in {"", "returned", "none", "raised"}
  /\ denied \subseteq DOMAIN Pages

\* The daily run hands on all its pages or nothing: a league missing from the
\* list would be taken for a league without fixtures.
DailyAllOrNothing ==
  kind = "daily" /\ outcome # "" =>
    IF outcome = "returned" THEN \A p \in Asked : Whole(p) ELSE matches = <<>>

\* What an error leaves the backfill with is its newest seasons: a fixture of a
\* season is kept only with every fixture of the seasons after it, and the
\* oldest season's 403 (ADR 0010) costs none of the newer ones.
NewestSeasonsKept ==
  kind = "backfill" /\ outcome # "" =>
    /\ \A m \in ToSet(matches) :
         \A p \in Asked : p.season > m.page.season => Whole(p)
    /\ \A i \in denied : \A p \in Asked : p.season > Pages[i].season => Whole(p)

\* A run ends even if the service never answers again.
FetchEnds == <>~Running
=============================================================================
