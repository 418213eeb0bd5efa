------------------------------- MODULE Engine -------------------------------
(***************************************************************************)
(* The prediction engine (a-game-brain/app/engine and the half of           *)
(* handlers.process_job that calls it): from the finished matches of one    *)
(* competition to the numbers of one prediction row.  Elo replays them one  *)
(* by one; Poisson fits attack and defence strengths to their goals and     *)
(* reads every probability off a score matrix.                              *)
(*                                                                          *)
(* Floats become exact integers and fractions.  Ratings are counted in      *)
(* fiftieths of a point, so that K_FACTOR times a percentage times a tenth  *)
(* is whole; a date counts half-lives.  exp(-rate) is a factor of every     *)
(* cell of the matrix and cancels in the normalisation.  Keys lose their    *)
(* competition, since the history read is always that of one.               *)
(***************************************************************************)
EXTENDS Integers, Sequences, FiniteSets, FiniteSetsExt

CONSTANTS
  Team,
  Date,         \* kick-off times, in half-lives of the recency decay
  Now,          \* the instant the strengths are fitted for
  Score,        \* the scorelines that occur: pairs of goals
  None,         \* no rating, no model, no row
  MAX_GOALS,    \* goals per side the score matrix runs to
  MaxMatches    \* bound: matches in the history

ASSUME EngineAssumption ==
  /\ IsFiniteSet(Team)
  /\ Date \subseteq Nat /\ Now \in Nat
  /\ Score \subseteq Nat \X Nat
  /\ MAX_GOALS \in Nat /\ MaxMatches \in Nat
  /\ None \notin Int

VARIABLES
  rows,        \* the finished matches, in the order the caller hands them over
  left,        \* positions of those not yet replayed
  ratings,     \* Elo: the live rating map
  snapshots,   \* Elo: both sides' ratings before each match, by match id
  paid,        \* history: the points handed out as seeds
  strengths,   \* Poisson: the fitted model
  prediction   \* the row store_prediction inserts

vars == <<rows, left, ratings, snapshots, paid, strengths, prediction>>

Game == {g \in [date : Date, home : Team, away : Team, goals : Score] : g.home # g.away}
Result == {[id |-> id, date |-> g.date, home |-> g.home, away |-> g.away, goals |-> g.goals] :
             id \in 1..MaxMatches, g \in Game}

Product(f, S) == FoldFunctionOnSet(LAMBDA x, y : x * y, 1, f, S)
Power(base, n) == Product([k \in 1..n |-> base], 1..n)

-----------------------------------------------------------------------------
(* Elo                                                                      *)

\* app.engine.params, in fiftieths of a point.
DEFAULT_RATING == 75000
HOME_ADVANTAGE == 3500
PROMOTED_PENALTY == 2500

\* In percent: the logistic curve, straightened, and never certain of a result.
expected_score(home, away) ==
  Max({1, Min({99, 50 + (home + HOME_ADVANTAGE - away) \div 350})})

\* log2(margin + 1) in tenths; a draw counts like one goal.
goal_difference_multiplier(margin) ==
  IF margin <= 1 THEN 10 ELSE IF margin = 2 THEN 16 ELSE IF margin = 3 THEN 20 ELSE 23

\* What a newcomer starts with: the average of the league less the penalty.
seed_rating(map) ==
  LET rated == {t \in Team : map[t] # None} IN
  IF rated = {} THEN DEFAULT_RATING
  ELSE SumFunctionOnSet(map, rated) \div Cardinality(rated) - PROMOTED_PENALTY

Newcomers(map, r) == {t \in {r.home, r.away} : map[t] = None}

\* Slip: one side after the other, so that the first moves the second one's average.
SeededOneByOne(map, r) ==
  LET seed(m, t) == [m EXCEPT ![t] = IF @ = None THEN seed_rating(m) ELSE @]
  IN  seed(seed(map, r.home), r.away)

\* Both sides are seeded from the same average.
Seeded(map, r) ==
  LET seed == seed_rating(map)
  IN  [t \in Team |-> IF t \in Newcomers(map, r) THEN seed ELSE map[t]]

Gain(map, r) ==
  LET margin == r.goals[1] - r.goals[2]
      actual == IF margin > 0 THEN 100 ELSE IF margin < 0 THEN 0 ELSE 50
  IN  goal_difference_multiplier(Max({margin, -margin}))
        * (actual - expected_score(map[r.home], map[r.away]))

\* Slip: the away side's change is computed anew, from the home side's new rating.
RatedTwice(map, r) ==
  LET home == [map EXCEPT ![r.home] = @ + Gain(map, r)]
  IN  [home EXCEPT ![r.away] = @ - Gain(home, r)]

\* What the home side gains the away side loses.
Rated(map, r) == [map EXCEPT ![r.home] = @ + Gain(map, r), ![r.away] = @ - Gain(map, r)]

\* Slip: the sort key is the date alone; matches of one day keep the caller's order.
EarlierByDate(r, s) == r.date < s.date

\* The sort key (utc_date, match_id).
Earlier(r, s) == r.date < s.date \/ (r.date = s.date /\ r.id < s.id)

\* sorted() is stable: what the key does not tell apart keeps its order.
Due(i) == i \in left /\ \A j \in left : \/ Earlier(rows[i], rows[j])
                                        \/ ~Earlier(rows[j], rows[i]) /\ i <= j

\* apply_match, for the next match of the sorted history.
apply_match ==
  \E i \in left :
    /\ Due(i)
    /\ LET r == rows[i]
           map == Seeded(ratings, r)
       IN /\ ratings' = Rated(map, r)
          /\ snapshots' = [snapshots EXCEPT ![r.id] = <<map[r.home], map[r.away]>>]
          /\ paid' = paid + SumFunctionOnSet(map, Newcomers(ratings, r))
    /\ left' = left \ {i}
    /\ UNCHANGED <<rows, strengths, prediction>>

-----------------------------------------------------------------------------
(* Poisson                                                                  *)

\* Exponential recency weight, times 2^Now; a future match clamps to full weight.
Weight(r) == Power(2, Now - Max({Now - r.date, 0}))

Plays(r, t) == t \in {r.home, r.away}
Scored(r, t) == IF ~Plays(r, t) THEN 0 ELSE r.goals[IF t = r.home THEN 1 ELSE 2]
Conceded(r, t) == IF ~Plays(r, t) THEN 0 ELSE r.goals[IF t = r.home THEN 2 ELSE 1]

\* Slip: every side is measured against the home side's rate.
BaselineHome(home, away, r, t) == IF Plays(r, t) THEN home ELSE 0

\* What an average side would have scored at that end of the pitch, given the rates
\* of the two ends.
Baseline(home, away, r, t) ==
  IF ~Plays(r, t) THEN 0 ELSE IF t = r.home THEN home ELSE away

\* Slip: a side's own record, without the pull towards the league's average.
ShrinkNothing(observed, expected, sample) ==
  IF expected = 0 THEN <<1, 1>> ELSE <<observed, expected>>

\* Slip: nothing guards the division where a league has scored no goal at one end.
ShrinkUnguarded(observed, expected, sample) ==
  LET prior == 6 * Power(2, Now) IN
  <<sample * observed + prior * expected, (sample + prior) * expected>>

\* A side's record blended with the league's average of 1, as a fraction:
\* MIN_SAMPLE = 6 matches of full weight count for the average.
Shrink(observed, expected, sample) ==
  LET prior == 6 * Power(2, Now) IN
  IF expected = 0 THEN <<1, 1>>
  ELSE <<sample * observed + prior * expected, (sample + prior) * expected>>

\* Weighted sum of a quantity over the history.
Total(quantity) ==
  SumFunctionOnSet([i \in DOMAIN rows |-> Weight(rows[i]) * quantity[i]], DOMAIN rows)

\* The sums behind the strengths.  The rates of the two ends keep their common
\* denominator `weight`, and what is compared with them is scaled by it.
Sums ==
  LET games == DOMAIN rows
      weight == Total([i \in games |-> 1])
      home == Total([i \in games |-> rows[i].goals[1]])
      away == Total([i \in games |-> rows[i].goals[2]])
  IN [weight |-> weight, home |-> home, away |-> away,
      scored |-> [t \in Team |-> weight * Total([i \in games |-> Scored(rows[i], t)])],
      conceded |-> [t \in Team |-> weight * Total([i \in games |-> Conceded(rows[i], t)])],
      toScore |-> [t \in Team |-> Total([i \in games |-> Baseline(home, away, rows[i], t)])],
      toConcede |-> [t \in Team |-> Total([i \in games |-> Baseline(away, home, rows[i], t)])],
      sample |-> [t \in Team |-> Total([i \in games |-> IF Plays(rows[i], t) THEN 1 ELSE 0])]]

\* Once the history is read.  An empty one leaves both rates at zero.
fit ==
  /\ left = {} /\ strengths = None
  /\ LET s == Sums IN
     strengths' = [s EXCEPT !.scored = [t \in Team |-> Shrink(@[t], s.toScore[t], s.sample[t])],
                            !.conceded = [t \in Team |-> Shrink(@[t], s.toConcede[t], s.sample[t])],
                            !.weight = Max({@, 1})]
  /\ UNCHANGED <<rows, left, ratings, snapshots, paid, prediction>>

\* The league's rate for one end, times the attack, times the opponent's defence.
Rate(league, attack, defence) ==
  <<league * attack[1] * defence[1], strengths.weight * attack[2] * defence[2]>>

expected_goals(home, away) ==
  <<Rate(strengths.home, strengths.scored[home], strengths.conceded[away]),
    Rate(strengths.away, strengths.scored[away], strengths.conceded[home])>>

\* The matrix tells rates apart by the half goal, up to two goals; only a rate of
\* zero counts as zero.
Halves == 0..4
HalfGoals(rate) == Min({4, (2 * rate[1] + rate[2] - 1) \div rate[2]})

-----------------------------------------------------------------------------
(* The score matrix                                                         *)

Goals == 0 .. MAX_GOALS
Cell == Goals \X Goals

\* MAX_GOALS! / goals!
Falling(goals) == Product([k \in Goals |-> k], (goals + 1)..MAX_GOALS)

\* rate^goals / goals!, in whole numbers.  rate**0 is 1, also for a rate of zero.
Pmf(half, goals) == Power(half, goals) * Power(2, MAX_GOALS - goals) * Falling(goals)

\* The mass of a set of scorelines.
Mass(home, away, cells) ==
  SumFunctionOnSet([c \in Cell |-> Pmf(home, c[1]) * Pmf(away, c[2])], cells)

HomeWins == {c \in Cell : c[1] > c[2]}
AwayWins == {c \in Cell : c[1] < c[2]}
Draws == {c \in Cell : c[1] = c[2]}

Over == {c \in Cell : c[1] + c[2] > 2}
Both == {c \in Cell : c[1] > 0 /\ c[2] > 0}

\* Slip: a share rounded to whole percents, as the prompt shows it.
NormalisedToPercent(mass, home, draw, away) ==
  LET total == home + draw + away IN 100 * ((2 * 100 * mass + total) \div (2 * total))

\* A share of the matrix, rounded to four decimals.
Normalised(mass, home, draw, away) ==
  LET total == home + draw + away IN (2 * 10000 * mass + total) \div (2 * total)

\* score_probabilities and the rounding of store_prediction, for every pair of rates.
score_probabilities == [home \in Halves |-> [away \in Halves |->
  LET mass(cells) == Mass(home, away, cells)
      share(cells) == Normalised(mass(cells), mass(HomeWins), mass(Draws), mass(AwayWins))
  IN [home |-> share(HomeWins), draw |-> share(Draws), away |-> share(AwayWins),
      over |-> share(Over), both |-> share(Both)]]]

\* process_job: what the replay has left of a side, or the seed of one it has not met.
\* The snapshots that elo.run returns beside the ratings are dropped.
LiveRating(team) == IF ratings[team] # None THEN ratings[team] ELSE seed_rating(ratings)

\* The numbers of one fixture, match_id being None for one that is yet to be played.
\* The job may be late, and the fixture in the history it is predicted from.
predict(match_id, home, away) ==
  /\ strengths # None /\ prediction = None
  /\ LET rates == expected_goals(home, away) IN
     prediction' = [match_id |-> match_id,
                    elo |-> <<LiveRating(home), LiveRating(away)>>,
                    rates |-> rates,
                    probs |-> score_probabilities[HalfGoals(rates[1])][HalfGoals(rates[2])]]
  /\ UNCHANGED <<rows, left, ratings, snapshots, paid, strengths>>

-----------------------------------------------------------------------------
Permutation(n) == {p \in [1..n -> 1..n] : \A i, j \in 1..n : p[i] = p[j] => i = j}

\* Any history, handed over in any order.
Init ==
  /\ \E n \in 0..MaxMatches : \E game \in [1..n -> Game], id \in Permutation(n) :
       rows = [i \in 1..n |-> [id |-> id[i], date |-> game[i].date, home |-> game[i].home,
                               away |-> game[i].away, goals |-> game[i].goals]]
  /\ left = DOMAIN rows
  /\ ratings = [t \in Team |-> None]
  /\ snapshots = [id \in 1..MaxMatches |-> None]
  /\ paid = 0 /\ strengths = None /\ prediction = None

Next ==
  \/ apply_match
  \/ fit
  \/ \E home \in Team : \E away \in Team \ {home} : predict(None, home, away)
  \/ \E i \in DOMAIN rows : predict(rows[i].id, rows[i].home, rows[i].away)

Spec == Init /\ [][Next]_vars

-----------------------------------------------------------------------------
(* Properties                                                               *)

\* Type invariant.
TypeOK ==
  /\ \A i \in DOMAIN rows : rows[i] \in Result
  /\ left \subseteq DOMAIN rows
  /\ ratings \in [Team -> Int \cup {None}]
  /\ \A id \in DOMAIN snapshots : snapshots[id] # None => snapshots[id] \in Int \X Int
  /\ paid \in Int
  /\ strengths # None => /\ strengths.home \in Nat /\ strengths.away \in Nat
                        /\ \A t \in Team : strengths.scored[t] \in Nat \X (Nat \ {0})
  /\ prediction # None => prediction.rates \in Seq(Nat \X (Nat \ {0}))

\* The ratings after a set of matches, walked from the last one back.
Stamp(r) == r.date * (MaxMatches + 1) + r.id
RatingsAfter[past \in SUBSET {rows[i] : i \in DOMAIN rows}] ==
  IF past = {} THEN [t \in Team |-> None]
  ELSE LET last == CHOOSE r \in past : \A s \in past : Stamp(s) <= Stamp(r)
           map == RatingsAfter[past \ {last}]
       IN Rated(Seeded(map, last), last)

\* Two replays of identical data agree (elo.run): what a match is rated with depends
\* on the set of the matches before it, not on the order the rows came in.
WalkForward ==
  \A i \in DOMAIN rows \ left :
    LET r == rows[i]
        past == {s \in {rows[j] : j \in DOMAIN rows} : Stamp(s) < Stamp(r)}
        map == Seeded(RatingsAfter[past], r)
    IN snapshots[r.id] = <<map[r.home], map[r.away]>>

\* Zero-sum: a league holds exactly the points its newcomers brought along.
PointsConserved ==
  SumFunctionOnSet(ratings, {t \in Team : ratings[t] # None}) = paid

\* Two sides that meet before either has played start level (elo.apply_match), whatever
\* the league is worth by then and whichever of them is at home.
NewcomersStartLevel ==
  \A i \in DOMAIN rows \ left :
    (\A j \in DOMAIN rows : Stamp(rows[j]) < Stamp(rows[i]) =>
       {rows[j].home, rows[j].away} \cap {rows[i].home, rows[i].away} = {})
    => snapshots[rows[i].id][1] = snapshots[rows[i].id][2]

\* 1.0 is league average: taken over all sides, the goals scored and conceded are
\* exactly those the baselines expect.
LeagueAverageIsOne ==
  LET sum(f) == SumFunctionOnSet(f, Team) IN
  strengths # None /\ prediction = None =>
                      /\ sum(Sums.scored) = sum(Sums.toScore)
                      /\ sum(Sums.conceded) = sum(Sums.toConcede)

\* A rate of zero makes every scoreline but nil certain not to happen.  It occurs
\* only where no side of the league has scored at that end of the pitch (in an
\* empty history, at both), never because of one side's record.
NilNeedsGoallessLeague ==
  prediction # None => \A end \in {1, 2} :
    prediction.rates[end][1] = 0 <=> \A i \in DOMAIN rows : rows[i].goals[end] = 0

\* What the CHECK prediction_1x2_sums_to_one asks for, in units of 0.0001.
SumsToOne(home, draw, away) ==
  -5 <= home + draw + away - 10000 /\ home + draw + away - 10000 <= 5

\* The three numbers are rounded one by one, and still no prediction row is ever
\* refused by a CHECK of 08_prediction.sql: that would cost the job its result.
RowAccepted ==
  prediction # None =>
    LET p == prediction.probs IN
    /\ SumsToOne(p.home, p.draw, p.away)
    /\ {p.home, p.draw, p.away, p.over, p.both} \subseteq 0..10000

-----------------------------------------------------------------------------
(* What the documents say, and the runs refute                              *)

\* 08_prediction.sql: elo_home and elo_away are "ratings as they stood at kickoff,
\* straight from RatingSnapshot".  A snapshot exists where the job is late.
EloFromSnapshot ==
  prediction # None /\ prediction.match_id # None =>
    prediction.elo = snapshots[prediction.match_id]
=============================================================================
