# Formal model of a-game

a-game predicts football matches. A daily job reads fixtures from football-data.org into
Postgres, a consumer computes numbers and a short preview for every fixture that changed,
and an API serves the preview. This directory holds TLA+ modules that model the parts with
behaviour, TLC configurations that check them on small instances, and TLAPS proofs of
all their safety properties for instances of any size.

    tlc -workers 2 -config MCWorker_overlap.cfg MCWorker     # one run
    tlapm WorkerProofs.tla                                   # its proofs

## 1. Inventory

| Part | State it keeps | Operations | Talks to |
|---|---|---|---|
| Worker, daily run (`a-game-worker/app/main.py`, `db.py`, `producer.py`, `api_client.py`) | none between runs; writes `match`, `team`, `season`, `competition`, `rabbit_event` | sync competitions, fetch scheduled fixtures per league, upsert each fixture with its event, drain the events to the queue, delete them | feed (HTTP), Postgres, RabbitMQ |
| Backfill (`backfill.py`) | none; writes `match` and parents | fetch finished matches of four seasons, upsert them all in one transaction | feed, Postgres |
| Competitions and seasons (`db.py`) | `competition`, `season` | the catalogue upserts them with all columns, a fixture only ensures that its season exists | Postgres |
| Outbox (`postgres/06_rabbit_event.sql`) | committed, unpublished events | insert with the match row, read in id order, delete by id | worker only |
| Queue (RabbitMQ, durable, persistent messages) | match ids | publish, deliver one at a time, ack, reject, redeliver | worker, brain |
| Brain consumer and job (`a-game-brain/app/consumer.py`, `handlers.py`, `db.py`) | the message in hand; writes `prediction`, `commentary`, Redis | deliver, read fixture, read history, compute, preview, store both, warm the cache, ack | queue, Postgres, LLM, Redis |
| Engine (`engine/elo.py`, `engine/poisson.py`) | none, rebuilt for every job | replay ratings, fit strengths, score matrix | – |
| API read path (`a-game-api/app/main.py`, `db.py`) | none; writes Redis | GET by match id: Redis, then Postgres, backfill | Redis, Postgres |
| Startup and probes (`stores.py`, `store.py`, `main.py` of both services) | retry counters, readiness flag | connect with retries, health, readiness | all stores |
| Manifest checkers (`scripts/check_k8s_*.py`) | none | find egress rules without ingress, dangling references | files |

What is hard:

* **Concurrency.** A manual job may run beside the scheduled one (`concurrencyPolicy: Forbid`
  only concerns the CronJob itself), the backfill beside both. All write the same rows and
  drain the same outbox. During a rollout two brains consume one queue. The API and the
  brain write the same Redis keys.
* **Failure.** Every run and every job may stop at any step. The worker relies on its
  outbox, the brain on the broker's redelivery, but `process_job` swallows every
  exception and a cancelled job is rejected without requeue.
* **Ordering.** Identity values are handed out at insert and become visible at commit, so
  events do not become visible in the order of their ids. Reads of the match table precede
  the writes that follow from them by seconds (the LLM call lies between).
* **Time.** Cache entries live for a day; nothing else invalidates them.

What makes each part correct:

* Worker and outbox: a committed change is never lost, whatever fails where; a no-op upsert
  is no change; the backfill does not hide changes; a run that keeps failing stops nothing
  for ever; table and feed agree once the feed holds still.
* Brain: numbers follow the latest change or the job is known to have been given up; prose
  never stands without numbers; nothing uncommitted is cached.
* Read path: what is served was committed; a 404 means there was no preview; a superseded
  preview is gone within a day; an outage of the cache is not an outage of the API.
* Engine: probabilities sum to one and pass the CHECKs; ratings are zero-sum and do not
  depend on the order of rows; nothing is impossible because of one side's record.
* Writes of a run: no foreign key fires, a failed run leaves no hole, a deadlock costs one
  run and never leaves one waiting.
* Requests of a run: bounded retries; a daily run goes on with all leagues or with none; a
  backfill cut short keeps the newest seasons whole.
* Startup: the retries' pauses end before the startup probe does; an API without its stores
  gets no traffic, and everyone but a dead consumer comes back.

`PROJECT.json` lists all components with their status and, under `hazards`, every place
where this code can go wrong in a way a unit test hardly reaches.

## 2. Modules

| Module | Models | Built on |
|---|---|---|
| `Worker` | runs of the worker on feed, match table, outbox and queue | – |
| `ChangeNotice` | what worker and queue promise: each committed change is followed by a read | – |
| `WorkerInv`, `WorkerProofs` | the inductive invariant of `Worker`; theorems | `Worker`, TLAPS |
| `Brain`, `BrainProofs` | consumers and `process_job`; theorems | TLAPS |
| `Pipeline`, `PipelineProofs` | `Worker` and `Brain` over one match table and one queue; theorems | `Worker`, INSTANCE `Brain`, both modules' proofs |
| `Upserts`, `UpsertsProofs` | the statements of the worker's transactions and their row locks; theorems | TLAPS |
| `Fetch`, `FetchProofs` | the requests of a run, their retries, what an error leaves; theorems | TLAPS |
| `Engine`, `EngineProofs` | Elo, Poisson strengths, the score matrix, the prediction row; theorems | TLAPS |
| `ReadPath`, `ReadPathProofs` | requests, cache, and the brain's writes to it; theorems | TLAPS |
| `Startup`, `StartupProofs` | connecting, probes and restarts of API and brain; theorems | TLAPS |
| `MC*` | instances for TLC | the above |

The same code seen from different sides is in different modules on purpose. `Worker` follows
what a run writes and announces and takes one step per fixture; `Upserts` follows who waits
for whom and takes one step per statement; `Fetch` follows how a run got its list.
`Pipeline` joins the first of these with `Brain`.

A definition whose comment begins with `Slip:` is not part of the model. It is the
definition after it with a plausible mistake; each property is known to fail for one.

### Worker

`run[r]` is the local state of one execution of `main.py:main` or `backfill.py:main`. Its
`pc` follows the phases of `main`: `fetch` (28-29), `sync` (31), `publish` (34-37).

| Action | Code |
|---|---|
| `Begin` | pool, `sync_competitions`, `get_league_codes` |
| `FetchLeague` | one iteration of `get_matches_per_competition` (`status=SCHEDULED`) |
| `FetchHistoric` | one league of `get_historic_matches`, with its `except: break` |
| `WriteMatch` | the upsert of one fixture, its change gate, the event beside it |
| `RejectMatch` | the upsert when a CHECK or NOT NULL refuses the row |
| `Commit` | the end of `conn.transaction()`: per fixture in a daily run, per batch in the backfill |
| `FetchEvents`, `Publish`, `DeleteEvents` | `fetch_rabbit_events`, one publish of `run_producer`, `delete_rabbit_event` |
| `Fail` | any exception or kill, at any step |
| `Consume`, `Redeliver` | the brain takes a message and reads the row; the broker hands a message out again |

Postgres is modelled by what runs can observe. A transaction stages its writes in
`run[r].tx` and holds the row lock of every fixture in it (`LockedByOther`); ON CONFLICT
locks the row also when the gate filters the update out. `nextEvent` is the identity
sequence: advanced at the insert, never rolled back. A gate value stands for the six
compared columns; columns outside the gate only move `lastUpdated`. `FeedChange` is the
feed republishing a fixture. `change` and `seen` are history variables for the properties.

### ChangeNotice

Two variables, the number of the latest committed change and the number each fixture was
last read at. Under `read <- [m |-> seen[m].change]` every step of `Worker` is a step of it
or a stutter: `NoticeKept`, checked by TLC and proved (`ImplementsNotice`).

### Brain

`job[p]` is the consumer of a pod: `idle` in the queue iterator, then the steps of
`process_job` in their order, then `ack`. Numbers are identified by what they are computed
from, the version of the fixture's row and the set of finished matches in the history,
because the engine is deterministic; a preview is identified by the numbers it phrases.
Four ways for a job to end are told apart, since the code treats them differently:

* `JobError`: an exception; `process_job` logs it and the message is acknowledged.
* `Cancel`: SIGTERM cancels the task; `CancelledError` passes `except Exception`, and
  `message.process()` rejects without requeue.
* `Kill`: the broker never hears of it again and delivers the message once more.
* `Disconnect`: the connection is lost while the job runs on; the message is delivered
  again, and acknowledging the old one may end the consumer task (`dead`), which neither
  probe restarts because liveness is `/health`.

`dropped` remembers the fixtures whose job ended in one of the first two ways, `raced` those
that two consumers worked on at once, as a rollout allows: there the one that read the older
row may store last, and the code has no defence. The worker appears as `ChangeMatch`,
`BackfillMatches` and `PublishEvent`: what `Pipeline` shows `Worker` to be. `owed` are the
fixtures whose latest change has not been published yet.

### Pipeline

The two halves share the match table and the queue. `row` is the brain's view of the table:
a change is numbered by the id of its event. Every step is a step of one half, and what it
means for the other is spelt out: `CommitRows` (rows change under the brain), `PublishJob`
(a message arrives), `Deliver` (the anonymous reader of `Worker` is a pod), `GiveBack` (the
broker's `Redeliver` is a pod's `Kill` or `Disconnect`). Everything else is `Silent` for the
brain or leaves `Worker`'s variables alone.

### Upserts

`pc[r]` is the statement a run is at: competition and its current season for each entry of
the catalogue (`sync_competitions`), then season, home team, away team and match for each
fixture. `locked` and `shared` are the rows an open transaction holds, exclusively or with
the KEY SHARE of a foreign key. Which lock conflicts with which follows from the statement:
DO NOTHING waits only for an uncommitted insert and leaves a season that has a row alone, so
that what a fixtures' transaction commits (`CommitPayload`) it has inserted itself; `curated`
are the seasons whose columns are those of `sync_competitions`. A new season's foreign key waits for
`sync_competitions`, because that updates the unique `code`; DO UPDATE waits for everybody.
`Abort` is Postgres breaking a cycle of waiting transactions.

Two deadlocks of the code do occur in this model. A fixture and its return fixture lock
their teams in opposite orders, so two runs whose lists begin differently can wait for each
other, if at least one of them keeps its locks (the backfill does) or both are within one
fixture. And a backfill that inserts a season waits for the competition a daily run is
updating, which may itself wait for that season. `EveryRunEnds` and `NoHoles` say what it
costs: one run ends with an error, and its Job starts another pod, or in the backfill's case
nobody does.

Not followed: the order in which Postgres serves several waiters of one row, and the
`enabled` flag, which is set by hand: a run may be answered with any list whose
competitions have rows.

### Fetch

The pages a run asks for in order (`Plan`), the attempt it is at, and what it has read. A
page is a league and a season; the season of a daily run follows from the month. An error is
worth another attempt or permanent, or a page does not validate in the middle. The daily run
raises, the backfill breaks out of both loops and keeps what it has. Pauses for the rate
limit change no state and are left out.

### Engine

Every history of some length in every order of its rows (`elo.run` takes any iterable),
replayed match by match, then fitted, then read off: for any pair of sides, the fixture being
yet to be played, and for each fixture of the history, since a job may come late
(`predict`). Floats are exact
integers and fractions: ratings in fiftieths of a point, expected scores in percent of a
straightened curve that keeps its symmetric midpoint, monotonicity and its ends away from
certainty, the margin multiplier in tenths, dates in half-lives so that the decay is a power
of two. Shrinkage is an exact fraction. For the matrix, rates are told apart by the half
goal up to two goals, and zero only stands for zero; `exp(-rate)` is common to all cells and
cancels. What the properties rely on (sign, symmetry, zero sum, order, zero or not zero,
rounding) survives this; absolute predictions do not, and no property is about them. The
list of the likeliest scores is left out: it is text for the prompt.

### ReadPath

A request is `redis`, then on a miss `postgres`, then `backfill`, as in
`asyncprediction`. The brain's commit (`StoreCommentary`) and its warm (`WarmCache`) are
two steps; the warm may be lost. `warming` is a set, since two consumers may each have a
preview on its way to the cache, and the older one may get there last. The branch of
`asyncprediction` for a Redis client that is `None` is left out: `make_redis` raises instead of
returning one, and then the API does not start. Time passes in ticks, and an entry lives `Ttl` of them.

### Startup

A pod connects to Postgres, then to Redis, each with a fresh budget of attempts, and serves;
the brain's consumer task then connects to the broker by itself. A tick is five seconds, the
pause between attempts and the period of the startup probe. A store that is down refuses an
attempt at once (`Refused`), or leaves it hanging through any number of ticks (`Hangs`): asyncpg
gives up after a minute, the Redis client has no connect timeout. The probe goes on meanwhile,
and so a pod may be killed with attempts left. `hung` counts the probes that found the pod in
the middle of an attempt; `StartupFitsProbe` promises nothing once they are more than the
pauses of both budgets leave over, ten seconds in the code.

`Ready` is `/readyz`: the API asks both stores, the brain reports `is_rabbitmq_ready`, which
only the consumer's own code moves, so a broker outage that `connect_robust` bridges does not
show. Flag and task are two variables, since they can differ: an exception leaves the loop
(`ConsumerFails`, with the broker up or not), `finally` closes the connection, and only then is
the flag lowered, unless the close raises (`CloseConnection`).
`OutOfRotation` is therefore a promise of the API alone.
Several failed readiness probes are folded into the verdict, and the growing delay between
restarts is left out.

## 3. Runs

| Run | Instance | Question |
|---|---|---|
| `overlap` | 2 fixtures, scheduled and manual run, 1 change of the feed, 2 faults | Are changes lost, duplicated by a no-op, or announced out of order when two runs overlap and fail, and messages come again? `NoLostChange`, `NoRedundantEvent`, `NoticeKept`, `TypeOK` |
| `live` | 2 fixtures in 2 leagues, scheduled run and backfill, 1 change, 1 fault, a gate value Postgres refuses, fairness | Do table and brain catch up with the feed, do the backfill's silent writes hide a fixture, how long does a refused fixture hold back the others? `CatchesUp`, `UpcomingCovered`, `BlockedOnlyWhileRejected` |
| `jobs` | 1 fixture, 2 consumers, 2 changes, 2 troubles, fairness | Do numbers follow changes through every kind of failure and through a rollout? `NoStaleNumbers`, `ProseHasNumbers`, `CacheHoldsCommitted`, `EventuallyCurrent`, `TypeOK` |
| `pipeline` | 1 fixture with three gate values, scheduled run, 1 consumer, 1 change of the feed, 2 faults, 1 trouble, fairness | Does anything get lost between the parts, and do the numbers follow the feed? `NothingFallsBetween`, `WorkerAsAssumed`, `NumbersCatchUp` |
| `upserts` | a league and a cup, 2 seasons, a fixture and its return, 2 daily runs and a backfill, lists in both orders, 1 retry, 1 fault, fairness | Which locks meet, and what does a deadlock cost? `RowsFindParents`, `NoHoles`, `SeasonDataKept`, `EveryRunEnds`, `TypeOK` |
| `fetch` | 2 leagues, 4 seasons, pages of 2 fixtures, 3 attempts, all months, fairness | What does an error at any point of the requests leave? `DailyAllOrNothing`, `NewestSeasonsKept`, `FetchEnds`, `TypeOK` |
| `engine` | 3 sides, 2 dates, scorelines 0-0, 2-0 and 0-1, up to 3 matches, matrix to 3 goals | Order, zero sum, seeds, strengths, and the CHECKs. `WalkForward`, `PointsConserved`, `NewcomersStartLevel`, `LeagueAverageIsOne`, `NilNeedsGoallessLeague`, `RowAccepted`, `TypeOK` |
| `race` | 1 fixture, 2 requests, 3 previews, TTL of 2 ticks, 1 outage | What may a request answer while the brain writes? `StaleWithinCycle`, `NotFoundIsHonest`, `AnswersCommitted`, `TypeOK` |
| `startup` | an API pod and a brain pod, 3 attempts, 8 probes, stores coming and going, attempts that hang, fairness | Do the budgets fit the probe, and does everyone come back? `StartupFitsProbe`, `BackInRotation`, `OutOfRotation`, `TypeOK` |
| `results`, `outage`, `kickoff` | the smallest instance that shows it, for `kickoff` that of `engine` | A sentence of the documentation, or of a test, that the code does not keep, see section 6 |

Why the bounds are enough. The hazards of the worker need two runs on one fixture, or two
fixtures whose events commit out of id order, and a run cut short; a third run or fixture
repeats these situations, and the proofs cover any number. A refused fixture matters to
others of the same run, hence two fixtures in `live`; they are in two leagues, so that a
backfill may have one without the other. In `Brain` a stale overwrite needs two versions, a
race two consumers, and a failed job behind a killed one two troubles. `Pipeline` adds
nothing that two fixtures would share, since queue and table are checked per fixture in
the parts; three gate values allow a change that is announced and one that is not. In `Upserts` a
cycle needs two runs, and the third shows a run held up by a cycle it is not part of. The
ends of `Fetch` depend on the first error only, and two leagues and several seasons place it
before, between and after whole seasons. Three sides give the engine a newcomer among rated
ones, two dates a tie and an order, three matches a past, a present and a wrong permutation.
`Startup` checks 3 attempts against 8 probes, which leave as much to attempts that hang as
the 5 and 12 of code and manifests do: two probe periods. `BudgetsFit` covers all numbers. In `ReadPath` the race needs a
reader overtaken by a commit while another one fills the cache: two requests; three previews
allow a warm that a newer job's warm has overtaken, while a third preview is on its way. All keys are independent there, so one fixture is enough.

`overlap`, `race`, `engine` and `kickoff` use symmetry: they check safety alone, and nothing tells
fixtures, daily runs, requests or sides apart there. `CHECK_DEADLOCK FALSE` is set because
the bounded system may stop: the feed has no more changes, faults are used up and queues
empty, a run has ended.

Bounds: `MaxFeedChanges`, `MaxFaults` (`Worker`, `Pipeline`); `MaxChanges`, `MaxTroubles`
(`Brain`); `MaxTroubles` (`Pipeline`); `MaxFaults` (`Upserts`, whose `MaxRetries` is the
Job's `backoffLimit`, 3 in `80-worker.yaml` and 1 in the run); `MaxMatches` (`Engine`); `MaxTexts`, `MaxOutages` (`ReadPath`). They
stop the environment, never the program.

## 4. Fairness

* `WF(Begin)` for the CronJob's slot only: the schedule starts a run every day. A manual
  run and the backfill need not ever start.
* `WF(Advance)` for a run that has begun: its pod executes until it ends or fails.
* `SF(Upsert)`: a run that waits for a row lock gets it although other runs take the
  lock again and again, since Postgres queues waiters.
* `WF(Consume)` in `Worker`: the brain keeps reading; in `Brain` and `Pipeline` that is `WF`
  of the consumer's steps and of `Start` (the Deployment replaces a pod that ended).
* `Brain` assumes `WF(PublishEvent)` for what is owed, the worker's drain; `Pipeline` has
  the drain's own steps instead.
* `Upserts`: `WF(Advance)` as above, and `WF(Abort)`: Postgres looks for a cycle after every
  `deadlock_timeout`. No run needs to start, and no lock queue is assumed.
* `Fetch`: `WF(Next)`, every request ends by its timeout.
* `Startup`: `WF(Work)` and `WF(Probe)`, the container and the kubelet go on. Stores need
  neither fail nor return.
* No fairness on faults, feed changes, operators, kills, or on a consumer task that ended:
  nothing restarts it.

Consequences to be read with the properties: `CatchesUp` and `NumbersCatchUp` speak about
fixtures the feed lists as upcoming, `BlockedOnlyWhileRejected` assumes the refused fixture
disappears in the end, and `EventuallyCurrent`, `NumbersCatchUp` and `BackInRotation` except
jobs given up or raced and a dead consumer by name.

## 5. Proofs

Checked by `tlapm` for all sets of fixtures, leagues, gate values, runs, pods, teams, seasons
and requests, and without any bound on faults or changes. Assumptions: those the modules
declare on their constants (leagues of fixtures, gate values of played and upcoming fixtures
are disjoint, daily and backfill runs are distinct, tables are disjoint, `None` is no fixture
and no numbers, the lifetime of an entry is at least one tick, bounds are naturals), and three
that say what the code's data are: the teams of a league are finitely many and dates and
goals are naturals (`EngineAssumption`), no league is configured twice (`LeaguesAssumption`),
and two budgets of attempts fit into the startup probe's threshold (`BudgetAssumption`; 5
attempts and 12 failures in the code and the manifests). `PipelineAssumption` takes every gate
value for that of an upcoming or of a played fixture. The status enum (`05_match.sql:30-33`)
knows others, POSTPONED or IN_PLAY among them; no run asks the feed for them, so they never
get into the table.

The prover has no induction over data, since the library's induction theorems take an
operator as a parameter. Where a fact about a sum, a fold or a recursive function needs it,
the proofs use a least counterexample: a set of naturals, or a family of subsets of a finite
set, that is not empty has a least member (`LeastNat`, `LeastSet`), because the orders are
well founded.

### Worker (`WorkerProofs`)

| Theorem | Statement |
|---|---|
| `TypeCorrect`, `InvariantHolds` | `Spec => []TypeOK`, `[]IInv` |
| `OutboxPromise` | `Spec => []NoLostChange` |
| `UpcomingHasJob` | `Spec => []UpcomingCovered` |
| `NoOpWritesAreSilent` | `Spec => NoRedundantEvent` |
| `ImplementsNotice` | `Spec => NoticeKept` |

`NoLostChange` is not inductive. A delete must be known to remove only what was published,
which needs that the events a run holds agree with the table in id and fixture, and that a
published event no newer than the last read is harmless. The strengthening in `WorkerInv`:

* `LocksExclusive`: a fixture is staged by one run at a time and staged ids are distinct.
* `OneEventEach`: a transaction that owes an event holds one fixture, and only daily runs
  owe any. Refinement needs it: a commit is one change.
* `IdsOrdered`: a committed change is newer than every known event of its fixture, and a
  staged id is unknown to everybody else. It holds because the row lock is kept from the
  insert of the event to the commit, although ids of different fixtures commit in any order.
* `DrainCovered`: what a run has published of its events is in the queue or was read.
* `RowsExist`, `QueuedExist`, `DeliveredExist`: rows precede events, jobs and reads. For events
  Postgres says so itself (the foreign key of `rabbit_event`); `Pipeline` needs it for jobs.
* `SilentWrites`, `AnnouncedUpcoming`: writes without an event come from the backfill and
  are finished matches, or change nothing the gate compares; what is announced is upcoming.

The steps that change only a run's local state share `LocalStep`; `Consume`, `Redeliver`,
`Publish`, `DeleteEvents`, `WriteMatch` and `Commit` have a lemma each, with one step per
conjunct.

### Brain (`BrainProofs`)

| Theorem | Statement |
|---|---|
| `TypeCorrect`, `ProseNeverAlone`, `CacheSound` | `Spec => []TypeOK`, `[]ProseHasNumbers`, `[]CacheHoldsCommitted` |
| `NumbersFollowChanges` | `Spec => []NoStaleNumbers` |

All for any number of consumers. The first three follow from `JobsSound`: a consumer has
numbers from its first read on and has committed what it warms. `JobStep` shows once that a
step which writes no store keeps the invariant if it leaves a sound job.

`NumbersFollowChanges` needs to know why overwriting numbers is harmless. That is
`OvertakenIsQueued`: a job whose message went back to the queue, or whose fixture changed
after it read the row, has another message or event of that fixture behind it, unless two
jobs of the fixture met (`raced`). The lemmas are stated for `Step`, whose worker is not
bounded, so that `Pipeline` can use them.

### Pipeline (`PipelineProofs`)

| Theorem | Statement |
|---|---|
| `ImplementsWorker` | `PSpec => Spec`: `Worker`'s theorems hold of the whole |
| `ImplementsBrain` | `PSpec => WorkerAsAssumed`: so do `Brain`'s |
| `NothingLost` | `PSpec => []NothingFallsBetween` |
| `NoJobUnfound` | `PSpec => []JobsFindTheirRow` |

The invariant `PInv` is that of `Worker`, that of `Brain` under the mapping `row`, and two
conjuncts that tie them: `OwedInOutbox`, a fixture the brain counts as owed has its event in
the table, and `JobsFindTheirRow`. A step of `Worker` is a step of `Pipeline` with the rest
left alone (`SimulatesWorker`) and the other way round for `Brain` (`SimulatesBrain`, with
`CommitSimulates` and `PublishSimulates` for the two steps where the halves meet).

### Upserts (`UpsertsProofs`)

| Theorem | Statement |
|---|---|
| `TypeCorrect` | `Spec => []TypeOK` |
| `LocksHeldByOne` | `Spec => []LocksExclude` |
| `ForeignKeysHold` | `Spec => []RowsFindParents` |
| `SeasonDataStays` | `Spec => SeasonDataKept` |
| `NoHolesLeft` | `Spec => []NoHoles` |

`RowsFindParents` speaks of what is staged; to keep it through a rollback one must know that
nothing a transaction relies on belongs to another one. The invariant says what has been
staged at which statement (`Staged`, `Progress`), that committed rows are closed under
`Parents` (`Closed`), and that no two transactions hold one row. One lemma per action.

`SeasonDataKept` needs to know that a season in a fixtures' transaction had no row when it was
inserted and gets none from elsewhere before the commit (`SeasonInv`, with `EnsureSeason` the
only place a DO UPDATE would break it, and the row locks what holds it through interleavings).

`NoHoles` says that a failed daily run leaves a beginning of its list and a failed backfill
nothing. `InOrder` follows the list down: what is left of it is its end; of what a daily run
is through with it has committed everything but the fixture whose transaction is open, and
of what the backfill is through with everything is still staged.

### Fetch (`FetchProofs`)

| Theorem | Statement |
|---|---|
| `TypeCorrect` | `Spec => []TypeOK` |
| `DailyComplete` | `Spec => []DailyAllOrNothing` |
| `BackfillKeepsNewest` | `Spec => []NewestSeasonsKept` |

For any list of leagues, size of page and number of attempts. `ReadSoFar` is the
strengthening: while a run goes on it has read exactly the pages before the one it is at, and
nothing was denied to it. `Backfill` shows that the pages of a backfill go back season by
season: the plan is the concatenation of one sequence per season, and the first concatenation
that went wrong would have a good one before it. `CutShort` turns this into the property: what
precedes a page in such a plan holds every newer season whole.

### Engine (`EngineProofs`)

| Theorem | Statement |
|---|---|
| `TypeCorrect`, `EngineInvariant` | `Spec => []TypeOK`, `[]IInv` |
| `RatedWalkingForward` | `Spec => []WalkForward` |
| `ZeroSumReplay` | `Spec => []PointsConserved` |
| `NewcomersSeededAlike` | `Spec => []NewcomersStartLevel` |
| `AverageIsOne` | `Spec => []LeagueAverageIsOne` |
| `NilOnlyIfGoalless` | `Spec => []NilNeedsGoallessLeague` |
| `RowsAccepted` | `Spec => []RowAccepted` |

For any finite league, history, scorelines, dates and size of the score matrix.

* *Sums.* Sums, products and the replay are folds over finite sets. `FoldExists`, `FoldsAgree`
  and `FoldStep` show once for all three that a fold exists, is unique, and is one element
  combined with the fold over the others; the rule is chosen by a tag (`"sum"`, `"product"`,
  `"replay"`), because a lemma cannot take it as a parameter. Which element the definition
  takes first is arbitrary; `SumOut` shows that for a sum it does not matter. From this come
  splitting a sum, taking out a factor, and exchanging two sums (`SumUnion`, `SumTimes`,
  `SumSwap`).
* *Replay.* `Stamp` orders the matches of a history strictly, so every set of them has one
  latest match (`StampOrder`, `LatestExists`), and what the ratings are after a set of matches
  is a function of the set (`Replayed`, `OneMoreReplayed`). `EloOK` says that the live ratings
  are those of the matches done, that the matches done precede the matches left, and that
  every snapshot is that of the matches before it. A side that none of these is about has no
  rating after them (`UnratedBefore`), so two newcomers get one seed. `ZeroSum` is the only place that looks
  inside `apply_match`: the two sides' gains cancel, whatever the curve and the margin.
* *Fit.* A league's total of what each match gives its two sides is the sum of the sides' own
  totals (`TotalOfSides`, two sums exchanged). Goals and the rates of the two ends are shared
  in this way, so what all sides scored is exactly what the baselines expect of all of them
  (`LeagueAverage`). `FitOK` keeps the denominators positive where something divides by them.
* *Prediction.* Every cell of the matrix is a natural and the cell 0-0 is positive, so its
  mass is positive (`MassOf`). `RoundingFits` does the rest: for all masses of home win, draw
  and away win that are not all zero, three shares rounded one by one to four decimals stay
  in the range of the CHECKs and sum to one within 0.0001, where the table allows 0.0005.

The theorems are about the exact fractions of the model. What floating point adds to them
is not followed; see Engine above for what the abstraction keeps.

### Read path (`ReadPathProofs`)

| Theorem | Statement |
|---|---|
| `TypeCorrect`, `InvariantHolds` | `Spec => []TypeOK`, `[]IInv` |
| `StalenessBounded`, `HonestNotFound`, `ServesCommitted` | `Spec => []StaleWithinCycle`, `[]NotFoundIsHonest`, `[]AnswersCommitted` |

`StaleUsesUpTtl` is the argument for the bound on staleness: an entry that has been out of
date for `k` ticks has at most `Ttl - k` left, because a new lifetime is only given by a
write, and a request writes only after it found the key missing, within the same tick.

### Startup (`StartupProofs`)

| Theorem | Statement |
|---|---|
| `TypeCorrect` | `Spec => []TypeOK` |
| `BudgetsFit` | `Spec => []StartupFitsProbe` |

The probe that kills a pod counts its own failures and not the pod's attempts. `MissesCounted`
relates the two counters: a pod that connects has missed no more probes than it has paused
after a failed attempt, plus those that found an attempt hanging, and its pauses are bounded by
both budgets, the first of them less one. Hence `BudgetAssumption`: what the pauses leave of the
threshold is what attempts may hang for. `ServingFirst` says that only a pod that serves has
passed the startup probe or runs a consumer.

### Only model-checked

Liveness: `CatchesUp`, `BlockedOnlyWhileRejected`, `EventuallyCurrent`, `NumbersCatchUp`,
`EveryRunEnds`, `FetchEnds`, `BackInRotation`, `OutOfRotation`. Fairness and ENABLED are
outside the prover's reach. The three runs of section 6 are counterexamples and need no
proof. Every safety property of the other runs is a theorem.

## 6. Where code and documents disagree

| Run | Document | Code |
|---|---|---|
| `results` | ADR 0007: results are ingested the morning after they occur | the daily run asks for `status=SCHEDULED` only; results come with a backfill |
| `outage` | `api-spec.md`: the read path survives Redis being down | an exception of Redis is raised again as a 500 |
| `kickoff` | `08_prediction.sql`: ratings as they stood at kickoff, straight from RatingSnapshot | the live ratings are stored; a job that comes after its fixture was played stores what the result made of them |

Observations without a run:

* `test_service.py:312` says of the brain's readiness flag that it "has to go false again when
  the consumer stops, or a dead consumer keeps serving traffic". `consumer.py:49` closes the
  connection before it lowers the flag: where the close raises, `/readyz` stays at 200. In
  `Startup` that is `ConsumerFails`, then `CloseConnection` with `raises`.
* ADR 0007 says a run that changes nothing publishes nothing. It publishes what a failed run
  left, and `NoLostChange` depends on it.
* Postgres refuses an event whose fixture has no row (`06_rabbit_event.sql:4`), and `NoJobUnfound`
  is a theorem, although `test_handlers.py:116-118` prepares for an id the brain cannot resolve:
  as far as worker and brain go, only a row deleted by hand could produce one.
* A job without a preview replaces the numbers and leaves the prose of an earlier job, as
  `test_handlers.py` intends. `ProseHasNumbers` is what the code promises, no more.
* Which errors of the feed are worth another attempt (`_get`: 429 and 5xx, no other 4xx) is a
  choice of `Fetch`; no property covers the classification itself.
* With two consumers, the one that read the older row may store last (`raced` in `Brain`).
* The status table of `api-spec.md` lists 503 for an unavailable store, where the handler
  raises a plain 500.
* The daily run and the backfill can deadlock (see Upserts). The backfill then ends with exit
  code 0 and nothing starts it again.

## 7. Not modelled, and why

* Text: prompts, previews, grounding checks, tool schemas, log lines, settings, and the
  recorded evaluations. Only the outcome of the LLM call, a preview or none, has an effect
  on state.
* The manifest checkers (`scripts/check_k8s_*.py`): stateless scripts of CI whose whole
  content is matching names and labels in YAML.
* Deployment data, CI, Terraform, the LLM gateway and the tracing stack. What the program
  depends on, one scheduled job at a time, replicas, probes and retries, is in slots, pods,
  constants and fairness.
* The list of likeliest scores, and the exact values of logistic curve, logarithm and
  exponential (see Engine).
* A lost reply of a Postgres commit is covered by `Fail` right after `Commit`; torn pages,
  and loss of data Postgres or RabbitMQ reported as durable, are not considered.

## 8. Plan

Done: every component with behaviour of its own has its module, and every safety property
a run checks is proved. What is left, at most:

1. A proof that `WorkerAsAssumed` and `NoticeKept` together make the queue of `Pipeline` a
   queue of notices, so that `Brain` could be read against `ChangeNotice` alone.
