------------------------------- MODULE Worker -------------------------------
(***************************************************************************)
(* The worker (a-game-worker/app): the daily ingestion job, the manual copy *)
(* of it that an operator starts with `kubectl create job --from=cronjob`,  *)
(* and the one-off backfill.  A run reads the football-data feed league by  *)
(* league, upserts the fixtures into the match table behind a change gate,  *)
(* and a daily run then drains the rabbit_event outbox to the queue.        *)
(*                                                                          *)
(* Any step of a run may be its last: an exception, a killed pod, a lost    *)
(* reply.  Several runs may be alive at once.  Postgres is modelled as far  *)
(* as the runs can tell: transactions stage their writes, hold the row lock *)
(* of every fixture they touched and publish all of it at commit.           *)
(***************************************************************************)
EXTENDS Integers, Sequences, FiniteSets

CONSTANTS
  Match,           \* fixtures, by football-data's match id
  League,          \* the competitions whose `enabled` flag is set
  LeagueOf,        \* the competition of each fixture
  Gate,            \* values of the six columns the change gate compares
  Upcoming,        \* the gate values the feed lists under status=SCHEDULED
  Finished,        \* the gate values the feed lists under status=FINISHED
  Rejected,        \* the gate values a CHECK or NOT NULL of Postgres refuses
  None,            \* no gate value: the fixture has no row
  CronJob,         \* the CronJob's slots: one, as concurrencyPolicy is Forbid
  Manual,          \* the slots of daily runs an operator starts by hand
  Historic,        \* the slots of backfill runs
  MaxFeedChanges,  \* bound: how often the feed republishes a fixture
  MaxFaults        \* bound: how many runs or jobs are cut short by a transient fault

Daily == CronJob \cup Manual
Run == Daily \cup Historic

ASSUME LeagueAssumption == LeagueOf \in [Match -> League]
ASSUME GateAssumption ==
  /\ Upcoming \subseteq Gate /\ Finished \subseteq Gate /\ Rejected \subseteq Gate
  /\ Upcoming \cap Finished = {}
  /\ None \notin Gate
ASSUME RunAssumption == Daily \cap Historic = {}
ASSUME BoundAssumption == MaxFeedChanges \in Nat /\ MaxFaults \in Nat

\* A fixture as the feed publishes it, and as the match table holds it.  The
\* columns the gate does not look at are told apart by their lastUpdated alone.
Row == [gate : Gate \cup {None}, lastUpdated : Nat]
NoRow == [gate |-> None, lastUpdated |-> 0]

\* A row of the rabbit_event table.
Event == [id : Nat \ {0}, match : Match]

\* A staged write of an open transaction: the row it leaves for the fixture and
\* the id of the event it inserts beside it, 0 when no event is owed.
Write == [match : Match, row : Row, event : Nat]

VARIABLES
  feed,          \* what football-data currently publishes for each fixture
  db,            \* the committed match table
  outbox,        \* the committed rabbit_event table
  nextEvent,     \* the identity sequence behind rabbit_event.id
  queue,         \* the RabbitMQ queue: match ids, oldest first
  run,           \* the local state of each run
  change,        \* history: id of the last committed event of each fixture
  seen,          \* history: the change and the gate a job was last handed
  feedChanges,   \* counts towards MaxFeedChanges
  faults         \* counts towards MaxFaults: runs cut short, messages handed back

vars == <<feed, db, outbox, nextEvent, queue, run, change, seen, feedChanges, faults>>

\* A run that is not under way holds nothing.
Idle == [pc |-> "idle", codes |-> {}, batch |-> [m \in Match |-> NoRow],
         tx |-> {}, events |-> {}, unsent |-> {}]

RunState == [pc : {"idle", "fetch", "sync", "publish"},
             codes : SUBSET League,     \* leagues still to be fetched
             batch : [Match -> Row],    \* fixtures fetched, not yet written
             tx : SUBSET Write,         \* the open transaction
             events : SUBSET Event,     \* the outbox rows read for the drain
             unsent : SUBSET Event]     \* those of them not yet published

-----------------------------------------------------------------------------
(* Helpers                                                                  *)

Batched(r) == {m \in Match : run[r].batch[m].gate # None}

\* Slip: the match is read first and upserted later, without its row lock.
LockedByNobody(r, m) == FALSE

\* The row lock of a fixture: held by the transaction that wrote it last and
\* has not ended.  ON CONFLICT locks the row even when the gate filters it out.
LockedByOther(r, m) == \E q \in Run \ {r} : \E w \in run[q].tx : w.match = m

\* Slip: ON CONFLICT DO NOTHING, a row once inserted is never updated.
ChangedIfNew(m, row) == db[m].gate = None

\* The change gate: WHERE ... IS DISTINCT FROM ..., true for a missing row.
Changed(m, row) == db[m].gate # row.gate

\* The committed columns of a fixture after the writes of a transaction.
Written(tx, m, old) ==
  IF \E w \in tx : w.match = m THEN (CHOOSE w \in tx : w.match = m).row ELSE old

Announced(tx) == {w \in tx : w.event # 0}

-----------------------------------------------------------------------------
(* The feed and the brain, as far as the worker can tell                     *)

\* football-data republishes a fixture: kickoff moved, match played, or only
\* columns nobody compares (referee, matchday, team names).
FeedChange(m) ==
  /\ feedChanges < MaxFeedChanges
  /\ \E g \in Gate : feed' = [feed EXCEPT ![m] =
                        [gate |-> g, lastUpdated |-> feed[m].lastUpdated + 1]]
  /\ feedChanges' = feedChanges + 1
  /\ UNCHANGED <<db, outbox, nextEvent, queue, run, change, seen, faults>>

\* The brain takes the oldest message and reads the committed row.
Consume ==
  /\ queue # <<>>
  /\ LET m == Head(queue) IN
       seen' = [seen EXCEPT ![m] = [change |-> change[m], gate |-> db[m].gate]]
  /\ queue' = Tail(queue)
  /\ UNCHANGED <<feed, db, outbox, nextEvent, run, change, feedChanges, faults>>

\* The broker takes a message back and hands it out first: the job it was given
\* to was killed, or its channel closed before the acknowledgement.
Redeliver(m) ==
  /\ seen[m].gate # None /\ faults < MaxFaults
  /\ queue' = <<m>> \o queue
  /\ faults' = faults + 1
  /\ UNCHANGED <<feed, db, outbox, nextEvent, run, change, seen, feedChanges>>

-----------------------------------------------------------------------------
(* One run                                                                   *)

\* Open the pool, sync the competitions and read the enabled league codes.
Begin(r) ==
  /\ run[r].pc = "idle"
  /\ run' = [run EXCEPT ![r] = [Idle EXCEPT !.pc = "fetch", !.codes = League]]
  /\ UNCHANGED <<feed, db, outbox, nextEvent, queue, change, seen, feedChanges, faults>>

\* One league of a daily run: only what is listed under status=SCHEDULED.
FetchLeague(r, c) ==
  /\ r \in Daily /\ run[r].pc = "fetch" /\ c \in run[r].codes
  /\ run' = [run EXCEPT
       ![r].codes = @ \ {c},
       ![r].batch = [m \in Match |-> IF LeagueOf[m] = c /\ feed[m].gate \in Upcoming
                                     THEN feed[m] ELSE run[r].batch[m]]]
  /\ UNCHANGED <<feed, db, outbox, nextEvent, queue, change, seen, feedChanges, faults>>

\* Slip: the endpoint without its status filter, backfilling every status.
FetchHistoricEveryStatus(r, c) ==
  /\ r \in Historic /\ run[r].pc = "fetch" /\ c \in run[r].codes
  /\ run' = [run EXCEPT
       ![r].codes = @ \ {c},
       ![r].batch = [m \in Match |-> IF LeagueOf[m] = c THEN feed[m] ELSE run[r].batch[m]]]
  /\ UNCHANGED <<feed, db, outbox, nextEvent, queue, change, seen, feedChanges, faults>>

\* One league of the backfill.  An error keeps what was appended before it and
\* breaks out of the seasons, so the remaining leagues are not fetched.
FetchHistoric(r, c) ==
  /\ r \in Historic /\ run[r].pc = "fetch" /\ c \in run[r].codes
  /\ LET played == {m \in Match : LeagueOf[m] = c /\ feed[m].gate \in Finished} IN
     \E got \in SUBSET played :
       run' = [run EXCEPT
         ![r].codes = IF got = played THEN @ \ {c} ELSE {},
         ![r].batch = [m \in Match |-> IF m \in got THEN feed[m] ELSE run[r].batch[m]]]
  /\ UNCHANGED <<feed, db, outbox, nextEvent, queue, change, seen, feedChanges, faults>>

\* Everything is fetched.  A backfill that fetched nothing returns at once.
StartSync(r) ==
  /\ run[r].pc = "fetch" /\ run[r].codes = {}
  /\ run' = [run EXCEPT ![r] = IF r \in Historic /\ Batched(r) = {} THEN Idle
                               ELSE [@ EXCEPT !.pc = "sync"]]
  /\ UNCHANGED <<feed, db, outbox, nextEvent, queue, change, seen, feedChanges, faults>>

\* The upsert of one fixture: wait for its row lock, pass the gate, and in a
\* daily run insert the event; its foreign key never refuses it, as the same
\* transaction holds the fixture.  A daily run has one fixture per transaction,
\* the backfill keeps the whole batch in one and inserts no event.
WriteMatch(r, m) ==
  /\ run[r].pc = "sync" /\ m \in Batched(r)
  /\ r \in Daily => run[r].tx = {}
  /\ ~LockedByOther(r, m)
  /\ run[r].batch[m].gate \notin Rejected
  /\ LET row == run[r].batch[m]
         owed == r \in Daily /\ Changed(m, row)
         write == [match |-> m,
                   row   |-> IF Changed(m, row) THEN row ELSE db[m],
                   event |-> IF owed THEN nextEvent ELSE 0]
     IN /\ run' = [run EXCEPT ![r].tx = @ \cup {write}, ![r].batch[m] = NoRow]
        /\ nextEvent' = IF owed THEN nextEvent + 1 ELSE nextEvent
  /\ UNCHANGED <<feed, db, outbox, queue, change, seen, feedChanges, faults>>

\* Slip: the refused upsert is tried again and again inside the run.
RejectMatchRetrying(r, m) ==
  /\ run[r].pc = "sync" /\ m \in Batched(r)
  /\ run[r].batch[m].gate \in Rejected
  /\ UNCHANGED vars

\* Postgres refuses the row.  The transaction rolls back and the exception ends
\* the run: the fixtures committed before it stay, their events unpublished.
RejectMatch(r, m) ==
  /\ run[r].pc = "sync" /\ m \in Batched(r)
  /\ r \in Daily => run[r].tx = {}
  /\ ~LockedByOther(r, m)
  /\ run[r].batch[m].gate \in Rejected
  /\ run' = [run EXCEPT ![r] = Idle]
  /\ UNCHANGED <<feed, db, outbox, nextEvent, queue, change, seen, feedChanges, faults>>

\* Slip: the event is inserted behind the transaction, by a statement that may fail
\* when the match is committed already.
CommitEventApart(r) ==
  /\ run[r].pc = "sync" /\ run[r].tx # {}
  /\ r \in Historic => Batched(r) = {}
  /\ db' = [m \in Match |-> Written(run[r].tx, m, db[m])]
  /\ \E told \in SUBSET Announced(run[r].tx) :
       /\ outbox' = outbox \cup {[id |-> w.event, match |-> w.match] : w \in told}
       /\ change' = [m \in Match |-> IF \E w \in told : w.match = m
            THEN (CHOOSE w \in told : w.match = m).event ELSE change[m]]
  /\ run' = [run EXCEPT ![r] = IF r \in Historic THEN Idle ELSE [@ EXCEPT !.tx = {}]]
  /\ UNCHANGED <<feed, nextEvent, queue, seen, feedChanges, faults>>

\* Rows and events become visible together.  The backfill ends here.
Commit(r) ==
  /\ run[r].pc = "sync" /\ run[r].tx # {}
  /\ r \in Historic => Batched(r) = {}
  /\ LET tx == run[r].tx IN
     /\ db' = [m \in Match |-> Written(tx, m, db[m])]
     /\ outbox' = outbox \cup {[id |-> w.event, match |-> w.match] : w \in Announced(tx)}
     /\ change' = [m \in Match |->
          IF \E w \in Announced(tx) : w.match = m
          THEN (CHOOSE w \in Announced(tx) : w.match = m).event ELSE change[m]]
  /\ run' = [run EXCEPT ![r] = IF r \in Historic THEN Idle ELSE [@ EXCEPT !.tx = {}]]
  /\ UNCHANGED <<feed, nextEvent, queue, seen, feedChanges, faults>>

\* Slip: the events are deleted as they are read, before they are published.
FetchEventsDeleting(r) ==
  /\ r \in Daily /\ run[r].pc = "sync" /\ run[r].tx = {} /\ Batched(r) = {}
  /\ run' = [run EXCEPT ![r] =
       IF outbox = {} THEN Idle
       ELSE [@ EXCEPT !.pc = "publish", !.events = outbox, !.unsent = outbox]]
  /\ outbox' = {}
  /\ UNCHANGED <<feed, db, nextEvent, queue, change, seen, feedChanges, faults>>

\* The drain: every committed event, including what earlier runs left behind.
FetchEvents(r) ==
  /\ r \in Daily /\ run[r].pc = "sync" /\ run[r].tx = {} /\ Batched(r) = {}
  /\ run' = [run EXCEPT ![r] =
       IF outbox = {} THEN Idle
       ELSE [@ EXCEPT !.pc = "publish", !.events = outbox, !.unsent = outbox]]
  /\ UNCHANGED <<feed, db, outbox, nextEvent, queue, change, seen, feedChanges, faults>>

\* Slip: the outbox id is published where the match id belongs.
PublishEventId(r) ==
  /\ run[r].pc = "publish"
  /\ \E e \in run[r].unsent :
       /\ queue' = Append(queue, e.id)
       /\ run' = [run EXCEPT ![r].unsent = @ \ {e}]
  /\ UNCHANGED <<feed, db, outbox, nextEvent, change, seen, feedChanges, faults>>

\* One persistent message per event, in the order of the ids.
Publish(r) ==
  /\ run[r].pc = "publish"
  /\ \E e \in run[r].unsent :
       /\ \A f \in run[r].unsent : e.id <= f.id
       /\ queue' = Append(queue, e.match)
       /\ run' = [run EXCEPT ![r].unsent = @ \ {e}]
  /\ UNCHANGED <<feed, db, outbox, nextEvent, change, seen, feedChanges, faults>>

\* Slip: delete up to the last id, although ids are not committed in their order.
DeleteUpToLast(r) ==
  /\ run[r].pc = "publish" /\ run[r].unsent = {}
  /\ outbox' = {e \in outbox : \A f \in run[r].events : e.id > f.id}
  /\ run' = [run EXCEPT ![r] = Idle]
  /\ UNCHANGED <<feed, db, nextEvent, queue, change, seen, feedChanges, faults>>

\* run_producer returned: drop exactly the events it was given, and end.
DeleteEvents(r) ==
  /\ run[r].pc = "publish" /\ run[r].unsent = {}
  /\ outbox' = {e \in outbox : \A f \in run[r].events : f.id # e.id}
  /\ run' = [run EXCEPT ![r] = Idle]
  /\ UNCHANGED <<feed, db, nextEvent, queue, change, seen, feedChanges, faults>>

\* A transient fault: exception, killed pod, unreachable store or broker.  The
\* open transaction rolls back; messages already published stay published.
Fail(r) ==
  /\ run[r].pc # "idle" /\ faults < MaxFaults
  /\ run' = [run EXCEPT ![r] = Idle]
  /\ faults' = faults + 1
  /\ UNCHANGED <<feed, db, outbox, nextEvent, queue, change, seen, feedChanges>>

-----------------------------------------------------------------------------
Init ==
  /\ feed \in [Match -> [gate : Gate, lastUpdated : {1}]]
  /\ db = [m \in Match |-> NoRow]
  /\ outbox = {} /\ nextEvent = 1 /\ queue = <<>>
  /\ run = [r \in Run |-> Idle]
  /\ change = [m \in Match |-> 0]
  /\ seen = [m \in Match |-> [change |-> 0, gate |-> None]]
  /\ feedChanges = 0 /\ faults = 0

\* Steps of a run that neither the match table nor the queue shows.
Hidden(r) ==
  \/ \E c \in League : FetchLeague(r, c) \/ FetchHistoric(r, c)
  \/ StartSync(r) \/ FetchEvents(r) \/ DeleteEvents(r)

\* What a run that has begun does by itself.
Advance(r) == Hidden(r) \/ Commit(r) \/ Publish(r)

\* What it does once it has the row lock.
Upsert(r, m) == WriteMatch(r, m) \/ RejectMatch(r, m)

Next ==
  \/ \E m \in Match : FeedChange(m) \/ Redeliver(m)
  \/ Consume
  \/ \E r \in Run : \/ Begin(r) \/ Advance(r) \/ Fail(r)
                    \/ \E m \in Match : Upsert(r, m)

Spec == Init /\ [][Next]_vars

\* The schedule starts a run again and again, a pod that runs keeps running,
\* Postgres grants a contended row lock in turn, and the brain consumes.
\* Nothing makes the feed change, an operator act or a fault happen.
Fairness ==
  /\ \A r \in CronJob : WF_vars(Begin(r))
  /\ \A r \in Run : WF_vars(Advance(r))
  /\ \A r \in Run, m \in Match : SF_vars(Upsert(r, m))
  /\ WF_vars(Consume)

FairSpec == Spec /\ Fairness

-----------------------------------------------------------------------------
(* Properties                                                               *)

\* Type invariant.
TypeOK ==
  /\ feed \in [Match -> [gate : Gate, lastUpdated : Nat]]
  /\ db \in [Match -> Row]
  /\ outbox \in SUBSET Event
  /\ nextEvent \in Nat \ {0}
  /\ queue \in Seq(Match)
  /\ run \in [Run -> RunState]
  /\ change \in [Match -> Nat]
  /\ seen \in [Match -> [change : Nat, gate : Gate \cup {None}]]
  /\ feedChanges \in Nat
  /\ faults \in Nat

Queued(m) == \E i \in 1..Len(queue) : queue[i] = m

\* The outbox promise.  A committed change the brain has not read since is
\* either still in rabbit_event or in the queue, whatever run failed where and
\* however many runs drain the same events at once.
NoLostChange ==
  \A m \in Match : seen[m].change < change[m] =>
    \/ \E e \in outbox : e.match = m /\ e.id = change[m]
    \/ Queued(m)

\* An upcoming fixture whose gated columns differ from what the brain last read
\* has a job on the way, although the backfill writes the same table silently.
UpcomingCovered ==
  \A m \in Match : db[m].gate \in Upcoming /\ seen[m].gate # db[m].gate =>
    \/ \E e \in outbox : e.match = m
    \/ Queued(m)

\* No-op writes do not count as change: an event appears only together with a
\* write that alters the gated columns, even when two runs upsert one fixture.
NoRedundantEvent ==
  [][\A e \in outbox' \ outbox : db'[e.match].gate # db[e.match].gate]_vars

\* Once the feed holds still and lists nothing Postgres refuses, the match table
\* agrees with every upcoming fixture it lists, and the brain has read that.
CatchesUp ==
  (<>[](\A m \in Match : feed[m].gate \notin Rejected)) =>
    \A m \in Match : <>[](feed[m].gate \in Upcoming =>
      /\ db[m].gate = feed[m].gate
      /\ seen[m].gate = db[m].gate)

\* A fixture Postgres refuses cuts every run short before the drain, and so holds
\* back the events of all the others; but only for as long as the feed lists it.
BlockedOnlyWhileRejected ==
  (<>[](\A m \in Match : feed[m].gate \notin Rejected)) =>
    \A m \in Match : []<>(seen[m].change = change[m])

\* Worker and queue together keep the promise of ChangeNotice, step by step: a
\* commit numbers its change upwards, and a read catches up with the latest.
Notice == INSTANCE ChangeNotice WITH read <- [m \in Match |-> seen[m].change]
NoticeKept == Notice!SafeSpec

-----------------------------------------------------------------------------
(* What a document says, and a run refutes                                  *)

\* ADR 0007 decision 1: "results are ingested the morning after they occur".
ResultsIngested ==
  \A m \in Match : feed[m].gate \in Finished ~>
    (feed[m].gate \notin Finished \/ db[m].gate = feed[m].gate)
=============================================================================
