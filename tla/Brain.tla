-------------------------------- MODULE Brain --------------------------------
(***************************************************************************)
(* The brain (a-game-brain/app): consumers that take one "match changed"    *)
(* job at a time from the queue and run process_job on it.  A job reads the *)
(* fixture, reads the results of its competition, derives the numbers, asks *)
(* the LLM for a preview, stores numbers and preview in one transaction and *)
(* warms the cache.                                                         *)
(*                                                                          *)
(* process_job swallows every exception, so a failed job is acknowledged;   *)
(* a cancelled one is rejected without requeue; only a job whose connection *)
(* is lost goes back to the queue.  The fixtures of one competition are     *)
(* modelled: fetch_match_history never looks at another's.                  *)
(***************************************************************************)
EXTENDS Integers, Sequences, FiniteSets

CONSTANTS
  Match,           \* the fixtures of one competition
  Pod,             \* consumers: one, or two while a rollout replaces the pod
  None,            \* no value
  MaxChanges,      \* bound: the numbers a change may have
  MaxTroubles      \* bound: jobs failed, cancelled or killed, connections lost and
                   \* messages published twice, all together

\* What the numbers are computed from.  The engine is deterministic, so this
\* identifies the row of the prediction table and the prose that phrases it.
Numbers == [version : Nat, history : SUBSET Match]

ASSUME NoneAssumption == None \notin Match /\ None \notin Numbers
ASSUME BoundAssumption == MaxChanges \in Nat /\ MaxTroubles \in Nat

\* A row of the match table: the number of its latest announced change and its
\* status.
Row == [version : Nat, status : {"absent", "upcoming", "finished"}]

JobState == [pc : {"down", "dead", "idle", "match", "history", "preview",
                   "store", "commit", "warm", "ack"},
             match : Match \cup {None},
             owned : BOOLEAN,              \* the broker still counts it as ours
             numbers : Numbers \cup {None},
             preview : BOOLEAN]            \* the LLM returned a usable preview

VARIABLES
  row,         \* the match table
  owed,        \* fixtures without a message since their latest announced change
  queue,       \* the RabbitMQ queue
  job,         \* the consumer of each pod, and the job it works on
  prediction,  \* the prediction table, for the running engine version
  commentary,  \* the commentary table
  cache,       \* Redis, match_id:<id>
  dropped,     \* history: fixtures whose latest job ended without being stored
  raced,       \* history: fixtures that two jobs worked on since their latest message
  committed,   \* history: the previews ever committed for each fixture
  troubles     \* counts towards MaxTroubles

vars == <<row, owed, queue, job, prediction, commentary, cache, dropped, raced, committed, troubles>>
stores == <<prediction, commentary, cache, committed>>

Waiting == [pc |-> "idle", match |-> None, owned |-> FALSE, numbers |-> None, preview |-> FALSE]
Down == [Waiting EXCEPT !.pc = "down"]

Working(p) == job[p].match # None
Uncommitted(p) == job[p].pc \in {"match", "history", "preview", "store", "commit"}

\* The job ends without its numbers being stored: nothing retries it.
Forget(p) == dropped' = IF Uncommitted(p) /\ job[p].owned
                        THEN dropped \cup {job[p].match} ELSE dropped

-----------------------------------------------------------------------------
(* The worker and the broker, as far as the brain can tell                  *)

\* A daily run commits a change of an upcoming fixture and its event, whose id
\* numbers the change.
ChangeMatch(m, v) ==
  /\ v \in Nat /\ v > row[m].version
  /\ row' = [row EXCEPT ![m] = [version |-> v, status |-> "upcoming"]]
  /\ owed' = owed \cup {m}
  /\ UNCHANGED <<queue, job, dropped, raced, troubles>> /\ UNCHANGED stores

\* The backfill commits its batch of results.  It inserts no event.
BackfillMatches(played) ==
  /\ played # {} /\ \A m \in played : row[m].status # "finished"
  /\ row' = [m \in Match |-> IF m \in played THEN [row[m] EXCEPT !.status = "finished"]
                             ELSE row[m]]
  /\ UNCHANGED <<owed, queue, job, dropped, raced, troubles>> /\ UNCHANGED stores

\* A drain publishes an event of the fixture.  It may publish one again that was
\* published before: a drain failed before its delete, or two read the same rows.
PublishEvent(m) ==
  /\ row[m].version > 0
  /\ queue' = Append(queue, m)
  /\ dropped' = dropped \ {m} /\ raced' = raced \ {m}
  /\ \/ m \in owed /\ owed' = owed \ {m} /\ UNCHANGED troubles
     \/ m \notin owed /\ troubles' = troubles + 1 /\ UNCHANGED owed
  /\ UNCHANGED <<row, job>> /\ UNCHANGED stores

-----------------------------------------------------------------------------
(* One job                                                                  *)

\* prefetch_count=1: the next message is delivered when none is unacknowledged.
Deliver(p) ==
  /\ job[p].pc = "idle" /\ queue # <<>>
  /\ job' = [job EXCEPT ![p] = [Waiting EXCEPT !.pc = "match", !.match = Head(queue),
                                               !.owned = TRUE]]
  /\ queue' = Tail(queue)
  /\ raced' = IF \E q \in Pod \ {p} : Uncommitted(q) /\ job[q].match = Head(queue)
              THEN raced \cup {Head(queue)} ELSE raced
  /\ UNCHANGED <<row, owed, dropped, troubles>> /\ UNCHANGED stores

\* fetch_match_via_id.  A fixture without a row ends the job at once.
FetchMatch(p) ==
  /\ job[p].pc = "match"
  /\ LET r == row[job[p].match] IN
     job' = [job EXCEPT
       ![p].pc = IF r.status = "absent" THEN "ack" ELSE "history",
       ![p].numbers = IF r.status = "absent" THEN None
                      ELSE [version |-> r.version, history |-> {}]]
  /\ UNCHANGED <<row, owed, queue, dropped, raced, troubles>> /\ UNCHANGED stores

\* fetch_match_history without `before`: every finished match of now.
FetchHistory(p) ==
  /\ job[p].pc = "history"
  /\ job' = [job EXCEPT ![p].pc = "preview",
       ![p].numbers.history = {m \in Match : row[m].status = "finished"}]
  /\ UNCHANGED <<row, owed, queue, dropped, raced, troubles>> /\ UNCHANGED stores

\* write_preview: None for an LLM error, no choice, no tool call, invalid JSON.
WritePreview(p) ==
  /\ job[p].pc = "preview"
  /\ \E usable \in BOOLEAN :
       job' = [job EXCEPT ![p].pc = "store", ![p].preview = usable]
  /\ UNCHANGED <<row, owed, queue, dropped, raced, troubles>> /\ UNCHANGED stores

\* Slip: the preview goes through the pool, outside the transaction of its numbers.
StorePredictionProseApart(p) ==
  /\ job[p].pc = "store"
  /\ \A q \in Pod \ {p} : ~(job[q].pc = "commit" /\ job[q].match = job[p].match)
  /\ job' = [job EXCEPT ![p].pc = "commit"]
  /\ commentary' = IF job[p].preview
                   THEN [commentary EXCEPT ![job[p].match] = job[p].numbers] ELSE commentary
  /\ UNCHANGED <<row, owed, queue, dropped, raced, troubles, prediction, cache, committed>>

\* Slip: the cache is warmed as soon as the preview is there.
StorePredictionWarming(p) ==
  /\ job[p].pc = "store"
  /\ \A q \in Pod \ {p} : ~(job[q].pc = "commit" /\ job[q].match = job[p].match)
  /\ job' = [job EXCEPT ![p].pc = "commit"]
  /\ cache' = IF job[p].preview THEN [cache EXCEPT ![job[p].match] = job[p].numbers] ELSE cache
  /\ UNCHANGED <<row, owed, queue, dropped, raced, troubles, prediction, commentary, committed>>

\* The upsert of the numbers opens the transaction and takes the row lock; the
\* preview is staged behind it.
StorePrediction(p) ==
  /\ job[p].pc = "store"
  /\ \A q \in Pod \ {p} : ~(job[q].pc = "commit" /\ job[q].match = job[p].match)
  /\ job' = [job EXCEPT ![p].pc = "commit"]
  /\ UNCHANGED <<row, owed, queue, dropped, raced, troubles>> /\ UNCHANGED stores

\* Numbers and preview become visible together.  Without a preview an earlier
\* one stays as it is.
Commit(p) ==
  /\ job[p].pc = "commit"
  /\ LET m == job[p].match IN
     /\ prediction' = [prediction EXCEPT ![m] = job[p].numbers]
     /\ IF job[p].preview
        THEN /\ commentary' = [commentary EXCEPT ![m] = job[p].numbers]
             /\ committed' = [committed EXCEPT ![m] = @ \cup {job[p].numbers}]
        ELSE UNCHANGED <<commentary, committed>>
  /\ job' = [job EXCEPT ![p].pc = IF job[p].preview THEN "warm" ELSE "ack"]
  /\ UNCHANGED <<row, owed, queue, dropped, raced, troubles, cache>>

\* redis.set; a RedisError is logged and the entry stays what it was.
WarmCache(p) ==
  /\ job[p].pc = "warm"
  /\ \/ cache' = [cache EXCEPT ![job[p].match] = job[p].numbers]
     \/ UNCHANGED cache
  /\ job' = [job EXCEPT ![p].pc = "ack"]
  /\ UNCHANGED <<row, owed, queue, dropped, raced, troubles, prediction, commentary, committed>>

\* Slip: nobody acknowledges, so that with prefetch_count=1 nothing more arrives.
AckMissing(p) ==
  /\ job[p].pc = "ack" /\ ~job[p].owned
  /\ job' = [job EXCEPT ![p] = Waiting]
  /\ UNCHANGED <<row, owed, queue, dropped, raced, troubles>> /\ UNCHANGED stores

\* message.process() acknowledges.  On a connection that was lost meanwhile the
\* acknowledgement may raise, which ends the consumer task but not the pod.
Ack(p) ==
  /\ job[p].pc = "ack"
  /\ \/ job' = [job EXCEPT ![p] = Waiting]
     \/ ~job[p].owned /\ job' = [job EXCEPT ![p] = [Waiting EXCEPT !.pc = "dead"]]
  /\ UNCHANGED <<row, owed, queue, dropped, raced, troubles>> /\ UNCHANGED stores

-----------------------------------------------------------------------------
(* Failures                                                                 *)

\* Slip: the except branch publishes the job again, under the id of the fixture
\* it has read, which it has not if the read is what failed.
JobErrorRepublishing(p) ==
  /\ Uncommitted(p) /\ troubles < MaxTroubles
  /\ queue' = Append(queue, IF job[p].pc = "match" THEN None ELSE job[p].match)
  /\ job' = [job EXCEPT ![p].pc = "ack"]
  /\ Forget(p) /\ troubles' = troubles + 1
  /\ UNCHANGED <<row, owed, raced>> /\ UNCHANGED stores

\* Any exception up to the commit: the transaction rolls back, process_job logs
\* and returns None, and the message is acknowledged like a good one.
JobError(p) ==
  /\ Uncommitted(p) /\ troubles < MaxTroubles
  /\ job' = [job EXCEPT ![p].pc = "ack"]
  /\ Forget(p) /\ troubles' = troubles + 1
  /\ UNCHANGED <<row, owed, queue, raced>> /\ UNCHANGED stores

\* SIGTERM: the lifespan cancels the consumer task.  CancelledError is no
\* Exception, so message.process() rejects the job, without requeue.
Cancel(p) ==
  /\ job[p].pc \notin {"down", "dead"} /\ troubles < MaxTroubles
  /\ job' = [job EXCEPT ![p] = Down]
  /\ Forget(p) /\ troubles' = troubles + 1
  /\ UNCHANGED <<row, owed, queue, raced>> /\ UNCHANGED stores

\* Slip: the message is acknowledged on delivery (no_ack=True).
KillAutoAck(p) ==
  /\ job[p].pc \notin {"down", "dead"} /\ troubles < MaxTroubles
  /\ job' = [job EXCEPT ![p] = Down]
  /\ troubles' = troubles + 1
  /\ UNCHANGED <<row, owed, queue, dropped, raced>> /\ UNCHANGED stores

\* SIGKILL, out of memory, a lost node: the broker takes the message back.
Kill(p) ==
  /\ job[p].pc \notin {"down", "dead"} /\ troubles < MaxTroubles
  /\ job' = [job EXCEPT ![p] = Down]
  /\ queue' = IF job[p].owned THEN <<job[p].match>> \o queue ELSE queue
  /\ troubles' = troubles + 1
  /\ UNCHANGED <<row, owed, dropped, raced>> /\ UNCHANGED stores

\* The connection drops under a running job, which goes on regardless.
Disconnect(p) ==
  /\ Working(p) /\ job[p].owned /\ troubles < MaxTroubles
  /\ job' = [job EXCEPT ![p].owned = FALSE]
  /\ queue' = <<job[p].match>> \o queue
  /\ troubles' = troubles + 1
  /\ UNCHANGED <<row, owed, dropped, raced>> /\ UNCHANGED stores

\* The Deployment keeps a pod running.  A pod whose consumer task has ended
\* still answers /health and is not restarted.
Start(p) ==
  /\ job[p].pc = "down"
  /\ job' = [job EXCEPT ![p] = Waiting]
  /\ UNCHANGED <<row, owed, queue, dropped, raced, troubles>> /\ UNCHANGED stores

\* Redis forgets an entry: its TTL is over, or the memory is.
Expire(m) ==
  /\ cache[m] # None
  /\ cache' = [cache EXCEPT ![m] = None]
  /\ UNCHANGED <<row, owed, queue, job, dropped, raced, troubles, prediction, commentary, committed>>

-----------------------------------------------------------------------------
Init ==
  /\ row = [m \in Match |-> [version |-> 0, status |-> "absent"]]
  /\ owed = {} /\ queue = <<>>
  /\ job = [p \in Pod |-> Down]
  /\ prediction = [m \in Match |-> None]
  /\ commentary = [m \in Match |-> None]
  /\ cache = [m \in Match |-> None]
  /\ dropped = {} /\ raced = {}
  /\ committed = [m \in Match |-> {}]
  /\ troubles = 0

\* What a consumer does by itself.
Consume(p) ==
  \/ Deliver(p) \/ FetchMatch(p) \/ FetchHistory(p) \/ WritePreview(p)
  \/ StorePrediction(p) \/ Commit(p) \/ WarmCache(p) \/ Ack(p)

\* Everything but the changes and the messages of the worker.
Work ==
  \/ \E played \in SUBSET Match : BackfillMatches(played)
  \/ \E m \in Match : Expire(m)
  \/ \E p \in Pod : \/ Consume(p) \/ Start(p)
                    \/ JobError(p) \/ Cancel(p) \/ Kill(p) \/ Disconnect(p)

Next ==
  \/ Work
  \/ \E m \in Match, v \in 1..MaxChanges : ChangeMatch(m, v)
  \/ \E m \in Match : (m \in owed \/ troubles < MaxTroubles) /\ PublishEvent(m)

Spec == Init /\ [][Next]_vars

\* The same for a worker that is bounded neither in its changes nor in the
\* messages it publishes twice: what Pipeline has to implement.
Step ==
  \/ Work
  \/ \E m \in Match : ChangeMatch(m, row'[m].version) \/ PublishEvent(m)

AnyWorker == Init /\ [][Step]_vars

\* The worker's runs publish what they owe (see Pipeline), the Deployment
\* restarts a pod that ended, and a consumer at work keeps working.
Fairness ==
  /\ \A m \in Match : WF_vars(m \in owed /\ PublishEvent(m))
  /\ \A p \in Pod : WF_vars(Start(p)) /\ WF_vars(Consume(p))

FairSpec == Spec /\ Fairness

-----------------------------------------------------------------------------
(* Properties                                                               *)

\* Type invariant.
TypeOK ==
  /\ row \in [Match -> Row]
  /\ owed \subseteq Match
  /\ queue \in Seq(Match)
  /\ job \in [Pod -> JobState]
  /\ prediction \in [Match -> Numbers \cup {None}]
  /\ commentary \in [Match -> Numbers \cup {None}]
  /\ cache \in [Match -> Numbers \cup {None}]
  /\ dropped \subseteq Match /\ raced \subseteq Match
  /\ committed \in [Match -> SUBSET Numbers]
  /\ troubles \in Nat

Queued(m) == \E i \in 1..Len(queue) : queue[i] = m

\* A later job of the fixture is on its way, or two jobs of it met.
Behind(m) == Queued(m) \/ m \in owed \cup raced

\* The job holds its message and has read the latest row, or has yet to read it.
Fresh(p) == job[p].owned /\
  (job[p].numbers # None => job[p].numbers.version = row[job[p].match].version)

JobAhead(m) == \E p \in Pod : job[p].match = m /\ Uncommitted(p) /\ Fresh(p)

Current(m) == prediction[m] # None /\ prediction[m].version = row[m].version

\* The stored numbers are those of the latest announced change of the fixture, or
\* its event or job is still ahead.  Killed, repeated and disconnected jobs never
\* leave the numbers of an earlier change behind: only a job that was given up does,
\* or two consumers that worked on the fixture at once.
NoStaleNumbers ==
  \A m \in Match : row[m].version > 0 =>
    Current(m) \/ JobAhead(m) \/ Behind(m) \/ m \in dropped

\* A fixture never ends up with prose and no numbers (handlers.py), whichever
\* step of a job fails.
ProseHasNumbers == \A m \in Match : commentary[m] # None => prediction[m] # None

\* The cache only ever holds prose that was committed to Postgres.
CacheHoldsCommitted == \A m \in Match : cache[m] # None => cache[m] \in committed[m]

\* Once nothing fails any more, every announced change is in the numbers, or its job
\* was given up or raced, unless a consumer task is gone: nothing brings it back.
EventuallyCurrent ==
  \A m \in Match : <>[](row[m].version > 0 =>
    Current(m) \/ m \in dropped \cup raced \/ \E p \in Pod : job[p].pc = "dead")

-----------------------------------------------------------------------------
(* The inductive invariants behind these properties                         *)

\* A consumer is either without a job or somewhere in process_job, with the
\* numbers from the first read on; it warms only what it has committed.
JobsSound ==
  \A p \in Pod :
    /\ Working(p) <=> job[p].pc \notin {"down", "dead", "idle"}
    /\ job[p].owned => Working(p)
    /\ job[p].pc \in {"history", "preview", "store", "commit", "warm"} => job[p].numbers # None
    /\ job[p].pc = "warm" => job[p].numbers \in committed[job[p].match]

IInv == TypeOK /\ JobsSound /\ ProseHasNumbers /\ CacheHoldsCommitted

\* Whoever works on a message that went back to the queue, or on a row that has
\* changed since, has another message of the fixture behind it, or raced with it.
OvertakenIsQueued ==
  \A p \in Pod : Uncommitted(p) => Fresh(p) \/ Behind(job[p].match)

AnnouncedExists == \A m \in Match : row[m].version > 0 => row[m].status # "absent"

\* The inductive invariant behind NoStaleNumbers.
FreshInv == IInv /\ OvertakenIsQueued /\ AnnouncedExists /\ NoStaleNumbers
=============================================================================
