------------------------------ MODULE Pipeline ------------------------------
(***************************************************************************)
(* Worker, queue and brain together.  The worker's half is Worker, with one *)
(* difference: where Worker lets an anonymous brain consume the queue, the  *)
(* pods of Brain do.  The brain's half is Brain, with one difference: where *)
(* Brain lets an anonymous worker change rows and publish messages, the     *)
(* runs of Worker do.  The two halves share the match table and the queue.  *)
(***************************************************************************)
EXTENDS Worker

CONSTANTS
  Pod,          \* consumers: one, or two while a rollout replaces the pod
  MaxTroubles   \* bound: jobs failed, cancelled or killed and connections lost

VARIABLES
  owed,         \* history: fixtures without a message since their latest change
  job, prediction, commentary, cache,            \* as in Brain
  dropped, raced, committed, troubles            \* as in Brain

brainVars == <<job, prediction, commentary, cache, committed>>
pvars == <<vars, owed, dropped, raced, troubles, brainVars>>

\* The match table as the brain sees it: a change is numbered by its event.
row == [m \in Match |->
  [version |-> change[m],
   status  |-> IF db[m].gate = None THEN "absent"
               ELSE IF db[m].gate \in Finished THEN "finished" ELSE "upcoming"]]

B == INSTANCE Brain WITH MaxChanges <- 0

ASSUME PipelineAssumption ==
  /\ None \notin Match /\ None \notin B!Numbers
  /\ Upcoming \cup Finished = Gate
  /\ MaxTroubles \in Nat

-----------------------------------------------------------------------------
(* The worker's steps                                                       *)

\* A step of the worker that the brain cannot tell.
Silent == UNCHANGED <<owed, dropped, raced, troubles, brainVars>>

\* The rows of the match table change under the brain.
CommitRows(r) ==
  /\ Commit(r)
  /\ owed' = owed \cup {w.match : w \in Announced(run[r].tx)}
  /\ UNCHANGED <<dropped, raced, troubles, brainVars>>

\* A message arrives for the brain.
PublishJob(r) ==
  /\ Publish(r)
  /\ LET m == queue'[Len(queue')] IN
     /\ owed' = owed \ {m} /\ dropped' = dropped \ {m} /\ raced' = raced \ {m}
     /\ troubles' = IF m \in owed THEN troubles ELSE troubles + 1
  /\ UNCHANGED brainVars

AdvanceRun(r) == (Hidden(r) /\ Silent) \/ CommitRows(r) \/ PublishJob(r)

-----------------------------------------------------------------------------
(* The brain's steps                                                        *)

Deliver(p) == Consume /\ B!Deliver(p)

\* Killed, or cut off: the message goes back if the broker still counts it as ours.
GiveBack(p) ==
  /\ IF job[p].owned THEN Redeliver(job[p].match) ELSE UNCHANGED vars
  /\ B!Kill(p) \/ B!Disconnect(p)

\* One step of a job.
Work(p) ==
  /\ UNCHANGED vars
  /\ \/ B!FetchMatch(p) \/ B!FetchHistory(p) \/ B!WritePreview(p)
     \/ B!StorePrediction(p) \/ B!Commit(p) \/ B!WarmCache(p) \/ B!Ack(p)

Start(p) == UNCHANGED vars /\ B!Start(p)

\* A job that fails or is cancelled is given up.
GiveUp(p) == UNCHANGED vars /\ (B!JobError(p) \/ B!Cancel(p))

Expire(m) == UNCHANGED vars /\ B!Expire(m)

-----------------------------------------------------------------------------
PInit ==
  /\ Init
  /\ owed = {} /\ dropped = {} /\ raced = {} /\ troubles = 0
  /\ job = [p \in Pod |-> B!Down]
  /\ prediction = [m \in Match |-> None]
  /\ commentary = [m \in Match |-> None]
  /\ cache = [m \in Match |-> None]
  /\ committed = [m \in Match |-> {}]

WorkerStep ==
  \/ \E m \in Match : FeedChange(m) /\ Silent
  \/ \E r \in Run : \/ (Begin(r) \/ Fail(r)) /\ Silent
                    \/ AdvanceRun(r)
                    \/ \E m \in Match : Upsert(r, m) /\ Silent

BrainStep ==
  \/ \E p \in Pod : Deliver(p) \/ GiveBack(p) \/ Work(p) \/ Start(p) \/ GiveUp(p)
  \/ \E m \in Match : Expire(m)

PNext == WorkerStep \/ BrainStep

PSpec == PInit /\ [][PNext]_pvars

\* The fairness of the two halves, whose anonymous partners are now real.
PFairness ==
  /\ \A r \in CronJob : WF_pvars(Begin(r) /\ Silent)
  /\ \A r \in Run : WF_pvars(AdvanceRun(r))
  /\ \A r \in Run, m \in Match : SF_pvars(Upsert(r, m) /\ Silent)
  /\ \A p \in Pod : WF_pvars(Start(p)) /\ WF_pvars(Deliver(p) \/ Work(p))

PFairSpec == PSpec /\ PFairness

-----------------------------------------------------------------------------
(* Properties                                                               *)

\* The stored numbers are those of the latest announced change.
Current(m) == prediction[m] # None /\ prediction[m].version = change[m]

\* From the feed's change to the stored numbers nothing gets lost between the
\* parts: a committed change is in the numbers, or its event is still in
\* rabbit_event, or a message or a job of the fixture is on its way, or the job
\* was given up (process_job swallowed an error, a pod was shut down), or two
\* consumers worked on the fixture at once.
NothingFallsBetween ==
  \A m \in Match : change[m] > 0 =>
    \/ Current(m)
    \/ \E e \in outbox : e.match = m /\ e.id = change[m]
    \/ Queued(m)
    \/ B!JobAhead(m)
    \/ m \in dropped \cup raced

\* No job ends as "not found": every job names a fixture that has its row.
JobsFindTheirRow ==
  \A p \in Pod : job[p].match # None => db[job[p].match].gate # None

\* The worker is a worker as Brain assumes one: it announces changes of upcoming
\* fixtures under growing numbers, writes results silently, and publishes messages
\* of announced fixtures only.
WorkerAsAssumed == B!AnyWorker

\* Once the feed holds still, the numbers of an upcoming fixture are computed from
\* the row the feed lists, unless its job was given up or raced or a consumer task
\* is gone.
NumbersCatchUp ==
  \A m \in Match : <>[](feed[m].gate \in Upcoming =>
    /\ db[m].gate = feed[m].gate
    /\ Current(m) \/ m \in dropped \cup raced \/ \E p \in Pod : job[p].pc = "dead")
=============================================================================
