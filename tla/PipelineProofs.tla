--------------------------- MODULE PipelineProofs ---------------------------
(***************************************************************************)
(* Theorems about Pipeline, for every set of fixtures, runs and pods: it    *)
(* implements Worker and Brain, so what is proved of either holds of both   *)
(* together, and from that nothing falls between them.                      *)
(***************************************************************************)
EXTENDS Pipeline, WorkerProofs

\* Brain once more, with its theorems.
BP == INSTANCE BrainProofs WITH MaxChanges <- 0

\* What Brain assumes of its constants.
LEMMA BrainAssumptions == /\ None \notin Match /\ None \notin BP!Numbers
                          /\ 0 \in Nat /\ MaxTroubles \in Nat
BY PipelineAssumption DEF B!Numbers, BP!Numbers

\* The two instances of Brain are the same module.
LEMMA SamePod ==
  ASSUME NEW p \in Pod
  PROVE  /\ B!Deliver(p) <=> BP!Deliver(p)
         /\ B!FetchMatch(p) <=> BP!FetchMatch(p)
         /\ B!FetchHistory(p) <=> BP!FetchHistory(p)
         /\ B!WritePreview(p) <=> BP!WritePreview(p)
         /\ B!Start(p) <=> BP!Start(p)
<1>1. B!Deliver(p) <=> BP!Deliver(p)
  BY DEF B!Deliver, BP!Deliver, B!Waiting, BP!Waiting, B!Uncommitted, BP!Uncommitted,
         B!stores, BP!stores
<1>2. B!FetchMatch(p) <=> BP!FetchMatch(p)
  BY DEF B!FetchMatch, BP!FetchMatch, B!stores, BP!stores
<1>3. B!FetchHistory(p) <=> BP!FetchHistory(p)
  BY DEF B!FetchHistory, BP!FetchHistory, B!stores, BP!stores
<1>4. B!WritePreview(p) <=> BP!WritePreview(p)
  BY DEF B!WritePreview, BP!WritePreview, B!stores, BP!stores
<1>5. B!Start(p) <=> BP!Start(p)
  BY DEF B!Start, BP!Start, B!Waiting, BP!Waiting, B!stores, BP!stores
<1>6. QED
  BY <1>1, <1>2, <1>3, <1>4, <1>5

LEMMA SameStore ==
  ASSUME NEW p \in Pod
  PROVE  /\ B!StorePrediction(p) <=> BP!StorePrediction(p)
         /\ B!Commit(p) <=> BP!Commit(p)
         /\ B!WarmCache(p) <=> BP!WarmCache(p)
         /\ B!Ack(p) <=> BP!Ack(p)
         /\ \A m \in Match : B!Expire(m) <=> BP!Expire(m)
<1>1. B!StorePrediction(p) <=> BP!StorePrediction(p)
  BY DEF B!StorePrediction, BP!StorePrediction, B!stores, BP!stores
<1>2. B!Commit(p) <=> BP!Commit(p)
  BY DEF B!Commit, BP!Commit
<1>3. B!WarmCache(p) <=> BP!WarmCache(p)
  BY DEF B!WarmCache, BP!WarmCache
<1>4. B!Ack(p) <=> BP!Ack(p)
  BY DEF B!Ack, BP!Ack, B!Waiting, BP!Waiting, B!stores, BP!stores
<1>5. \A m \in Match : B!Expire(m) <=> BP!Expire(m)
  BY DEF B!Expire, BP!Expire
<1>6. QED
  BY <1>1, <1>2, <1>3, <1>4, <1>5

LEMMA SameEnd ==
  ASSUME NEW p \in Pod
  PROVE  /\ B!JobError(p) <=> BP!JobError(p)
         /\ B!Cancel(p) <=> BP!Cancel(p)
         /\ B!Kill(p) <=> BP!Kill(p)
         /\ B!Disconnect(p) <=> BP!Disconnect(p)
<1>1. B!JobError(p) <=> BP!JobError(p)
  BY DEF B!JobError, BP!JobError, B!Forget, BP!Forget, B!Uncommitted, BP!Uncommitted,
         B!stores, BP!stores
<1>2. B!Cancel(p) <=> BP!Cancel(p)
  BY DEF B!Cancel, BP!Cancel, B!Forget, BP!Forget, B!Uncommitted, BP!Uncommitted,
         B!Down, BP!Down, B!Waiting, BP!Waiting, B!stores, BP!stores
<1>3. B!Kill(p) <=> BP!Kill(p)
  BY DEF B!Kill, BP!Kill, B!Down, BP!Down, B!Waiting, BP!Waiting, B!stores, BP!stores
<1>4. B!Disconnect(p) <=> BP!Disconnect(p)
  BY DEF B!Disconnect, BP!Disconnect, B!Working, BP!Working, B!stores, BP!stores
<1>5. QED
  BY <1>1, <1>2, <1>3, <1>4

\* So they describe the same behaviours.
LEMMA SameBrain == (BP!Init <=> B!Init) /\ (BP!Step <=> B!Step) /\ BP!vars = B!vars
<1>1. BP!Init <=> B!Init
  BY DEF BP!Init, B!Init, BP!Down, B!Down, BP!Waiting, B!Waiting
<1>2. \A p \in Pod : BP!Consume(p) <=> B!Consume(p)
  BY SamePod, SameStore DEF BP!Consume, B!Consume
<1>3. \A played \in SUBSET Match : BP!BackfillMatches(played) <=> B!BackfillMatches(played)
  BY DEF BP!BackfillMatches, B!BackfillMatches, BP!stores, B!stores
<1>4. BP!Work <=> B!Work
  <2>1. \A m \in Match : BP!Expire(m) <=> B!Expire(m)
    BY DEF B!Expire, BP!Expire
  <2>2. QED
    BY <1>2, <1>3, <2>1, SamePod, SameEnd DEF BP!Work, B!Work
<1>5. \A m \in Match : /\ BP!ChangeMatch(m, row'[m].version) <=> B!ChangeMatch(m, row'[m].version)
                       /\ BP!PublishEvent(m) <=> B!PublishEvent(m)
  BY DEF BP!ChangeMatch, B!ChangeMatch, BP!PublishEvent, B!PublishEvent, BP!stores, B!stores
<1>6. BP!Step <=> B!Step
  BY <1>4, <1>5 DEF BP!Step, B!Step
<1>7. BP!vars = B!vars
  BY DEF BP!vars, B!vars
<1>8. QED
  BY <1>1, <1>6, <1>7

-----------------------------------------------------------------------------
(* The pipeline implements the worker                                       *)

\* Every step of the pipeline is a step of the worker, of its feed or of its
\* queue, or one it cannot tell.
LEMMA SimulatesWorker ==
  ASSUME BP!IInv, [PNext]_pvars
  PROVE  [Next]_vars
<1>1. ASSUME NEW p \in Pod, GiveBack(p) PROVE [Next]_vars
  <2>1. CASE job[p].owned
    <3>1. job[p].match \in Match
      BY <2>1 DEF BP!IInv, BP!TypeOK, BP!JobState, BP!JobsSound, BP!Working
    <3>2. Redeliver(job[p].match)
      BY <1>1, <2>1 DEF GiveBack
    <3>3. QED
      BY <3>1, <3>2 DEF Next
  <2>2. CASE ~job[p].owned
    BY <1>1, <2>2 DEF GiveBack
  <2>3. QED
    BY <2>1, <2>2
<1>2. CASE BrainStep
  BY <1>1, <1>2 DEF BrainStep, Deliver, Work, Start, GiveUp, Expire, Next
<1>3. CASE WorkerStep
  BY <1>3 DEF WorkerStep, AdvanceRun, CommitRows, PublishJob, Next, Advance
<1>4. CASE UNCHANGED pvars
  BY <1>4 DEF pvars
<1>5. QED
  BY <1>2, <1>3, <1>4 DEF PNext

-----------------------------------------------------------------------------
(* The pipeline implements the brain                                        *)

\* What the pipeline leaves of the match table when the tables do not change.
LEMMA RowUnchanged == UNCHANGED <<db, change>> => row' = row
BY DEF row

\* A message is published for a fixture that has been announced.
LEMMA PublishSimulates ==
  ASSUME IInv, NEW r \in Run, PublishJob(r)
  PROVE  \E m \in Match : BP!PublishEvent(m)
<1>1. PICK e \in run[r].unsent : queue' = Append(queue, e.match)
  BY DEF PublishJob, Publish
<1>2. /\ e \in Known /\ e.match \in Match /\ e.id \in Nat \ {0}
      /\ queue \in Seq(Match)
  BY DEF IInv, TypeOK, RunState, Event, Bookkeeping, DrainCovered, Known
<1>3. e.id <= change[e.match] /\ change[e.match] \in Nat
  BY <1>2 DEF IInv, Bookkeeping, IdsOrdered, TypeOK
<1>4. row[e.match].version > 0
  BY <1>2, <1>3 DEF row
<1>5. queue'[Len(queue')] = e.match
  BY <1>1, <1>2
<1>6. row' = row
  BY RowUnchanged DEF PublishJob, Publish
<1>7. /\ owed' = owed \ {e.match} /\ dropped' = dropped \ {e.match}
      /\ raced' = raced \ {e.match}
      /\ troubles' = IF e.match \in owed THEN troubles ELSE troubles + 1
      /\ UNCHANGED brainVars
  BY <1>5 DEF PublishJob
<1>8. BP!PublishEvent(e.match)
  <2>1. CASE e.match \in owed
    BY <1>1, <1>4, <1>6, <1>7, <2>1 DEF BP!PublishEvent, BP!stores, brainVars
  <2>2. CASE e.match \notin owed
    <3>1. owed' = owed /\ troubles' = troubles + 1
      BY <1>7, <2>2
    <3>2. QED
      BY <1>1, <1>4, <1>6, <1>7, <2>2, <3>1 DEF BP!PublishEvent, BP!stores, brainVars
  <2>3. QED
    BY <2>1, <2>2
<1>9. QED
  BY <1>2, <1>8

\* What a commit does to one fixture: nothing the brain can tell, or a result, or
\* an announced change under a larger number.
LEMMA CommitRow ==
  ASSUME IInv, NEW r \in Run, Commit(r), NEW m \in Match
  PROVE  /\ (\A w \in Announced(run[r].tx) : w.match # m) =>
              /\ row'[m].version = row[m].version
              /\ row'[m].status \in {row[m].status, "finished"}
         /\ \A w \in Announced(run[r].tx) : w.match = m =>
              /\ row'[m] = [version |-> w.event, status |-> "upcoming"]
              /\ w.event \in Nat /\ w.event > row[m].version
<1> DEFINE tx == run[r].tx
<1>1. /\ \A w \in tx : w.event \in Nat
      /\ \A w, v \in tx : w.match = v.match => w = v
      /\ \A w \in tx : w.row.gate # None
  BY DEF IInv, TypeOK, RunState, Write, Bookkeeping, LocksExclusive, RowsExist
<1>2. /\ db'[m] = Written(tx, m, db[m])
      /\ change'[m] = IF \E w \in Announced(tx) : w.match = m
                      THEN (CHOOSE w \in Announced(tx) : w.match = m).event ELSE change[m]
  BY DEF Commit
<1>3. /\ row[m].version = change[m] /\ row'[m].version = change'[m]
      /\ row[m].status = IF db[m].gate = None THEN "absent"
                         ELSE IF db[m].gate \in Finished THEN "finished" ELSE "upcoming"
      /\ row'[m].status = IF db'[m].gate = None THEN "absent"
                          ELSE IF db'[m].gate \in Finished THEN "finished" ELSE "upcoming"
      /\ row'[m] = [version |-> row'[m].version, status |-> row'[m].status]
  BY DEF row
<1>4. ASSUME \A w \in Announced(tx) : w.match # m
      PROVE  /\ row'[m].version = row[m].version
             /\ row'[m].status \in {row[m].status, "finished"}
  <2>1. change'[m] = change[m]
    BY <1>2, <1>4
  <2>2. CASE \E w \in tx : w.match = m
    <3>1. PICK w \in tx : w.match = m
      BY <2>2
    <3>2. db'[m] = w.row /\ w.event = 0
      BY <1>1, <1>2, <1>4, <3>1 DEF Written, Announced
    <3>3. w.row.gate = db[m].gate \/ w.row.gate \in Finished
      BY <3>1, <3>2 DEF IInv, Bookkeeping, SilentWrites
    <3>4. QED
      BY <1>1, <1>3, <2>1, <3>1, <3>2, <3>3
  <2>3. CASE ~ \E w \in tx : w.match = m
    <3>1. db'[m] = db[m]
      BY <1>2, <2>3 DEF Written
    <3>2. QED
      BY <1>3, <2>1, <3>1
  <2>4. QED
    BY <2>2, <2>3
<1>5. ASSUME NEW w \in Announced(tx), w.match = m
      PROVE  /\ row'[m] = [version |-> w.event, status |-> "upcoming"]
             /\ w.event \in Nat /\ w.event > row[m].version
  <2>1. w \in tx /\ w.event # 0
    BY DEF Announced
  <2>2. db'[m] = w.row /\ change'[m] = w.event
    BY <1>1, <1>2, <1>5, <2>1 DEF Written, Announced
  <2>3. w.row.gate \in Upcoming /\ change[m] < w.event
    BY <1>5, <2>1 DEF IInv, Bookkeeping, AnnouncedUpcoming, IdsOrdered
  <2>4. w.row.gate # None /\ w.row.gate \notin Finished
    BY <2>3, GateAssumption
  <2>5. row'[m].version = w.event /\ row'[m].status = "upcoming"
    BY <1>3, <2>2, <2>4
  <2>6. change[m] \in Nat /\ w.event \in Nat
    BY <1>1, <2>1 DEF IInv, TypeOK
  <2>7. QED
    BY <1>3, <2>3, <2>5, <2>6
<1>6. QED
  BY <1>4, <1>5

\* A commit announces one change, or writes results, or changes nothing the brain
\* can tell.
LEMMA CommitSimulates ==
  ASSUME IInv, NEW r \in Run, CommitRows(r)
  PROVE  \/ \E m \in Match : BP!ChangeMatch(m, row'[m].version)
         \/ \E played \in SUBSET Match : BP!BackfillMatches(played)
         \/ UNCHANGED BP!vars
<1> DEFINE tx == run[r].tx
<1>1. /\ Commit(r) /\ UNCHANGED <<queue, dropped, raced, troubles, brainVars>>
      /\ owed' = owed \cup {w.match : w \in Announced(tx)}
  BY DEF CommitRows, Commit
<1>2. row' = [m \in Match |-> row'[m]] /\ row = [m \in Match |-> row[m]]
  BY DEF row
<1>3. CASE Announced(tx) # {}
  <2>1. PICK w \in Announced(tx) : w.match \in Match
    BY <1>3 DEF Announced, IInv, TypeOK, RunState, Write
  <2>2. \A v \in Announced(tx) : v = w
    BY <2>1 DEF Announced, IInv, Bookkeeping, OneEventEach
  <2>3. /\ row'[w.match] = [version |-> w.event, status |-> "upcoming"]
        /\ w.event \in Nat /\ w.event > row[w.match].version
    BY <1>1, <2>1, CommitRow
  <2>4. \A m \in Match \ {w.match} : row'[m] = row[m]
    <3>1. \A v \in tx : v = w
      BY <2>1 DEF Announced, IInv, Bookkeeping, OneEventEach
    <3>2. \A m \in Match \ {w.match} : db'[m] = db[m] /\ change'[m] = change[m]
      BY <1>1, <2>2, <3>1 DEF Commit, Written
    <3>3. QED
      BY <3>2 DEF row
  <2>5. row' = [row EXCEPT ![w.match] = [version |-> w.event, status |-> "upcoming"]]
    BY <1>2, <2>1, <2>3, <2>4
  <2>6. owed' = owed \cup {w.match} /\ row'[w.match].version = w.event
    BY <1>1, <2>1, <2>2, <2>3
  <2>7. BP!ChangeMatch(w.match, w.event)
    BY <1>1, <2>3, <2>5, <2>6 DEF BP!ChangeMatch, BP!stores, brainVars
  <2>8. QED
    BY <2>1, <2>6, <2>7
<1>4. CASE Announced(tx) = {}
  <2> DEFINE played == {m \in Match : row'[m].status # row[m].status}
  <2>1. owed' = owed
    BY <1>1, <1>4
  <2>2. \A m \in Match : /\ row'[m].version = row[m].version
                         /\ row'[m].status \in {row[m].status, "finished"}
    BY <1>1, <1>4, CommitRow
  <2>3. \A m \in Match : /\ row[m] = [version |-> row[m].version, status |-> row[m].status]
                         /\ row'[m] = [version |-> row'[m].version, status |-> row'[m].status]
    BY DEF row
  <2>4. CASE played = {}
    <3>1. \A m \in Match : row'[m] = row[m]
      BY <2>2, <2>3, <2>4
    <3>2. row' = row
      BY <1>2, <3>1
    <3>3. QED
      BY <1>1, <2>1, <3>2 DEF BP!vars, brainVars
  <2>5. CASE played # {}
    <3>1. \A m \in played : row[m].status # "finished"
      BY <2>2
    <3>2. \A m \in Match : row'[m] = IF m \in played
                                     THEN [row[m] EXCEPT !.status = "finished"] ELSE row[m]
      <4>1. ASSUME NEW m \in played PROVE row'[m] = [row[m] EXCEPT !.status = "finished"]
        BY <2>2, <2>3
      <4>2. ASSUME NEW m \in Match \ played PROVE row'[m] = row[m]
        BY <2>2, <2>3
      <4>3. QED
        BY <4>1, <4>2
    <3> HIDE DEF played
    <3>3. row' = [m \in Match |-> IF m \in played THEN [row[m] EXCEPT !.status = "finished"]
                                  ELSE row[m]]
      BY <1>2, <3>2
    <3>4. BP!BackfillMatches(played)
      BY <1>1, <2>1, <2>5, <3>1, <3>3 DEF BP!BackfillMatches, BP!stores, brainVars, played
    <3>5. QED
      BY <3>4 DEF played
  <2>6. QED
    BY <2>4, <2>5
<1>5. QED
  BY <1>3, <1>4

\* Every step of the pipeline is a step of the brain, or of the worker the brain
\* assumes, or one it cannot tell.
LEMMA SimulatesBrain ==
  ASSUME IInv, [PNext]_pvars
  PROVE  [BP!Step]_(BP!vars)
<1>1. ASSUME UNCHANGED <<db, change, queue>>, Silent \/ UNCHANGED pvars
      PROVE  UNCHANGED BP!vars
  BY <1>1, RowUnchanged DEF Silent, pvars, BP!vars, brainVars
<1>2. CASE UNCHANGED pvars
  BY <1>1, <1>2 DEF pvars, vars
<1>3. ASSUME NEW m \in Match, FeedChange(m), Silent PROVE UNCHANGED BP!vars
  BY <1>1, <1>3 DEF FeedChange
<1>4. ASSUME NEW r \in Run, Silent,
             Begin(r) \/ Fail(r) \/ Hidden(r) \/ \E m \in Match : Upsert(r, m)
      PROVE  UNCHANGED BP!vars
  <2>1. UNCHANGED <<db, change, queue>>
    BY <1>4 DEF Begin, Fail, Hidden, Upsert, WriteMatch, RejectMatch, StartSync,
                FetchLeague, FetchHistoric, FetchEvents, DeleteEvents
  <2>2. QED
    BY <1>1, <1>4, <2>1
<1>5. ASSUME NEW r \in Run, CommitRows(r) \/ PublishJob(r) PROVE [BP!Step]_(BP!vars)
  BY <1>5, CommitSimulates, PublishSimulates DEF BP!Step, BP!Work
<1>6. CASE WorkerStep
  BY <1>3, <1>4, <1>5, <1>6 DEF WorkerStep, AdvanceRun
<1>7. CASE BrainStep
  <2>1. ASSUME NEW p \in Pod, Deliver(p) \/ GiveBack(p) \/ Work(p) \/ Start(p) \/ GiveUp(p)
        PROVE  BP!Work
    BY <2>1, SamePod, SameStore, SameEnd
    DEF Deliver, GiveBack, Work, Start, GiveUp, BP!Work, BP!Consume
  <2>2. ASSUME NEW m \in Match, Expire(m) PROVE BP!Work
    <3>1. BP!Expire(m)
      BY <2>2 DEF Expire, B!Expire, BP!Expire
    <3>2. QED
      BY <3>1 DEF BP!Work
  <2>3. QED
    BY <1>7, <2>1, <2>2 DEF BrainStep, BP!Step
<1>8. QED
  BY <1>2, <1>6, <1>7 DEF PNext

-----------------------------------------------------------------------------
(* Both halves together                                                     *)

\* The history variable owed and the rabbit_event table agree: what is owed has
\* its event there, and a drained event of the latest change is owed no longer.
OwedInOutbox ==
  /\ \A m \in owed : \E e \in outbox : e.match = m /\ e.id = change[m]
  /\ \A r \in Run : \A e \in run[r].events \ run[r].unsent :
       e.id = change[e.match] => e.match \notin owed

\* The inductive invariant of the pipeline.
PInv == IInv /\ BP!FreshInv /\ OwedInOutbox /\ JobsFindTheirRow

\* The pipeline starts as the brain does.
LEMMA PInitBrain == PInit => B!Init
<1>1. PInit => row = [m \in Match |-> [version |-> 0, status |-> "absent"]]
  BY DEF PInit, Init, NoRow, row
<1>2. QED
  BY <1>1 DEF PInit, Init, B!Init

\* The invariant holds before anything has happened.
LEMMA PInitInv == PInit => PInv
<1> SUFFICES ASSUME PInit PROVE PInv
  OBVIOUS
<1>1. IInv
  BY InitInv DEF PInit
<1>3. BP!Init
  BY PInitBrain, SameBrain
<1>4. BP!FreshInv
  BY <1>3, BP!FreshInit, BrainAssumptions
<1>5. OwedInOutbox
  BY DEF PInit, Init, Idle, OwedInOutbox
<1>6. JobsFindTheirRow
  BY DEF PInit, JobsFindTheirRow, B!Down, B!Waiting
<1>7. QED
  BY <1>1, <1>4, <1>5, <1>6 DEF PInv

\* Steps that leave what is owed, the changes and the table alone.
LEMMA OwedLocal ==
  ASSUME OwedInOutbox, UNCHANGED <<owed, change, outbox>>,
         \A q \in Run : run'[q].events \ run'[q].unsent \subseteq run[q].events \ run[q].unsent
  PROVE  OwedInOutbox'
BY DEF OwedInOutbox

\* A run that goes on, short of a commit, a publication or the final delete,
\* counts nothing more as drained.
LEMMA DrainedKept ==
  ASSUME TypeOK, NEW r \in Run,
         \/ Begin(r) \/ Fail(r) \/ StartSync(r) \/ FetchEvents(r)
         \/ \E c \in League : FetchLeague(r, c) \/ FetchHistoric(r, c)
         \/ \E m \in Match : Upsert(r, m)
  PROVE  /\ UNCHANGED <<change, outbox>>
         /\ \A q \in Run : run'[q].events \ run'[q].unsent
                             \subseteq run[q].events \ run[q].unsent
<1>1. UNCHANGED <<change, outbox>>
  BY DEF Begin, Fail, StartSync, FetchEvents, FetchLeague, FetchHistoric, Upsert,
         WriteMatch, RejectMatch
<1>2. \A q \in Run \ {r} : run'[q] = run[q]
  BY DEF Begin, Fail, StartSync, FetchEvents, FetchLeague, FetchHistoric, Upsert,
         WriteMatch, RejectMatch, TypeOK
<1>3. run'[r].events \ run'[r].unsent \subseteq run[r].events \ run[r].unsent
  <2>1. run[r] \in RunState
    BY DEF TypeOK
  <2>2. CASE run' = [run EXCEPT ![r] = Idle]
    BY <2>2 DEF Idle, TypeOK
  <2>3. CASE Begin(r)
    BY <2>3 DEF Begin, Idle, TypeOK
  <2>4. CASE StartSync(r)
    <3>1. CASE r \in Historic /\ Batched(r) = {}
      BY <2>2, <2>4, <3>1 DEF StartSync
    <3>2. CASE ~(r \in Historic /\ Batched(r) = {})
      BY <2>1, <2>4, <3>2 DEF StartSync, TypeOK, RunState
    <3>3. QED
      BY <3>1, <3>2
  <2>5. CASE FetchEvents(r)
    <3>1. CASE outbox = {}
      BY <2>2, <2>5, <3>1 DEF FetchEvents
    <3>2. CASE outbox # {}
      BY <2>1, <2>5, <3>2 DEF FetchEvents, TypeOK, RunState
    <3>3. QED
      BY <3>1, <3>2
  <2>6. ASSUME NEW c \in League, FetchLeague(r, c) \/ FetchHistoric(r, c)
        PROVE  run'[r].events = run[r].events /\ run'[r].unsent = run[r].unsent
    <3>1. CASE FetchLeague(r, c)
      BY <2>1, <3>1 DEF FetchLeague, TypeOK, RunState
    <3>2. CASE FetchHistoric(r, c)
      <4>1. PICK left, batch : run' = [run EXCEPT ![r].codes = left, ![r].batch = batch]
        BY <3>2 DEF FetchHistoric
      <4>2. QED
        BY <2>1, <4>1 DEF TypeOK, RunState
    <3>3. QED
      BY <2>6, <3>1, <3>2
  <2>7. ASSUME NEW m \in Match, WriteMatch(r, m)
        PROVE  run'[r].events = run[r].events /\ run'[r].unsent = run[r].unsent
    <3>1. PICK write : run' = [run EXCEPT ![r].tx = @ \cup {write}, ![r].batch[m] = NoRow]
      BY <2>7 DEF WriteMatch
    <3>2. QED
      BY <2>1, <3>1 DEF TypeOK, RunState
  <2>8. CASE Fail(r) \/ \E m \in Match : RejectMatch(r, m)
    BY <2>2, <2>8 DEF Fail, RejectMatch
  <2>9. QED
    BY <2>3, <2>4, <2>5, <2>6, <2>7, <2>8 DEF Upsert
<1>4. QED
  BY <1>1, <1>2, <1>3

\* The events of a change are published before they are deleted.
LEMMA OwedDelete ==
  ASSUME IInv, OwedInOutbox, NEW r \in Run, DeleteEvents(r), UNCHANGED owed
  PROVE  OwedInOutbox'
<1>1. /\ UNCHANGED change /\ run' = [run EXCEPT ![r] = Idle]
      /\ outbox' = {e \in outbox : \A f \in run[r].events : f.id # e.id}
      /\ run[r].unsent = {}
  BY DEF DeleteEvents
<1>2. \A q \in Run : run'[q].events \ run'[q].unsent \subseteq run[q].events \ run[q].unsent
  BY <1>1 DEF Idle, IInv, TypeOK
<1>3. ASSUME NEW m \in owed PROVE \E e \in outbox' : e.match = m /\ e.id = change[m]
  <2>1. PICK e \in outbox : e.match = m /\ e.id = change[m]
    BY DEF OwedInOutbox
  <2>2. ASSUME NEW f \in run[r].events, f.id = e.id PROVE FALSE
    <3>1. f.match = m
      BY <2>1, <2>2 DEF IInv, Bookkeeping, IdsOrdered, Known
    <3>2. QED
      BY <1>1, <2>1, <2>2, <3>1 DEF OwedInOutbox
  <2>3. QED
    BY <1>1, <2>1, <2>2
<1>4. QED
  BY <1>1, <1>2, <1>3 DEF OwedInOutbox

\* A publication clears the debt of the fixture it names.
LEMMA OwedPublish ==
  ASSUME IInv, OwedInOutbox, NEW r \in Run, PublishJob(r)
  PROVE  OwedInOutbox'
<1>1. PICK e \in run[r].unsent :
        /\ queue' = Append(queue, e.match)
        /\ run' = [run EXCEPT ![r].unsent = @ \ {e}]
  BY DEF PublishJob, Publish
<1>2. e.match \in Match /\ queue \in Seq(Match)
  BY DEF IInv, TypeOK, RunState, Event
<1>3. owed' = owed \ {e.match} /\ UNCHANGED <<change, outbox>>
  <2>1. queue'[Len(queue')] = e.match
    BY <1>1, <1>2
  <2>2. QED
    BY <2>1 DEF PublishJob, Publish
<1>4. \A q \in Run : run'[q].events \ run'[q].unsent
                      \subseteq (run[q].events \ run[q].unsent) \cup {e}
  BY <1>1 DEF IInv, TypeOK, RunState
<1>5. QED
  BY <1>3, <1>4 DEF OwedInOutbox

\* A commit owes what it announces, and has put its event beside it.
LEMMA OwedCommit ==
  ASSUME IInv, OwedInOutbox, NEW r \in Run, CommitRows(r)
  PROVE  OwedInOutbox'
<1> DEFINE tx == run[r].tx
           News == {[id |-> w.event, match |-> w.match] : w \in Announced(tx)}
<1>1. /\ Commit(r) /\ outbox' = outbox \cup News
      /\ owed' = owed \cup {w.match : w \in Announced(tx)}
  BY DEF CommitRows, Commit
<1>2. /\ \A w \in Announced(tx) : w.match \in Match /\ change'[w.match] = w.event
      /\ \A m \in Match : (\A w \in Announced(tx) : w.match # m) => change'[m] = change[m]
  <2>1. \A m \in Match : change'[m] = row'[m].version /\ change[m] = row[m].version
    BY DEF row
  <2>2. \A w \in Announced(tx) : w.match \in Match
    BY DEF Announced, IInv, TypeOK, RunState, Write
  <2>3. ASSUME NEW w \in Announced(tx) PROVE change'[w.match] = w.event
    <3>1. w.match \in Match /\ row'[w.match] = [version |-> w.event, status |-> "upcoming"]
      BY <1>1, <2>2, CommitRow
    <3>2. QED
      BY <2>1, <3>1
  <2>4. ASSUME NEW m \in Match, \A w \in Announced(tx) : w.match # m
        PROVE  change'[m] = change[m]
    <3>1. row'[m].version = row[m].version
      BY <1>1, <2>4, CommitRow
    <3>2. QED
      BY <2>1, <3>1
  <2>5. QED
    BY <2>2, <2>3, <2>4
<1>3. \A w \in Announced(tx) : change[w.match] < w.event /\ change[w.match] \in Nat
  BY <1>2 DEF Announced, IInv, Bookkeeping, IdsOrdered, TypeOK
<1>4. \A q \in Run : run'[q].events \ run'[q].unsent \subseteq run[q].events \ run[q].unsent
  <2>1. run' = [run EXCEPT ![r] = IF r \in Historic THEN Idle ELSE [@ EXCEPT !.tx = {}]]
    BY <1>1 DEF Commit
  <2>2. CASE r \in Historic
    BY <2>1, <2>2 DEF Idle, IInv, TypeOK
  <2>3. CASE r \notin Historic
    BY <2>1, <2>3 DEF IInv, TypeOK, RunState
  <2>4. QED
    BY <2>2, <2>3
<1>5. ASSUME NEW m \in owed' PROVE \E e \in outbox' : e.match = m /\ e.id = change'[m]
  <2>1. CASE \E w \in Announced(tx) : w.match = m
    <3>1. PICK w \in Announced(tx) : w.match = m
      BY <2>1
    <3>2. [id |-> w.event, match |-> m] \in outbox' /\ change'[m] = w.event
      BY <1>1, <1>2, <3>1
    <3>3. QED
      BY <3>2
  <2>2. CASE \A w \in Announced(tx) : w.match # m
    <3>1. m \in owed
      BY <1>1, <2>2
    <3>2. PICK e \in outbox : e.match = m /\ e.id = change[m]
      BY <3>1 DEF OwedInOutbox
    <3>3. m \in Match
      BY <3>2 DEF IInv, TypeOK, Event
    <3>4. QED
      BY <1>1, <1>2, <2>2, <3>2, <3>3
  <2>3. QED
    BY <2>1, <2>2
<1>6. ASSUME NEW q \in Run, NEW e \in run'[q].events \ run'[q].unsent,
             e.id = change'[e.match]
      PROVE  e.match \notin owed'
  <2>1. e \in run[q].events \ run[q].unsent /\ e \in Known
    BY <1>4 DEF Known
  <2>2. e.match \in Match /\ e.id <= change[e.match] /\ e.id \in Nat
    BY <2>1, KnownType DEF IInv, Bookkeeping, IdsOrdered, Event
  <2>3. \A w \in Announced(tx) : w.match # e.match
    BY <1>2, <1>3, <1>6, <2>2
  <2>4. QED
    BY <1>1, <1>2, <1>6, <2>1, <2>2, <2>3 DEF OwedInOutbox
<1>7. QED
  BY <1>5, <1>6 DEF OwedInOutbox

\* Every step keeps the agreement.
LEMMA OwedNext ==
  ASSUME IInv, OwedInOutbox, [PNext]_pvars
  PROVE  OwedInOutbox'
<1>1. ASSUME NEW r \in Run, (Begin(r) \/ Fail(r) \/ Hidden(r)) /\ Silent
      PROVE  OwedInOutbox'
  <2>1. CASE DeleteEvents(r)
    BY <1>1, <2>1, OwedDelete DEF Silent
  <2>2. CASE ~DeleteEvents(r)
    BY <1>1, <2>2, DrainedKept, OwedLocal DEF Hidden, Silent, IInv
  <2>3. QED
    BY <2>1, <2>2
<1>2. ASSUME NEW r \in Run, NEW m \in Match, Upsert(r, m), Silent PROVE OwedInOutbox'
  BY <1>2, DrainedKept, OwedLocal DEF Silent, IInv
<1>3. ASSUME UNCHANGED <<owed, change, outbox, run>> PROVE OwedInOutbox'
  BY <1>3, OwedLocal
<1>4. CASE BrainStep
  <2>1. ASSUME NEW p \in Pod, GiveBack(p) PROVE UNCHANGED <<owed, change, outbox, run>>
    BY <2>1 DEF GiveBack, Redeliver, vars, B!Kill, B!Disconnect
  <2>2. ASSUME NEW p \in Pod, Deliver(p) PROVE UNCHANGED <<owed, change, outbox, run>>
    BY <2>2 DEF Deliver, Consume, B!Deliver
  <2>3. ASSUME NEW p \in Pod, Work(p) \/ Start(p) \/ GiveUp(p)
        PROVE  UNCHANGED <<owed, change, outbox, run>>
    BY <2>3 DEF Work, Start, GiveUp, vars, B!FetchMatch, B!FetchHistory, B!WritePreview,
                B!StorePrediction, B!Commit, B!WarmCache, B!Ack, B!Start, B!JobError, B!Cancel
  <2>4. ASSUME NEW m \in Match, Expire(m) PROVE UNCHANGED <<owed, change, outbox, run>>
    BY <2>4 DEF Expire, vars, B!Expire
  <2>5. QED
    BY <1>3, <1>4, <2>1, <2>2, <2>3, <2>4 DEF BrainStep
<1>5. ASSUME NEW m \in Match, FeedChange(m), Silent PROVE OwedInOutbox'
  BY <1>3, <1>5 DEF FeedChange, Silent
<1>6. CASE UNCHANGED pvars
  BY <1>3, <1>6 DEF pvars, vars
<1>7. QED
  BY <1>1, <1>2, <1>4, <1>5, <1>6, OwedPublish, OwedCommit
  DEF PNext, WorkerStep, AdvanceRun

\* No row of the match table is ever deleted.
LEMMA RowsStay ==
  ASSUME IInv, [PNext]_pvars
  PROVE  \A m \in Match : db[m].gate # None => db'[m].gate # None
<1>1. ASSUME NEW r \in Run, Commit(r), NEW m \in Match, db[m].gate # None
      PROVE  db'[m].gate # None
  <2>1. db'[m] = Written(run[r].tx, m, db[m])
    BY <1>1 DEF Commit
  <2>2. \A w \in run[r].tx : w.row.gate # None
    BY DEF IInv, Bookkeeping, RowsExist
  <2>3. QED
    BY <1>1, <2>1, <2>2 DEF Written
<1>2. CASE UNCHANGED db
  BY <1>2
<1>3. CASE BrainStep
  <2>1. UNCHANGED db
    BY <1>3 DEF BrainStep, Deliver, Consume, GiveBack, Redeliver, Work, Start, GiveUp, Expire, vars
  <2>2. QED
    BY <1>2, <2>1
<1>4. CASE WorkerStep
  <2>1. ASSUME NEW r \in Run, NEW m \in Match, Upsert(r, m) PROVE UNCHANGED db
    BY <2>1 DEF Upsert, WriteMatch, RejectMatch
  <2>2. ASSUME NEW r \in Run, Begin(r) \/ Fail(r) \/ Hidden(r) \/ PublishJob(r)
        PROVE  UNCHANGED db
    BY <2>2 DEF Begin, Fail, Hidden, PublishJob, Publish, StartSync, FetchLeague,
                FetchHistoric, FetchEvents, DeleteEvents
  <2>3. ASSUME NEW m \in Match, FeedChange(m) PROVE UNCHANGED db
    BY <2>3 DEF FeedChange
  <2>4. (\E r \in Run : Commit(r)) \/ UNCHANGED db
    BY <1>4, <2>1, <2>2, <2>3 DEF WorkerStep, AdvanceRun, CommitRows
  <2>5. QED
    BY <1>1, <1>2, <2>4
<1>5. QED
  BY <1>2, <1>3, <1>4 DEF PNext, pvars, vars

\* A consumer keeps its fixture, gives it up, or is handed the head of the queue.
LEMMA JobsKeep ==
  ASSUME BP!IInv, [PNext]_pvars, NEW p \in Pod
  PROVE  \/ job'[p].match = job[p].match \/ job'[p].match = None
         \/ queue # <<>> /\ job'[p].match = Head(queue)
<1>1. job \in [Pod -> BP!JobState]
  BY DEF BP!IInv, BP!TypeOK
<1>2. CASE UNCHANGED job
  BY <1>2
<1>3. ASSUME NEW q \in Pod, Deliver(q) \/ GiveBack(q) \/ Work(q) \/ Start(q) \/ GiveUp(q)
      PROVE  \/ job'[p].match = job[p].match \/ job'[p].match = None
             \/ queue # <<>> /\ job'[p].match = Head(queue)
  <2>1. CASE Deliver(q)
    BY <1>1, <2>1 DEF Deliver, B!Deliver, B!Waiting
  <2>2. CASE GiveBack(q)
    BY <1>1, <2>2 DEF GiveBack, B!Kill, B!Disconnect, B!Down, B!Waiting, BP!JobState
  <2>3. CASE Start(q) \/ GiveUp(q)
    BY <1>1, <2>3 DEF Start, GiveUp, B!Start, B!JobError, B!Cancel, B!Down, B!Waiting, BP!JobState
  <2>4. CASE B!FetchMatch(q) \/ B!FetchHistory(q)
    BY <1>1, <2>4 DEF B!FetchMatch, B!FetchHistory, BP!JobState
  <2>5. CASE B!WritePreview(q) \/ B!StorePrediction(q) \/ B!Commit(q) \/ B!WarmCache(q)
    BY <1>1, <2>5 DEF B!WritePreview, B!StorePrediction, B!Commit, B!WarmCache, BP!JobState
  <2>6. CASE B!Ack(q)
    BY <1>1, <2>6 DEF B!Ack, B!Waiting
  <2>7. QED
    BY <1>3, <2>1, <2>2, <2>3, <2>4, <2>5, <2>6 DEF Work
<1>4. CASE BrainStep
  BY <1>2, <1>3, <1>4 DEF BrainStep, Expire, B!Expire
<1>5. CASE WorkerStep
  BY <1>2, <1>5 DEF WorkerStep, AdvanceRun, CommitRows, PublishJob, Silent, brainVars
<1>6. QED
  BY <1>2, <1>4, <1>5 DEF PNext, pvars, brainVars

\* So a job's fixture keeps its row.
LEMMA JobsNext ==
  ASSUME IInv, BP!IInv, JobsFindTheirRow, [PNext]_pvars
  PROVE  JobsFindTheirRow'
<1> SUFFICES ASSUME NEW p \in Pod, job'[p].match # None
             PROVE  db'[job'[p].match].gate # None
  BY DEF JobsFindTheirRow
<1>1. CASE job'[p].match = job[p].match
  <2>1. job[p].match \in Match
    BY <1>1 DEF BP!IInv, BP!TypeOK, BP!JobState
  <2>2. db[job[p].match].gate # None
    BY <1>1 DEF JobsFindTheirRow
  <2>3. QED
    BY <1>1, <2>1, <2>2, RowsStay
<1>2. CASE queue # <<>> /\ job'[p].match = Head(queue)
  <2>1. queue \in Seq(Match) /\ Head(queue) = queue[1] /\ 1 \in 1..Len(queue)
    BY <1>2 DEF IInv, TypeOK
  <2>2. Head(queue) \in Match /\ db[Head(queue)].gate # None
    BY <2>1 DEF IInv, Bookkeeping, QueuedExist
  <2>3. QED
    BY <1>2, <2>2, RowsStay
<1>3. QED
  BY <1>1, <1>2, JobsKeep

-----------------------------------------------------------------------------
(* Theorems                                                                 *)

\* Every step keeps the invariant of the whole.
LEMMA PNextInv == PInv /\ [PNext]_pvars => PInv'
<1> SUFFICES ASSUME PInv, [PNext]_pvars PROVE PInv'
  OBVIOUS
<1>1. IInv /\ BP!IInv /\ BP!FreshInv
  BY DEF PInv, BP!FreshInv
<1>2. IInv'
  BY <1>1, SimulatesWorker, NextInv
<1>3. BP!FreshInv'
  BY <1>1, SimulatesBrain, BP!FreshNext, BrainAssumptions
<1>4. OwedInOutbox' /\ JobsFindTheirRow'
  BY <1>1, OwedNext, JobsNext DEF PInv
<1>5. QED
  BY <1>2, <1>3, <1>4 DEF PInv

\* The invariant of worker, queue and brain together.
THEOREM PipelineInvariant == PSpec => []PInv
BY PInitInv, PNextInv, PTL DEF PSpec

\* Joined to real pods the worker is still the worker of Worker, so that whatever
\* is proved there holds here.
THEOREM ImplementsWorker == PSpec => Spec
<1>1. PInit => Init
  BY DEF PInit
<1>2. PInv /\ [PNext]_pvars => [Next]_vars
  BY SimulatesWorker DEF PInv, BP!FreshInv
<1>3. QED
  BY <1>1, <1>2, PipelineInvariant, PTL DEF PSpec, Spec

\* The worker is the worker Brain assumes: it announces changes of upcoming fixtures
\* under growing numbers, writes results silently, and publishes messages of
\* announced fixtures only.
THEOREM ImplementsBrain == PSpec => WorkerAsAssumed
<1>1. PInit => B!Init
  BY PInitBrain
<1>2. PInv /\ [PNext]_pvars => [B!Step]_(B!vars)
  <2> SUFFICES ASSUME PInv, [PNext]_pvars PROVE [B!Step]_(B!vars)
    OBVIOUS
  <2>1. [BP!Step]_(BP!vars)
    BY SimulatesBrain DEF PInv
  <2>2. UNCHANGED BP!vars => UNCHANGED B!vars
    BY DEF BP!vars, B!vars
  <2>3. QED
    BY <2>1, <2>2, SameBrain
<1>3. QED
  BY <1>1, <1>2, PipelineInvariant, PTL DEF PSpec, WorkerAsAssumed, B!AnyWorker

\* No job is handed a fixture without a row.
THEOREM NoJobUnfound == PSpec => []JobsFindTheirRow
<1>1. PInv => JobsFindTheirRow
  BY DEF PInv
<1>2. QED
  BY <1>1, PipelineInvariant, PTL

\* Between the feed's change and the stored numbers nothing gets lost, whatever run
\* or pod fails where, for any number of runs, pods and fixtures.
THEOREM NothingLost == PSpec => []NothingFallsBetween
<1>1. PInv => NothingFallsBetween
  <2> SUFFICES ASSUME PInv, NEW m \in Match, change[m] > 0
               PROVE  \/ Current(m)
                      \/ \E e \in outbox : e.match = m /\ e.id = change[m]
                      \/ Queued(m) \/ B!JobAhead(m) \/ m \in dropped \cup raced
    BY DEF NothingFallsBetween
  <2>1. row[m].version = change[m]
    BY DEF row
  <2>2. BP!Current(m) \/ BP!JobAhead(m) \/ BP!Behind(m) \/ m \in dropped
    BY <2>1 DEF PInv, BP!FreshInv, BP!NoStaleNumbers
  <2>3. BP!Current(m) => Current(m)
    BY <2>1 DEF BP!Current, Current
  <2>4. BP!JobAhead(m) => B!JobAhead(m)
    BY DEF BP!JobAhead, B!JobAhead, BP!Uncommitted, B!Uncommitted, BP!Fresh, B!Fresh
  <2>5. BP!Behind(m) => \/ Queued(m) \/ m \in raced
                       \/ \E e \in outbox : e.match = m /\ e.id = change[m]
    BY DEF BP!Behind, BP!Queued, Queued, PInv, OwedInOutbox
  <2>6. QED
    BY <2>2, <2>3, <2>4, <2>5
<1>2. QED
  BY <1>1, PipelineInvariant, PTL
=============================================================================
