---------------------------- MODULE WorkerProofs ----------------------------
(***************************************************************************)
(* Theorems about Worker, for every set of fixtures, leagues and runs.      *)
(***************************************************************************)
EXTENDS WorkerInv, TLAPS

\* A run that is not under way is well typed.
LEMMA IdleType == Idle \in RunState
BY DEF Idle, RunState, Row, NoRow

\* The tables start empty and no run is under way.
LEMMA InitType == Init => TypeOK
<1> SUFFICES ASSUME Init PROVE TypeOK
  OBVIOUS
<1>1. run \in [Run -> RunState]
  BY IdleType DEF Init
<1>2. seen \in [Match -> [change : Nat, gate : Gate \cup {None}]]
  BY DEF Init
<1>3. db \in [Match -> Row] /\ feed \in [Match -> [gate : Gate, lastUpdated : Nat]]
  BY DEF Init, Row, NoRow
<1>4. QED
  BY <1>1, <1>2, <1>3 DEF Init, TypeOK

\* Every step keeps the types.
LEMMA NextType == TypeOK /\ [Next]_vars => TypeOK'
<1> SUFFICES ASSUME TypeOK, [Next]_vars PROVE TypeOK'
  OBVIOUS
<1> USE IdleType
<1>1. ASSUME NEW m \in Match, FeedChange(m) PROVE TypeOK'
  BY <1>1 DEF TypeOK, FeedChange
<1>2. CASE Consume
  <2>1. Head(queue) \in Match /\ Tail(queue) \in Seq(Match)
    BY <1>2 DEF TypeOK, Consume
  <2>2. seen' \in [Match -> [change : Nat, gate : Gate \cup {None}]]
    BY <1>2, <2>1 DEF TypeOK, Consume, Row
  <2>3. QED
    BY <1>2, <2>1, <2>2 DEF TypeOK, Consume
<1>3. ASSUME NEW r \in Run, Begin(r) PROVE TypeOK'
  <2>1. [Idle EXCEPT !.pc = "fetch", !.codes = League] \in RunState
    BY DEF Idle, RunState
  <2>2. QED
    BY <1>3, <2>1 DEF TypeOK, Begin
<1>4. ASSUME NEW r \in Run, NEW c \in League, FetchLeague(r, c) PROVE TypeOK'
  <2>1. [m \in Match |-> IF LeagueOf[m] = c /\ feed[m].gate \in Upcoming
                         THEN feed[m] ELSE run[r].batch[m]] \in [Match -> Row]
    BY DEF TypeOK, RunState, Row
  <2>2. run' \in [Run -> RunState]
    <3> DEFINE codes == run[r].codes \ {c}
               batch == [m \in Match |-> IF LeagueOf[m] = c /\ feed[m].gate \in Upcoming
                                         THEN feed[m] ELSE run[r].batch[m]]
               after == [run[r] EXCEPT !.codes = codes, !.batch = batch]
    <3>1. codes \in SUBSET League /\ batch \in [Match -> Row]
      BY <2>1 DEF TypeOK, RunState
    <3>2. run' = [run EXCEPT ![r] = after]
      BY <1>4 DEF FetchLeague
    <3> HIDE DEF codes, batch
    <3>3. after \in RunState
      BY <3>1 DEF TypeOK, RunState
    <3> HIDE DEF after
    <3>4. QED
      BY <3>2, <3>3 DEF TypeOK
  <2>3. QED
    BY <1>4, <2>2 DEF TypeOK, FetchLeague
<1>5. ASSUME NEW r \in Run, NEW c \in League, FetchHistoric(r, c) PROVE TypeOK'
  <2> DEFINE played == {m \in Match : LeagueOf[m] = c /\ feed[m].gate \in Finished}
  <2>1. PICK got \in SUBSET played :
          run' = [run EXCEPT ![r].codes = IF got = played THEN @ \ {c} ELSE {},
            ![r].batch = [m \in Match |-> IF m \in got THEN feed[m] ELSE run[r].batch[m]]]
    BY <1>5 DEF FetchHistoric
  <2>2. [m \in Match |-> IF m \in got THEN feed[m] ELSE run[r].batch[m]] \in [Match -> Row]
    BY DEF TypeOK, RunState, Row
  <2>3. run' \in [Run -> RunState]
    <3> DEFINE codes == IF got = played THEN run[r].codes \ {c} ELSE {}
               batch == [m \in Match |-> IF m \in got THEN feed[m] ELSE run[r].batch[m]]
               after == [run[r] EXCEPT !.codes = codes, !.batch = batch]
    <3>1. codes \in SUBSET League /\ batch \in [Match -> Row]
      BY <2>2 DEF TypeOK, RunState
    <3>2. run' = [run EXCEPT ![r] = after]
      BY <2>1
    <3> HIDE DEF codes, batch
    <3>3. after \in RunState
      BY <3>1 DEF TypeOK, RunState
    <3> HIDE DEF after
    <3>4. QED
      BY <3>2, <3>3 DEF TypeOK
  <2>4. QED
    BY <1>5, <2>3 DEF TypeOK, FetchHistoric
<1>6. ASSUME NEW r \in Run, StartSync(r) PROVE TypeOK'
  BY <1>6 DEF TypeOK, StartSync, RunState
<1>7. ASSUME NEW r \in Run, NEW m \in Match, WriteMatch(r, m) PROVE TypeOK'
  <2> DEFINE row == run[r].batch[m]
             owed == r \in Daily /\ Changed(m, row)
             write == [match |-> m,
                       row   |-> IF Changed(m, row) THEN row ELSE db[m],
                       event |-> IF owed THEN nextEvent ELSE 0]
  <2>1. write \in Write /\ NoRow \in Row
    BY DEF TypeOK, RunState, Write, Row, NoRow
  <2>2. run' = [run EXCEPT ![r].tx = @ \cup {write}, ![r].batch[m] = NoRow]
    BY <1>7 DEF WriteMatch
  <2>3. run' \in [Run -> RunState]
    <3> DEFINE after == [run[r] EXCEPT !.tx = @ \cup {write}, !.batch[m] = NoRow]
    <3> HIDE DEF write
    <3>1. run' = [run EXCEPT ![r] = after]
      BY <2>2
    <3>2. after \in RunState
      BY <2>1 DEF TypeOK, RunState
    <3> HIDE DEF after
    <3>3. QED
      BY <3>1, <3>2 DEF TypeOK
  <2>4. nextEvent' \in Nat \ {0}
    BY <1>7 DEF TypeOK, WriteMatch
  <2>5. QED
    BY <1>7, <2>3, <2>4 DEF TypeOK, WriteMatch
<1>8. ASSUME NEW r \in Run, NEW m \in Match, RejectMatch(r, m) PROVE TypeOK'
  BY <1>8 DEF TypeOK, RejectMatch
<1>9. ASSUME NEW r \in Run, Commit(r) PROVE TypeOK'
  <2> DEFINE tx == run[r].tx
  <2>1. tx \subseteq Write
    BY DEF TypeOK, RunState
  <2>2. db' \in [Match -> Row]
    <3>1. \A m \in Match : Written(tx, m, db[m]) \in Row
      BY <2>1 DEF Written, Write, TypeOK
    <3>2. QED
      BY <1>9, <3>1 DEF Commit
  <2>3. outbox' \in SUBSET Event
    BY <1>9, <2>1 DEF Commit, Announced, Write, Event, TypeOK
  <2>4. change' \in [Match -> Nat]
    <3>1. \A m \in Match : (\E w \in Announced(tx) : w.match = m) =>
            (CHOOSE w \in Announced(tx) : w.match = m).event \in Nat
      BY <2>1 DEF Announced, Write
    <3>2. QED
      BY <1>9, <3>1 DEF Commit, TypeOK
  <2>5. run' \in [Run -> RunState]
    <3> DEFINE after == [run[r] EXCEPT !.tx = {}]
    <3>1. run' = [run EXCEPT ![r] = IF r \in Historic THEN Idle ELSE after]
      BY <1>9 DEF Commit
    <3>2. after \in RunState
      BY DEF TypeOK, RunState
    <3> HIDE DEF after
    <3>3. QED
      BY <3>1, <3>2 DEF TypeOK
  <2>6. QED
    BY <1>9, <2>2, <2>3, <2>4, <2>5 DEF TypeOK, Commit
<1>10. ASSUME NEW r \in Run, FetchEvents(r) PROVE TypeOK'
  BY <1>10 DEF TypeOK, FetchEvents, RunState
<1>11. ASSUME NEW r \in Run, Publish(r) PROVE TypeOK'
  <2>1. PICK e \in run[r].unsent :
          /\ queue' = Append(queue, e.match)
          /\ run' = [run EXCEPT ![r].unsent = @ \ {e}]
    BY <1>11 DEF Publish
  <2>2. e.match \in Match
    BY DEF TypeOK, RunState, Event
  <2>3. queue' \in Seq(Match)
    BY <2>1, <2>2 DEF TypeOK
  <2>4. run' \in [Run -> RunState]
    BY <2>1 DEF TypeOK, RunState
  <2>5. QED
    BY <1>11, <2>3, <2>4 DEF TypeOK, Publish
<1>12. ASSUME NEW r \in Run, DeleteEvents(r) PROVE TypeOK'
  BY <1>12 DEF TypeOK, DeleteEvents
<1>13. ASSUME NEW r \in Run, Fail(r) PROVE TypeOK'
  BY <1>13 DEF TypeOK, Fail
<1>14. ASSUME NEW m \in Match, Redeliver(m) PROVE TypeOK'
  <2>1. queue' \in Seq(Match)
    BY <1>14 DEF TypeOK, Redeliver
  <2>2. QED
    BY <1>14, <2>1 DEF TypeOK, Redeliver
<1>15. CASE UNCHANGED vars
  BY <1>15 DEF TypeOK, vars
<1>16. QED
  BY <1>1, <1>2, <1>3, <1>4, <1>5, <1>6, <1>7, <1>8, <1>9, <1>10, <1>11, <1>12,
     <1>13, <1>14, <1>15 DEF Next, Advance, Hidden, Upsert

\* Type correctness of the worker: every table, the queue and every run's local
\* state hold values of their columns' types, whatever the runs do.
THEOREM TypeCorrect == Spec => []TypeOK
BY InitType, NextType, PTL DEF Spec


-----------------------------------------------------------------------------
(* The inductive invariant                                                  *)

\* The invariant holds before any run has begun.
LEMMA InitInv == Init => IInv
<1> SUFFICES ASSUME Init PROVE IInv
  OBVIOUS
<1>1. TypeOK
  BY InitType
<1>2. /\ Known = {} /\ queue = <<>> /\ Len(queue) = 0
      /\ \A r \in Run : run[r].tx = {} /\ run[r].events = {} /\ run[r].unsent = {}
  BY DEF Init, Known, Idle
<1>3. \A r \in Run, m \in Match : run[r].batch[m].gate = None
  BY DEF Init, Idle, NoRow
<1>4. LocksExclusive /\ OneEventEach /\ DrainCovered /\ RowsExist
  BY <1>2 DEF LocksExclusive, OneEventEach, DrainCovered, RowsExist
<1>5. IdsOrdered
  BY <1>2 DEF IdsOrdered, Init
<1>6. SilentWrites
  BY <1>2, <1>3, GateAssumption DEF SilentWrites, Init, NoRow, Run
<1>7. NoLostChange /\ QueuedExist
  BY <1>2 DEF NoLostChange, QueuedExist, Init
<1>8. DeliveredExist
  BY DEF DeliveredExist, Init
<1>9. AnnouncedUpcoming
  BY <1>2, <1>3 DEF AnnouncedUpcoming, Run
<1>10. QED
  BY <1>1, <1>4, <1>5, <1>6, <1>7, <1>8, <1>9 DEF IInv, Bookkeeping

\* Whatever is known of the outbox is a well-typed event.
LEMMA KnownType == TypeOK => Known \subseteq Event
BY DEF TypeOK, RunState, Known

\* A step that neither commits, stages, publishes nor reads preserves the
\* invariant: it may drop staged writes, forget events and read the outbox.
LEMMA LocalStep ==
  ASSUME TypeOK, Bookkeeping, NoLostChange',
         UNCHANGED <<db, nextEvent, queue, change, seen>>,
         outbox' \subseteq outbox,
         \A q \in Run : /\ run'[q].tx \subseteq run[q].tx
                        /\ \A w \in run'[q].tx :
                             run'[q].pc = "sync" /\ run'[q].batch[w.match].gate = None
                        /\ run'[q].events \subseteq Known
                     /\ run'[q].unsent \subseteq run'[q].events
                        /\ run'[q].events \ run'[q].unsent
                             \subseteq run[q].events \ run[q].unsent,
         \A q \in Historic, m \in Match : run'[q].batch[m].gate \in Finished \cup {None},
         \A q \in Daily, m \in Match : run'[q].batch[m].gate \in Upcoming \cup {None}
  PROVE  Bookkeeping'
<1>1. Known' \subseteq Known
  BY DEF Known
<1>2. LocksExclusive' /\ OneEventEach'
  BY DEF Bookkeeping, LocksExclusive, OneEventEach
<1>3. IdsOrdered'
  BY <1>1 DEF Bookkeeping, IdsOrdered
<1>4. DrainCovered'
  BY DEF Bookkeeping, DrainCovered, Queued
<1>5. RowsExist'
  BY <1>1 DEF Bookkeeping, RowsExist
<1>6. SilentWrites'
  BY DEF Bookkeeping, SilentWrites
<1>7. QueuedExist' /\ DeliveredExist'
  BY DEF Bookkeeping, QueuedExist, DeliveredExist
<1>8. AnnouncedUpcoming'
  BY DEF Bookkeeping, AnnouncedUpcoming
<1>9. QED
  BY <1>2, <1>3, <1>4, <1>5, <1>6, <1>7, <1>8 DEF Bookkeeping

\* The steps of a run that change nothing but its own local state.
LEMMA LocalActions ==
  ASSUME TypeOK, Bookkeeping, NEW r \in Run,
         \/ Begin(r) \/ StartSync(r) \/ FetchEvents(r) \/ Fail(r)
         \/ \E c \in League : FetchLeague(r, c) \/ FetchHistoric(r, c)
         \/ \E m \in Match : RejectMatch(r, m)
  PROVE  Bookkeeping'
<1> USE DEF Bookkeeping
<1>1. UNCHANGED <<db, outbox, nextEvent, queue, change, seen>>
  BY DEF Begin, StartSync, FetchEvents, Fail, FetchLeague, FetchHistoric, RejectMatch
<1>2. NoLostChange'
  BY <1>1 DEF NoLostChange, Queued
<1>3. \A q \in Run \ {r} : run'[q] = run[q]
  BY DEF Begin, StartSync, FetchEvents, Fail, FetchLeague, FetchHistoric, RejectMatch, TypeOK
<1> DEFINE Shrunk ==
      /\ run'[r].tx \subseteq run[r].tx
      /\ \A w \in run'[r].tx : run'[r].pc = "sync" /\ run'[r].batch[w.match].gate = None
      /\ run'[r].events \subseteq Known
      /\ run'[r].unsent \subseteq run'[r].events
      /\ run'[r].events \ run'[r].unsent \subseteq run[r].events \ run[r].unsent
      /\ r \in Historic =>
           \A m \in Match : run'[r].batch[m].gate \in Finished \cup {None}
      /\ r \in Daily =>
           \A m \in Match : run'[r].batch[m].gate \in Upcoming \cup {None}
<1>4. Shrunk
  <2>1. run[r].events \subseteq Known /\ outbox \subseteq Known
    BY DEF Known
  <2>2. /\ run[r].unsent \subseteq run[r].events
        /\ \A w \in run[r].tx : run[r].pc = "sync" /\ run[r].batch[w.match].gate = None
        /\ r \in Historic => \A m \in Match : run[r].batch[m].gate \in Finished \cup {None}
        /\ r \in Daily => \A m \in Match : run[r].batch[m].gate \in Upcoming \cup {None}
    BY DEF SilentWrites, DrainCovered, LocksExclusive, AnnouncedUpcoming
  <2>3. CASE run' = [run EXCEPT ![r] = Idle]
    BY <2>3 DEF Idle, NoRow, TypeOK
  <2>4. CASE Begin(r)
    BY <2>4 DEF Begin, Idle, NoRow, TypeOK
  <2>5. CASE StartSync(r)
    <3>1. CASE r \in Historic /\ Batched(r) = {}
      BY <2>3, <2>5, <3>1 DEF StartSync
    <3>2. CASE ~(r \in Historic /\ Batched(r) = {})
      BY <2>1, <2>2, <2>5, <3>2 DEF StartSync, TypeOK, RunState
    <3>3. QED
      BY <3>1, <3>2
  <2>6. CASE FetchEvents(r)
    <3>1. CASE outbox = {}
      BY <2>3, <2>6, <3>1 DEF FetchEvents
    <3>2. CASE outbox # {}
      BY <2>1, <2>2, <2>6, <3>2 DEF FetchEvents, TypeOK, RunState
    <3>3. QED
      BY <3>1, <3>2
  <2>7. ASSUME NEW c \in League, FetchLeague(r, c) PROVE Shrunk
    <3> DEFINE batch == [m \in Match |-> IF LeagueOf[m] = c /\ feed[m].gate \in Upcoming
                                         THEN feed[m] ELSE run[r].batch[m]]
    <3>1. run' = [run EXCEPT ![r].codes = @ \ {c}, ![r].batch = batch]
      BY <2>7 DEF FetchLeague
    <3>5. r \in Daily => \A m \in Match : batch[m].gate \in Upcoming \cup {None}
      BY <2>2
    <3> HIDE DEF batch
    <3>2. run[r].tx = {} /\ r \notin Historic
      BY <2>2, <2>7, RunAssumption DEF FetchLeague
    <3>3. /\ run'[r].tx = run[r].tx /\ run'[r].events = run[r].events
          /\ run'[r].unsent = run[r].unsent /\ run'[r].batch = batch
      BY <3>1 DEF TypeOK, RunState
    <3>4. QED
      BY <2>1, <2>2, <3>2, <3>3, <3>5
  <2>8. ASSUME NEW c \in League, FetchHistoric(r, c) PROVE Shrunk
    <3>1. PICK got \in SUBSET {m \in Match : LeagueOf[m] = c /\ feed[m].gate \in Finished},
               left \in {run[r].codes \ {c}, {}} :
            run' = [run EXCEPT ![r].codes = left,
              ![r].batch = [m \in Match |-> IF m \in got THEN feed[m] ELSE run[r].batch[m]]]
      BY <2>8 DEF FetchHistoric
    <3>2. run[r].tx = {} /\ r \notin Daily
      BY <2>2, <2>8, RunAssumption DEF FetchHistoric
    <3>3. /\ run'[r].tx = {} /\ run'[r].events = run[r].events
          /\ run'[r].unsent = run[r].unsent
          /\ run'[r].batch = [m \in Match |-> IF m \in got THEN feed[m] ELSE run[r].batch[m]]
      BY <3>1, <3>2 DEF TypeOK, RunState
    <3>4. QED
      BY <2>1, <2>2, <3>2, <3>3
  <2>9. CASE Fail(r) \/ \E m \in Match : RejectMatch(r, m)
    BY <2>3, <2>9 DEF Fail, RejectMatch
  <2>10. QED
    <3> HIDE DEF Shrunk
    <3>1. QED
      BY <2>4, <2>5, <2>6, <2>7, <2>8, <2>9
<1>5. \A q \in Run : /\ run'[q].tx \subseteq run[q].tx
                     /\ \A w \in run'[q].tx :
                          run'[q].pc = "sync" /\ run'[q].batch[w.match].gate = None
                     /\ run'[q].events \subseteq Known
                     /\ run'[q].unsent \subseteq run'[q].events
                     /\ run'[q].events \ run'[q].unsent
                          \subseteq run[q].events \ run[q].unsent
  BY <1>3, <1>4 DEF Known, DrainCovered, LocksExclusive
<1>6. \A q \in Historic, m \in Match : run'[q].batch[m].gate \in Finished \cup {None}
  BY <1>3, <1>4 DEF SilentWrites, Run
<1>7. \A q \in Daily, m \in Match : run'[q].batch[m].gate \in Upcoming \cup {None}
  BY <1>3, <1>4 DEF AnnouncedUpcoming, Run
<1>8. QED
  BY <1>1, <1>2, <1>5, <1>6, <1>7, LocalStep

\* run_producer returned: every event deleted has been published.
LEMMA DeleteEventsInv ==
  ASSUME TypeOK, Bookkeeping, NEW r \in Run, DeleteEvents(r)
  PROVE  Bookkeeping'
<1> USE DEF Bookkeeping
<1>1. /\ \A q \in Run \ {r} : run'[q] = run[q]
      /\ run'[r] = Idle
  BY DEF DeleteEvents, TypeOK
<1>2. NoLostChange'
  <2> SUFFICES ASSUME NEW m \in Match, seen'[m].change < change'[m], ~Queued(m)'
               PROVE  \E e \in outbox' : e.match = m /\ e.id = change'[m]
    BY DEF NoLostChange
  <2>1. PICK e \in outbox : e.match = m /\ e.id = change[m]
    BY DEF DeleteEvents, NoLostChange, Queued
  <2>2. ASSUME NEW f \in run[r].events, f.id = e.id PROVE FALSE
    <3>1. f.match = m
      BY <2>1, <2>2 DEF IdsOrdered, Known
    <3>2. f \in run[r].events \ run[r].unsent
      BY DEF DeleteEvents
    <3>3. f.id <= seen[m].change \/ Queued(m)
      BY <3>1, <3>2 DEF DrainCovered
    <3>4. QED
      BY <2>1, <2>2, <3>3 DEF DeleteEvents, Queued, TypeOK
  <2>3. QED
    BY <2>1, <2>2 DEF DeleteEvents
<1>3. \A q \in Run : /\ run'[q].tx \subseteq run[q].tx
                     /\ \A w \in run'[q].tx :
                          run'[q].pc = "sync" /\ run'[q].batch[w.match].gate = None
                     /\ run'[q].events \subseteq Known
                     /\ run'[q].unsent \subseteq run'[q].events
                     /\ run'[q].events \ run'[q].unsent
                          \subseteq run[q].events \ run[q].unsent
  BY <1>1 DEF Known, Idle, DrainCovered, LocksExclusive
<1>4. \A q \in Historic, m \in Match : run'[q].batch[m].gate \in Finished \cup {None}
  BY <1>1 DEF SilentWrites, Idle, NoRow, Run
<1>5. \A q \in Daily, m \in Match : run'[q].batch[m].gate \in Upcoming \cup {None}
  BY <1>1 DEF AnnouncedUpcoming, Idle, NoRow, Run
<1>6. QED
  BY <1>2, <1>3, <1>4, <1>5, LocalStep DEF DeleteEvents

\* A message joins the queue and its event counts as published.
LEMMA PublishInv ==
  ASSUME TypeOK, Bookkeeping, NEW r \in Run, Publish(r)
  PROVE  Bookkeeping'
<1> USE DEF Bookkeeping
<1>1. PICK e \in run[r].unsent :
        /\ queue' = Append(queue, e.match)
        /\ run' = [run EXCEPT ![r].unsent = @ \ {e}]
  BY DEF Publish
<1>2. UNCHANGED <<db, outbox, nextEvent, change, seen>>
  BY DEF Publish
<1>3. /\ \A q \in Run \ {r} : run'[q] = run[q]
      /\ run'[r].tx = run[r].tx /\ run'[r].events = run[r].events
      /\ run'[r].batch = run[r].batch /\ run'[r].unsent = run[r].unsent \ {e}
      /\ run'[r].pc = run[r].pc
  BY <1>1 DEF TypeOK, RunState
<1>4. Known' = Known
  BY <1>2, <1>3 DEF Known
<1>5. \A m \in Match : Queued(m)' <=> Queued(m) \/ m = e.match
  <2>1. queue \in Seq(Match) /\ e.match \in Match
    BY DEF TypeOK, RunState, Event
  <2>2. /\ Len(queue) \in Nat /\ Len(queue') = Len(queue) + 1
        /\ \A i \in 1..Len(queue) : queue'[i] = queue[i]
        /\ queue'[Len(queue) + 1] = e.match
    BY <1>1, <2>1
  <2>3. QED
    BY <2>2 DEF Queued
<1>6. LocksExclusive' /\ OneEventEach' /\ IdsOrdered' /\ RowsExist' /\ SilentWrites'
      /\ AnnouncedUpcoming'
  <2>1. \A q \in Run : run'[q].tx = run[q].tx /\ run'[q].pc = run[q].pc
                       /\ run'[q].batch = run[q].batch
    BY <1>3
  <2>2. LocksExclusive' /\ OneEventEach'
    BY <2>1 DEF LocksExclusive, OneEventEach
  <2>3. IdsOrdered'
    BY <1>2, <1>4, <2>1 DEF IdsOrdered
  <2>4. RowsExist'
    BY <1>2, <1>4, <2>1 DEF RowsExist
  <2>5. SilentWrites'
    BY <1>2, <2>1 DEF SilentWrites, Run
  <2>6. AnnouncedUpcoming'
    BY <2>1 DEF AnnouncedUpcoming, Run
  <2>7. QED
    BY <2>2, <2>3, <2>4, <2>5, <2>6
<1>7. DrainCovered'
  <2> SUFFICES ASSUME NEW q \in Run
               PROVE  /\ run'[q].unsent \subseteq run'[q].events
                      /\ \A f \in run'[q].events \ run'[q].unsent :
                           f.id <= seen[f.match].change \/ Queued(f.match)'
    BY <1>2 DEF DrainCovered
  <2>1. \A f \in run[q].events : f.match \in Match
    BY DEF TypeOK, RunState, Event
  <2>2. CASE q = r
    BY <1>3, <1>5, <2>1, <2>2 DEF DrainCovered
  <2>3. CASE q # r
    BY <1>3, <1>5, <2>1, <2>3 DEF DrainCovered
  <2>4. QED
    BY <2>2, <2>3
<1>8. NoLostChange'
  BY <1>2, <1>5 DEF NoLostChange
<1>9. QueuedExist'
  <2>1. db[e.match].gate # None
    BY DEF RowsExist, DrainCovered, Known
  <2>2. e.match \in Match /\ queue \in Seq(Match)
    BY DEF TypeOK, RunState, Event
  <2>3. SUFFICES ASSUME NEW i \in 1..Len(queue') PROVE db[queue'[i]].gate # None
    BY <1>2 DEF QueuedExist
  <2>4. \/ i \in 1..Len(queue) /\ queue'[i] = queue[i]
       \/ queue'[i] = e.match
    BY <1>1, <2>2
  <2>5. QED
    BY <2>1, <2>4 DEF QueuedExist
<1>10. DeliveredExist'
  BY <1>2 DEF DeliveredExist
<1>11. QED
  BY <1>6, <1>7, <1>8, <1>9, <1>10

\* A message handed back names a fixture that has a row.
LEMMA RedeliverInv ==
  ASSUME TypeOK, Bookkeeping, NEW m \in Match, Redeliver(m)
  PROVE  Bookkeeping'
<1> USE DEF Bookkeeping
<1>1. UNCHANGED <<db, outbox, nextEvent, run, change, seen>> /\ queue' = <<m>> \o queue
  BY DEF Redeliver
<1>2. queue \in Seq(Match)
  BY DEF TypeOK
<1>3. /\ Len(queue') = Len(queue) + 1 /\ queue'[1] = m /\ Len(queue) \in Nat
      /\ \A i \in 1..Len(queue) : queue'[i + 1] = queue[i]
  BY <1>1, <1>2
<1>4. \A n \in Match : Queued(n) => Queued(n)'
  <2> SUFFICES ASSUME NEW n \in Match, NEW i \in 1..Len(queue), queue[i] = n
               PROVE  Queued(n)'
    BY DEF Queued
  <2>1. i + 1 \in 1..Len(queue') /\ queue'[i + 1] = n
    BY <1>3
  <2>2. QED
    BY <2>1 DEF Queued
<1>5. Known' = Known
  BY <1>1 DEF Known
<1>6. LocksExclusive' /\ OneEventEach' /\ IdsOrdered'
  BY <1>1, <1>5 DEF LocksExclusive, OneEventEach, IdsOrdered
<1>7. RowsExist' /\ SilentWrites' /\ DeliveredExist' /\ AnnouncedUpcoming'
  BY <1>1, <1>5 DEF RowsExist, SilentWrites, DeliveredExist, AnnouncedUpcoming
<1>8. DrainCovered'
  <2> SUFFICES ASSUME NEW r \in Run, NEW e \in run[r].events \ run[r].unsent
               PROVE  e.id <= seen[e.match].change \/ Queued(e.match)'
    BY <1>1 DEF DrainCovered
  <2>1. e.match \in Match
    BY DEF TypeOK, RunState, Event
  <2>2. QED
    BY <1>4, <2>1 DEF DrainCovered
<1>9. NoLostChange'
  BY <1>1, <1>4 DEF NoLostChange
<1>10. QueuedExist'
  <2> SUFFICES ASSUME NEW i \in 1..Len(queue') PROVE db[queue'[i]].gate # None
    BY <1>1 DEF QueuedExist
  <2>1. CASE i = 1
    BY <1>3, <2>1 DEF Redeliver, DeliveredExist
  <2>2. CASE i # 1
    <3>1. i - 1 \in 1..Len(queue) /\ queue'[i] = queue[i - 1]
      BY <1>3, <2>2
    <3>2. QED
      BY <3>1 DEF QueuedExist
  <2>3. QED
    BY <2>1, <2>2
<1>11. QED
  BY <1>6, <1>7, <1>8, <1>9, <1>10

\* The brain reads what is committed, which covers every earlier job of the
\* fixture.
LEMMA ConsumeInv ==
  ASSUME TypeOK, Bookkeeping, Consume
  PROVE  Bookkeeping'
<1> USE DEF Bookkeeping
<1> DEFINE h == Head(queue)
<1>1. UNCHANGED <<db, outbox, nextEvent, change, run>> /\ queue' = Tail(queue)
  BY DEF Consume
<1>2. h \in Match
  BY DEF Consume, TypeOK
<1>3. /\ seen'[h] = [change |-> change[h], gate |-> db[h].gate]
      /\ \A m \in Match \ {h} : seen'[m] = seen[m]
  BY <1>2 DEF Consume, TypeOK
<1>4. Known' = Known
  BY <1>1 DEF Known
<1>5. \A m \in Match \ {h} : Queued(m) => Queued(m)'
  <2>1. /\ Len(queue) \in Nat /\ Len(queue') = Len(queue) - 1 /\ queue[1] = h
        /\ \A i \in 1..Len(queue') : queue'[i] = queue[i + 1]
    BY <1>1 DEF TypeOK, Consume
  <2>2. SUFFICES ASSUME NEW m \in Match \ {h}, NEW i \in 1..Len(queue), queue[i] = m
                 PROVE  Queued(m)'
    BY DEF Queued
  <2>3. i - 1 \in 1..Len(queue') /\ queue'[i - 1] = m
    BY <2>1, <2>2
  <2>4. QED
    BY <2>3 DEF Queued
<1>6. LocksExclusive' /\ OneEventEach' /\ RowsExist' /\ AnnouncedUpcoming'
  BY <1>1, <1>4 DEF LocksExclusive, OneEventEach, RowsExist, AnnouncedUpcoming
<1>7. IdsOrdered'
  <2>1. \A m \in Match : seen'[m].change <= change[m]
    <3>1. \A m \in Match : change[m] \in Nat
      BY DEF TypeOK
    <3>2. QED
      BY <1>3, <3>1 DEF IdsOrdered
  <2>2. QED
    BY <1>1, <1>4, <2>1 DEF IdsOrdered
<1>8. DrainCovered'
  <2> SUFFICES ASSUME NEW r \in Run, NEW e \in run[r].events \ run[r].unsent
               PROVE  e.id <= seen'[e.match].change \/ Queued(e.match)'
    BY <1>1 DEF DrainCovered
  <2>1. e.match \in Match /\ e \in Known
    BY DEF TypeOK, RunState, Event, Known
  <2>2. CASE e.match = h
    BY <1>3, <2>1, <2>2 DEF IdsOrdered
  <2>3. CASE e.match # h
    BY <1>3, <1>5, <2>1, <2>3 DEF DrainCovered
  <2>4. QED
    BY <2>2, <2>3
<1>9. SilentWrites'
  BY <1>1, <1>3 DEF SilentWrites
<1>10. NoLostChange'
  <2> SUFFICES ASSUME NEW m \in Match, seen'[m].change < change[m]
               PROVE  (\E e \in outbox : e.match = m /\ e.id = change[m]) \/ Queued(m)'
    BY <1>1 DEF NoLostChange
  <2>1. m # h
    BY <1>3 DEF TypeOK
  <2>2. QED
    BY <1>3, <1>5, <2>1 DEF NoLostChange
<1>11. QueuedExist'
  BY <1>1 DEF QueuedExist, TypeOK, Consume
<1>12. DeliveredExist'
  BY <1>1, <1>3 DEF DeliveredExist
<1>13. QED
  BY <1>6, <1>7, <1>8, <1>9, <1>10, <1>11, <1>12

\* A fixture is staged under its row lock, with a fresh event when one is owed.
LEMMA WriteMatchInv ==
  ASSUME TypeOK, Bookkeeping, NEW r \in Run, NEW m \in Match, WriteMatch(r, m)
  PROVE  Bookkeeping'
<1> USE DEF Bookkeeping
<1> DEFINE row == run[r].batch[m]
           owed == r \in Daily /\ Changed(m, row)
           write == [match |-> m,
                     row   |-> IF Changed(m, row) THEN row ELSE db[m],
                     event |-> IF owed THEN nextEvent ELSE 0]
<1>1. UNCHANGED <<db, outbox, queue, change, seen>>
  BY DEF WriteMatch
<1>2. run' = [run EXCEPT ![r].tx = @ \cup {write}, ![r].batch[m] = NoRow]
  BY DEF WriteMatch
<1>3. /\ \A q \in Run \ {r} : run'[q] = run[q]
      /\ run'[r].tx = run[r].tx \cup {write} /\ run'[r].pc = run[r].pc
      /\ run'[r].events = run[r].events /\ run'[r].unsent = run[r].unsent
      /\ run'[r].batch = [run[r].batch EXCEPT ![m] = NoRow]
  <2> HIDE DEF write
  <2>1. QED
    BY <1>2 DEF TypeOK, RunState
<1>4. Known' = Known
  BY <1>1, <1>3 DEF Known
<1>5. /\ write.match = m
      /\ write.event # 0 => write.event = nextEvent
      /\ nextEvent' = IF write.event # 0 THEN nextEvent + 1 ELSE nextEvent
      /\ nextEvent \in Nat \ {0}
  BY DEF WriteMatch, TypeOK
<1>6. row.gate # None /\ row.gate \in Gate \cup {None}
  BY DEF WriteMatch, Batched, TypeOK, RunState, Row
<1>7. \A q \in Run : \A w \in run[q].tx : w.match # m
  BY <1>6 DEF WriteMatch, LockedByOther, LocksExclusive
<1>8. \A q \in Run : \A w \in run[q].tx : w.event # 0 => w.event < nextEvent
  BY DEF IdsOrdered
<1>9. run[r].pc = "sync" /\ \A q \in Run : \A w \in run[q].tx : w.match \in Match /\ w.event \in Nat
  BY DEF WriteMatch, TypeOK, RunState, Write
<1>10. LocksExclusive'
  <2> HIDE DEF write, row
  <2>1. ASSUME NEW q1 \in Run, NEW q2 \in Run, NEW w \in run'[q1].tx, NEW v \in run'[q2].tx
        PROVE  /\ w.match = v.match => q1 = q2 /\ w = v
               /\ w.event = v.event /\ w.event # 0 => w.match = v.match
    <3>1. /\ w \in run[q1].tx \/ (q1 = r /\ w = write)
          /\ v \in run[q2].tx \/ (q2 = r /\ v = write)
      BY <1>3
    <3>2. QED
      BY <3>1, <1>5, <1>7, <1>8, <1>9 DEF LocksExclusive
  <2>2. ASSUME NEW q \in Run, NEW w \in run'[q].tx
        PROVE  run'[q].pc = "sync" /\ run'[q].batch[w.match].gate = None
    <3>1. CASE w \in run[q].tx
      <4>1. run[q].pc = "sync" /\ run[q].batch[w.match].gate = None
        BY <3>1 DEF LocksExclusive
      <4>2. w.match # m
        BY <3>1, <1>7
      <4>3. w.match \in Match /\ run[q].batch \in [Match -> Row]
        BY <3>1, <1>9 DEF TypeOK, RunState
      <4>4. QED
        BY <4>1, <4>2, <4>3, <1>3
    <3>2. CASE q = r /\ w = write
      <4>1. run[r].batch \in [Match -> Row]
        BY DEF TypeOK, RunState
      <4>2. QED
        BY <3>2, <4>1, <1>3, <1>5, <1>9 DEF NoRow
    <3>3. QED
      BY <3>1, <3>2, <1>3
  <2>3. QED
    BY <2>1, <2>2 DEF LocksExclusive
<1>11. IdsOrdered'
  <2> HIDE DEF write, row
  <2>1. \A x \in Match : seen[x].change <= change[x] /\ change[x] < nextEvent'
    BY <1>5 DEF IdsOrdered, TypeOK
  <2>2. \A e \in Known : e.id <= change[e.match] /\ e.id \in Nat /\ e.match \in Match
    BY KnownType DEF IdsOrdered, Event
  <2>3. ASSUME NEW q \in Run, NEW w \in run'[q].tx, w.event # 0
        PROVE  /\ change[w.match] < w.event /\ w.event < nextEvent'
               /\ \A e \in Known : e.id # w.event
    <3>1. CASE w \in run[q].tx
      BY <2>3, <3>1, <1>5, <1>9 DEF IdsOrdered
    <3>2. CASE q = r /\ w = write
      <4>1. w.event = nextEvent /\ w.match = m /\ change[m] < nextEvent
        BY <2>3, <3>2, <1>5 DEF IdsOrdered
      <4>2. \A e \in Known : e.id < nextEvent
        <5>1. \A x \in Match : change[x] \in Nat /\ change[x] < nextEvent
          BY DEF IdsOrdered, TypeOK
        <5>2. QED
          BY <2>2, <1>5, <5>1
      <4>3. QED
        BY <4>1, <4>2, <2>2, <2>3, <3>2, <1>5
    <3>3. QED
      BY <3>1, <3>2, <1>3
  <2>4. QED
    BY <2>1, <2>2, <2>3, <1>1, <1>4 DEF IdsOrdered
<1>12. DrainCovered'
  BY <1>1, <1>3 DEF DrainCovered, Queued
<1>13. RowsExist'
  <2>1. write.row.gate # None
    BY <1>6 DEF Changed
  <2> HIDE DEF write, row
  <2>2. QED
    BY <2>1, <1>1, <1>3, <1>4 DEF RowsExist
<1>14. SilentWrites'
  <2>1. write.event = 0 => write.row.gate = db[m].gate \/ write.row.gate \in Finished
    BY <1>5, <1>6 DEF SilentWrites, Run
  <2>4. write.event # 0 => write.row.gate # db[m].gate
    BY DEF Changed
  <2> HIDE DEF write, row
  <2>2. \A q \in Historic, x \in Match : run'[q].batch[x].gate \in Finished \cup {None}
    <3>1. run[r].batch \in [Match -> Row]
      BY DEF TypeOK, RunState
    <3>2. \A x \in Match : run'[r].batch[x].gate \in {run[r].batch[x].gate, None}
      BY <1>3, <3>1 DEF NoRow
    <3>3. \A q \in Run, x \in Match : run'[q].batch[x].gate \in {run[q].batch[x].gate, None}
      BY <1>3, <3>2
    <3>4. \A q \in Historic, x \in Match : run[q].batch[x].gate \in Finished \cup {None}
      BY DEF SilentWrites
    <3>5. QED
      BY <3>3, <3>4 DEF Run
  <2>3. QED
    BY <2>1, <2>2, <2>4, <1>1, <1>3, <1>5 DEF SilentWrites
<1>15. NoLostChange' /\ QueuedExist' /\ DeliveredExist'
  BY <1>1 DEF NoLostChange, QueuedExist, DeliveredExist, Queued
<1>16. OneEventEach'
  <2>1. /\ write.event # 0 => r \in Daily
        /\ r \in Daily => run[r].tx = {}
    BY DEF WriteMatch
  <2> HIDE DEF write, row
  <2>2. QED
    BY <2>1, <1>3 DEF OneEventEach
<1>17. AnnouncedUpcoming'
  <2>1. write.event # 0 => write.row.gate \in Upcoming
    <3>1. write.event # 0 => r \in Daily /\ write.row = row
      OBVIOUS
    <3> HIDE DEF write
    <3>2. QED
      BY <3>1, <1>6 DEF AnnouncedUpcoming
  <2> HIDE DEF write, row
  <2>2. \A q \in Daily, x \in Match : run'[q].batch[x].gate \in Upcoming \cup {None}
    <3>1. run[r].batch \in [Match -> Row]
      BY DEF TypeOK, RunState
    <3>2. \A x \in Match : run'[r].batch[x].gate \in {run[r].batch[x].gate, None}
      BY <1>3, <3>1 DEF NoRow
    <3>3. \A q \in Run, x \in Match : run'[q].batch[x].gate \in {run[q].batch[x].gate, None}
      BY <1>3, <3>2
    <3>4. \A q \in Daily, x \in Match : run[q].batch[x].gate \in Upcoming \cup {None}
      BY DEF AnnouncedUpcoming
    <3>5. QED
      BY <3>3, <3>4 DEF Run
  <2>3. QED
    BY <2>1, <2>2, <1>3 DEF AnnouncedUpcoming
<1>18. QED
  BY <1>10, <1>11, <1>12, <1>13, <1>14, <1>15, <1>16, <1>17

\* Rows and events become visible together, under the row locks of the fixtures.
LEMMA CommitInv ==
  ASSUME TypeOK, Bookkeeping, NEW r \in Run, Commit(r)
  PROVE  Bookkeeping'
<1> USE DEF Bookkeeping
<1> DEFINE tx == run[r].tx
           News == {[id |-> w.event, match |-> w.match] : w \in Announced(tx)}
<1>1. UNCHANGED <<nextEvent, queue, seen>> /\ outbox' = outbox \cup News
  BY DEF Commit
<1>2. /\ \A w \in tx : w.match \in Match /\ w.event \in Nat
      /\ \A w, v \in tx : w.match = v.match => w = v
  BY DEF TypeOK, RunState, Write, LocksExclusive
<1>3. /\ \A w \in tx : db'[w.match] = w.row
      /\ \A m \in Match : (\A w \in tx : w.match # m) => db'[m] = db[m]
  <2>1. \A m \in Match : db'[m] = Written(tx, m, db[m])
    BY DEF Commit
  <2>2. QED
    BY <1>2, <2>1 DEF Written
<1>4. /\ \A w \in tx : w.event # 0 => change'[w.match] = w.event
      /\ \A m \in Match : (\A w \in tx : w.match = m => w.event = 0) => change'[m] = change[m]
  <2>1. \A m \in Match : change'[m] =
          IF \E w \in Announced(tx) : w.match = m
          THEN (CHOOSE w \in Announced(tx) : w.match = m).event ELSE change[m]
    BY DEF Commit
  <2>2. QED
    BY <1>2, <2>1 DEF Announced
<1>5. /\ \A q \in Run \ {r} : run'[q] = run[q]
      /\ run'[r].tx = {}
      /\ \/ run'[r] = Idle
         \/ /\ run'[r].events = run[r].events
            /\ run'[r].unsent = run[r].unsent
            /\ run'[r].batch = run[r].batch
  <2>1. run' = [run EXCEPT ![r] = IF r \in Historic THEN Idle ELSE [@ EXCEPT !.tx = {}]]
    BY DEF Commit
  <2>2. run'[r] = IF r \in Historic THEN Idle ELSE [run[r] EXCEPT !.tx = {}]
    BY <2>1 DEF TypeOK
  <2>3. run[r] \in RunState /\ Idle.tx = {}
    BY DEF TypeOK, Idle
  <2>4. \A q \in Run \ {r} : run'[q] = run[q]
    BY <2>1 DEF TypeOK
  <2>5. CASE r \in Historic
    BY <2>2, <2>3, <2>4, <2>5
  <2>6. CASE r \notin Historic
    BY <2>2, <2>3, <2>4, <2>6 DEF RunState
  <2>7. QED
    BY <2>5, <2>6
<1>6. Known' \subseteq Known \cup News
  BY <1>1, <1>5 DEF Known, Idle
<1>7. \A e \in News : \E w \in tx : w.event # 0 /\ e.id = w.event /\ e.match = w.match
  BY DEF Announced
<1>8. \A w \in tx : w.event # 0 =>
        /\ change[w.match] < w.event /\ w.event < nextEvent
        /\ \A e \in Known : e.id # w.event
  BY DEF IdsOrdered
<1>9. \A m \in Match : /\ change[m] \in Nat /\ change'[m] \in Nat
                       /\ change[m] <= change'[m] /\ change'[m] < nextEvent
                       /\ seen[m].change \in Nat /\ seen[m].change <= change[m]
  <2> SUFFICES ASSUME NEW m \in Match
               PROVE  /\ change[m] \in Nat /\ change'[m] \in Nat
                      /\ change[m] <= change'[m] /\ change'[m] < nextEvent
                      /\ seen[m].change \in Nat /\ seen[m].change <= change[m]
    OBVIOUS
  <2>1. change[m] \in Nat /\ seen[m].change \in Nat /\ seen[m].change <= change[m]
        /\ change[m] < nextEvent
    BY DEF TypeOK, IdsOrdered
  <2>2. CASE \A w \in tx : w.match = m => w.event = 0
    BY <1>4, <2>1, <2>2
  <2>3. CASE \E w \in tx : w.match = m /\ w.event # 0
    BY <1>2, <1>4, <1>8, <2>1, <2>3, nextEvent \in Nat DEF TypeOK
  <2>4. QED
    BY <2>2, <2>3
<1>10. \A m \in Match : db[m].gate # None => db'[m].gate # None
  BY <1>3 DEF RowsExist
<1>11. \A q \in Run : \A w \in run'[q].tx :
         /\ q # r /\ w \in run[q].tx /\ w.match \in Match
         /\ \A v \in tx : v.match # w.match /\ (w.event # 0 => v.event # w.event)
  BY <1>5 DEF LocksExclusive, TypeOK, RunState, Write
<1>12. LocksExclusive' /\ OneEventEach'
  BY <1>5 DEF LocksExclusive, OneEventEach
<1>13. IdsOrdered'
  <2>1. \A e \in Known : e.match \in Match /\ e.id \in Nat /\ e.id <= change[e.match]
    BY KnownType DEF IdsOrdered, Event
  <2>2. \A e \in Known' : e.id <= change'[e.match]
    <3>1. \A e \in Known : e.id <= change'[e.match]
      BY <1>9, <2>1
    <3>2. \A e \in News : e.id <= change'[e.match]
      BY <1>2, <1>4, <1>7
    <3>3. QED
      BY <1>6, <3>1, <3>2
  <2>3. \A e, f \in Known' : e.id = f.id => e.match = f.match
    <3> SUFFICES ASSUME NEW e \in Known \cup News, NEW f \in Known \cup News, e.id = f.id
                 PROVE  e.match = f.match
      BY <1>6
    <3>1. CASE e \in Known /\ f \in Known
      BY <3>1 DEF IdsOrdered
    <3>2. CASE e \in News /\ f \in News
      <4>1. \A w, v \in tx : w.event = v.event /\ w.event # 0 => w.match = v.match
        BY DEF LocksExclusive
      <4>2. QED
        BY <1>7, <3>2, <4>1
    <3>3. CASE (e \in Known /\ f \in News) \/ (e \in News /\ f \in Known)
      BY <1>7, <1>8, <3>3
    <3>4. QED
      BY <3>1, <3>2, <3>3
  <2>4. ASSUME NEW q \in Run, NEW w \in run'[q].tx, w.event # 0
        PROVE  /\ change'[w.match] < w.event /\ w.event < nextEvent
               /\ \A e \in Known' : e.id # w.event
    <3>1. /\ w \in run[q].tx /\ w.match \in Match
          /\ \A v \in tx : v.match # w.match /\ v.event # w.event
      BY <1>11, <2>4
    <3>2. /\ change[w.match] < w.event /\ w.event < nextEvent
          /\ \A e \in Known : e.id # w.event
      BY <2>4, <3>1 DEF IdsOrdered
    <3>3. QED
      BY <1>4, <1>6, <1>7, <3>1, <3>2
  <2>5. QED
    BY <1>1, <1>9, <2>2, <2>3, <2>4, \A m \in Match : seen[m].change <= change'[m]
    DEF IdsOrdered
<1>14. DrainCovered'
  BY <1>1, <1>5 DEF DrainCovered, Queued, Idle
<1>15. RowsExist'
  <2>1. \A e \in Known : e.match \in Match /\ db[e.match].gate # None
    BY KnownType DEF RowsExist, Event
  <2>2. \A e \in News : db'[e.match].gate # None
    BY <1>3, <1>7 DEF RowsExist
  <2>3. QED
    BY <1>6, <1>10, <1>11, <2>1, <2>2 DEF RowsExist
<1>16. SilentWrites'
  <2>1. \A q \in Historic, m \in Match : run'[q].batch[m].gate \in Finished \cup {None}
    BY <1>5 DEF SilentWrites, Idle, NoRow, Run
  <2>2. ASSUME NEW q \in Run, NEW w \in run'[q].tx
        PROVE  /\ w.event = 0 => w.row.gate = db'[w.match].gate \/ w.row.gate \in Finished
               /\ w.event # 0 => w.row.gate # db'[w.match].gate
    <3>1. w \in run[q].tx /\ db'[w.match] = db[w.match]
      BY <1>3, <1>11
    <3>2. QED
      BY <2>2, <3>1 DEF SilentWrites
  <2>3. ASSUME NEW m \in Match, db'[m].gate \in Upcoming, seen[m].change = change'[m]
        PROVE  seen[m].gate = db'[m].gate
    <3>1. \A w \in tx : w.match = m => w.event = 0
      BY <1>4, <1>8, <1>9, <2>3, <1>2
    <3>2. change'[m] = change[m]
      BY <1>4, <3>1
    <3>3. db'[m].gate = db[m].gate
      BY <1>3, <2>3, <3>1, GateAssumption DEF SilentWrites
    <3>4. QED
      BY <2>3, <3>2, <3>3 DEF SilentWrites
  <2>4. QED
    BY <1>1, <2>1, <2>2, <2>3 DEF SilentWrites
<1>17. NoLostChange'
  <2> SUFFICES ASSUME NEW m \in Match, seen[m].change < change'[m]
               PROVE  (\E e \in outbox' : e.match = m /\ e.id = change'[m]) \/ Queued(m)
    BY <1>1 DEF NoLostChange, Queued
  <2>1. CASE \A w \in tx : w.match = m => w.event = 0
    BY <1>1, <1>4, <2>1 DEF NoLostChange
  <2>2. CASE \E w \in tx : w.match = m /\ w.event # 0
    <3>1. PICK w \in tx : w.match = m /\ w.event # 0
      BY <2>2
    <3>2. [id |-> w.event, match |-> m] \in outbox'
      BY <1>1, <3>1 DEF Announced
    <3>3. QED
      BY <1>4, <3>1, <3>2
  <2>3. QED
    BY <2>1, <2>2
<1>18. QueuedExist'
  BY <1>1, <1>10 DEF QueuedExist, TypeOK
<1>19. DeliveredExist'
  BY <1>1, <1>10 DEF DeliveredExist
<1>20. AnnouncedUpcoming'
  <2>1. \A q \in Daily, m \in Match : run'[q].batch[m].gate \in Upcoming \cup {None}
    BY <1>5 DEF AnnouncedUpcoming, Idle, NoRow, Run
  <2>2. QED
    BY <2>1, <1>11 DEF AnnouncedUpcoming
<1>21. QED
  BY <1>12, <1>13, <1>14, <1>15, <1>16, <1>17, <1>18, <1>19, <1>20

\* Every step keeps the invariant.
LEMMA NextInv == IInv /\ [Next]_vars => IInv'
<1> SUFFICES ASSUME TypeOK, Bookkeeping, [Next]_vars PROVE Bookkeeping'
  BY NextType DEF IInv
<1>1. ASSUME NEW m \in Match, FeedChange(m) PROVE Bookkeeping'
  <2>1. UNCHANGED <<db, outbox, nextEvent, queue, run, change, seen>>
    BY <1>1 DEF FeedChange
  <2>2. QED
    BY <2>1 DEF Bookkeeping, LocksExclusive, OneEventEach, IdsOrdered, DrainCovered, RowsExist,
                SilentWrites, NoLostChange, QueuedExist, DeliveredExist,
                AnnouncedUpcoming, Known, Queued
<1>2. CASE Consume \/ \E m \in Match : Redeliver(m)
  BY <1>2, ConsumeInv, RedeliverInv
<1>3. ASSUME NEW r \in Run, NEW m \in Match, Upsert(r, m) PROVE Bookkeeping'
  BY <1>3, WriteMatchInv, LocalActions DEF Upsert
<1>4. ASSUME NEW r \in Run, Begin(r) \/ Advance(r) \/ Fail(r) PROVE Bookkeeping'
  BY <1>4, LocalActions, CommitInv, PublishInv, DeleteEventsInv DEF Advance, Hidden
<1>5. CASE UNCHANGED vars
  BY <1>5 DEF vars, Bookkeeping, LocksExclusive, OneEventEach, IdsOrdered, DrainCovered, RowsExist,
              SilentWrites, NoLostChange, QueuedExist, DeliveredExist,
                AnnouncedUpcoming, Known, Queued
<1>6. QED
  BY <1>1, <1>2, <1>3, <1>4, <1>5 DEF Next

\* The inductive invariant holds in every reachable state.
THEOREM InvariantHolds == Spec => []IInv
BY InitInv, NextInv, PTL DEF Spec

-----------------------------------------------------------------------------
(* What follows from it                                                     *)

\* Only a commit adds events or changes, only the brain reads.
LEMMA StepFrame ==
  Next => \/ Consume
          \/ \E r \in Run : Commit(r)
          \/ outbox' \subseteq outbox /\ UNCHANGED <<change, seen>>
<1> DEFINE Frame == outbox' \subseteq outbox /\ UNCHANGED <<change, seen>>
<1>1. ASSUME NEW m \in Match, FeedChange(m) \/ Redeliver(m) PROVE Frame
  BY <1>1 DEF FeedChange, Redeliver
<1>2. ASSUME NEW r \in Run, Begin(r) \/ StartSync(r) \/ FetchEvents(r) \/ Fail(r) PROVE Frame
  BY <1>2 DEF Begin, StartSync, FetchEvents, Fail
<1>3. ASSUME NEW r \in Run, NEW c \in League, FetchLeague(r, c) \/ FetchHistoric(r, c)
      PROVE  Frame
  BY <1>3 DEF FetchLeague, FetchHistoric
<1>4. ASSUME NEW r \in Run, NEW m \in Match, WriteMatch(r, m) \/ RejectMatch(r, m) PROVE Frame
  <2>1. CASE WriteMatch(r, m)
    BY <2>1 DEF WriteMatch
  <2>2. CASE RejectMatch(r, m)
    BY <2>2 DEF RejectMatch
  <2>3. QED
    BY <1>4, <2>1, <2>2
<1>5. ASSUME NEW r \in Run, Publish(r) PROVE Frame
  BY <1>5 DEF Publish
<1>6. ASSUME NEW r \in Run, DeleteEvents(r) PROVE Frame
  BY <1>6 DEF DeleteEvents
<1>7. QED
  <2> HIDE DEF Frame
  <2>1. Next => Consume \/ (\E r \in Run : Commit(r)) \/ Frame
    BY <1>1, <1>2, <1>3, <1>4, <1>5, <1>6 DEF Next, Advance, Hidden, Upsert
  <2>2. QED
    BY <2>1 DEF Frame

\* The outbox promise, for any number of runs, faults and fixtures: a change
\* committed by sync_matches_per_competition is never lost.
THEOREM OutboxPromise == Spec => []NoLostChange
BY InvariantHolds, PTL DEF IInv, Bookkeeping

\* The backfill's silent writes never hide an upcoming fixture from the brain.
THEOREM UpcomingHasJob == Spec => []UpcomingCovered
<1>1. IInv => UpcomingCovered
  <2> SUFFICES ASSUME IInv, NEW m \in Match,
                      db[m].gate \in Upcoming, seen[m].gate # db[m].gate
               PROVE  (\E e \in outbox : e.match = m) \/ Queued(m)
    BY Zenon DEF UpcomingCovered
  <2>1. seen[m].change # change[m] /\ seen[m].change <= change[m]
    BY DEF IInv, Bookkeeping, SilentWrites, IdsOrdered
  <2>2. seen[m].change < change[m]
    BY <2>1 DEF IInv, TypeOK
  <2>3. QED
    BY <2>2 DEF IInv, Bookkeeping, NoLostChange
<1>2. QED
  BY <1>1, InvariantHolds, PTL

\* An event is only ever committed together with a change of gated columns: the
\* row lock keeps the comparison of the upsert valid until the commit.
THEOREM NoOpWritesAreSilent == Spec => NoRedundantEvent
<1> DEFINE Altered == \A e \in outbox' \ outbox : db'[e.match].gate # db[e.match].gate
<1>1. IInv /\ [Next]_vars => [Altered]_vars
  <2> SUFFICES ASSUME IInv, Next PROVE Altered
    OBVIOUS
  <2>1. ASSUME NEW r \in Run, Commit(r) PROVE Altered
    <3> DEFINE News == {[id |-> w.event, match |-> w.match] : w \in Announced(run[r].tx)}
    <3>4. outbox' \ outbox \subseteq News
      BY <2>1 DEF Commit
    <3> SUFFICES ASSUME NEW w \in Announced(run[r].tx)
                 PROVE  db'[w.match].gate # db[w.match].gate
      <4>1. \A e \in News : \E w \in Announced(run[r].tx) : e.match = w.match
        OBVIOUS
      <4> HIDE DEF News
      <4>2. QED
        BY <3>4, <4>1
    <3>1. /\ w \in run[r].tx /\ w.event # 0 /\ w.match \in Match
          /\ \A v \in run[r].tx : w.match = v.match => w = v
      BY DEF Announced, IInv, TypeOK, RunState, Write, Bookkeeping, LocksExclusive
    <3>2. db'[w.match] = w.row
      <4>1. db'[w.match] = Written(run[r].tx, w.match, db[w.match])
        BY <2>1, <3>1 DEF Commit
      <4>2. QED
        BY <3>1, <4>1 DEF Written
    <3>3. QED
      BY <3>1, <3>2 DEF IInv, Bookkeeping, SilentWrites
  <2>2. CASE outbox' \subseteq outbox
    BY <2>2
  <2>3. CASE Consume
    BY <2>2, <2>3 DEF Consume
  <2>4. QED
    BY <2>1, <2>2, <2>3, StepFrame
<1>2. QED
  BY <1>1, InvariantHolds, PTL DEF Spec, NoRedundantEvent

\* Worker and queue implement the safety part of ChangeNotice: every commit is
\* at most one numbered change, every read catches up with the latest one.
THEOREM ImplementsNotice == Spec => NoticeKept
<1> DEFINE read == [m \in Match |-> seen[m].change]
<1>1. Init => Notice!Init
  BY DEF Init, Notice!Init
<1>2. IInv /\ [Next]_vars => [Notice!Next]_(Notice!vars)
  <2> SUFFICES ASSUME IInv, Next PROVE Notice!Next \/ UNCHANGED <<change, read>>
    BY DEF vars, Notice!vars
  <2>1. CASE Consume
    <3> DEFINE h == Head(queue)
    <3>1. h \in Match /\ UNCHANGED change
      BY <2>1 DEF Consume, IInv, TypeOK
    <3>2. read' = [read EXCEPT ![h] = change[h]]
      BY <2>1, <3>1 DEF Consume, IInv, TypeOK
    <3>3. CASE read[h] < change[h]
      BY <3>1, <3>2, <3>3 DEF Notice!Next, Notice!Handle
    <3>4. CASE ~(read[h] < change[h])
      <4>1. read[h] = change[h]
        BY <3>1, <3>4 DEF IInv, TypeOK, Bookkeeping, IdsOrdered
      <4>2. read' = read
        BY <3>1, <3>2, <4>1
      <4>3. QED
        BY <3>1, <4>2
    <3>5. QED
      BY <3>3, <3>4
  <2>2. ASSUME NEW r \in Run, Commit(r) PROVE Notice!Next \/ UNCHANGED <<change, read>>
    <3> DEFINE tx == run[r].tx
    <3>1. read' = read
      BY <2>2 DEF Commit
    <3>2. \A m \in Match : change'[m] =
            IF \E w \in Announced(tx) : w.match = m
            THEN (CHOOSE w \in Announced(tx) : w.match = m).event ELSE change[m]
      BY <2>2 DEF Commit
    <3>3. change \in [Match -> Nat] /\ change' \in [Match -> Nat]
      BY <2>2, NextType DEF IInv, TypeOK
    <3>4. CASE Announced(tx) = {}
      <4>1. change' = change
        BY <3>2, <3>3, <3>4
      <4>2. QED
        BY <3>1, <4>1
    <3>5. CASE Announced(tx) # {}
      <4>1. PICK w \in tx : w.event # 0
        BY <3>5 DEF Announced
      <4>2. Announced(tx) = {w} /\ w.match \in Match /\ w.event \in Nat
        BY <4>1 DEF Announced, IInv, TypeOK, RunState, Write, Bookkeeping, OneEventEach
      <4>3. change' = [change EXCEPT ![w.match] = w.event]
        BY <3>2, <3>3, <4>2
      <4>4. change'[w.match] = w.event /\ w.event > change[w.match]
        BY <3>3, <4>1, <4>2, <4>3 DEF IInv, Bookkeeping, IdsOrdered
      <4>5. Notice!Commit(w.match)
        <5>1. change' = [change EXCEPT ![w.match] = change'[w.match]]
          BY <4>3, <4>4
        <5>2. change'[w.match] \in Int /\ change'[w.match] > change[w.match]
          BY <4>2, <4>4
        <5>3. QED
          BY <3>1, <5>1, <5>2, Zenon DEF Notice!Commit
      <4>6. QED
        BY <4>2, <4>5 DEF Notice!Next
    <3>6. QED
      BY <3>4, <3>5
  <2>3. CASE UNCHANGED <<change, seen>>
    BY <2>3
  <2>4. QED
    BY <2>1, <2>2, <2>3, StepFrame
<1>3. QED
  BY <1>1, <1>2, InvariantHolds, PTL DEF Spec, NoticeKept, Notice!SafeSpec
=============================================================================
