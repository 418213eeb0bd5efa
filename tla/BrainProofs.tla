----------------------------- MODULE BrainProofs ----------------------------
(***************************************************************************)
(* Theorems about Brain, for every set of fixtures and any number of        *)
(* changes, repeated messages, faults and lost connections.                 *)
(***************************************************************************)
EXTENDS Brain, TLAPS

USE NoneAssumption, BoundAssumption

\* A consumer without a job, and a pod that is down, are well typed.
LEMMA WaitingType == Waiting \in JobState /\ Down \in JobState
BY DEF Waiting, Down, JobState

\* What the head of the queue and the rest of it are.
LEMMA QueueType ==
  ASSUME queue \in Seq(Match), NEW m \in Match
  PROVE  /\ <<m>> \o queue \in Seq(Match)
         /\ Append(queue, m) \in Seq(Match)
         /\ queue # <<>> => Head(queue) \in Match /\ Tail(queue) \in Seq(Match)
OBVIOUS

\* Nothing is stored and every pod is down.
LEMMA InitInv == Init => IInv
<1> SUFFICES ASSUME Init PROVE IInv
  OBVIOUS
<1>1. TypeOK
  <2>1. job \in [Pod -> JobState]
    BY WaitingType DEF Init
  <2>2. row \in [Match -> Row]
    BY DEF Init, Row
  <2>3. QED
    BY <2>1, <2>2 DEF Init, TypeOK
<1>2. JobsSound
  BY DEF Init, JobsSound, Working, Down, Waiting
<1>3. ProseHasNumbers /\ CacheHoldsCommitted
  BY DEF Init, ProseHasNumbers, CacheHoldsCommitted
<1>4. QED
  BY <1>1, <1>2, <1>3 DEF IInv

-----------------------------------------------------------------------------
(* The worker and the broker                                                *)

\* The worker writes the match table, its events and the queue, and no store of
\* the brain's.
LEMMA WorkerStep ==
  ASSUME IInv,
         \/ \E m \in Match : (\E v \in Nat : ChangeMatch(m, v)) \/ PublishEvent(m)
         \/ \E played \in SUBSET Match : BackfillMatches(played)
  PROVE  IInv'
<1>1. UNCHANGED job /\ UNCHANGED stores
  BY DEF ChangeMatch, BackfillMatches, PublishEvent
<1>2. TypeOK'
  <2>1. ASSUME NEW m \in Match, NEW v \in Nat, ChangeMatch(m, v) PROVE TypeOK'
    <3>1. row' \in [Match -> Row] /\ owed' \subseteq Match
      BY <2>1 DEF IInv, TypeOK, ChangeMatch, Row
    <3>2. QED
      BY <1>1, <2>1, <3>1 DEF IInv, TypeOK, ChangeMatch, stores
  <2>2. ASSUME NEW played \in SUBSET Match, BackfillMatches(played) PROVE TypeOK'
    <3>1. \A m \in Match : row[m] \in Row /\ [row[m] EXCEPT !.status = "finished"] \in Row
      <4>1. \A x \in Row : [x EXCEPT !.status = "finished"] \in Row
        BY DEF Row
      <4>2. \A m \in Match : row[m] \in Row
        BY DEF IInv, TypeOK
      <4>3. QED
        BY <4>1, <4>2
    <3>2. row' \in [Match -> Row]
      BY <2>2, <3>1 DEF BackfillMatches
    <3>3. QED
      BY <1>1, <2>2, <3>2 DEF IInv, TypeOK, BackfillMatches, stores
  <2>3. ASSUME NEW m \in Match, PublishEvent(m) PROVE TypeOK'
    <3>1. /\ queue' \in Seq(Match) /\ dropped' \subseteq Match
          /\ raced' \subseteq Match /\ owed' \subseteq Match
      BY <2>3, QueueType DEF IInv, TypeOK, PublishEvent
    <3>2. troubles' \in Nat
      BY <2>3 DEF IInv, TypeOK, PublishEvent
    <3>3. QED
      BY <1>1, <2>3, <3>1, <3>2 DEF IInv, TypeOK, PublishEvent, stores
  <2>4. QED
    BY <2>1, <2>2, <2>3
<1>3. QED
  BY <1>1, <1>2 DEF IInv, JobsSound, Working, ProseHasNumbers, CacheHoldsCommitted, stores

-----------------------------------------------------------------------------
(* The steps of a job                                                       *)

\* A step that changes a consumer and no store keeps the invariant if what it
\* leaves of the consumer is a sound job.
LEMMA JobStep ==
  ASSUME IInv, NEW p \in Pod, NEW j \in JobState, job' = [job EXCEPT ![p] = j],
         UNCHANGED stores, UNCHANGED row, UNCHANGED owed,
         queue' \in Seq(Match), dropped' \subseteq Match, raced' \subseteq Match,
         troubles' \in Nat,
         j.match # None <=> j.pc \notin {"down", "dead", "idle"},
         j.owned => j.match # None,
         j.pc \in {"history", "preview", "store", "commit", "warm"} => j.numbers # None,
         j.pc = "warm" => j.numbers \in committed[j.match]
  PROVE  IInv'
<1>1. TypeOK'
  BY DEF IInv, TypeOK, stores
<1>2. JobsSound'
  BY DEF IInv, TypeOK, JobsSound, Working, stores
<1>3. QED
  BY <1>1, <1>2 DEF IInv, ProseHasNumbers, CacheHoldsCommitted, stores

\* The reading half of process_job, from the delivery to the preview.
LEMMA ReadStep ==
  ASSUME IInv, NEW p \in Pod,
         Deliver(p) \/ FetchMatch(p) \/ FetchHistory(p) \/ WritePreview(p) \/ StorePrediction(p)
  PROVE  IInv'
<1> DEFINE j == job[p]
<1>1. /\ j \in JobState /\ job \in [Pod -> JobState]
      /\ queue \in Seq(Match) /\ dropped \subseteq Match /\ raced \subseteq Match /\ row \in [Match -> Row]
      /\ troubles \in Nat
      /\ Working(p) <=> j.pc \notin {"down", "dead", "idle"}
      /\ j.pc \in {"history", "preview", "store"} => j.numbers # None
  BY DEF IInv, TypeOK, JobsSound
<1>2. CASE Deliver(p)
  <2> DEFINE k == [Waiting EXCEPT !.pc = "match", !.match = Head(queue), !.owned = TRUE]
  <2>1. Head(queue) \in Match /\ Tail(queue) \in Seq(Match)
    BY <1>1, <1>2 DEF Deliver
  <2>2. /\ k \in JobState /\ k.pc = "match" /\ k.match = Head(queue)
    BY <2>1 DEF Waiting, JobState
  <2>3. QED
    BY <1>1, <1>2, <2>1, <2>2, JobStep DEF Deliver
<1>3. CASE FetchMatch(p)
  <2> DEFINE r == row[j.match]
             k == [j EXCEPT !.pc = IF r.status = "absent" THEN "ack" ELSE "history",
                            !.numbers = IF r.status = "absent" THEN None
                                        ELSE [version |-> r.version, history |-> {}]]
  <2>1. j.match \in Match /\ r \in Row
    BY <1>1, <1>3 DEF FetchMatch, Working, JobState
  <2>2. [version |-> r.version, history |-> {}] \in Numbers
    BY <2>1 DEF Row, Numbers
  <2>3. /\ k \in JobState /\ k.match = j.match /\ k.pc \in {"ack", "history"}
        /\ k.pc = "history" => k.numbers # None
    BY <1>1, <2>1, <2>2 DEF JobState
  <2>4. /\ job' = [job EXCEPT ![p] = k]
        /\ UNCHANGED <<row, owed, queue, dropped, raced, troubles>> /\ UNCHANGED stores
    BY <1>1, <1>3 DEF FetchMatch
  <2>5. k.match # None
    BY <2>1, <2>3
  <2> HIDE DEF k
  <2>6. QED
    BY <1>1, <2>3, <2>4, <2>5, JobStep
<1>4. CASE FetchHistory(p)
  <2> DEFINE played == {m \in Match : row[m].status = "finished"}
             k == [j EXCEPT !.pc = "preview", !.numbers.history = played]
  <2>1. j.numbers \in Numbers /\ j.match # None
    BY <1>1, <1>4 DEF FetchHistory, Working, JobState
  <2>2. [j.numbers EXCEPT !.history = played] \in Numbers
    BY <2>1 DEF Numbers
  <2>3. /\ k \in JobState /\ k.match = j.match /\ k.pc = "preview" /\ k.numbers # None
    BY <1>1, <2>2 DEF JobState
  <2>4. UNCHANGED <<row, owed, queue, dropped, raced, troubles>> /\ UNCHANGED stores
    BY <1>4 DEF FetchHistory
  <2>5. job' = [job EXCEPT ![p] = k]
    <3>1. job' = [job EXCEPT ![p].pc = "preview", ![p].numbers.history = played]
      BY <1>4 DEF FetchHistory
    <3>2. QED
      BY <1>1, <3>1
  <2> HIDE DEF k
  <2>6. QED
    BY <1>1, <2>1, <2>3, <2>4, <2>5, JobStep
<1>5. CASE WritePreview(p)
  <2>1. PICK usable \in BOOLEAN : job' = [job EXCEPT ![p].pc = "store", ![p].preview = usable]
    BY <1>5 DEF WritePreview
  <2> DEFINE k == [j EXCEPT !.pc = "store", !.preview = usable]
  <2>2. /\ k \in JobState /\ k.match = j.match /\ k.pc = "store" /\ k.numbers = j.numbers
    BY <1>1 DEF JobState
  <2>3. job' = [job EXCEPT ![p] = k]
    BY <1>1, <2>1
  <2>4. QED
    BY <1>1, <1>5, <2>2, <2>3, JobStep DEF WritePreview, Working
<1>6. CASE StorePrediction(p)
  <2> DEFINE k == [j EXCEPT !.pc = "commit"]
  <2>1. /\ k \in JobState /\ k.match = j.match /\ k.pc = "commit" /\ k.numbers = j.numbers
    BY <1>1 DEF JobState
  <2>2. job' = [job EXCEPT ![p] = k]
    BY <1>1, <1>6 DEF StorePrediction
  <2>3. QED
    BY <1>1, <1>6, <2>1, <2>2, JobStep DEF StorePrediction, Working
<1>7. QED
  BY <1>2, <1>3, <1>4, <1>5, <1>6

\* The commit: numbers with the preview or without, never a preview alone.
LEMMA CommitStep ==
  ASSUME IInv, NEW p \in Pod, Commit(p)
  PROVE  IInv'
<1> DEFINE j == job[p]
           m == j.match
           k == [j EXCEPT !.pc = IF j.preview THEN "warm" ELSE "ack"]
<1>1. /\ j \in JobState /\ m \in Match /\ j.numbers \in Numbers
      /\ job \in [Pod -> JobState]
  BY DEF IInv, TypeOK, JobsSound, Working, Commit, JobState
<1>2. /\ prediction' = [prediction EXCEPT ![m] = j.numbers]
      /\ job' = [job EXCEPT ![p] = k]
      /\ UNCHANGED <<row, owed, queue, dropped, raced, troubles, cache>>
  BY <1>1 DEF Commit
<1>3. \/ /\ j.preview
         /\ commentary' = [commentary EXCEPT ![m] = j.numbers]
         /\ committed' = [committed EXCEPT ![m] = @ \cup {j.numbers}]
      \/ ~j.preview /\ UNCHANGED <<commentary, committed>>
  BY DEF Commit
<1>4. k \in JobState /\ k.match = m /\ k.numbers = j.numbers /\ k.owned = j.owned
      /\ k.pc = IF j.preview THEN "warm" ELSE "ack"
  BY <1>1 DEF JobState
<1>5. TypeOK'
  <2>1. job' \in [Pod -> JobState]
    BY <1>1, <1>2, <1>4
  <2>2. prediction' \in [Match -> Numbers \cup {None}]
    BY <1>1, <1>2 DEF IInv, TypeOK
  <2>3. /\ commentary' \in [Match -> Numbers \cup {None}]
        /\ committed' \in [Match -> SUBSET Numbers]
    BY <1>1, <1>3 DEF IInv, TypeOK
  <2>4. QED
    BY <1>2, <2>1, <2>2, <2>3 DEF IInv, TypeOK
<1>6. \A n \in Match : committed[n] \subseteq committed'[n]
  BY <1>1, <1>3 DEF IInv, TypeOK
<1>7. JobsSound'
  <2>1. ASSUME NEW q \in Pod, q # p
        PROVE /\ job'[q] = job[q] /\ job[q] \in JobState
              /\ job[q].pc = "warm" => job[q].match \in Match
    BY <1>1, <1>2, <2>1 DEF IInv, TypeOK, JobsSound, Working, JobState
  <2>2. job'[p] = k
    BY <1>1, <1>2
  <2>3. j.preview => k.numbers \in committed'[m]
    BY <1>1, <1>3, <1>4 DEF IInv, TypeOK
  <2>4. k.match # None /\ k.numbers # None
    BY <1>1, <1>4
  <2> HIDE DEF k
  <2>5. ASSUME NEW q \in Pod
        PROVE /\ job'[q].match # None <=> job'[q].pc \notin {"down", "dead", "idle"}
              /\ job'[q].owned => job'[q].match # None
              /\ job'[q].pc \in {"history", "preview", "store", "commit", "warm"} =>
                   job'[q].numbers # None
              /\ job'[q].pc = "warm" => job'[q].numbers \in committed'[job'[q].match]
    <3>1. CASE q = p
      BY <1>4, <2>2, <2>3, <2>4, <3>1
    <3>2. CASE q # p
      BY <1>6, <2>1, <3>2 DEF IInv, JobsSound, Working
    <3>3. QED
      BY <3>1, <3>2
  <2>6. QED
    BY <2>5 DEF JobsSound, Working
<1>8. ProseHasNumbers'
  BY <1>1, <1>2, <1>3 DEF IInv, TypeOK, ProseHasNumbers
<1>9. CacheHoldsCommitted'
  BY <1>2, <1>6 DEF IInv, CacheHoldsCommitted
<1>10. QED
  BY <1>5, <1>7, <1>8, <1>9 DEF IInv

\* The warm, and an entry that Redis forgets.
LEMMA CacheStep ==
  ASSUME IInv, (\E p \in Pod : WarmCache(p)) \/ (\E m \in Match : Expire(m))
  PROVE  IInv'
<1>1. ASSUME NEW p \in Pod, WarmCache(p) PROVE IInv'
  <2> DEFINE j == job[p]
             k == [j EXCEPT !.pc = "ack"]
  <2>1. /\ j \in JobState /\ j.match \in Match /\ j.numbers \in Numbers
        /\ j.numbers \in committed[j.match] /\ job \in [Pod -> JobState]
    BY <1>1 DEF IInv, TypeOK, JobsSound, Working, WarmCache, JobState
  <2>2. /\ k \in JobState /\ k.match = j.match /\ k.numbers = j.numbers
        /\ k.owned = j.owned /\ k.pc = "ack"
    BY <2>1 DEF JobState
  <2>3. /\ job' = [job EXCEPT ![p] = k]
        /\ UNCHANGED <<row, owed, queue, dropped, raced, troubles, prediction, commentary, committed>>
        /\ UNCHANGED cache \/ cache' = [cache EXCEPT ![j.match] = j.numbers]
    BY <1>1, <2>1 DEF WarmCache
  <2>4. TypeOK'
    BY <2>1, <2>2, <2>3 DEF IInv, TypeOK
  <2>5. JobsSound'
    BY <2>1, <2>2, <2>3 DEF IInv, TypeOK, JobsSound, Working
  <2>6. ProseHasNumbers'
    BY <2>3 DEF IInv, ProseHasNumbers
  <2>7. CacheHoldsCommitted'
    BY <2>1, <2>3 DEF IInv, TypeOK, CacheHoldsCommitted
  <2>8. QED
    BY <2>4, <2>5, <2>6, <2>7 DEF IInv
<1>2. ASSUME NEW m \in Match, Expire(m) PROVE IInv'
  <2>1. UNCHANGED <<row, owed, queue, job, dropped, raced, troubles, prediction, commentary, committed>>
        /\ cache' = [cache EXCEPT ![m] = None]
    BY <1>2 DEF Expire
  <2>2. QED
    BY <2>1 DEF IInv, TypeOK, JobsSound, Working, ProseHasNumbers, CacheHoldsCommitted
<1>3. QED
  BY <1>1, <1>2

-----------------------------------------------------------------------------
(* The ways a job ends                                                      *)

\* Acknowledged, failed, cancelled, killed or cut off: no store is written.
LEMMA EndStep ==
  ASSUME IInv, NEW p \in Pod,
         Ack(p) \/ JobError(p) \/ Cancel(p) \/ Kill(p) \/ Disconnect(p) \/ Start(p)
  PROVE  IInv'
<1> DEFINE j == job[p]
<1>1. /\ j \in JobState /\ job \in [Pod -> JobState]
      /\ queue \in Seq(Match) /\ dropped \subseteq Match /\ raced \subseteq Match
      /\ troubles \in Nat
      /\ Working(p) <=> j.pc \notin {"down", "dead", "idle"}
      /\ j.owned => j.match \in Match
      /\ j.pc \in {"history", "preview", "store", "commit", "warm"} => j.numbers # None
      /\ j.pc = "warm" => j.numbers \in committed[j.match]
  BY DEF IInv, TypeOK, JobsSound, Working, JobState
<1>2. Forget(p) => dropped' \subseteq Match
  BY <1>1 DEF Forget
<1>3. /\ Waiting.pc = "idle" /\ Waiting.match = None /\ ~Waiting.owned
      /\ Down.pc = "down" /\ Down.match = None /\ ~Down.owned
  BY DEF Waiting, Down
<1>4. CASE Ack(p)
  <2> DEFINE k == [Waiting EXCEPT !.pc = "dead"]
  <2>1. k \in JobState /\ k.pc = "dead" /\ k.match = None /\ ~k.owned
    BY DEF Waiting, JobState
  <2>2. job' = [job EXCEPT ![p] = Waiting] \/ job' = [job EXCEPT ![p] = k]
    BY <1>4 DEF Ack
  <2>3. UNCHANGED <<row, owed, queue, dropped, raced, troubles>> /\ UNCHANGED stores
    BY <1>4 DEF Ack
  <2>4. QED
    BY <1>1, <1>3, <2>1, <2>2, <2>3, WaitingType, JobStep
<1>5. CASE JobError(p)
  <2> DEFINE k == [j EXCEPT !.pc = "ack"]
  <2>1. /\ k \in JobState /\ k.pc = "ack" /\ k.match = j.match /\ k.owned = j.owned
    BY <1>1 DEF JobState
  <2>2. job' = [job EXCEPT ![p] = k] /\ Working(p)
    BY <1>1, <1>5 DEF JobError, Uncommitted
  <2>3. troubles' \in Nat
    BY <1>1, <1>5 DEF JobError
  <2>4. UNCHANGED <<row, owed, queue, raced>> /\ UNCHANGED stores /\ dropped' \subseteq Match
    BY <1>2, <1>5 DEF JobError
  <2>5. QED
    BY <1>1, <2>1, <2>2, <2>3, <2>4, JobStep DEF Working
<1>6. CASE Cancel(p)
  <2>1. troubles' \in Nat
    BY <1>1, <1>6 DEF Cancel
  <2>2. /\ UNCHANGED <<row, owed, queue, raced>> /\ UNCHANGED stores /\ dropped' \subseteq Match
        /\ job' = [job EXCEPT ![p] = Down]
    BY <1>2, <1>6 DEF Cancel
  <2>3. QED
    BY <1>1, <1>3, <2>1, <2>2, WaitingType, JobStep
<1>7. CASE Kill(p)
  <2>1. troubles' \in Nat
    BY <1>1, <1>7 DEF Kill
  <2>2. queue' \in Seq(Match)
    BY <1>1, <1>7 DEF Kill
  <2>3. /\ UNCHANGED <<row, owed, dropped, raced>> /\ UNCHANGED stores
        /\ job' = [job EXCEPT ![p] = Down]
    BY <1>7 DEF Kill
  <2>4. QED
    BY <1>1, <1>3, <2>1, <2>2, <2>3, WaitingType, JobStep
<1>8. CASE Disconnect(p)
  <2> DEFINE k == [j EXCEPT !.owned = FALSE]
  <2>1. /\ k \in JobState /\ k.pc = j.pc /\ k.match = j.match /\ ~k.owned
        /\ k.numbers = j.numbers
    BY <1>1 DEF JobState
  <2>2. troubles' \in Nat
    BY <1>1, <1>8 DEF Disconnect
  <2>3. queue' \in Seq(Match)
    BY <1>1, <1>8 DEF Disconnect
  <2>4. /\ UNCHANGED <<row, owed, dropped, raced>> /\ UNCHANGED stores
        /\ job' = [job EXCEPT ![p] = k]
    BY <1>1, <1>8 DEF Disconnect
  <2>5. QED
    BY <1>1, <2>1, <2>2, <2>3, <2>4, JobStep DEF Working
<1>9. CASE Start(p)
  <2>1. /\ UNCHANGED <<row, owed, queue, dropped, raced, troubles>> /\ UNCHANGED stores
        /\ job' = [job EXCEPT ![p] = Waiting]
    BY <1>9 DEF Start
  <2>2. QED
    BY <1>1, <1>3, <2>1, WaitingType, JobStep
<1>10. QED
  BY <1>4, <1>5, <1>6, <1>7, <1>8, <1>9

\* Every step keeps the invariant.
LEMMA StepInv == IInv /\ [Step]_vars => IInv'
<1> SUFFICES ASSUME IInv, [Step]_vars PROVE IInv'
  OBVIOUS
<1>1. CASE UNCHANGED vars
  BY <1>1 DEF IInv, TypeOK, JobsSound, Working, ProseHasNumbers, CacheHoldsCommitted, vars
<1>2. ASSUME NEW m \in Match, ChangeMatch(m, row'[m].version) PROVE IInv'
  <2>1. row'[m].version \in Nat
    BY <1>2 DEF ChangeMatch
  <2>2. QED
    BY <1>2, <2>1, WorkerStep
<1>3. ASSUME NEW m \in Match, PublishEvent(m) PROVE IInv'
  BY <1>3, WorkerStep
<1>4. CASE Work
  BY <1>4, WorkerStep, ReadStep, CommitStep, CacheStep, EndStep DEF Work, Consume
<1>5. QED
  BY <1>1, <1>2, <1>3, <1>4 DEF Step

\* The bounds leave steps out and add none.
LEMMA NextIsStep == IInv /\ [Next]_vars => [Step]_vars
<1> SUFFICES ASSUME IInv, Next PROVE Step
  OBVIOUS
<1>1. ASSUME NEW m \in Match, NEW v \in 1..MaxChanges, ChangeMatch(m, v) PROVE Step
  <2>1. row'[m].version = v
    BY <1>1 DEF ChangeMatch, IInv, TypeOK
  <2>2. QED
    BY <1>1, <2>1 DEF Step
<1>2. QED
  BY <1>1 DEF Next, Step

LEMMA NextInv == IInv /\ [Next]_vars => IInv'
BY StepInv, NextIsStep

\* The invariant of any number of consumers of one queue.
THEOREM InvariantHolds == Spec => []IInv
BY InitInv, NextInv, PTL DEF Spec

\* Type correctness of the brain, its stores and the queue.
THEOREM TypeCorrect == Spec => []TypeOK
<1>1. IInv => TypeOK
  BY DEF IInv
<1>2. QED
  BY <1>1, InvariantHolds, PTL

\* handlers.py keeps its promise that no fixture ends up with prose and no
\* numbers, wherever a job stops and however many consumers there are.
THEOREM ProseNeverAlone == Spec => []ProseHasNumbers
<1>1. IInv => ProseHasNumbers
  BY DEF IInv
<1>2. QED
  BY <1>1, InvariantHolds, PTL

\* process_job warms the cache with nothing that was not committed before.
THEOREM CacheSound == Spec => []CacheHoldsCommitted
<1>1. IInv => CacheHoldsCommitted
  BY DEF IInv
<1>2. QED
  BY <1>1, InvariantHolds, PTL

-----------------------------------------------------------------------------
(* The numbers follow the row                                               *)

\* The stores start without an announced change.
LEMMA FreshInit == Init => FreshInv
<1>1. Init => OvertakenIsQueued /\ AnnouncedExists /\ NoStaleNumbers
  BY DEF Init, OvertakenIsQueued, AnnouncedExists, NoStaleNumbers, Uncommitted, Down, Waiting
<1>2. QED
  BY <1>1, InitInv DEF FreshInv

\* A message put at either end of the queue is in it, beside all the others.
LEMMA QueueGrows ==
  ASSUME queue \in Seq(Match), NEW m \in Match,
         queue' = Append(queue, m) \/ queue' = <<m>> \o queue
  PROVE  Queued(m)' /\ \A n \in Match : Queued(n) => Queued(n)'
<1>1. CASE queue' = Append(queue, m)
  <2>1. Len(queue') = Len(queue) + 1 /\ queue'[Len(queue) + 1] = m
    BY <1>1
  <2>2. \A i \in 1..Len(queue) : queue'[i] = queue[i]
    BY <1>1
  <2>3. Len(queue) \in Nat
    OBVIOUS
  <2>4. Len(queue) + 1 \in 1..Len(queue')
    BY <2>1, <2>3
  <2>5. Queued(m)'
    BY <2>1, <2>4 DEF Queued
  <2>6. ASSUME NEW n \in Match, Queued(n) PROVE Queued(n)'
    <3>1. PICK i \in 1..Len(queue) : queue[i] = n
      BY <2>6 DEF Queued
    <3>2. i \in 1..Len(queue') /\ queue'[i] = n
      BY <2>1, <2>2, <2>3, <3>1
    <3>3. QED
      BY <3>2 DEF Queued
  <2>7. QED
    BY <2>5, <2>6
<1>2. CASE queue' = <<m>> \o queue
  <2>1. Len(queue') = Len(queue) + 1 /\ queue'[1] = m
    BY <1>2
  <2>2. \A i \in 1..Len(queue) : queue'[i + 1] = queue[i]
    BY <1>2
  <2>3. Len(queue) \in Nat
    OBVIOUS
  <2>4. 1 \in 1..Len(queue')
    BY <2>1, <2>3
  <2>5. Queued(m)'
    BY <2>1, <2>4 DEF Queued
  <2>6. ASSUME NEW n \in Match, Queued(n) PROVE Queued(n)'
    <3>1. PICK i \in 1..Len(queue) : queue[i] = n
      BY <2>6 DEF Queued
    <3>2. i + 1 \in 1..Len(queue') /\ queue'[i + 1] = n
      BY <2>1, <2>2, <2>3, <3>1
    <3>3. QED
      BY <3>2 DEF Queued
  <2>7. QED
    BY <2>5, <2>6
<1>3. QED
  BY <1>1, <1>2

\* The delivery of a message takes no other out of the queue.
LEMMA QueueShrinks ==
  ASSUME queue \in Seq(Match), queue # <<>>, queue' = Tail(queue)
  PROVE  \A n \in Match : Queued(n) /\ n # Head(queue) => Queued(n)'
<1> SUFFICES ASSUME NEW n \in Match, NEW i \in 1..Len(queue), queue[i] = n, n # Head(queue)
             PROVE  Queued(n)'
  BY DEF Queued
<1>1. i # 1 /\ Len(queue') = Len(queue) - 1
  OBVIOUS
<1>2. i - 1 \in 1..Len(queue') /\ queue'[i - 1] = n
  BY <1>1
<1>3. QED
  BY <1>2 DEF Queued

\* A change comes with its event, and a drained event becomes a message: neither
\* leaves the numbers behind without a job ahead.
LEMMA AnnounceStep ==
  ASSUME FreshInv,
         \/ \E m \in Match : (\E v \in Nat : ChangeMatch(m, v)) \/ PublishEvent(m)
         \/ \E played \in SUBSET Match : BackfillMatches(played)
  PROVE  OvertakenIsQueued' /\ AnnouncedExists' /\ NoStaleNumbers'
<1>1. /\ UNCHANGED job /\ UNCHANGED prediction
      /\ row \in [Match -> Row] /\ queue \in Seq(Match)
      /\ \A p \in Pod : Uncommitted(p) => job[p].match \in Match
      /\ \A p \in Pod : Uncommitted(p)' <=> Uncommitted(p)
  BY DEF FreshInv, IInv, TypeOK, JobsSound, Working, Uncommitted, JobState,
         ChangeMatch, BackfillMatches, PublishEvent, stores
<1>2. ASSUME NEW m \in Match, NEW v \in Nat, ChangeMatch(m, v)
      PROVE  OvertakenIsQueued' /\ AnnouncedExists' /\ NoStaleNumbers'
  <2>1. /\ owed' = owed \cup {m} /\ UNCHANGED <<queue, dropped, raced>>
        /\ \A n \in Match \ {m} : row'[n] = row[n]
        /\ row'[m].status = "upcoming"
    BY <1>1, <1>2 DEF ChangeMatch
  <2>2. Behind(m)' /\ \A n \in Match : Behind(n) => Behind(n)'
    BY <2>1 DEF Behind, Queued
  <2>3. \A p \in Pod : Uncommitted(p) /\ job[p].match # m => (Fresh(p) => Fresh(p)')
    BY <1>1, <2>1 DEF Fresh
  <2>4. OvertakenIsQueued'
    BY <1>1, <2>2, <2>3 DEF FreshInv, OvertakenIsQueued
  <2>5. \A n \in Match \ {m} : (JobAhead(n) => JobAhead(n)') /\ (Current(n) => Current(n)')
    BY <1>1, <2>1, <2>3 DEF JobAhead, Current
  <2>6. NoStaleNumbers'
    BY <2>1, <2>2, <2>5 DEF FreshInv, NoStaleNumbers
  <2>7. AnnouncedExists'
    BY <2>1 DEF FreshInv, AnnouncedExists
  <2>8. QED
    BY <2>4, <2>6, <2>7
<1>3. ASSUME NEW played \in SUBSET Match, BackfillMatches(played)
      PROVE  OvertakenIsQueued' /\ AnnouncedExists' /\ NoStaleNumbers'
  <2>1. /\ UNCHANGED <<owed, queue, dropped, raced>>
        /\ \A n \in Match : row'[n].version = row[n].version
        /\ \A n \in Match : row'[n].status \in {row[n].status, "finished"}
    BY <1>1, <1>3 DEF BackfillMatches, Row
  <2>2. /\ \A n \in Match : Behind(n)' <=> Behind(n)
        /\ \A n \in Match : Current(n)' <=> Current(n)
        /\ \A p \in Pod : Uncommitted(p) => (Fresh(p)' <=> Fresh(p))
    BY <1>1, <2>1 DEF Behind, Queued, Current, Fresh
  <2>3. \A n \in Match : JobAhead(n)' <=> JobAhead(n)
    BY <1>1, <2>2 DEF JobAhead
  <2>4. OvertakenIsQueued'
    BY <1>1, <2>2 DEF FreshInv, OvertakenIsQueued
  <2>5. NoStaleNumbers'
    BY <2>1, <2>2, <2>3 DEF FreshInv, NoStaleNumbers
  <2>6. AnnouncedExists'
    BY <2>1 DEF FreshInv, AnnouncedExists
  <2>7. QED
    BY <2>4, <2>5, <2>6
<1>4. ASSUME NEW m \in Match, PublishEvent(m)
      PROVE  OvertakenIsQueued' /\ AnnouncedExists' /\ NoStaleNumbers'
  <2>1. /\ queue' = Append(queue, m) /\ UNCHANGED row
        /\ dropped' = dropped \ {m} /\ raced' = raced \ {m} /\ owed \ {m} \subseteq owed'
    BY <1>4 DEF PublishEvent
  <2>2. Queued(m)' /\ \A n \in Match : Queued(n) => Queued(n)'
    BY <1>1, <2>1, QueueGrows
  <2>3. Behind(m)' /\ \A n \in Match : Behind(n) => Behind(n)'
    BY <2>1, <2>2 DEF Behind
  <2>4. /\ \A n \in Match : Current(n)' <=> Current(n)
        /\ \A p \in Pod : Fresh(p)' <=> Fresh(p)
    BY <1>1, <2>1 DEF Current, Fresh
  <2>5. \A n \in Match : JobAhead(n)' <=> JobAhead(n)
    BY <1>1, <2>4 DEF JobAhead
  <2>6. OvertakenIsQueued'
    BY <1>1, <2>3, <2>4 DEF FreshInv, OvertakenIsQueued
  <2>7. NoStaleNumbers'
    BY <2>1, <2>3, <2>4, <2>5 DEF FreshInv, NoStaleNumbers
  <2>8. AnnouncedExists'
    BY <2>1 DEF FreshInv, AnnouncedExists
  <2>9. QED
    BY <2>6, <2>7, <2>8
<1>5. QED
  BY <1>2, <1>3, <1>4

\* What a step of one consumer has to respect.  A later job of a fixture stays
\* behind, unless the consumer takes it up while no other works on the fixture;
\* current numbers are replaced only with another job behind; and a fresh job
\* stores, goes on, is followed by another one or is given up.
LEMMA PodStep ==
  ASSUME FreshInv, NEW p \in Pod, UNCHANGED row,
         NEW m, m = job[p].match, NEW k, k = job'[p].match,
         \A q \in Pod \ {p} : job'[q] = job[q],
         dropped \subseteq dropped',
         \A n \in Match : Behind(n) =>
           \/ Behind(n)'
           \/ /\ k = n /\ Uncommitted(p)' /\ Fresh(p)'
              /\ \A q \in Pod \ {p} : ~(Uncommitted(q) /\ job[q].match = n),
         \A n \in Match : Current(n) => Current(n)' \/ Behind(n)',
         Uncommitted(p) /\ Fresh(p) =>
           \/ Current(m)' \/ Behind(m)' \/ m \in dropped'
           \/ Uncommitted(p)' /\ Fresh(p)' /\ k = m,
         Uncommitted(p)' => Fresh(p)' \/ Behind(k)'
  PROVE  OvertakenIsQueued' /\ AnnouncedExists' /\ NoStaleNumbers'
<1>1. \A q \in Pod \ {p} : /\ Uncommitted(q)' <=> Uncommitted(q)
                           /\ Fresh(q)' <=> Fresh(q)
                           /\ Uncommitted(q) => job[q].match \in Match
  BY DEF Uncommitted, Fresh, FreshInv, IInv, TypeOK, JobsSound, Working, JobState
<1>2. OvertakenIsQueued'
  <2> SUFFICES ASSUME NEW q \in Pod, Uncommitted(q)'
               PROVE  Fresh(q)' \/ Behind(job[q].match)'
    BY DEF OvertakenIsQueued
  <2>1. CASE q = p
    BY <2>1
  <2>2. CASE q # p
    <3>1. PICK n \in Match : n = job[q].match /\ n = job'[q].match /\ Uncommitted(q)
      BY <1>1, <2>2
    <3>2. Fresh(q) \/ Behind(n)
      BY <3>1 DEF FreshInv, OvertakenIsQueued
    <3>3. Fresh(q)' \/ Behind(n)'
      BY <1>1, <2>2, <3>1, <3>2
    <3>4. QED
      BY <3>1, <3>3
  <2>3. QED
    BY <2>1, <2>2
<1>3. ASSUME NEW n \in Match, row[n].version > 0
      PROVE  Current(n)' \/ JobAhead(n)' \/ Behind(n)' \/ n \in dropped'
  <2>1. Current(n) \/ JobAhead(n) \/ Behind(n) \/ n \in dropped
    BY <1>3 DEF FreshInv, NoStaleNumbers
  <2>2. CASE JobAhead(n)
    <3>1. PICK q \in Pod : job[q].match = n /\ Uncommitted(q) /\ Fresh(q)
      BY <2>2 DEF JobAhead
    <3>2. CASE q = p
      <4>1. CASE Uncommitted(p)' /\ Fresh(p)' /\ k = m
        BY <3>1, <3>2, <4>1 DEF JobAhead
      <4>2. CASE ~(Uncommitted(p)' /\ Fresh(p)' /\ k = m)
        BY <3>1, <3>2, <4>2
      <4>3. QED
        BY <4>1, <4>2
    <3>3. CASE q # p
      BY <1>1, <3>1, <3>3 DEF JobAhead
    <3>4. QED
      BY <3>2, <3>3
  <2>3. CASE Behind(n)
    BY <2>3 DEF JobAhead
  <2>4. QED
    BY <2>1, <2>2, <2>3
<1>4. NoStaleNumbers'
  BY <1>3 DEF NoStaleNumbers
<1>5. AnnouncedExists'
  BY DEF FreshInv, AnnouncedExists
<1>6. QED
  BY <1>2, <1>4, <1>5

\* A message taken from the queue is a job ahead until its row is read, and the
\* row that is read is the latest one.
LEMMA ReadsAhead ==
  ASSUME FreshInv, NEW p \in Pod,
         Deliver(p) \/ FetchMatch(p) \/ FetchHistory(p) \/ WritePreview(p) \/ StorePrediction(p)
  PROVE  OvertakenIsQueued' /\ AnnouncedExists' /\ NoStaleNumbers'
<1> DEFINE j == job[p]
<1>1. /\ j \in JobState /\ job \in [Pod -> JobState] /\ queue \in Seq(Match)
      /\ row \in [Match -> Row]
      /\ Uncommitted(p) => j.match \in Match
      /\ j.pc \in {"history", "preview", "store", "commit", "warm"} => j.numbers \in Numbers
  BY DEF FreshInv, IInv, TypeOK, JobsSound, Working, Uncommitted, JobState
<1>2. /\ UNCHANGED <<row, owed, dropped, prediction>>
      /\ \A q \in Pod \ {p} : job'[q] = job[q]
  BY <1>1 DEF Deliver, FetchMatch, FetchHistory, WritePreview, StorePrediction, stores
<1>3. \A n \in Match : Current(n)' <=> Current(n)
  BY <1>2 DEF Current
<1>4. CASE Deliver(p)
  <2>0. PICK m \in Match : m = Head(queue)
    BY <1>1, <1>4, QueueType DEF Deliver
  <2>1. /\ queue' = Tail(queue) /\ ~Uncommitted(p)
        /\ \A n \in Match : Queued(n) /\ n # m => Queued(n)'
    BY <1>1, <1>4, <2>0, QueueShrinks DEF Deliver, Uncommitted
  <2>2. /\ job'[p].pc = "match" /\ job'[p].match = m /\ job'[p].owned
        /\ job'[p].numbers = None
    BY <1>1, <1>4, <2>0 DEF Deliver, Waiting
  <2>3. Uncommitted(p)' /\ Fresh(p)'
    BY <2>2 DEF Uncommitted, Fresh
  <2>4. /\ raced \subseteq raced'
        /\ (\E q \in Pod \ {p} : Uncommitted(q) /\ job[q].match = m) => m \in raced'
    BY <1>4, <2>0 DEF Deliver
  <2>5. ASSUME NEW n \in Match, Behind(n)
        PROVE  \/ Behind(n)'
               \/ /\ job'[p].match = n /\ Uncommitted(p)' /\ Fresh(p)'
                  /\ \A q \in Pod \ {p} : ~(Uncommitted(q) /\ job[q].match = n)
    <3>1. CASE n = m
      BY <2>2, <2>3, <2>4, <3>1 DEF Behind
    <3>2. CASE n # m
      BY <1>2, <2>1, <2>4, <2>5, <3>2 DEF Behind
    <3>3. QED
      BY <3>1, <3>2
  <2>6. Uncommitted(p)' => Fresh(p)' \/ Behind(m)'
    BY <2>3
  <2>7. QED
    BY <1>2, <1>3, <2>1, <2>2, <2>3, <2>5, <2>6, PodStep
<1>5. ASSUME ~Deliver(p)
      PROVE  /\ UNCHANGED <<queue, raced>> /\ job'[p].match = j.match
             /\ job'[p].owned = j.owned
             /\ Uncommitted(p) /\ (Fresh(p) => Fresh(p)')
             /\ Uncommitted(p)' \/ row[j.match].status = "absent"
  <2>1. CASE FetchMatch(p)
    <3>1. /\ job'[p].match = j.match /\ job'[p].owned = j.owned
          /\ job'[p].pc = IF row[j.match].status = "absent" THEN "ack" ELSE "history"
          /\ job'[p].numbers = IF row[j.match].status = "absent" THEN None
                               ELSE [version |-> row[j.match].version, history |-> {}]
          /\ UNCHANGED <<queue, raced>> /\ Uncommitted(p)
      BY <1>1, <2>1 DEF FetchMatch, JobState, Uncommitted
    <3>2. Fresh(p) => Fresh(p)'
      BY <1>2, <3>1 DEF Fresh
    <3>3. Uncommitted(p)' \/ row[j.match].status = "absent"
      BY <3>1 DEF Uncommitted
    <3>4. QED
      BY <3>1, <3>2, <3>3
  <2>2. CASE FetchHistory(p)
    <3> DEFINE played == {m \in Match : row[m].status = "finished"}
               numbers == [j.numbers EXCEPT !.history = played]
    <3>0. j.numbers \in Numbers /\ UNCHANGED <<queue, raced>> /\ Uncommitted(p)
      BY <1>1, <2>2 DEF FetchHistory, Uncommitted
    <3>1. /\ numbers.version = j.numbers.version /\ j.numbers # None
          /\ job' = [job EXCEPT ![p] = [j EXCEPT !.pc = "preview", !.numbers = numbers]]
      <4>1. j.numbers # None /\ numbers.version = j.numbers.version
        BY <3>0 DEF Numbers
      <4>2. job' = [job EXCEPT ![p] = [j EXCEPT !.pc = "preview", !.numbers = numbers]]
        BY <1>1, <2>2 DEF FetchHistory
      <4>3. QED
        BY <4>1, <4>2
    <3> HIDE DEF numbers
    <3>2. /\ job'[p].match = j.match /\ job'[p].owned = j.owned
          /\ job'[p].numbers = numbers /\ job'[p].pc = "preview"
      BY <1>1, <3>1 DEF JobState
    <3>3. Uncommitted(p)' /\ (Fresh(p) => Fresh(p)')
      BY <1>2, <3>0, <3>1, <3>2 DEF Uncommitted, Fresh
    <3>4. QED
      BY <3>0, <3>2, <3>3
  <2>3. CASE WritePreview(p) \/ StorePrediction(p)
    <3>1. /\ job'[p].match = j.match /\ job'[p].owned = j.owned
          /\ job'[p].numbers = j.numbers /\ job'[p].pc \in {"store", "commit"}
          /\ j.pc \in {"preview", "store"} /\ UNCHANGED <<queue, raced>>
      <4>1. CASE WritePreview(p)
        <5>1. PICK usable \in BOOLEAN :
                job' = [job EXCEPT ![p] = [j EXCEPT !.pc = "store", !.preview = usable]]
          BY <1>1, <4>1 DEF WritePreview
        <5>2. QED
          BY <1>1, <4>1, <5>1 DEF WritePreview, JobState
      <4>2. CASE StorePrediction(p)
        BY <1>1, <4>2 DEF StorePrediction, JobState
      <4>3. QED
        BY <2>3, <4>1, <4>2
    <3>2. Uncommitted(p) /\ Uncommitted(p)' /\ (Fresh(p) => Fresh(p)')
      BY <1>2, <3>1 DEF Uncommitted, Fresh
    <3>3. QED
      BY <3>1, <3>2
  <2>4. QED
    BY <1>5, <2>1, <2>2, <2>3
<1>6. CASE ~Deliver(p)
  <2>1. PICK m \in Match : m = j.match
    BY <1>1, <1>5, <1>6
  <2>2. /\ UNCHANGED <<queue, raced>> /\ job'[p].match = m
        /\ Uncommitted(p) /\ (Fresh(p) => Fresh(p)')
        /\ Uncommitted(p)' \/ row[m].status = "absent"
    BY <1>5, <1>6, <2>1
  <2>3. \A n \in Match : Behind(n)' <=> Behind(n)
    BY <1>2, <2>2 DEF Behind, Queued
  <2>4. Fresh(p)' \/ Behind(m)'
    BY <2>1, <2>2, <2>3 DEF FreshInv, OvertakenIsQueued
  <2>5. CASE Uncommitted(p)'
    BY <1>2, <1>3, <2>1, <2>2, <2>3, <2>4, <2>5, PodStep
  <2>6. CASE ~Uncommitted(p)'
    <3>1. ~(row[m].version > 0)
      BY <2>2, <2>6 DEF FreshInv, AnnouncedExists
    <3>2. OvertakenIsQueued'
      <4> SUFFICES ASSUME NEW q \in Pod, Uncommitted(q)' PROVE Fresh(q)' \/ Behind(job[q].match)'
        BY DEF OvertakenIsQueued
      <4>1. q # p /\ job'[q] = job[q] /\ Uncommitted(q)
        BY <1>2, <2>6 DEF Uncommitted
      <4>2. PICK n \in Match : n = job[q].match /\ n = job'[q].match
        BY <4>1 DEF FreshInv, IInv, TypeOK, JobsSound, Working, Uncommitted, JobState
      <4>3. Fresh(q) \/ Behind(n)
        BY <4>1, <4>2 DEF FreshInv, OvertakenIsQueued
      <4>4. Fresh(q)' \/ Behind(n)'
        BY <1>2, <2>3, <4>1, <4>3 DEF Fresh
      <4>5. QED
        BY <4>2, <4>4
    <3>3. NoStaleNumbers'
      <4> SUFFICES ASSUME NEW n \in Match, row[n].version > 0
                   PROVE  Current(n)' \/ JobAhead(n)' \/ Behind(n)' \/ n \in dropped'
        BY <1>2 DEF NoStaleNumbers
      <4>1. JobAhead(n) => JobAhead(n)'
        BY <1>2, <2>1, <3>1 DEF JobAhead, Uncommitted, Fresh
      <4>2. QED
        BY <1>2, <1>3, <2>3, <4>1 DEF FreshInv, NoStaleNumbers
    <3>4. QED
      BY <1>2, <3>2, <3>3 DEF FreshInv, AnnouncedExists
  <2>7. QED
    BY <2>5, <2>6
<1>7. QED
  BY <1>4, <1>6

\* The commit stores what was read: the latest row, or an overtaken one that has
\* another job behind it.
LEMMA CommitsAhead ==
  ASSUME FreshInv, NEW p \in Pod, Commit(p)
  PROVE  OvertakenIsQueued' /\ AnnouncedExists' /\ NoStaleNumbers'
<1> DEFINE j == job[p]
<1>0. PICK m \in Match : m = j.match
  BY DEF FreshInv, IInv, TypeOK, JobsSound, Working, Commit, JobState
<1>1. /\ j \in JobState /\ job \in [Pod -> JobState]
      /\ prediction \in [Match -> Numbers \cup {None}]
      /\ j.numbers \in Numbers /\ Uncommitted(p)
  BY DEF FreshInv, IInv, TypeOK, JobsSound, Working, Uncommitted, JobState, Commit
<1>2. /\ UNCHANGED <<row, owed, queue, dropped, raced>>
      /\ prediction' = [prediction EXCEPT ![m] = j.numbers]
      /\ \A q \in Pod \ {p} : job'[q] = job[q]
      /\ job'[p].pc \in {"warm", "ack"}
  BY <1>0, <1>1 DEF Commit
<1>3. ~Uncommitted(p)' /\ \A n \in Match : Behind(n)' <=> Behind(n)
  BY <1>2 DEF Uncommitted, Behind, Queued
<1>4. Current(m)' \/ Behind(m)
  <2>1. Fresh(p) \/ Behind(m)
    BY <1>0, <1>1 DEF FreshInv, OvertakenIsQueued
  <2>2. prediction'[m] = j.numbers /\ j.numbers # None
    BY <1>1, <1>2
  <2>3. QED
    BY <1>0, <1>2, <2>1, <2>2 DEF Current, Fresh
<1>5. \A n \in Match : Current(n) => Current(n)' \/ Behind(n)'
  <2> SUFFICES ASSUME NEW n \in Match, Current(n), n # m PROVE Current(n)'
    BY <1>3, <1>4
  <2>1. prediction'[n] = prediction[n]
    BY <1>1, <1>2
  <2>2. QED
    BY <1>2, <2>1 DEF Current
<1>6. QED
  BY <1>0, <1>2, <1>3, <1>4, <1>5, PodStep

\* A job ends with its message back in the queue or its fixture among the given
\* up, unless it had nothing left to store.
LEMMA EndsAhead ==
  ASSUME FreshInv, NEW p \in Pod,
         \/ WarmCache(p) \/ Ack(p) \/ Start(p)
         \/ JobError(p) \/ Cancel(p) \/ Kill(p) \/ Disconnect(p)
  PROVE  OvertakenIsQueued' /\ AnnouncedExists' /\ NoStaleNumbers'
<1> DEFINE j == job[p]
<1>0. PICK m : m = j.match
  OBVIOUS
<1>1. /\ j \in JobState /\ job \in [Pod -> JobState] /\ queue \in Seq(Match)
      /\ Uncommitted(p) => m \in Match
      /\ j.owned => m \in Match
  BY <1>0 DEF FreshInv, IInv, TypeOK, JobsSound, Working, Uncommitted, JobState
<1>2. /\ UNCHANGED <<row, owed, prediction, raced>>
      /\ \A q \in Pod \ {p} : job'[q] = job[q]
  BY <1>1 DEF WarmCache, Ack, Start, JobError, Cancel, Kill, Disconnect, stores
<1>3. \A n \in Match : Current(n)' <=> Current(n)
  BY <1>2 DEF Current
<1>4. CASE WarmCache(p) \/ Ack(p) \/ Start(p)
  <2>1. j.pc \in {"warm", "ack", "down"} /\ UNCHANGED <<queue, dropped>>
    BY <1>4 DEF WarmCache, Ack, Start
  <2>2. job'[p].pc \in {"ack", "idle", "dead"}
    <3>1. CASE WarmCache(p)
      BY <1>1, <3>1 DEF WarmCache
    <3>2. CASE Ack(p)
      BY <1>1, <3>2 DEF Ack, Waiting
    <3>3. CASE Start(p)
      BY <1>1, <3>3 DEF Start, Waiting
    <3>4. QED
      BY <1>4, <3>1, <3>2, <3>3
  <2>3. ~Uncommitted(p) /\ ~Uncommitted(p)'
    BY <2>1, <2>2 DEF Uncommitted
  <2>4. \A n \in Match : Behind(n)' <=> Behind(n)
    BY <1>2, <2>1 DEF Behind, Queued
  <2>5. QED
    BY <1>2, <1>3, <2>1, <2>3, <2>4, PodStep
<1>5. CASE JobError(p) \/ Cancel(p)
  <2>1. job'[p].pc \in {"ack", "down"} /\ UNCHANGED queue /\ Forget(p)
    <3>1. CASE JobError(p)
      BY <1>1, <3>1 DEF JobError
    <3>2. CASE Cancel(p)
      BY <1>1, <3>2 DEF Cancel, Down, Waiting
    <3>3. QED
      BY <1>5, <3>1, <3>2
  <2>2. ~Uncommitted(p)'
    BY <2>1 DEF Uncommitted
  <2>3. dropped \subseteq dropped' /\ (Uncommitted(p) /\ j.owned => m \in dropped')
    BY <1>0, <2>1 DEF Forget
  <2>4. \A n \in Match : Behind(n)' <=> Behind(n)
    BY <1>2, <2>1 DEF Behind, Queued
  <2>5. QED
    BY <1>0, <1>2, <1>3, <2>2, <2>3, <2>4, PodStep DEF Fresh
<1>6. CASE Kill(p)
  <2>1. ~Uncommitted(p)' /\ UNCHANGED dropped
    BY <1>1, <1>6 DEF Kill, Uncommitted, Down, Waiting
  <2>2. /\ \A n \in Match : Queued(n) => Queued(n)'
        /\ j.owned => Queued(m)'
    <3>1. CASE j.owned
      <4>1. m \in Match /\ queue' = <<m>> \o queue
        BY <1>0, <1>1, <1>6, <3>1 DEF Kill
      <4>2. QED
        BY <1>1, <4>1, QueueGrows
    <3>2. CASE ~j.owned
      BY <1>6, <3>2 DEF Kill, Queued
    <3>3. QED
      BY <3>1, <3>2
  <2>3. (\A n \in Match : Behind(n) => Behind(n)') /\ (j.owned => Behind(m)')
    BY <1>2, <2>2 DEF Behind
  <2>4. QED
    BY <1>0, <1>2, <1>3, <2>1, <2>3, PodStep DEF Fresh
<1>7. CASE Disconnect(p)
  <2>1. /\ UNCHANGED dropped /\ m \in Match
        /\ job'[p].match = m /\ queue' = <<m>> \o queue
    BY <1>0, <1>1, <1>7 DEF Disconnect, JobState
  <2>2. Queued(m)' /\ \A n \in Match : Queued(n) => Queued(n)'
    BY <1>1, <2>1, QueueGrows
  <2>3. (\A n \in Match : Behind(n) => Behind(n)') /\ Behind(m)'
    BY <1>2, <2>2 DEF Behind
  <2>4. QED
    BY <1>0, <1>2, <1>3, <2>1, <2>3, PodStep
<1>8. QED
  BY <1>4, <1>5, <1>6, <1>7

\* Every step keeps the invariant.
LEMMA FreshNext ==
  ASSUME FreshInv, [Step]_vars
  PROVE  FreshInv'
<1>1. IInv'
  BY StepInv DEF FreshInv
<1>2. ASSUME UNCHANGED vars \/ \E m \in Match : Expire(m)
      PROVE  OvertakenIsQueued' /\ AnnouncedExists' /\ NoStaleNumbers'
  BY <1>2 DEF FreshInv, OvertakenIsQueued, AnnouncedExists, NoStaleNumbers,
     Uncommitted, Current, JobAhead, Behind, Fresh, Queued, Expire, vars
<1>3. ASSUME NEW m \in Match, ChangeMatch(m, row'[m].version)
      PROVE  OvertakenIsQueued' /\ AnnouncedExists' /\ NoStaleNumbers'
  <2>1. row'[m].version \in Nat
    BY <1>3 DEF ChangeMatch
  <2>2. QED
    BY <1>3, <2>1, AnnounceStep
<1>4. ASSUME Work PROVE OvertakenIsQueued' /\ AnnouncedExists' /\ NoStaleNumbers'
  BY <1>2, <1>4, AnnounceStep, ReadsAhead, CommitsAhead, EndsAhead DEF Work, Consume
<1>5. OvertakenIsQueued' /\ AnnouncedExists' /\ NoStaleNumbers'
  BY <1>2, <1>3, <1>4, AnnounceStep DEF Step
<1>6. QED
  BY <1>1, <1>5 DEF FreshInv

\* However often the worker changes a fixture and repeats a message.
LEMMA AnyWorkerFresh == AnyWorker => []FreshInv
BY FreshNext, FreshInit, PTL DEF AnyWorker

\* For any number of consumers, killed, repeated and cut off jobs never leave the
\* numbers of an earlier change behind: only a failed or cancelled job does, or two
\* consumers that worked on the fixture at once.
THEOREM NumbersFollowChanges == Spec => []NoStaleNumbers
<1>1. FreshInv /\ [Next]_vars => FreshInv'
  BY FreshNext, NextIsStep DEF FreshInv
<1>2. FreshInv => NoStaleNumbers
  BY DEF FreshInv
<1>3. QED
  BY <1>1, <1>2, FreshInit, PTL DEF Spec
=============================================================================
