---------------------------- MODULE StartupProofs ----------------------------
(***************************************************************************)
(* Why a pod's retries end before the startup probe's patience does unless  *)
(* attempts hang, and how long they may, for any number of attempts of      *)
(* which two budgets fit into the threshold.                                *)
(***************************************************************************)
EXTENDS Startup, TLAPS

Connecting == {"postgres", "redis"}

\* The failed attempts of a pod since it was booted, at most: those at the store it
\* is connecting to and, behind the first one, those a connection came just in time for.
Refusals(p) == (IF phase[p] = "redis" THEN Attempts - 1 ELSE 0) + (Attempts - left[p])

\* Every failed attempt is followed by one pause, and a pod that connects is asked by
\* the startup probe once per pause, or while an attempt hangs: what it has missed it
\* has paused for or hung in.
Paused(p) == IF paused[p] THEN misses[p] + 1 ELSE misses[p]

MissesCounted ==
  \A p \in Pod :
    /\ hung[p] <= misses[p]
    /\ phase[p] \in Connecting => left[p] > 0 /\ Paused(p) <= Refusals(p) + hung[p]

\* Only a pod that serves has passed the startup probe or runs a consumer.
ServingFirst ==
  \A p \in Pod :
    /\ phase[p] # "serving" => ~started[p] /\ consumer[p] = "none"
    /\ phase[p] = "exited" => ~paused[p] /\ misses[p] = 0
    /\ consumer[p] = "connecting" => left[p] > 0

IInv == TypeOK /\ ServingFirst /\ MissesCounted

-----------------------------------------------------------------------------
LEMMA Initially == Init => IInv
<1> SUFFICES ASSUME Init PROVE IInv
  OBVIOUS
<1>1. TypeOK
  BY NumbersAssumption DEF Init, TypeOK
<1>2. ServingFirst
  BY DEF Init, ServingFirst
<1>3. MissesCounted
  BY DEF Init, MissesCounted, Connecting
<1>4. QED
  BY <1>1, <1>2, <1>3 DEF IInv

\* What the kubelet or the process's own error leaves behind.
LEMMA ExitedKeeps ==
  ASSUME IInv, NEW p \in Pod, Exited(p), UNCHANGED <<up, left>>
  PROVE  IInv'
<1>1. TypeOK'
  BY NumbersAssumption DEF IInv, TypeOK, Exited
<1>2. ServingFirst'
  BY DEF IInv, TypeOK, ServingFirst, Exited
<1>3. MissesCounted'
  BY DEF IInv, TypeOK, MissesCounted, Connecting, Paused, Refusals, Exited
<1>4. QED
  BY <1>1, <1>2, <1>3 DEF IInv

LEMMA StepKeeps == IInv /\ [Next]_vars => IInv'
<1> SUFFICES ASSUME IInv, [Next]_vars PROVE IInv'
  OBVIOUS
<1> USE NumbersAssumption
<1>1. ASSUME NEW s \in Store, StoreDown(s) \/ StoreUp(s) PROVE IInv'
  BY <1>1 DEF IInv, TypeOK, ServingFirst, MissesCounted, Paused, Refusals, StoreDown, StoreUp, task
<1>2. ASSUME NEW p \in Pod, Boot(p) PROVE IInv'
  <2>1. TypeOK'
    BY <1>2 DEF IInv, TypeOK, Boot, task
  <2>2. ServingFirst'
    BY <1>2 DEF IInv, TypeOK, ServingFirst, Boot, task
  <2>3. MissesCounted'
    BY <1>2 DEF IInv, TypeOK, ServingFirst, MissesCounted, Connecting, Paused, Refusals, Boot, task
  <2>4. QED
    BY <2>1, <2>2, <2>3 DEF IInv
<1>3. ASSUME NEW p \in Pod, Connect(p) PROVE IInv'
  <2>1. TypeOK'
    BY <1>3 DEF IInv, TypeOK, Connect, task
  <2>2. ServingFirst'
    BY <1>3 DEF IInv, TypeOK, ServingFirst, Connect, task
  <2>3. MissesCounted'
    BY <1>3 DEF IInv, TypeOK, MissesCounted, Connecting, Paused, Refusals, Connect, task
  <2>4. QED
    BY <2>1, <2>2, <2>3 DEF IInv
<1>4. ASSUME NEW p \in Pod, Refused(p) PROVE IInv'
  <2>1. CASE left[p] = 1
    BY <1>4, <2>1, ExitedKeeps DEF Refused, task
  <2>2. CASE left[p] # 1
    <3>1. left[p] > 1 /\ phase[p] \in Connecting
      BY <1>4, <2>2 DEF IInv, TypeOK, MissesCounted, Connecting, Refused, task
    <3>2. TypeOK'
      <4>1. left[p] - 1 \in 0..Attempts
        BY <3>1 DEF IInv, TypeOK
      <4>2. QED
        BY <1>4, <2>2, <4>1 DEF IInv, TypeOK, Refused, task
    <3>3. ServingFirst'
      BY <1>4, <2>2, <3>1 DEF IInv, TypeOK, ServingFirst, Refused, task
    <3>4. MissesCounted'
      BY <1>4, <2>2, <3>1 DEF IInv, TypeOK, MissesCounted, Connecting, Paused, Refusals, Refused, task
    <3>5. QED
      BY <3>2, <3>3, <3>4 DEF IInv
  <2>3. QED
    BY <2>1, <2>2
<1>5. ASSUME NEW p \in Pod, Consume(p) \/ ConsumerFails(p) \/ CloseConnection(p) PROVE IInv'
  <2>1. phase[p] = "serving"
    BY <1>5 DEF IInv, ServingFirst, Consume, ConsumerFails, CloseConnection
  <2>2. TypeOK'
    BY <1>5 DEF IInv, TypeOK, Consume, ConsumerFails, CloseConnection
  <2>3. ServingFirst'
    BY <1>5, <2>1 DEF IInv, TypeOK, ServingFirst, Consume, ConsumerFails, CloseConnection
  <2>4. MissesCounted'
    BY <1>5 DEF IInv, TypeOK, MissesCounted, Paused, Refusals, Consume, ConsumerFails, CloseConnection
  <2>5. QED
    BY <2>2, <2>3, <2>4 DEF IInv
<1>6. ASSUME NEW p \in Pod, ConsumeRefused(p) PROVE IInv'
  <2>1. phase[p] = "serving" /\ left[p] > 0
    BY <1>6 DEF IInv, ServingFirst, ConsumeRefused
  <2>2. TypeOK'
    <3>1. left[p] - 1 \in 0..Attempts
      BY <2>1 DEF IInv, TypeOK
    <3>2. /\ consumer' \in [Pod -> {"none", "connecting", "consuming", "closing", "dead"}]
          /\ paused' \in [Pod -> BOOLEAN]
      BY <1>6 DEF IInv, TypeOK, ConsumeRefused
    <3>3. QED
      BY <1>6, <3>1, <3>2 DEF IInv, TypeOK, ConsumeRefused
  <2>3. ServingFirst'
    BY <1>6, <2>1 DEF IInv, TypeOK, ServingFirst, ConsumeRefused
  <2>4. MissesCounted'
    BY <1>6, <2>1 DEF IInv, TypeOK, MissesCounted, Connecting, Paused, Refusals, ConsumeRefused
  <2>5. QED
    BY <2>2, <2>3, <2>4 DEF IInv
<1>7. ASSUME NEW p \in Pod, Tick(p) PROVE IInv'
  <2>1. CASE started[p] \/ Healthy(p) \/ misses[p] + 1 < Failures
    <3>1. TypeOK'
      <4>1. misses' \in [Pod -> 0..Failures - 1]
        <5>1. ~started'[p] => misses[p] + 1 \in 0..Failures - 1
          <6>1. ~started'[p] => misses[p] + 1 < Failures
            BY <1>7, <2>1, Zenon DEF IInv, TypeOK, Tick, task
          <6>2. misses[p] \in 0..Failures - 1
            BY DEF IInv, TypeOK
          <6>3. QED
            BY <6>1, <6>2
        <5>2. 0 \in 0..Failures - 1
          OBVIOUS
        <5>3. QED
          BY <1>7, <2>1, <5>1, <5>2 DEF IInv, TypeOK, Tick, task
      <4>2. started' \in [Pod -> BOOLEAN] /\ paused' \in [Pod -> BOOLEAN]
        BY <1>7, <2>1, Zenon DEF IInv, TypeOK, Tick, Healthy, task
      <4>3. hung' \in [Pod -> 0..Failures - 1]
        <5>1. hung[p] <= misses[p] /\ misses[p] \in 0..Failures - 1 /\ hung[p] \in 0..Failures - 1
          BY DEF IInv, TypeOK, MissesCounted
        <5>2. ~started'[p] => misses[p] + 1 < Failures
          BY <1>7, <2>1, Zenon DEF IInv, TypeOK, Tick, task
        <5>3. ~started'[p] => hung[p] + 1 \in 0..Failures - 1
          BY <5>1, <5>2
        <5>4. hung[p] \in 0..Failures - 1 /\ 0 \in 0..Failures - 1
          BY <5>1
        <5>5. QED
          BY <1>7, <2>1, <5>3, <5>4 DEF IInv, TypeOK, Tick, task
      <4>4. QED
        BY <1>7, <2>1, <4>1, <4>2, <4>3 DEF IInv, TypeOK, Tick, task
    <3>2. ServingFirst'
      BY <1>7, <2>1 DEF IInv, TypeOK, ServingFirst, Tick, Healthy, task
    <3>3. phase[p] \in Connecting => (paused[p] <=> ~Hangs(p)) /\ ~started'[p]
      BY <1>7, <2>1 DEF IInv, TypeOK, ServingFirst, Connecting, Tick, Healthy, Hangs
    <3>4. MissesCounted'
      <4>1. UNCHANGED <<phase, left>>
        BY <1>7, <2>1 DEF Tick, task
      <4>2. ASSUME NEW q \in Pod, q # p
            PROVE  /\ hung'[q] = hung[q] /\ misses'[q] = misses[q] /\ paused'[q] = paused[q]
                   /\ Paused(q)' = Paused(q)
        BY <1>7, <2>1, <4>2 DEF IInv, TypeOK, Tick, Paused
      <4>3. /\ paused'[p] = FALSE
            /\ misses'[p] = IF started'[p] THEN 0 ELSE misses[p] + 1
            /\ hung'[p] = IF started'[p] THEN 0 ELSE IF Hangs(p) THEN hung[p] + 1 ELSE hung[p]
        BY <1>7, <2>1 DEF IInv, TypeOK, Tick, task
      <4>4. /\ hung[p] \in Nat /\ misses[p] \in Nat /\ hung[p] <= misses[p]
            /\ left[p] \in 0..Attempts
        BY DEF IInv, TypeOK, MissesCounted
      <4>5. hung'[p] <= misses'[p]
        BY <4>3, <4>4
      <4>6. ASSUME phase[p] \in Connecting
            PROVE  left[p] > 0 /\ Paused(p)' <= Refusals(p) + hung'[p]
        <5>1. left[p] > 0 /\ Paused(p) <= Refusals(p) + hung[p] /\ Refusals(p) \in Nat
          BY <4>4, <4>6 DEF IInv, MissesCounted, Refusals
        <5>2. Paused(p)' = misses[p] + 1
          BY <3>3, <4>3, <4>6 DEF Paused
        <5>3. CASE Hangs(p)
          <6>1. Paused(p) = misses[p] /\ hung'[p] = hung[p] + 1
            BY <3>3, <4>3, <4>6, <5>3 DEF Paused
          <6>2. QED
            BY <4>4, <5>1, <5>2, <6>1
        <5>4. CASE ~Hangs(p)
          <6>1. Paused(p) = misses[p] + 1 /\ hung'[p] = hung[p]
            BY <3>3, <4>3, <4>6, <5>4 DEF Paused
          <6>2. QED
            BY <4>4, <5>1, <5>2, <6>1
        <5>5. QED
          BY <5>3, <5>4
      <4>7. \A q \in Pod : Refusals(q)' = Refusals(q)
        BY <4>1 DEF Refusals
      <4>8. QED
        BY <4>1, <4>2, <4>5, <4>6, <4>7 DEF IInv, MissesCounted
    <3>5. QED
      BY <3>1, <3>2, <3>4 DEF IInv
  <2>2. CASE ~(started[p] \/ Healthy(p) \/ misses[p] + 1 < Failures)
    BY <1>7, <2>2, ExitedKeeps DEF Tick, task
  <2>3. QED
    BY <2>1, <2>2
<1>8. ASSUME NEW p \in Pod, Probe(p) PROVE IInv'
  <2>1. CASE Healthy(p)
    BY <1>8, <2>1 DEF IInv, TypeOK, ServingFirst, MissesCounted, Paused, Refusals, Probe, Ready, task
  <2>2. CASE ~Healthy(p)
    BY <1>8, <2>2, ExitedKeeps DEF Probe, task
  <2>3. QED
    BY <2>1, <2>2
<1>9. CASE UNCHANGED vars
  BY <1>9 DEF vars, IInv, TypeOK, ServingFirst, MissesCounted, Paused, Refusals
<1>10. QED
  BY <1>1, <1>2, <1>3, <1>4, <1>5, <1>6, <1>7, <1>8, <1>9 DEF Next, Work

LEMMA Invariance == Spec => []IInv
<1>1. QED
  BY Initially, StepKeeps, PTL DEF Spec

\* Every variable keeps its type; in particular no pod is ever probed more often than
\* failureThreshold allows, nor makes more attempts than its retry count.
THEOREM TypeCorrect == Spec => []TypeOK
<1>1. IInv => TypeOK
  BY DEF IInv
<1>2. QED
  BY <1>1, Invariance, PTL

\* The startup probe takes no pod that has attempts left and whose attempts have not
\* hung for longer than what both retry budgets leave of failureThreshold periods.
THEOREM BudgetsFit == Spec => []StartupFitsProbe
<1>1. IInv => StartupFitsProbe
  <2> SUFFICES ASSUME IInv, NEW p \in Pod, phase[p] \in Connecting,
                      hung[p] <= Failures - 2 * Attempts
               PROVE  misses[p] < Failures - 1
    BY DEF StartupFitsProbe, Connecting
  <2>1. /\ misses[p] \in 0..Failures - 1 /\ left[p] \in 0..Attempts
        /\ hung[p] \in 0..Failures - 1
    BY DEF IInv, TypeOK
  <2>2. left[p] > 0 /\ Paused(p) <= Refusals(p) + hung[p]
    BY DEF IInv, MissesCounted
  <2>3. misses[p] <= Refusals(p) + hung[p]
    BY <2>1, <2>2, NumbersAssumption DEF Paused, Refusals
  <2>4. QED
    BY <2>1, <2>2, <2>3, NumbersAssumption DEF Refusals
<1>2. QED
  BY <1>1, Invariance, PTL
=============================================================================
