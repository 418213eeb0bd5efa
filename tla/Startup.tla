------------------------------ MODULE Startup ------------------------------
(***************************************************************************)
(* Starting, readiness and restarts of the two services, the API            *)
(* (a-game-api/app/main.py, store.py) and the brain (a-game-brain/app/      *)
(* main.py, stores.py, consumer.py), under the probes of k8s/60-api.yaml    *)
(* and 70-brain.yaml.                                                       *)
(*                                                                          *)
(* A pod connects to Postgres, then to Redis, and only then serves; the     *)
(* brain also starts its consumer task, which nobody waits for.  Time is    *)
(* counted in units of five seconds: the pause between two attempts and the *)
(* period of the startup probe.  A store that is away refuses an attempt at *)
(* once or leaves it hanging: asyncpg gives up after a minute, the Redis    *)
(* client has no connect timeout at all.                                    *)
(***************************************************************************)
EXTENDS Naturals

CONSTANTS
  Api, Brain,      \* the pods: they differ in what they connect to and report
  Attempts,        \* retry_count, max_retries: 5
  Failures         \* failureThreshold of the startup probes: 12

ASSUME PodAssumption == Api \cap Brain = {}
ASSUME NumbersAssumption == {Attempts, Failures} \subseteq Nat \ {0}
ASSUME BudgetAssumption == 2 * Attempts <= Failures

Pod == Api \cup Brain
Store == {"postgres", "redis", "broker"}

VARIABLES
  up,        \* the stores that answer
  phase,     \* what each pod is doing: connecting, serving, or exited
  left,      \* attempts left at what it is connecting to
  paused,    \* it sleeps before its next attempt
  misses,    \* startup probes in a row that found it not serving
  hung,      \* history: how many of them found it in the middle of an attempt
  started,   \* the startup probe has passed
  ready,     \* the readiness probe's latest verdict: the pod gets traffic
  consumer,  \* the brain's consumer task
  is_rabbitmq_ready  \* the flag it raises, all that /readyz of the brain looks at

vars == <<up, phase, left, paused, misses, hung, started, ready, consumer,
          is_rabbitmq_ready>>
task == <<consumer, is_rabbitmq_ready>>

-----------------------------------------------------------------------------
(* The stores                                                                *)

\* A store goes away or comes back.
StoreDown(s) ==
  /\ s \in up /\ up' = up \ {s}
  /\ UNCHANGED <<phase, left, paused, misses, hung, started, ready>> /\ UNCHANGED task

StoreUp(s) ==
  /\ s \notin up /\ up' = up \cup {s}
  /\ UNCHANGED <<phase, left, paused, misses, hung, started, ready>> /\ UNCHANGED task

-----------------------------------------------------------------------------
(* Starting                                                                  *)

\* The container process is started, the first time or again by the kubelet.
Boot(p) ==
  /\ phase[p] = "exited"
  /\ phase' = [phase EXCEPT ![p] = "postgres"]
  /\ left' = [left EXCEPT ![p] = Attempts]
  /\ UNCHANGED <<up, paused, misses, hung, started, ready>> /\ UNCHANGED task

\* Slip: the liveness probe does not wait for a startup probe.
ExitedStillStarted(p) ==
  /\ phase' = [phase EXCEPT ![p] = "exited"]
  /\ paused' = [paused EXCEPT ![p] = FALSE]
  /\ misses' = [misses EXCEPT ![p] = 0] /\ hung' = [hung EXCEPT ![p] = 0]
  /\ started' = [started EXCEPT ![p] = TRUE]
  /\ ready' = [ready EXCEPT ![p] = FALSE]
  /\ consumer' = [consumer EXCEPT ![p] = "none"]
  /\ is_rabbitmq_ready' = [is_rabbitmq_ready EXCEPT ![p] = FALSE]

\* The process is gone, by its own error or the kubelet's hand; probes start over.
Exited(p) ==
  /\ phase' = [phase EXCEPT ![p] = "exited"]
  /\ paused' = [paused EXCEPT ![p] = FALSE]
  /\ misses' = [misses EXCEPT ![p] = 0] /\ hung' = [hung EXCEPT ![p] = 0]
  /\ started' = [started EXCEPT ![p] = FALSE]
  /\ ready' = [ready EXCEPT ![p] = FALSE]
  /\ consumer' = [consumer EXCEPT ![p] = "none"]
  /\ is_rabbitmq_ready' = [is_rabbitmq_ready EXCEPT ![p] = FALSE]

\* make_pg_pool, then make_redis: the attempt succeeds.  The budget of the next
\* store is a fresh one, and the brain's first consumer attempt comes with serving.
Connect(p) ==
  /\ phase[p] \in {"postgres", "redis"} /\ ~paused[p]
  /\ phase[p] \in up
  /\ phase' = [phase EXCEPT ![p] = IF @ = "postgres" THEN "redis" ELSE "serving"]
  /\ left' = [left EXCEPT ![p] = Attempts]
  /\ consumer' = IF phase[p] = "redis" /\ p \in Brain
                 THEN [consumer EXCEPT ![p] = "connecting"] ELSE consumer
  /\ UNCHANGED <<up, paused, misses, hung, started, ready, is_rabbitmq_ready>>

\* Slip: one attempt more than counted is made.
RefusedKeeping(p) ==
  /\ phase[p] \in {"postgres", "redis"} /\ ~paused[p]
  /\ phase[p] \notin up
  /\ left' = [left EXCEPT ![p] = @ - 1]
  /\ IF left[p] = 0
     THEN Exited(p)
     ELSE /\ paused' = [paused EXCEPT ![p] = TRUE]
          /\ UNCHANGED <<phase, misses, hung, started, ready>> /\ UNCHANGED task
  /\ UNCHANGED up

\* Slip: the attempts are not counted.
RefusedUncounted(p) ==
  /\ phase[p] \in {"postgres", "redis"} /\ ~paused[p]
  /\ phase[p] \notin up
  /\ paused' = [paused EXCEPT ![p] = TRUE]
  /\ UNCHANGED <<up, phase, left, misses, hung, started, ready>> /\ UNCHANGED task

\* The attempt fails, at once or after it has hung: ConnectionError after the last
\* one, which ends the process.
Refused(p) ==
  /\ phase[p] \in {"postgres", "redis"} /\ ~paused[p]
  /\ phase[p] \notin up
  /\ IF left[p] = 1
     THEN Exited(p) /\ UNCHANGED left
     ELSE /\ left' = [left EXCEPT ![p] = @ - 1]
          /\ paused' = [paused EXCEPT ![p] = TRUE]
          /\ UNCHANGED <<phase, misses, hung, started, ready>> /\ UNCHANGED task
  /\ UNCHANGED up

-----------------------------------------------------------------------------
(* The consumer task of the brain                                            *)

\* connect_robust answers: the flag /readyz reads goes up with it.
Consume(p) ==
  /\ consumer[p] = "connecting" /\ ~paused[p] /\ "broker" \in up
  /\ consumer' = [consumer EXCEPT ![p] = "consuming"]
  /\ is_rabbitmq_ready' = [is_rabbitmq_ready EXCEPT ![p] = TRUE]
  /\ UNCHANGED <<up, phase, left, paused, misses, hung, started, ready>>

\* It does not; after the last attempt the task ends and nobody looks at it.
ConsumeRefused(p) ==
  /\ consumer[p] = "connecting" /\ ~paused[p] /\ "broker" \notin up
  /\ left' = [left EXCEPT ![p] = @ - 1]
  /\ IF left[p] = 1
     THEN consumer' = [consumer EXCEPT ![p] = "dead"] /\ UNCHANGED paused
     ELSE paused' = [paused EXCEPT ![p] = TRUE] /\ UNCHANGED consumer
  /\ UNCHANGED <<up, phase, misses, hung, started, ready, is_rabbitmq_ready>>

\* An exception leaves the loop: a message that is no JSON, a refused declaration of
\* the queue, an acknowledgement on a channel that was lost.
ConsumerFails(p) ==
  /\ consumer[p] = "consuming"
  /\ consumer' = [consumer EXCEPT ![p] = "closing"]
  /\ UNCHANGED <<up, phase, left, paused, misses, hung, started, ready, is_rabbitmq_ready>>

\* The finally: the connection is closed first and the flag lowered behind it, so
\* a close that raises leaves it up.  One that never returns stays in "closing".
CloseConnection(p) ==
  /\ consumer[p] = "closing"
  /\ consumer' = [consumer EXCEPT ![p] = "dead"]
  /\ \E raises \in BOOLEAN :
       is_rabbitmq_ready' = [is_rabbitmq_ready EXCEPT ![p] = @ /\ raises]
  /\ UNCHANGED <<up, phase, left, paused, misses, hung, started, ready>>

-----------------------------------------------------------------------------
(* The kubelet                                                               *)

\* GET /health: answered as soon as uvicorn serves, whatever the stores do.
Healthy(p) == phase[p] = "serving"

\* Slip: the API's probe returns from memory.
ReadyFromMemory(p) == phase[p] = "serving"

\* GET /readyz: the API asks both stores; the brain reports its flag, which
\* connect_robust's own reconnecting leaves alone.
Ready(p) ==
  /\ phase[p] = "serving"
  /\ IF p \in Api THEN {"postgres", "redis"} \subseteq up
     ELSE is_rabbitmq_ready[p]

\* The pod waits for a store that does not answer its attempt.
Hangs(p) == phase[p] \in {"postgres", "redis"} /\ ~paused[p] /\ phase[p] \notin up

\* Five seconds: a pause is over, or an attempt still hangs, and the startup probe
\* asks once, restarting the pod at the last miss.
Tick(p) ==
  /\ phase[p] # "exited"
  /\ paused[p] \/ ~started[p]
  /\ paused[p] \/ phase[p] = "serving" \/ Hangs(p)
  /\ IF started[p] \/ Healthy(p) \/ misses[p] + 1 < Failures
     THEN /\ paused' = [paused EXCEPT ![p] = FALSE]
          /\ started' = [started EXCEPT ![p] = @ \/ Healthy(p)]
          /\ misses' = [misses EXCEPT ![p] = IF started'[p] THEN 0 ELSE @ + 1]
          /\ hung' = [hung EXCEPT ![p] = IF started'[p] THEN 0
                                         ELSE IF Hangs(p) THEN @ + 1 ELSE @]
          /\ UNCHANGED <<phase, ready>> /\ UNCHANGED task
     ELSE Exited(p)
  /\ UNCHANGED <<up, left>>

\* Once it has started: the liveness probe restarts a pod that does not answer
\* /health, the readiness probe reaches a verdict on one that does.
Probe(p) ==
  /\ started[p]
  /\ IF Healthy(p)
     THEN /\ ready[p] # Ready(p)
          /\ ready' = [ready EXCEPT ![p] = Ready(p)]
          /\ UNCHANGED <<phase, paused, misses, hung, started>> /\ UNCHANGED task
     ELSE Exited(p)
  /\ UNCHANGED <<up, left>>

-----------------------------------------------------------------------------
(* Specification                                                             *)

Init ==
  /\ up \in SUBSET Store
  /\ phase = [p \in Pod |-> "exited"]
  /\ left = [p \in Pod |-> Attempts]
  /\ paused = [p \in Pod |-> FALSE]
  /\ misses = [p \in Pod |-> 0] /\ hung = [p \in Pod |-> 0]
  /\ started = [p \in Pod |-> FALSE]
  /\ ready = [p \in Pod |-> FALSE]
  /\ consumer = [p \in Pod |-> "none"]
  /\ is_rabbitmq_ready = [p \in Pod |-> FALSE]

Work(p) ==
  \/ Boot(p) \/ Connect(p) \/ Refused(p)
  \/ Consume(p) \/ ConsumeRefused(p)
  \/ Tick(p)

Next ==
  \/ \E s \in Store : StoreDown(s) \/ StoreUp(s)
  \/ \E p \in Pod : Work(p) \/ Probe(p) \/ ConsumerFails(p) \/ CloseConnection(p)

\* Pods and kubelet go on; stores come and go as they like, and nothing makes a
\* consumer fail or its connection close.
Spec ==
  /\ Init /\ [][Next]_vars
  /\ \A p \in Pod : WF_vars(Work(p)) /\ WF_vars(Probe(p))

-----------------------------------------------------------------------------
(* Properties                                                                *)

\* Type invariant.
TypeOK ==
  /\ up \subseteq Store
  /\ phase \in [Pod -> {"exited", "postgres", "redis", "serving"}]
  /\ left \in [Pod -> 0..Attempts]
  /\ paused \in [Pod -> BOOLEAN]
  /\ misses \in [Pod -> 0..Failures - 1] /\ hung \in [Pod -> 0..Failures - 1]
  /\ started \in [Pod -> BOOLEAN]
  /\ ready \in [Pod -> BOOLEAN]
  /\ consumer \in [Pod -> {"none", "connecting", "consuming", "closing", "dead"}]
  /\ is_rabbitmq_ready \in [Pod -> BOOLEAN]

\* The startup probe does not take a pod that still has attempts left, unless the
\* attempts themselves hung for more than what is left of its patience beside the
\* pauses: ten seconds, for five attempts and twelve failures (stores.py and
\* store.py against 60-api.yaml and 70-brain.yaml).
StartupFitsProbe ==
  \A p \in Pod : phase[p] \in {"postgres", "redis"} /\ hung[p] <= Failures - 2 * Attempts
    => misses[p] < Failures - 1

\* Self-healing: once the stores stay up every pod gets traffic for good, however
\* often it had to be restarted before; only a brain whose consumer task has ended
\* may stay out (test_service.py says why nothing restarts it).
BackInRotation ==
  <>[](up = Store) =>
    \A p \in Pod : <>[](ready[p] \/ consumer[p] \in {"closing", "dead"})

\* An API whose store stays away gets no traffic, whenever it was that the readiness
\* probe last asked.
OutOfRotation ==
  \A p \in Api : \A s \in {"postgres", "redis"} : <>[](s \notin up) => <>[]~ready[p]
=============================================================================
