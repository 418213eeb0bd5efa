------------------------------- MODULE ReadPath -----------------------------
(***************************************************************************)
(* The read path (a-game-api/app): GET /{match_id} is served from Redis     *)
(* first, from the commentary table on a miss, and backfills Redis then.    *)
(* The brain's consumers write the same two stores: a job commits a preview *)
(* and warms the cache in a later step, which may fail and which the job of *)
(* a newer preview may overtake.  See Brain for the whole job.              *)
(*                                                                          *)
(* Time passes in ticks; an entry lives Ttl of them, one ingestion cycle.   *)
(* A request and the step from a commit to its warm take far less than a    *)
(* tick, so no tick passes while one of them is under way.                  *)
(***************************************************************************)
EXTENDS Integers

CONSTANTS
  Match,      \* fixtures
  Client,     \* concurrent requests
  Ttl,        \* CACHE_TTL_SECONDS in ticks
  MaxTexts,   \* bound: previews committed for each fixture
  MaxOutages  \* bound: outages of Redis or Postgres

ASSUME TtlAssumption == Ttl \in Nat \ {0}
ASSUME BoundAssumption == MaxTexts \in Nat /\ MaxOutages \in Nat

\* The previews of a fixture are numbered as they are committed; 0 is none.
Entry == [text : Nat, ttl : 0..Ttl]
NoEntry == [text |-> 0, ttl |-> 0]

RequestState == [pc : {"idle", "redis", "postgres", "backfill", "ok", "not_found", "error"},
                 match : Match,
                 text : Nat,      \* what the request has read
                 known : Nat]     \* history: the preview committed when it began

VARIABLES
  commentary,  \* the commentary table
  cache,       \* Redis, match_id:<id>
  warming,     \* the previews committed whose job has not come to the cache yet
  request,     \* the requests under way
  redisUp, pgUp,
  outages,     \* counts towards MaxOutages
  staleFor     \* history: ticks the cached preview has been out of date

vars == <<commentary, cache, warming, request, redisUp, pgUp, outages, staleFor>>

Ended(c) == request[c].pc \in {"idle", "ok", "not_found", "error"}

\* Slip: the entry is kept until the next run is over, instead of one cycle.
PutLonger(m, text) == cache' = [cache EXCEPT ![m] = [text |-> text, ttl |-> Ttl + 1]]

\* redis.set(..., ex=CACHE_TTL_SECONDS)
Put(m, text) == cache' = [cache EXCEPT ![m] = [text |-> text, ttl |-> Ttl]]

Goto(c, pc) == request' = [request EXCEPT ![c].pc = pc]

-----------------------------------------------------------------------------
(* The brain                                                                *)

\* The transaction of a job commits a preview.
StoreCommentary(m) ==
  /\ pgUp /\ commentary[m] < MaxTexts
  /\ commentary' = [commentary EXCEPT ![m] = @ + 1]
  /\ warming' = [warming EXCEPT ![m] = @ \cup {commentary'[m]}]
  /\ UNCHANGED <<cache, request, redisUp, pgUp, outages, staleFor>>

\* A job warms the cache, or loses the chance: RedisError, cancelled, killed.
\* Jobs of several consumers come to it in any order, whichever committed last.
WarmCache(m) == \E text \in warming[m] :
  /\ \/ redisUp /\ Put(m, text) /\ staleFor' = [staleFor EXCEPT ![m] = 0]
     \/ UNCHANGED <<cache, staleFor>>
  /\ warming' = [warming EXCEPT ![m] = @ \ {text}]
  /\ UNCHANGED <<commentary, request, redisUp, pgUp, outages>>

-----------------------------------------------------------------------------
(* One request                                                              *)

Get(c, m) ==
  /\ Ended(c)
  /\ request' = [request EXCEPT ![c] =
       [pc |-> "redis", match |-> m, text |-> 0, known |-> commentary[m]]]
  /\ UNCHANGED <<commentary, cache, warming, redisUp, pgUp, outages, staleFor>>

\* Slip: every hit writes the entry back, with a new TTL.
ReadRedisRefreshing(c) ==
  /\ request[c].pc = "redis" /\ redisUp
  /\ LET m == request[c].match IN
     \/ /\ cache[m].text # 0
        /\ request' = [request EXCEPT ![c].pc = "ok", ![c].text = cache[m].text]
        /\ Put(m, cache[m].text)
     \/ cache[m].text = 0 /\ Goto(c, "postgres") /\ UNCHANGED cache
  /\ UNCHANGED <<commentary, warming, redisUp, pgUp, outages, staleFor>>

\* Slip: a miss is taken for an answer.
ReadRedisAlone(c) ==
  /\ request[c].pc = "redis" /\ redisUp
  /\ LET text == cache[request[c].match].text IN
     request' = [request EXCEPT ![c].pc = IF text = 0 THEN "not_found" ELSE "ok",
                                ![c].text = text]
  /\ UNCHANGED <<commentary, cache, warming, redisUp, pgUp, outages, staleFor>>

\* redis.get: a hit answers, a miss goes on to Postgres.  The branch for a client
\* that is None is dead: make_redis raises and the lifespan fails (Startup).
ReadRedis(c) ==
  /\ request[c].pc = "redis" /\ redisUp
  /\ LET m == request[c].match IN
     \/ /\ cache[m].text # 0
        /\ request' = [request EXCEPT ![c].pc = "ok", ![c].text = cache[m].text]
     \/ cache[m].text = 0 /\ Goto(c, "postgres")
  /\ UNCHANGED <<commentary, cache, warming, redisUp, pgUp, outages, staleFor>>

\* Slip: the miss itself is cached, so that Postgres is asked once a day.
ReadPostgresCachingMiss(c) ==
  /\ request[c].pc = "postgres" /\ pgUp
  /\ LET text == commentary[request[c].match] IN
     request' = [request EXCEPT ![c].pc = IF text = 0 THEN "not_found" ELSE "backfill",
                                ![c].text = text]
  /\ IF commentary[request[c].match] = 0
     THEN Put(request[c].match, MaxTexts + 1) ELSE UNCHANGED cache
  /\ UNCHANGED <<commentary, warming, redisUp, pgUp, outages, staleFor>>

\* get_prediction: the committed preview, or a 404 that writes nothing.
ReadPostgres(c) ==
  /\ request[c].pc = "postgres" /\ pgUp
  /\ LET text == commentary[request[c].match] IN
     request' = [request EXCEPT ![c].pc = IF text = 0 THEN "not_found" ELSE "backfill",
                                ![c].text = text]
  /\ UNCHANGED <<commentary, cache, warming, redisUp, pgUp, outages, staleFor>>

\* redis.set of what Postgres returned, however old it is by now.
Backfill(c) ==
  /\ request[c].pc = "backfill" /\ redisUp
  /\ Put(request[c].match, request[c].text)
  /\ Goto(c, "ok")
  /\ UNCHANGED <<commentary, warming, redisUp, pgUp, outages, staleFor>>

\* Whatever a store raises is logged and raised again: the client gets a 500.
RequestError(c) ==
  /\ \/ request[c].pc \in {"redis", "backfill"} /\ ~redisUp
     \/ request[c].pc = "postgres" /\ ~pgUp
  /\ Goto(c, "error")
  /\ UNCHANGED <<commentary, cache, warming, redisUp, pgUp, outages, staleFor>>

-----------------------------------------------------------------------------
(* Stores and time                                                          *)

\* Redis goes away and comes back, with what it held or empty.
RedisFails ==
  /\ redisUp /\ outages < MaxOutages
  /\ redisUp' = FALSE /\ outages' = outages + 1
  /\ UNCHANGED <<commentary, cache, warming, request, pgUp, staleFor>>

RedisRecovers ==
  /\ ~redisUp
  /\ redisUp' = TRUE
  /\ \/ cache' = [m \in Match |-> NoEntry] /\ staleFor' = [m \in Match |-> 0]
     \/ UNCHANGED <<cache, staleFor>>
  /\ UNCHANGED <<commentary, warming, request, pgUp, outages>>

PostgresFails ==
  /\ pgUp /\ outages < MaxOutages
  /\ pgUp' = FALSE /\ outages' = outages + 1
  /\ UNCHANGED <<commentary, cache, warming, request, redisUp, staleFor>>

PostgresRecovers ==
  /\ ~pgUp /\ pgUp' = TRUE
  /\ UNCHANGED <<commentary, cache, warming, request, redisUp, outages, staleFor>>

\* Entries expire whether or not anybody reads them.
Tick ==
  /\ \A c \in Client : Ended(c)
  /\ \A m \in Match : warming[m] = {}
  /\ cache' = [m \in Match |-> IF cache[m].ttl > 1 THEN [cache[m] EXCEPT !.ttl = @ - 1]
                               ELSE NoEntry]
  /\ staleFor' = [m \in Match |->
       IF cache'[m].text # 0 /\ cache'[m].text # commentary[m] THEN staleFor[m] + 1 ELSE 0]
  /\ UNCHANGED <<commentary, warming, request, redisUp, pgUp, outages>>

-----------------------------------------------------------------------------
Init ==
  /\ commentary = [m \in Match |-> 0]
  /\ cache = [m \in Match |-> NoEntry]
  /\ warming = [m \in Match |-> {}]
  /\ request \in [Client -> [pc : {"idle"}, match : Match, text : {0}, known : {0}]]
  /\ redisUp = TRUE /\ pgUp = TRUE
  /\ outages = 0
  /\ staleFor = [m \in Match |-> 0]

Next ==
  \/ \E m \in Match : StoreCommentary(m) \/ WarmCache(m)
  \/ \E c \in Client : \/ \E m \in Match : Get(c, m)
                       \/ ReadRedis(c) \/ ReadPostgres(c) \/ Backfill(c) \/ RequestError(c)
  \/ RedisFails \/ RedisRecovers \/ PostgresFails \/ PostgresRecovers \/ Tick

Spec == Init /\ [][Next]_vars

-----------------------------------------------------------------------------
(* Properties                                                               *)

\* Type invariant.
TypeOK ==
  /\ commentary \in [Match -> 0..MaxTexts]
  /\ cache \in [Match -> Entry]
  /\ warming \in [Match -> SUBSET (1..MaxTexts)]
  /\ request \in [Client -> RequestState]
  /\ redisUp \in BOOLEAN /\ pgUp \in BOOLEAN
  /\ outages \in 0..MaxOutages
  /\ staleFor \in [Match -> Nat]

\* api-spec.md: an entry outlives at most one cycle.  Whatever reads, backfills
\* and failed warms interleave, a superseded preview is gone within one TTL.
StaleWithinCycle == \A m \in Match : staleFor[m] < Ttl

\* A preview that was committed when a request began is never answered with 404.
NotFoundIsHonest ==
  \A c \in Client : request[c].pc = "not_found" => request[c].known = 0

\* What a request answers is a preview committed for that fixture, from whichever
\* store it came; a miss is never served.
AnswersCommitted ==
  \A c \in Client : request[c].pc = "ok" =>
    request[c].text \in 1..commentary[request[c].match]

-----------------------------------------------------------------------------
(* The inductive invariant behind these properties                          *)

\* Texts come from the commentary table alone, and numbers only grow.
TextsCommitted ==
  /\ \A m \in Match : /\ cache[m].text <= commentary[m]
                      /\ \A text \in warming[m] : text <= commentary[m]
  /\ \A c \in Client :
       /\ request[c].known <= commentary[request[c].match]
       /\ request[c].pc = "not_found" => request[c].known = 0
       /\ request[c].pc \in {"backfill", "ok"} =>
            request[c].text \in 1..commentary[request[c].match]

\* An entry that has been stale for k ticks has at most Ttl - k left: only a
\* write starts its time again, and then nothing stale was there before.
StaleUsesUpTtl ==
  /\ \A m \in Match :
       /\ cache[m].text # 0 => cache[m].ttl > 0 /\ staleFor[m] + cache[m].ttl <= Ttl
       /\ cache[m].text = 0 => staleFor[m] = 0
  /\ \A c \in Client : request[c].pc \in {"postgres", "backfill"} =>
       staleFor[request[c].match] = 0

IInv == TypeOK /\ TextsCommitted /\ StaleUsesUpTtl

-----------------------------------------------------------------------------
(* What the documents say, and the runs refute                              *)

\* api-spec.md: "the read path below already survives Redis being down": with
\* Postgres up and a preview committed, the request does not fail.
SurvivesRedisDown ==
  [][\A c \in Client : RequestError(c) => ~pgUp \/ request[c].known = 0]_vars
=============================================================================
