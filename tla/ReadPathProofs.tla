--------------------------- MODULE ReadPathProofs ---------------------------
(***************************************************************************)
(* Theorems about ReadPath, for every set of fixtures and requests, every   *)
(* lifetime of an entry and any number of previews and outages.             *)
(***************************************************************************)
EXTENDS ReadPath, TLAPS

\* What Put writes is an entry, and so is a missing key.
LEMMA EntryType == NoEntry \in Entry /\ \A text \in Nat : [text |-> text, ttl |-> Ttl] \in Entry
BY TtlAssumption DEF NoEntry, Entry

\* Both stores start empty and no request is under way.
LEMMA InitInv == Init => IInv
<1> SUFFICES ASSUME Init PROVE IInv
  OBVIOUS
<1>1. TypeOK
  BY EntryType, BoundAssumption DEF Init, TypeOK, RequestState
<1>2. TextsCommitted
  BY DEF Init, TextsCommitted, NoEntry
<1>3. StaleUsesUpTtl
  BY DEF Init, StaleUsesUpTtl, NoEntry
<1>4. QED
  BY <1>1, <1>2, <1>3 DEF IInv

\* A committed preview changes no cached one, and numbers only grow.
LEMMA StoreStep ==
  ASSUME IInv, NEW m \in Match, StoreCommentary(m) PROVE IInv'
<1> USE BoundAssumption, TtlAssumption
<1>1. TypeOK'
  BY DEF IInv, TypeOK, StoreCommentary
<1>2. \A n \in Match : commentary[n] <= commentary'[n]
  BY DEF IInv, TypeOK, StoreCommentary
<1>3. TextsCommitted'
  <2>1. ASSUME NEW n \in Match
        PROVE /\ cache'[n].text <= commentary'[n]
              /\ \A text \in warming'[n] : text <= commentary'[n]
    <3>1. /\ cache' = cache /\ cache[n].text \in Nat /\ cache[n].text <= commentary[n]
          /\ commentary[n] \in Nat /\ commentary'[n] \in Nat /\ commentary[n] <= commentary'[n]
          /\ \A text \in warming[n] : text \in Nat /\ text <= commentary[n]
      BY <1>1, <1>2 DEF IInv, TypeOK, TextsCommitted, StoreCommentary, Entry
    <3>2. \A text \in warming'[n] : text \in warming[n] \/ text = commentary'[n]
      BY DEF IInv, TypeOK, StoreCommentary
    <3>3. QED
      BY <3>1, <3>2
  <2>2. ASSUME NEW c \in Client
        PROVE /\ request'[c].known <= commentary'[request'[c].match]
              /\ request'[c].pc = "not_found" => request'[c].known = 0
              /\ request'[c].pc \in {"backfill", "ok"} =>
                   request'[c].text \in 1..commentary'[request'[c].match]
    <3>1. request' = request /\ request[c] \in RequestState
      BY DEF IInv, TypeOK, StoreCommentary
    <3>2. commentary[request[c].match] <= commentary'[request[c].match]
      BY <1>2, <3>1 DEF RequestState
    <3>3. QED
      BY <1>1, <3>1, <3>2 DEF IInv, TypeOK, TextsCommitted, RequestState
  <2>3. QED
    BY <2>1, <2>2 DEF TextsCommitted
<1>4. StaleUsesUpTtl'
  BY DEF IInv, StaleUsesUpTtl, StoreCommentary
<1>5. QED
  BY <1>1, <1>3, <1>4 DEF IInv

\* A warm writes a committed preview with a full lifetime, and ends staleness.
LEMMA WarmStep ==
  ASSUME IInv, NEW m \in Match, WarmCache(m) PROVE IInv'
<1> USE BoundAssumption, TtlAssumption, EntryType
<1>1. TypeOK'
  BY DEF IInv, TypeOK, WarmCache, Put
<1>2. TextsCommitted'
  BY DEF IInv, TypeOK, TextsCommitted, WarmCache, Put, Entry
<1>3. StaleUsesUpTtl'
  BY DEF IInv, TypeOK, StaleUsesUpTtl, WarmCache, Put, Entry, RequestState
<1>4. QED
  BY <1>1, <1>2, <1>3 DEF IInv

\* A request's own steps, the backfill apart, write nothing: what it read was
\* committed, and on its way past Redis no stale entry is left behind it.
LEMMA RequestStep ==
  ASSUME IInv, NEW c \in Client,
         (\E m \in Match : Get(c, m)) \/ ReadRedis(c) \/ ReadPostgres(c) \/ RequestError(c)
  PROVE  IInv'
<1> USE BoundAssumption, TtlAssumption
<1>1. UNCHANGED <<commentary, cache, warming, redisUp, pgUp, outages, staleFor>>
  BY DEF Get, ReadRedis, ReadPostgres, RequestError
<1> DEFINE Stepped ==
      /\ request' = [request EXCEPT ![c] = request'[c]]
      /\ request'[c] \in RequestState
      /\ request'[c].known <= commentary[request'[c].match]
      /\ request'[c].pc = "not_found" => request'[c].known = 0
      /\ request'[c].pc \in {"backfill", "ok"} =>
           request'[c].text \in 1..commentary[request'[c].match]
      /\ request'[c].pc \in {"postgres", "backfill"} => staleFor[request'[c].match] = 0
<1>2. Stepped
  <2>1. /\ request \in [Client -> RequestState]
        /\ commentary \in [Match -> Nat] /\ \A m \in Match : cache[m].text \in Nat
    BY DEF IInv, TypeOK, Entry
  <2>2. ASSUME NEW m \in Match, Get(c, m) PROVE Stepped
    BY <2>1, <2>2 DEF Get, RequestState
  <2>3. CASE ReadRedis(c)
    BY <2>1, <2>3 DEF IInv, TextsCommitted, StaleUsesUpTtl, ReadRedis, Goto, RequestState
  <2>4. CASE ReadPostgres(c)
    <3> DEFINE m == request[c].match
               text == commentary[m]
    <3>1. /\ m \in Match /\ text \in Nat /\ staleFor[m] = 0
          /\ request[c] \in RequestState /\ request[c].known <= text
      BY <2>1, <2>4 DEF IInv, TextsCommitted, StaleUsesUpTtl, ReadPostgres, RequestState
    <3>2. request' = [request EXCEPT
            ![c].pc = IF text = 0 THEN "not_found" ELSE "backfill", ![c].text = text]
      BY <2>4 DEF ReadPostgres
    <3>3. /\ request'[c].match = m /\ request'[c].known = request[c].known
          /\ request'[c].text = text /\ request'[c] \in RequestState
          /\ request'[c].pc = IF text = 0 THEN "not_found" ELSE "backfill"
      BY <2>1, <3>1, <3>2 DEF RequestState
    <3>4. request' = [request EXCEPT ![c] = request'[c]]
      BY <2>1, <3>2
    <3>5. /\ text = 0 => request[c].known = 0
          /\ text # 0 => text \in 1..text
      BY <3>1 DEF RequestState
    <3>6. QED
      BY <3>1, <3>3, <3>4, <3>5
  <2>5. CASE RequestError(c)
    BY <2>1, <2>5 DEF IInv, TextsCommitted, RequestError, Goto, RequestState
  <2>6. QED
    BY <2>2, <2>3, <2>4, <2>5
<1>3. \A d \in Client : d # c => request'[d] = request[d]
  BY <1>2 DEF IInv, TypeOK
<1>4. TypeOK'
  BY <1>1, <1>2 DEF IInv, TypeOK
<1>5. TextsCommitted'
  BY <1>1, <1>2, <1>3 DEF IInv, TextsCommitted
<1>6. StaleUsesUpTtl'
  BY <1>1, <1>2, <1>3 DEF IInv, StaleUsesUpTtl
<1>7. QED
  BY <1>4, <1>5, <1>6 DEF IInv

\* The backfill may write a preview that was superseded meanwhile, but it was
\* committed and it has not been stale for a single tick.
LEMMA BackfillStep ==
  ASSUME IInv, NEW c \in Client, Backfill(c) PROVE IInv'
<1> USE BoundAssumption, TtlAssumption, EntryType
<1> DEFINE m == request[c].match
<1>1. /\ m \in Match /\ request[c].text \in 1..commentary[m] /\ staleFor[m] = 0
      /\ request[c] \in RequestState /\ commentary[m] \in Nat
  BY DEF IInv, TypeOK, TextsCommitted, StaleUsesUpTtl, Backfill, RequestState
<1>2. /\ cache' = [cache EXCEPT ![m] = [text |-> request[c].text, ttl |-> Ttl]]
      /\ request' = [request EXCEPT ![c].pc = "ok"]
      /\ UNCHANGED <<commentary, warming, redisUp, pgUp, outages, staleFor>>
  BY DEF Backfill, Put, Goto
<1>3. TypeOK'
  BY <1>1, <1>2 DEF IInv, TypeOK, RequestState
<1>4. TextsCommitted'
  BY <1>1, <1>2 DEF IInv, TypeOK, TextsCommitted, RequestState, Entry
<1>5. StaleUsesUpTtl'
  BY <1>1, <1>2 DEF IInv, TypeOK, StaleUsesUpTtl, RequestState, Entry
<1>6. QED
  BY <1>3, <1>4, <1>5 DEF IInv

\* An outage changes no row; Redis comes back with its entries or without any.
LEMMA OutageStep ==
  ASSUME IInv, RedisFails \/ RedisRecovers \/ PostgresFails \/ PostgresRecovers
  PROVE  IInv'
<1> USE BoundAssumption, TtlAssumption, EntryType
<1>1. UNCHANGED <<commentary, warming, request>>
  BY DEF RedisFails, RedisRecovers, PostgresFails, PostgresRecovers
<1>2. \/ UNCHANGED <<cache, staleFor>>
      \/ cache' = [m \in Match |-> NoEntry] /\ staleFor' = [m \in Match |-> 0]
  BY DEF RedisFails, RedisRecovers, PostgresFails, PostgresRecovers
<1>3. TypeOK'
  <2>1. redisUp' \in BOOLEAN /\ pgUp' \in BOOLEAN /\ outages' \in 0..MaxOutages
    <3>1. /\ redisUp \in BOOLEAN /\ pgUp \in BOOLEAN /\ outages \in 0..MaxOutages
      BY DEF IInv, TypeOK
    <3>2. CASE RedisFails
      <4>1. outages' \in 0..MaxOutages
        BY <3>1, <3>2 DEF RedisFails
      <4>2. QED
        BY <3>1, <3>2, <4>1, Zenon DEF RedisFails
    <3>3. CASE PostgresFails
      <4>1. outages' \in 0..MaxOutages
        BY <3>1, <3>3 DEF PostgresFails
      <4>2. QED
        BY <3>1, <3>3, <4>1, Zenon DEF PostgresFails
    <3>4. CASE RedisRecovers
      BY <3>1, <3>4, Zenon DEF RedisRecovers
    <3>5. CASE PostgresRecovers
      BY <3>1, <3>5, Zenon DEF PostgresRecovers
    <3>6. QED
      BY <3>2, <3>3, <3>4, <3>5
  <2>2. cache' \in [Match -> Entry] /\ staleFor' \in [Match -> Nat]
    BY <1>2 DEF IInv, TypeOK
  <2>3. QED
    BY <1>1, <2>1, <2>2 DEF IInv, TypeOK
<1>4. TextsCommitted'
  BY <1>1, <1>2 DEF IInv, TypeOK, TextsCommitted, NoEntry
<1>5. StaleUsesUpTtl'
  BY <1>1, <1>2 DEF IInv, TypeOK, StaleUsesUpTtl, NoEntry, RequestState
<1>6. QED
  BY <1>3, <1>4, <1>5 DEF IInv

\* A tick takes one from what an entry has left and adds at most one to what it
\* has been stale for.
LEMMA TickStep ==
  ASSUME IInv, Tick PROVE IInv'
<1> USE BoundAssumption, TtlAssumption, EntryType
<1>1. UNCHANGED <<commentary, warming, request, redisUp, pgUp, outages>>
  BY DEF Tick
<1>2. ASSUME NEW m \in Match
      PROVE /\ cache'[m] \in Entry
            /\ cache'[m].text <= commentary[m]
            /\ staleFor'[m] \in Nat
            /\ cache'[m].text # 0 => cache'[m].ttl > 0 /\ staleFor'[m] + cache'[m].ttl <= Ttl
            /\ cache'[m].text = 0 => staleFor'[m] = 0
  <2>1. /\ cache[m] \in Entry /\ commentary[m] \in Nat /\ staleFor[m] \in Nat
        /\ cache[m].text <= commentary[m]
        /\ cache[m].text # 0 => cache[m].ttl > 0 /\ staleFor[m] + cache[m].ttl <= Ttl
        /\ cache[m].text = 0 => staleFor[m] = 0
    BY DEF IInv, TypeOK, TextsCommitted, StaleUsesUpTtl
  <2>2. cache'[m] = IF cache[m].ttl > 1 THEN [cache[m] EXCEPT !.ttl = @ - 1] ELSE NoEntry
    BY DEF Tick
  <2>3. staleFor'[m] = IF cache'[m].text # 0 /\ cache'[m].text # commentary[m]
                       THEN staleFor[m] + 1 ELSE 0
    BY DEF Tick
  <2>4. CASE cache[m].ttl > 1
    BY <2>1, <2>2, <2>3, <2>4 DEF Entry
  <2>5. CASE ~(cache[m].ttl > 1)
    BY <2>1, <2>2, <2>3, <2>5 DEF NoEntry, Entry
  <2>6. QED
    BY <2>4, <2>5
<1>3. TypeOK'
  <2>1. cache' \in [Match -> Entry] /\ staleFor' \in [Match -> Nat]
    BY <1>2 DEF Tick
  <2>2. QED
    BY <1>1, <2>1 DEF IInv, TypeOK
<1>4. TextsCommitted'
  BY <1>1, <1>2 DEF IInv, TextsCommitted
<1>5. StaleUsesUpTtl'
  BY <1>1, <1>2 DEF StaleUsesUpTtl, Tick, Ended
<1>6. QED
  BY <1>3, <1>4, <1>5 DEF IInv

\* Every step keeps the invariant.
LEMMA NextInv == IInv /\ [Next]_vars => IInv'
<1> SUFFICES ASSUME IInv, [Next]_vars PROVE IInv'
  OBVIOUS
<1>1. CASE UNCHANGED vars
  BY <1>1 DEF IInv, TypeOK, TextsCommitted, StaleUsesUpTtl, vars
<1>2. CASE Next
  BY <1>2, StoreStep, WarmStep, RequestStep, BackfillStep, OutageStep, TickStep DEF Next
<1>3. QED
  BY <1>1, <1>2

\* The invariant of the read path: types, texts that are in Postgres, and
\* entries whose staleness and remaining time add up to one lifetime at most.
THEOREM InvariantHolds == Spec => []IInv
BY InitInv, NextInv, PTL DEF Spec

\* Every variable of ReadPath keeps its type; a cached entry never
\* has more than CACHE_TTL_SECONDS left (asyncprediction, process_job).
THEOREM TypeCorrect == Spec => []TypeOK
<1>1. IInv => TypeOK
  BY DEF IInv
<1>2. QED
  BY <1>1, InvariantHolds, PTL

\* api-spec.md's bound on stale answers: a superseded preview has left the cache
\* one lifetime later, though asyncprediction may write it back after the warm.
THEOREM StalenessBounded == Spec => []StaleWithinCycle
<1>1. IInv => StaleWithinCycle
  <2> SUFFICES ASSUME IInv, NEW m \in Match PROVE staleFor[m] < Ttl
    BY DEF StaleWithinCycle
  <2>1. staleFor[m] \in Nat /\ cache[m].ttl \in Nat /\ Ttl \in Nat \ {0}
    BY TtlAssumption DEF IInv, TypeOK, Entry
  <2>2. QED
    BY <2>1 DEF IInv, StaleUsesUpTtl
<1>2. QED
  BY <1>1, InvariantHolds, PTL

\* asyncprediction answers 404 only for a fixture without a committed preview.
THEOREM HonestNotFound == Spec => []NotFoundIsHonest
<1>1. IInv => NotFoundIsHonest
  BY DEF IInv, TextsCommitted, NotFoundIsHonest
<1>2. QED
  BY <1>1, InvariantHolds, PTL

\* asyncprediction serves nothing that was not committed for that fixture.
THEOREM ServesCommitted == Spec => []AnswersCommitted
<1>1. IInv => AnswersCommitted
  BY DEF IInv, TextsCommitted, AnswersCommitted
<1>2. QED
  BY <1>1, InvariantHolds, PTL
=============================================================================
