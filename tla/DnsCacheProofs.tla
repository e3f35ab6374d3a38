---------------------------- MODULE DnsCacheProofs ----------------------------
(***************************************************************************)
(* Proofs about DnsCache for every set of names, any number of requests,   *)
(* every cache capacity and any number of faults, flushes and changes.     *)
(***************************************************************************)
EXTENDS DnsCache, FiniteSetTheorems, TLAPS

------------------------------------------------------------------------------
(* Types.                                                                    *)

LEMMA AnyKeyType == AnyKey \in Keys
  <1>1. PICK n \in Names, d \in DnssecFlags : TRUE
    BY KeysAssumption
  <1>2. <<n, d>> \in Keys
    BY DEF Keys
  <1> QED
    BY <1>2 DEF AnyKey

LEMMA KeysFinite == IsFiniteSet(Keys)
  <1>1. IsFiniteSet({TRUE} \cup {FALSE})
    BY FS_Singleton, FS_AddElement
  <1>2. DnssecFlags \in SUBSET ({TRUE} \cup {FALSE})
    BY KeysAssumption
  <1>3. IsFiniteSet(DnssecFlags)
    BY <1>1, <1>2, FS_Subset
  <1> QED
    BY <1>3, KeysAssumption, FS_Product DEF Keys

LEMMA OffType == Off \in Fetch /\ Off.pc = "off"
  BY AnyKeyType DEF Off, Fetch, FetchPCs, NoAnswer, Answer

LEMMA FetcherTypes ==
    /\ \A q \in Queries : <<q, "miss">> \in Fetchers /\ <<q, "refresh">> \in Fetchers
    /\ updater \in Fetchers
  BY DEF Fetchers, updater

LEMMA InitType == Init => TypeOK
  <1> SUFFICES ASSUME Init PROVE TypeOK
    OBVIOUS
  <1>1. fetch \in [Fetchers -> Fetch]
    BY OffType DEF Init
  <1>2. query \in [Queries -> [pc : QueryPCs, key : Keys]]
    BY AnyKeyType DEF Init, QueryPCs
  <1>3. replies \in [Queries -> Seq(Replies)]
    BY DEF Init
  <1> QED
    BY <1>1, <1>2, <1>3 DEF Init, TypeOK

\* What a step of the cache does to the types.
LEMMA PutType ==
    ASSUME TypeOK, NEW k \in Keys, NEW d \in CacheData, Put(k, d)
    PROVE  cache' \in [Keys -> CacheData \cup {NoData}]
  BY DEF Put, TypeOK

LEMMA ReturnType ==
    ASSUME TypeOK, NEW f \in Fetchers, Return(f)
    PROVE  /\ fetch' \in [Fetchers -> Fetch]
           /\ query' \in [Queries -> [pc : QueryPCs, key : Keys]]
  BY OffType DEF Return, TypeOK, QueryPCs

LEMMA StartFetchType ==
    ASSUME TypeOK, NEW f \in Fetchers, NEW k \in Keys, StartFetch(f, k)
    PROVE  fetch' \in [Fetchers -> Fetch]
  <1>1. [pc |-> "insert", key |-> k, answer |-> NoAnswer] \in Fetch
    BY DEF Fetch, FetchPCs, NoAnswer, Answer
  <1> QED
    BY <1>1 DEF StartFetch, TypeOK

LEMMA FetchStepType ==
    ASSUME TypeOK, NEW f \in Fetchers, FetchStep(f)
    PROVE  TypeOK'
  <1>1. fetch[f] \in Fetch /\ fetch[f].key \in Keys /\ fetch[f].answer \in Answer
    BY DEF TypeOK, Fetch
  <1>2. ASSUME insert_marker(f) PROVE TypeOK'
    <2>1. fetch' \in [Fetchers -> Fetch]
      BY <1>1, <1>2 DEF insert_marker, TypeOK, Fetch, FetchPCs
    <2> QED
      BY <1>1, <1>2, <2>1
      DEF insert_marker, TypeOK, queryVars, flushVars, historyVars
  <1>3. ASSUME NEW s \in BOOLEAN, upstream_answers(f, s) PROVE TypeOK'
    <2>1. fetch[f].key[1] \in Names
      BY <1>1 DEF Keys
    <2>2. [version |-> upstream[fetch[f].key[1]], servfail |-> s] \in Answer
      BY <2>1 DEF TypeOK, Answer
    <2>3. fetch' \in [Fetchers -> Fetch]
      BY <1>1, <1>3, <2>2 DEF upstream_answers, TypeOK, Fetch, FetchPCs
    <2>4. faults' \in Nat
      BY <1>3 DEF upstream_answers, Fault, TypeOK
    <2> QED
      BY <1>3, <2>3, <2>4
      DEF upstream_answers, TypeOK, queryVars, flushVars, historyVars
  <1>4. ASSUME upstream_error(f) PROVE TypeOK'
    <2>1. Return(f) /\ faults' \in Nat
      BY <1>4 DEF upstream_error, Fault, TypeOK
    <2>2. /\ fetch' \in [Fetchers -> Fetch]
          /\ query' \in [Queries -> [pc : QueryPCs, key : Keys]]
      BY <2>1, ReturnType
    <2> QED
      BY <1>4, <2>1, <2>2 DEF upstream_error, TypeOK, flushVars, historyVars
  <1>5. ASSUME cache_put(f) PROVE TypeOK'
    <2> DEFINE k == fetch[f].key
               a == fetch[f].answer
               d == [version |-> a.version, servfail |-> a.servfail, age |-> "fresh"]
    <2>1. d \in CacheData
      BY <1>1 DEF Answer, CacheData, Ages
    <2>2. fetch' \in [Fetchers -> Fetch]
      BY <1>1, <1>5 DEF cache_put, TypeOK, Fetch, FetchPCs
    <2>3. Put(k, d) \/ UNCHANGED cache
      BY <1>5 DEF cache_put
    <2>4. cache' \in [Keys -> CacheData \cup {NoData}]
      <3>1. CASE Put(k, d)
        BY <1>1, <2>1, <3>1, PutType
      <3>2. CASE UNCHANGED cache
        BY <3>2 DEF TypeOK
      <3> QED
        BY <2>3, <3>1, <3>2
    <2>5. /\ overtaken' \subseteq Keys
          /\ during' \in [Keys -> SUBSET Fetchers]
      <3>1. Misses(k) \ {f} \in SUBSET Fetchers
        BY DEF Misses
      <3>2. \/ overtaken' = overtaken \cup {k}
            \/ overtaken' = overtaken \ {k}
            \/ overtaken' = overtaken
        BY <1>5 DEF cache_put
      <3>3. during' = [during EXCEPT ![k] = Misses(k) \ {f}] \/ during' = during
        BY <1>5 DEF cache_put
      <3>4. overtaken' \subseteq Keys
        BY <1>1, <3>2 DEF TypeOK
      <3>5. during' \in [Keys -> SUBSET Fetchers]
        BY <1>1, <3>1, <3>3 DEF TypeOK
      <3> QED
        BY <3>4, <3>5
    <2> QED
      BY <1>5, <2>2, <2>4, <2>5 DEF cache_put, TypeOK, queryVars, flushVars
  <1>6. ASSUME remove_marker(f) PROVE TypeOK'
    <2>1. /\ fetch' \in [Fetchers -> Fetch]
          /\ query' \in [Queries -> [pc : QueryPCs, key : Keys]]
      BY <1>6, ReturnType DEF remove_marker
    <2> QED
      BY <1>6, <2>1 DEF remove_marker, TypeOK, flushVars, historyVars
  <1> QED
    BY <1>2, <1>3, <1>4, <1>5, <1>6 DEF FetchStep, LocalFetchStep

LEMMA GotoType ==
    ASSUME TypeOK, NEW q \in Queries, NEW pc \in QueryPCs, Goto(q, pc)
    PROVE  query' \in [Queries -> [pc : QueryPCs, key : Keys]]
  BY DEF Goto, TypeOK

LEMMA ReplyType ==
    ASSUME TypeOK, NEW q \in Queries, NEW r \in Replies, Reply(q, r)
    PROVE  replies' \in [Queries -> Seq(Replies)]
  BY DEF Reply, TypeOK

LEMMA QueryStepType ==
    ASSUME TypeOK, NEW q \in Queries,
           ReceiveRequest(q) \/ LookupStep(q) \/ TimerStep(q) \/ ForwardStep(q)
    PROVE  TypeOK'
  <1>1. query[q].key \in Keys
    BY DEF TypeOK
  <1>2. ASSUME NEW k \in Keys, receive_query(q, k) PROVE TypeOK'
    <2>1. query' \in [Queries -> [pc : QueryPCs, key : Keys]]
      BY <1>2 DEF receive_query, TypeOK, QueryPCs
    <2> QED
      BY <1>2, <2>1 DEF receive_query, TypeOK, flushVars, historyVars
  <1>3. ASSUME reject_request(q) PROVE TypeOK'
    <2>1. query' \in [Queries -> [pc : QueryPCs, key : Keys]]
      BY <1>3, GotoType DEF reject_request, QueryPCs
    <2>2. replies' \in [Queries -> Seq(Replies)]
      BY <1>3, ReplyType DEF reject_request, Replies
    <2> QED
      BY <1>3, <2>1, <2>2 DEF reject_request, TypeOK, flushVars, historyVars
  <1>4. ASSUME NEW pc \in {"update", "axfr"}, forward_request(q, pc) PROVE TypeOK'
    <2>1. pc \in QueryPCs
      BY DEF QueryPCs
    <2>2. query' \in [Queries -> [pc : QueryPCs, key : Keys]]
      BY <1>4, <2>1, GotoType DEF forward_request
    <2> QED
      BY <1>4, <2>2 DEF forward_request, TypeOK, flushVars, historyVars
  <1>5. ASSUME update_query(q) \/ axfr_query(q) PROVE TypeOK'
    <2>1. query' \in [Queries -> [pc : QueryPCs, key : Keys]]
      <3>1. Goto(q, "done") \/ UNCHANGED query
        BY <1>5 DEF update_query, axfr_query
      <3> QED
        BY <3>1, GotoType DEF QueryPCs, TypeOK
    <2>2. replies' \in [Queries -> Seq(Replies)]
      <3>1. Reply(q, "answer") \/ Reply(q, "error") \/ Reply(q, "frame") \/ UNCHANGED replies
        BY <1>5 DEF update_query, axfr_query
      <3> QED
        BY <3>1, ReplyType DEF Replies, TypeOK
    <2>3. faults' \in Nat
      BY <1>5 DEF update_query, axfr_query, Fault, TypeOK
    <2> QED
      BY <1>5, <2>1, <2>2, <2>3
      DEF update_query, axfr_query, TypeOK, flushVars, historyVars
  <1>6. ASSUME await_in_flight(q) PROVE TypeOK'
    <2>1. query' \in [Queries -> [pc : QueryPCs, key : Keys]]
      BY <1>6, GotoType DEF await_in_flight, QueryPCs
    <2> QED
      BY <1>6, <2>1 DEF await_in_flight, TypeOK, flushVars, historyVars
  <1>7. ASSUME cache_get(q) PROVE TypeOK'
    <2>1. query' \in [Queries -> [pc : QueryPCs, key : Keys]]
      <3>1. Goto(q, "respond") \/ Goto(q, "fetch")
        BY <1>7 DEF cache_get
      <3> QED
        BY <3>1, GotoType DEF QueryPCs
    <2>2. fetch' \in [Fetchers -> Fetch]
      <3>1. \/ UNCHANGED fetch
            \/ StartFetch(<<q, "refresh">>, query[q].key)
            \/ StartFetch(<<q, "miss">>, query[q].key)
        BY <1>7 DEF cache_get
      <3>2. CASE UNCHANGED fetch
        BY <3>2 DEF TypeOK
      <3>3. CASE StartFetch(<<q, "refresh">>, query[q].key)
        BY <1>1, <3>3, FetcherTypes, StartFetchType
      <3>4. CASE StartFetch(<<q, "miss">>, query[q].key)
        BY <1>1, <3>4, FetcherTypes, StartFetchType
      <3> QED
        BY <3>1, <3>2, <3>3, <3>4
    <2> QED
      BY <1>7, <2>1, <2>2 DEF cache_get, TypeOK, flushVars, historyVars
  <1>8. ASSUME respond(q) PROVE TypeOK'
    <2>1. query' \in [Queries -> [pc : QueryPCs, key : Keys]]
      BY <1>8, GotoType DEF respond, QueryPCs
    <2>2. replies' \in [Queries -> Seq(Replies)]
      BY <1>8, ReplyType DEF respond, Replies
    <2> QED
      BY <1>8, <2>1, <2>2 DEF respond, TypeOK, flushVars, historyVars
  <1>9. ASSUME timer_fires(q) PROVE TypeOK'
    BY <1>9 DEF timer_fires, TypeOK, flushVars, historyVars
  <1>10. ASSUME respond_timeout(q) PROVE TypeOK'
    <2>1. replies' \in [Queries -> Seq(Replies)]
      BY <1>10, ReplyType DEF respond_timeout, Replies
    <2> QED
      BY <1>10, <2>1 DEF respond_timeout, TypeOK, flushVars, historyVars
  <1> QED
    BY <1>2, <1>3, <1>4, <1>5, <1>6, <1>7, <1>8, <1>9, <1>10
    DEF ReceiveRequest, LookupStep, TimerStep, ForwardStep

LEMMA BackgroundStepType ==
    ASSUME TypeOK, UpdaterStep \/ FlushStep
    PROVE  TypeOK'
  <1>1. ASSUME collect_expired PROVE TypeOK'
    BY <1>1 DEF collect_expired, TypeOK, queryVars, flushVars, historyVars
  <1>2. ASSUME NEW k \in Keys, update_next(k) PROVE TypeOK'
    <2>1. fetch' \in [Fetchers -> Fetch]
      BY <1>2, FetcherTypes, StartFetchType DEF update_next
    <2> QED
      BY <1>2, <2>1 DEF update_next, TypeOK, queryVars, flushVars, historyVars
  <1>3. ASSUME NEW n \in Names, receive_flush(n) PROVE TypeOK'
    BY <1>3 DEF receive_flush, TypeOK, queryVars, historyVars
  <1>4. ASSUME NEW k \in Keys, cache_pop(k) PROVE TypeOK'
    <2>1. k[1] \in Names
      BY DEF Keys
    <2>2. late' \subseteq Fetchers /\ overtaken' \subseteq Keys
      BY <1>4 DEF cache_pop, TypeOK
    <2>3. cleared' \in [Keys -> Nat] /\ clearing' \in [Keys -> Nat]
      BY <1>4, <2>1 DEF cache_pop, TypeOK
    <2>4. cache' \in [Keys -> CacheData \cup {NoData}]
      BY <1>4 DEF cache_pop, TypeOK
    <2> QED
      BY <1>4, <2>2, <2>3, <2>4 DEF cache_pop, TypeOK, queryVars
  <1>5. ASSUME listener_disconnects \/ listener_reconnects PROVE TypeOK'
    <2>1. faults' \in Nat
      BY <1>5 DEF listener_disconnects, listener_reconnects, Fault, TypeOK
    <2> QED
      BY <1>5, <2>1
      DEF listener_disconnects, listener_reconnects, TypeOK, queryVars, historyVars
  <1> QED
    BY <1>1, <1>2, <1>3, <1>4, <1>5 DEF UpdaterStep, FlushStep

LEMMA ExpireAge ==
    ASSUME TypeOK, NEW k \in Keys, expire(k)
    PROVE  \E a \in {"stale", "hard"} :
              /\ cache[k] \in CacheData
              /\ a = "stale" => cache[k].age = "fresh"
              /\ cache' = [cache EXCEPT ![k].age = a]
  BY DEF expire, TypeOK, NoData

LEMMA WorldStepType ==
    ASSUME TypeOK,
           \/ \E n \in Names : upstream_changes(n) \/ publish_flush(n)
           \/ \E k \in Keys : expire(k)
    PROVE  TypeOK'
  <1>1. ASSUME NEW n \in Names, upstream_changes(n) PROVE TypeOK'
    BY <1>1 DEF upstream_changes, TypeOK, queryVars, flushVars, historyVars
  <1>2. ASSUME NEW n \in Names, publish_flush(n) PROVE TypeOK'
    <2>1. flushes' \in [Names -> Nat]
      BY <1>2 DEF publish_flush, TypeOK
    <2> QED
      BY <1>2, <2>1 DEF publish_flush, TypeOK, queryVars, historyVars
  <1>3. ASSUME NEW k \in Keys, expire(k) PROVE TypeOK'
    <2>1. PICK a \in {"stale", "hard"} :
            cache[k] \in CacheData /\ cache' = [cache EXCEPT ![k].age = a]
      BY <1>3, ExpireAge
    <2>2. [cache[k] EXCEPT !.age = a] \in CacheData
      BY <2>1 DEF CacheData, Ages
    <2>3. cache' \in [Keys -> CacheData \cup {NoData}]
      BY <2>1, <2>2 DEF TypeOK
    <2> QED
      BY <1>3, <2>3 DEF expire, TypeOK, queryVars, flushVars, historyVars
  <1> QED
    BY <1>1, <1>2, <1>3

LEMMA NextType == TypeOK /\ [Next]_vars => TypeOK'
  <1>1. TypeOK /\ UNCHANGED vars => TypeOK'
    BY DEF vars, TypeOK
  <1> QED
    BY <1>1, FetchStepType, QueryStepType, BackgroundStepType, WorldStepType
    DEF Next

\* Every reachable state is well typed, for every instance.
THEOREM CacheTypeCorrect == Spec => []TypeOK
  <1> QED
    BY InitType, NextType, PTL DEF Spec

------------------------------------------------------------------------------
(* Markers.                                                                  *)

\* The fetches of a request run when its lookup says so: a lookup never starts
\* a fetch over one that is still running.
FetchOwned ==
    \A q \in Queries :
        /\ fetch[<<q, "miss">>].pc # "off" => query[q].pc = "fetch"
        /\ fetch[<<q, "refresh">>].pc # "off" => query[q].pc \in {"respond", "done"}

MarkerInv == TypeOK /\ FetchOwned /\ MarkerHasFetcher

LEMMA InitMarker == Init => MarkerInv
  <1> SUFFICES ASSUME Init PROVE MarkerInv
    OBVIOUS
  <1>1. FetchOwned
    BY FetcherTypes, OffType DEF Init, FetchOwned
  <1> QED
    BY <1>1, InitType DEF Init, MarkerInv, MarkerHasFetcher

\* A step that leaves fetch, markers and lookups alone preserves the invariant.
LEMMA MarkerFrame ==
    ASSUME MarkerInv, TypeOK', UNCHANGED <<in_flight, fetch, query>>
    PROVE  MarkerInv'
  BY DEF MarkerInv, FetchOwned, MarkerHasFetcher

LEMMA FetchStepMarker ==
    ASSUME MarkerInv, NEW f \in Fetchers, FetchStep(f)
    PROVE  MarkerInv'
  <1>1. TypeOK /\ TypeOK'
    BY FetchStepType DEF MarkerInv
  <1>2. fetch[f] \in Fetch /\ fetch \in [Fetchers -> Fetch] /\ fetch[f].key \in Keys
    BY <1>1 DEF TypeOK, Fetch
  <1>3. ASSUME NEW g \in Fetch, g.key = fetch[f].key,
               fetch' = [fetch EXCEPT ![f] = g], fetch[f].pc # "off",
               g.pc \in {"await", "put", "remove"}, UNCHANGED query,
               in_flight' \subseteq in_flight \cup {fetch[f].key}
        PROVE  MarkerInv'
    <2>1. FetchOwned'
      BY <1>2, <1>3, FetcherTypes DEF MarkerInv, FetchOwned
    <2>2. MarkerHasFetcher'
      BY <1>2, <1>3 DEF MarkerInv, MarkerHasFetcher
    <2> QED
      BY <1>1, <2>1, <2>2 DEF MarkerInv
  <1>4. ASSUME in_flight' = in_flight \ {fetch[f].key}, Return(f), fetch[f].pc # "off"
        PROVE  MarkerInv'
    <2>1. fetch' = [fetch EXCEPT ![f] = Off]
      BY <1>4 DEF Return
    <2>2. FetchOwned'
      <3> SUFFICES ASSUME NEW q \in Queries
                   PROVE  /\ fetch'[<<q, "miss">>].pc # "off" => query'[q].pc = "fetch"
                          /\ fetch'[<<q, "refresh">>].pc # "off"
                                 => query'[q].pc \in {"respond", "done"}
        BY DEF FetchOwned
      <3>1. /\ fetch[<<q, "miss">>].pc # "off" => query[q].pc = "fetch"
            /\ fetch[<<q, "refresh">>].pc # "off" => query[q].pc \in {"respond", "done"}
        BY DEF MarkerInv, FetchOwned
      <3>2. CASE f = <<q, "miss">>
        <4>1. fetch'[<<q, "miss">>].pc = "off"
          BY <1>2, <2>1, <3>2, OffType
        <4>2. fetch'[<<q, "refresh">>] = fetch[<<q, "refresh">>]
          BY <1>2, <2>1, <3>2, FetcherTypes
        <4>3. query[q].pc = "fetch"
          BY <1>4, <3>1, <3>2
        <4> QED
          BY <3>1, <4>1, <4>2, <4>3
      <3>3. CASE f # <<q, "miss">>
        <4>1. query'[q] = query[q]
          BY <1>4, <3>3 DEF Return
        <4>2. fetch'[<<q, "miss">>] = fetch[<<q, "miss">>]
          BY <1>2, <2>1, <3>3, FetcherTypes
        <4>3. \/ fetch'[<<q, "refresh">>] = fetch[<<q, "refresh">>]
              \/ fetch'[<<q, "refresh">>] = Off
          BY <1>2, <2>1, FetcherTypes
        <4> QED
          BY <3>1, <4>1, <4>2, <4>3, OffType
      <3> QED
        BY <3>2, <3>3
    <2>3. MarkerHasFetcher'
      BY <1>2, <1>4, <2>1 DEF MarkerInv, MarkerHasFetcher
    <2> QED
      BY <1>1, <2>2, <2>3 DEF MarkerInv
  <1>5. CASE insert_marker(f)
    <2> DEFINE g == [fetch[f] EXCEPT !.pc = "await"]
    <2>1. g \in Fetch /\ g.key = fetch[f].key /\ g.pc = "await"
      BY <1>2 DEF Fetch, FetchPCs
    <2>2. /\ fetch' = [fetch EXCEPT ![f] = g]
          /\ UNCHANGED query /\ in_flight' = in_flight \cup {fetch[f].key}
          /\ fetch[f].pc # "off"
      BY <1>5 DEF insert_marker, queryVars
    <2> HIDE DEF g
    <2> QED
      BY <1>3, <2>1, <2>2
  <1>6. CASE \E s \in BOOLEAN : upstream_answers(f, s)
    <2>1. PICK s \in BOOLEAN : upstream_answers(f, s)
      BY <1>6
    <2> DEFINE g == [pc |-> "put", key |-> fetch[f].key,
                     answer |-> [version |-> upstream[fetch[f].key[1]],
                                 servfail |-> s]]
    <2>2. upstream[fetch[f].key[1]] \in Nat
      BY <1>1, <1>2 DEF TypeOK, Keys
    <2>3. g \in Fetch /\ g.key = fetch[f].key /\ g.pc = "put"
      BY <1>2, <2>2 DEF Fetch, FetchPCs, Answer
    <2>4. /\ fetch' = [fetch EXCEPT ![f] = g]
          /\ UNCHANGED query /\ in_flight' = in_flight
          /\ fetch[f].pc # "off"
      BY <2>1 DEF upstream_answers, queryVars
    <2> HIDE DEF g
    <2> QED
      BY <1>3, <2>3, <2>4
  <1>7. CASE upstream_error(f) \/ remove_marker(f)
    BY <1>4, <1>7 DEF upstream_error, remove_marker
  <1>8. CASE cache_put(f)
    <2> DEFINE g == [fetch[f] EXCEPT !.pc = "remove"]
    <2>1. g \in Fetch /\ g.key = fetch[f].key /\ g.pc = "remove"
      BY <1>2 DEF Fetch, FetchPCs
    <2>2. /\ fetch' = [fetch EXCEPT ![f] = g]
          /\ UNCHANGED query /\ in_flight' = in_flight
          /\ fetch[f].pc # "off"
      BY <1>8 DEF cache_put, queryVars
    <2> HIDE DEF g
    <2> QED
      BY <1>3, <2>1, <2>2
  <1> QED
    BY <1>5, <1>6, <1>7, <1>8 DEF FetchStep, LocalFetchStep

\* Starting a fetch that was off neither adds nor orphans a marker.
LEMMA StartKeepsMarkers ==
    ASSUME MarkerInv, NEW f \in Fetchers, NEW k \in Keys, StartFetch(f, k),
           fetch[f].pc = "off", UNCHANGED in_flight
    PROVE  MarkerHasFetcher'
  BY DEF MarkerInv, TypeOK, StartFetch, MarkerHasFetcher

LEMMA QueryStepMarker ==
    ASSUME MarkerInv, NEW q \in Queries,
           ReceiveRequest(q) \/ LookupStep(q) \/ TimerStep(q) \/ ForwardStep(q)
    PROVE  MarkerInv'
  <1>1. TypeOK /\ TypeOK'
    BY QueryStepType DEF MarkerInv
  <1>2. /\ fetch[<<q, "miss">>].pc # "off" => query[q].pc = "fetch"
        /\ fetch[<<q, "refresh">>].pc # "off" => query[q].pc \in {"respond", "done"}
    BY DEF MarkerInv, FetchOwned
  <1>3. ASSUME NEW pc, query'[q].pc = pc,
               \A p \in Queries \ {q} : query'[p] = query[p],
               UNCHANGED <<fetch, in_flight>>,
               \/ query[q].pc \notin {"fetch", "respond", "done"}
               \/ query[q].pc = "respond" /\ pc = "done"
               \/ pc = query[q].pc
        PROVE  MarkerInv'
    <2>1. FetchOwned'
      BY <1>2, <1>3 DEF MarkerInv, FetchOwned
    <2> QED
      BY <1>1, <1>3, <2>1 DEF MarkerInv, MarkerHasFetcher
  <1>4. ASSUME NEW pc \in QueryPCs, Goto(q, pc)
        PROVE  query'[q].pc = pc /\ \A p \in Queries \ {q} : query'[p] = query[p]
    BY <1>1, <1>4 DEF Goto, TypeOK
  <1>5. CASE \E k \in Keys : receive_query(q, k)
    BY <1>1, <1>3, <1>5 DEF receive_query, TypeOK
  <1>6. CASE reject_request(q)
    BY <1>3, <1>4, <1>6 DEF reject_request, QueryPCs
  <1>7. CASE forward_request(q, "update") \/ forward_request(q, "axfr")
    BY <1>3, <1>4, <1>7 DEF forward_request, QueryPCs
  <1>8. CASE update_query(q) \/ axfr_query(q)
    <2>1. Goto(q, "done") \/ UNCHANGED query
      BY <1>8 DEF update_query, axfr_query
    <2>2. UNCHANGED <<fetch, in_flight>> /\ query[q].pc \in {"update", "axfr"}
      BY <1>8 DEF update_query, axfr_query
    <2> QED
      BY <1>1, <1>3, <1>4, <2>1, <2>2, MarkerFrame DEF QueryPCs
  <1>9. CASE await_in_flight(q)
    BY <1>3, <1>4, <1>9 DEF await_in_flight, QueryPCs
  <1>10. CASE cache_get(q)
    <2> DEFINE k == query[q].key
    <2>1. /\ query[q].pc = "get" /\ UNCHANGED in_flight /\ k \in Keys
          /\ fetch[<<q, "miss">>].pc = "off" /\ fetch[<<q, "refresh">>].pc = "off"
      BY <1>1, <1>2, <1>10 DEF cache_get, TypeOK
    <2>2. CASE Goto(q, "respond") /\ UNCHANGED fetch
      BY <1>3, <1>4, <2>1, <2>2 DEF QueryPCs
    <2>3. ASSUME NEW f \in {<<q, "miss">>, <<q, "refresh">>}, StartFetch(f, k)
          PROVE  /\ MarkerHasFetcher'
                 /\ \A g \in Fetchers \ {f} : fetch'[g] = fetch[g]
      BY <1>1, <2>1, <2>3, FetcherTypes, StartKeepsMarkers DEF StartFetch, TypeOK
    <2>4. CASE Goto(q, "respond") /\ StartFetch(<<q, "refresh">>, k)
      <3>1. FetchOwned'
        <4>1. fetch'[<<q, "miss">>].pc = "off"
          BY <2>1, <2>3, <2>4, FetcherTypes
        <4>2. \A p \in Queries \ {q} : /\ fetch'[<<p, "miss">>] = fetch[<<p, "miss">>]
                                       /\ fetch'[<<p, "refresh">>] = fetch[<<p, "refresh">>]
          BY <2>3, <2>4, FetcherTypes
        <4>3. query'[q].pc = "respond" /\ \A p \in Queries \ {q} : query'[p] = query[p]
          BY <1>4, <2>4 DEF QueryPCs
        <4> QED
          BY <4>1, <4>2, <4>3 DEF MarkerInv, FetchOwned
      <3> QED
        BY <1>1, <2>3, <2>4, <3>1 DEF MarkerInv
    <2>5. CASE Goto(q, "fetch") /\ StartFetch(<<q, "miss">>, k)
      <3>1. FetchOwned'
        <4>1. fetch'[<<q, "refresh">>].pc = "off"
          BY <2>1, <2>3, <2>5, FetcherTypes
        <4>2. \A p \in Queries \ {q} : /\ fetch'[<<p, "miss">>] = fetch[<<p, "miss">>]
                                       /\ fetch'[<<p, "refresh">>] = fetch[<<p, "refresh">>]
          BY <2>3, <2>5, FetcherTypes
        <4>3. query'[q].pc = "fetch" /\ \A p \in Queries \ {q} : query'[p] = query[p]
          BY <1>4, <2>5 DEF QueryPCs
        <4> QED
          BY <4>1, <4>2, <4>3 DEF MarkerInv, FetchOwned
      <3> QED
        BY <1>1, <2>3, <2>5, <3>1 DEF MarkerInv
    <2> QED
      BY <1>10, <2>2, <2>4, <2>5 DEF cache_get
  <1>11. CASE respond(q)
    BY <1>3, <1>4, <1>11 DEF respond, QueryPCs
  <1>12. CASE TimerStep(q)
    BY <1>1, <1>12, MarkerFrame DEF TimerStep, timer_fires, respond_timeout
  <1> QED
    BY <1>5, <1>6, <1>7, <1>8, <1>9, <1>10, <1>11, <1>12
    DEF ReceiveRequest, LookupStep, ForwardStep

LEMMA NextMarker == MarkerInv /\ [Next]_vars => MarkerInv'
  <1> SUFFICES ASSUME MarkerInv, [Next]_vars PROVE MarkerInv'
    OBVIOUS
  <1>1. TypeOK /\ TypeOK'
    BY NextType DEF MarkerInv
  <1>2. CASE UpdaterStep
    <2>1. CASE collect_expired
      BY <1>1, <2>1, MarkerFrame DEF collect_expired, queryVars
    <2>2. ASSUME NEW k \in Keys, update_next(k) PROVE MarkerInv'
      <3>1. StartFetch(updater, k) /\ fetch[updater].pc = "off" /\ UNCHANGED <<query, in_flight>>
        BY <2>2 DEF update_next, queryVars
      <3>2. MarkerHasFetcher'
        BY <3>1, FetcherTypes, StartKeepsMarkers
      <3>3. \A q \in Queries : /\ fetch'[<<q, "miss">>] = fetch[<<q, "miss">>]
                               /\ fetch'[<<q, "refresh">>] = fetch[<<q, "refresh">>]
        BY <1>1, <3>1, FetcherTypes DEF StartFetch, TypeOK, updater
      <3>4. FetchOwned'
        BY <3>1, <3>3 DEF MarkerInv, FetchOwned
      <3> QED
        BY <1>1, <3>2, <3>4 DEF MarkerInv
    <2> QED
      BY <1>2, <2>1, <2>2 DEF UpdaterStep
  <1>3. CASE FlushStep
    BY <1>1, <1>3, MarkerFrame
    DEF FlushStep, receive_flush, cache_pop, listener_disconnects,
        listener_reconnects, queryVars
  <1>4. CASE \/ \E n \in Names : upstream_changes(n) \/ publish_flush(n)
             \/ \E k \in Keys : expire(k)
    BY <1>1, <1>4, MarkerFrame DEF upstream_changes, publish_flush, expire, queryVars
  <1>5. CASE UNCHANGED vars
    BY <1>1, <1>5, MarkerFrame DEF vars
  <1> QED
    BY <1>2, <1>3, <1>4, <1>5, FetchStepMarker, QueryStepMarker DEF Next

\* No marker is ever left behind: whoever polls in_flight waits for a fetch that
\* is still going to remove the marker.
THEOREM MarkersAreRemoved == Spec => []MarkerHasFetcher
  <1>1. MarkerInv => MarkerHasFetcher
    BY DEF MarkerInv
  <1> QED
    BY <1>1, InitMarker, NextMarker, PTL DEF Spec

------------------------------------------------------------------------------
(* Flushes.                                                                  *)

\* An answer older than the last pop of its key was fetched before that pop.
AnswersBeforePopAreLate ==
    /\ \A f \in Fetchers : fetch[f].pc = "put"
                              /\ fetch[f].answer.version < cleared[fetch[f].key]
                            => f \in late
    /\ \A k \in Keys : cleared[k] <= upstream[k[1]]

FlushInv == TypeOK /\ AnswersBeforePopAreLate /\ StaleOnlyIfOvertaken

LEMMA InitFlush == Init => FlushInv
  <1> SUFFICES ASSUME Init PROVE FlushInv
    OBVIOUS
  <1>1. TypeOK
    BY InitType
  <1>2. StaleOnlyIfOvertaken
    BY DEF Init, StaleOnlyIfOvertaken
  <1>3. AnswersBeforePopAreLate
    <2>1. \A k \in Keys : k[1] \in Names
      BY DEF Keys
    <2> QED
      BY <2>1, OffType DEF Init, AnswersBeforePopAreLate
  <1> QED
    BY <1>1, <1>2, <1>3 DEF FlushInv

\* Steps that change no answer held for a put, no entry and no flush.
LEMMA FlushFrame ==
    ASSUME FlushInv, TypeOK',
           \A g \in Fetchers : fetch'[g].pc = "put" => fetch'[g] = fetch[g],
           UNCHANGED <<upstream, cache, cleared, late, overtaken>>
    PROVE  FlushInv'
  <1>1. AnswersBeforePopAreLate'
    BY DEF FlushInv, AnswersBeforePopAreLate
  <1>2. StaleOnlyIfOvertaken'
    BY DEF FlushInv, StaleOnlyIfOvertaken
  <1> QED
    BY <1>1, <1>2 DEF FlushInv

LEMMA StartFrame ==
    ASSUME TypeOK, NEW f \in Fetchers, NEW k \in Keys, StartFetch(f, k)
    PROVE  \A g \in Fetchers : fetch'[g].pc = "put" => fetch'[g] = fetch[g]
  BY DEF TypeOK, StartFetch

\* What a put does to the entries: one key gets the data, one may be evicted.
LEMMA PutEffect ==
    ASSUME TypeOK, NEW k \in Keys, NEW d \in CacheData, Put(k, d)
    PROVE  /\ cache'[k] = d
           /\ \A j \in Keys \ {k} : cache'[j] = cache[j] \/ cache'[j] = NoData
  BY DEF Put, TypeOK

LEMMA FetchStepFlush ==
    ASSUME FlushInv, NEW f \in Fetchers, FetchStep(f)
    PROVE  FlushInv'
  <1>1. TypeOK /\ TypeOK'
    BY FetchStepType DEF FlushInv
  <1>2. fetch[f] \in Fetch /\ fetch \in [Fetchers -> Fetch] /\ fetch[f].key \in Keys
    BY <1>1 DEF TypeOK, Fetch
  <1>3. CASE insert_marker(f)
    <2>1. \A g \in Fetchers : fetch'[g].pc = "put" => fetch'[g] = fetch[g]
      BY <1>2, <1>3 DEF insert_marker, Fetch
    <2> QED
      BY <1>1, <1>3, <2>1, FlushFrame DEF insert_marker, historyVars
  <1>4. CASE upstream_error(f) \/ remove_marker(f)
    <2>1. \A g \in Fetchers : fetch'[g].pc = "put" => fetch'[g] = fetch[g]
      BY <1>2, <1>4, OffType DEF upstream_error, remove_marker, Return
    <2> QED
      BY <1>1, <1>4, <2>1, FlushFrame DEF upstream_error, remove_marker, historyVars
  <1>5. CASE \E s \in BOOLEAN : upstream_answers(f, s)
    <2>1. PICK s \in BOOLEAN : upstream_answers(f, s)
      BY <1>5
    <2>2. UNCHANGED <<upstream, cache, cleared, late, overtaken>>
      BY <2>1 DEF upstream_answers, historyVars
    <2>3. /\ fetch'[f].key = fetch[f].key
          /\ fetch'[f].answer.version = upstream[fetch[f].key[1]]
          /\ \A g \in Fetchers \ {f} : fetch'[g] = fetch[g]
      BY <1>2, <2>1 DEF upstream_answers
    <2>4. cleared[fetch[f].key] <= upstream[fetch[f].key[1]]
      BY <1>2 DEF FlushInv, AnswersBeforePopAreLate
    <2>5. cleared[fetch[f].key] \in Nat /\ upstream[fetch[f].key[1]] \in Nat
      BY <1>1, <1>2 DEF TypeOK, Keys
    <2>6. ~(fetch'[f].answer.version < cleared'[fetch'[f].key])
      BY <2>2, <2>3, <2>4, <2>5
    <2>7. AnswersBeforePopAreLate'
      BY <2>2, <2>3, <2>6 DEF FlushInv, AnswersBeforePopAreLate
    <2>8. StaleOnlyIfOvertaken'
      BY <2>2 DEF FlushInv, StaleOnlyIfOvertaken
    <2> QED
      BY <1>1, <2>7, <2>8 DEF FlushInv
  <1>6. CASE cache_put(f)
    <2> DEFINE k == fetch[f].key
               a == fetch[f].answer
               d == [version |-> a.version, servfail |-> a.servfail, age |-> "fresh"]
    <2>1. /\ fetch[f].pc = "put" /\ late' = late \ {f}
          /\ UNCHANGED <<upstream, cleared>>
          /\ fetch' = [fetch EXCEPT ![f].pc = "remove"]
      BY <1>6 DEF cache_put
    <2>2. AnswersBeforePopAreLate'
      <3>1. fetch'[f].pc = "remove" /\ \A g \in Fetchers \ {f} : fetch'[g] = fetch[g]
        BY <1>2, <2>1 DEF Fetch
      <3> QED
        BY <2>1, <3>1 DEF FlushInv, AnswersBeforePopAreLate
    <2>3. StaleOnlyIfOvertaken'
      <3>1. CASE UNCHANGED <<cache, overtaken>>
        BY <2>1, <3>1 DEF FlushInv, StaleOnlyIfOvertaken
      <3>2. CASE /\ Put(k, d)
                 /\ overtaken' = IF f \in late THEN overtaken \cup {k}
                                 ELSE overtaken \ {k}
        <4>1. d \in CacheData /\ d.version = a.version
          BY <1>2 DEF Fetch, Answer, CacheData, Ages
        <4>2. /\ cache'[k] = d
              /\ \A j \in Keys \ {k} : cache'[j] = cache[j] \/ cache'[j] = NoData
          BY <1>1, <1>2, <3>2, <4>1, PutEffect
        <4>3. a.version < cleared[k] => f \in late
          BY <2>1 DEF FlushInv, AnswersBeforePopAreLate
        <4>4. f \in late => k \in overtaken'
          BY <3>2
        <4>5. cache'[k].version < cleared'[k] => k \in overtaken'
          BY <2>1, <4>1, <4>2, <4>3, <4>4
        <4>6. \A j \in Keys \ {k} : j \in overtaken => j \in overtaken'
          BY <3>2
        <4> HIDE DEF k
        <4> QED
          BY <2>1, <4>2, <4>5, <4>6 DEF FlushInv, StaleOnlyIfOvertaken
      <3> QED
        BY <1>6, <3>1, <3>2 DEF cache_put
    <2> QED
      BY <1>1, <2>2, <2>3 DEF FlushInv
  <1> QED
    BY <1>3, <1>4, <1>5, <1>6 DEF FetchStep, LocalFetchStep

LEMMA NextFlush == FlushInv /\ [Next]_vars => FlushInv'
  <1> SUFFICES ASSUME FlushInv, [Next]_vars PROVE FlushInv'
    OBVIOUS
  <1>1. TypeOK /\ TypeOK'
    BY NextType DEF FlushInv
  <1>2. ASSUME UNCHANGED <<upstream, cache, cleared, late, overtaken, fetch>>
        PROVE  FlushInv'
    BY <1>1, <1>2, FlushFrame
  <1>3. ASSUME NEW q \in Queries,
               ReceiveRequest(q) \/ LookupStep(q) \/ TimerStep(q) \/ ForwardStep(q)
        PROVE  FlushInv'
    <2>1. UNCHANGED <<upstream, cache, cleared, late, overtaken>>
      BY <1>3 DEF ReceiveRequest, LookupStep, TimerStep, ForwardStep,
                  receive_query, reject_request, forward_request, update_query,
                  axfr_query, await_in_flight, cache_get, respond, timer_fires,
                  respond_timeout, historyVars
    <2>2. CASE cache_get(q)
      <3>1. \/ UNCHANGED fetch
            \/ StartFetch(<<q, "refresh">>, query[q].key)
            \/ StartFetch(<<q, "miss">>, query[q].key)
        BY <2>2 DEF cache_get
      <3>2. query[q].key \in Keys
        BY <1>1 DEF TypeOK
      <3>3. \A g \in Fetchers : fetch'[g].pc = "put" => fetch'[g] = fetch[g]
        BY <1>1, <3>1, <3>2, FetcherTypes, StartFrame
      <3> QED
        BY <1>1, <2>1, <3>3, FlushFrame
    <2>3. CASE ~cache_get(q)
      <3>1. UNCHANGED fetch
        BY <1>3, <2>3 DEF ReceiveRequest, LookupStep, TimerStep, ForwardStep,
                  receive_query, reject_request, forward_request, update_query,
                  axfr_query, await_in_flight, respond, timer_fires,
                  respond_timeout
      <3> QED
        BY <1>2, <2>1, <3>1
    <2> QED
      BY <2>2, <2>3
  <1>4. CASE collect_expired
    BY <1>2, <1>4 DEF collect_expired, historyVars
  <1>5. ASSUME NEW k \in Keys, update_next(k) PROVE FlushInv'
    <2>1. \A g \in Fetchers : fetch'[g].pc = "put" => fetch'[g] = fetch[g]
      BY <1>1, <1>5, FetcherTypes, StartFrame DEF update_next
    <2> QED
      BY <1>1, <1>5, <2>1, FlushFrame DEF update_next, historyVars
  <1>6. ASSUME NEW n \in Names, receive_flush(n) PROVE FlushInv'
    BY <1>2, <1>6 DEF receive_flush, historyVars
  <1>7. CASE listener_disconnects \/ listener_reconnects
    BY <1>2, <1>7 DEF listener_disconnects, listener_reconnects, historyVars
  <1>8. ASSUME NEW k \in Keys, cache_pop(k) PROVE FlushInv'
    <2>1. /\ cache' = [cache EXCEPT ![k] = NoData]
          /\ cleared' = [cleared EXCEPT ![k] = upstream[k[1]]]
          /\ late' = late \cup {f \in Fetchers : fetch[f].pc = "put" /\ fetch[f].key = k}
          /\ overtaken' = overtaken \ {k}
          /\ UNCHANGED <<upstream, fetch>>
      BY <1>8 DEF cache_pop
    <2>2. /\ cache'[k] = NoData /\ cleared'[k] = upstream[k[1]]
          /\ \A j \in Keys \ {k} : cache'[j] = cache[j] /\ cleared'[j] = cleared[j]
      BY <1>1, <2>1 DEF TypeOK
    <2>3. \A f \in Fetchers : fetch[f].key \in Keys
      BY <1>1 DEF TypeOK, Fetch
    <2>4. ASSUME NEW f \in Fetchers, fetch[f].pc = "put",
                 fetch[f].answer.version < cleared'[fetch[f].key]
          PROVE  f \in late'
      <3>1. CASE fetch[f].key = k
        BY <2>1, <2>4, <3>1
      <3>2. CASE fetch[f].key # k
        <4>1. cleared'[fetch[f].key] = cleared[fetch[f].key]
          BY <2>2, <2>3, <3>2
        <4>2. f \in late
          BY <2>4, <4>1 DEF FlushInv, AnswersBeforePopAreLate
        <4> QED
          BY <2>1, <4>2
      <3> QED
        BY <3>1, <3>2
    <2>5. \A j \in Keys : upstream[j[1]] \in Nat
      BY <1>1 DEF TypeOK, Keys
    <2>6. AnswersBeforePopAreLate'
      BY <2>1, <2>2, <2>4, <2>5 DEF FlushInv, AnswersBeforePopAreLate
    <2>7. StaleOnlyIfOvertaken'
      BY <2>1, <2>2 DEF FlushInv, StaleOnlyIfOvertaken
    <2> QED
      BY <1>1, <2>6, <2>7 DEF FlushInv
  <1>9. ASSUME NEW n \in Names, upstream_changes(n) PROVE FlushInv'
    <2>1. UNCHANGED <<cache, cleared, late, overtaken, fetch>>
      BY <1>9 DEF upstream_changes, historyVars
    <2>2. ASSUME NEW k \in Keys PROVE cleared[k] <= upstream'[k[1]]
      <3>1. k[1] \in Names /\ cleared[k] \in Nat /\ cleared[k] <= upstream[k[1]]
        BY <1>1 DEF TypeOK, Keys, FlushInv, AnswersBeforePopAreLate
      <3>2. upstream[k[1]] <= upstream'[k[1]] /\ upstream[k[1]] \in Nat
            /\ upstream'[k[1]] \in Nat
        BY <1>1, <1>9, <3>1 DEF upstream_changes, TypeOK
      <3> QED
        BY <3>1, <3>2
    <2>3. AnswersBeforePopAreLate'
      BY <2>1, <2>2 DEF FlushInv, AnswersBeforePopAreLate
    <2>4. StaleOnlyIfOvertaken'
      BY <2>1 DEF FlushInv, StaleOnlyIfOvertaken
    <2> QED
      BY <1>1, <2>3, <2>4 DEF FlushInv
  <1>10. ASSUME NEW n \in Names, publish_flush(n) PROVE FlushInv'
    BY <1>2, <1>10 DEF publish_flush, historyVars
  <1>11. ASSUME NEW k \in Keys, expire(k) PROVE FlushInv'
    <2>1. UNCHANGED <<upstream, cleared, late, overtaken, fetch>>
      BY <1>11 DEF expire, historyVars
    <2>2. PICK a : cache[k] \in CacheData /\ cache' = [cache EXCEPT ![k].age = a]
      BY <1>1, <1>11, ExpireAge
    <2>3. /\ cache'[k].version = cache[k].version /\ cache[k] # NoData
          /\ \A j \in Keys \ {k} : cache'[j] = cache[j]
      BY <1>1, <2>2 DEF TypeOK, CacheData, NoData, Ages
    <2>4. AnswersBeforePopAreLate'
      BY <2>1 DEF FlushInv, AnswersBeforePopAreLate
    <2>5. StaleOnlyIfOvertaken'
      BY <2>1, <2>3 DEF FlushInv, StaleOnlyIfOvertaken
    <2> QED
      BY <1>1, <2>4, <2>5 DEF FlushInv
  <1>12. CASE UNCHANGED vars
    BY <1>2, <1>12 DEF vars
  <1> QED
    BY <1>3, <1>4, <1>5, <1>6, <1>7, <1>8, <1>9, <1>10, <1>11, <1>12, FetchStepFlush
    DEF Next, UpdaterStep, FlushStep

\* After a flush popped a key, only an answer that a fetch held at that moment
\* can bring back older data, however requests, refreshes and flushes interleave.
THEOREM StaleEntriesWereOvertaken == Spec => []StaleOnlyIfOvertaken
  <1>1. FlushInv => StaleOnlyIfOvertaken
    BY DEF FlushInv
  <1> QED
    BY <1>1, InitFlush, NextFlush, PTL DEF Spec

------------------------------------------------------------------------------
(* SERVFAILs.                                                                *)

\* Who changes the cache: a put, a pop, the passing of time.
LEMMA CacheSteps ==
    ASSUME TypeOK, [Next]_vars
    PROVE  \/ UNCHANGED cache
           \/ \E f \in Fetchers : cache_put(f)
           \/ \E k \in Keys : cache_pop(k) \/ expire(k)
  BY DEF Next, vars, FetchStep, LocalFetchStep, insert_marker, upstream_answers,
         upstream_error, remove_marker, ReceiveRequest, LookupStep, TimerStep,
         ForwardStep, receive_query, reject_request, forward_request, update_query,
         axfr_query, await_in_flight, cache_get, respond, timer_fires,
         respond_timeout, UpdaterStep, collect_expired, update_next, FlushStep,
         receive_flush, listener_disconnects, listener_reconnects,
         upstream_changes, publish_flush

\* The data cache_put stores.
Stored(f) == [version |-> fetch[f].answer.version,
              servfail |-> fetch[f].answer.servfail, age |-> "fresh"]

LEMMA StoredType ==
    ASSUME TypeOK, NEW f \in Fetchers
    PROVE  fetch[f].key \in Keys /\ Stored(f) \in CacheData
  BY DEF TypeOK, Fetch, Answer, Stored, CacheData, Ages

\* While an entry is usable, every miss of its key that has not put its answer
\* yet had begun before the entry was put.
MissesAreEarlier ==
    \A k \in Keys, f \in Fetchers :
        /\ cache[k].age \in {"fresh", "stale"}
        /\ IsNew(f) /\ fetch[f].key = k
        /\ fetch[f].pc \in {"insert", "await", "put"}
        => f \in during[k]

MissInv == TypeOK /\ MissesAreEarlier

LEMMA MissFrame ==
    ASSUME MissInv, TypeOK', UNCHANGED during,
           \A k \in Keys : cache'[k].age \in {"fresh", "stale"}
                             => cache[k].age \in {"fresh", "stale"},
           \A f \in Fetchers :
              IsNew(f) /\ fetch'[f].pc \in {"insert", "await", "put"}
              => /\ fetch[f].pc \in {"insert", "await", "put"}
                 /\ fetch'[f].key = fetch[f].key
    PROVE  MissInv'
  BY DEF MissInv, MissesAreEarlier

LEMMA FetchStepMiss ==
    ASSUME MissInv, NEW f \in Fetchers, FetchStep(f)
    PROVE  MissInv'
  <1>1. TypeOK /\ TypeOK'
    BY FetchStepType DEF MissInv
  <1>2. fetch[f] \in Fetch /\ fetch \in [Fetchers -> Fetch] /\ fetch[f].key \in Keys
    BY <1>1 DEF TypeOK, Fetch
  <1>3. CASE insert_marker(f)
    <2>1. /\ fetch[f].pc = "insert" /\ fetch'[f].key = fetch[f].key
          /\ \A g \in Fetchers \ {f} : fetch'[g] = fetch[g]
      BY <1>2, <1>3 DEF insert_marker, Fetch
    <2>2. UNCHANGED <<cache, during>>
      BY <1>3 DEF insert_marker, historyVars
    <2> QED
      BY <1>1, <2>1, <2>2, MissFrame
  <1>4. CASE \E s \in BOOLEAN : upstream_answers(f, s)
    <2>1. PICK s \in BOOLEAN : upstream_answers(f, s)
      BY <1>4
    <2>2. /\ fetch[f].pc = "await" /\ fetch'[f].key = fetch[f].key
          /\ \A g \in Fetchers \ {f} : fetch'[g] = fetch[g]
      BY <1>2, <2>1 DEF upstream_answers
    <2>3. UNCHANGED <<cache, during>>
      BY <2>1 DEF upstream_answers, historyVars
    <2> QED
      BY <1>1, <2>2, <2>3, MissFrame
  <1>5. CASE upstream_error(f) \/ remove_marker(f)
    <2>1. fetch'[f].pc = "off" /\ \A g \in Fetchers \ {f} : fetch'[g] = fetch[g]
      BY <1>2, <1>5, OffType DEF upstream_error, remove_marker, Return
    <2>2. UNCHANGED <<cache, during>>
      BY <1>5 DEF upstream_error, remove_marker, historyVars
    <2> QED
      BY <1>1, <2>1, <2>2, MissFrame
  <1>6. CASE cache_put(f)
    <2> DEFINE k == fetch[f].key
    <2>1. fetch'[f].pc = "remove" /\ \A g \in Fetchers \ {f} : fetch'[g] = fetch[g]
      BY <1>2, <1>6 DEF cache_put, Fetch
    <2>2. CASE UNCHANGED <<cache, during>>
      BY <1>1, <2>1, <2>2, MissFrame
    <2>3. CASE Put(k, Stored(f)) /\ during' = [during EXCEPT ![k] = Misses(k) \ {f}]
      <3>1. \A j \in Keys \ {k} : cache'[j] = cache[j] \/ cache'[j] = NoData
        BY <1>1, <2>3, StoredType, PutEffect
      <3>2. during'[k] = Misses(k) \ {f} /\ \A j \in Keys \ {k} : during'[j] = during[j]
        BY <1>1, <1>2, <2>3 DEF TypeOK
      <3>3. ASSUME NEW j \in Keys, NEW g \in Fetchers,
                   cache'[j].age \in {"fresh", "stale"}, IsNew(g),
                   fetch'[g].key = j, fetch'[g].pc \in {"insert", "await", "put"}
            PROVE  g \in during'[j]
        <4>1. g # f /\ fetch[g].key = j /\ fetch[g].pc \in {"insert", "await", "put"}
          BY <2>1, <3>3
        <4>2. CASE j = k
          <5>1. g \in Misses(j)
            BY <3>3, <4>1 DEF Misses
          <5> QED
            BY <3>2, <4>1, <4>2, <5>1
        <4>3. CASE j # k
          <5>1. cache[j].age \in {"fresh", "stale"}
            BY <3>1, <3>3, <4>3 DEF NoData
          <5>2. g \in during[j]
            BY <3>3, <4>1, <5>1 DEF MissInv, MissesAreEarlier
          <5> QED
            BY <3>2, <4>3, <5>2
        <4> QED
          BY <4>2, <4>3
      <3> HIDE DEF k
      <3> QED
        BY <1>1, <3>3 DEF MissInv, MissesAreEarlier
    <2> QED
      BY <1>6, <2>2, <2>3 DEF cache_put, Stored
  <1> QED
    BY <1>3, <1>4, <1>5, <1>6 DEF FetchStep, LocalFetchStep

LEMMA NextMiss == MissInv /\ [Next]_vars => MissInv'
  <1> SUFFICES ASSUME MissInv, [Next]_vars PROVE MissInv'
    OBVIOUS
  <1>1. TypeOK /\ TypeOK'
    BY NextType DEF MissInv
  <1>2. ASSUME UNCHANGED <<cache, during, fetch>> PROVE MissInv'
    BY <1>1, <1>2, MissFrame
  <1>3. ASSUME NEW q \in Queries, cache_get(q) PROVE MissInv'
    <2>1. UNCHANGED <<cache, during>> /\ query[q].key \in Keys
      BY <1>1, <1>3 DEF cache_get, historyVars, TypeOK
    <2>2. CASE UNCHANGED fetch
      BY <1>2, <2>1, <2>2
    <2>3. CASE StartFetch(<<q, "refresh">>, query[q].key)
      <3>1. ~IsNew(<<q, "refresh">>)
        BY DEF IsNew
      <3>2. \A g \in Fetchers \ {<<q, "refresh">>} : fetch'[g] = fetch[g]
        BY <1>1, <2>3, FetcherTypes DEF StartFetch, TypeOK
      <3> QED
        BY <1>1, <2>1, <3>1, <3>2, MissFrame
    <2>4. CASE /\ StartFetch(<<q, "miss">>, query[q].key)
               /\ cache[query[q].key].age \in {"none", "hard"}
      <3> DEFINE f == <<q, "miss">>
      <3>1. f \in Fetchers /\ fetch'[f].key = query[q].key
        BY <1>1, <2>4, FetcherTypes DEF StartFetch, TypeOK
      <3>2. \A g \in Fetchers \ {f} : fetch'[g] = fetch[g]
        BY <1>1, <2>4, FetcherTypes DEF StartFetch, TypeOK
      <3> HIDE DEF f
      <3> QED
        BY <1>1, <2>1, <2>4, <3>1, <3>2 DEF MissInv, MissesAreEarlier
    <2> QED
      BY <1>3, <2>2, <2>3, <2>4 DEF cache_get
  <1>4. ASSUME NEW q \in Queries,
               ReceiveRequest(q) \/ LookupStep(q) \/ TimerStep(q) \/ ForwardStep(q)
        PROVE  MissInv'
    <2>1. CASE ~cache_get(q)
      BY <1>2, <1>4, <2>1
      DEF ReceiveRequest, LookupStep, TimerStep, ForwardStep, receive_query,
          reject_request, forward_request, update_query, axfr_query,
          await_in_flight, respond, timer_fires, respond_timeout, historyVars
    <2> QED
      BY <1>3, <2>1
  <1>5. CASE UpdaterStep
    <2>1. CASE collect_expired
      BY <1>2, <2>1 DEF collect_expired, historyVars
    <2>2. ASSUME NEW k \in Keys, update_next(k) PROVE MissInv'
      <3>1. ~IsNew(updater)
        BY DEF IsNew, updater
      <3>2. \A g \in Fetchers \ {updater} : fetch'[g] = fetch[g]
        BY <1>1, <2>2, FetcherTypes DEF update_next, StartFetch, TypeOK
      <3>3. UNCHANGED <<cache, during>>
        BY <2>2 DEF update_next, historyVars
      <3> QED
        BY <1>1, <3>1, <3>2, <3>3, MissFrame
    <2> QED
      BY <1>5, <2>1, <2>2 DEF UpdaterStep
  <1>6. ASSUME NEW k \in Keys, cache_pop(k) PROVE MissInv'
    <2>1. \A j \in Keys : cache'[j] = cache[j] \/ cache'[j] = NoData
      BY <1>1, <1>6 DEF cache_pop, TypeOK
    <2>2. UNCHANGED <<fetch, during>>
      BY <1>6 DEF cache_pop
    <2> QED
      BY <1>1, <2>1, <2>2, MissFrame DEF NoData
  <1>7. CASE FlushStep
    <2>1. CASE \E k \in Keys : cache_pop(k)
      BY <1>6, <2>1
    <2>2. CASE ~\E k \in Keys : cache_pop(k)
      BY <1>2, <1>7, <2>2
      DEF FlushStep, receive_flush, listener_disconnects, listener_reconnects,
          historyVars
    <2> QED
      BY <2>1, <2>2
  <1>8. ASSUME NEW k \in Keys, expire(k) PROVE MissInv'
    <2>1. /\ \A j \in Keys \ {k} : cache'[j] = cache[j]
          /\ cache'[k].age = "stale" => cache[k].age = "fresh"
          /\ cache'[k].age \in {"stale", "hard"}
      BY <1>1, <1>8 DEF expire, TypeOK, CacheData, NoData, Ages
    <2>2. UNCHANGED <<fetch, during>>
      BY <1>8 DEF expire, historyVars
    <2> QED
      BY <1>1, <2>1, <2>2, MissFrame
  <1>9. CASE \E n \in Names : upstream_changes(n) \/ publish_flush(n)
    BY <1>2, <1>9 DEF upstream_changes, publish_flush, historyVars
  <1>10. CASE UNCHANGED vars
    BY <1>2, <1>10 DEF vars
  <1> QED
    BY <1>4, <1>5, <1>7, <1>8, <1>9, <1>10, FetchStepMiss DEF Next

\* The step property behind ServFailOnlyByEarlierMiss.
ServFailStep ==
    \A k \in Keys :
        /\ cache[k].age \in {"fresh", "stale"}
        /\ ~cache[k].servfail
        /\ cache'[k].servfail
        => \E f \in during[k] : fetch[f].pc = "put" /\ fetch'[f].pc = "remove"

LEMMA NextServFail == MissInv /\ [Next]_vars => ServFailStep
  <1> SUFFICES ASSUME MissInv, [Next]_vars PROVE ServFailStep
    OBVIOUS
  <1>1. TypeOK
    BY DEF MissInv
  <1>2. CASE UNCHANGED cache
    BY <1>2 DEF ServFailStep
  <1>3. ASSUME NEW f \in Fetchers, cache_put(f) PROVE ServFailStep
    <2> DEFINE k == fetch[f].key
    <2>1. fetch[f].pc = "put" /\ fetch'[f].pc = "remove" /\ k \in Keys
      BY <1>1, <1>3 DEF cache_put, TypeOK, Fetch
    <2>2. CASE UNCHANGED cache
      BY <1>2, <2>2
    <2>3. CASE Put(k, Stored(f)) /\ (~fetch[f].answer.servfail \/ IsNew(f))
      <3>1. /\ cache'[k] = Stored(f)
            /\ \A j \in Keys \ {k} : cache'[j] = cache[j] \/ cache'[j] = NoData
        BY <1>1, <2>3, StoredType, PutEffect
      <3>2. ASSUME NEW j \in Keys, cache[j].age \in {"fresh", "stale"},
                   ~cache[j].servfail, cache'[j].servfail
            PROVE  f \in during[j]
        <4>1. j = k
          BY <3>1, <3>2 DEF NoData
        <4>2. fetch[f].answer.servfail
          BY <3>1, <3>2, <4>1 DEF Stored
        <4>3. IsNew(f)
          BY <2>3, <4>2
        <4> QED
          BY <2>1, <3>2, <4>1, <4>3 DEF MissInv, MissesAreEarlier
      <3> QED
        BY <2>1, <3>2 DEF ServFailStep
    <2> QED
      BY <1>3, <2>2, <2>3 DEF cache_put, Stored
  <1>4. ASSUME NEW k \in Keys, cache_pop(k) PROVE ServFailStep
    <2>1. \A j \in Keys : cache'[j] = cache[j] \/ cache'[j] = NoData
      BY <1>1, <1>4 DEF cache_pop, TypeOK
    <2> QED
      BY <2>1 DEF ServFailStep, NoData
  <1>5. ASSUME NEW k \in Keys, expire(k) PROVE ServFailStep
    <2>1. PICK a : cache[k] \in CacheData /\ cache' = [cache EXCEPT ![k].age = a]
      BY <1>1, <1>5, ExpireAge
    <2>2. /\ cache'[k].servfail = cache[k].servfail
          /\ \A j \in Keys \ {k} : cache'[j] = cache[j]
      BY <1>1, <2>1 DEF TypeOK, CacheData
    <2> QED
      BY <2>2 DEF ServFailStep
  <1> QED
    BY <1>1, <1>2, <1>3, <1>4, <1>5, CacheSteps

\* A refresh never replaces a usable answer by a SERVFAIL; only a miss that was
\* under way before the answer was cached can.
THEOREM ServFailKeepsGoodAnswers == Spec => ServFailOnlyByEarlierMiss
  <1>1. Init => MissInv
    <2> SUFFICES ASSUME Init PROVE MissInv
      OBVIOUS
    <2>1. MissesAreEarlier
      BY DEF Init, MissesAreEarlier, NoData
    <2> QED
      BY <2>1, InitType DEF MissInv
  <1>2. MissInv /\ [Next]_vars => [ServFailStep]_vars
    BY NextServFail
  <1>3. Spec => [][ServFailStep]_vars
    BY <1>1, <1>2, NextMiss, PTL DEF Spec
  <1> QED
    BY <1>3 DEF ServFailOnlyByEarlierMiss, ServFailStep

==============================================================================
