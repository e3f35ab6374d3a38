------------------------------- MODULE DnsCache -------------------------------
(***************************************************************************)
(* The caching DNS front end (dns-cache/src/main.rs).                      *)
(*                                                                         *)
(* Every request runs in a tokio task of its own.  The tasks share an LRU  *)
(* cache behind a mutex and a lock-free set of keys being fetched from the *)
(* gRPC upstream; spawned refreshes, a periodic updater and a RabbitMQ     *)
(* listener that drops flushed keys work on the same two structures.  The  *)
(* runtime has 16 threads: tasks interleave between any two accesses.      *)
(*                                                                         *)
(* What the upstream knows about a key is a version number; an answer is   *)
(* the version it was computed from and whether it is a SERVFAIL.  Time is *)
(* the age of a cache entry: fresh for 300 s, then stale, hard after 12 h. *)
(***************************************************************************)
EXTENDS Naturals, Sequences, FiniteSets

CONSTANTS
    Names,          \* (name, class, type) of a question
    DnssecFlags,    \* values of the DNSSEC OK bit (both)
    Queries,        \* requests of one behaviour
    Updater,        \* the cache_updater task
    Capacity,       \* entries of the LRU cache (65535)
    MaxVersion,     \* bound: upstream changes per name
    MaxFlushes,     \* bound: flush messages
    MaxFrames,      \* bound: messages of one zone transfer
    MaxFaults       \* bound: upstream errors, SERVFAILs and broker failures

ASSUME CapacityAssumption == Capacity \in Nat \ {0}
ASSUME KeysAssumption ==
    /\ IsFiniteSet(Names) /\ Names # {}
    /\ DnssecFlags \subseteq BOOLEAN /\ DnssecFlags # {}
ASSUME BoundsAssumption ==
    MaxVersion \in Nat /\ MaxFlushes \in Nat /\ MaxFrames \in Nat
    /\ MaxFaults \in Nat

\* CacheKey: the question and the DNSSEC OK bit.
Keys == Names \X DnssecFlags
AnyKey == CHOOSE k \in Keys : TRUE

Answer == [version : Nat, servfail : BOOLEAN]
Ages == {"fresh", "stale", "hard"}
CacheData == [version : Nat, servfail : BOOLEAN, age : Ages]
NoData == [version |-> 0, servfail |-> FALSE, age |-> "none"]

\* Who runs fetch_and_insert: a request that missed, the refresh a request
\* spawned, or the updater.
Fetchers == (Queries \X {"miss", "refresh"}) \cup {<<Updater, "update">>}

FetchPCs == {"off", "insert", "await", "put", "remove"}
Fetch == [pc : FetchPCs, key : Keys, answer : Answer]
NoAnswer == [version |-> 0, servfail |-> FALSE]
Off == [pc |-> "off", key |-> AnyKey, answer |-> NoAnswer]

\* Parameter "new" of fetch_and_insert.
IsNew(f) == f[2] = "miss"

QueryPCs == {"idle", "wait", "get", "fetch", "respond", "update", "axfr", "done"}
Replies == {"answer", "error", "timeout", "frame"}

VARIABLES
    upstream,   \* upstream[n]: version of what the database says about n
    cache,      \* cache[k]: the LRU cache, NoData where there is no entry
    in_flight,  \* keys with a marker
    fetch,      \* fetch[f]: progress of f's fetch_and_insert
    query,      \* query[q]: progress and key of request q
    timer,      \* timer[q]: the task answering q after 5 s
    replies,    \* replies[q]: what was sent to the client of q
    to_update,  \* keys the updater still has to fetch in this round
    flushes,    \* flushes[n]: flush messages in the listener's queue
    clearing,   \* clearing[k]: pops of k left in spawned tasks
    listener,   \* "up", "down" (15 s sleep) or "dead" (panicked)
    flushed,    \* flush messages published so far
    faults,     \* faults so far
    late,       \* history: fetches holding an answer when their key was popped
    overtaken,  \* history: keys whose entry was put by such a fetch
    cleared,    \* history: version of k the last pop of k was about
    during      \* history: misses of k not finished when k's entry was put

historyVars == <<late, overtaken, cleared, during>>
flushVars == <<flushes, clearing, listener, flushed>>
queryVars == <<query, timer, replies>>
vars == <<upstream, cache, in_flight, fetch, query, timer, replies, to_update,
          flushes, clearing, listener, flushed, faults, late, overtaken, cleared,
          during>>

Fault == faults < MaxFaults /\ faults' = faults + 1

------------------------------------------------------------------------------
(* fetch_and_insert.                                                         *)

Misses(k) == {f \in Fetchers : IsNew(f) /\ fetch[f].pc # "off" /\ fetch[f].key = k}

\* LruCache::put: at the capacity another entry makes room.
Put(k, data) ==
    LET kept == {j \in Keys : cache[j] # NoData}
    IN \/ /\ k \in kept \/ Cardinality(kept) < Capacity
          /\ cache' = [cache EXCEPT ![k] = data]
       \/ /\ k \notin kept /\ Cardinality(kept) >= Capacity
          /\ \E victim \in kept :
                cache' = [cache EXCEPT ![victim] = NoData, ![k] = data]

\* Mutant: the marker is the question without the DNSSEC OK bit.
insert_marker_without_dnssec(f) ==
    /\ fetch[f].pc = "insert"
    /\ in_flight' = in_flight \cup {fetch[f].key[1]}
    /\ fetch' = [fetch EXCEPT ![f].pc = "await"]
    /\ UNCHANGED <<upstream, cache, queryVars, to_update, flushVars, faults,
                   historyVars>>

insert_marker(f) ==
    /\ fetch[f].pc = "insert"
    /\ in_flight' = in_flight \cup {fetch[f].key}
    /\ fetch' = [fetch EXCEPT ![f].pc = "await"]
    /\ UNCHANGED <<upstream, cache, queryVars, to_update, flushVars, faults,
                   historyVars>>

\* client.query(): the upstream answers, possibly with a SERVFAIL.
upstream_answers(f, servfail) ==
    /\ fetch[f].pc = "await"
    /\ \/ servfail /\ Fault
       \/ ~servfail /\ UNCHANGED faults
    /\ fetch' = [fetch EXCEPT ![f] =
                    [pc |-> "put", key |-> fetch[f].key,
                     answer |-> [version |-> upstream[fetch[f].key[1]],
                                 servfail |-> servfail]]]
    /\ UNCHANGED <<upstream, cache, in_flight, queryVars, to_update, flushVars,
                   historyVars>>

\* What follows the return of fetch_and_insert: a request goes on to respond,
\* a refresh ends, the updater takes its next key.
Return(f) ==
    /\ fetch' = [fetch EXCEPT ![f] = Off]
    /\ query' = [q \in Queries |-> IF f = <<q, "miss">>
                                   THEN [query[q] EXCEPT !.pc = "respond"]
                                   ELSE query[q]]

\* Mutant: the early return keeps the marker.
upstream_error_keeps_marker(f) ==
    /\ fetch[f].pc = "await"
    /\ Fault
    /\ Return(f)
    /\ UNCHANGED <<upstream, cache, in_flight, timer, replies, to_update, flushVars,
                   historyVars>>

\* A gRPC error, or an answer that does not parse: ServFail, nothing cached.
upstream_error(f) ==
    /\ fetch[f].pc = "await"
    /\ Fault
    /\ in_flight' = in_flight \ {fetch[f].key}
    /\ Return(f)
    /\ UNCHANGED <<upstream, cache, timer, replies, to_update, flushVars,
                   historyVars>>

\* Mutant: "new" is not looked at.
cache_put_any_servfail(f) ==
    LET k == fetch[f].key
        a == fetch[f].answer
    IN /\ fetch[f].pc = "put"
       /\ fetch' = [fetch EXCEPT ![f].pc = "remove"]
       /\ late' = late \ {f}
       /\ Put(k, [version |-> a.version, servfail |-> a.servfail, age |-> "fresh"])
       /\ overtaken' = IF f \in late THEN overtaken \cup {k} ELSE overtaken \ {k}
       /\ during' = [during EXCEPT ![k] = Misses(k) \ {f}]
       /\ UNCHANGED <<upstream, in_flight, queryVars, to_update, flushVars,
                      faults, cleared>>

\* A SERVFAIL is only cached for a miss.
cache_put(f) ==
    LET k == fetch[f].key
        a == fetch[f].answer
    IN /\ fetch[f].pc = "put"
       /\ fetch' = [fetch EXCEPT ![f].pc = "remove"]
       /\ late' = late \ {f}
       /\ \/ /\ ~a.servfail \/ IsNew(f)
             /\ Put(k, [version |-> a.version, servfail |-> a.servfail,
                        age |-> "fresh"])
             /\ overtaken' = IF f \in late THEN overtaken \cup {k}
                             ELSE overtaken \ {k}
             /\ during' = [during EXCEPT ![k] = Misses(k) \ {f}]
          \/ /\ a.servfail /\ ~IsNew(f)
             /\ UNCHANGED <<cache, overtaken, during>>
       /\ UNCHANGED <<upstream, in_flight, queryVars, to_update, flushVars,
                      faults, cleared>>

remove_marker(f) ==
    /\ fetch[f].pc = "remove"
    /\ in_flight' = in_flight \ {fetch[f].key}
    /\ Return(f)
    /\ UNCHANGED <<upstream, cache, timer, replies, to_update, flushVars, faults,
                   historyVars>>

StartFetch(f, k) ==
    fetch' = [fetch EXCEPT ![f] = [pc |-> "insert", key |-> k, answer |-> NoAnswer]]

------------------------------------------------------------------------------
(* lookup_cache_or_fetch and handle_request.                                 *)

Goto(q, pc) == query' = [query EXCEPT ![q].pc = pc]
Reply(q, r) == replies' = [replies EXCEPT ![q] = Append(@, r)]

\* Mutant: no timeout task.
receive_query_without_timeout(q, k) ==
    /\ query[q].pc = "idle"
    /\ query' = [query EXCEPT ![q] = [pc |-> "wait", key |-> k]]
    /\ UNCHANGED <<upstream, cache, in_flight, fetch, timer, replies, to_update,
                   flushVars, faults, historyVars>>

\* A query: the timeout task is spawned before the lookup.
receive_query(q, k) ==
    /\ query[q].pc = "idle"
    /\ query' = [query EXCEPT ![q] = [pc |-> "wait", key |-> k]]
    /\ timer' = [timer EXCEPT ![q] = "armed"]
    /\ UNCHANGED <<upstream, cache, in_flight, fetch, replies, to_update,
                   flushVars, faults, historyVars>>

\* BADVERS, NotImp and FormErr are answered on the spot.
reject_request(q) ==
    /\ query[q].pc = "idle"
    /\ Goto(q, "done")
    /\ Reply(q, "error")
    /\ UNCHANGED <<upstream, cache, in_flight, fetch, timer, to_update, flushVars,
                   faults, historyVars>>

\* Updates and zone transfers go to the upstream, without cache and timeout.
forward_request(q, pc) ==
    /\ query[q].pc = "idle"
    /\ Goto(q, pc)
    /\ UNCHANGED <<upstream, cache, in_flight, fetch, timer, replies, to_update,
                   flushVars, faults, historyVars>>

update_query(q) ==
    /\ query[q].pc = "update"
    /\ Goto(q, "done")
    /\ \/ Reply(q, "answer") /\ UNCHANGED faults
       \/ Reply(q, "error") /\ Fault
    /\ UNCHANGED <<upstream, cache, in_flight, fetch, timer, to_update, flushVars,
                   historyVars>>

\* A stream of messages that ends, or breaks off with a ServFail.
axfr_query(q) ==
    /\ query[q].pc = "axfr"
    /\ \/ /\ Len(replies[q]) < MaxFrames
          /\ Reply(q, "frame")
          /\ UNCHANGED <<query, faults>>
       \/ /\ Goto(q, "done")
          /\ UNCHANGED <<replies, faults>>
       \/ /\ Goto(q, "done")
          /\ Reply(q, "error")
          /\ Fault
    /\ UNCHANGED <<upstream, cache, in_flight, fetch, timer, to_update, flushVars,
                   historyVars>>

\* The loop over in_flight.contains(), 500 ms between two polls.
await_in_flight(q) ==
    /\ query[q].pc = "wait"
    /\ query[q].key \notin in_flight
    /\ Goto(q, "get")
    /\ UNCHANGED <<upstream, cache, in_flight, fetch, timer, replies, to_update,
                   flushVars, faults, historyVars>>

\* cache.get(): a hit answers, a stale hit spawns a refresh as well, anything
\* else is a miss and the request fetches itself.
cache_get(q) ==
    LET k == query[q].key
        age == cache[k].age
    IN /\ query[q].pc = "get"
       /\ \/ age = "fresh" /\ Goto(q, "respond") /\ UNCHANGED fetch
          \/ age = "stale" /\ Goto(q, "respond") /\ StartFetch(<<q, "refresh">>, k)
          \/ age \in {"none", "hard"} /\ Goto(q, "fetch")
                                      /\ StartFetch(<<q, "miss">>, k)
       /\ UNCHANGED <<upstream, cache, in_flight, timer, replies, to_update,
                      flushVars, faults, historyVars>>

\* handle.abort(), then respond().  A timeout task that is already sending may
\* still get its message out.
respond(q) ==
    /\ query[q].pc = "respond"
    /\ Goto(q, "done")
    /\ Reply(q, "answer")
    /\ \/ timer[q] \in {"armed", "fired"} /\ timer' = [timer EXCEPT ![q] = "off"]
       \/ timer[q] \in {"fired", "off"} /\ UNCHANGED timer
    /\ UNCHANGED <<upstream, cache, in_flight, fetch, to_update, flushVars, faults,
                   historyVars>>

\* The sleep of 5 s is over.
timer_fires(q) ==
    /\ timer[q] = "armed"
    /\ timer' = [timer EXCEPT ![q] = "fired"]
    /\ UNCHANGED <<upstream, cache, in_flight, fetch, query, replies, to_update,
                   flushVars, faults, historyVars>>

respond_timeout(q) ==
    /\ timer[q] = "fired"
    /\ timer' = [timer EXCEPT ![q] = "off"]
    /\ Reply(q, "timeout")
    /\ UNCHANGED <<upstream, cache, in_flight, fetch, query, to_update, flushVars,
                   faults, historyVars>>

------------------------------------------------------------------------------
(* cache_updater: every 60 s, all entries past valid_until, one by one.      *)

updater == <<Updater, "update">>

\* Mutant: the comparison with valid_until is the wrong way round.
collect_expired_reversed ==
    /\ to_update = {}
    /\ fetch[updater].pc = "off"
    /\ to_update' = {k \in Keys : cache[k].age = "fresh"}
    /\ UNCHANGED <<upstream, cache, in_flight, fetch, queryVars, flushVars,
                   faults, historyVars>>

collect_expired ==
    /\ to_update = {}
    /\ fetch[updater].pc = "off"
    /\ to_update' = {k \in Keys : cache[k].age \in {"stale", "hard"}}
    /\ UNCHANGED <<upstream, cache, in_flight, fetch, queryVars, flushVars,
                   faults, historyVars>>

update_next(k) ==
    /\ k \in to_update
    /\ fetch[updater].pc = "off"
    /\ to_update' = to_update \ {k}
    /\ StartFetch(updater, k)
    /\ UNCHANGED <<upstream, cache, in_flight, queryVars, flushVars, faults,
                   historyVars>>

------------------------------------------------------------------------------
(* rabbitmq_listener.                                                        *)

\* Acknowledge, then spawn a task that pops the name's keys, with and without
\* DNSSEC.
receive_flush(n) ==
    /\ listener = "up"
    /\ flushes[n] > 0
    /\ flushes' = [flushes EXCEPT ![n] = @ - 1]
    /\ clearing' = [k \in Keys |-> IF k[1] = n THEN clearing[k] + 1 ELSE clearing[k]]
    /\ UNCHANGED <<upstream, cache, in_flight, fetch, queryVars, to_update,
                   listener, flushed, faults, historyVars>>

\* Mutant: the entry is looked up instead of popped.
cache_pop_peeks(k) ==
    /\ clearing[k] > 0
    /\ clearing' = [clearing EXCEPT ![k] = @ - 1]
    /\ cleared' = [cleared EXCEPT ![k] = upstream[k[1]]]
    /\ late' = late \cup {f \in Fetchers : fetch[f].pc = "put" /\ fetch[f].key = k}
    /\ overtaken' = overtaken \ {k}
    /\ UNCHANGED <<upstream, cache, in_flight, fetch, queryVars, to_update, flushes,
                   listener, flushed, faults, during>>

\* History: the flush was about the version of the name at this moment or an
\* earlier one; answers fetched before and not yet put come too late for it.
cache_pop(k) ==
    /\ clearing[k] > 0
    /\ clearing' = [clearing EXCEPT ![k] = @ - 1]
    /\ cache' = [cache EXCEPT ![k] = NoData]
    /\ cleared' = [cleared EXCEPT ![k] = upstream[k[1]]]
    /\ late' = late \cup {f \in Fetchers : fetch[f].pc = "put" /\ fetch[f].key = k}
    /\ overtaken' = overtaken \ {k}
    /\ UNCHANGED <<upstream, in_flight, fetch, queryVars, to_update, flushes,
                   listener, flushed, faults, during>>

\* The connection ends and the exclusive queue with it; when that happens
\* before a delivery is acknowledged, ack().unwrap() panics.
listener_disconnects ==
    /\ listener = "up"
    /\ Fault
    /\ listener' \in {"down", "dead"}
    /\ flushes' = [n \in Names |-> 0]
    /\ UNCHANGED <<upstream, cache, in_flight, fetch, queryVars, to_update,
                   clearing, flushed, historyVars>>

\* After 15 s; expect() panics when the broker is still away, and nothing
\* restarts the blocking task.
listener_reconnects ==
    /\ listener = "down"
    /\ \/ listener' = "up" /\ UNCHANGED faults
       \/ listener' = "dead" /\ Fault
    /\ UNCHANGED <<upstream, cache, in_flight, fetch, queryVars, to_update,
                   flushes, clearing, flushed, historyVars>>

------------------------------------------------------------------------------
(* The world outside.                                                        *)

\* The database behind the upstream changes.
upstream_changes(n) ==
    /\ upstream[n] < MaxVersion
    /\ upstream' = [upstream EXCEPT ![n] = @ + 1]
    /\ UNCHANGED <<cache, in_flight, fetch, queryVars, to_update, flushVars, faults,
                   historyVars>>

\* Somebody publishes a ClearCache message to the fanout exchange.
publish_flush(n) ==
    /\ flushed < MaxFlushes
    /\ flushed' = flushed + 1
    /\ flushes' = [flushes EXCEPT ![n] = IF listener = "up" THEN @ + 1 ELSE @]
    /\ UNCHANGED <<upstream, cache, in_flight, fetch, queryVars, to_update,
                   clearing, listener, faults, historyVars>>

\* valid_until or hard_valid_until passes.
expire(k) ==
    /\ \/ cache[k].age = "fresh" /\ cache' = [cache EXCEPT ![k].age = "stale"]
       \/ cache[k].age = "stale" /\ cache' = [cache EXCEPT ![k].age = "hard"]
    /\ UNCHANGED <<upstream, in_flight, fetch, queryVars, to_update, flushVars,
                   faults, historyVars>>

------------------------------------------------------------------------------
Init ==
    /\ upstream = [n \in Names |-> 1]
    /\ cache = [k \in Keys |-> NoData]
    /\ in_flight = {}
    /\ fetch = [f \in Fetchers |-> Off]
    /\ query = [q \in Queries |-> [pc |-> "idle", key |-> AnyKey]]
    /\ timer = [q \in Queries |-> "off"]
    /\ replies = [q \in Queries |-> <<>>]
    /\ to_update = {}
    /\ flushes = [n \in Names |-> 0]
    /\ clearing = [k \in Keys |-> 0]
    /\ listener = "up"
    /\ flushed = 0
    /\ faults = 0
    /\ late = {}
    /\ overtaken = {}
    /\ cleared = [k \in Keys |-> 0]
    /\ during = [k \in Keys |-> {}]

LocalFetchStep(f) == insert_marker(f) \/ cache_put(f) \/ remove_marker(f)

FetchStep(f) ==
    \/ LocalFetchStep(f)
    \/ \E servfail \in BOOLEAN : upstream_answers(f, servfail)
    \/ upstream_error(f)

LookupStep(q) == await_in_flight(q) \/ cache_get(q) \/ respond(q)
TimerStep(q) == timer_fires(q) \/ respond_timeout(q)
ForwardStep(q) == update_query(q) \/ axfr_query(q)

ReceiveRequest(q) ==
    \/ \E k \in Keys : receive_query(q, k)
    \/ reject_request(q)
    \/ forward_request(q, "update")
    \/ forward_request(q, "axfr")

UpdaterStep == collect_expired \/ \E k \in Keys : update_next(k)

FlushStep ==
    \/ \E n \in Names : receive_flush(n)
    \/ \E k \in Keys : cache_pop(k)
    \/ listener_disconnects
    \/ listener_reconnects

Next ==
    \/ \E f \in Fetchers : FetchStep(f)
    \/ \E q \in Queries : \/ ReceiveRequest(q)
                          \/ LookupStep(q)
                          \/ TimerStep(q)
                          \/ ForwardStep(q)
    \/ UpdaterStep
    \/ FlushStep
    \/ \E n \in Names : upstream_changes(n) \/ publish_flush(n)
    \/ \E k \in Keys : expire(k)

Spec == Init /\ [][Next]_vars

\* The runtime polls every task that can make progress and timers fire.  The
\* upstream need not ever answer.
LocalFairness ==
    /\ \A f \in Fetchers : WF_vars(LocalFetchStep(f))
    /\ \A q \in Queries : WF_vars(LookupStep(q)) /\ WF_vars(TimerStep(q))
    /\ WF_vars(UpdaterStep)
    /\ \A k \in Keys : WF_vars(cache_pop(k))

\* Moreover every call of the upstream ends, and time passes.
UpstreamFairness ==
    /\ \A f \in Fetchers : WF_vars(FetchStep(f))
    /\ \A q \in Queries : WF_vars(ForwardStep(q))
    /\ \A k \in Keys : WF_vars(expire(k))

FairSpec == Spec /\ LocalFairness

------------------------------------------------------------------------------
(* Properties.                                                               *)

\* Every variable holds a value of its kind.
TypeOK ==
    /\ upstream \in [Names -> Nat]
    /\ cache \in [Keys -> CacheData \cup {NoData}]
    /\ in_flight \subseteq Keys
    /\ fetch \in [Fetchers -> Fetch]
    /\ query \in [Queries -> [pc : QueryPCs, key : Keys]]
    /\ timer \in [Queries -> {"off", "armed", "fired"}]
    /\ replies \in [Queries -> Seq(Replies)]
    /\ to_update \subseteq Keys
    /\ flushes \in [Names -> Nat]
    /\ clearing \in [Keys -> Nat]
    /\ listener \in {"up", "down", "dead"}
    /\ flushed \in Nat
    /\ faults \in Nat
    /\ late \subseteq Fetchers
    /\ overtaken \subseteq Keys
    /\ cleared \in [Keys -> Nat]
    /\ during \in [Keys -> SUBSET Fetchers]

\* A marker in in_flight always belongs to a fetch that will still remove it:
\* requests polling for it in lookup_cache_or_fetch do not wait for nobody, however
\* misses, refreshes and the updater overlap on a key and whichever fails.
MarkerHasFetcher ==
    \A k \in in_flight :
        \E f \in Fetchers : /\ fetch[f].key = k
                            /\ fetch[f].pc \in {"await", "put", "remove"}

\* After a flush removed a key, an older answer is in the cache only if a fetch
\* held it already when the key was popped and put it afterwards:
\* in_flight does not order flushes and fetches.
StaleOnlyIfOvertaken ==
    \A k \in Keys : cache[k] # NoData /\ cache[k].version < cleared[k]
                        => k \in overtaken

\* A SERVFAIL replaces a usable good answer only when it is the answer to a
\* second miss that had begun before the good one was cached; refreshes and the
\* updater (new = false) keep serving the old answer while the upstream fails.
ServFailOnlyByEarlierMiss ==
    [][\A k \in Keys :
          /\ cache[k].age \in {"fresh", "stale"}
          /\ ~cache[k].servfail
          /\ cache'[k].servfail
          => \E f \in during[k] : fetch[f].pc = "put" /\ fetch'[f].pc = "remove"]_vars

\* Every query gets a response, if need be the ServFail of the timeout task,
\* even when the upstream never answers and its marker is never removed.
EveryQueryAnswered ==
    \A q \in Queries : query[q].pc = "wait" ~> replies[q] # <<>>

\* When the upstream answers and stops changing, every entry ends up current:
\* lost flushes, overtaken ones and cached SERVFAILs are repaired by the updater.
CacheConverges ==
    UpstreamFairness =>
        \A k \in Keys : <>[](cache[k] # NoData => /\ cache[k].version = upstream[k[1]]
                                                /\ ~cache[k].servfail)

==============================================================================
