------------------------------- MODULE Cache -------------------------------
(***************************************************************************)
(* The three caches between a reader and the database.  In the Next server *)
(* the Map of web/src/lib/api.ts serves an entry past its time to live     *)
(* while it fetches a new one; that fetch goes through the Data Cache of   *)
(* Next, because every public page asks for it (next.revalidate), which    *)
(* serves an entry of any age while it fetches one behind it; and every    *)
(* public endpoint of the API asks Redis before it queries and fills it    *)
(* before it answers (app/cache/redis_l2.py, app/api/response_cache.py).   *)
(* Nothing invalidates an entry, and no layer says how old its data were   *)
(* when it got them: a skill that was hidden, deleted or changed goes on   *)
(* being served from each layer in turn.                                   *)
(*                                                                         *)
(* "db" counts how often the true answer to each request has changed; data *)
(* are the count at the time of the query.  Time passes in ticks, and an   *)
(* entry counts the ticks since it was written.  How long a request takes  *)
(* is not bounded: the abort of fetchJson ends with the response's head,   *)
(* before its body is read.  An answer is there in the one state that      *)
(* shows it.                                                               *)
(***************************************************************************)
EXTENDS Integers, FiniteSets

CONSTANTS
    Keys,          \* requests that are cached: method, path and query
    Visitors,      \* readers of the site
    RedisTtl,      \* the time to live of the endpoint's entries, in ticks
    Fresh,         \* ttlMs of the endpoint's profile
    Stale,         \* staleWhileRevalidateMs of the profile
    Revalidate,    \* revalidateSeconds of the page
    MaxEntries,    \* SERVER_CACHE_MAX_ENTRIES
    MaxHandlers,   \* bound: requests the API works on at a time
    Changing,      \* bound: the requests whose answer changes, ...
    MaxChanges,    \* ... and how often
    MaxFailures    \* bound: database errors, restarts and aborted fetches

ASSUME TimesAssumption ==
    RedisTtl \in Nat /\ Fresh \in Nat /\ Stale \in Nat /\ Revalidate \in Nat
ASSUME SizesAssumption ==
    /\ MaxEntries \in Nat \ {0} /\ MaxHandlers \in Nat \ {0} /\ MaxChanges \in Nat
    /\ MaxFailures \in Nat

Handlers == 1..MaxHandlers
Versions == 0..MaxChanges

\* An entry and the ticks since it was written, which are counted up to a limit.
Entry(limit) == [data: Versions, since: 0..limit]
NoEntry      == [data |-> 0, since |-> -1]

VARIABLES
    db,        \* the version of the answer to each request in the database
    server,    \* entries of serverResponseCache
    order,     \* the order of the Map: pairs of a key and one inserted after it
    next,      \* entries of Next's Data Cache
    redis,     \* entries of Redis
    up,        \* whether Redis answers
    client,    \* whether the API has a Redis client: decided when it starts
    handler,   \* the requests the API works on
    inflight,  \* inflightRefreshes: where each key's fetch is
    waiting,   \* the key each visitor waits for, or none
    answer,    \* what each visitor gets in this state: a page, an error or nothing
    failures

api  == <<redis, up, client>>
site == <<server, order, next>>
vars == <<db, site, api, handler, inflight, waiting, answer, failures>>

NoKey    == "none"
NoAnswer == [key |-> NoKey, data |-> 0]
Error    == [key |-> NoKey, data |-> -1]
Nowhere  == 0      \* no fetch of the key is under way
AtNext   == -1     \* fetch was called and has not asked the Data Cache yet
Free     == [at |-> "free", key |-> NoKey, data |-> 0, behind |-> FALSE]

ASSUME KeysAssumption == NoKey \notin Keys /\ IsFiniteSet(Keys) /\ Changing \subseteq Keys

Init ==
    /\ db = [k \in Keys |-> 0] /\ order = {}
    /\ server = [k \in Keys |-> NoEntry] /\ next = server /\ redis = server
    /\ up \in BOOLEAN /\ client \in {FALSE, up}
    /\ handler = [h \in Handlers |-> Free]
    /\ inflight = [k \in Keys |-> Nowhere]
    /\ waiting = [v \in Visitors |-> NoKey]
    /\ answer = [v \in Visitors |-> NoAnswer]
    /\ failures = 0

(***************************************************************************)
(* The Map of the Next server                                              *)
(***************************************************************************)
Cached == {k \in Keys : server[k] # NoEntry}

IsFresh(k) == k \in Cached /\ server[k].since <= Fresh
IsStale(k) == k \in Cached /\ server[k].since > Fresh /\ server[k].since <= Fresh + Stale

\* runRefresh: the fetch that is under way for the key, or a new one.
Refresh(k) == inflight' = [inflight EXCEPT ![k] = IF @ = Nowhere THEN AtNext ELSE @]

Page(k, content) == [key |-> k, data |-> content]

\* Nobody gets an answer, ...
Silent == answer' = [v \in Visitors |-> NoAnswer]

\* ... or one visitor does.
Show(v, page) == answer' = [u \in Visitors |-> IF u = v THEN page ELSE NoAnswer]

\* fetchWithServerCache: a fresh entry is the answer, ...
VisitFresh(v, k) ==
    /\ waiting[v] = NoKey /\ IsFresh(k)
    /\ Show(v, Page(k, server[k].data))
    /\ UNCHANGED <<db, site, api, handler, inflight, waiting, failures>>

\* ... so is a stale one, and a refresh is started behind it, ...
VisitStale(v, k) ==
    /\ waiting[v] = NoKey /\ IsStale(k)
    /\ Show(v, Page(k, server[k].data))
    /\ Refresh(k)
    /\ UNCHANGED <<db, site, api, handler, waiting, failures>>

\* ... and without either the visitor waits; an entry past both is dropped.
VisitMiss(v, k) ==
    /\ waiting[v] = NoKey /\ ~IsFresh(k) /\ ~IsStale(k)
    /\ waiting' = [waiting EXCEPT ![v] = k]
    /\ Refresh(k)
    /\ server' = [server EXCEPT ![k] = NoEntry]
    /\ order' = order \cap ((Cached \ {k}) \X (Cached \ {k}))
    /\ Silent /\ UNCHANGED <<db, next, api, handler, failures>>

\* writeServerCache, and the Data Cache alike: the new entry, its clock at zero.
Written(entries, k, data) == [entries EXCEPT ![k] = [data |-> data, since |-> 0]]

\* The Map with the key: a key that is rewritten keeps its place.
Inserted(k) == order \cup {<<j, k>> : j \in IF k \in Cached THEN {} ELSE Cached}

\* Mutant of Pruned: the limit is compared strictly.
PrunedLate(keys, later, entries) ==
    LET alive == {j \in keys : entries[j].since < Fresh + Stale}
    IN  {j \in alive : Cardinality({i \in alive : <<j, i>> \in later}) <= MaxEntries}

\* pruneServerCache: expired entries go, then the first ones inserted.
Pruned(keys, later, entries) ==
    LET alive == {j \in keys : entries[j].since < Fresh + Stale}
    IN  {j \in alive : Cardinality({i \in alive : <<j, i>> \in later}) < MaxEntries}

Keep(keys, later, entries) ==
    LET kept == Pruned(keys, later, entries) IN
    /\ server' = [j \in Keys |-> IF j \in kept THEN entries[j] ELSE NoEntry]
    /\ order' = later \cap (kept \X kept)

\* Everyone who waits for the key gets the same result.
Tell(k, result) ==
    /\ answer' = [v \in Visitors |-> IF waiting[v] = k THEN result ELSE NoAnswer]
    /\ waiting' = [v \in Visitors |-> IF waiting[v] = k THEN NoKey ELSE waiting[v]]
    /\ inflight' = [inflight EXCEPT ![k] = Nowhere]

\* A fetch brings data: they are in the Map as if they were of now.
Arrives(k, data) ==
    /\ Keep(Cached \cup {k}, Inserted(k), Written(server, k, data))
    /\ Tell(k, Page(k, data))

(***************************************************************************)
(* The Data Cache of Next under fetch                                      *)
(***************************************************************************)
\* The first free handler of the API takes a request.
Begins(h, k, behind) ==
    /\ handler[h] = Free /\ \A g \in Handlers : handler[g] = Free => h <= g
    /\ handler' = [handler EXCEPT ![h] = [at |-> "lookup", key |-> k, data |-> 0, behind |-> behind]]

\* An entry is the answer, however old it is.  One that has outlived its time is
\* fetched anew behind the answer, unless that is under way.
CacheHit(k) ==
    /\ inflight[k] = AtNext /\ next[k] # NoEntry
    /\ Arrives(k, next[k].data)
    /\ \/ next[k].since <= Revalidate /\ UNCHANGED handler
       \/ next[k].since > Revalidate /\ \E h \in Handlers : Begins(h, k, TRUE)
       \/ /\ next[k].since > Revalidate /\ UNCHANGED handler
          /\ \E h \in Handlers : handler[h].key = k /\ handler[h].behind
    /\ UNCHANGED <<db, next, api, failures>>

\* Without an entry the request goes to the API.
CacheMiss(k) ==
    /\ inflight[k] = AtNext /\ next[k] = NoEntry
    /\ \E h \in Handlers : Begins(h, k, FALSE) /\ inflight' = [inflight EXCEPT ![k] = h]
    /\ Silent /\ UNCHANGED <<db, site, api, waiting, failures>>

\* The answer of the API reaches the fetch that asked for it: it is stored on its
\* way, and told.
Deliver(h) ==
    LET k == handler[h].key IN
    /\ handler[h].at = "reply" /\ inflight[k] = h
    /\ Arrives(k, handler[h].data)
    /\ next' = Written(next, k, handler[h].data)
    /\ handler' = [handler EXCEPT ![h] = Free]
    /\ UNCHANGED <<db, api, failures>>

\* The answer to a fetch behind an answer goes to the Data Cache alone.
Revalidated(h) ==
    /\ handler[h].at = "reply" /\ handler[h].behind
    /\ next' = Written(next, handler[h].key, handler[h].data)
    /\ handler' = [handler EXCEPT ![h] = Free]
    /\ Silent /\ UNCHANGED <<db, server, order, api, inflight, waiting, failures>>

\* The fetch had given up: nobody reads the answer.
Discard(h) ==
    /\ handler[h].at = "reply" /\ ~handler[h].behind /\ inflight[handler[h].key] # h
    /\ handler' = [handler EXCEPT ![h] = Free]
    /\ Silent /\ UNCHANGED <<db, site, api, inflight, waiting, failures>>

\* No response within eight seconds: the fetch is aborted, while the API goes on
\* with the request.  A fetch behind an answer is not aborted.
Abort(k) ==
    /\ inflight[k] \in Handlers
    /\ failures < MaxFailures /\ failures' = failures + 1
    /\ Tell(k, Error)
    /\ UNCHANGED <<db, site, api, handler>>

(***************************************************************************)
(* A public endpoint of the API                                            *)
(***************************************************************************)
InRedis(k) == client /\ up /\ redis[k] # NoEntry

Found(h)  == [handler EXCEPT ![h] = [@ EXCEPT !.at = "reply", !.data = redis[handler[h].key].data]]
Missed(h) == [handler EXCEPT ![h] = [@ EXCEPT !.at = "query"]]

\* Mutant of Lookup: an error of the Redis client is not caught.
LookupStrict(h) ==
    LET k == handler[h].key IN
    /\ handler[h].at = "lookup"
    /\ \/ InRedis(k) /\ handler' = Found(h)
       \/ (client => up) /\ ~InRedis(k) /\ handler' = Missed(h)
       \/ client /\ ~up /\ handler' = [handler EXCEPT ![h] = Free]
    /\ IF client /\ ~up /\ inflight[k] = h THEN Tell(k, Error)
       ELSE Silent /\ UNCHANGED <<inflight, waiting>>
    /\ UNCHANGED <<db, site, api, failures>>

\* try_cached_response: an entry is the answer.  Without a client or an entry, and
\* when Redis does not answer in time, the request goes on as after a miss.
Lookup(h) ==
    /\ handler[h].at = "lookup"
    /\ \/ InRedis(handler[h].key) /\ handler' = Found(h)
       \/ handler' = Missed(h)
    /\ Silent /\ UNCHANGED <<db, site, api, inflight, waiting, failures>>

\* The query of the endpoint reads the database.
Query(h) ==
    /\ handler[h].at = "query"
    /\ handler' = [handler EXCEPT ![h] = [@ EXCEPT !.at = "store", !.data = db[handler[h].key]]]
    /\ Silent /\ UNCHANGED <<db, site, api, inflight, waiting, failures>>

\* The query fails, and the endpoint answers 500, which no layer stores.
QueryFails(h) ==
    /\ handler[h].at = "query"
    /\ failures < MaxFailures /\ failures' = failures + 1
    /\ handler' = [handler EXCEPT ![h] = Free]
    /\ IF inflight[handler[h].key] = h THEN Tell(handler[h].key, Error)
       ELSE Silent /\ UNCHANGED <<inflight, waiting>>
    /\ UNCHANGED <<db, site, api>>

\* set_cached_response: whatever a later request has put there is overwritten.
\* Nothing is stored when Redis does not answer in time.
Store(h) ==
    /\ handler[h].at = "store"
    /\ \/ client /\ up /\ redis' = Written(redis, handler[h].key, handler[h].data)
       \/ UNCHANGED redis
    /\ handler' = [handler EXCEPT ![h] = [@ EXCEPT !.at = "reply"]]
    /\ Silent /\ UNCHANGED <<db, site, up, client, inflight, waiting, failures>>

(***************************************************************************)
(* Changes, Redis, restarts and time                                       *)
(***************************************************************************)
\* A worker or an administrator changes what the endpoints show.
Change(k) ==
    /\ db[k] < MaxChanges /\ db' = [db EXCEPT ![k] = @ + 1]
    /\ Silent /\ UNCHANGED <<site, api, handler, inflight, waiting, failures>>

\* Redis stops, with what it held: it writes nothing to disk.
RedisStops ==
    /\ up /\ up' = FALSE
    /\ redis' = [k \in Keys |-> NoEntry]
    /\ Silent /\ UNCHANGED <<db, site, client, handler, inflight, waiting, failures>>

RedisStarts ==
    /\ ~up /\ up' = TRUE
    /\ Silent /\ UNCHANGED <<db, site, client, redis, handler, inflight, waiting, failures>>

\* Whoever waits for one of some keys gets an error.
Dropped(keys) ==
    /\ inflight' = [k \in Keys |-> IF k \in keys THEN Nowhere ELSE inflight[k]]
    /\ answer' = [v \in Visitors |-> IF waiting[v] \in keys THEN Error ELSE NoAnswer]
    /\ waiting' = [v \in Visitors |-> IF waiting[v] \in keys THEN NoKey ELSE waiting[v]]

\* The API restarts: its requests end in an error, and it has a Redis client
\* from now on only if Redis answers the first ping.
RestartApi ==
    /\ failures < MaxFailures /\ failures' = failures + 1
    /\ client' \in {FALSE, up}
    /\ handler' = [h \in Handlers |-> Free]
    /\ Dropped({k \in Keys : inflight[k] \in Handlers})
    /\ UNCHANGED <<db, site, redis, up>>

\* The Next server restarts: the Map and its fetches are gone, while the Data
\* Cache is on disk, unless the server is deployed anew.
RestartNext ==
    /\ failures < MaxFailures /\ failures' = failures + 1
    /\ server' = [k \in Keys |-> NoEntry] /\ order' = {}
    /\ \E kept \in BOOLEAN : next' = IF kept THEN next ELSE [k \in Keys |-> NoEntry]
    /\ handler' = [h \in Handlers |-> [handler[h] EXCEPT !.behind = FALSE]]
    /\ Dropped(Keys)
    /\ UNCHANGED <<db, api>>

\* An entry one tick later, of a cache that does not care for ticks past a limit.
Older(entry, limit) ==
    IF entry = NoEntry \/ entry.since > limit THEN entry ELSE [entry EXCEPT !.since = @ + 1]


\* An entry of Redis one tick later: gone when it has outlived the limit.
Aged(entry, limit) ==
    IF entry = NoEntry \/ entry.since >= limit THEN NoEntry ELSE [entry EXCEPT !.since = @ + 1]

Tick ==
    /\ server' = [k \in Keys |-> Older(server[k], Fresh + Stale)]
    /\ next' = [k \in Keys |-> Older(next[k], Revalidate)]
    /\ redis' = [k \in Keys |-> Aged(redis[k], RedisTtl)]
    /\ Silent /\ UNCHANGED <<db, order, up, client, handler, inflight, waiting, failures>>

Fetch(k) == CacheHit(k) \/ CacheMiss(k)

Work(h) ==
    \/ Lookup(h) \/ Query(h) \/ QueryFails(h) \/ Store(h)
    \/ Deliver(h) \/ Revalidated(h) \/ Discard(h)

Next ==
    \/ \E v \in Visitors, k \in Keys : VisitFresh(v, k) \/ VisitStale(v, k) \/ VisitMiss(v, k)
    \/ \E k \in Keys : Fetch(k) \/ Abort(k)
    \/ \E h \in Handlers : Work(h)
    \/ \E k \in Changing : Change(k)
    \/ RedisStops \/ RedisStarts \/ RestartApi \/ RestartNext \/ Tick

Spec == Init /\ [][Next]_vars

\* Both event loops come back to every request, what is asked is answered unless
\* it fails, and time goes on.
FairSpec ==
    /\ Spec /\ WF_vars(Tick)
    /\ \A k \in Keys : WF_vars(Fetch(k))
    /\ \A h \in Handlers : WF_vars(Work(h))

(***************************************************************************)
(* Properties                                                              *)
(***************************************************************************)
Handler ==
    [at: {"lookup", "query", "store", "reply"}, key: Keys, data: Versions, behind: BOOLEAN]

\* The types of the state; the Next server holds no more than its limit of
\* entries, in an order without ties, and a key awaits only a request that is for it.
TypeOK ==
    /\ db \in [Keys -> Versions]
    /\ server \in [Keys -> Entry(Fresh + Stale + 1) \cup {NoEntry}]
    /\ Cardinality(Cached) <= MaxEntries
    /\ order \subseteq Cached \X Cached
    /\ \A j, k \in Cached : j # k <=> <<j, k>> \in order \/ <<k, j>> \in order
    /\ \A i, j, k \in Cached : <<i, j>> \in order /\ <<j, k>> \in order => <<i, k>> \in order
    /\ next \in [Keys -> Entry(Revalidate + 1) \cup {NoEntry}]
    /\ redis \in [Keys -> Entry(RedisTtl) \cup {NoEntry}]
    /\ up \in BOOLEAN /\ client \in BOOLEAN
    /\ handler \in [Handlers -> Handler \cup {Free}]
    /\ inflight \in [Keys -> {Nowhere, AtNext} \cup Handlers]
    /\ \A k \in Keys : inflight[k] \in Handlers =>
           handler[inflight[k]].key = k /\ ~handler[inflight[k]].behind
    /\ waiting \in [Visitors -> Keys \cup {NoKey}]
    /\ answer \in [Visitors -> [key : Keys, data : Versions] \cup {NoAnswer, Error}]
    /\ failures \in 0..MaxFailures


\* docs/CACHE_STRATEGY.md, "Fail-open: if Redis is down/unavailable, API continues
\* without cache": everyone who waits is answered, and with data as long as
\* nothing but Redis has failed.
FailOpen ==
    \A v \in Visitors :
        waiting[v] # NoKey ~> waiting[v] = NoKey /\ (answer[v].key \in Keys \/ failures > 0)
=============================================================================
