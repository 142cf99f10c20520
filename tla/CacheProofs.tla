---------------------------- MODULE CacheProofs ----------------------------
(***************************************************************************)
(* The types of the three caches and the limit of the Map, for every number*)
(* of keys, visitors and requests, all times to live and all limits.       *)
(*                                                                         *)
(* A fetch that waits for a request of the API is the only one that does,  *)
(* and the request is for its key: this is what keeps the two sides of a   *)
(* fetch together when either side gives up or restarts.                   *)
(*                                                                         *)
(* The second part is about the Map: its order is total, which makes the   *)
(* number of later keys a rank, and a pruning by rank leaves no more than  *)
(* MaxEntries and always the last key inserted.                            *)
(***************************************************************************)
EXTENDS Cache, FiniteSetTheorems, TLAPS

EntriesInv ==
    /\ server \in [Keys -> Entry(Fresh + Stale + 1) \cup {NoEntry}]
    /\ next \in [Keys -> Entry(Revalidate + 1) \cup {NoEntry}]
    /\ redis \in [Keys -> Entry(RedisTtl) \cup {NoEntry}]

FetchInv ==
    /\ handler \in [Handlers -> Handler \cup {Free}]
    /\ inflight \in [Keys -> {Nowhere, AtNext} \cup Handlers]
    /\ \A k \in Keys : inflight[k] \in Handlers =>
           handler[inflight[k]].key = k /\ ~handler[inflight[k]].behind

Answers == [key : Keys, data : Versions] \cup {NoAnswer, Error}

VisitorsInv ==
    /\ waiting \in [Visitors -> Keys \cup {NoKey}]
    /\ answer \in [Visitors -> Answers]

RestInv ==
    /\ db \in [Keys -> Versions]
    /\ up \in BOOLEAN /\ client \in BOOLEAN
    /\ failures \in 0..MaxFailures

Typed == EntriesInv /\ FetchInv /\ VisitorsInv /\ RestInv

\* The limits are numbers, and no place of a fetch is another.
LEMMA Numbers ==
    /\ RedisTtl \in Nat /\ Fresh + Stale + 1 \in Nat /\ Revalidate + 1 \in Nat
    /\ 0 \in Versions /\ Nowhere \notin Handlers /\ AtNext \notin Handlers
    /\ NoKey \notin Keys
  BY TimesAssumption, SizesAssumption, KeysAssumption DEF Versions, Handlers, Nowhere, AtNext

\* What an entry holds, and that no entry is the missing one.
LEMMA EntryHolds ==
    ASSUME NEW n \in Nat, NEW e \in Entry(n) \cup {NoEntry}
    PROVE  e.data \in Versions /\ (e # NoEntry => e \in Entry(n) /\ e.since \in 0..n)
  BY Numbers DEF Entry, NoEntry

LEMMA WrittenIsTyped ==
    ASSUME NEW n \in Nat, NEW entries \in [Keys -> Entry(n) \cup {NoEntry}],
           NEW k \in Keys, NEW data \in Versions
    PROVE  Written(entries, k, data) \in [Keys -> Entry(n) \cup {NoEntry}]
<1>1. [data |-> data, since |-> 0] \in Entry(n)
  BY DEF Entry
<1> QED
  BY <1>1 DEF Written

\* An entry one tick later: of its type, and missing only if it was.
LEMMA OlderIsTyped ==
    ASSUME NEW n \in Nat, NEW e \in Entry(n + 1) \cup {NoEntry}
    PROVE  Older(e, n) \in Entry(n + 1) \cup {NoEntry} /\ (Older(e, n) = NoEntry <=> e = NoEntry)
<1>1. CASE e = NoEntry \/ e.since > n
  BY <1>1 DEF Older
<1>2. CASE ~(e = NoEntry \/ e.since > n)
  <2>1. e \in Entry(n + 1) /\ e.since \in 0..n
    BY <1>2, EntryHolds DEF Entry
  <2>2. Older(e, n) = [e EXCEPT !.since = @ + 1]
    BY <1>2 DEF Older
  <2>3. Older(e, n) \in Entry(n + 1) /\ Older(e, n).since = e.since + 1
    BY <2>1, <2>2 DEF Entry
  <2>4. Older(e, n) # NoEntry
    BY <2>1, <2>3 DEF NoEntry
  <2> QED
    BY <1>2, <2>3, <2>4
<1> QED
  BY <1>1, <1>2

LEMMA AgedIsTyped ==
    ASSUME NEW n \in Nat, NEW e \in Entry(n) \cup {NoEntry}
    PROVE  Aged(e, n) \in Entry(n) \cup {NoEntry}
<1>1. CASE e = NoEntry \/ e.since >= n
  BY <1>1 DEF Aged
<1>2. CASE ~(e = NoEntry \/ e.since >= n)
  <2>1. e \in Entry(n) /\ e.since \in 0..n /\ e.since + 1 \in 0..n
    BY <1>2, EntryHolds
  <2>2. [e EXCEPT !.since = @ + 1] \in Entry(n)
    BY <2>1 DEF Entry
  <2> QED
    BY <1>2, <2>2 DEF Aged
<1> QED
  BY <1>1, <1>2

LEMMA TypedInit == Init => Typed
<1> SUFFICES ASSUME Init PROVE Typed
  OBVIOUS
<1>1. EntriesInv
  BY DEF Init, EntriesInv
<1>2. FetchInv
  BY Numbers DEF Init, FetchInv
<1>3. VisitorsInv
  BY DEF Init, VisitorsInv, Answers
<1>4. RestInv
  <2>1. db \in [Keys -> Versions]
    BY Numbers DEF Init
  <2>2. up \in BOOLEAN /\ (client = FALSE \/ client = up)
    BY DEF Init
  <2>3. client \in BOOLEAN
    BY <2>2
  <2>4. failures \in 0..MaxFailures
    BY SizesAssumption DEF Init
  <2> QED
    BY <2>1, <2>2, <2>3, <2>4 DEF RestInv
<1> QED
  BY <1>1, <1>2, <1>3, <1>4 DEF Typed

(***************************************************************************)
(* What visitors get                                                       *)
(***************************************************************************)
LEMMA SilentIsTyped == Silent => answer' \in [Visitors -> Answers]
  BY DEF Silent, Answers

LEMMA ShowIsTyped ==
    ASSUME NEW v \in Visitors, NEW page \in Answers, Show(v, page)
    PROVE  answer' \in [Visitors -> Answers]
  BY DEF Show, Answers

\* A result is told; what awaited it does not wait any more.
LEMMA TellKeeps ==
    ASSUME Typed, NEW k \in Keys, NEW result \in Answers, Tell(k, result)
    PROVE  /\ VisitorsInv'
           /\ inflight' \in [Keys -> {Nowhere, AtNext} \cup Handlers]
           /\ inflight'[k] = Nowhere /\ \A j \in Keys \ {k} : inflight'[j] = inflight[j]
<1>1. waiting' \in [Visitors -> Keys \cup {NoKey}]
  BY DEF Tell, Typed, VisitorsInv
<1>2. answer' \in [Visitors -> Answers]
  BY DEF Tell, Answers
<1>3. inflight' = [inflight EXCEPT ![k] = Nowhere]
  BY DEF Tell
<1> QED
  BY <1>1, <1>2, <1>3 DEF Typed, VisitorsInv, FetchInv

LEMMA ErrorIsAnswer == Error \in Answers
  BY DEF Answers

LEMMA PageIsAnswer ==
    ASSUME NEW k \in Keys, NEW data \in Versions
    PROVE  Page(k, data) \in Answers
  BY DEF Page, Answers

LEMMA DroppedKeeps ==
    ASSUME Typed, NEW keys, Dropped(keys)
    PROVE  /\ VisitorsInv'
           /\ inflight' = [k \in Keys |-> IF k \in keys THEN Nowhere ELSE inflight[k]]
<1>1. waiting' \in [Visitors -> Keys \cup {NoKey}]
  BY DEF Dropped, Typed, VisitorsInv
<1>2. answer' \in [Visitors -> Answers]
  BY DEF Dropped, Answers
<1> QED
  BY <1>1, <1>2 DEF VisitorsInv, Dropped

(***************************************************************************)
(* Fetches and the requests they wait for                                  *)
(***************************************************************************)
LEMMA RefreshKeeps ==
    ASSUME Typed, NEW k \in Keys, Refresh(k), UNCHANGED handler
    PROVE  FetchInv'
  BY Numbers DEF Typed, Refresh, FetchInv

\* One request moves on: it is for the key it was for, and the others stay.
LEMMA WorkKeeps ==
    ASSUME Typed, NEW h \in Handlers, NEW r \in Handler,
           r.key = handler[h].key, r.behind = handler[h].behind,
           handler' = [handler EXCEPT ![h] = r], UNCHANGED inflight
    PROVE  FetchInv'
<1>1. handler' \in [Handlers -> Handler \cup {Free}]
  BY DEF Typed, FetchInv
<1>2. \A g \in Handlers : handler'[g].key = handler[g].key /\ handler'[g].behind = handler[g].behind
  BY DEF Typed, FetchInv
<1> QED
  BY <1>1, <1>2 DEF Typed, FetchInv

\* The end of a request no key awaits any more.
LEMMA EndKeeps ==
    ASSUME Typed, NEW h \in Handlers, handler' = [handler EXCEPT ![h] = Free],
           inflight' \in [Keys -> {Nowhere, AtNext} \cup Handlers],
           \A j \in Keys : inflight'[j] \in Handlers => inflight'[j] = inflight[j] /\ inflight[j] # h
    PROVE  FetchInv'
<1>1. handler' \in [Handlers -> Handler \cup {Free}]
  BY DEF Typed, FetchInv
<1>2. \A g \in Handlers \ {h} : handler'[g] = handler[g]
  BY DEF Typed, FetchInv
<1> QED
  BY <1>1, <1>2 DEF Typed, FetchInv

\* A free handler takes a request that nobody or the fetch of its key awaits.
LEMMA BeginsKeeps ==
    ASSUME Typed, NEW h \in Handlers, NEW k \in Keys, NEW behind \in BOOLEAN,
           Begins(h, k, behind),
           inflight' \in [Keys -> {Nowhere, AtNext} \cup Handlers],
           \A j \in Keys : inflight'[j] \in Handlers =>
               inflight'[j] = inflight[j] \/ (j = k /\ inflight'[j] = h /\ ~behind)
    PROVE  FetchInv'
<1> DEFINE new == [at |-> "lookup", key |-> k, data |-> 0, behind |-> behind]
<1>1. new \in Handler /\ new.key = k /\ new.behind = behind
  BY Numbers DEF Handler
<1>2. handler[h] = Free /\ handler' = [handler EXCEPT ![h] = new]
  BY DEF Begins
<1> HIDE DEF new
<1>3. /\ handler' \in [Handlers -> Handler \cup {Free}]
      /\ handler'[h] = new /\ \A g \in Handlers \ {h} : handler'[g] = handler[g]
  BY <1>1, <1>2 DEF Typed, FetchInv
<1>4. \A j \in Keys : inflight[j] # h
  BY <1>2, Numbers DEF Typed, FetchInv, Free
<1> QED
  BY <1>1, <1>3, <1>4 DEF Typed, FetchInv

(***************************************************************************)
(* Every step                                                              *)
(***************************************************************************)
\* What a visit does keeps the types.
LEMMA VisitsKeep ==
    ASSUME Typed, NEW v \in Visitors, NEW k \in Keys,
           VisitFresh(v, k) \/ VisitStale(v, k) \/ VisitMiss(v, k)
    PROVE  Typed'
<1>1. RestInv'
  BY DEF Typed, RestInv, VisitFresh, VisitStale, VisitMiss, api
<1>2. next' = next /\ redis' = redis /\ handler' = handler
  BY DEF VisitFresh, VisitStale, VisitMiss, api, site
<1>3. server[k].data \in Versions
  BY Numbers, EntryHolds DEF Typed, EntriesInv
<1>4. Page(k, server[k].data) \in Answers
  BY <1>3, PageIsAnswer
<1>5. CASE VisitFresh(v, k)
  <2>1. waiting' = waiting /\ Show(v, Page(k, server[k].data)) /\ inflight' = inflight /\ server' = server
    BY <1>5 DEF VisitFresh, site
  <2>2. answer' \in [Visitors -> Answers]
    BY <1>4, <2>1, ShowIsTyped
  <2> QED
    BY <1>1, <1>2, <2>1, <2>2 DEF Typed, EntriesInv, FetchInv, VisitorsInv
<1>6. CASE VisitStale(v, k)
  <2>1. waiting' = waiting /\ Show(v, Page(k, server[k].data)) /\ Refresh(k) /\ server' = server
    BY <1>6 DEF VisitStale, site
  <2>2. answer' \in [Visitors -> Answers]
    BY <1>4, <2>1, ShowIsTyped
  <2>3. FetchInv'
    BY <1>2, <2>1, RefreshKeeps
  <2> QED
    BY <1>1, <1>2, <2>1, <2>2, <2>3 DEF Typed, EntriesInv, VisitorsInv
<1>7. CASE VisitMiss(v, k)
  <2>1. /\ waiting' = [waiting EXCEPT ![v] = k] /\ Silent /\ Refresh(k)
        /\ server' = [server EXCEPT ![k] = NoEntry]
    BY <1>7 DEF VisitMiss
  <2>2. FetchInv'
    BY <1>2, <2>1, RefreshKeeps
  <2>3. VisitorsInv'
    BY <2>1, SilentIsTyped DEF Typed, VisitorsInv
  <2> QED
    BY <1>1, <1>2, <2>1, <2>2, <2>3 DEF Typed, EntriesInv
<1> QED
  BY <1>5, <1>6, <1>7

\* Data that arrive are written and told.
LEMMA ArrivesKeeps ==
    ASSUME Typed, NEW k \in Keys, NEW data \in Versions, Arrives(k, data)
    PROVE  /\ server' \in [Keys -> Entry(Fresh + Stale + 1) \cup {NoEntry}]
           /\ VisitorsInv'
           /\ inflight' \in [Keys -> {Nowhere, AtNext} \cup Handlers]
           /\ inflight'[k] = Nowhere /\ \A j \in Keys \ {k} : inflight'[j] = inflight[j]
<1> DEFINE entries == Written(server, k, data)
<1>1. entries \in [Keys -> Entry(Fresh + Stale + 1) \cup {NoEntry}]
  BY Numbers, WrittenIsTyped DEF Typed, EntriesInv
<1>2. \E kept : server' = [j \in Keys |-> IF j \in kept THEN entries[j] ELSE NoEntry]
  BY DEF Arrives, Keep
<1> HIDE DEF entries
<1>3. server' \in [Keys -> Entry(Fresh + Stale + 1) \cup {NoEntry}]
  BY <1>1, <1>2
<1>4. Page(k, data) \in Answers /\ Tell(k, Page(k, data))
  BY PageIsAnswer DEF Arrives
<1> QED
  BY <1>3, <1>4, TellKeeps

\* What the Data Cache answers, and what it asks.
LEMMA FetchKeeps ==
    ASSUME Typed, NEW k \in Keys, Fetch(k)
    PROVE  Typed'
<1>1. CASE CacheHit(k)
  <2>1. next[k].data \in Versions
    BY Numbers, EntryHolds DEF Typed, EntriesInv
  <2>2. Arrives(k, next[k].data)
    BY <1>1 DEF CacheHit
  <2>3. /\ server' \in [Keys -> Entry(Fresh + Stale + 1) \cup {NoEntry}]
        /\ VisitorsInv'
        /\ inflight' \in [Keys -> {Nowhere, AtNext} \cup Handlers]
        /\ inflight'[k] = Nowhere /\ \A j \in Keys \ {k} : inflight'[j] = inflight[j]
    BY <2>1, <2>2, ArrivesKeeps
  <2>4. \A j \in Keys : inflight'[j] \in Handlers => inflight'[j] = inflight[j]
    BY <2>3, Numbers
  <2>5. UNCHANGED handler \/ \E h \in Handlers : Begins(h, k, TRUE)
    BY <1>1 DEF CacheHit
  <2>6. FetchInv'
    <3>1. CASE UNCHANGED handler
      BY <2>3, <2>4, <3>1 DEF Typed, FetchInv
    <3>2. ASSUME NEW h \in Handlers, Begins(h, k, TRUE) PROVE FetchInv'
      BY <2>3, <2>4, <3>2, BeginsKeeps
    <3> QED
      BY <2>5, <3>1, <3>2
  <2>7. EntriesInv' /\ RestInv'
    BY <1>1, <2>3 DEF CacheHit, api, Typed, EntriesInv, RestInv
  <2> QED
    BY <2>3, <2>6, <2>7 DEF Typed
<1>2. CASE CacheMiss(k)
  <2>1. PICK h \in Handlers : Begins(h, k, FALSE) /\ inflight' = [inflight EXCEPT ![k] = h]
    BY <1>2 DEF CacheMiss
  <2>2. inflight' \in [Keys -> {Nowhere, AtNext} \cup Handlers]
    BY <2>1 DEF Typed, FetchInv
  <2>3. \A j \in Keys : inflight'[j] \in Handlers =>
            inflight'[j] = inflight[j] \/ (j = k /\ inflight'[j] = h /\ ~FALSE)
    BY <2>1 DEF Typed, FetchInv
  <2>4. FetchInv'
    BY <2>1, <2>2, <2>3, BeginsKeeps
  <2>5. (EntriesInv /\ VisitorsInv /\ RestInv)'
    BY <1>2, SilentIsTyped DEF CacheMiss, api, site, Typed, EntriesInv, VisitorsInv, RestInv
  <2> QED
    BY <2>4, <2>5 DEF Typed
<1> QED
  BY <1>1, <1>2 DEF Fetch

\* What the API does for a request keeps the types.
LEMMA WorkingKeeps ==
    ASSUME Typed, NEW h \in Handlers, Work(h)
    PROVE  Typed'
<1>1. handler[h] \in Handler \cup {Free}
  BY DEF Typed, FetchInv
<1>2. CASE Lookup(h)
  <2> DEFINE k == handler[h].key
             hit == [handler[h] EXCEPT !.at = "reply", !.data = redis[k].data]
             miss == [handler[h] EXCEPT !.at = "query"]
  <2>1. handler[h] \in Handler /\ k \in Keys
    BY <1>1, <1>2 DEF Lookup, Free, Handler
  <2>2. redis[k].data \in Versions
    BY <2>1, Numbers, EntryHolds DEF Typed, EntriesInv
  <2>3. /\ hit \in Handler /\ hit.key = handler[h].key /\ hit.behind = handler[h].behind
        /\ miss \in Handler /\ miss.key = handler[h].key /\ miss.behind = handler[h].behind
    BY <2>1, <2>2 DEF Handler
  <2>4. /\ handler' = [handler EXCEPT ![h] = hit] \/ handler' = [handler EXCEPT ![h] = miss]
        /\ UNCHANGED inflight
    BY <1>2 DEF Lookup, Found, Missed
  <2> HIDE DEF hit, miss
  <2>5. FetchInv'
    BY <2>3, <2>4, WorkKeeps
  <2>6. (EntriesInv /\ VisitorsInv /\ RestInv)'
    BY <1>2, SilentIsTyped DEF Lookup, api, site, Typed, EntriesInv, VisitorsInv, RestInv
  <2> QED
    BY <2>5, <2>6 DEF Typed
<1>3. CASE Query(h)
  <2> DEFINE read == [handler[h] EXCEPT !.at = "store", !.data = db[handler[h].key]]
  <2>1. handler[h] \in Handler /\ db[handler[h].key] \in Versions
    BY <1>1, <1>3 DEF Query, Free, Handler, Typed, RestInv
  <2>2. read \in Handler /\ read.key = handler[h].key /\ read.behind = handler[h].behind
    BY <2>1 DEF Handler
  <2>3. FetchInv'
    BY <1>3, <2>2, WorkKeeps DEF Query
  <2>4. (EntriesInv /\ VisitorsInv /\ RestInv)'
    BY <1>3, SilentIsTyped DEF Query, api, site, Typed, EntriesInv, VisitorsInv, RestInv
  <2> QED
    BY <2>3, <2>4 DEF Typed
<1>4. CASE QueryFails(h)
  <2> DEFINE k == handler[h].key
  <2>1. k \in Keys
    BY <1>1, <1>4 DEF QueryFails, Free, Handler
  <2>2. VisitorsInv' /\ inflight' \in [Keys -> {Nowhere, AtNext} \cup Handlers]
        /\ \A j \in Keys : inflight'[j] \in Handlers => inflight'[j] = inflight[j] /\ inflight[j] # h
    <3>1. \A j \in Keys : inflight[j] = h => j = k
      BY DEF Typed, FetchInv
    <3>2. CASE inflight[k] = h
      <4>1. Tell(k, Error)
        BY <1>4, <3>2 DEF QueryFails
      <4> QED
        BY <2>1, <3>1, <4>1, TellKeeps, ErrorIsAnswer, Numbers
    <3>3. CASE inflight[k] # h
      <4>1. Silent /\ UNCHANGED <<inflight, waiting>>
        BY <1>4, <3>3 DEF QueryFails
      <4>2. VisitorsInv'
        BY <4>1, SilentIsTyped DEF Typed, VisitorsInv
      <4>3. inflight' = inflight
        BY <4>1
      <4> QED
        BY <3>1, <3>3, <4>2, <4>3 DEF Typed, FetchInv
    <3> QED
      BY <3>2, <3>3
  <2>3. FetchInv'
    BY <1>4, <2>2, EndKeeps DEF QueryFails
  <2>4. EntriesInv' /\ RestInv'
    BY <1>4, SizesAssumption DEF QueryFails, api, site, Typed, EntriesInv, RestInv
  <2> QED
    BY <2>2, <2>3, <2>4 DEF Typed
<1>5. CASE Store(h)
  <2> DEFINE stored == [handler[h] EXCEPT !.at = "reply"]
  <2>1. handler[h] \in Handler /\ handler[h].key \in Keys /\ handler[h].data \in Versions
    BY <1>1, <1>5 DEF Store, Free, Handler
  <2>2. stored \in Handler /\ stored.key = handler[h].key /\ stored.behind = handler[h].behind
    BY <2>1 DEF Handler
  <2>3. FetchInv'
    BY <1>5, <2>2, WorkKeeps DEF Store
  <2>4. Written(redis, handler[h].key, handler[h].data) \in [Keys -> Entry(RedisTtl) \cup {NoEntry}]
    BY <2>1, Numbers, WrittenIsTyped DEF Typed, EntriesInv
  <2>5. redis' \in [Keys -> Entry(RedisTtl) \cup {NoEntry}]
    BY <1>5, <2>4 DEF Store, Typed, EntriesInv
  <2>6. (EntriesInv /\ VisitorsInv /\ RestInv)'
    BY <1>5, <2>5, SilentIsTyped DEF Store, site, Typed, EntriesInv, VisitorsInv, RestInv
  <2> QED
    BY <2>3, <2>6 DEF Typed
<1>6. CASE Deliver(h)
  <2> DEFINE k == handler[h].key
             data == handler[h].data
  <2>1. k \in Keys /\ data \in Versions /\ Arrives(k, data) /\ inflight[k] = h
    BY <1>1, <1>6 DEF Deliver, Free, Handler
  <2>2. /\ server' \in [Keys -> Entry(Fresh + Stale + 1) \cup {NoEntry}]
        /\ VisitorsInv'
        /\ inflight' \in [Keys -> {Nowhere, AtNext} \cup Handlers]
        /\ inflight'[k] = Nowhere /\ \A j \in Keys \ {k} : inflight'[j] = inflight[j]
    BY <2>1, ArrivesKeeps
  <2>3. \A j \in Keys : inflight'[j] \in Handlers => inflight'[j] = inflight[j] /\ inflight[j] # h
    <3>1. \A j \in Keys : inflight[j] = h => j = k
      BY DEF Typed, FetchInv
    <3> QED
      BY <2>1, <2>2, <3>1, Numbers
  <2>4. FetchInv'
    BY <1>6, <2>2, <2>3, EndKeeps DEF Deliver
  <2>5. next' \in [Keys -> Entry(Revalidate + 1) \cup {NoEntry}]
    BY <1>6, <2>1, Numbers, WrittenIsTyped DEF Deliver, Typed, EntriesInv
  <2>6. EntriesInv' /\ RestInv'
    BY <1>6, <2>2, <2>5 DEF Deliver, api, Typed, EntriesInv, RestInv
  <2> QED
    BY <2>2, <2>4, <2>6 DEF Typed
<1>7. CASE Revalidated(h)
  <2>1. handler[h].key \in Keys /\ handler[h].data \in Versions
    BY <1>1, <1>7 DEF Revalidated, Free, Handler
  <2>2. \A j \in Keys : inflight[j] # h
    BY <1>7 DEF Revalidated, Typed, FetchInv
  <2>3. handler' = [handler EXCEPT ![h] = Free] /\ inflight' = inflight
    BY <1>7 DEF Revalidated
  <2>4. FetchInv'
    BY <2>2, <2>3, EndKeeps DEF Typed, FetchInv
  <2>5. next' \in [Keys -> Entry(Revalidate + 1) \cup {NoEntry}]
    BY <1>7, <2>1, Numbers, WrittenIsTyped DEF Revalidated, Typed, EntriesInv
  <2>6. (EntriesInv /\ VisitorsInv /\ RestInv)'
    BY <1>7, <2>5, SilentIsTyped DEF Revalidated, api, Typed, EntriesInv, VisitorsInv, RestInv
  <2> QED
    BY <2>4, <2>6 DEF Typed
<1>8. CASE Discard(h)
  <2>1. \A j \in Keys : inflight[j] # h
    BY <1>8 DEF Discard, Typed, FetchInv
  <2>2. handler' = [handler EXCEPT ![h] = Free] /\ inflight' = inflight
    BY <1>8 DEF Discard
  <2>3. FetchInv'
    BY <2>1, <2>2, EndKeeps DEF Typed, FetchInv
  <2>4. (EntriesInv /\ VisitorsInv /\ RestInv)'
    BY <1>8, SilentIsTyped DEF Discard, api, site, Typed, EntriesInv, VisitorsInv, RestInv
  <2> QED
    BY <2>3, <2>4 DEF Typed
<1> QED
  BY <1>2, <1>3, <1>4, <1>5, <1>6, <1>7, <1>8 DEF Work

\* Failures, changes, restarts and time keep the types.
LEMMA SurroundingsKeep ==
    ASSUME Typed,
           \/ \E k \in Keys : Abort(k) \/ (k \in Changing /\ Change(k))
           \/ RedisStops \/ RedisStarts \/ RestartApi \/ RestartNext \/ Tick
    PROVE  Typed'
<1>1. ASSUME NEW k \in Keys, Abort(k) PROVE Typed'
  <2>1. Tell(k, Error) /\ handler' = handler
    BY <1>1 DEF Abort
  <2>2. /\ VisitorsInv'
        /\ inflight' \in [Keys -> {Nowhere, AtNext} \cup Handlers]
        /\ inflight'[k] = Nowhere /\ \A j \in Keys \ {k} : inflight'[j] = inflight[j]
    BY <2>1, TellKeeps, ErrorIsAnswer
  <2>3. FetchInv'
    BY <2>1, <2>2, Numbers DEF Typed, FetchInv
  <2>4. EntriesInv' /\ RestInv'
    BY <1>1, SizesAssumption DEF Abort, api, site, Typed, EntriesInv, RestInv
  <2> QED
    BY <2>2, <2>3, <2>4 DEF Typed
<1>2. ASSUME NEW k \in Keys, Change(k) PROVE Typed'
  <2>1. db' \in [Keys -> Versions]
    <3>1. db[k] + 1 \in Versions
      BY <1>2, SizesAssumption DEF Change, Typed, RestInv, Versions
    <3> QED
      BY <1>2, <3>1 DEF Change, Typed, RestInv
  <2>2. (EntriesInv /\ FetchInv /\ VisitorsInv)'
    BY <1>2, SilentIsTyped DEF Change, api, site, Typed, EntriesInv, FetchInv, VisitorsInv
  <2>3. RestInv'
    BY <1>2, <2>1 DEF Change, api, Typed, RestInv
  <2> QED
    BY <2>2, <2>3 DEF Typed
<1>3. CASE RedisStops \/ RedisStarts
  <2>1. redis' \in [Keys -> Entry(RedisTtl) \cup {NoEntry}] /\ up' \in BOOLEAN
    BY <1>3 DEF RedisStops, RedisStarts, Typed, EntriesInv
  <2>2. /\ UNCHANGED <<db, server, next, client, handler, inflight, waiting, failures>>
        /\ Silent
    BY <1>3 DEF RedisStops, RedisStarts, site
  <2> QED
    BY <2>1, <2>2, SilentIsTyped DEF Typed, EntriesInv, FetchInv, VisitorsInv, RestInv
<1>4. CASE RestartApi
  <2>1. VisitorsInv' /\ \A k \in Keys : inflight'[k] = Nowhere \/ inflight'[k] \notin Handlers
    BY <1>4, DroppedKeeps DEF RestartApi
  <2>2. inflight' \in [Keys -> {Nowhere, AtNext} \cup Handlers]
    BY <1>4, DroppedKeeps DEF RestartApi, Typed, FetchInv
  <2>3. FetchInv'
    BY <1>4, <2>1, <2>2, Numbers DEF RestartApi, FetchInv
  <2>4. client' \in BOOLEAN
    <3>1. client' = FALSE \/ client' = up
      BY <1>4 DEF RestartApi
    <3> QED
      BY <3>1 DEF Typed, RestInv
  <2>5. EntriesInv' /\ RestInv'
    BY <1>4, <2>4, SizesAssumption DEF RestartApi, site, Typed, EntriesInv, RestInv
  <2> QED
    BY <2>1, <2>3, <2>5 DEF Typed
<1>5. CASE RestartNext
  <2>1. VisitorsInv' /\ \A k \in Keys : inflight'[k] = Nowhere
    BY <1>5, DroppedKeeps DEF RestartNext
  <2>2. inflight' \in [Keys -> {Nowhere, AtNext} \cup Handlers]
    BY <1>5, DroppedKeeps DEF RestartNext
  <2>3. handler' \in [Handlers -> Handler \cup {Free}]
    <3>1. ASSUME NEW h \in Handlers PROVE [handler[h] EXCEPT !.behind = FALSE] \in Handler \cup {Free}
      <4>1. CASE handler[h] \in Handler
        BY <4>1 DEF Handler
      <4>2. CASE handler[h] = Free
        <5>1. [Free EXCEPT !.behind = FALSE] = Free
          <6>1. /\ DOMAIN Free = {"at", "key", "data", "behind"}
                /\ Free = [f \in DOMAIN Free |-> Free[f]] /\ Free.behind = FALSE
            BY DEF Free
          <6> QED
            BY <6>1
        <5> QED
          BY <4>2, <5>1
      <4> QED
        BY <4>1, <4>2 DEF Typed, FetchInv
    <3> QED
      BY <1>5, <3>1 DEF RestartNext
  <2>4. FetchInv'
    BY <2>1, <2>2, <2>3, Numbers DEF FetchInv
  <2>5. EntriesInv' /\ RestInv'
    BY <1>5, SizesAssumption DEF RestartNext, api, Typed, EntriesInv, RestInv
  <2> QED
    BY <2>1, <2>4, <2>5 DEF Typed
<1>6. CASE Tick
  <2>1. server' \in [Keys -> Entry(Fresh + Stale + 1) \cup {NoEntry}]
    <3>1. Fresh + Stale \in Nat
      BY TimesAssumption
    <3> QED
      BY <1>6, <3>1, OlderIsTyped DEF Tick, Typed, EntriesInv
  <2>2. next' \in [Keys -> Entry(Revalidate + 1) \cup {NoEntry}]
    BY <1>6, TimesAssumption, OlderIsTyped DEF Tick, Typed, EntriesInv
  <2>3. redis' \in [Keys -> Entry(RedisTtl) \cup {NoEntry}]
    BY <1>6, TimesAssumption, AgedIsTyped DEF Tick, Typed, EntriesInv
  <2>4. (FetchInv /\ VisitorsInv /\ RestInv)'
    BY <1>6, SilentIsTyped DEF Tick, Typed, FetchInv, VisitorsInv, RestInv
  <2> QED
    BY <2>1, <2>2, <2>3, <2>4 DEF Typed, EntriesInv
<1> QED
  BY <1>1, <1>2, <1>3, <1>4, <1>5, <1>6

LEMMA TypedStep == Typed /\ [Next]_vars => Typed'
<1> SUFFICES ASSUME Typed, [Next]_vars PROVE Typed'
  OBVIOUS
<1>1. CASE Next
  <2>1. ASSUME NEW v \in Visitors, NEW k \in Keys,
               VisitFresh(v, k) \/ VisitStale(v, k) \/ VisitMiss(v, k)
        PROVE  Typed'
    BY <2>1, VisitsKeep
  <2>2. ASSUME NEW k \in Keys, Fetch(k) PROVE Typed'
    BY <2>2, FetchKeeps
  <2>3. ASSUME NEW h \in Handlers, Work(h) PROVE Typed'
    BY <2>3, WorkingKeeps
  <2>4. CASE \/ \E k \in Keys : Abort(k) \/ (k \in Changing /\ Change(k))
             \/ RedisStops \/ RedisStarts \/ RestartApi \/ RestartNext \/ Tick
    BY <2>4, SurroundingsKeep
  <2> QED
    BY <1>1, <2>1, <2>2, <2>3, <2>4, KeysAssumption DEF Next
<1>2. CASE UNCHANGED vars
  BY <1>2 DEF vars, site, api, Typed, EntriesInv, FetchInv, VisitorsInv, RestInv
<1> QED
  BY <1>1, <1>2

(***************************************************************************)
(* The Map of the Next server                                              *)
(***************************************************************************)
Total(keys, later) ==
    /\ \A j, k \in keys : j # k <=> <<j, k>> \in later \/ <<k, j>> \in later
    /\ \A i, j, k \in keys : <<i, j>> \in later /\ <<j, k>> \in later => <<i, k>> \in later

\* In a finite total order at most n keys have fewer than n later ones.
LEMMA RankBounds ==
    ASSUME NEW keys, IsFiniteSet(keys), NEW later, Total(keys, later), NEW n \in Nat
    PROVE  LET kept == {j \in keys : Cardinality({i \in keys : <<j, i>> \in later}) < n}
           IN  IsFiniteSet(kept) /\ Cardinality(kept) <= n
<1> DEFINE After(j) == {i \in keys : <<j, i>> \in later}
           kept == {j \in keys : Cardinality(After(j)) < n}
           rank == [j \in kept |-> Cardinality(After(j))]
<1>1. \A j \in keys : IsFiniteSet(After(j)) /\ Cardinality(After(j)) \in Nat
  <2> TAKE j \in keys
  <2>1. After(j) \in SUBSET keys
    OBVIOUS
  <2> HIDE DEF After
  <2> QED
    BY <2>1, FS_Subset, FS_CardinalityType
<1>2. ASSUME NEW j \in keys, NEW k \in keys, <<j, k>> \in later
      PROVE  Cardinality(After(k)) < Cardinality(After(j))
  <2>1. After(k) \in SUBSET After(j)
    BY <1>2 DEF Total
  <2>2. k \in After(j) /\ k \notin After(k)
    BY <1>2 DEF Total
  <2> HIDE DEF After
  <2> QED
    BY <1>1, <2>1, <2>2, FS_Subset
<1>3. kept \in SUBSET keys
  OBVIOUS
<1> HIDE DEF After
<1>4. rank \in [kept -> 0..(n - 1)]
  BY <1>1
<1>5. \A j, k \in kept : j # k => rank[j] # rank[k]
  <2> SUFFICES ASSUME NEW j \in kept, NEW k \in kept, j # k PROVE rank[j] # rank[k]
    OBVIOUS
  <2>1. <<j, k>> \in later \/ <<k, j>> \in later
    BY DEF Total
  <2>2. Cardinality(After(j)) # Cardinality(After(k))
    BY <1>1, <1>2, <2>1
  <2> QED
    BY <2>2
<1>6. IsFiniteSet(0..(n - 1)) /\ Cardinality(0..(n - 1)) = n
  <2>1. 0 \in Int /\ n - 1 \in Int /\ (0 > n - 1 <=> n = 0) /\ n - 1 - 0 + 1 = n
    OBVIOUS
  <2> QED
    BY <2>1, FS_Interval
<1>7. IsFiniteSet(kept)
  BY <1>3, FS_Subset
<1>8. Cardinality(kept) \in Nat
  BY <1>7, FS_CardinalityType
<1> HIDE DEF kept, rank
<1>9. Cardinality(kept) <= n
  <2> SUFFICES ASSUME Cardinality(kept) > n PROVE FALSE
    BY <1>8
  <2>1. \E j, k \in kept : j # k /\ rank[j] = rank[k]
    BY <1>4, <1>6, <1>7, FS_PigeonHole
  <2> QED
    BY <1>5, <2>1
<1> QED
  BY <1>7, <1>9 DEF kept, After

MapInv ==
    /\ order \subseteq Cached \X Cached /\ Total(Cached, order)
    /\ Cardinality(Cached) <= MaxEntries

\* The cached keys are finitely many.
LEMMA CachedIsFinite ==
    IsFiniteSet(Cached) /\ Cardinality(Cached) \in Nat
<1>1. Cached \in SUBSET Keys
  BY DEF Cached
<1> QED
  BY <1>1, KeysAssumption, FS_Subset, FS_CardinalityType

\* A new key comes after all others, and one that is rewritten where it was.
LEMMA InsertedIsTotal ==
    ASSUME MapInv, NEW k \in Keys
    PROVE  /\ Total(Cached \cup {k}, Inserted(k))
           /\ Inserted(k) \subseteq (Cached \cup {k}) \X (Cached \cup {k})
<1>1. CASE k \in Cached
  <2>1. Inserted(k) = order /\ Cached \cup {k} = Cached
    BY <1>1 DEF Inserted
  <2> QED
    BY <2>1 DEF MapInv
<1>2. CASE k \notin Cached
  <2>1. Inserted(k) = order \cup {<<j, k>> : j \in Cached}
    BY <1>2 DEF Inserted
  <2>2. \A i, j \in Cached \cup {k} :
            <<i, j>> \in Inserted(k) <=> <<i, j>> \in order \/ (i \in Cached /\ j = k)
    BY <2>1
  <2>3. \A i, j : <<i, j>> \in order => i \in Cached /\ j \in Cached
    BY DEF MapInv
  <2>4. \A i, j \in Cached \cup {k} :
            i # j <=> <<i, j>> \in Inserted(k) \/ <<j, i>> \in Inserted(k)
    BY <1>2, <2>2, <2>3 DEF MapInv, Total
  <2>5. \A i, j, l \in Cached \cup {k} :
            <<i, j>> \in Inserted(k) /\ <<j, l>> \in Inserted(k) => <<i, l>> \in Inserted(k)
    BY <1>2, <2>2, <2>3 DEF MapInv, Total
  <2>6. Inserted(k) \subseteq (Cached \cup {k}) \X (Cached \cup {k})
    BY <2>1 DEF MapInv
  <2> QED
    BY <2>4, <2>5, <2>6 DEF Total
<1> QED
  BY <1>1, <1>2

\* What is written and kept is the Map of the next state.
LEMMA ArrivesKeepsMap ==
    ASSUME Typed, MapInv, NEW k \in Keys, NEW data, Arrives(k, data)
    PROVE  MapInv' /\ (Fresh + Stale > 0 => k \in Cached')
<1> DEFINE entries == Written(server, k, data)
           keys == Cached \cup {k}
           alive == {j \in keys : entries[j].since < Fresh + Stale}
           kept == Pruned(keys, Inserted(k), entries)
<1>1. k \in Keys
  OBVIOUS
<1>2. entries[k].since = 0 /\ \A j \in keys : entries[j] # NoEntry
  <2>1. \A j \in Keys : entries[j] = IF j = k THEN [data |-> data, since |-> 0] ELSE server[j]
    BY <1>1 DEF Written, Typed, EntriesInv
  <2> HIDE DEF entries
  <2>2. [data |-> data, since |-> 0] # NoEntry
    BY DEF NoEntry
  <2>3. \A j \in Cached : j \in Keys /\ server[j] # NoEntry
    BY DEF Cached
  <2> QED
    BY <1>1, <2>1, <2>2, <2>3
<1> HIDE DEF entries
<1>3. IsFiniteSet(alive) /\ alive \subseteq keys /\ keys \subseteq Keys
  <2>1. keys \subseteq Keys
    BY <1>1 DEF Cached
  <2>2. alive \in SUBSET Keys
    BY <2>1
  <2> QED
    BY <2>1, <2>2, KeysAssumption, FS_Subset
<1>4. kept = {j \in alive : Cardinality({i \in alive : <<j, i>> \in Inserted(k)}) < MaxEntries}
  BY DEF Pruned
<1>5. Total(keys, Inserted(k))
  BY <1>1, InsertedIsTotal
<1>6. Total(alive, Inserted(k))
  BY <1>3, <1>5 DEF Total
<1> HIDE DEF alive
<1>7. Cardinality(kept) <= MaxEntries
  <2>1. MaxEntries \in Nat /\ IsFiniteSet(alive)
    BY <1>3, SizesAssumption
  <2> HIDE DEF kept
  <2> QED
    BY <1>4, <1>6, <2>1, RankBounds
<1>8. /\ server' = [j \in Keys |-> IF j \in kept THEN entries[j] ELSE NoEntry]
      /\ order' = Inserted(k) \cap (kept \X kept)
  BY DEF Arrives, Keep, entries
<1>9. kept \subseteq keys
  BY <1>3, <1>4
<1> HIDE DEF kept
<1>10. Cached' = kept
  BY <1>2, <1>3, <1>8, <1>9 DEF Cached
<1>11. Total(kept, order')
  BY <1>5, <1>8, <1>9 DEF Total
<1>12. MapInv'
  BY <1>7, <1>8, <1>10, <1>11 DEF MapInv
<1>13. ASSUME Fresh + Stale > 0 PROVE k \in kept
  <2> DEFINE After == {i \in alive : <<k, i>> \in Inserted(k)}
  <2>1. k \in alive
    BY <1>2, <1>13 DEF alive
  <2>2. After \subseteq Cached \ {k}
    <3>1. \A i \in keys : <<k, i>> \in Inserted(k) => i # k
      BY <1>5 DEF Total
    <3> QED
      BY <1>3, <3>1
  <2>3. Cardinality(After) < MaxEntries
    <3>1. CASE k \in Cached
      <4>1. IsFiniteSet(Cached \ {k}) /\ Cardinality(Cached \ {k}) = Cardinality(Cached) - 1
        BY <3>1, CachedIsFinite, FS_RemoveElement
      <4>2. After \in SUBSET (Cached \ {k})
        BY <2>2
      <4>3. Cardinality(After) <= Cardinality(Cached \ {k})
        <5> HIDE DEF After
        <5> QED
          BY <4>1, <4>2, FS_Subset
      <4>4. IsFiniteSet(After)
        <5> HIDE DEF After
        <5> QED
          BY <4>1, <4>2, FS_Subset
      <4>5. Cardinality(After) \in Nat
        BY <4>4, FS_CardinalityType
      <4> QED
        BY <4>1, <4>3, <4>5, CachedIsFinite, SizesAssumption DEF MapInv
    <3>2. CASE k \notin Cached
      <4>1. After = {}
        BY <3>2, <2>2 DEF Inserted, MapInv
      <4>2. Cardinality({}) = 0
        BY FS_EmptySet
      <4> HIDE DEF After
      <4> QED
        BY <4>1, <4>2, SizesAssumption
    <3> QED
      BY <3>1, <3>2
  <2> QED
    BY <1>4, <2>1, <2>3
<1> QED
  BY <1>10, <1>12, <1>13

LEMMA MapStep == Typed /\ MapInv /\ [Next]_vars => MapInv'
<1> SUFFICES ASSUME Typed, MapInv, [Next]_vars PROVE MapInv'
  OBVIOUS
<1>1. CASE UNCHANGED <<server, order>>
  BY <1>1 DEF MapInv, Cached, Total
<1>2. ASSUME NEW v \in Visitors, NEW k \in Keys, VisitMiss(v, k) PROVE MapInv'
  <2>1. /\ server' = [server EXCEPT ![k] = NoEntry]
        /\ order' = order \cap ((Cached \ {k}) \X (Cached \ {k}))
    BY <1>2 DEF VisitMiss
  <2>2. Cached' = Cached \ {k}
    BY <2>1 DEF Cached, Typed, EntriesInv
  <2>3. Cardinality(Cached \ {k}) <= Cardinality(Cached) /\ Cardinality(Cached \ {k}) \in Nat
    <3>1. Cardinality(Cached \ {k}) \in {Cardinality(Cached), Cardinality(Cached) - 1}
      BY CachedIsFinite, FS_RemoveElement
    <3>2. IsFiniteSet(Cached \ {k})
      BY CachedIsFinite, FS_RemoveElement
    <3>3. Cardinality(Cached \ {k}) \in Nat
      BY <3>2, FS_CardinalityType
    <3> HIDE DEF Cached
    <3> QED
      BY <3>1, <3>3, CachedIsFinite
  <2>4. Cardinality(Cached') <= MaxEntries
    BY <2>2, <2>3, CachedIsFinite, SizesAssumption DEF MapInv
  <2>5. Total(Cached', order') /\ order' \subseteq Cached' \X Cached'
    BY <2>1, <2>2 DEF MapInv, Total
  <2> QED
    BY <2>4, <2>5 DEF MapInv
<1>3. CASE Tick
  <2>1. \A k \in Keys : server'[k] = NoEntry <=> server[k] = NoEntry
    <3>1. Fresh + Stale \in Nat
      BY TimesAssumption
    <3> QED
      BY <1>3, <3>1, OlderIsTyped DEF Tick, Typed, EntriesInv
  <2>2. Cached' = Cached /\ order' = order
    BY <1>3, <2>1 DEF Tick, Cached
  <2> QED
    BY <2>2 DEF MapInv, Total
<1>4. ASSUME NEW h \in Handlers, Deliver(h) PROVE MapInv'
  <2>1. handler[h].key \in Keys
    BY <1>4 DEF Deliver, Typed, FetchInv, Handler, Free
  <2>2. Arrives(handler[h].key, handler[h].data)
    BY <1>4 DEF Deliver
  <2> QED
    BY <2>1, <2>2, ArrivesKeepsMap
<1>5. ASSUME NEW k \in Keys, CacheHit(k) PROVE MapInv'
  BY <1>5, ArrivesKeepsMap DEF CacheHit
<1>6. CASE RestartNext
  <2>1. Cached' = {} /\ order' = {}
    BY <1>6 DEF RestartNext, Cached
  <2> QED
    BY <2>1, FS_EmptySet, SizesAssumption DEF MapInv, Total
<1>7. ASSUME NEW h \in Handlers, Work(h) PROVE MapInv'
  BY <1>1, <1>4, <1>7
  DEF Work, Lookup, Query, QueryFails, Store, Revalidated, Discard, site
<1>8. CASE Next
  BY <1>1, <1>2, <1>3, <1>5, <1>6, <1>7, <1>8
  DEF Next, Fetch, VisitFresh, VisitStale, CacheMiss, Abort, Change, RedisStops, RedisStarts,
      RestartApi, site
<1>9. CASE UNCHANGED vars
  BY <1>1, <1>9 DEF vars, site
<1> QED
  BY <1>8, <1>9

LEMMA MapInit == Init => MapInv
<1> SUFFICES ASSUME Init PROVE MapInv
  OBVIOUS
<1>1. Cached = {} /\ order = {}
  BY DEF Init, Cached
<1> QED
  BY <1>1, FS_EmptySet, SizesAssumption DEF MapInv, Total

\* A fetch is never made for nothing: however full the cache is, the entry that
\* has to go for an answer is another one, so the next visitor finds this one,
\* whether the answer came from the API or from the Data Cache.
AnswersAreKept ==
    [][Fresh + Stale > 0 =>
           /\ \A k \in Keys : CacheHit(k) => k \in Cached'
           /\ \A h \in Handlers : Deliver(h) => handler[h].key \in Cached']_vars

\* However full the Map is, the answer that was fetched stays (pruneServerCache):
\* the key written last is inserted last, or has its place already.
THEOREM AnswersStay == Spec => AnswersAreKept
<1>1. ASSUME Typed, MapInv, Fresh + Stale > 0, NEW k \in Keys, CacheHit(k) PROVE k \in Cached'
  BY <1>1, ArrivesKeepsMap DEF CacheHit
<1>2. ASSUME Typed, MapInv, Fresh + Stale > 0, NEW h \in Handlers, Deliver(h)
      PROVE  handler[h].key \in Cached'
  <2>1. handler[h].key \in Keys
    BY <1>2 DEF Deliver, Typed, FetchInv, Handler, Free
  <2>2. Arrives(handler[h].key, handler[h].data)
    BY <1>2 DEF Deliver
  <2> QED
    BY <1>2, <2>1, <2>2, ArrivesKeepsMap
<1>3. Typed /\ MapInv /\ [Next]_vars =>
        [Fresh + Stale > 0 =>
           /\ \A k \in Keys : CacheHit(k) => k \in Cached'
           /\ \A h \in Handlers : Deliver(h) => handler[h].key \in Cached']_vars
  BY <1>1, <1>2
<1> QED
  BY <1>3, TypedInit, TypedStep, MapInit, MapStep, PTL DEF Spec, AnswersAreKept

\* The types hold, a fetch waits for a request that is its own, and the Map is
\* ordered and no larger than its limit.
THEOREM TypesHold == Spec => []TypeOK
<1>1. Typed /\ MapInv => TypeOK
  BY DEF TypeOK, Typed, EntriesInv, FetchInv, VisitorsInv, RestInv, Answers, MapInv, Total
<1> QED
  BY <1>1, TypedInit, TypedStep, MapInit, MapStep, PTL DEF Spec
=============================================================================
