------------------------ MODULE EventTrackingProofs ------------------------
(***************************************************************************)
(* Proofs about EventTracking, for every number of requests, skills and    *)
(* sessions, every assignment of lock keys and every clock skew.           *)
(***************************************************************************)
EXTENDS EventTracking, FiniteSetTheorems, TLAPS

(***************************************************************************)
(* Types and the lock.  A request past its lookup stands at the head of    *)
(* the queue of its key, so two such requests never share a skill.         *)
(***************************************************************************)
Busy(r) == pc[r] \in {"accepted", "write"}

LockInv == \A r \in Requests : Busy(r) => HasTurn(r)

TypeInv == TypeOK /\ LockInv

\* The absence of a request is typed.
LEMMA BlankIsTyped == Blank \in Event
BY KeysAssumption DEF Blank, Event, Types

\* A missing popularity row reads as a typed one.
LEMMA ZeroIsTyped == Zero \in [count: Counts, score: Nat]
BY DEF Zero, Counts

\* Counting an event keeps a popularity row typed.
LEMMA CountedIsTyped ==
    ASSUME NEW row \in [count: Counts, score: Nat], NEW t \in Types
    PROVE  Counted(row, t) \in [count: Counts, score: Nat]
<1> DEFINE count == [row.count EXCEPT ![t] = @ + 1]
<1>1. count \in Counts
  BY DEF Counts
<1>2. Score(count) \in Nat
  BY <1>1 DEF Score, Counts, Types
<1> QED BY <1>1, <1>2 DEF Counted

\* Two requests past their lookups have different keys.
LEMMA Exclusive ==
    ASSUME TypeInv, NEW r \in Requests, NEW q \in Requests,
           HasTurn(r), HasTurn(q), Key(r) = Key(q)
    PROVE  r = q
BY DEF HasTurn

\* The end of a transaction keeps the types and the turns of the others.
LEMMA ReleaseKeeps ==
    ASSUME TypeInv, NEW r \in Requests, HasTurn(r), Release(r)
    PROVE  /\ queue' \in [Keys -> Seq(Requests)]
           /\ pc' \in [Requests -> {"idle", "wait", "accepted", "write"}]
           /\ req' \in [Requests -> Event]
           /\ mem' \in [Requests -> [count: Counts, score: Nat]]
           /\ pc'[r] = "idle"
           /\ \A q \in Requests \ {r} :
                 pc'[q] = pc[q] /\ req'[q] = req[q] /\ mem'[q] = mem[q]
           /\ LockInv'
<1> USE DEF TypeInv
<1>1. Key(r) \in Keys /\ queue[Key(r)] \in Seq(Requests) /\ queue[Key(r)] # <<>>
  BY KeysAssumption DEF Key, TypeOK, Event, HasTurn
<1>2. Tail(queue[Key(r)]) \in Seq(Requests)
  BY <1>1
<1>3. queue' \in [Keys -> Seq(Requests)]
  BY <1>1, <1>2 DEF Release, TypeOK
<1>4. /\ pc' \in [Requests -> {"idle", "wait", "accepted", "write"}]
      /\ req' \in [Requests -> Event]
      /\ mem' \in [Requests -> [count: Counts, score: Nat]]
  BY BlankIsTyped, ZeroIsTyped DEF Release, TypeOK
<1>5. /\ pc'[r] = "idle"
      /\ \A q \in Requests \ {r} :
            pc'[q] = pc[q] /\ req'[q] = req[q] /\ mem'[q] = mem[q]
  BY DEF Release, TypeOK
<1>6. LockInv'
  <2> SUFFICES ASSUME NEW q \in Requests, Busy(q)' PROVE HasTurn(q)'
      BY DEF LockInv
  <2>1. q # r /\ Busy(q) /\ HasTurn(q)
    BY <1>5 DEF Busy, LockInv
  <2>2. Key(q) # Key(r)
    BY <2>1, Exclusive
  <2>3. Key(q)' = Key(q)
    BY <1>5, <2>1 DEF Key
  <2>4. Key(q) \in Keys
    BY KeysAssumption DEF Key, TypeOK, Event
  <2>5. queue'[Key(q)] = queue[Key(q)]
    BY <2>2, <2>4 DEF Release, TypeOK
  <2> QED BY <2>1, <2>3, <2>5 DEF HasTurn
<1> QED BY <1>3, <1>4, <1>5, <1>6

\* The initial states are typed, and nobody waits for a lock.
LEMMA TypeInit == Init => TypeInv
<1> SUFFICES ASSUME Init PROVE TypeInv
    OBVIOUS
<1>1. TypeOK
  BY BlankIsTyped, ZeroIsTyped DEF Init, TypeOK
<1>2. LockInv
  BY DEF Init, LockInv, Busy
<1> QED BY <1>1, <1>2 DEF TypeInv

\* Every action keeps the types and the order of the lock queues.
LEMMA TypeStep == TypeInv /\ [Next]_vars => TypeInv'
<1> SUFFICES ASSUME TypeInv, [Next]_vars PROVE TypeInv'
    OBVIOUS
<1>1. CASE UNCHANGED vars
  BY <1>1 DEF TypeInv, TypeOK, LockInv, Busy, HasTurn, Key, vars
<1>2. ASSUME NEW r \in Requests, Begin(r) PROVE TypeInv'
  <2>1. PICK s \in Skills, t \in Types, n \in Sessions \cup {NoSession} :
           /\ req' = [req EXCEPT ![r] = [skill |-> s, type |-> t, session |-> n, at |-> now]]
           /\ queue' = [queue EXCEPT ![KeyOf[s]] = Append(@, r)]
    BY <1>2 DEF Begin
  <2>2. KeyOf[s] \in Keys /\ queue[KeyOf[s]] \in Seq(Requests)
    BY KeysAssumption DEF TypeInv, TypeOK
  <2>3. queue' \in [Keys -> Seq(Requests)]
    BY <2>1, <2>2 DEF TypeInv, TypeOK
  <2>4. req' \in [Requests -> Event]
    BY <2>1 DEF TypeInv, TypeOK, Event
  <2>5. TypeOK'
    BY <1>2, <2>3, <2>4 DEF Begin, TypeInv, TypeOK
  <2>6. LockInv'
    <3> SUFFICES ASSUME NEW q \in Requests, Busy(q)' PROVE HasTurn(q)'
        BY DEF LockInv
    <3>1. q # r /\ pc'[q] = pc[q] /\ req'[q] = req[q]
      BY <1>2, <2>1 DEF Begin, Busy, TypeInv, TypeOK
    <3>2. HasTurn(q) /\ Key(q)' = Key(q) /\ Key(q) \in Keys
      BY <3>1, KeysAssumption DEF Busy, LockInv, Key, TypeInv, TypeOK, Event
    <3>3. CASE Key(q) = KeyOf[s]
      <4>1. queue'[Key(q)] = Append(queue[Key(q)], r)
        BY <2>1, <3>2, <3>3 DEF TypeInv, TypeOK
      <4>2. queue[Key(q)] \in Seq(Requests) /\ queue[Key(q)] # <<>>
        BY <2>2, <3>2, <3>3 DEF HasTurn
      <4>3. Head(Append(queue[Key(q)], r)) = Head(queue[Key(q)])
        BY <4>2
      <4>4. Append(queue[Key(q)], r) # <<>>
        BY <4>2
      <4> QED BY <3>2, <4>1, <4>3, <4>4 DEF HasTurn
    <3>4. CASE Key(q) # KeyOf[s]
      BY <2>1, <2>2, <3>2, <3>4 DEF HasTurn, TypeInv, TypeOK
    <3> QED BY <3>3, <3>4
  <2> QED BY <2>5, <2>6 DEF TypeInv
<1>3. ASSUME NEW r \in Requests, Duplicate(r) PROVE TypeInv'
  BY <1>3, ReleaseKeeps DEF Duplicate, TypeInv, TypeOK
<1>4. ASSUME NEW r \in Requests, Accept(r) PROVE TypeInv'
  <2>1. TypeOK'
    BY <1>4 DEF Accept, TypeInv, TypeOK
  <2>2. LockInv'
    BY <1>4 DEF Accept, TypeInv, TypeOK, LockInv, Busy, HasTurn, Key
  <2> QED BY <2>1, <2>2 DEF TypeInv
<1>5. ASSUME NEW r \in Requests, Read(r) PROVE TypeInv'
  <2>1. popularity[req[r].skill] \in [count: Counts, score: Nat]
    BY DEF TypeInv, TypeOK, Event
  <2>2. TypeOK'
    BY <1>5, <2>1 DEF Read, TypeInv, TypeOK
  <2>3. LockInv'
    BY <1>5 DEF Read, TypeInv, TypeOK, LockInv, Busy, HasTurn, Key
  <2> QED BY <2>2, <2>3 DEF TypeInv
<1>6. ASSUME NEW r \in Requests, Refuse(r) PROVE TypeInv'
  <2>1. HasTurn(r)
    BY <1>6 DEF Refuse, TypeInv, LockInv, Busy
  <2> QED BY <1>6, <2>1, ReleaseKeeps DEF Refuse, TypeInv, TypeOK
<1>7. ASSUME NEW r \in Requests, Commit(r) PROVE TypeInv'
  <2>1. HasTurn(r)
    BY <1>7 DEF Commit, TypeInv, LockInv, Busy
  <2>2. events' \in Seq(Event)
    BY <1>7 DEF Commit, TypeInv, TypeOK
  <2>3. Counted(mem[r], req[r].type) \in [count: Counts, score: Nat]
    BY CountedIsTyped DEF TypeInv, TypeOK, Event
  <2>4. popularity' \in [Skills -> [count: Counts, score: Nat]]
    BY <1>7, <2>3 DEF Commit, TypeInv, TypeOK
  <2> QED BY <1>7, <2>1, <2>2, <2>4, ReleaseKeeps DEF Commit, TypeInv, TypeOK
<1>8. ASSUME NEW r \in Requests, Fail(r) PROVE TypeInv'
  BY <1>8, ReleaseKeeps DEF Fail, TypeInv, TypeOK
<1>9. ASSUME NEW s \in Skills, Delete(s) PROVE TypeInv'
  BY <1>9, ZeroIsTyped DEF Delete, TypeInv, TypeOK, LockInv, Busy, HasTurn, Key
<1>10. ASSUME Tick PROVE TypeInv'
  BY <1>10 DEF Tick, TypeInv, TypeOK, LockInv, Busy, HasTurn, Key
<1> QED
  BY <1>1, <1>2, <1>3, <1>4, <1>5, <1>6, <1>7, <1>8, <1>9, <1>10 DEF Next, Serve

\* Every reachable state is typed, and whoever is past its lookup holds the lock.
THEOREM TypeCorrect == Spec => []TypeInv
BY TypeInit, TypeStep, PTL DEF Spec

\* The type invariant the runs check.
THEOREM TypesHold == Spec => []TypeOK
BY TypeCorrect, PTL DEF TypeInv

(***************************************************************************)
(* Repeated events.  What a lookup found absent stays absent until its     *)
(* request commits, because only the holder of the lock appends events of  *)
(* the skill; and a request began at most MaxDelay before any such moment. *)
(***************************************************************************)
Repeated(q, e) == e.skill = q.skill /\ e.type = q.type /\ e.session = q.session

\* How far apart the repeated event e and the event of q may be.
Apart(q, e) == q.type = "view" /\ q.at - e.at > Window - MaxDelay - Skew

Fresh(q) == ShouldDedupe(q) =>
    \A i \in DOMAIN events : Repeated(q, events[i]) => Apart(q, events[i])

DedupeInv ==
    /\ \A r \in Requests : pc[r] # "idle" => req[r].at <= now /\ now - req[r].at <= MaxDelay
    /\ \A r \in Requests : Busy(r) => Fresh(req[r])
    /\ \A i, j \in DOMAIN events : i < j /\ ShouldDedupe(events[j])
            /\ Repeated(events[j], events[i]) => Apart(events[j], events[i])

\* The two properties are what DedupeInv says of favorites and of views.
LEMMA DedupeImplies == TypeInv /\ DedupeInv => FavoriteOnce /\ ViewSpacing
<1> SUFFICES ASSUME TypeInv, DedupeInv PROVE FavoriteOnce /\ ViewSpacing
    OBVIOUS
<1>1. DOMAIN events = 1..Len(events) /\ Len(events) \in Nat
  BY DEF TypeInv, TypeOK
<1>2. FavoriteOnce
  BY <1>1 DEF FavoriteOnce, DedupeInv, ShouldDedupe, Repeated, Apart
<1>3. ViewSpacing
  BY DEF ViewSpacing, RepeatedView, DedupeInv, ShouldDedupe, Repeated, Apart
<1> QED BY <1>2, <1>3

\* The end of a transaction leaves the requests of the others open and fresh.
LEMMA DedupeRelease ==
    ASSUME TypeInv, DedupeInv, NEW r \in Requests, HasTurn(r), Release(r),
           UNCHANGED <<now, events>>
    PROVE  DedupeInv'
<1>1. /\ pc'[r] = "idle"
      /\ \A q \in Requests \ {r} : pc'[q] = pc[q] /\ req'[q] = req[q]
  BY ReleaseKeeps
<1> QED BY <1>1 DEF DedupeInv, Busy, Fresh

\* Every action of track_event keeps what the lookup for a duplicate found true
\* until the event is committed.
LEMMA DedupeStep == TypeInv /\ DedupeInv /\ [Next]_vars => DedupeInv'
<1> SUFFICES ASSUME TypeInv, DedupeInv, [Next]_vars PROVE DedupeInv'
    OBVIOUS
<1>1. CASE UNCHANGED vars
  BY <1>1 DEF DedupeInv, Busy, Fresh, vars
<1>2. ASSUME NEW r \in Requests, Begin(r) PROVE DedupeInv'
  <2>1. /\ pc'[r] = "wait" /\ req'[r].at = now /\ now \in Nat
        /\ \A q \in Requests \ {r} : pc'[q] = pc[q] /\ req'[q] = req[q]
    BY <1>2 DEF Begin, TypeInv, TypeOK
  <2> QED BY <1>2, <2>1, TimesAssumption DEF Begin, DedupeInv, Busy, Fresh
<1>3. ASSUME NEW r \in Requests, Duplicate(r) PROVE DedupeInv'
  BY <1>3, DedupeRelease DEF Duplicate
<1>4. ASSUME NEW r \in Requests, Accept(r) PROVE DedupeInv'
  <2>1. Fresh(req[r])
    <3> SUFFICES ASSUME ShouldDedupe(req[r]), NEW i \in DOMAIN events,
                        Repeated(req[r], events[i])
                 PROVE  Apart(req[r], events[i])
        BY DEF Fresh
    <3>1. events[i].at \in Nat /\ req[r].at \in Nat /\ now \in Nat
      <4>1. events[i] \in Event /\ req[r] \in Event
        BY DEF TypeInv, TypeOK
      <4> QED BY <4>1 DEF Event, TypeInv, TypeOK
    <3>2. req[r].type = "view" /\ ~(events[i].at >= now + Skew - Window)
      <4>1. ~Repeats(req[r], events[i], now + Skew)
        BY <1>4 DEF Accept, IsDuplicate
      <4> QED BY <3>1, <4>1, TimesAssumption DEF Repeats, Repeated
    <3>3. now - req[r].at <= MaxDelay
      BY <1>4 DEF Accept, DedupeInv
    <3> QED BY <3>1, <3>2, <3>3, TimesAssumption DEF Apart
  <2>2. \A q \in Requests : /\ pc'[q] # "idle" => pc[q] # "idle"
                            /\ Busy(q)' => q = r \/ Busy(q)
    BY <1>4 DEF Accept, Busy, TypeInv, TypeOK
  <2>3. \A q \in Requests : Busy(q)' => Fresh(req[q])
    BY <2>1, <2>2 DEF DedupeInv
  <2>4. UNCHANGED <<now, events, req>>
    BY <1>4 DEF Accept
  <2> QED BY <2>2, <2>3, <2>4 DEF DedupeInv, Fresh
<1>5. ASSUME NEW r \in Requests, Read(r) PROVE DedupeInv'
  <2>1. \A q \in Requests : /\ pc'[q] # "idle" => pc[q] # "idle"
                            /\ Busy(q)' => Busy(q)
    BY <1>5 DEF Read, Busy, TypeInv, TypeOK
  <2>2. \A q \in Requests : Busy(q)' => Fresh(req[q])
    BY <2>1 DEF DedupeInv
  <2>3. UNCHANGED <<now, events, req>>
    BY <1>5 DEF Read
  <2> QED BY <2>1, <2>2, <2>3 DEF DedupeInv, Fresh
<1>6. ASSUME NEW r \in Requests, Refuse(r) PROVE DedupeInv'
  BY <1>6, DedupeRelease DEF Refuse, Busy, TypeInv, LockInv
<1>7. ASSUME NEW r \in Requests, Commit(r) PROVE DedupeInv'
  <2>1. Busy(r) /\ HasTurn(r) /\ Release(r) /\ Fresh(req[r])
    BY <1>7 DEF Commit, Busy, TypeInv, LockInv, DedupeInv
  <2>2. /\ pc'[r] = "idle"
        /\ \A q \in Requests \ {r} : pc'[q] = pc[q] /\ req'[q] = req[q]
    BY <2>1, ReleaseKeeps
  <2>3. /\ DOMAIN events = 1..Len(events) /\ Len(events) \in Nat
        /\ DOMAIN events' = 1..(Len(events) + 1)
        /\ events'[Len(events) + 1] = req[r]
        /\ \A i \in DOMAIN events : events'[i] = events[i]
    BY <1>7 DEF Commit, TypeInv, TypeOK
  <2>4. \A q \in Requests : pc'[q] # "idle" => req'[q].at <= now' /\ now' - req'[q].at <= MaxDelay
    BY <1>7, <2>2 DEF Commit, DedupeInv
  <2>5. \A q \in Requests : Busy(q)' => Fresh(req[q])'
    <3> SUFFICES ASSUME NEW q \in Requests, Busy(q)', ShouldDedupe(req[q])',
                        NEW i \in DOMAIN events', Repeated(req'[q], events'[i])
                 PROVE  Apart(req'[q], events'[i])
        BY DEF Fresh
    <3>1. q # r /\ Busy(q) /\ HasTurn(q) /\ req'[q] = req[q] /\ Fresh(req[q])
      BY <2>2 DEF Busy, TypeInv, LockInv, DedupeInv
    <3>2. req[q].skill # req[r].skill
      BY <2>1, <3>1, Exclusive DEF Key
    <3>3. i \in DOMAIN events
      BY <2>3, <3>1, <3>2 DEF Repeated
    <3> QED BY <2>3, <3>1, <3>3 DEF Fresh
  <2>6. \A i, j \in DOMAIN events' : i < j /\ ShouldDedupe(events'[j])
            /\ Repeated(events'[j], events'[i]) => Apart(events'[j], events'[i])
    <3> SUFFICES ASSUME NEW i \in DOMAIN events', NEW j \in DOMAIN events', i < j,
                        ShouldDedupe(events'[j]), Repeated(events'[j], events'[i])
                 PROVE  Apart(events'[j], events'[i])
        OBVIOUS
    <3>1. i \in DOMAIN events
      BY <2>3
    <3>2. CASE j \in DOMAIN events
      BY <2>3, <3>1, <3>2 DEF DedupeInv
    <3>3. CASE j = Len(events) + 1
      BY <2>1, <2>3, <3>1, <3>3 DEF Fresh
    <3> QED BY <2>3, <3>2, <3>3
  <2> QED BY <2>4, <2>5, <2>6 DEF DedupeInv
<1>8. ASSUME NEW r \in Requests, Fail(r) PROVE DedupeInv'
  BY <1>8, DedupeRelease DEF Fail
<1>9. ASSUME NEW s \in Skills, Delete(s) PROVE DedupeInv'
  BY <1>9 DEF Delete, DedupeInv, Busy, Fresh
<1>10. ASSUME Tick PROVE DedupeInv'
  <2>1. \A r \in Requests : pc[r] # "idle" => req[r].at <= now' /\ now' - req[r].at <= MaxDelay
    <3> SUFFICES ASSUME NEW r \in Requests, pc[r] # "idle"
                 PROVE  req[r].at <= now' /\ now' - req[r].at <= MaxDelay
        OBVIOUS
    <3>1. now - req[r].at < MaxDelay /\ now' = now + 1 /\ req[r].at <= now
      BY <1>10 DEF Tick, Open, DedupeInv
    <3>2. now \in Nat /\ req[r].at \in Nat
      BY DEF TypeInv, TypeOK, Event
    <3> QED BY <3>1, <3>2, TimesAssumption
  <2> QED BY <1>10, <2>1 DEF Tick, DedupeInv, Busy, Fresh
<1> QED
  BY <1>1, <1>2, <1>3, <1>4, <1>5, <1>6, <1>7, <1>8, <1>9, <1>10 DEF Next, Serve

\* A session favors a skill at most once, and its views of a skill keep their
\* distance, whatever the clocks' skew and however ids share lock keys.
THEOREM RepeatsAreCaught == Spec => [](FavoriteOnce /\ ViewSpacing)
<1>1. Init => DedupeInv
  BY DEF Init, DedupeInv, Busy
<1> QED BY <1>1, DedupeStep, DedupeImplies, TypeCorrect, TypeInit, PTL DEF Spec

\* The part of it the ranking of trends rests on: two views of a skill that are
\* counted for one session are further apart than the dedupe window less the
\* time a request may be open and the skew of the clocks.
THEOREM ViewsKeepTheirDistance == Spec => []ViewSpacing
<1>1. FavoriteOnce /\ ViewSpacing => ViewSpacing
  OBVIOUS
<1> QED BY <1>1, RepeatsAreCaught, PTL

(***************************************************************************)
(* Counters.  The row a request has read is still the row of the table     *)
(* when it commits: no other request of the skill is past its lookup, and  *)
(* a deletion waits for the row.                                           *)
(***************************************************************************)
CountInv ==
    /\ PopularityIsDerived
    /\ \A r \in Requests : pc[r] = "write" => mem[r] = popularity[req[r].skill]

\* A skill has finitely many events of a type.
LEMMA EventsAreFinite ==
    ASSUME TypeInv, NEW s, NEW t PROVE IsFiniteSet(EventsOf(s, t))
<1>1. DOMAIN events = 1..Len(events) /\ Len(events) \in Nat
  BY DEF TypeInv, TypeOK
<1>2. IsFiniteSet(1..Len(events))
  BY <1>1, FS_Interval
<1> QED BY <1>1, <1>2, FS_Subset DEF EventsOf

\* One more event of a skill and type is counted once, and only there.
LEMMA OneMore ==
    ASSUME TypeInv, NEW e \in Event, events' = Append(events, e), NEW s, NEW t
    PROVE  Cardinality(EventsOf(s, t)') =
               Cardinality(EventsOf(s, t)) + (IF e.skill = s /\ e.type = t THEN 1 ELSE 0)
<1>1. /\ DOMAIN events = 1..Len(events) /\ Len(events) \in Nat
      /\ DOMAIN events' = 1..(Len(events) + 1)
      /\ events'[Len(events) + 1] = e
      /\ \A i \in DOMAIN events : events'[i] = events[i]
  BY DEF TypeInv, TypeOK
<1>2. /\ IsFiniteSet(EventsOf(s, t)) /\ Cardinality(EventsOf(s, t)) \in Nat
      /\ Len(events) + 1 \notin EventsOf(s, t)
  <2>1. IsFiniteSet(EventsOf(s, t)) /\ Cardinality(EventsOf(s, t)) \in Nat
    BY EventsAreFinite, FS_CardinalityType
  <2>2. Len(events) + 1 \notin EventsOf(s, t)
    BY <1>1 DEF EventsOf
  <2> QED BY <2>1, <2>2
<1>3. CASE e.skill = s /\ e.type = t
  <2>1. EventsOf(s, t)' = EventsOf(s, t) \cup {Len(events) + 1}
    BY <1>1, <1>3 DEF EventsOf
  <2>2. Cardinality(EventsOf(s, t) \cup {Len(events) + 1}) = Cardinality(EventsOf(s, t)) + 1
    BY <1>2, FS_AddElement
  <2> QED BY <1>3, <2>1, <2>2
<1>4. CASE ~(e.skill = s /\ e.type = t)
  <2>1. EventsOf(s, t)' = EventsOf(s, t)
    BY <1>1, <1>4 DEF EventsOf
  <2> QED BY <1>2, <1>4, <2>1
<1> QED BY <1>3, <1>4

\* Steps that leave the log and the counters alone keep the invariant, if no
\* request enters the write phase and those in it keep what they read.
LEMMA CountKept ==
    ASSUME CountInv, UNCHANGED <<events, popularity>>,
           \A r \in Requests : pc'[r] = "write" =>
               pc[r] = "write" /\ req'[r] = req[r] /\ mem'[r] = mem[r]
    PROVE  CountInv'
BY DEF CountInv, PopularityIsDerived, EventsOf

\* Every action keeps the counters equal to the log, also while a request holds
\* the row it read.
LEMMA CountStep == TypeInv /\ CountInv /\ [Next]_vars => CountInv'
<1> SUFFICES ASSUME TypeInv, CountInv, [Next]_vars PROVE CountInv'
    OBVIOUS
<1>1. CASE UNCHANGED vars
  BY <1>1, CountKept DEF vars
<1>2. ASSUME NEW r \in Requests, Begin(r) PROVE CountInv'
  <2>1. \A q \in Requests : pc'[q] = "write" =>
           pc[q] = "write" /\ req'[q] = req[q] /\ mem'[q] = mem[q]
    BY <1>2 DEF Begin, TypeInv, TypeOK
  <2> QED BY <1>2, <2>1, CountKept DEF Begin
<1>3. ASSUME NEW r \in Requests, Duplicate(r) \/ Refuse(r) \/ Fail(r) PROVE CountInv'
  <2>1. HasTurn(r) /\ Release(r) /\ UNCHANGED <<events, popularity>>
    BY <1>3 DEF Duplicate, Refuse, Fail, TypeInv, LockInv, Busy
  <2>2. /\ pc'[r] = "idle"
        /\ \A q \in Requests \ {r} : pc'[q] = pc[q] /\ req'[q] = req[q] /\ mem'[q] = mem[q]
    BY <2>1, ReleaseKeeps
  <2> QED BY <2>1, <2>2, CountKept
<1>4. ASSUME NEW r \in Requests, Accept(r) PROVE CountInv'
  <2>1. \A q \in Requests : pc'[q] = "write" => pc[q] = "write"
    BY <1>4 DEF Accept, TypeInv, TypeOK
  <2> QED BY <1>4, <2>1, CountKept DEF Accept
<1>5. ASSUME NEW r \in Requests, Read(r) PROVE CountInv'
  <2>1. PopularityIsDerived'
    BY <1>5 DEF Read, CountInv, PopularityIsDerived, EventsOf
  <2>2. \A q \in Requests : pc'[q] = "write" => mem'[q] = popularity'[req'[q].skill]
    BY <1>5 DEF Read, CountInv, TypeInv, TypeOK
  <2> QED BY <2>1, <2>2 DEF CountInv
<1>6. ASSUME NEW r \in Requests, Commit(r) PROVE CountInv'
  <2> DEFINE s == req[r].skill
             row == popularity[s]
  <2>1. /\ req[r] \in Event /\ s \in Skills /\ req[r].type \in Types
        /\ row \in [count: Counts, score: Nat]
        /\ mem[r] = row
    BY <1>6 DEF Commit, CountInv, TypeInv, TypeOK, Event
  <2>2. popularity' = [popularity EXCEPT ![s] = Counted(row, req[r].type)]
    BY <1>6, <2>1 DEF Commit
  <2>3. events' = Append(events, req[r])
    BY <1>6 DEF Commit
  <2>4. PopularityIsDerived'
    <3> SUFFICES ASSUME NEW u \in Skills
                 PROVE  /\ \A t \in Types :
                              popularity'[u].count[t] = Cardinality(EventsOf(u, t)')
                        /\ popularity'[u].score = Score(popularity'[u].count)
        BY DEF PopularityIsDerived
    <3>1. /\ \A t \in Types : popularity[u].count[t] = Cardinality(EventsOf(u, t))
          /\ popularity[u].score = Score(popularity[u].count)
      BY DEF CountInv, PopularityIsDerived
    <3>2. CASE u = s
      <4>1. /\ popularity'[u].count = [row.count EXCEPT ![req[r].type] = @ + 1]
            /\ popularity'[u].score = Score(popularity'[u].count)
        BY <2>1, <2>2, <3>2 DEF Counted, TypeInv, TypeOK
      <4>2. ASSUME NEW t \in Types
            PROVE  popularity'[u].count[t] = Cardinality(EventsOf(u, t)')
        <5>1. Cardinality(EventsOf(u, t)') =
                 Cardinality(EventsOf(u, t)) + (IF s = u /\ req[r].type = t THEN 1 ELSE 0)
          BY <2>1, <2>3, OneMore
        <5>2. row.count \in [Types -> Nat] /\ row.count[t] = Cardinality(EventsOf(u, t))
          BY <2>1, <3>1, <3>2 DEF Counts
        <5> QED BY <2>1, <3>2, <4>1, <5>1, <5>2
      <4> QED BY <4>1, <4>2
    <3>3. CASE u # s
      <4>1. popularity'[u] = popularity[u]
        BY <2>1, <2>2, <3>3 DEF TypeInv, TypeOK
      <4>2. ASSUME NEW t \in Types
            PROVE  popularity'[u].count[t] = Cardinality(EventsOf(u, t)')
        <5>1. Cardinality(EventsOf(u, t)') =
                 Cardinality(EventsOf(u, t)) + (IF s = u /\ req[r].type = t THEN 1 ELSE 0)
          BY <2>1, <2>3, OneMore
        <5>2. Cardinality(EventsOf(u, t)) \in Nat
          BY EventsAreFinite, FS_CardinalityType
        <5> QED BY <3>1, <3>3, <4>1, <5>1, <5>2
      <4> QED BY <3>1, <4>1, <4>2
    <3> QED BY <3>2, <3>3
  <2>5. \A q \in Requests : pc'[q] = "write" => mem'[q] = popularity'[req'[q].skill]
    <3> SUFFICES ASSUME NEW q \in Requests, pc'[q] = "write"
                 PROVE  mem'[q] = popularity'[req'[q].skill]
        OBVIOUS
    <3>1. HasTurn(r) /\ Release(r)
      BY <1>6 DEF Commit, TypeInv, LockInv, Busy
    <3>2. /\ q # r /\ pc[q] = "write" /\ req'[q] = req[q] /\ mem'[q] = mem[q]
      BY <3>1, ReleaseKeeps
    <3>3. req[q].skill # s
      BY <3>1, <3>2, Exclusive DEF TypeInv, LockInv, Busy, Key
    <3>4. req[q].skill \in Skills
      BY DEF TypeInv, TypeOK, Event
    <3> QED BY <2>2, <3>2, <3>3, <3>4 DEF CountInv, TypeInv, TypeOK
  <2> QED BY <2>4, <2>5 DEF CountInv
<1>7. ASSUME NEW s \in Skills, Delete(s) PROVE CountInv'
  <2>1. PopularityIsDerived'
    <3>1. \A t \in Types : EventsOf(s, t)' = {}
      BY <1>7 DEF Delete, EventsOf
    <3>2. /\ \A t \in Types : Zero.count[t] = 0
          /\ Zero.score = Score(Zero.count)
      BY DEF Zero, Score, Types
    <3>3. /\ popularity'[s] = Zero
          /\ \A u \in Skills \ {s} : popularity'[u] = popularity[u]
      BY <1>7 DEF Delete, TypeInv, TypeOK
    <3>4. \A u \in Skills, t \in Types : EventsOf(u, t)' = EventsOf(u, t)
      BY <1>7 DEF Delete, EventsOf
    <3> QED BY <3>1, <3>2, <3>3, <3>4, FS_EmptySet DEF CountInv, PopularityIsDerived
  <2>2. \A q \in Requests : pc'[q] = "write" => mem'[q] = popularity'[req'[q].skill]
    BY <1>7 DEF Delete, RowFree, CountInv, TypeInv, TypeOK, Event
  <2> QED BY <2>1, <2>2 DEF CountInv
<1>8. ASSUME Tick PROVE CountInv'
  BY <1>8, CountKept DEF Tick
<1> QED BY <1>1, <1>2, <1>3, <1>4, <1>5, <1>6, <1>7, <1>8 DEF Next, Serve

\* The counters are those of the log and the score is theirs, however many
\* requests and deletions interleave and fail.
THEOREM PopularityHolds == Spec => []PopularityIsDerived
<1>1. Init => CountInv
  <2> SUFFICES ASSUME Init PROVE CountInv
      OBVIOUS
  <2>1. \A s \in Skills, t \in Types : EventsOf(s, t) = {}
    BY DEF Init, EventsOf
  <2>2. \A s \in Skills : popularity[s] = Zero
    BY DEF Init
  <2>3. (\A t \in Types : Zero.count[t] = 0) /\ Zero.score = Score(Zero.count)
    BY DEF Zero, Score, Types
  <2>4. \A r \in Requests : pc[r] = "idle"
    BY DEF Init
  <2> QED BY <2>1, <2>2, <2>3, <2>4, FS_EmptySet DEF CountInv, PopularityIsDerived
<1>2. CountInv => PopularityIsDerived
  BY DEF CountInv
<1> QED BY <1>1, <1>2, CountStep, TypeCorrect, PTL DEF Spec
=============================================================================
