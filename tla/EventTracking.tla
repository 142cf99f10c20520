--------------------------- MODULE EventTracking ---------------------------
(***************************************************************************)
(* POST /events/{type} (app/api/events.py): views, uses and favorites of a *)
(* skill are logged and counted, each request in one database transaction. *)
(*                                                                         *)
(* A transaction waits for the advisory lock of its skill, looks for an    *)
(* event it would repeat, reads the counters and commits event and         *)
(* counters together.  Postgres grants a lock in the order in which it was *)
(* asked for, so the lock is the queue of its holder and waiters; two      *)
(* skills whose ids fold to one key share a lock.  created_at of an event  *)
(* is the time its transaction began, while the look-back window of a view *)
(* ends at the clock of the API process when it looks.                     *)
(***************************************************************************)
EXTENDS Integers, Sequences, FiniteSets

CONSTANTS
    Requests,   \* requests the API serves at a time
    Skills,
    Sessions,   \* session ids
    NoSession,  \* a request without one
    Keys,       \* advisory lock keys
    KeyOf,      \* _advisory_lock_key
    Window,     \* VIEW_DEDUPE_WINDOW_SECONDS
    Skew,       \* how far the API's clock is ahead of the database's
    MaxDelay,   \* bound: how long a request stays open
    MaxTime,    \* bound: the last instant
    MaxEvents,  \* bound: requests begun and not refused
    MaxFailures \* bound: requests that end in an error

ASSUME KeysAssumption == Skills # {} /\ KeyOf \in [Skills -> Keys]
ASSUME SessionsAssumption == NoSession \notin Sessions
ASSUME TimesAssumption == Window \in Nat /\ Skew \in Int /\ MaxDelay \in Nat /\ MaxTime \in Nat
ASSUME LimitsAssumption == MaxEvents \in Nat /\ MaxFailures \in Nat

Types == {"view", "use", "favorite"}

VARIABLES
    now,       \* the clock of the database
    alive,     \* the skills that exist
    events,    \* skill_events in the order of their commits
    popularity,\* skill_popularity; a missing row reads as zeroes everywhere
    queue,     \* per key: the holder of the advisory lock and those who wait
    pc,        \* where each request is
    req,       \* what each request asks for and when its transaction began
    mem,       \* the popularity row the request has read
    failures   \* counter of the bound

vars == <<now, alive, events, popularity, queue, pc, req, mem, failures>>

Counts == [Types -> Nat]
Event  == [skill: Skills, type: Types, session: Sessions \cup {NoSession}, at: Nat]

\* popularity.score
Score(count) == count["view"] + 10 * count["use"] + 50 * count["favorite"]

Zero == [count |-> [t \in Types |-> 0], score |-> 0]

\* Mutants of Counted: the score is that of the old counts, the sign is wrong.
CountedStaleScore(row, t) ==
    [count |-> [row.count EXCEPT ![t] = @ + 1], score |-> Score(row.count)]

CountedDown(row, t) ==
    LET count == [row.count EXCEPT ![t] = @ - 1]
    IN  [count |-> count, score |-> Score(count)]

\* The row after one more event of type t.
Counted(row, t) ==
    LET count == [row.count EXCEPT ![t] = @ + 1]
    IN  [count |-> count, score |-> Score(count)]

\* No request.
Blank == [skill |-> CHOOSE s \in Skills : TRUE, type |-> "use", session |-> NoSession, at |-> 0]

Init ==
    /\ now = 0
    /\ alive = Skills
    /\ events = <<>>
    /\ popularity = [s \in Skills |-> Zero]
    /\ queue = [k \in Keys |-> <<>>]
    /\ pc = [r \in Requests |-> "idle"]
    /\ req = [r \in Requests |-> Blank]
    /\ mem = [r \in Requests |-> Zero]
    /\ failures = 0

(***************************************************************************)
(* The advisory lock                                                       *)
(***************************************************************************)
Key(r) == KeyOf[req[r].skill]

\* Mutant of HasTurn: the lock is not asked for.
HasTurnAtOnce(r) == TRUE

\* pg_advisory_xact_lock has returned.
HasTurn(r) == queue[Key(r)] # <<>> /\ Head(queue[Key(r)]) = r

\* Mutant of Release: the lock outlives its transaction.
ReleaseKeepingLock(r) ==
    /\ pc' = [pc EXCEPT ![r] = "idle"]
    /\ req' = [req EXCEPT ![r] = Blank]
    /\ mem' = [mem EXCEPT ![r] = Zero]
    /\ UNCHANGED queue

\* The end of the transaction releases the lock.
Release(r) ==
    /\ queue' = [queue EXCEPT ![Key(r)] = Tail(@)]
    /\ pc' = [pc EXCEPT ![r] = "idle"]
    /\ req' = [req EXCEPT ![r] = Blank]
    /\ mem' = [mem EXCEPT ![r] = Zero]

(***************************************************************************)
(* One request                                                             *)
(***************************************************************************)
Open == {r \in Requests : pc[r] # "idle"}

\* The transaction begins with the request for the lock.
Begin(r) ==
    /\ pc[r] = "idle"
    /\ Len(events) + Cardinality(Open) < MaxEvents
    /\ \E s \in Skills, t \in Types, n \in Sessions \cup {NoSession} :
          /\ req' = [req EXCEPT ![r] = [skill |-> s, type |-> t, session |-> n, at |-> now]]
          /\ queue' = [queue EXCEPT ![KeyOf[s]] = Append(@, r)]
    /\ pc' = [pc EXCEPT ![r] = "wait"]
    /\ UNCHANGED <<now, alive, events, popularity, mem, failures>>

ShouldDedupe(q) == q.session # NoSession /\ q.type \in {"view", "favorite"}

\* Mutant of Repeats: the edge of the window does not count.
RepeatsInside(q, e, t) ==
    /\ e.skill = q.skill /\ e.type = q.type /\ e.session = q.session
    /\ q.type = "view" => e.at > t - Window

\* duplicate_stmt: e is an event q would repeat, seen at the time t of the API.
Repeats(q, e, t) ==
    /\ e.skill = q.skill /\ e.type = q.type /\ e.session = q.session
    /\ q.type = "view" => e.at >= t - Window

IsDuplicate(q) ==
    ShouldDedupe(q) /\ \E i \in DOMAIN events : Repeats(q, events[i], now + Skew)

\* The request repeats an event: it answers "duplicate" and ends.
Duplicate(r) ==
    /\ pc[r] = "wait" /\ HasTurn(r)
    /\ IsDuplicate(req[r])
    /\ Release(r)
    /\ UNCHANGED <<now, alive, events, popularity, failures>>

Accept(r) ==
    /\ pc[r] = "wait" /\ HasTurn(r)
    /\ ~IsDuplicate(req[r])
    /\ pc' = [pc EXCEPT ![r] = "accepted"]
    /\ UNCHANGED <<now, alive, events, popularity, queue, req, mem, failures>>

\* Nobody holds the popularity row of s.
RowFree(s) == \A q \in Requests : pc[q] = "write" => req[q].skill # s

\* The row is made if it is missing, and locked and read.
Read(r) ==
    /\ pc[r] = "accepted"
    /\ req[r].skill \in alive /\ RowFree(req[r].skill)
    /\ mem' = [mem EXCEPT ![r] = popularity[req[r].skill]]
    /\ pc' = [pc EXCEPT ![r] = "write"]
    /\ UNCHANGED <<now, alive, events, popularity, queue, req, failures>>

\* A skill that does not exist fails the foreign key of the new row.
Refuse(r) ==
    /\ pc[r] = "accepted" /\ req[r].skill \notin alive
    /\ Release(r)
    /\ UNCHANGED <<now, alive, events, popularity, failures>>

Commit(r) ==
    /\ pc[r] = "write"
    /\ events' = Append(events, req[r])
    /\ popularity' = [popularity EXCEPT ![req[r].skill] = Counted(mem[r], req[r].type)]
    /\ Release(r)
    /\ UNCHANGED <<now, alive, failures>>

\* A database error, a disconnect or a crash: the transaction is rolled back.
\* A request that fails while it waits counts as failing when its turn comes.
Fail(r) ==
    /\ pc[r] # "idle" /\ HasTurn(r) /\ failures < MaxFailures
    /\ failures' = failures + 1
    /\ Release(r)
    /\ UNCHANGED <<now, alive, events, popularity>>

(***************************************************************************)
(* The administrator and time                                              *)
(***************************************************************************)
EventsOf(s, t) == {i \in DOMAIN events : events[i].skill = s /\ events[i].type = t}

\* delete_skill: the row of popularity goes with the skill; the foreign key of
\* skill_events refuses the deletion of a skill that has events, and the row
\* locks of a request that is about to write one make it wait.
Delete(s) ==
    /\ s \in alive
    /\ \A t \in Types : EventsOf(s, t) = {}
    /\ RowFree(s)
    /\ alive' = alive \ {s}
    /\ popularity' = [popularity EXCEPT ![s] = Zero]
    /\ UNCHANGED <<now, events, queue, pc, req, mem, failures>>

Tick ==
    /\ now < MaxTime
    /\ \A r \in Open : now - req[r].at < MaxDelay
    /\ now' = now + 1
    /\ UNCHANGED <<alive, events, popularity, queue, pc, req, mem, failures>>

(***************************************************************************)
(* Specification                                                           *)
(***************************************************************************)
Serve(r) == Duplicate(r) \/ Accept(r) \/ Read(r) \/ Refuse(r) \/ Commit(r)

Next ==
    \/ \E r \in Requests : Begin(r) \/ Serve(r) \/ Fail(r)
    \/ \E s \in Skills : Delete(s)
    \/ Tick

Spec == Init /\ [][Next]_vars

\* A request that can go on eventually does; none has to begin or to fail.
FairSpec == Spec /\ \A r \in Requests : WF_vars(Serve(r))

(***************************************************************************)
(* Properties                                                              *)
(***************************************************************************)

\* Type invariant.
TypeOK ==
    /\ now \in Nat
    /\ alive \subseteq Skills
    /\ events \in Seq(Event)
    /\ popularity \in [Skills -> [count: Counts, score: Nat]]
    /\ queue \in [Keys -> Seq(Requests)]
    /\ pc \in [Requests -> {"idle", "wait", "accepted", "write"}]
    /\ req \in [Requests -> Event]
    /\ mem \in [Requests -> [count: Counts, score: Nat]]
    /\ failures \in Nat

\* "favorite: one event per skill/session (ever)", however many requests of the
\* session are open together.
FavoriteOnce ==
    \A i, j \in DOMAIN events :
        /\ events[i].type = "favorite" /\ events[i].session # NoSession
        /\ events[j].type = "favorite" /\ events[j].session = events[i].session
        /\ events[j].skill = events[i].skill
        => i = j

\* No update of a counter is lost and none is made up: the counters are those
\* of the log and the score is theirs, at every moment and for every skill.
PopularityIsDerived ==
    \A s \in Skills :
        /\ \A t \in Types : popularity[s].count[t] = Cardinality(EventsOf(s, t))
        /\ popularity[s].score = Score(popularity[s].count)

\* Two views of one skill and session, the first committed before the second.
RepeatedView(i, j) ==
    /\ i < j
    /\ events[i].type = "view" /\ events[j].type = "view"
    /\ events[i].session # NoSession /\ events[j].session = events[i].session
    /\ events[i].skill = events[j].skill

\* What deduplication guarantees of the created_at of repeated views: not the
\* whole window, as the comment in track_event has it, but the window less the
\* time a request may be open and the skew of the clocks.
ViewSpacing ==
    \A i, j \in DOMAIN events : RepeatedView(i, j) =>
        events[j].at - events[i].at > Window - MaxDelay - Skew

\* Every request is answered: the lock is always passed on and no transaction
\* waits for another in a circle.
RequestsEnd == \A r \in Requests : pc[r] # "idle" ~> pc[r] = "idle"
=============================================================================
