------------------------------ MODULE ApiKeys ------------------------------
(***************************************************************************)
(* A developer API key: requests authenticate with its secret, are counted *)
(* per minute, day and month and refused above the limit of a minute,      *)
(* while administrators revoke and rotate it (app/repos/api_key_repo.py,   *)
(* app/api/deps.py, app/api/admin_api_keys.py).  The tables are keyed by   *)
(* key, so one key is modelled; its scopes never change and are left out.  *)
(*                                                                         *)
(* Statements of a transaction are steps of their own: INSERT ... ON       *)
(* CONFLICT DO UPDATE locks the counter's row until the transaction ends   *)
(* and reads what is committed then; a new counter row shares the lock of  *)
(* the key's row (its foreign key), which only a change of key_hash, a     *)
(* unique column, conflicts with.                                          *)
(***************************************************************************)
EXTENDS Integers, Sequences, FiniteSets

CONSTANTS
    Requests,     \* requests the API serves at a time
    Admins,       \* revocations and rotations under way at a time
    Limit,        \* rate_limit_per_minute
    Expiry,       \* expires_at, the first minute the key is expired
    DayOf, MonthOf, \* the day and the month of each minute
    MaxMinute,    \* bound: the last minute
    MaxServed,    \* bound: requests counted
    MaxChanges,   \* bound: revocations and rotations begun
    MaxFailures   \* bound: errors, disconnects and crashes

Minutes == 0..MaxMinute

ASSUME PeriodsAssumption ==
    MaxMinute \in Nat /\ DayOf \in [Minutes -> Minutes] /\ MonthOf \in [Minutes -> Minutes]
ASSUME LimitsAssumption ==
    /\ Limit \in Nat /\ Expiry \in Nat
    /\ MaxServed \in Nat /\ MaxChanges \in Nat /\ MaxFailures \in Nat

VARIABLES
    now,      \* the current minute
    key,      \* the row of api_keys
    returned, \* history: the secrets administrators were given
    usage,    \* the three counter tables; no row reads as 0
    served,   \* history: the minutes of the requests let through, in order
    pc,       \* where each request is
    minute,   \* the minute a request is counted in
    counted,  \* how many of the tables the request has counted in
    shared,   \* whether it shares the lock of the key's row
    change,   \* where each administrator is
    loaded,   \* the row an administrator read and the secret generated
    changes, failures   \* counters of the bounds

requests == <<pc, minute, counted, shared>>
admins   == <<change, loaded, changes>>
vars     == <<now, key, returned, usage, served, requests, admins, failures>>

\* api_key_rate_windows, api_key_usage_daily, api_key_usage_monthly.
Tables == 1..3

\* _minute_floor, date and _month_floor: the period of a table m falls in.
Period(t, m) == IF t = 1 THEN m ELSE IF t = 2 THEN DayOf[m] ELSE MonthOf[m]

Secrets == 1..(MaxChanges + 1)

Key == [secret: Secrets, active: BOOLEAN, revoked: BOOLEAN]

\* issue_key: the key as it is issued.
Issued == [secret |-> 1, active |-> TRUE, revoked |-> FALSE]

Init ==
    /\ now = 0
    /\ key = Issued
    /\ returned = {1}
    /\ usage = [t \in Tables |-> [p \in Minutes |-> 0]]
    /\ served = <<>>
    /\ pc = [r \in Requests |-> "idle"]
    /\ minute = [r \in Requests |-> 0]
    /\ counted = [r \in Requests |-> 0]
    /\ shared = [r \in Requests |-> FALSE]
    /\ change = [a \in Admins |-> "idle"]
    /\ loaded = [a \in Admins |-> Issued]
    /\ changes = 0 /\ failures = 0

(***************************************************************************)
(* Row locks                                                               *)
(***************************************************************************)

\* Mutant of CounterFree: the count is read without locking the row.
CounterFreeAlways(t, p) == TRUE

\* No other request has counted in the row of table t and period p.
CounterFree(t, p) ==
    \A q \in Requests : ~(counted[q] >= t /\ Period(t, minute[q]) = p)

\* Nobody is about to commit a change of the key's row.
KeyFree ==
    /\ \A q \in Requests : pc[q] # "touched"
    /\ \A a \in Admins : change[a] \notin {"revoked", "rotated"}

Rotating == \E a \in Admins : change[a] = "rotated"

(***************************************************************************)
(* A request                                                               *)
(***************************************************************************)

\* authenticate_plain_key accepts the secret s.
Usable(s) == key.secret = s /\ key.active /\ ~key.revoked /\ now < Expiry

\* require_api_key; a request that presents another secret is refused.
Authenticate(r) ==
    /\ pc[r] = "idle"
    /\ Len(served) + Cardinality({q \in Requests : pc[q] # "idle"}) < MaxServed
    /\ \E s \in returned : Usable(s)
    /\ pc' = [pc EXCEPT ![r] = "authenticated"]
    /\ UNCHANGED <<now, key, returned, usage, served, minute, counted, shared, admins, failures>>

\* Mutant of Stamp: the minute is rounded up.
StampUp(r) ==
    /\ pc[r] = "authenticated"
    /\ pc' = [pc EXCEPT ![r] = "counting"]
    /\ minute' = [minute EXCEPT ![r] = now + 1]
    /\ UNCHANGED <<now, key, returned, usage, served, counted, shared, admins, failures>>

\* The start of enforce_rate_limit_and_track reads the clock once.
Stamp(r) ==
    /\ pc[r] = "authenticated"
    /\ pc' = [pc EXCEPT ![r] = "counting"]
    /\ minute' = [minute EXCEPT ![r] = now]
    /\ UNCHANGED <<now, key, returned, usage, served, counted, shared, admins, failures>>

\* Mutant of End: the share of the key's row is never given back.
EndSharing(r) ==
    /\ pc' = [pc EXCEPT ![r] = "idle"]
    /\ minute' = [minute EXCEPT ![r] = 0]
    /\ counted' = [counted EXCEPT ![r] = 0]
    /\ UNCHANGED shared

\* A transaction ends: its locks are released.
End(r) ==
    /\ pc' = [pc EXCEPT ![r] = "idle"]
    /\ minute' = [minute EXCEPT ![r] = 0]
    /\ counted' = [counted EXCEPT ![r] = 0]
    /\ shared' = [shared EXCEPT ![r] = FALSE]

\* The count r's next upsert returns, the request itself included.
Current(r) == LET t == counted[r] + 1 IN usage[t][Period(t, minute[r])] + 1

OverLimit(r) == counted[r] = 0 /\ Current(r) > Limit

\* The next of the three upserts can run: the counter's row is free and, when
\* it is to be inserted, no rotation holds the key's row.
CanCount(r) ==
    /\ pc[r] = "counting" /\ counted[r] < 3
    /\ CounterFree(counted[r] + 1, Period(counted[r] + 1, minute[r]))
    /\ Current(r) = 1 => ~Rotating

Count(r) ==
    /\ CanCount(r) /\ ~OverLimit(r)
    /\ counted' = [counted EXCEPT ![r] = @ + 1]
    /\ shared' = [shared EXCEPT ![r] = @ \/ Current(r) = 1]
    /\ UNCHANGED <<now, key, returned, usage, served, pc, minute, admins, failures>>

\* The limit is exceeded: the increment is rolled back and the answer is 429.
Reject(r) ==
    /\ CanCount(r) /\ OverLimit(r)
    /\ End(r)
    /\ UNCHANGED <<now, key, returned, usage, served, admins, failures>>

\* last_used_at is written: the key's row is locked.
Touch(r) ==
    /\ pc[r] = "counting" /\ counted[r] = 3
    /\ KeyFree
    /\ pc' = [pc EXCEPT ![r] = "touched"]
    /\ UNCHANGED <<now, key, returned, usage, served, minute, counted, shared, admins, failures>>

\* Mutant of Commit: the monthly table is committed on its own, later or never.
CommitWithoutMonth(r) ==
    /\ pc[r] = "touched"
    /\ usage' = [t \in Tables |-> IF t = 3 THEN usage[t]
                                  ELSE [usage[t] EXCEPT ![Period(t, minute[r])] = @ + 1]]
    /\ served' = Append(served, minute[r])
    /\ End(r)
    /\ UNCHANGED <<now, key, returned, admins, failures>>

\* The commit makes the counts of all three tables visible together.
Commit(r) ==
    /\ pc[r] = "touched"
    /\ usage' = [t \in Tables |-> [usage[t] EXCEPT ![Period(t, minute[r])] = @ + 1]]
    /\ served' = Append(served, minute[r])
    /\ End(r)
    /\ UNCHANGED <<now, key, returned, admins, failures>>

\* An error, a disconnect or a crash before the commit.
Fail(r) ==
    /\ pc[r] # "idle" /\ failures < MaxFailures
    /\ failures' = failures + 1
    /\ End(r)
    /\ UNCHANGED <<now, key, returned, usage, served, admins>>

(***************************************************************************)
(* An administrator                                                        *)
(***************************************************************************)

\* revoke_key and rotate_key load the row.
LoadKey(a) ==
    /\ change[a] = "idle" /\ changes < MaxChanges
    /\ changes' = changes + 1
    /\ \/ /\ change' = [change EXCEPT ![a] = "revoke"]
          /\ loaded' = [loaded EXCEPT ![a] = key]
       \/ \* generate_api_key_pair never returns a secret twice
          /\ change' = [change EXCEPT ![a] = "rotate"]
          /\ loaded' = [loaded EXCEPT ![a] = [key EXCEPT !.secret = changes + 2]]
    /\ UNCHANGED <<now, key, returned, usage, served, requests, failures>>

\* The UPDATE is flushed once the locks of the row allow it.
Flush(a) ==
    /\ KeyFree
    /\ \/ change[a] = "revoke" /\ change' = [change EXCEPT ![a] = "revoked"]
       \/ /\ change[a] = "rotate" /\ change' = [change EXCEPT ![a] = "rotated"]
          /\ \A q \in Requests : ~shared[q]
    /\ UNCHANGED <<now, key, returned, usage, served, requests, loaded, changes, failures>>

\* What the UPDATE of a revocation writes: revoked_at, and is_active if the row
\* that was loaded was active (the ORM emits changed attributes only).
Revoked(row, read) == [row EXCEPT !.active = IF read.active THEN FALSE ELSE @, !.revoked = TRUE]

\* Mutant of Rotated: the old secret stays.
RotatedSameSecret(row, read) ==
    [row EXCEPT !.active  = IF read.active THEN @ ELSE TRUE,
                !.revoked = IF read.revoked THEN FALSE ELSE @]

\* A rotation writes the new secret, and the flags that the row that was loaded
\* does not already have.
Rotated(row, read) ==
    [row EXCEPT !.secret  = read.secret,
                !.active  = IF read.active THEN @ ELSE TRUE,
                !.revoked = IF read.revoked THEN FALSE ELSE @]

Leave(a) ==
    /\ change' = [change EXCEPT ![a] = "idle"]
    /\ loaded' = [loaded EXCEPT ![a] = Issued]

CommitRevoke(a) ==
    /\ change[a] = "revoked"
    /\ key' = Revoked(key, loaded[a])
    /\ Leave(a)
    /\ UNCHANGED <<now, returned, usage, served, requests, changes, failures>>

CommitRotate(a) ==
    /\ change[a] = "rotated"
    /\ key' = Rotated(key, loaded[a])
    /\ returned' = returned \cup {loaded[a].secret}
    /\ Leave(a)
    /\ UNCHANGED <<now, usage, served, requests, changes, failures>>

GiveUp(a) ==
    /\ change[a] # "idle" /\ failures < MaxFailures
    /\ failures' = failures + 1
    /\ Leave(a)
    /\ UNCHANGED <<now, key, returned, usage, served, requests, changes>>

Tick ==
    /\ now < MaxMinute
    /\ now' = now + 1
    /\ UNCHANGED <<key, returned, usage, served, requests, admins, failures>>

(***************************************************************************)
(* Specification                                                           *)
(***************************************************************************)
Serve(r) == Stamp(r) \/ Count(r) \/ Reject(r) \/ Touch(r) \/ Commit(r)

Change(a) == Flush(a) \/ CommitRevoke(a) \/ CommitRotate(a)

Next ==
    \/ \E r \in Requests : Authenticate(r) \/ Serve(r) \/ Fail(r)
    \/ \E a \in Admins : LoadKey(a) \/ Change(a) \/ GiveUp(a)
    \/ Tick

Spec == Init /\ [][Next]_vars

\* Waiters for a row are woken in the order they came, so a statement that is
\* enabled again and again is executed: strong fairness.
FairSpec ==
    /\ Spec
    /\ \A r \in Requests : SF_vars(Serve(r))
    /\ \A a \in Admins : SF_vars(Change(a))

(***************************************************************************)
(* Properties                                                              *)
(***************************************************************************)

\* Type invariant.
TypeOK ==
    /\ now \in Minutes
    /\ key \in Key
    /\ returned \subseteq Secrets
    /\ usage \in [Tables -> [Minutes -> Nat]]
    /\ served \in Seq(Minutes)
    /\ pc \in [Requests -> {"idle", "authenticated", "counting", "touched"}]
    /\ minute \in [Requests -> Minutes]
    /\ counted \in [Requests -> 0..3]
    /\ shared \in [Requests -> BOOLEAN]
    /\ change \in [Admins -> {"idle", "revoke", "revoked", "rotate", "rotated"}]
    /\ loaded \in [Admins -> Key]
    /\ changes \in 0..MaxChanges /\ failures \in Nat

ServedIn(t, p) == {i \in DOMAIN served : Period(t, served[i]) = p}

\* No more requests are let through in a minute than the limit, however many
\* of them are checked at the same time.
RateLimit == \A m \in Minutes : Cardinality(ServedIn(1, m)) <= Limit

\* The three tables agree with the requests that were let through and so with
\* each other: refused and failed requests leave no trace in any of them.
UsageIsServed ==
    \A t \in Tables : \A p \in Minutes : usage[t][p] = Cardinality(ServedIn(t, p))

\* A secret that has stopped working, because the key was revoked, rotated or
\* has expired, never works again, whatever revocations and rotations overlap.
DeadStaysDead ==
    [][\A s \in returned : ~Usable(s) => ~Usable(s)']_vars

\* Requests and administrators never wait for each other in a circle: every
\* transaction ends.
EverythingEnds ==
    /\ \A r \in Requests : pc[r] # "idle" ~> pc[r] = "idle"
    /\ \A a \in Admins : change[a] # "idle" ~> change[a] = "idle"
=============================================================================
