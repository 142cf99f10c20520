--------------------------- MODULE ApiKeysProofs ---------------------------
(***************************************************************************)
(* Proofs about ApiKeys, for every number of requests and administrators,  *)
(* every limit and every division of the minutes into days and months.     *)
(***************************************************************************)
EXTENDS ApiKeys, FiniteSetTheorems, TLAPS

(***************************************************************************)
(* Types.  Only a request that counts has counted, and one that writes the *)
(* key's row has counted in all tables.                                    *)
(***************************************************************************)
PhaseInv ==
    \A r \in Requests : /\ counted[r] > 0 => pc[r] \in {"counting", "touched"}
                        /\ pc[r] = "touched" => counted[r] = 3

TypeInv == TypeOK /\ PhaseInv

\* Every table counts a minute in a period that is named by a minute.
LEMMA PeriodIsMinute ==
    ASSUME NEW t, NEW m \in Minutes PROVE Period(t, m) \in Minutes
BY PeriodsAssumption DEF Period

\* A key is typed when it is issued.
LEMMA IssuedIsTyped == Issued \in Key
BY LimitsAssumption DEF Issued, Key, Secrets

\* The end of a transaction keeps the types of the requests.
LEMMA EndKeeps ==
    ASSUME TypeInv, NEW r \in Requests, End(r)
    PROVE  /\ pc' \in [Requests -> {"idle", "authenticated", "counting", "touched"}]
           /\ minute' \in [Requests -> Minutes]
           /\ counted' \in [Requests -> 0..3]
           /\ shared' \in [Requests -> BOOLEAN]
           /\ PhaseInv'
           /\ pc'[r] = "idle" /\ counted'[r] = 0
           /\ \A q \in Requests \ {r} :
                 pc'[q] = pc[q] /\ minute'[q] = minute[q] /\ counted'[q] = counted[q]
<1>1. 0 \in Minutes
  BY PeriodsAssumption DEF Minutes
<1>2. /\ pc' \in [Requests -> {"idle", "authenticated", "counting", "touched"}]
      /\ minute' \in [Requests -> Minutes]
  BY <1>1 DEF End, TypeInv, TypeOK
<1>3. counted' \in [Requests -> 0..3] /\ shared' \in [Requests -> BOOLEAN]
  BY DEF End, TypeInv, TypeOK
<1>4. /\ pc'[r] = "idle" /\ counted'[r] = 0
      /\ \A q \in Requests \ {r} :
            pc'[q] = pc[q] /\ minute'[q] = minute[q] /\ counted'[q] = counted[q]
  BY DEF End, TypeInv, TypeOK
<1>5. PhaseInv'
  BY <1>4 DEF TypeInv, PhaseInv
<1> QED BY <1>2, <1>3, <1>4, <1>5

\* The end of an administrator's transaction keeps the types of its memory.
LEMMA LeaveKeeps ==
    ASSUME TypeInv, NEW a \in Admins, Leave(a)
    PROVE  /\ change' \in [Admins -> {"idle", "revoke", "revoked", "rotate", "rotated"}]
           /\ loaded' \in [Admins -> Key]
BY IssuedIsTyped DEF Leave, TypeInv, TypeOK

\* The initial states are typed.
LEMMA TypeInit == Init => TypeInv
<1> SUFFICES ASSUME Init PROVE TypeInv
    OBVIOUS
<1>1. 0 \in Minutes /\ 0 \in 0..MaxChanges /\ 1 \in Secrets
  BY PeriodsAssumption, LimitsAssumption DEF Minutes, Secrets
<1>2. TypeOK
  BY <1>1, IssuedIsTyped DEF Init, TypeOK
<1>3. PhaseInv
  BY DEF Init, PhaseInv
<1> QED BY <1>2, <1>3 DEF TypeInv

\* Every action of a request and of an administrator keeps the types.
LEMMA TypeStep == TypeInv /\ [Next]_vars => TypeInv'
<1> SUFFICES ASSUME TypeInv, [Next]_vars PROVE TypeInv'
    OBVIOUS
<1> USE DEF requests, admins
<1>1. CASE UNCHANGED vars
  BY <1>1 DEF TypeInv, TypeOK, PhaseInv, vars
<1>2. ASSUME NEW r \in Requests, Authenticate(r) PROVE TypeInv'
  BY <1>2 DEF Authenticate, TypeInv, TypeOK, PhaseInv
<1>3. ASSUME NEW r \in Requests, Stamp(r) PROVE TypeInv'
  BY <1>3 DEF Stamp, TypeInv, TypeOK, PhaseInv
<1>4. ASSUME NEW r \in Requests, Count(r) PROVE TypeInv'
  <2>1. counted' \in [Requests -> 0..3] /\ pc[r] = "counting"
    <3>1. pc[r] = "counting" /\ counted[r] + 1 \in 0..3
      <4>1. pc[r] = "counting" /\ counted[r] < 3
        BY <1>4 DEF Count, CanCount
      <4>2. counted[r] \in 0..3
        BY DEF TypeInv, TypeOK
      <4> QED BY <4>1, <4>2
    <3> QED BY <1>4, <3>1 DEF Count, TypeInv, TypeOK
  <2>2. shared' \in [Requests -> BOOLEAN]
    BY <1>4 DEF Count, TypeInv, TypeOK
  <2>3. TypeOK'
    BY <1>4, <2>1, <2>2 DEF Count, TypeInv, TypeOK
  <2>4. PhaseInv'
    BY <1>4, <2>1 DEF Count, TypeInv, TypeOK, PhaseInv
  <2> QED BY <2>3, <2>4 DEF TypeInv
<1>5. ASSUME NEW r \in Requests, Reject(r) PROVE TypeInv'
  BY <1>5, EndKeeps DEF Reject, TypeInv, TypeOK
<1>6. ASSUME NEW r \in Requests, Touch(r) PROVE TypeInv'
  BY <1>6 DEF Touch, TypeInv, TypeOK, PhaseInv
<1>7. ASSUME NEW r \in Requests, Commit(r) PROVE TypeInv'
  <2>1. usage' \in [Tables -> [Minutes -> Nat]]
    <3>1. \A t \in Tables : Period(t, minute[r]) \in Minutes /\ usage[t] \in [Minutes -> Nat]
      BY PeriodIsMinute DEF TypeInv, TypeOK
    <3> QED BY <1>7, <3>1 DEF Commit
  <2>2. served' \in Seq(Minutes)
    BY <1>7 DEF Commit, TypeInv, TypeOK
  <2> QED BY <1>7, <2>1, <2>2, EndKeeps DEF Commit, TypeInv, TypeOK
<1>8. ASSUME NEW r \in Requests, Fail(r) PROVE TypeInv'
  BY <1>8, EndKeeps DEF Fail, TypeInv, TypeOK
<1>9. ASSUME NEW a \in Admins, LoadKey(a) PROVE TypeInv'
  <2>1. changes + 2 \in Secrets /\ changes + 1 \in 0..MaxChanges
    BY <1>9, LimitsAssumption DEF LoadKey, Secrets, TypeInv, TypeOK
  <2>2. [key EXCEPT !.secret = changes + 2] \in Key
    BY <2>1 DEF TypeInv, TypeOK, Key
  <2>3. loaded' \in [Admins -> Key]
    BY <1>9, <2>2 DEF LoadKey, TypeInv, TypeOK
  <2>4. change' \in [Admins -> {"idle", "revoke", "revoked", "rotate", "rotated"}]
    BY <1>9 DEF LoadKey, TypeInv, TypeOK
  <2> QED BY <1>9, <2>1, <2>3, <2>4 DEF LoadKey, TypeInv, TypeOK, PhaseInv
<1>10. ASSUME NEW a \in Admins, Flush(a) PROVE TypeInv'
  BY <1>10 DEF Flush, TypeInv, TypeOK, PhaseInv
<1>11. ASSUME NEW a \in Admins, CommitRevoke(a) PROVE TypeInv'
  <2>1. key' \in Key
    BY <1>11 DEF CommitRevoke, Revoked, TypeInv, TypeOK, Key
  <2> QED BY <1>11, <2>1, LeaveKeeps DEF CommitRevoke, TypeInv, TypeOK, PhaseInv
<1>12. ASSUME NEW a \in Admins, CommitRotate(a) PROVE TypeInv'
  <2>1. loaded[a] \in Key
    BY DEF TypeInv, TypeOK
  <2>2. key' \in Key /\ returned' \subseteq Secrets
    BY <1>12, <2>1 DEF CommitRotate, Rotated, TypeInv, TypeOK, Key
  <2> QED BY <1>12, <2>2, LeaveKeeps DEF CommitRotate, TypeInv, TypeOK, PhaseInv
<1>13. ASSUME NEW a \in Admins, GiveUp(a) PROVE TypeInv'
  BY <1>13, LeaveKeeps DEF GiveUp, TypeInv, TypeOK, PhaseInv
<1>14. ASSUME Tick PROVE TypeInv'
  <2>1. now + 1 \in Minutes
    BY <1>14, PeriodsAssumption DEF Tick, Minutes, TypeInv, TypeOK
  <2> QED BY <1>14, <2>1 DEF Tick, TypeInv, TypeOK, PhaseInv
<1> QED
  BY <1>1, <1>2, <1>3, <1>4, <1>5, <1>6, <1>7, <1>8, <1>9, <1>10, <1>11, <1>12, <1>13,
     <1>14 DEF Next, Serve, Change

\* Every reachable state is typed.
THEOREM TypeCorrect == Spec => []TypeInv
BY TypeInit, TypeStep, PTL DEF Spec

\* The type invariant the runs check.
THEOREM TypesHold == Spec => []TypeOK
BY TypeCorrect, PTL DEF TypeInv

(***************************************************************************)
(* Secrets.  A rotation that is under way holds a secret nobody was given, *)
(* and no two rotations hold the same: what a commit makes current is new. *)
(***************************************************************************)
Holds(a) == change[a] \in {"rotate", "rotated"}

SecretInv ==
    /\ key.secret \in returned
    /\ returned \subseteq 1..(changes + 1)
    /\ \A a \in Admins : Holds(a) =>
          /\ loaded[a].secret \notin returned
          /\ loaded[a].secret \in 1..(changes + 1)
    /\ \A a, b \in Admins : Holds(a) /\ Holds(b) /\ a # b => loaded[a].secret # loaded[b].secret

\* Every action keeps the secrets under way fresh and different from each other.
LEMMA SecretStep == TypeInv /\ SecretInv /\ [Next]_vars => SecretInv'
<1> SUFFICES ASSUME TypeInv, SecretInv, [Next]_vars PROVE SecretInv'
    OBVIOUS
<1> USE DEF admins
<1>1. CASE UNCHANGED <<key, returned, change, loaded, changes>>
  BY <1>1 DEF SecretInv, Holds
<1>2. ASSUME NEW a \in Admins, LoadKey(a) PROVE SecretInv'
  <2>1. changes \in Nat /\ changes' = changes + 1 /\ UNCHANGED <<key, returned>>
    BY <1>2, LimitsAssumption DEF LoadKey, TypeInv, TypeOK
  <2>2. /\ Holds(a)' => loaded'[a].secret = changes + 2
        /\ \A b \in Admins \ {a} : loaded'[b] = loaded[b] /\ (Holds(b)' <=> Holds(b))
    BY <1>2 DEF LoadKey, Holds, TypeInv, TypeOK, Key
  <2>3. \A b \in Admins : loaded[b].secret \in Nat
    BY LimitsAssumption DEF TypeInv, TypeOK, Key, Secrets
  <2> QED BY <2>1, <2>2, <2>3 DEF SecretInv
<1>3. ASSUME NEW a \in Admins, Flush(a) PROVE SecretInv'
  <2>1. \A b \in Admins : Holds(b)' <=> Holds(b)
    BY <1>3 DEF Flush, Holds, TypeInv, TypeOK
  <2> QED BY <1>3, <2>1 DEF Flush, SecretInv
<1>4. ASSUME NEW a \in Admins, CommitRevoke(a) PROVE SecretInv'
  <2>1. key'.secret = key.secret
    BY <1>4 DEF CommitRevoke, Revoked, TypeInv, TypeOK, Key
  <2>2. ~Holds(a)' /\ \A b \in Admins \ {a} : loaded'[b] = loaded[b] /\ (Holds(b)' <=> Holds(b))
    BY <1>4 DEF CommitRevoke, Leave, Holds, TypeInv, TypeOK
  <2> QED BY <1>4, <2>1, <2>2 DEF CommitRevoke, SecretInv
<1>5. ASSUME NEW a \in Admins, CommitRotate(a) PROVE SecretInv'
  <2>1. key'.secret = loaded[a].secret /\ Holds(a)
    BY <1>5 DEF CommitRotate, Rotated, Holds, TypeInv, TypeOK, Key
  <2>2. ~Holds(a)' /\ \A b \in Admins \ {a} : loaded'[b] = loaded[b] /\ (Holds(b)' <=> Holds(b))
    BY <1>5 DEF CommitRotate, Leave, Holds, TypeInv, TypeOK
  <2> QED BY <1>5, <2>1, <2>2 DEF CommitRotate, SecretInv
<1>6. ASSUME NEW a \in Admins, GiveUp(a) PROVE SecretInv'
  <2>1. ~Holds(a)' /\ \A b \in Admins \ {a} : loaded'[b] = loaded[b] /\ (Holds(b)' <=> Holds(b))
    BY <1>6 DEF GiveUp, Leave, Holds, TypeInv, TypeOK
  <2> QED BY <1>6, <2>1 DEF GiveUp, SecretInv
<1>7. \/ UNCHANGED <<key, returned, change, loaded, changes>>
      \/ \E a \in Admins : LoadKey(a) \/ Flush(a) \/ CommitRevoke(a) \/ CommitRotate(a) \/ GiveUp(a)
  BY DEF Next, Serve, Change, Authenticate, Stamp, Count, Reject, Touch, Commit, Fail, Tick, vars
<1> QED BY <1>1, <1>2, <1>3, <1>4, <1>5, <1>6, <1>7

\* No step makes a secret work that somebody was given and that does not work:
\* a revocation leaves the key revoked, a rotation leaves it with a fresh secret.
LEMMA DeadStep ==
    ASSUME TypeInv, SecretInv, [Next]_vars, NEW s \in returned, ~Usable(s)
    PROVE  ~Usable(s)'
<1> USE DEF admins
<1>1. ASSUME NEW a \in Admins, CommitRevoke(a) PROVE ~Usable(s)'
  <2>1. key'.revoked = TRUE
    BY <1>1 DEF CommitRevoke, Revoked, TypeInv, TypeOK, Key
  <2> QED BY <2>1 DEF Usable
<1>2. ASSUME NEW a \in Admins, CommitRotate(a) PROVE ~Usable(s)'
  <2>1. key'.secret = loaded[a].secret /\ Holds(a)
    BY <1>2 DEF CommitRotate, Rotated, Holds, TypeInv, TypeOK, Key
  <2> QED BY <2>1 DEF Usable, SecretInv
<1>3. CASE UNCHANGED key /\ now <= now'
  <2>1. now \in Nat /\ now' \in Nat
    <3>1. TypeInv'
      BY TypeStep
    <3>2. now \in Minutes /\ now' \in Minutes
      BY <3>1 DEF TypeInv, TypeOK
    <3> QED BY <3>2, PeriodsAssumption DEF Minutes
  <2> QED BY <1>3, <2>1, LimitsAssumption DEF Usable
<1>4. ASSUME Tick PROVE UNCHANGED key /\ now <= now'
  BY <1>4, PeriodsAssumption DEF Tick, TypeInv, TypeOK, Minutes
<1>5. ASSUME UNCHANGED <<key, now>> PROVE now <= now'
  BY <1>5, PeriodsAssumption DEF TypeInv, TypeOK, Minutes
<1>6. \/ UNCHANGED <<key, now>> \/ Tick
      \/ \E a \in Admins : CommitRevoke(a) \/ CommitRotate(a)
  BY DEF Next, Serve, Change, Authenticate, Stamp, Count, Reject, Touch, Commit, Fail,
         LoadKey, Flush, GiveUp, vars
<1> QED BY <1>1, <1>2, <1>3, <1>4, <1>5, <1>6

\* A secret that has stopped working never works again, however revocations and
\* rotations overlap and fail.
THEOREM DeadSecretsStayDead == Spec => DeadStaysDead
<1>1. Init => SecretInv
  <2> SUFFICES ASSUME Init PROVE SecretInv
      OBVIOUS
  <2>1. key.secret = 1 /\ returned = {1} /\ changes = 0 /\ \A a \in Admins : ~Holds(a)
    BY DEF Init, Issued, Holds
  <2> QED BY <2>1 DEF SecretInv
<1>2. TypeInv /\ SecretInv /\ [Next]_vars
        => [\A s \in returned : ~Usable(s) => ~Usable(s)']_vars
  BY DeadStep
<1> QED BY <1>1, <1>2, SecretStep, TypeCorrect, PTL DEF Spec, DeadStaysDead

(***************************************************************************)
(* Counting.  The row lock of a counter belongs to one request until its   *)
(* transaction ends, so the count it was checked against is still the one  *)
(* it adds to, and the limit holds when the addition becomes visible.      *)
(***************************************************************************)
OwnRows ==
    \A q, r \in Requests, t \in Tables :
        q # r /\ counted[q] >= t /\ counted[r] >= t
            => Period(t, minute[q]) # Period(t, minute[r])

CountInv ==
    /\ UsageIsServed
    /\ OwnRows
    /\ \A r \in Requests : counted[r] >= 1 => usage[1][minute[r]] < Limit
    /\ \A m \in Minutes : usage[1][m] <= Limit

\* Only finitely many requests were let through in a period.
LEMMA ServedIsFinite ==
    ASSUME TypeInv, NEW t, NEW p
    PROVE  IsFiniteSet(ServedIn(t, p)) /\ Cardinality(ServedIn(t, p)) \in Nat
<1>1. DOMAIN served = 1..Len(served) /\ Len(served) \in Nat
  BY DEF TypeInv, TypeOK
<1>2. IsFiniteSet(1..Len(served)) /\ ServedIn(t, p) \subseteq 1..Len(served)
  BY <1>1, FS_Interval DEF ServedIn
<1> QED BY <1>2, FS_Subset, FS_CardinalityType

\* One more request served in minute m counts in m's period of a table only.
LEMMA OneMoreServed ==
    ASSUME TypeInv, NEW m \in Minutes, served' = Append(served, m), NEW t, NEW p
    PROVE  Cardinality(ServedIn(t, p)') =
               Cardinality(ServedIn(t, p)) + (IF Period(t, m) = p THEN 1 ELSE 0)
<1>1. /\ DOMAIN served = 1..Len(served) /\ Len(served) \in Nat
      /\ DOMAIN served' = 1..(Len(served) + 1)
      /\ served'[Len(served) + 1] = m
      /\ \A i \in DOMAIN served : served'[i] = served[i]
  BY DEF TypeInv, TypeOK
<1>2. IsFiniteSet(ServedIn(t, p)) /\ Cardinality(ServedIn(t, p)) \in Nat
  BY ServedIsFinite
<1>3. Len(served) + 1 \notin ServedIn(t, p)
  BY <1>1 DEF ServedIn
<1>4. CASE Period(t, m) = p
  <2>1. ServedIn(t, p)' = ServedIn(t, p) \cup {Len(served) + 1}
    BY <1>1, <1>4 DEF ServedIn
  <2> QED BY <1>2, <1>3, <1>4, <2>1, FS_AddElement
<1>5. CASE Period(t, m) # p
  <2>1. ServedIn(t, p)' = ServedIn(t, p)
    BY <1>1, <1>5 DEF ServedIn
  <2> QED BY <1>2, <1>5, <2>1
<1> QED BY <1>4, <1>5

\* Steps that serve nobody keep the invariant, if whoever still has counted is
\* a request that had counted as much, in the same minute.
LEMMA CountKept ==
    ASSUME CountInv, UNCHANGED <<usage, served>>,
           \A r \in Requests, t \in Tables : counted'[r] >= t =>
               counted[r] >= t /\ minute'[r] = minute[r]
    PROVE  CountInv'
<1>1. UsageIsServed'
  BY DEF CountInv, UsageIsServed, ServedIn
<1>2. OwnRows'
  BY DEF CountInv, OwnRows
<1>3. 1 \in Tables
  BY DEF Tables
<1> QED BY <1>1, <1>2, <1>3 DEF CountInv

\* Every action of enforce_rate_limit_and_track keeps the counts exact and the
\* limit, because no two requests count in one row at a time.
LEMMA CountStep == TypeInv /\ CountInv /\ [Next]_vars => CountInv'
<1> SUFFICES ASSUME TypeInv, CountInv, [Next]_vars PROVE CountInv'
    OBVIOUS
<1>0. \A t \in Tables : ~(0 >= t)
  BY DEF Tables
<1>1. CASE UNCHANGED <<usage, served, minute, counted>>
  BY <1>1, CountKept
<1>2. ASSUME NEW r \in Requests, Stamp(r) PROVE CountInv'
  <2>1. counted[r] = 0
    <3>1. ~(counted[r] > 0)
      BY <1>2 DEF Stamp, TypeInv, PhaseInv
    <3>2. counted[r] \in 0..3
      BY DEF TypeInv, TypeOK
    <3> QED BY <3>1, <3>2
  <2>2. \A q \in Requests \ {r} : minute'[q] = minute[q]
    BY <1>2 DEF Stamp, TypeInv, TypeOK
  <2>3. UNCHANGED <<usage, served, counted>>
    BY <1>2 DEF Stamp
  <2> QED BY <1>0, <2>1, <2>2, <2>3, CountKept
<1>3. ASSUME NEW r \in Requests, Reject(r) \/ Fail(r) PROVE CountInv'
  <2>1. End(r) /\ UNCHANGED <<usage, served>>
    BY <1>3 DEF Reject, Fail
  <2>2. /\ counted'[r] = 0
        /\ \A q \in Requests \ {r} : minute'[q] = minute[q] /\ counted'[q] = counted[q]
    BY <2>1, EndKeeps
  <2> QED BY <1>0, <2>1, <2>2, CountKept
<1>4. ASSUME NEW r \in Requests, Count(r) PROVE CountInv'
  <2> DEFINE n == counted[r] + 1
  <2>1. /\ counted[r] \in 0..2 /\ n \in Tables
        /\ counted'[r] = n
        /\ \A q \in Requests \ {r} : counted'[q] = counted[q]
        /\ UNCHANGED <<usage, served, minute>>
    <3>1. counted[r] \in 0..3 /\ counted[r] < 3
      BY <1>4 DEF Count, CanCount, TypeInv, TypeOK
    <3> QED BY <1>4, <3>1 DEF Count, Tables, TypeInv, TypeOK
  <2>2. CounterFree(n, Period(n, minute[r])) /\ ~OverLimit(r)
    BY <1>4 DEF Count, CanCount
  <2>3. UsageIsServed'
    BY <2>1 DEF CountInv, UsageIsServed, ServedIn
  <2>4. OwnRows'
    <3> SUFFICES ASSUME NEW q \in Requests, NEW t \in Tables, q # r,
                        counted'[q] >= t, counted'[r] >= t
                 PROVE  Period(t, minute[q]) # Period(t, minute[r])
        BY <2>1 DEF OwnRows, CountInv
    <3>1. CASE t = n
      BY <2>1, <2>2, <3>1 DEF CounterFree
    <3>2. CASE t # n
      <4>1. counted[r] >= t
        BY <2>1, <3>2 DEF Tables
      <4> QED BY <2>1, <4>1 DEF OwnRows, CountInv
    <3> QED BY <3>1, <3>2
  <2>5. usage[1][minute[r]] < Limit
    <3>1. CASE counted[r] = 0
      <4>1. usage[1][Period(1, minute[r])] + 1 <= Limit
        <5>1. minute[r] \in Minutes /\ usage[1] \in [Minutes -> Nat]
          BY DEF TypeInv, TypeOK, Tables
        <5>2. usage[1][Period(1, minute[r])] \in Nat
          BY <5>1 DEF Period
        <5>3. ~(usage[1][Period(1, minute[r])] + 1 > Limit)
          BY <2>2, <3>1 DEF OverLimit, Current
        <5> QED BY <5>2, <5>3, LimitsAssumption
      <4>2. minute[r] \in Minutes /\ usage[1] \in [Minutes -> Nat]
        BY DEF TypeInv, TypeOK, Tables
      <4> QED BY <4>1, <4>2, LimitsAssumption DEF Period
    <3>2. CASE counted[r] # 0
      BY <2>1, <3>2 DEF CountInv
    <3> QED BY <3>1, <3>2
  <2> QED BY <2>1, <2>3, <2>4, <2>5 DEF CountInv
<1>5. ASSUME NEW r \in Requests, Commit(r) PROVE CountInv'
  <2>1. /\ minute[r] \in Minutes /\ counted[r] = 3
        /\ served' = Append(served, minute[r])
        /\ End(r)
    BY <1>5 DEF Commit, TypeInv, TypeOK, PhaseInv
  <2>2. \A t \in Tables : /\ usage[t] \in [Minutes -> Nat] /\ Period(t, minute[r]) \in Minutes
                          /\ usage'[t] = [usage[t] EXCEPT ![Period(t, minute[r])] = @ + 1]
    BY <1>5, <2>1, PeriodIsMinute DEF Commit, TypeInv, TypeOK
  <2>3. /\ counted'[r] = 0
        /\ \A q \in Requests \ {r} : minute'[q] = minute[q] /\ counted'[q] = counted[q]
    BY <2>1, EndKeeps
  <2>4. UsageIsServed'
    <3> SUFFICES ASSUME NEW t \in Tables, NEW p \in Minutes
                 PROVE  usage'[t][p] = Cardinality(ServedIn(t, p)')
        BY DEF UsageIsServed
    <3>1. usage[t][p] = Cardinality(ServedIn(t, p))
      BY DEF CountInv, UsageIsServed
    <3>2. Cardinality(ServedIn(t, p)') =
             Cardinality(ServedIn(t, p)) + (IF Period(t, minute[r]) = p THEN 1 ELSE 0)
      BY <2>1, OneMoreServed
    <3>3. usage'[t][p] = usage[t][p] + (IF Period(t, minute[r]) = p THEN 1 ELSE 0)
      <4> DEFINE table == usage[t]
                 per == Period(t, minute[r])
      <4>1. table \in [Minutes -> Nat] /\ per \in Minutes
        BY <2>2
      <4>2. usage'[t] = [table EXCEPT ![per] = @ + 1]
        BY <2>2
      <4>3. table[p] \in Nat
        BY <4>1
      <4> HIDE DEF table, per
      <4>4. usage'[t][p] = table[p] + (IF per = p THEN 1 ELSE 0)
        BY <4>1, <4>2, <4>3
      <4> QED BY <4>4 DEF table, per
    <3> QED BY <3>1, <3>2, <3>3
  <2>5. OwnRows'
    <3> SUFFICES ASSUME NEW q \in Requests, NEW s \in Requests, NEW t \in Tables, q # s,
                        counted'[q] >= t, counted'[s] >= t
                 PROVE  Period(t, minute'[q]) # Period(t, minute'[s])
        BY DEF OwnRows
    <3>1. t \in Nat /\ t >= 1 /\ ~(0 >= t)
      BY DEF Tables
    <3>2. q # r /\ s # r
      BY <2>3, <3>1
    <3>3. /\ minute'[q] = minute[q] /\ counted'[q] = counted[q]
          /\ minute'[s] = minute[s] /\ counted'[s] = counted[s]
      BY <2>3, <3>2
    <3>4. counted[q] >= t /\ counted[s] >= t
      BY <3>3
    <3> QED BY <3>3, <3>4 DEF CountInv, OwnRows
  <2>6. 1 \in Tables /\ Period(1, minute[r]) = minute[r]
    BY DEF Tables, Period
  <2>7. usage'[1] = [usage[1] EXCEPT ![minute[r]] = @ + 1] /\ usage[1] \in [Minutes -> Nat]
    BY <2>2, <2>6
  <2>8. \A q \in Requests : counted'[q] >= 1 => usage'[1][minute'[q]] < Limit
    <3> SUFFICES ASSUME NEW q \in Requests, counted'[q] >= 1
                 PROVE  usage'[1][minute'[q]] < Limit
        OBVIOUS
    <3>1. q # r /\ counted[q] >= 1 /\ minute'[q] = minute[q]
      BY <2>3
    <3>2. minute[q] # minute[r]
      BY <2>1, <2>6, <3>1 DEF CountInv, OwnRows, Period
    <3>3. minute[q] \in Minutes
      BY DEF TypeInv, TypeOK
    <3> QED BY <2>7, <3>1, <3>2, <3>3 DEF CountInv
  <2>9. \A m \in Minutes : usage'[1][m] <= Limit
    <3>1. usage[1][minute[r]] < Limit
      BY <2>1 DEF CountInv
    <3> QED BY <2>1, <2>7, <3>1, LimitsAssumption DEF CountInv
  <2> QED BY <2>4, <2>5, <2>8, <2>9 DEF CountInv
<1>6. \/ UNCHANGED <<usage, served, minute, counted>>
      \/ \E r \in Requests : Stamp(r) \/ Reject(r) \/ Fail(r) \/ Count(r) \/ Commit(r)
  BY DEF Next, Serve, Change, Authenticate, Touch, LoadKey, Flush, CommitRevoke, CommitRotate,
         GiveUp, Tick, requests, vars
<1> QED BY <1>1, <1>2, <1>3, <1>4, <1>5, <1>6

\* However many requests are checked at the same time, no minute lets through
\* more than the limit, and the three tables agree with what was let through.
THEOREM UsageIsExact == Spec => [](RateLimit /\ UsageIsServed)
<1>1. Init => CountInv
  <2> SUFFICES ASSUME Init PROVE CountInv
      OBVIOUS
  <2>1. \A t \in Tables, p \in Minutes : ServedIn(t, p) = {} /\ usage[t][p] = 0
    BY DEF Init, ServedIn
  <2>2. UsageIsServed
    BY <2>1, FS_EmptySet DEF UsageIsServed
  <2>3. 1 \in Tables /\ \A r \in Requests : counted[r] = 0
    BY DEF Init, Tables
  <2>4. OwnRows
    BY <2>3 DEF OwnRows, Tables
  <2> QED BY <2>1, <2>2, <2>3, <2>4, LimitsAssumption DEF CountInv
<1>2. CountInv => RateLimit /\ UsageIsServed
  BY DEF CountInv, RateLimit, UsageIsServed, Tables
<1> QED BY <1>1, <1>2, CountStep, TypeCorrect, PTL DEF Spec

\* The part of it a bill rests on: in every table the row of a minute counts
\* exactly the requests that were let through in it.
THEOREM UsageIsServedExactly == Spec => []UsageIsServed
<1>1. RateLimit /\ UsageIsServed => UsageIsServed
  OBVIOUS
<1> QED BY <1>1, UsageIsExact, PTL
=============================================================================
