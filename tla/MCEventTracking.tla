-------------------------- MODULE MCEventTracking --------------------------
(***************************************************************************)
(* Small instances of EventTracking.                                       *)
(***************************************************************************)
EXTENDS EventTracking

CONSTANTS r1, r2, s1, s2, n1

TwoRequests == {r1, r2}
TwoSkills   == {s1, s2}
OneSession  == {n1}

\* Ids that fold to one key.
OneKey      == {1}
SharedKey   == [s \in Skills |-> 1]
=============================================================================
