----------------------------- MODULE MCApiKeys -----------------------------
(***************************************************************************)
(* Small instances of ApiKeys.                                             *)
(***************************************************************************)
EXTENDS ApiKeys

CONSTANTS r1, r2, a1, a2

TwoRequests == {r1, r2}
TwoAdmins   == {a1, a2}

\* A day ends between two minutes of one month.
MCDayOf   == [m \in Minutes |-> m]
MCMonthOf == [m \in Minutes |-> 0]
=============================================================================
