---------------------------- MODULE MCWorkerLoop ----------------------------
(***************************************************************************)
(* A small instance of WorkerLoop: one loop and a background run, two      *)
(* administrators, and skills that can have a summary before and after one *)
(* that cannot.                                                            *)
(***************************************************************************)
EXTENDS WorkerLoop

CONSTANTS w1, t1, m1, m2, k1, k2, k3

OneWorker  == {w1}
OneTask    == {t1}
TwoAdmins  == {m1, m2}
BothDescribed == {k1, k2}
MCUnsummarized == <<k1, k3, k2>>

\* One turns automatic ingest off, the other lengthens the interval.
SwitchOff == [f \in Fields |-> IF f = "enabled" THEN FALSE ELSE None]
Lengthen  == [f \in Fields |-> IF f = "long" THEN TRUE ELSE None]
MCAsked   == {SwitchOff, Lengthen}
=============================================================================
