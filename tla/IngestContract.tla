--------------------------- MODULE IngestContract ---------------------------
(***************************************************************************)
(* What the raw queue promises, without tables, batches or processes: a    *)
(* document that is stored awaits a verdict, and a verdict is always about *)
(* the text that is stored.                                                *)
(***************************************************************************)
CONSTANTS Files, Contents, None

VARIABLES
    stored,  \* the text kept of each document, None before the first one
    judged   \* the text the verdict in force is about, None while it is owed

contract == <<stored, judged>>

Init == stored = [f \in Files |-> None] /\ judged = [f \in Files |-> None]

\* A crawl brings a new text: whatever was decided about the old one is void.
Store(f, c) ==
    /\ stored[f] # c
    /\ stored' = [stored EXCEPT ![f] = c]
    /\ judged' = [judged EXCEPT ![f] = None]

\* A parse batch decides some of the documents that await a verdict.
Decide(S) ==
    /\ \A f \in S : stored[f] # None /\ judged[f] = None
    /\ judged' = [f \in Files |-> IF f \in S THEN stored[f] ELSE judged[f]]
    /\ UNCHANGED stored

\* An administrator asks for some verdicts again.
Requeue(S) ==
    /\ \A f \in S : judged[f] # None
    /\ judged' = [f \in Files |-> IF f \in S THEN None ELSE judged[f]]
    /\ UNCHANGED stored

Next ==
    \/ \E f \in Files, c \in Contents : Store(f, c)
    \/ \E S \in SUBSET Files : Decide(S) \/ Requeue(S)

Spec == Init /\ [][Next]_contract
=============================================================================
