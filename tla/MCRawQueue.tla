---------------------------- MODULE MCRawQueue ----------------------------
(***************************************************************************)
(* Small instances of RawQueue.  The verdicts each text may get are those  *)
(* ParseDecision computes, over every policy and every GLM answer, for the *)
(* document that the text and the metadata stored with it stand for.       *)
(***************************************************************************)
EXTENDS RawQueue, TLC

CONSTANTS w1, w2, t1, f1, f2, c1, c2

OneWorker  == {w1}
TwoWorkers == {w1, w2}
OneTask    == {t1}
NoTasks    == {}
OneFile    == {f1}
TwoFiles   == {f1, f2}
TwoTexts   == {c1, c2}

\* c1 is a sound text the heuristic scan is suspicious of; the metadata that
\* come with c2 are those of a repository the trust gate turns down.
Sound == [layout |-> "canonical", trusted |-> TRUE, severity |-> "low",
          malformed |-> FALSE, strict_issue |-> FALSE]

DocOf(text, meta) == [Sound EXCEPT !.severity = IF text = c1 THEN "high" ELSE "low",
                                   !.trusted = meta # c2]

MCVerdicts ==
    [p \in Contents \X Metas |->
        {Verdict(DocOf(p[1], p[2]), q, g) :
            q \in {r \in Policies : r.enabled /\ r.suspicion_only}, g \in GlmAnswers}]
=============================================================================
