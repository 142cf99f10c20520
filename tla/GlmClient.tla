----------------------------- MODULE GlmClient -----------------------------
(***************************************************************************)
(* Calls of the GLM service, app/llm/glm_client.py: one POST with a retry, *)
(* and what is read from the answer.  Every failure becomes "none": GLM is *)
(* optional, and its callers go on without it.                             *)
(***************************************************************************)
EXTENDS Integers, Sequences

\* What one attempt may bring: a read or connect timeout, another exception of
\* the connection, a transient status (408, 429, 5xx), any other status than 200,
\* and with 200 an answer that holds no JSON object, or one of a classifier.
Transient == {"timeout", "busy"}
Replies   == Transient \cup {"broken", "refused", "prose", "block", "weak_block", "clear"}

Attempts == 2   \* retries of the three callers

Configured == BOOLEAN

\* _post_json_with_retry: the first attempt that is not transient, or the last.
Posted(replies) ==
    LET final == {i \in 1..Attempts : replies[i] \notin Transient \/ i = Attempts}
    IN  replies[CHOOSE i \in final : \A j \in final : i <= j]

\* classify_skill_security: the object in the answer, if there is one.
Classified(configured, replies) ==
    IF configured /\ Posted(replies) \in {"block", "weak_block", "clear"}
    THEN Posted(replies) ELSE "none"
=============================================================================
