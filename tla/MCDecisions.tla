---------------------------- MODULE MCDecisions ----------------------------
(***************************************************************************)
(* The decisions that keep no state, each on all its inputs: the gates of  *)
(* the parse loop with the answer of the GLM classifier, the trust profile *)
(* with the visibility that follows from it, and the listing of a search.  *)
(***************************************************************************)
EXTENDS Integers, ParseDecision

Trust  == INSTANCE Trust
Search == INSTANCE Search
Glm    == INSTANCE GlmClient

VARIABLES input, outcome

vars == <<input, outcome>>

Undecided == "undecided"

\* The service is configured, or its two attempts bring nothing.
GlmReplies == [1..Glm!Attempts -> Glm!Replies]
Answers    == {Glm!Classified(configured, replies) :
                  configured \in Glm!Configured, replies \in GlmReplies}

GateInputs == [topic: {"gates"}, doc: Docs, policy: Policies, glm: Answers]

\* Quality scores around the limits the weights put them at, and ages at the
\* edges of the freshness steps.
TrustInputs ==
    [topic: {"trust"}, url: Trust!UrlKinds,
     skill: [quality: {-1, 0, 1, 33, 34, 35, 49, 50, 60, 77, 78, 100}, verified: BOOLEAN,
             official: BOOLEAN, block: BOOLEAN, severity: Trust!Severities,
             days: {-1, 0, 30, 31, 90, 91, 180, 181, 365, 366}]]

SearchInputs == [topic: {"search"}, request: Search!Requests, row: Search!SearchRows]

Init ==
    /\ input \in GateInputs \cup TrustInputs \cup SearchInputs
    /\ outcome = Undecided

Decision(i) ==
    CASE i.topic = "gates"  -> Verdict(i.doc, i.policy, i.glm)
      [] i.topic = "trust"  -> Trust!Level(i.skill)
      [] i.topic = "search" -> Search!Reason(i.request, i.row)

Decide ==
    /\ outcome = Undecided
    /\ outcome' = Decision(input)
    /\ UNCHANGED input

Next == Decide

Spec == Init /\ [][Next]_vars

Decided(topic) == outcome # Undecided /\ input.topic = topic

\* The rows the table's comment lets end in error: those that fail a check.
Failures == {"security_block", "claude_spec", "quality"}

\* q switches on at least the enforcement p does.
Stricter(q, p) ==
    /\ p.enabled => q.enabled
    /\ p.enforce => q.enforce
    /\ q.suspicion_only => p.suspicion_only
    /\ p.spec_enforce => q.spec_enforce
    /\ p.profile = "strict" => q.profile = "strict"

\* The settings are a ladder: whatever a stricter policy accepts, every more
\* permissive one accepts too, for the same document and the same GLM answer.
StricterRejectsMore ==
    Decided("gates") /\ outcome = Accepted =>
        \A p \in Policies :
            Stricter(input.policy, p) => Verdict(input.doc, p, input.glm) = Accepted

\* The classifier has exactly the authority the merge rule grants it ("hard-
\* block for critical, GLM can confirm/override"): against what the heuristic
\* scan alone would give, it only acquits documents of high severity and only
\* convicts by a confident block.
GlmAuthority ==
    Decided("gates") =>
        LET alone == Verdict(input.doc, input.policy, "none")
        IN  outcome # alone =>
                \/ alone = "security_block" /\ input.glm = "clear" /\ input.doc.severity = "high"
                \/ outcome = "security_block" /\ input.glm = "block"

\* No score alone hides a public skill: the weights leave every official and
\* verified skill above the limit of the listing, so one that is computed to be
\* hidden was blocked by the security scan; and a card the listing shows opens.
HiddenIsBlocked ==
    Decided("trust") =>
        LET row == Trust!Stored(input.skill, input.url)
        IN  /\ Trust!Public(row) /\ ~Trust!Listed(row) => input.skill.block
            /\ Trust!Listed(row) => Trust!Readable(row)

\* The listing gives a reason for every row it selects, and every signal the
\* reason claims is one the row shows, whatever mode was asked for and whether
\* the embedding model answered; after a fallback the order follows the words,
\* whatever weights the request named.
ReasonsAreTrue ==
    Decided("search") /\ input.request.text /\ Search!Selected(input.request, input.row) =>
        LET k == Search!KeywordScore(input.request, input.row)
            v == Search!VectorScore(input.request, input.row)
        IN  /\ Search!Claims(outcome) # {}
            /\ "keyword" \in Search!Claims(outcome) => k > 0
            /\ "vector" \in Search!Claims(outcome) => v > 0
            /\ Search!Weights(input.request) # Search!Refused /\ k > 0 /\ Search!FellBack(input.request)
                   => Search!Combined(input.request, input.row) > 0

\* parse_status "error" is for rows that fail parsing or validation, "processed"
\* for those that were parsed: the comment on RawSkill.parse_status.
ErrorMeansFailure ==
    Decided("gates") /\ StatusOf(outcome) = "error" => outcome \in Failures
=============================================================================
