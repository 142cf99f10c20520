--------------------------- MODULE DecisionProofs ---------------------------
(***************************************************************************)
(* The decisions that keep no state.  First what the point scales of the   *)
(* repository scanner and of the trust profile imply, for every number of  *)
(* files, every quality score and every age: the runs try the values at    *)
(* the edges, these theorems all others.  Then the invariants of           *)
(* MCDecisions, from one lemma each about the gates, the profile and the   *)
(* listing.                                                                *)
(***************************************************************************)
EXTENDS MCDecisions, RepoFocus, TLAPS

\* The parts of a repository's score are on their scales.
LEMMA PartsOfScore ==
    ASSUME NEW p \in Profiles
    PROVE  /\ CanonicalPoints(p) \in {0, 15, 32, 45}
           /\ RatioPoints(p) \in {0, 10, 22}
           /\ KeywordPoints(p) \in 0..18
           /\ NoisePenalty(p) \in {0, 18, 35}
           /\ SizePenalty(p) \in {0, 10, 20}
  BY DEF Profiles, CanonicalPoints, RatioPoints, KeywordPoints, NoisePenalty, SizePenalty

\* A score of seventy is out of reach for a repository with a single skill in a
\* canonical layout, and for one with the paths of an application; with fewer
\* than five skills it takes nearly every keyword point and a small tree.  Since
\* lists, directories and searches ask for "skills_only", this is what they admit.
THEOREM SkillsOnlyIsQuiet ==
    ASSUME NEW p \in Profiles, RepoType(p) = "skills_only"
    PROVE  /\ p.canonical >= 2 /\ p.noise < 4
           /\ p.canonical < 5 => p.keywords >= 3 /\ p.files <= 500
<1>1. p.canonical > 0 /\ Score(p) >= 70
  BY DEF RepoType, Profiles
<1>2. CanonicalPoints(p) + RatioPoints(p) + KeywordPoints(p) - NoisePenalty(p) - SizePenalty(p) >= 70
  <2> DEFINE sum == CanonicalPoints(p) + RatioPoints(p) + KeywordPoints(p)
                    - NoisePenalty(p) - SizePenalty(p)
  <2>1. sum \in Int
    BY PartsOfScore
  <2>2. Score(p) = IF sum < 0 THEN 0 ELSE IF sum > 100 THEN 100 ELSE sum
    BY DEF Score
  <2> HIDE DEF sum
  <2>3. sum >= 70
    BY <1>1, <2>1, <2>2
  <2> QED
    BY <2>3 DEF sum
<1>3. p.canonical >= 2
  <2>1. SUFFICES ASSUME p.canonical < 2 PROVE FALSE
    BY DEF Profiles
  <2>2. CanonicalPoints(p) <= 15
    BY <2>1, <1>1 DEF Profiles, CanonicalPoints
  <2> QED
    BY <1>2, <2>2, PartsOfScore
<1>4. p.noise < 4
  <2>1. SUFFICES ASSUME p.noise >= 4 PROVE FALSE
    BY DEF Profiles
  <2>2. NoisePenalty(p) >= 18
    BY <2>1 DEF Profiles, NoisePenalty
  <2> QED
    BY <1>2, <2>2, PartsOfScore
<1>5. ASSUME p.canonical < 5 PROVE p.keywords >= 3 /\ p.files <= 500
  <2>1. CanonicalPoints(p) <= 32
    BY <1>5 DEF Profiles, CanonicalPoints
  <2>2. KeywordPoints(p) >= 16 /\ SizePenalty(p) <= 2
    BY <1>2, <2>1, PartsOfScore
  <2>3. p.keywords >= 3
    BY <2>2 DEF Profiles, KeywordPoints
  <2>4. p.files <= 500
    BY <2>2, <1>5 DEF Profiles, SizePenalty
  <2> QED
    BY <2>3, <2>4
<1> QED
  BY <1>3, <1>4, <1>5

\* An official, verified skill that nothing blocked has at least 43.75 points.
LEMMA ScoreOfUnblocked ==
    ASSUME NEW i \in Trust!Inputs, i.official, i.verified, ~i.block
    PROVE  Trust!Score(i) \in Int /\ Trust!Score(i) >= 4375
<1>1. Trust!Freshness(i.days) \in {25, 40, 45, 60, 80, 100}
  BY DEF Trust!Freshness
<1>2. Trust!Quality(i.quality) \in 0..100
  BY DEF Trust!Inputs, Trust!Quality, Trust!Unknown
<1>3. Trust!Security(i.block, i.severity) = 100
  BY DEF Trust!Security
<1> QED
  BY <1>1, <1>2, <1>3 DEF Trust!Score

\* No score alone hides a public skill from the listing: one that is computed to
\* be hidden was blocked by the security scan.
THEOREM HiddenWasBlocked ==
    ASSUME NEW i \in Trust!Inputs, NEW url \in Trust!UrlKinds,
           Trust!Public(Trust!Stored(i, url)), ~Trust!Listed(Trust!Stored(i, url))
    PROVE  i.block
<1>1. SUFFICES ASSUME ~i.block PROVE FALSE
  BY DEF Trust!Inputs
<1>2. i.official /\ i.verified
  BY DEF Trust!Public, Trust!Stored
<1>3. Trust!Score(i) \in Int /\ Trust!Score(i) >= 4375
  BY <1>1, <1>2, ScoreOfUnblocked
<1>4. Trust!Listed(Trust!Stored(i, url))
  BY <1>3 DEF Trust!Listed, Trust!Stored, Trust!Unknown
<1> QED
  BY <1>4

\* Every row the listing shows opens: the two forms of the public policy differ,
\* but never to the disadvantage of a card.
THEOREM ListedOpens ==
    ASSUME NEW row \in Trust!Rows, Trust!Listed(row)
    PROVE  Trust!Readable(row)
  BY DEF Trust!Listed, Trust!Public, Trust!Readable

(***************************************************************************)
(* The gates                                                               *)
(***************************************************************************)

\* The verdict is the first gate of the order that rejects.
LEMMA VerdictIs ==
    ASSUME NEW doc, NEW policy, NEW glm
    PROVE  LET R(gate) == Rejects(gate, doc, policy, glm)
           IN  Verdict(doc, policy, glm) =
                   IF R("non_skill_md_source") THEN "non_skill_md_source"
                   ELSE IF R("untrusted_repo") THEN "untrusted_repo"
                   ELSE IF R("non_canonical_layout") THEN "non_canonical_layout"
                   ELSE IF R("security_block") THEN "security_block"
                   ELSE IF R("claude_spec") THEN "claude_spec"
                   ELSE IF R("quality") THEN "quality" ELSE Accepted
<1> DEFINE R(gate) == Rejects(gate, doc, policy, glm)
           rejecting == {i \in DOMAIN GateOrder : R(GateOrder[i])}
           first == CHOOSE i \in rejecting : \A j \in rejecting : i <= j
<1>1. /\ DOMAIN GateOrder = 1..6
      /\ GateOrder[1] = "non_skill_md_source" /\ GateOrder[2] = "untrusted_repo"
      /\ GateOrder[3] = "non_canonical_layout" /\ GateOrder[4] = "security_block"
      /\ GateOrder[5] = "claude_spec" /\ GateOrder[6] = "quality"
  BY DEF GateOrder
<1>2. Verdict(doc, policy, glm) = IF rejecting = {} THEN Accepted ELSE GateOrder[first]
  BY DEF Verdict
<1> HIDE DEF R
<1>3. \A i \in 1..6 : i \in rejecting <=> R(GateOrder[i])
  BY <1>1
<1>4. rejecting \in SUBSET (1..6)
  BY <1>1
<1> HIDE DEF rejecting
<1>5. ASSUME NEW i \in rejecting, \A j \in rejecting : i <= j PROVE first = i
  <2>1. first \in rejecting /\ \A j \in rejecting : first <= j
    BY <1>5
  <2>2. first <= i /\ i <= first
    BY <1>5, <2>1
  <2>3. \A j \in rejecting : j \in Nat
    BY <1>4
  <2> HIDE DEF first
  <2> QED
    BY <1>5, <2>1, <2>2, <2>3
<1> HIDE DEF first
<1>6. CASE 1 \in rejecting
  BY <1>1, <1>2, <1>3, <1>4, <1>5, <1>6 DEF R
<1>7. CASE 1 \notin rejecting /\ 2 \in rejecting
  BY <1>1, <1>2, <1>3, <1>4, <1>5, <1>7 DEF R
<1>8. CASE 1 \notin rejecting /\ 2 \notin rejecting /\ 3 \in rejecting
  BY <1>1, <1>2, <1>3, <1>4, <1>5, <1>8 DEF R
<1>9. CASE \A i \in 1..3 : i \notin rejecting
  <2>1. CASE 4 \in rejecting
    BY <1>1, <1>2, <1>3, <1>4, <1>5, <1>9, <2>1 DEF R
  <2>2. CASE 4 \notin rejecting /\ 5 \in rejecting
    BY <1>1, <1>2, <1>3, <1>4, <1>5, <1>9, <2>2 DEF R
  <2>3. CASE 4 \notin rejecting /\ 5 \notin rejecting /\ 6 \in rejecting
    BY <1>1, <1>2, <1>3, <1>4, <1>5, <1>9, <2>3 DEF R
  <2>4. CASE rejecting = {}
    BY <1>1, <1>2, <1>3, <2>4 DEF R
  <2> QED
    BY <1>4, <1>9, <2>1, <2>2, <2>3, <2>4
<1> QED
  BY <1>6, <1>7, <1>8, <1>9

\* A document is accepted exactly when every gate lets it pass.
LEMMA AcceptedIs ==
    ASSUME NEW doc, NEW policy, NEW glm
    PROVE  Verdict(doc, policy, glm) = Accepted <=>
               /\ doc.layout # "other" /\ doc.trusted /\ doc.layout # "non_canonical"
               /\ ~(policy.enabled /\ policy.enforce /\ MergedBlock(doc, policy, glm))
               /\ ~(policy.spec_enforce /\ ~SpecOk(doc, policy.profile))
               /\ QualityOk(doc)
<1>1. Accepted \in {"published", "exception"}
  BY DEF Accepted
<1> QED
  BY <1>1, VerdictIs DEF Rejects

\* One ladder from the strict settings to the lax ones.
LEMMA StricterBlocksMore ==
    ASSUME NEW doc, NEW glm, NEW q \in Policies, NEW p \in Policies, Stricter(q, p),
           Verdict(doc, q, glm) = Accepted
    PROVE  Verdict(doc, p, glm) = Accepted
<1>1. /\ p.enabled => q.enabled
      /\ p.enforce => q.enforce
      /\ q.suspicion_only => p.suspicion_only
      /\ p.spec_enforce => q.spec_enforce
      /\ p.profile = "strict" => q.profile = "strict"
  BY DEF Stricter
<1>2. /\ p.enabled \in BOOLEAN /\ p.enforce \in BOOLEAN /\ p.suspicion_only \in BOOLEAN
      /\ q.enabled \in BOOLEAN /\ q.enforce \in BOOLEAN /\ q.suspicion_only \in BOOLEAN
      /\ p.spec_enforce \in BOOLEAN /\ q.spec_enforce \in BOOLEAN
  BY DEF Policies
<1>3. p.enabled /\ MergedBlock(doc, p, glm) => MergedBlock(doc, q, glm)
  BY <1>1, <1>2 DEF MergedBlock, GlmResult
<1>4. SpecOk(doc, q.profile) => SpecOk(doc, p.profile)
  BY <1>1 DEF SpecOk
<1> QED
  BY <1>1, <1>2, <1>3, <1>4, AcceptedIs

(***************************************************************************)
(* Scores                                                                  *)
(***************************************************************************)
LEMMA ScoreIsInt ==
    ASSUME NEW i \in Trust!Inputs
    PROVE  Trust!Score(i) \in Int
<1>1. Trust!Freshness(i.days) \in Int
  BY DEF Trust!Freshness
<1>2. Trust!Quality(i.quality) \in Int
  BY DEF Trust!Inputs, Trust!Quality
<1>3. Trust!Security(i.block, i.severity) \in Int
  BY DEF Trust!Security
<1> QED
  BY <1>1, <1>2, <1>3 DEF Trust!Score

\* Every field that matches is worth something, and nothing else is.
LEMMA KeywordScoreIs ==
    ASSUME NEW r \in Search!Requests, r.text, NEW row \in Search!SearchRows
    PROVE  /\ Search!KeywordScore(r, row) \in Nat
           /\ Search!KeywordScore(r, row) > 0 <=> row.matches # {}
<1>1. row.matches \in SUBSET {"name", "slug", "summary", "description", "tag", "content"}
  BY DEF Search!SearchRows, Search!Fields
<1>2. /\ Search!Points["name"] = 100 /\ Search!Points["slug"] = 90
      /\ Search!Points["tag"] = 80 /\ Search!Points["summary"] = 75
      /\ Search!Points["description"] = 65 /\ Search!Points["content"] = 20
  BY DEF Search!Points, Search!Fields
<1> QED
  BY <1>1, <1>2 DEF Search!KeywordScore

(***************************************************************************)
(* The results for the specification of all decisions                      *)
(***************************************************************************)

\* The outcome, once there is one, is the decision of an input of its topic.
DecisionInv ==
    /\ input \in GateInputs \cup TrustInputs \cup SearchInputs
    /\ outcome # Undecided => outcome = Decision(input)

LEMMA DecisionsHold == Spec => []DecisionInv
<1>1. Init => DecisionInv
  BY DEF Init, DecisionInv
<1>2. DecisionInv /\ [Next]_vars => DecisionInv'
  BY DEF DecisionInv, Next, Decide, vars
<1> QED
  BY <1>1, <1>2, PTL DEF Spec

LEMMA OutcomeIs ==
    ASSUME DecisionInv
    PROVE  /\ Decided("gates") => /\ input \in GateInputs
                                  /\ outcome = Verdict(input.doc, input.policy, input.glm)
           /\ Decided("trust") => input \in TrustInputs
           /\ Decided("search") => /\ input \in SearchInputs
                                   /\ outcome = Search!Reason(input.request, input.row)
<1>1. /\ \A i \in GateInputs : i.topic = "gates"
      /\ \A i \in TrustInputs : i.topic = "trust"
      /\ \A i \in SearchInputs : i.topic = "search"
  BY DEF GateInputs, TrustInputs, SearchInputs
<1> QED
  BY <1>1 DEF DecisionInv, Decided, Decision

\* The settings are a ladder: what a stricter policy accepts no laxer one rejects.
THEOREM SettingsAreALadder == Spec => []StricterRejectsMore
<1>1. DecisionInv => StricterRejectsMore
  <2> SUFFICES ASSUME DecisionInv, Decided("gates"), outcome = Accepted,
                      NEW p \in Policies, Stricter(input.policy, p)
               PROVE  Verdict(input.doc, p, input.glm) = Accepted
    BY DEF StricterRejectsMore
  <2>1. input \in GateInputs /\ outcome = Verdict(input.doc, input.policy, input.glm)
    BY OutcomeIs
  <2>2. input.policy \in Policies
    BY <2>1 DEF GateInputs
  <2> QED
    BY <2>1, <2>2, StricterBlocksMore
<1> QED
  BY <1>1, DecisionsHold, PTL

\* The classifier changes a verdict in two ways only: it acquits a document of
\* high, not critical, severity, and it convicts by a confident block.
THEOREM ClassifierHasItsAuthority == Spec => []GlmAuthority
<1>1. ASSUME NEW doc \in Docs, NEW policy \in Policies, NEW glm,
             Verdict(doc, policy, glm) # Verdict(doc, policy, "none")
      PROVE  \/ /\ Verdict(doc, policy, "none") = "security_block"
                /\ glm = "clear" /\ doc.severity = "high"
             \/ Verdict(doc, policy, glm) = "security_block" /\ glm = "block"
  <2> DEFINE B(answer) == MergedBlock(doc, policy, answer)
  <2>1. /\ ~B(glm) /\ B("none") => glm = "clear" /\ doc.severity = "high"
        /\ B(glm) /\ ~B("none") => glm = "block"
    BY DEF MergedBlock, GlmResult, HeuristicBlock, Docs, Severities
  <2>2. \A gate : gate # "security_block" =>
            (Rejects(gate, doc, policy, glm) <=> Rejects(gate, doc, policy, "none"))
    BY DEF Rejects
  <2>3. \A answer : Rejects("security_block", doc, policy, answer)
            <=> policy.enabled /\ policy.enforce /\ B(answer)
    BY DEF Rejects
  <2> HIDE DEF B
  <2> DEFINE R(gate, answer) == Rejects(gate, doc, policy, answer)
             V(answer) == Verdict(doc, policy, answer)
  <2>4. \A answer : V(answer) =
            IF R("non_skill_md_source", answer) THEN "non_skill_md_source"
            ELSE IF R("untrusted_repo", answer) THEN "untrusted_repo"
            ELSE IF R("non_canonical_layout", answer) THEN "non_canonical_layout"
            ELSE IF R("security_block", answer) THEN "security_block"
            ELSE IF R("claude_spec", answer) THEN "claude_spec"
            ELSE IF R("quality", answer) THEN "quality" ELSE Accepted
    BY VerdictIs
  <2>5. /\ R("non_skill_md_source", glm) <=> R("non_skill_md_source", "none")
        /\ R("untrusted_repo", glm) <=> R("untrusted_repo", "none")
        /\ R("non_canonical_layout", glm) <=> R("non_canonical_layout", "none")
        /\ R("claude_spec", glm) <=> R("claude_spec", "none")
        /\ R("quality", glm) <=> R("quality", "none")
    BY <2>2
  <2>6. V(glm) # V("none")
    BY <1>1
  <2> HIDE DEF R, V
  <2>7. \/ R("security_block", glm) /\ ~R("security_block", "none")
        \/ ~R("security_block", glm) /\ R("security_block", "none")
    BY <2>4, <2>5, <2>6
  <2>8. /\ ~R("non_skill_md_source", glm) /\ ~R("untrusted_repo", glm)
        /\ ~R("non_canonical_layout", glm)
    BY <2>4, <2>5, <2>6
  <2>9. \/ V(glm) = "security_block" /\ R("security_block", glm) /\ ~R("security_block", "none")
        \/ V("none") = "security_block" /\ R("security_block", "none") /\ ~R("security_block", glm)
    BY <2>4, <2>5, <2>7, <2>8
  <2> QED
    BY <2>1, <2>3, <2>9 DEF R, V
<1>2. DecisionInv => GlmAuthority
  <2> SUFFICES ASSUME DecisionInv, Decided("gates") PROVE GlmAuthority
    BY DEF GlmAuthority
  <2>1. input \in GateInputs /\ outcome = Verdict(input.doc, input.policy, input.glm)
    BY OutcomeIs
  <2>2. input.doc \in Docs /\ input.policy \in Policies
    BY <2>1 DEF GateInputs
  <2> QED
    BY <1>1, <2>1, <2>2 DEF GlmAuthority
<1> QED
  BY <1>2, DecisionsHold, PTL

\* No score alone hides a public skill, and what the listing shows opens.
THEOREM OnlyBlocksHide == Spec => []HiddenIsBlocked
<1>1. DecisionInv => HiddenIsBlocked
  <2> SUFFICES ASSUME DecisionInv, Decided("trust") PROVE HiddenIsBlocked
    BY DEF HiddenIsBlocked
  <2>1. input.skill \in Trust!Inputs /\ input.url \in Trust!UrlKinds
    BY OutcomeIs DEF TrustInputs, Trust!Inputs
  <2>2. Trust!Stored(input.skill, input.url) \in Trust!Rows
    <3>1. Trust!Score(input.skill) \in Int
      BY <2>1, ScoreIsInt
    <3>2. Trust!Level(input.skill) \in {"ok", "warning", "limited"}
      BY DEF Trust!Level
    <3> QED
      BY <2>1, <3>1, <3>2 DEF Trust!Stored, Trust!Rows, Trust!Inputs
  <2> QED
    BY <2>1, <2>2, HiddenWasBlocked, ListedOpens DEF HiddenIsBlocked
<1> QED
  BY <1>1, DecisionsHold, PTL

\* A search never claims a signal a row does not have, and after a fallback it
\* orders by words.
THEOREM ReasonsHold == Spec => []ReasonsAreTrue
<1>1. DecisionInv => ReasonsAreTrue
  <2> SUFFICES ASSUME DecisionInv, Decided("search"), input.request.text,
                      Search!Selected(input.request, input.row)
               PROVE  ReasonsAreTrue
    BY DEF ReasonsAreTrue
  <2> DEFINE r == input.request
             row == input.row
             k == Search!KeywordScore(r, row)
             v == Search!VectorScore(r, row)
  <2>1. r \in Search!Requests /\ row \in Search!SearchRows /\ outcome = Search!Reason(r, row)
    BY OutcomeIs DEF SearchInputs
  <2>2. k \in Nat /\ (k > 0 <=> row.matches # {})
    BY <2>1, KeywordScoreIs
  <2>3. v = IF r.embeds /\ row.embedded THEN 50 ELSE 0
    BY DEF Search!VectorScore
  <2>4. r.mode \in Search!Modes /\ r.embeds \in BOOLEAN /\ row.embedded \in BOOLEAN
    BY <2>1 DEF Search!Requests, Search!SearchRows
  <2>5. Search!ActiveMode(r) = IF r.mode # "keyword" /\ ~r.embeds THEN "keyword" ELSE r.mode
    BY <2>4 DEF Search!ActiveMode, Search!Modes
  <2>6. /\ Search!Claims("keyword match (vector fallback)") = {"keyword"}
        /\ Search!Claims("keyword relevance") = {"keyword"}
        /\ Search!Claims("hybrid: keyword-heavy") = {"keyword"}
        /\ Search!Claims("semantic vector match") = {"vector"}
        /\ Search!Claims("hybrid: vector-heavy") = {"vector"}
        /\ Search!Claims("hybrid: keyword + vector") = {"keyword", "vector"}
    BY DEF Search!Claims
  <2>7. /\ Search!ActiveMode(r) = "keyword" => row.matches # {}
        /\ Search!ActiveMode(r) = "vector" => row.embedded
        /\ Search!ActiveMode(r) = "hybrid" => row.matches # {} \/ row.embedded
    BY DEF Search!Selected
  <2>8. \/ Search!ActiveMode(r) = "keyword" /\ k > 0
              /\ outcome \in {"keyword match (vector fallback)", "keyword relevance"}
        \/ Search!ActiveMode(r) = "vector" /\ v > 0 /\ outcome = "semantic vector match"
        \/ Search!ActiveMode(r) = "hybrid" /\ k > 0 /\ v > 0
              /\ outcome = "hybrid: keyword + vector"
        \/ Search!ActiveMode(r) = "hybrid" /\ k > 0 /\ outcome = "hybrid: keyword-heavy"
        \/ Search!ActiveMode(r) = "hybrid" /\ v > 0 /\ outcome = "hybrid: vector-heavy"
    <3> HIDE DEF k, v
    <3>1. outcome =
             IF Search!FellBack(r)
             THEN IF k > 0 THEN "keyword match (vector fallback)" ELSE "keyword fallback"
             ELSE IF Search!ActiveMode(r) = "vector" THEN "semantic vector match"
             ELSE IF Search!ActiveMode(r) = "hybrid"
                  THEN IF k > 0 /\ v > 0 THEN "hybrid: keyword + vector"
                       ELSE IF k > 0 THEN "hybrid: keyword-heavy" ELSE "hybrid: vector-heavy"
             ELSE IF k > 0 THEN "keyword relevance" ELSE "sorted result"
      BY <2>1 DEF Search!Reason, k, v
    <3>2. k > 0 <=> row.matches # {}
      BY <2>2
    <3>3. v > 0 <=> r.embeds /\ row.embedded
      BY <2>3, <2>4
    <3>4. r.mode \in {"keyword", "vector", "hybrid"} /\ r.embeds \in BOOLEAN
      BY <2>4 DEF Search!Modes
    <3> DEFINE active == Search!ActiveMode(r)
    <3>5. Search!FellBack(r) <=> active # r.mode
      BY DEF Search!FellBack
    <3> HIDE DEF active
    <3>6. CASE r.mode = "keyword" \/ ~r.embeds
      <4>1. active = "keyword" /\ k > 0
        BY <2>5, <2>7, <3>2, <3>4, <3>6 DEF active
      <4> QED
        BY <3>1, <3>5, <4>1 DEF active
    <3>7. CASE r.mode = "vector" /\ r.embeds
      <4>1. active = "vector" /\ v > 0
        BY <2>5, <2>7, <3>3, <3>7 DEF active
      <4> QED
        BY <3>1, <3>5, <3>7, <4>1 DEF active
    <3>8. CASE r.mode = "hybrid" /\ r.embeds
      <4>1. active = "hybrid" /\ (k > 0 \/ v > 0)
        BY <2>5, <2>7, <3>2, <3>3, <3>8 DEF active
      <4> QED
        BY <3>1, <3>5, <3>8, <4>1 DEF active
    <3> QED
      BY <3>4, <3>6, <3>7, <3>8
  <2>9. Search!Weights(r) # Search!Refused /\ k > 0 /\ Search!FellBack(r)
            => Search!Combined(r, row) > 0
    <3> SUFFICES ASSUME Search!Weights(r) # Search!Refused, k > 0, Search!FellBack(r)
                 PROVE  Search!Combined(r, row) > 0
      OBVIOUS
    <3>1. Search!ActiveMode(r) = "keyword"
      BY <2>5 DEF Search!FellBack
    <3>2. Search!Weights(r) = <<1, 0, 1>>
      BY <3>1 DEF Search!Weights
    <3> HIDE DEF k, v
    <3>3. Search!Combined(r, row) = 1 * k + 0 * v
      BY <3>2 DEF Search!Combined, k, v
    <3> QED
      BY <2>2, <2>3, <3>3
  <2> HIDE DEF k, v
  <2>10. /\ Search!Claims(outcome) # {}
         /\ "keyword" \in Search!Claims(outcome) => k > 0
         /\ "vector" \in Search!Claims(outcome) => v > 0
    BY <2>6, <2>8
  <2> QED
    BY <2>9, <2>10 DEF ReasonsAreTrue, k, v
<1> QED
  BY <1>1, DecisionsHold, PTL
=============================================================================
