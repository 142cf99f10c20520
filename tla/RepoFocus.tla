----------------------------- MODULE RepoFocus -----------------------------
(***************************************************************************)
(* How a scanned repository is graded before its skills are fetched:       *)
(* _compute_repo_focus of app/parsers/github_repo_scanner.py.  A profile   *)
(* counts what the tree and the description show: SKILL.md files           *)
(* ("skills"), those in a canonical layout ("canonical"), paths of an      *)
(* application ("noise"), keywords of SKILL_KEYWORDS in the name or the    *)
(* description ("keywords"), and all files ("files").                      *)
(***************************************************************************)
EXTENDS Integers

RepoTypes == {"not_skills", "mixed", "skills_focused", "skills_only"}

TypeRank == [type \in RepoTypes |->
    CASE type = "skills_only" -> 3 [] type = "skills_focused" -> 2
      [] type = "mixed" -> 1 [] OTHER -> 0]

\* Every canonical path is a SKILL.md path, every SKILL.md path a file; the
\* scanner knows six keywords.
Profiles ==
    {p \in [skills: Nat, canonical: Nat, noise: Nat, keywords: 0..6, files: Nat] :
        p.canonical <= p.skills /\ p.skills <= p.files}

CanonicalPoints(p) ==
    IF p.canonical >= 5 THEN 45
    ELSE IF p.canonical >= 2 THEN 32
    ELSE IF p.canonical >= 1 THEN 15 ELSE 0

\* Shares of 0.8 and 0.5 of the SKILL.md files, in whole numbers.
RatioPoints(p) ==
    IF p.skills = 0 THEN 0
    ELSE IF 10 * p.canonical >= 8 * p.skills THEN 22
    ELSE IF 2 * p.canonical >= p.skills THEN 10 ELSE 0

KeywordPoints(p) == IF 6 * p.keywords < 18 THEN 6 * p.keywords ELSE 18

NoisePenalty(p) == IF p.noise >= 8 THEN 35 ELSE IF p.noise >= 4 THEN 18 ELSE 0

\* The total is at least one, also for an empty tree.
SizePenalty(p) ==
    IF p.files > 1500 /\ p.canonical < 10 THEN 20
    ELSE IF p.files > 500 /\ p.canonical < 5 THEN 10 ELSE 0

Score(p) ==
    LET sum == CanonicalPoints(p) + RatioPoints(p) + KeywordPoints(p)
                - NoisePenalty(p) - SizePenalty(p)
    IN  IF sum < 0 THEN 0 ELSE IF sum > 100 THEN 100 ELSE sum

RepoType(p) ==
    IF p.canonical = 0 THEN "not_skills"
    ELSE IF Score(p) >= 70 THEN "skills_only"
    ELSE IF Score(p) >= 45 THEN "skills_focused" ELSE "mixed"
=============================================================================
