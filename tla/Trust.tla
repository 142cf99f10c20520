------------------------------- MODULE Trust -------------------------------
(***************************************************************************)
(* The trust profile of a skill (app/quality/trust_score.py) and what the  *)
(* public endpoints make of it (app/api/skills.py, packs.py, plugins.py,   *)
(* app/repos/public_filters.py).  Scores are kept in hundredths of a       *)
(* point, so that the weights 0.45, 0.25, 0.10, 0.05 and 0.15 are whole    *)
(* numbers.                                                                *)
(***************************************************************************)
EXTENDS Integers

Unknown == -1

Severities == {"low", "high", "critical"}

\* quality: validation score; days: since the last push, as far as known.
Inputs == {i \in [quality: Int, verified: BOOLEAN, official: BOOLEAN, block: BOOLEAN,
                  severity: Severities, days: Int] :
              i.quality \in -1..100 /\ i.days >= -1}

Freshness(days) ==
    IF days = Unknown THEN 40
    ELSE IF days <= 30 THEN 100
    ELSE IF days <= 90 THEN 80
    ELSE IF days <= 180 THEN 60
    ELSE IF days <= 365 THEN 45 ELSE 25

Quality(q) == IF q = Unknown THEN 50 ELSE q

\* Mutant of Security: the severity of the scan counts also when nothing was
\* blocked, because the classifier or the policy decided otherwise.
SecurityOfSeverity(block, severity) ==
    IF severity = "critical" THEN 0 ELSE IF severity = "high" THEN 20 ELSE 35

Security(block, severity) ==
    IF ~block THEN 100
    ELSE IF severity = "critical" THEN 0 ELSE IF severity = "high" THEN 20 ELSE 35

\* trust_score, in hundredths.
Score(i) ==
      45 * Quality(i.quality)
    + 25 * Security(i.block, i.severity)
    + 10 * (IF i.verified THEN 100 ELSE 45)
    + 5  * (IF i.official THEN 100 ELSE 60)
    + 15 * Freshness(i.days)

Level(i) ==
    IF i.block \/ Score(i) < 5000 THEN "limited"
    ELSE IF Score(i) < 7000 THEN "warning" ELSE "ok"

(***************************************************************************)
(* Visibility.  A row holds what was stored with it; an override may leave *)
(* the score empty, and rows older than the trust layer have neither.      *)
(***************************************************************************)

\* What tells URLs apart for the two forms of the public policy: a canonical
\* document at github.com, one of the same path at another host, any other.
UrlKinds == {"github", "elsewhere", "other", "missing"}

Rows == [official: BOOLEAN, verified: BOOLEAN, url: UrlKinds,
         level: {"none", "ok", "warning", "limited"}, score: Int]

\* public_skill_conditions, the SQL form of the policy: packs, plugins, counts
\* of categories and rankings filter by it alone.
Public(row) == row.official /\ row.verified /\ row.url = "github"

\* is_public_skill, the form the detail endpoint applies to the loaded row.
Readable(row) == row.official /\ row.verified /\ row.url \in {"github", "elsewhere"}

\* The conditions of _list_skills_impl; comparisons with an empty column do not
\* hold in SQL.
Listed(row) ==
    /\ Public(row)
    /\ \/ row.level = "none"
       \/ row.level # "limited"
       \/ row.score # Unknown /\ row.score >= 3500

\* The row a parse batch or the trust backfill stores for these inputs.
Stored(i, url) ==
    [official |-> i.official, verified |-> i.verified, url |-> url,
     level |-> Level(i), score |-> Score(i)]
=============================================================================
