--------------------------- MODULE ParseDecision ---------------------------
(***************************************************************************)
(* The gates one queued SKILL.md passes while parse_queued_raw_skills      *)
(* (app/workers/ingest_and_parse.py) decides what becomes of it.           *)
(*                                                                         *)
(* A document is abstracted to what the gates read of it, the runtime      *)
(* settings to the switches the gates consult, and the answer of the GLM   *)
(* security classifier to the classes the merge rule tells apart.          *)
(***************************************************************************)
EXTENDS Naturals, Sequences

CONSTANT MetadataIsMapping
    \* Line 877 reads raw.metadata.  RawSkill declares no such column, so the
    \* attribute is the MetaData object of SQLAlchemy's declarative base, which
    \* has no .get(): FALSE is the code as it is, TRUE the code as intended.

ASSUME MetadataIsMappingAssumption == MetadataIsMapping \in BOOLEAN

(***************************************************************************)
(* Inputs                                                                  *)
(***************************************************************************)
Layouts    == {"other", "non_canonical", "canonical"}
Severities == {"low", "high", "critical"}

\* layout: is_skill_md_source_url and is_canonical_skill_doc_url of the URL;
\* trusted: should_accept_repo_metadata of the ingest metadata;
\* severity: the heuristic scan ("low" means it found nothing);
\* malformed: a frontmatter parse error; strict_issue: an error of the strict
\* profile only.
Docs == [layout: Layouts, trusted: BOOLEAN, severity: Severities,
         malformed: BOOLEAN, strict_issue: BOOLEAN]

Policies == [enabled: BOOLEAN, enforce: BOOLEAN, suspicion_only: BOOLEAN,
             spec_enforce: BOOLEAN, profile: {"lax", "strict"}]

\* "none": not configured, timed out or unreadable; "weak_block": a block below
\* the confidence threshold; "clear": block is false or missing in the answer.
GlmAnswers == {"none", "block", "weak_block", "clear"}

(***************************************************************************)
(* The gates                                                               *)
(***************************************************************************)

\* heuristic.block: the scan is not ok.
HeuristicBlock(doc) == doc.severity # "low"

\* The classifier is consulted about suspicious documents only, unless
\* configured otherwise; without a call the answer is None.
GlmResult(doc, policy, glm) ==
    IF policy.enabled /\ (~policy.suspicion_only \/ HeuristicBlock(doc))
    THEN glm ELSE "none"

\* Mutant of MergedBlock: a GLM "no" acquits critical findings too.
MergedBlockAcquitsAll(doc, policy, glm) ==
    LET answer == GlmResult(doc, policy, glm)
    IN  answer = "block" \/ (HeuristicBlock(doc) /\ answer # "clear")

\* The merged decision: a confident GLM block adds one, a GLM "no" removes a
\* heuristic one unless that one is critical.
MergedBlock(doc, policy, glm) ==
    LET answer == GlmResult(doc, policy, glm)
    IN  \/ answer = "block"
        \/ /\ HeuristicBlock(doc)
           /\ ~(answer = "clear" /\ doc.severity # "critical")

\* Mutant of SpecOk: the profiles are swapped.
SpecOkSwapped(doc, profile) == ~doc.malformed /\ (profile = "lax" => ~doc.strict_issue)

SpecOk(doc, profile) ==
    /\ ~doc.malformed
    /\ profile = "strict" => ~doc.strict_issue

QualityOk(doc) == ~doc.malformed

\* The rejecting gates in the order the loop body tries them.
GateOrder == <<"non_skill_md_source", "untrusted_repo", "non_canonical_layout",
               "security_block", "claude_spec", "quality">>

Rejects(gate, doc, policy, glm) ==
    \/ gate = "non_skill_md_source"  /\ doc.layout = "other"
    \/ gate = "untrusted_repo"       /\ ~doc.trusted
    \/ gate = "non_canonical_layout" /\ doc.layout = "non_canonical"
    \/ /\ gate = "security_block"
       /\ policy.enabled /\ policy.enforce /\ MergedBlock(doc, policy, glm)
    \/ gate = "claude_spec" /\ policy.spec_enforce /\ ~SpecOk(doc, policy.profile)
    \/ gate = "quality" /\ ~QualityOk(doc)

\* A document no gate rejects is published as a Skill, unless reading its
\* stored metadata raises.
Accepted == IF MetadataIsMapping THEN "published" ELSE "exception"

Verdict(doc, policy, glm) ==
    LET rejecting == {i \in DOMAIN GateOrder : Rejects(GateOrder[i], doc, policy, glm)}
    IN  IF rejecting = {} THEN Accepted
        ELSE GateOrder[CHOOSE i \in rejecting : \A j \in rejecting : i <= j]

Verdicts == {"non_skill_md_source", "untrusted_repo", "non_canonical_layout",
             "security_block", "claude_spec", "quality", "published", "exception"}

\* parse_status per verdict: rows of an unsupported kind are "processed".
StatusOf(verdict) ==
    IF verdict \in {"security_block", "claude_spec", "quality", "exception"}
    THEN "error" ELSE "processed"
=============================================================================
