------------------------------- MODULE Skills -------------------------------
(***************************************************************************)
(* The skills table: what a parse batch publishes, what administrators     *)
(* create, override and delete, and the trust backfill that ends each run. *)
(*                                                                         *)
(* A batch is one database transaction over its documents, oldest first;   *)
(* it reads with READ COMMITTED, so every statement sees what others have  *)
(* committed by then, together with its own writes.  A row another         *)
(* transaction has written, or a unique key it has inserted, makes a       *)
(* writer wait until that transaction ends.  Requests of administrators    *)
(* are short and taken as one step; they wait in the same way.             *)
(*                                                                         *)
(* Left out: descriptions, categories, embeddings and the other columns no *)
(* decision here reads; PATCH of a skill, which changes only those.        *)
(***************************************************************************)
EXTENDS Integers, FiniteSets

CONSTANTS
    Runs,        \* executions of ingest_and_parse.run: worker loops and POST /ingest
    Docs,        \* SKILL.md files of one repository, numbered by created_at
    Names,       \* the names a document's frontmatter may give
    Tags,        \* tag slugs
    TagsOf,      \* the tags each document declares
    Payloads,    \* what administrators may ask to create: slug, URL and tags
    None,        \* no value, no row
    FillLimit,   \* rows the trust backfill takes at a time
    MetadataIsMapping, \* FALSE is the code as it stands: see ParseDecision
    MaxSkills,   \* bound: rows the table may hold
    MaxEdits,    \* bound: documents that arrive or change
    MaxRequests, \* bound: requests of administrators
    MaxFailures  \* bound: database errors, deadlock victims and crashes

Repo == 0        \* the repository's own URL, which old rows carry
Urls == Docs \cup {Repo}
RowIds == 1..MaxSkills
Slugs == [name: Names, url: Urls, suffix: 0..MaxSkills]

ASSUME DocsAssumption == Docs \subseteq Nat \ {0} /\ IsFiniteSet(Docs)
ASSUME NamesAssumption == None \notin Names /\ None \notin Urls
ASSUME TagsAssumption == TagsOf \in [Docs -> SUBSET Tags]
ASSUME PayloadsAssumption ==
    \A p \in Payloads : p.slug \in Slugs /\ p.url \in Urls /\ p.tags \subseteq Tags
ASSUME FillAssumption == FillLimit \in Nat \ {0}
ASSUME MappingAssumption == MetadataIsMapping \in BOOLEAN
ASSUME BoundsAssumption ==
    /\ IsFiniteSet(Runs)
    /\ {MaxSkills, MaxEdits, MaxRequests, MaxFailures} \subseteq Nat

VARIABLES
    skills,   \* the committed rows
    tags,     \* the committed rows of the tags table
    queue,    \* documents whose raw row is pending
    title,    \* the name in each document's stored text
    pc,       \* where each run is
    batch,    \* the documents of the run's batch, with their names as loaded
    todo,     \* those it has not reached
    loaded,   \* skills the run has read and not yet written back, as read
    slug,     \* the slug chosen for the row about to be inserted
    missing,  \* tags of the document that the run found absent
    draft,    \* rows written and not committed
    newTags,  \* tags inserted and not committed
    edits, requests, failures   \* counters of the bounds

table  == <<skills, tags>>
source == <<queue, title>>
memory == <<batch, todo, loaded, slug, missing, draft, newTags>>
bounds == <<edits, requests, failures>>
vars   == <<table, source, pc, memory, bounds>>

(***************************************************************************)
(* Rows.  A trust field holds no value, the profile the workers compute or *)
(* what an administrator gave.  "by" and "settled" are history: who gave   *)
(* the row its URL, and whether the last override set both fields while no *)
(* run held the row loaded.                                                *)
(***************************************************************************)
TrustFields == {"score", "level"}
TrustValues == {"none", "computed", "admin"}

Skill == [slug: Slugs, url: Urls \cup {None}, name: Names,
          score: TrustValues, level: TrustValues, override: BOOLEAN,
          by: {"batch", "admin"}, settled: BOOLEAN]

NoRow == [slug |-> None]
NoSlug == None
Nothing == [k \in {} |-> None]
Put(f, k, v) == [x \in DOMAIN f \cup {k} |-> IF x = k THEN v ELSE f[x]]

IdsOf(rows) == {k \in RowIds : rows[k] # NoRow}
EmptyTrust(row) == \E f \in TrustFields : row[f] = "none"

\* What the statements of run r see: the committed rows under its own writes.
Visible(r) == [k \in RowIds |-> IF k \in DOMAIN draft[r] THEN draft[r][k] ELSE skills[k]]
VisibleTags(r) == tags \cup newTags[r]

Locked(k, others)   == \E r \in others : k \in DOMAIN draft[r]
SlugHeld(s, others) == \E r \in others : \E k \in DOMAIN draft[r] :
                           skills[k] = NoRow /\ draft[r][k].slug = s
TagsHeld(ts, others) == \E r \in others : newTags[r] \cap ts # {}
SlugTaken(s, rows)  == \E k \in IdsOf(rows) : rows[k].slug = s

\* Ids are not used again: a run that holds a deleted row finds no other there.
FreeIds == {k \in RowIds : /\ skills[k] = NoRow /\ ~Locked(k, Runs)
                          /\ \A r \in Runs : k \notin DOMAIN loaded[r]}

\* A row with a value in some of its trust columns.
Trusted(row, fields, value) ==
    [row EXCEPT !.score = IF "score" \in fields THEN value ELSE @,
                !.level = IF "level" \in fields THEN value ELSE @]

Oldest(ds) == CHOOSE d \in ds : \A e \in ds : d <= e

Steps == {"idle", "find", "slug", "insert", "tags", "write", "commit", "trust", "fill"}

Init ==
    /\ skills = [k \in RowIds |-> NoRow]
    /\ tags = {}
    /\ queue = {}
    /\ title \in [Docs -> Names]
    /\ pc = [r \in Runs |-> "idle"]
    /\ batch = [r \in Runs |-> Nothing]
    /\ todo = [r \in Runs |-> {}]
    /\ loaded = [r \in Runs |-> Nothing]
    /\ slug = [r \in Runs |-> NoSlug]
    /\ missing = [r \in Runs |-> {}]
    /\ draft = [r \in Runs |-> Nothing]
    /\ newTags = [r \in Runs |-> {}]
    /\ edits = 0 /\ requests = 0 /\ failures = 0

(***************************************************************************)
(* Documents and administrators                                            *)
(***************************************************************************)

\* Ingest stores a new or changed document and queues it.
Arrive(d) ==
    /\ edits < MaxEdits
    /\ \E n \in Names : title' = [title EXCEPT ![d] = n]
    /\ queue' = queue \cup {d}
    /\ edits' = edits + 1
    /\ UNCHANGED <<table, pc, memory, requests, failures>>

Request ==
    /\ requests < MaxRequests
    /\ requests' = requests + 1
    /\ UNCHANGED <<source, pc, memory, edits, failures>>

\* POST /admin/skills, and the approval of a raw skill, which does the same:
\* any slug and URL, no trust values.  A slug that is taken is refused.  Tags
\* are inserted unless they exist.
Create(s, url, ts) ==
    /\ Request
    /\ ~SlugHeld(s, Runs) /\ ~SlugTaken(s, skills) /\ ~TagsHeld(ts, Runs)
    /\ \E k \in FreeIds :
        /\ \A j \in FreeIds : k <= j
        /\ skills' = [skills EXCEPT ![k] =
              [slug |-> s, url |-> url, name |-> s.name, score |-> "none", level |-> "none",
               override |-> FALSE, by |-> "admin", settled |-> FALSE]]
    /\ tags' = tags \cup ts

\* POST trust-override sets the fields it was given and marks the row.
Override(k, given) ==
    /\ Request
    /\ k \in IdsOf(skills) /\ ~Locked(k, Runs)
    /\ skills' = [skills EXCEPT ![k] =
          [Trusted(@, given, "admin") EXCEPT !.override = TRUE,
              !.settled = given = TrustFields /\ \A r \in Runs : k \notin DOMAIN loaded[r]]]
    /\ UNCHANGED tags

\* DELETE of a skill.  The audit row of an override refers to it without a
\* cascade: the deletion of an overridden skill fails.
Delete(k) ==
    /\ Request
    /\ k \in IdsOf(skills) /\ ~Locked(k, Runs)
    /\ ~skills[k].override
    /\ skills' = [skills EXCEPT ![k] = NoRow]
    /\ UNCHANGED tags

(***************************************************************************)
(* A parse batch                                                           *)
(***************************************************************************)
Others(r) == Runs \ {r}
Goto(r, step) == pc' = [pc EXCEPT ![r] = step]

\* parse_queued_raw_skills loads the pending rows.  A document that passes the
\* gates goes on to its skill; as the code stands it raises before that.
StartBatch(r) ==
    /\ pc[r] = "idle" /\ queue # {}
    /\ batch' = [batch EXCEPT ![r] = [d \in queue |-> title[d]]]
    /\ todo' = [todo EXCEPT ![r] = IF MetadataIsMapping THEN queue ELSE {}]
    /\ Goto(r, IF MetadataIsMapping THEN "find" ELSE "commit")
    /\ UNCHANGED <<table, source, loaded, slug, missing, draft, newTags, bounds>>

\* Mutant of SkillsFor: only the URL of the repository is looked for.
SkillsForLegacy(d, name, rows) ==
    {k \in IdsOf(rows) : rows[k].url = Repo /\ rows[k].name = name}

\* The skill of a document is a row with its URL, or else an old row with the
\* URL of the repository and the same name.
SkillsFor(d, name, rows) ==
    LET exact == {k \in IdsOf(rows) : rows[k].url = d}
    IN  IF exact # {} THEN exact
        ELSE {k \in IdsOf(rows) : rows[k].url = Repo /\ rows[k].name = name}

Find(r) ==
    /\ pc[r] = "find" /\ todo[r] # {}
    /\ LET d     == Oldest(todo[r])
           found == SkillsFor(d, batch[r][d], Visible(r))
       IN  IF found = {}
           THEN Goto(r, "slug") /\ UNCHANGED loaded
           ELSE /\ \E k \in found :
                       loaded' = [loaded EXCEPT ![r] = Put(Nothing, k, Visible(r)[k])]
                /\ Goto(r, "tags")
    /\ UNCHANGED <<table, source, batch, todo, slug, missing, draft, newTags, bounds>>

\* slugify(name), the digest of the URL, and perhaps a number.
Numbered(r, d) == {[name |-> batch[r][d], url |-> d, suffix |-> i] : i \in 0..MaxSkills}

\* Mutant of FreeSlugs: the look-up of taken slugs is gone.
FirstSlugs(r, d) == {s \in Numbered(r, d) : s.suffix = 0}

\* The one without a number, or with the first number that is not taken.
FreeSlugs(r, d) ==
    {s \in Numbered(r, d) :
        /\ ~SlugTaken(s, Visible(r))
        /\ \A t \in Numbered(r, d) : t.suffix < s.suffix => SlugTaken(t, Visible(r))}

ChooseSlug(r) ==
    /\ pc[r] = "slug"
    /\ \E s \in FreeSlugs(r, Oldest(todo[r])) : slug' = [slug EXCEPT ![r] = s]
    /\ Goto(r, "insert")
    /\ UNCHANGED <<table, source, batch, todo, loaded, missing, draft, newTags, bounds>>

\* A statement that fails leaves the session unusable: the handler of the
\* document raises too, and the whole batch and the run are lost.
Lose(r) ==
    /\ Goto(r, "idle")
    /\ batch'   = [batch   EXCEPT ![r] = Nothing]
    /\ todo'    = [todo    EXCEPT ![r] = {}]
    /\ loaded'  = [loaded  EXCEPT ![r] = Nothing]
    /\ slug'    = [slug    EXCEPT ![r] = NoSlug]
    /\ missing' = [missing EXCEPT ![r] = {}]
    /\ draft'   = [draft   EXCEPT ![r] = Nothing]
    /\ newTags' = [newTags EXCEPT ![r] = {}]

\* INSERT of the new row, under the unique key of slugs.
Insert(r) ==
    /\ pc[r] = "insert"
    /\ ~SlugHeld(slug[r], Others(r))
    /\ IF SlugTaken(slug[r], Visible(r))
       THEN Lose(r)
       ELSE /\ \E k \in FreeIds :
                 /\ \A j \in FreeIds : k <= j
                 /\ draft' = [draft EXCEPT ![r] = Put(@, k,
                       [slug |-> slug[r], url |-> slug[r].url, name |-> slug[r].name,
                        score |-> "computed", level |-> "computed",
                        override |-> FALSE, by |-> "batch", settled |-> FALSE])]
            /\ slug' = [slug EXCEPT ![r] = NoSlug]
            /\ Goto(r, "tags")
            /\ UNCHANGED <<batch, todo, loaded, missing, newTags>>
    /\ UNCHANGED <<table, source, bounds>>

LookUpTags(r) ==
    /\ pc[r] = "tags"
    /\ missing' = [missing EXCEPT ![r] = TagsOf[Oldest(todo[r])] \ VisibleTags(r)]
    /\ Goto(r, "write")
    /\ UNCHANGED <<table, source, batch, todo, loaded, slug, draft, newTags, bounds>>

\* Mutant of Retrusted: trust_override is not consulted.
RetrustedAlways(now, read, written) == Trusted(now, written, "computed")

\* The trust profile goes into a skill that was not overridden when it was
\* read, whatever the row holds by now.  Only columns whose value differs from
\* the one read are written: "written" says which.
Retrusted(now, read, written) ==
    IF read.override THEN now ELSE Trusted(now, written, "computed")

\* The columns the profile may change: those that hold something else for
\* certain, those that hold an earlier profile perhaps.
MayWrite(row) == {fs \in SUBSET TrustFields : {f \in TrustFields : row[f] = "none"} \subseteq fs}

\* Mutant of Updated: an empty name is written like any other.
UpdatedUnnamed(now, read, d, name, written) == [now EXCEPT !.url = d, !.name = None]

\* What the UPDATE of a skill leaves: the row as it is by now, with the columns
\* that the run changed from what it had read.
Updated(now, read, d, name, written) ==
    LET row == [now EXCEPT !.url = IF read.url = d THEN @ ELSE d,
                           !.name = IF read.name = name THEN @ ELSE name,
                           !.by = IF read.url = d THEN @ ELSE "batch"]
    IN  Retrusted(row, read, written)

\* The flush that writes the row that was found, the missing tags and the link
\* to the source.  It fails when the row is gone or a tag has appeared since.
Write(r) ==
    /\ pc[r] = "write"
    /\ \A k \in DOMAIN loaded[r] : ~Locked(k, Others(r))
    /\ ~TagsHeld(missing[r], Others(r))
    /\ LET d == Oldest(todo[r])
           rest == todo[r] \ {d}
       IN  IF \/ \E k \in DOMAIN loaded[r] : Visible(r)[k] = NoRow
              \/ missing[r] \cap VisibleTags(r) # {}
           THEN Lose(r)
           ELSE /\ IF loaded[r] = Nothing
                   THEN UNCHANGED draft
                   ELSE \E k \in DOMAIN loaded[r] : \E fs \in MayWrite(loaded[r][k]) :
                            draft' = [draft EXCEPT ![r] = Put(@, k,
                                Updated(Visible(r)[k], loaded[r][k], d, batch[r][d], fs))]
                /\ newTags' = [newTags EXCEPT ![r] = @ \cup missing[r]]
                /\ missing' = [missing EXCEPT ![r] = {}]
                /\ loaded' = [loaded EXCEPT ![r] = Nothing]
                /\ todo' = [todo EXCEPT ![r] = rest]
                /\ Goto(r, IF rest = {} THEN "commit" ELSE "find")
                /\ UNCHANGED <<batch, slug>>
    /\ UNCHANGED <<table, source, bounds>>

\* One commit for the batch, its documents included.
Commit(r) ==
    /\ pc[r] = "commit"
    /\ skills' = Visible(r)
    /\ tags' = VisibleTags(r)
    /\ queue' = queue \ DOMAIN batch[r]
    /\ batch' = [batch EXCEPT ![r] = Nothing]
    /\ todo' = [todo EXCEPT ![r] = {}]
    /\ draft' = [draft EXCEPT ![r] = Nothing]
    /\ newTags' = [newTags EXCEPT ![r] = {}]
    /\ Goto(r, "trust")
    /\ UNCHANGED <<title, loaded, slug, missing, bounds>>

(***************************************************************************)
(* The trust backfill at the end of a run                                  *)
(***************************************************************************)

\* Mutant of Untrusted: only rows with the URL of a document.
UntrustedDocs(rows) == {k \in IdsOf(rows) : rows[k].url \in Docs /\ EmptyTrust(rows[k])}

\* Rows without a score or without a level, overridden or not.
Untrusted(rows) == {k \in IdsOf(rows) : EmptyTrust(rows[k])}

\* As many of them as a pass takes; which ones, the time of the last update
\* says, which is left out.
Selected(rows) ==
    {ks \in SUBSET Untrusted(rows) :
        \/ Cardinality(ks) = FillLimit
        \/ ks = Untrusted(rows) /\ Cardinality(ks) < FillLimit}

\* backfill_missing_trust_profiles; a run without a batch comes here at once.
StartFill(r) ==
    /\ \/ pc[r] = "trust"
       \/ pc[r] = "idle" /\ queue = {} /\ Untrusted(skills) # {}
    /\ \E ks \in Selected(skills) :
        /\ loaded' = [loaded EXCEPT ![r] = [k \in ks |-> skills[k]]]
        /\ Goto(r, IF ks = {} THEN "idle" ELSE "fill")
    /\ UNCHANGED <<table, source, batch, todo, slug, missing, draft, newTags, bounds>>

\* Every row that was read gets the whole profile, whatever it holds by now;
\* when one of them is gone nothing is written.
Fill(r) ==
    /\ pc[r] = "fill"
    /\ \A k \in DOMAIN loaded[r] : ~Locked(k, Others(r))
    /\ IF \E k \in DOMAIN loaded[r] : skills[k] = NoRow
       THEN UNCHANGED skills
       ELSE \E written \in [DOMAIN loaded[r] -> SUBSET TrustFields] :
                /\ \A k \in DOMAIN loaded[r] : written[k] \in MayWrite(loaded[r][k])
                /\ skills' = [k \in RowIds |->
                      IF k \in DOMAIN loaded[r]
                      THEN Trusted(skills[k], written[k], "computed") ELSE skills[k]]
    /\ loaded' = [loaded EXCEPT ![r] = Nothing]
    /\ Goto(r, "idle")
    /\ UNCHANGED <<tags, source, batch, todo, slug, missing, draft, newTags, bounds>>

\* The runs whose transactions the next statement of r must wait for.
Blockers(r) ==
    {q \in Others(r) :
        \/ pc[r] = "insert" /\ SlugHeld(slug[r], {q})
        \/ pc[r] = "write" /\ TagsHeld(missing[r], {q})
        \/ pc[r] \in {"write", "fill"} /\ \E k \in DOMAIN loaded[r] : Locked(k, {q})}

\* Mutant of BreakDeadlock: the wait is never ended.
WaitOn(r) == FALSE

\* Transactions that wait for one another: the server cancels one of them.
BreakDeadlock(r) ==
    /\ \E rs \in SUBSET Runs : r \in rs /\ \A q \in rs : Blockers(q) \cap rs # {}
    /\ Lose(r)
    /\ UNCHANGED <<table, source, bounds>>

\* A database error or a crash: the transaction is rolled back.
Fail(r) ==
    /\ failures < MaxFailures
    /\ pc[r] # "idle"
    /\ Lose(r)
    /\ failures' = failures + 1
    /\ UNCHANGED <<table, source, edits, requests>>

RunStep(r) ==
    \/ StartBatch(r) \/ Find(r) \/ ChooseSlug(r) \/ Insert(r) \/ LookUpTags(r)
    \/ Write(r) \/ Commit(r) \/ StartFill(r) \/ Fill(r) \/ BreakDeadlock(r)

Next ==
    \/ \E d \in Docs : Arrive(d)
    \/ \E p \in Payloads : Create(p.slug, p.url, p.tags)
    \/ \E k \in RowIds : Delete(k) \/ \E given \in SUBSET TrustFields : Override(k, given)
    \/ \E r \in Runs : RunStep(r) \/ Fail(r)

Spec == Init /\ [][Next]_vars

\* Every run goes on: worker loops do not stop, the server breaks deadlocks, and
\* a statement that waits proceeds when the transaction it waits for ends.
FairSpec ==
    /\ Spec
    /\ \A r \in Runs : WF_vars(RunStep(r)) /\ SF_vars(Insert(r) \/ Write(r) \/ Fill(r))

(***************************************************************************)
(* Properties                                                              *)
(***************************************************************************)

TypeOK ==
    /\ skills \in [RowIds -> Skill \cup {NoRow}]
    /\ tags \subseteq Tags
    /\ queue \subseteq Docs
    /\ title \in [Docs -> Names]
    /\ pc \in [Runs -> Steps]
    /\ todo \in [Runs -> SUBSET Docs]
    /\ slug \in [Runs -> Slugs \cup {NoSlug}]
    /\ missing \in [Runs -> SUBSET Tags]
    /\ newTags \in [Runs -> SUBSET Tags]
    /\ DOMAIN batch = Runs /\ DOMAIN loaded = Runs /\ DOMAIN draft = Runs
    /\ \A r \in Runs :
        /\ DOMAIN batch[r] \subseteq Docs /\ todo[r] \subseteq DOMAIN batch[r]
        /\ \A d \in DOMAIN batch[r] : batch[r][d] \in Names
        /\ DOMAIN loaded[r] \subseteq RowIds /\ DOMAIN draft[r] \subseteq RowIds
        /\ \A k \in DOMAIN loaded[r] : loaded[r][k] \in Skill
        /\ \A k \in DOMAIN draft[r] : draft[r][k] \in Skill

\* skills.url is not unique: what keeps one document from being published over
\* and over is that a batch looks for its row first.  However look-ups,
\* insertions, deletions and name changes of overlapping runs fall, there is
\* at most one published row of a document for each run.
CopiesBounded ==
    \A d \in Docs :
        Cardinality({k \in IdsOf(skills) : skills[k].url = d /\ skills[k].by = "batch"})
            <= Cardinality(Runs)

\* An administrator's score and level, both given while no run holds the skill
\* loaded, stay: no batch that publishes the skill again, under whichever row
\* it finds, and no backfill puts a computed value in their place.
OverrideHolds ==
    \A k \in IdsOf(skills) :
        skills[k].settled => \A f \in TrustFields : skills[k][f] = "admin"

\* A queued document leaves the queue, although batches are lost as a whole to
\* slugs and tags that another run or an administrator was first to insert.
EveryDocLands == \A d \in Docs : (d \in queue) ~> (d \notin queue)

\* A skill without trust values, as administrators create them, gets them from
\* a later run.
TrustIsFilled ==
    LET Bare(k) == k \in IdsOf(skills) /\ EmptyTrust(skills[k])
    IN  \A k \in RowIds : Bare(k) ~> ~Bare(k)
=============================================================================
