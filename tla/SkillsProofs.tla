---------------------------- MODULE SkillsProofs ----------------------------
(***************************************************************************)
(* What holds of the skills table for every number of runs, documents,     *)
(* names and rows, all payloads and any number of edits, requests and      *)
(* failures.                                                               *)
(*                                                                         *)
(* OverrideHolds and CopiesBounded speak of committed rows.  What becomes  *)
(* of them is decided before, in what a run has loaded and in what it has  *)
(* written and not committed: the invariants say what those may hold.      *)
(***************************************************************************)
EXTENDS Skills, FiniteSetTheorems, WellFoundedInduction, TLAPS

Publishing == {"slug", "insert", "tags", "write"}

\* Runs that are not in a batch hold no draft, those that publish have a
\* document, and a row is in the draft of one run.
Ordered ==
    /\ \A r \in Runs : pc[r] \in {"idle", "trust", "fill"} => draft[r] = Nothing
    /\ \A r \in Runs : pc[r] \in Publishing => todo[r] # {}
    /\ \A r \in Runs : pc[r] = "insert" => slug[r] \in Slugs /\ slug[r].url = Oldest(todo[r])
    /\ \A r \in Runs : pc[r] \in {"idle", "find", "slug", "insert", "commit", "trust"}
           => loaded[r] = Nothing
    /\ \A q, r \in Runs : q # r => DOMAIN draft[q] \cap DOMAIN draft[r] = {}

(***************************************************************************)
(* Overrides                                                               *)
(***************************************************************************)
Kept(row) == row.override /\ row.score = "admin" /\ row.level = "admin"

\* A row that is settled is kept wherever it is, a draft of it is settled too,
\* and whoever has it loaded has seen that.
OverrideInv ==
    /\ \A k \in IdsOf(skills) : skills[k].settled => Kept(skills[k])
    /\ \A r \in Runs : \A k \in DOMAIN draft[r] :
        /\ draft[r][k].settled => Kept(draft[r][k])
        /\ draft[r][k].settled <=> (skills[k] # NoRow /\ skills[k].settled)
    /\ \A r \in Runs : \A k \in DOMAIN loaded[r] :
        /\ skills[k] # NoRow /\ skills[k].settled => Kept(loaded[r][k])
        /\ pc[r] = "fill" => ~Kept(loaded[r][k])

(***************************************************************************)
(* Copies                                                                  *)
(***************************************************************************)
Copy(row, d) == row # NoRow /\ row.url = d /\ row.by = "batch"
Copies(d)    == {k \in RowIds : Copy(skills[k], d)}

\* Run r will turn a row into a copy of d, or has.
Finding(r, d) ==
    /\ pc[r] \in Publishing /\ Oldest(todo[r]) = d
    /\ pc[r] \in {"slug", "insert"} \/ \E k \in DOMAIN loaded[r] : loaded[r][k].url # d

Fresh(r, d) == {k \in DOMAIN draft[r] : Copy(draft[r][k], d) /\ ~Copy(skills[k], d)}

\* Its commit will take a copy away.
Hides(r, d) == \E k \in DOMAIN draft[r] : Copy(skills[k], d) /\ ~Copy(draft[r][k], d)

Adders(d) == {r \in Runs : (Finding(r, d) \/ Fresh(r, d) # {}) /\ ~Hides(r, d)}

\* The document a run has just inserted a row for.
Inserted(r, d) == pc[r] \in {"tags", "write"} /\ loaded[r] = Nothing /\ Oldest(todo[r]) = d

\* A batch makes at most one copy of a document, when it is the document's turn;
\* a URL of a document never becomes that of the repository again.
CopyInv ==
    /\ \A r \in Runs, d \in Docs :
        /\ \A j, k \in Fresh(r, d) : j = k
        /\ d \in todo[r] /\ ~Inserted(r, d) => Fresh(r, d) = {}
    /\ \A r \in Runs : \A k \in DOMAIN draft[r] : draft[r][k].url \in Docs
    /\ \A r \in Runs : \A k \in DOMAIN loaded[r] :
        /\ k \in DOMAIN draft[r]
               => loaded[r][k] = draft[r][k] /\ loaded[r][k].url = Oldest(todo[r])
        /\ k \notin DOMAIN draft[r] /\ loaded[r][k].url \in Docs /\ skills[k] # NoRow
               => skills[k].url \in Docs

CountInv == \A d \in Docs : Cardinality(Copies(d)) + Cardinality(Adders(d)) <= Cardinality(Runs)

(***************************************************************************)
(* Documents and rows                                                      *)
(***************************************************************************)

\* A run takes up a document of its batch.
LEMMA OldestIsIn ==
    ASSUME NEW ds, ds \subseteq Docs, ds # {}
    PROVE  Oldest(ds) \in ds /\ \A e \in ds : Oldest(ds) <= e
<1> DEFINE R == {ss \in Nat \X Nat : ss[1] < ss[2]}
<1>1. IsWellFoundedOn(R, Nat)
  <2>1. OpToRel(<, Nat) = R
    BY DEF OpToRel
  <2> QED
  BY <2>1, NatLessThanWellFounded
<1>2. PICK d \in ds : \A e \in ds : ~(<<e, d>> \in R)
  <2> HIDE DEF R
  <2>1. ds \subseteq Nat
    BY DocsAssumption
  <2> QED
    BY <1>1, <2>1, WFMin
<1>3. \A e \in ds : d <= e
  <2>1. \A e \in ds : e \in Nat
    BY DocsAssumption
  <2>2. ASSUME NEW e \in ds, e < d PROVE <<e, d>> \in R
    BY <2>1, <2>2
  <2> HIDE DEF R
  <2>3. ASSUME NEW e \in ds PROVE ~(e < d)
    BY <1>2, <2>2, Zenon
  <2> QED
    BY <2>1, <2>3
<1> QED
  BY <1>3 DEF Oldest

LEMMA RowIsSkill ==
    /\ NoRow \notin Skill /\ DOMAIN Nothing = {}
    /\ \A rows \in [RowIds -> Skill \cup {NoRow}] :
        /\ IdsOf(rows) \subseteq RowIds
        /\ \A k \in IdsOf(rows) : rows[k] \in Skill
<1>1. NoRow \notin Skill
  <2>1. "url" \notin DOMAIN NoRow
    BY DEF NoRow
  <2>2. \A row \in Skill : "url" \in DOMAIN row
    BY DEF Skill
  <2> QED
    BY <2>1, <2>2
<1> QED
  BY <1>1 DEF IdsOf, Nothing

\* What a run sees of the table is a table.
LEMMA VisibleIsTable ==
    ASSUME TypeOK, NEW r \in Runs
    PROVE  /\ Visible(r) \in [RowIds -> Skill \cup {NoRow}]
           /\ \A k \in DOMAIN draft[r] : Visible(r)[k] = draft[r][k]
           /\ \A k \in RowIds \ DOMAIN draft[r] : Visible(r)[k] = skills[k]
  BY DEF TypeOK, Visible

LEMMA TrustedIsSkill ==
    ASSUME NEW row \in Skill, NEW fields, NEW value \in TrustValues
    PROVE  /\ Trusted(row, fields, value) \in Skill
           /\ Trusted(row, fields, value).url = row.url
           /\ Trusted(row, fields, value).by = row.by
           /\ Trusted(row, fields, value).settled = row.settled
           /\ Trusted(row, fields, value).override = row.override
  BY DEF Trusted, Skill

\* What a batch makes of a row: the URL and its giver change together, in a row
\* that was read with another; what was kept stays, and stays settled or not.
LEMMA UpdatedIsSkill ==
    ASSUME NEW now \in Skill, NEW read \in Skill, NEW d \in Docs, NEW name \in Names,
           NEW fs \in SUBSET TrustFields
    PROVE  LET row == Updated(now, read, d, name, fs)
           IN  /\ row \in Skill
               /\ row.url = IF read.url = d THEN now.url ELSE d
               /\ row.by = IF read.url = d THEN now.by ELSE "batch"
               /\ row.settled = now.settled
               /\ Kept(now) /\ Kept(read) => Kept(row)
<1> DEFINE moved == [now EXCEPT !.url = IF read.url = d THEN @ ELSE d,
                                !.name = IF read.name = name THEN @ ELSE name,
                                !.by = IF read.url = d THEN @ ELSE "batch"]
<1>1. d \in Urls
  BY DEF Urls
<1>2. /\ moved \in Skill /\ moved.url = IF read.url = d THEN now.url ELSE d
      /\ moved.by = IF read.url = d THEN now.by ELSE "batch"
      /\ moved.settled = now.settled /\ (Kept(now) => Kept(moved))
  BY <1>1 DEF Skill, Kept
<1>3. Updated(now, read, d, name, fs) = IF read.override THEN moved ELSE Trusted(moved, fs, "computed")
  BY DEF Updated, Retrusted
<1> HIDE DEF moved
<1>4. CASE read.override
  BY <1>2, <1>3, <1>4
<1>5. CASE ~read.override
  BY <1>2, <1>3, <1>5, TrustedIsSkill DEF TrustValues, Kept
<1> QED
  BY <1>4, <1>5

(***************************************************************************)
(* Types and the order of a run                                            *)
(***************************************************************************)
BaseInv == TypeOK /\ Ordered

LEMMA BaseInit == Init => BaseInv
<1> SUFFICES ASSUME Init PROVE BaseInv
  OBVIOUS
<1>1. TypeOK
  BY DEF Init, TypeOK, Nothing, Steps
<1>2. Ordered
  BY DEF Init, Ordered, Nothing, Publishing
<1> QED
  BY <1>1, <1>2 DEF BaseInv

\* A lost batch leaves the run as it was at the beginning.
LEMMA LoseKeepsBase ==
    ASSUME BaseInv, NEW r \in Runs, Lose(r), UNCHANGED <<table, source>>
    PROVE  BaseInv'
<1>1. TypeOK'
  BY RowIsSkill DEF BaseInv, TypeOK, Lose, Goto, table, source, Steps
<1>2. Ordered'
  BY RowIsSkill DEF BaseInv, TypeOK, Ordered, Lose, Goto, Publishing
<1> QED
  BY <1>1, <1>2 DEF BaseInv

\* Administrators and documents touch committed rows and the queue only.
LEMMA RequestsKeepBase ==
    ASSUME BaseInv, UNCHANGED <<pc, memory>>,
           skills' \in [RowIds -> Skill \cup {NoRow}], tags' \subseteq Tags,
           queue' \subseteq Docs, title' \in [Docs -> Names]
    PROVE  BaseInv'
  BY DEF BaseInv, TypeOK, Ordered, memory

LEMMA ArriveKeepsBase == ASSUME BaseInv, NEW d \in Docs, Arrive(d) PROVE BaseInv'
  BY RequestsKeepBase DEF Arrive, BaseInv, TypeOK, table

LEMMA CreateKeepsBase ==
    ASSUME BaseInv, NEW p \in Payloads, Create(p.slug, p.url, p.tags)
    PROVE  BaseInv'
<1>1. p.slug \in Slugs /\ p.slug.name \in Names /\ p.url \in Urls /\ p.tags \subseteq Tags
  BY PayloadsAssumption DEF Slugs
<1>2. skills' \in [RowIds -> Skill \cup {NoRow}]
  <2> DEFINE row == [slug |-> p.slug, url |-> p.url, name |-> p.slug.name, score |-> "none",
                     level |-> "none", override |-> FALSE, by |-> "admin", settled |-> FALSE]
  <2>1. row \in Skill
    BY <1>1 DEF Skill, TrustValues
  <2>2. PICK k : skills' = [skills EXCEPT ![k] = row]
    BY DEF Create
  <2> HIDE DEF row
  <2>3. skills \in [RowIds -> Skill \cup {NoRow}]
    BY DEF BaseInv, TypeOK
  <2> QED
    BY <2>1, <2>2, <2>3
<1>3. tags' \subseteq Tags
  BY <1>1 DEF Create, BaseInv, TypeOK
<1> QED
  BY <1>2, <1>3, RequestsKeepBase DEF Create, Request, source, BaseInv, TypeOK

LEMMA OverrideKeepsBase ==
    ASSUME BaseInv, NEW k \in RowIds, NEW given \in SUBSET TrustFields, Override(k, given)
    PROVE  BaseInv'
<1>1. skills[k] \in Skill
  BY RowIsSkill DEF Override, BaseInv, TypeOK
<1>2. Trusted(skills[k], given, "admin") \in Skill
  BY <1>1, TrustedIsSkill DEF TrustValues
<1>3. skills' \in [RowIds -> Skill \cup {NoRow}]
  BY <1>2 DEF Override, BaseInv, TypeOK, Skill
<1> QED
  BY <1>3, RequestsKeepBase DEF Override, Request, source, BaseInv, TypeOK

LEMMA DeleteKeepsBase ==
    ASSUME BaseInv, NEW k \in RowIds, Delete(k)
    PROVE  BaseInv'
  BY RequestsKeepBase DEF Delete, Request, source, BaseInv, TypeOK

LEMMA StartBatchKeepsBase ==
    ASSUME BaseInv, NEW r \in Runs, StartBatch(r) PROVE BaseInv'
<1>1. TypeOK'
  BY DEF BaseInv, TypeOK, StartBatch, Goto, table, source, Steps
<1>2. Ordered'
  BY DEF BaseInv, TypeOK, Ordered, StartBatch, Goto, Publishing, Steps
<1> QED
  BY <1>1, <1>2 DEF BaseInv

\* The row a run finds is one that it sees.
LEMMA FoundIsSkill ==
    ASSUME TypeOK, NEW r \in Runs, NEW d, NEW name, NEW k \in SkillsFor(d, name, Visible(r))
    PROVE  /\ k \in RowIds /\ Visible(r)[k] \in Skill
           /\ \/ Visible(r)[k].url = d
              \/ /\ Visible(r)[k].url = Repo
                 /\ \A j \in IdsOf(Visible(r)) : Visible(r)[j].url # d
  BY VisibleIsTable, RowIsSkill DEF SkillsFor

LEMMA FindKeepsBase ==
    ASSUME BaseInv, NEW r \in Runs, Find(r) PROVE BaseInv'
<1> DEFINE d == Oldest(todo[r])
           found == SkillsFor(d, batch[r][d], Visible(r))
<1>1. CASE found = {}
  <2>1. Goto(r, "slug") /\ UNCHANGED loaded
    BY <1>1 DEF Find
  <2>2. TypeOK'
    BY <2>1 DEF BaseInv, TypeOK, Find, Goto, table, source, Steps
  <2>3. Ordered'
    BY <2>1 DEF BaseInv, TypeOK, Ordered, Find, Goto, Publishing, Steps
  <2> QED
    BY <2>2, <2>3 DEF BaseInv
<1>2. CASE found # {}
  <2>1. PICK k \in found : loaded' = [loaded EXCEPT ![r] = Put(Nothing, k, Visible(r)[k])]
    BY <1>2 DEF Find
  <2>2. Goto(r, "tags")
    BY <1>2 DEF Find
  <2>3. k \in RowIds /\ Visible(r)[k] \in Skill
    BY <2>1, FoundIsSkill DEF BaseInv
  <2> DEFINE got == Put(Nothing, k, Visible(r)[k])
  <2>4. DOMAIN got = {k} /\ got[k] = Visible(r)[k]
    BY DEF Put, Nothing
  <2> HIDE DEF got
  <2>5. loaded' = [loaded EXCEPT ![r] = got]
    BY <2>1 DEF got
  <2>6. TypeOK'
    BY <2>2, <2>3, <2>4, <2>5 DEF BaseInv, TypeOK, Find, Goto, table, source, Steps
  <2>7. Ordered'
    BY <2>2, <2>5 DEF BaseInv, TypeOK, Ordered, Find, Goto, Publishing, Steps
  <2> QED
    BY <2>6, <2>7 DEF BaseInv
<1> QED
  BY <1>1, <1>2

LEMMA ChooseSlugKeepsBase ==
    ASSUME BaseInv, NEW r \in Runs, ChooseSlug(r) PROVE BaseInv'
<1> DEFINE d == Oldest(todo[r])
<1>1. d \in todo[r] /\ d \in DOMAIN batch[r] /\ d \in Docs /\ batch[r][d] \in Names
  BY OldestIsIn DEF BaseInv, TypeOK, Ordered, ChooseSlug, Publishing
<1> HIDE DEF d
<1>2. PICK s \in Numbered(r, d) : slug' = [slug EXCEPT ![r] = s]
  BY DEF ChooseSlug, FreeSlugs, d
<1>3. s \in Slugs /\ s.url = d
  BY <1>1, <1>2 DEF Numbered, Slugs, Urls
<1>4. TypeOK'
  BY <1>2, <1>3 DEF BaseInv, TypeOK, ChooseSlug, Goto, table, source, Steps
<1>5. Ordered'
  <2>1. slug'[r] = s /\ \A q \in Runs \ {r} : slug'[q] = slug[q]
    BY <1>2 DEF BaseInv, TypeOK
  <2> QED
    BY <1>3, <2>1 DEF BaseInv, TypeOK, Ordered, ChooseSlug, Goto, Publishing, Steps, d
<1> QED
  BY <1>4, <1>5 DEF BaseInv

\* A row that is put into the draft of a run, by an insertion or an update.
LEMMA DraftKeepsOrder ==
    ASSUME BaseInv, NEW r \in Runs, NEW k \in RowIds, NEW row \in Skill,
           draft' = [draft EXCEPT ![r] = Put(@, k, row)],
           \A q \in Runs \ {r} : k \notin DOMAIN draft[q]
    PROVE  /\ DOMAIN draft' = Runs
           /\ DOMAIN draft'[r] = DOMAIN draft[r] \cup {k} /\ draft'[r][k] = row
           /\ \A j \in DOMAIN draft[r] \ {k} : draft'[r][j] = draft[r][j]
           /\ \A q \in Runs \ {r} : draft'[q] = draft[q]
           /\ \A q \in Runs : /\ DOMAIN draft'[q] \subseteq RowIds
                             /\ \A j \in DOMAIN draft'[q] : draft'[q][j] \in Skill
           /\ \A p, q \in Runs : p # q => DOMAIN draft'[p] \cap DOMAIN draft'[q] = {}
<1>1. /\ DOMAIN draft' = Runs /\ draft'[r] = Put(draft[r], k, row)
      /\ \A q \in Runs \ {r} : draft'[q] = draft[q]
  BY DEF BaseInv, TypeOK
<1>2. /\ DOMAIN draft'[r] = DOMAIN draft[r] \cup {k} /\ draft'[r][k] = row
      /\ \A j \in DOMAIN draft[r] \ {k} : draft'[r][j] = draft[r][j]
  BY <1>1 DEF Put
<1> QED
  BY <1>1, <1>2 DEF BaseInv, TypeOK, Ordered

LEMMA InsertKeepsBase ==
    ASSUME BaseInv, NEW r \in Runs, Insert(r) PROVE BaseInv'
<1>1. CASE SlugTaken(slug[r], Visible(r))
  BY <1>1, LoseKeepsBase DEF Insert
<1>2. CASE ~SlugTaken(slug[r], Visible(r))
  <2> DEFINE row == [slug |-> slug[r], url |-> slug[r].url, name |-> slug[r].name,
                     score |-> "computed", level |-> "computed",
                     override |-> FALSE, by |-> "batch", settled |-> FALSE]
  <2>1. PICK k \in FreeIds : draft' = [draft EXCEPT ![r] = Put(@, k, row)]
    BY <1>2 DEF Insert
  <2>2. row \in Skill
    BY DEF Insert, BaseInv, Ordered, Slugs, Skill, TrustValues
  <2>3. k \in RowIds /\ \A q \in Runs \ {r} : k \notin DOMAIN draft[q]
    BY <2>1 DEF FreeIds, Locked
  <2> HIDE DEF row
  <2>4. /\ slug' = [slug EXCEPT ![r] = NoSlug] /\ pc' = [pc EXCEPT ![r] = "tags"]
        /\ UNCHANGED <<table, source, batch, todo, loaded, missing, newTags>>
    BY <1>2 DEF Insert, Goto
  <2>5. TypeOK'
    BY <2>1, <2>2, <2>3, <2>4, DraftKeepsOrder DEF BaseInv, TypeOK, table, source, Steps
  <2>6. Ordered'
    <3>1. /\ \A q \in Runs \ {r} : draft'[q] = draft[q] /\ pc'[q] = pc[q] /\ slug'[q] = slug[q]
          /\ pc'[r] = "tags" /\ pc[r] = "insert"
      BY <2>1, <2>2, <2>3, <2>4, DraftKeepsOrder DEF BaseInv, TypeOK, Insert
    <3>2. \A p, q \in Runs : p # q => DOMAIN draft'[p] \cap DOMAIN draft'[q] = {}
      BY <2>1, <2>2, <2>3, DraftKeepsOrder
    <3> QED
      BY <2>4, <3>1, <3>2 DEF BaseInv, Ordered, Publishing
  <2> QED
    BY <2>5, <2>6 DEF BaseInv
<1> QED
  BY <1>1, <1>2

LEMMA LookUpTagsKeepsBase ==
    ASSUME BaseInv, NEW r \in Runs, LookUpTags(r) PROVE BaseInv'
<1> DEFINE d == Oldest(todo[r])
<1>1. d \in Docs
  BY OldestIsIn DEF BaseInv, TypeOK, Ordered, LookUpTags, Publishing
<1>2. TagsOf[d] \subseteq Tags
  BY <1>1, TagsAssumption
<1>3. TypeOK'
  BY <1>2 DEF BaseInv, TypeOK, LookUpTags, Goto, table, source, Steps
<1>4. Ordered'
  BY DEF BaseInv, TypeOK, Ordered, LookUpTags, Goto, Publishing, Steps
<1> QED
  BY <1>3, <1>4 DEF BaseInv

\* The flush of a batch: it writes the row the run has loaded, which nobody else
\* has written, or none when the run has inserted one.
LEMMA WriteIs ==
    ASSUME BaseInv, NEW r \in Runs, Write(r), ~Lose(r)
    PROVE  LET d == Oldest(todo[r])
           IN  /\ d \in todo[r] /\ d \in Docs /\ batch[r][d] \in Names
               /\ \/ loaded[r] = Nothing /\ draft' = draft
                  \/ \E k \in DOMAIN loaded[r] : \E fs \in MayWrite(loaded[r][k]) :
                        /\ k \in RowIds /\ loaded[r][k] \in Skill /\ Visible(r)[k] \in Skill
                        /\ \A q \in Runs \ {r} : k \notin DOMAIN draft[q]
                        /\ draft' = [draft EXCEPT ![r] = Put(@, k,
                              Updated(Visible(r)[k], loaded[r][k], d, batch[r][d], fs))]
<1> DEFINE d == Oldest(todo[r])
<1>1. d \in todo[r] /\ d \in Docs /\ batch[r][d] \in Names
  BY OldestIsIn DEF BaseInv, TypeOK, Ordered, Write, Publishing
<1> HIDE DEF d
<1>2. /\ ~\E k \in DOMAIN loaded[r] : Visible(r)[k] = NoRow
      /\ \A k \in DOMAIN loaded[r] : ~Locked(k, Others(r))
      /\ IF loaded[r] = Nothing THEN UNCHANGED draft
         ELSE \E k \in DOMAIN loaded[r] : \E fs \in MayWrite(loaded[r][k]) :
                 draft' = [draft EXCEPT ![r] = Put(@, k,
                     Updated(Visible(r)[k], loaded[r][k], d, batch[r][d], fs))]
  BY DEF Write, d
<1>3. CASE loaded[r] = Nothing
  BY <1>1, <1>2, <1>3 DEF d
<1>4. ASSUME NEW k \in DOMAIN loaded[r]
      PROVE  /\ k \in RowIds /\ loaded[r][k] \in Skill /\ Visible(r)[k] \in Skill
             /\ \A q \in Runs \ {r} : k \notin DOMAIN draft[q]
  <2>1. k \in RowIds /\ loaded[r][k] \in Skill
    BY DEF BaseInv, TypeOK
  <2>2. Visible(r)[k] \in Skill
    BY <1>2, <2>1, VisibleIsTable DEF BaseInv
  <2> QED
    BY <1>2, <2>1, <2>2 DEF Locked, Others
<1> QED
  BY <1>1, <1>2, <1>3, <1>4 DEF d

LEMMA WriteKeepsBase ==
    ASSUME BaseInv, NEW r \in Runs, Write(r) PROVE BaseInv'
<1>1. CASE Lose(r)
  BY <1>1, LoseKeepsBase DEF Write
<1>2. CASE ~Lose(r)
  <2> DEFINE d == Oldest(todo[r])
             rest == todo[r] \ {d}
  <2>1. /\ newTags' = [newTags EXCEPT ![r] = @ \cup missing[r]]
        /\ missing' = [missing EXCEPT ![r] = {}]
        /\ loaded' = [loaded EXCEPT ![r] = Nothing]
        /\ todo' = [todo EXCEPT ![r] = rest]
        /\ pc' = [pc EXCEPT ![r] = IF rest = {} THEN "commit" ELSE "find"]
        /\ UNCHANGED <<batch, slug, table, source>>
    BY <1>2 DEF Write, Goto
  <2> DEFINE Drafted ==
        /\ DOMAIN draft' = Runs
        /\ \A q \in Runs \ {r} : draft'[q] = draft[q]
        /\ \A q \in Runs : /\ DOMAIN draft'[q] \subseteq RowIds
                          /\ \A j \in DOMAIN draft'[q] : draft'[q][j] \in Skill
        /\ \A p, q \in Runs : p # q => DOMAIN draft'[p] \cap DOMAIN draft'[q] = {}
  <2> HIDE DEF d
  <2>2. Drafted
    <3>1. CASE draft' = draft
      BY <3>1 DEF BaseInv, TypeOK, Ordered
    <3>2. ASSUME NEW k \in DOMAIN loaded[r], NEW fs \in MayWrite(loaded[r][k]),
                 k \in RowIds /\ loaded[r][k] \in Skill /\ Visible(r)[k] \in Skill,
                 \A q \in Runs \ {r} : k \notin DOMAIN draft[q],
                 draft' = [draft EXCEPT ![r] = Put(@, k,
                     Updated(Visible(r)[k], loaded[r][k], d, batch[r][d], fs))]
          PROVE  Drafted
      <4> DEFINE row == Updated(Visible(r)[k], loaded[r][k], d, batch[r][d], fs)
      <4>1. row \in Skill
        BY <1>2, <3>2, WriteIs, UpdatedIsSkill DEF MayWrite, d
      <4>2. draft' = [draft EXCEPT ![r] = Put(@, k, row)]
        BY <3>2
      <4>3. k \in RowIds /\ \A q \in Runs \ {r} : k \notin DOMAIN draft[q]
        BY <3>2
      <4> HIDE DEF row
      <4> QED
        BY <4>1, <4>2, <4>3, DraftKeepsOrder
    <3> QED
      BY <1>2, <3>1, <3>2, WriteIs DEF d
  <2>3. TypeOK'
    BY <2>1, <2>2, RowIsSkill DEF BaseInv, TypeOK, table, source, Steps
  <2>4. Ordered'
    <3>1. /\ \A q \in Runs \ {r} : /\ draft'[q] = draft[q] /\ pc'[q] = pc[q]
                                  /\ loaded'[q] = loaded[q] /\ todo'[q] = todo[q]
          /\ slug' = slug /\ pc'[r] \in {"commit", "find"} /\ loaded'[r] = Nothing
      BY <2>1, <2>2 DEF BaseInv, TypeOK
    <3> QED
      BY <2>2, <3>1 DEF BaseInv, Ordered, Publishing
  <2> QED
    BY <2>3, <2>4 DEF BaseInv
<1> QED
  BY <1>1, <1>2

LEMMA CommitKeepsBase ==
    ASSUME BaseInv, NEW r \in Runs, Commit(r) PROVE BaseInv'
<1>1. TypeOK'
  BY VisibleIsTable, RowIsSkill
  DEF BaseInv, TypeOK, Commit, Goto, VisibleTags, Steps
<1>2. Ordered'
  BY RowIsSkill DEF BaseInv, TypeOK, Ordered, Commit, Goto, Publishing
<1> QED
  BY <1>1, <1>2 DEF BaseInv

LEMMA StartFillKeepsBase ==
    ASSUME BaseInv, NEW r \in Runs, StartFill(r) PROVE BaseInv'
<1>1. \A k \in Untrusted(skills) : k \in RowIds /\ skills[k] \in Skill
  BY RowIsSkill DEF BaseInv, TypeOK, Untrusted
<1>2. PICK ks \in SUBSET Untrusted(skills) :
        /\ loaded' = [loaded EXCEPT ![r] = [k \in ks |-> skills[k]]]
        /\ pc' = [pc EXCEPT ![r] = IF ks = {} THEN "idle" ELSE "fill"]
  BY DEF StartFill, Selected, Goto
<1>3. TypeOK'
  BY <1>1, <1>2 DEF BaseInv, TypeOK, StartFill, table, source, Steps
<1>4. ks = {} => loaded'[r] = Nothing
  BY <1>2 DEF BaseInv, TypeOK, Nothing
<1>5. Ordered'
  BY <1>2, <1>4 DEF BaseInv, TypeOK, Ordered, StartFill, Publishing
<1> QED
  BY <1>3, <1>5 DEF BaseInv

LEMMA FillKeepsBase ==
    ASSUME BaseInv, NEW r \in Runs, Fill(r) PROVE BaseInv'
<1>1. skills' \in [RowIds -> Skill \cup {NoRow}]
  <2>1. CASE skills' = skills
    BY <2>1 DEF BaseInv, TypeOK
  <2>2. ASSUME ~\E k \in DOMAIN loaded[r] : skills[k] = NoRow,
               NEW written \in [DOMAIN loaded[r] -> SUBSET TrustFields],
               skills' = [k \in RowIds |->
                   IF k \in DOMAIN loaded[r]
                   THEN Trusted(skills[k], written[k], "computed") ELSE skills[k]]
        PROVE  skills' \in [RowIds -> Skill \cup {NoRow}]
    <3>1. ASSUME NEW k \in RowIds, k \in DOMAIN loaded[r]
          PROVE  Trusted(skills[k], written[k], "computed") \in Skill
      <4>1. skills[k] \in Skill
        BY <2>2, <3>1 DEF BaseInv, TypeOK
      <4> QED
        BY <4>1, TrustedIsSkill DEF TrustValues
    <3> QED
      BY <2>2, <3>1 DEF BaseInv, TypeOK
  <2> QED
    BY <2>1, <2>2 DEF Fill
<1>2. TypeOK'
  BY <1>1, RowIsSkill DEF BaseInv, TypeOK, Fill, Goto, source, Steps
<1>3. Ordered'
  BY DEF BaseInv, TypeOK, Ordered, Fill, Goto, Publishing
<1> QED
  BY <1>2, <1>3 DEF BaseInv

LEMMA BaseStep == BaseInv /\ [Next]_vars => BaseInv'
<1> SUFFICES ASSUME BaseInv, [Next]_vars PROVE BaseInv'
  OBVIOUS
<1>1. CASE \E d \in Docs : Arrive(d)
  BY <1>1, ArriveKeepsBase
<1>2. CASE \E p \in Payloads : Create(p.slug, p.url, p.tags)
  BY <1>2, CreateKeepsBase
<1>3. CASE \E k \in RowIds : Delete(k) \/ \E given \in SUBSET TrustFields : Override(k, given)
  BY <1>3, DeleteKeepsBase, OverrideKeepsBase
<1>4. ASSUME NEW r \in Runs, RunStep(r) PROVE BaseInv'
  BY <1>4, StartBatchKeepsBase, FindKeepsBase, ChooseSlugKeepsBase, InsertKeepsBase,
     LookUpTagsKeepsBase, WriteKeepsBase, CommitKeepsBase, StartFillKeepsBase, FillKeepsBase,
     LoseKeepsBase DEF RunStep, BreakDeadlock
<1>5. ASSUME NEW r \in Runs, Fail(r) PROVE BaseInv'
  BY <1>5, LoseKeepsBase DEF Fail
<1>6. CASE UNCHANGED vars
  BY <1>6 DEF vars, table, source, memory, BaseInv, TypeOK, Ordered
<1> QED
  BY <1>1, <1>2, <1>3, <1>4, <1>5, <1>6 DEF Next

\* Every value is of its type.  Needed for it: a run at an insertion has chosen a
\* slug, and a run that publishes has a document left.
THEOREM TypesHold == Spec => []TypeOK
<1>1. BaseInv => TypeOK
  BY DEF BaseInv
<1> QED
  BY <1>1, BaseInit, BaseStep, PTL DEF Spec

(***************************************************************************)
(* Overrides                                                               *)
(***************************************************************************)
LEMMA OverrideInit == Init => OverrideInv
  BY DEF Init, OverrideInv, IdsOf, Nothing

LEMMA LoseKeepsOverride ==
    ASSUME BaseInv, OverrideInv, NEW r \in Runs, Lose(r), UNCHANGED table
    PROVE  OverrideInv'
  BY RowIsSkill DEF BaseInv, TypeOK, OverrideInv, Lose, Goto, table, IdsOf

LEMMA RequestsKeepOverride ==
    ASSUME BaseInv, OverrideInv, NEW k \in RowIds,
           Delete(k)
             \/ (\E given \in SUBSET TrustFields : Override(k, given))
             \/ (\E p \in Payloads : Create(p.slug, p.url, p.tags))
    PROVE  OverrideInv'
<1>1. UNCHANGED <<pc, draft, loaded>>
  BY DEF Delete, Override, Create, Request, memory
<1>2. CASE Delete(k)
  <2>1. skills' = [skills EXCEPT ![k] = NoRow] /\ \A r \in Runs : k \notin DOMAIN draft[r]
    BY <1>2 DEF Delete, Locked
  <2> QED
    BY <1>1, <2>1 DEF BaseInv, TypeOK, OverrideInv, IdsOf
<1>3. ASSUME NEW given \in SUBSET TrustFields, Override(k, given) PROVE OverrideInv'
  <2> DEFINE row == [Trusted(skills[k], given, "admin") EXCEPT !.override = TRUE,
        !.settled = given = TrustFields /\ \A r \in Runs : k \notin DOMAIN loaded[r]]
  <2>1. skills' = [skills EXCEPT ![k] = row] /\ \A r \in Runs : k \notin DOMAIN draft[r]
    BY <1>3 DEF Override, Locked
  <2>2. Trusted(skills[k], given, "admin") \in Skill
    BY <1>3, RowIsSkill, TrustedIsSkill DEF Override, BaseInv, TypeOK, TrustValues
  <2>3. given = TrustFields => /\ Trusted(skills[k], given, "admin").score = "admin"
                               /\ Trusted(skills[k], given, "admin").level = "admin"
    <3>1. skills[k] \in Skill
      BY <1>3, RowIsSkill DEF Override, BaseInv, TypeOK
    <3> QED
      BY <3>1 DEF Trusted, Skill, TrustFields
  <2>4. /\ row.settled => Kept(row) /\ \A r \in Runs : k \notin DOMAIN loaded[r]
    BY <2>2, <2>3 DEF Kept, Skill
  <2> HIDE DEF row
  <2> QED
    BY <1>1, <2>1, <2>4 DEF BaseInv, TypeOK, OverrideInv, IdsOf
<1>4. ASSUME NEW p \in Payloads, Create(p.slug, p.url, p.tags) PROVE OverrideInv'
  <2> DEFINE row == [slug |-> p.slug, url |-> p.url, name |-> p.slug.name, score |-> "none",
         level |-> "none", override |-> FALSE, by |-> "admin", settled |-> FALSE]
  <2>1. PICK j \in FreeIds : skills' = [skills EXCEPT ![j] = row]
    BY <1>4 DEF Create
  <2>2. j \in RowIds /\ \A r \in Runs : j \notin DOMAIN draft[r] /\ j \notin DOMAIN loaded[r]
    BY <2>1 DEF FreeIds, Locked
  <2>3. ~row.settled
    OBVIOUS
  <2> HIDE DEF row
  <2> QED
    BY <1>1, <2>1, <2>2, <2>3 DEF BaseInv, TypeOK, OverrideInv, IdsOf
<1> QED
  BY <1>2, <1>3, <1>4

\* Whoever loads a row loads what it sees of it.
LEMMA SeenIsKept ==
    ASSUME BaseInv, OverrideInv, NEW r \in Runs, NEW k \in RowIds, Visible(r)[k] \in Skill
    PROVE  /\ Visible(r)[k].settled => Kept(Visible(r)[k])
           /\ Visible(r)[k].settled <=> skills[k] # NoRow /\ skills[k].settled
<1>1. CASE k \in DOMAIN draft[r]
  BY <1>1, VisibleIsTable DEF BaseInv, OverrideInv
<1>2. CASE k \notin DOMAIN draft[r]
  BY <1>2, VisibleIsTable, RowIsSkill DEF BaseInv, OverrideInv, IdsOf
<1> QED
  BY <1>1, <1>2

LEMMA FindKeepsOverride ==
    ASSUME BaseInv, OverrideInv, NEW r \in Runs, Find(r) PROVE OverrideInv'
<1> DEFINE d == Oldest(todo[r])
           found == SkillsFor(d, batch[r][d], Visible(r))
<1>1. CASE found = {}
  BY <1>1 DEF Find, Goto, table, BaseInv, TypeOK, OverrideInv, IdsOf
<1>2. CASE found # {}
  <2>1. PICK k \in found : loaded' = [loaded EXCEPT ![r] = Put(Nothing, k, Visible(r)[k])]
    BY <1>2 DEF Find
  <2>2. k \in RowIds /\ Visible(r)[k] \in Skill
    BY <2>1, FoundIsSkill DEF BaseInv
  <2>3. DOMAIN loaded'[r] = {k} /\ loaded'[r][k] = Visible(r)[k]
    BY <2>1 DEF Put, Nothing, BaseInv, TypeOK
  <2>4. \A q \in Runs \ {r} : loaded'[q] = loaded[q]
    BY <2>1 DEF BaseInv, TypeOK
  <2>5. pc' = [pc EXCEPT ![r] = "tags"] /\ UNCHANGED <<skills, draft>>
    BY <1>2 DEF Find, Goto, table
  <2> QED
    BY <2>2, <2>3, <2>4, <2>5, SeenIsKept DEF BaseInv, TypeOK, OverrideInv, IdsOf
<1> QED
  BY <1>1, <1>2

\* A row in a draft that is settled as the committed one is, and kept if so.
LEMMA DraftKeepsOverride ==
    ASSUME BaseInv, OverrideInv, NEW r \in Runs, NEW k \in RowIds, NEW row \in Skill,
           draft' = [draft EXCEPT ![r] = Put(@, k, row)],
           \A q \in Runs \ {r} : k \notin DOMAIN draft[q],
           row.settled => Kept(row),
           row.settled <=> (skills[k] # NoRow /\ skills[k].settled),
           skills' = skills,
           \A q \in Runs : \A j \in DOMAIN loaded'[q] :
               j \in DOMAIN loaded[q] /\ loaded'[q][j] = loaded[q][j],
           \A q \in Runs : pc'[q] = "fill" => pc[q] = "fill"
    PROVE  OverrideInv'
<1>0. /\ DOMAIN draft'[r] = DOMAIN draft[r] \cup {k} /\ draft'[r][k] = row
      /\ \A j \in DOMAIN draft[r] \ {k} : draft'[r][j] = draft[r][j]
      /\ \A q \in Runs \ {r} : draft'[q] = draft[q]
  <2>1. draft'[r] = Put(draft[r], k, row) /\ \A q \in Runs \ {r} : draft'[q] = draft[q]
    BY DEF BaseInv, TypeOK
  <2> QED
    BY <2>1 DEF Put
<1>1. ASSUME NEW q \in Runs, NEW j \in DOMAIN draft'[q]
      PROVE  /\ draft'[q][j].settled => Kept(draft'[q][j])
             /\ draft'[q][j].settled <=> (skills'[j] # NoRow /\ skills'[j].settled)
  <2>1. CASE q = r /\ j = k
    BY <1>0, <2>1
  <2>2. CASE q # r \/ j # k
    <3>1. j \in DOMAIN draft[q] /\ draft'[q][j] = draft[q][j]
      BY <1>0, <2>2
    <3> QED
      BY <3>1 DEF OverrideInv
  <2> QED
    BY <2>1, <2>2
<1> QED
  BY <1>1 DEF OverrideInv, IdsOf

LEMMA InsertKeepsOverride ==
    ASSUME BaseInv, OverrideInv, NEW r \in Runs, Insert(r) PROVE OverrideInv'
<1>1. CASE SlugTaken(slug[r], Visible(r))
  BY <1>1, LoseKeepsOverride DEF Insert
<1>2. CASE ~SlugTaken(slug[r], Visible(r))
  <2> DEFINE row == [slug |-> slug[r], url |-> slug[r].url, name |-> slug[r].name,
                     score |-> "computed", level |-> "computed",
                     override |-> FALSE, by |-> "batch", settled |-> FALSE]
  <2>1. PICK k \in FreeIds : draft' = [draft EXCEPT ![r] = Put(@, k, row)]
    BY <1>2 DEF Insert
  <2>2. row \in Skill /\ ~row.settled
    BY DEF Insert, BaseInv, Ordered, Slugs, Skill, TrustValues
  <2>3. k \in RowIds /\ skills[k] = NoRow /\ \A q \in Runs : k \notin DOMAIN draft[q]
    BY <2>1 DEF FreeIds, Locked
  <2> HIDE DEF row
  <2>4. pc' = [pc EXCEPT ![r] = "tags"] /\ UNCHANGED <<skills, loaded>>
    BY <1>2 DEF Insert, Goto, table
  <2>5. \A q \in Runs : pc'[q] = "fill" => pc[q] = "fill"
    BY <2>4 DEF BaseInv, TypeOK
  <2> QED
    BY <2>1, <2>2, <2>3, <2>4, <2>5, DraftKeepsOverride
<1> QED
  BY <1>1, <1>2

LEMMA WriteKeepsOverride ==
    ASSUME BaseInv, OverrideInv, NEW r \in Runs, Write(r) PROVE OverrideInv'
<1>1. CASE Lose(r)
  BY <1>1, LoseKeepsOverride DEF Write
<1>2. CASE ~Lose(r)
  <2> DEFINE d == Oldest(todo[r])
  <2>1. /\ pc'[r] \in {"commit", "find"} /\ \A q \in Runs \ {r} : pc'[q] = pc[q]
        /\ loaded' = [loaded EXCEPT ![r] = Nothing] /\ UNCHANGED skills
    BY <1>2 DEF Write, Goto, table, BaseInv, TypeOK
  <2>2. CASE draft' = draft
    BY <2>1, <2>2, RowIsSkill DEF BaseInv, TypeOK, OverrideInv, IdsOf
  <2>3. ASSUME NEW k \in DOMAIN loaded[r], NEW fs \in MayWrite(loaded[r][k]),
               k \in RowIds /\ loaded[r][k] \in Skill /\ Visible(r)[k] \in Skill,
               \A q \in Runs \ {r} : k \notin DOMAIN draft[q],
               draft' = [draft EXCEPT ![r] = Put(@, k,
                   Updated(Visible(r)[k], loaded[r][k], d, batch[r][d], fs))]
        PROVE  OverrideInv'
    <3> DEFINE row == Updated(Visible(r)[k], loaded[r][k], d, batch[r][d], fs)
    <3>1. /\ row \in Skill /\ row.settled = Visible(r)[k].settled
          /\ Kept(Visible(r)[k]) /\ Kept(loaded[r][k]) => Kept(row)
      BY <1>2, <2>3, WriteIs, UpdatedIsSkill DEF MayWrite
    <3>2. /\ row.settled <=> skills[k] # NoRow /\ skills[k].settled
          /\ row.settled => Kept(row)
      BY <2>3, <3>1, SeenIsKept DEF OverrideInv
    <3> HIDE DEF row
    <3>3. draft' = [draft EXCEPT ![r] = Put(@, k, row)]
      BY <2>3 DEF row
    <3>4. \A q \in Runs : \A j \in DOMAIN loaded'[q] :
              j \in DOMAIN loaded[q] /\ loaded'[q][j] = loaded[q][j]
      BY <2>1, RowIsSkill DEF BaseInv, TypeOK
    <3>5. /\ k \in RowIds /\ \A q \in Runs \ {r} : k \notin DOMAIN draft[q]
          /\ skills' = skills /\ \A q \in Runs : pc'[q] = "fill" => pc[q] = "fill"
      BY <2>1, <2>3
    <3>6. row \in Skill
      BY <3>1
    <3> QED
      BY <3>2, <3>3, <3>4, <3>5, <3>6, DraftKeepsOverride
  <2> QED
    BY <1>2, <2>2, <2>3, WriteIs
<1> QED
  BY <1>1, <1>2

LEMMA CommitKeepsOverride ==
    ASSUME BaseInv, OverrideInv, NEW r \in Runs, Commit(r) PROVE OverrideInv'
<1>1. /\ skills' = Visible(r) /\ draft' = [draft EXCEPT ![r] = Nothing]
      /\ pc' = [pc EXCEPT ![r] = "trust"] /\ UNCHANGED loaded
  BY DEF Commit, Goto
<1>2. \A k \in IdsOf(skills') : skills'[k].settled => Kept(skills'[k])
  BY <1>1, SeenIsKept, VisibleIsTable, RowIsSkill DEF BaseInv
<1>3. ASSUME NEW q \in Runs, NEW k \in DOMAIN draft'[q]
      PROVE  /\ draft'[q][k].settled => Kept(draft'[q][k])
             /\ draft'[q][k].settled <=> (skills'[k] # NoRow /\ skills'[k].settled)
  <2>1. q # r /\ draft'[q] = draft[q]
    BY <1>1, RowIsSkill DEF BaseInv, TypeOK
  <2>2. k \in RowIds /\ k \notin DOMAIN draft[r]
    BY <2>1 DEF BaseInv, TypeOK, Ordered
  <2>3. skills'[k] = skills[k]
    BY <1>1, <2>2, VisibleIsTable DEF BaseInv
  <2> QED
    BY <2>1, <2>3 DEF OverrideInv
<1>4. ASSUME NEW q \in Runs, NEW k \in DOMAIN loaded'[q]
      PROVE  /\ skills'[k] # NoRow /\ skills'[k].settled => Kept(loaded'[q][k])
             /\ pc'[q] = "fill" => ~Kept(loaded'[q][k])
  <2>1. k \in RowIds /\ loaded'[q] = loaded[q]
    BY <1>1 DEF BaseInv, TypeOK
  <2>2. skills'[k] # NoRow /\ skills'[k].settled => skills[k] # NoRow /\ skills[k].settled
    BY <1>1, <2>1, SeenIsKept, VisibleIsTable DEF BaseInv
  <2>3. pc'[q] = "fill" => pc[q] = "fill"
    BY <1>1 DEF BaseInv, TypeOK
  <2> QED
    BY <2>1, <2>2, <2>3 DEF OverrideInv
<1> QED
  BY <1>2, <1>3, <1>4 DEF OverrideInv

\* A row with an empty trust field is not kept, so the backfill has not seen a
\* settled one.
LEMMA FillKeepsOverride ==
    ASSUME BaseInv, OverrideInv, NEW r \in Runs, StartFill(r) \/ Fill(r) PROVE OverrideInv'
<1>1. CASE StartFill(r)
  <2>1. /\ \E ks \in SUBSET Untrusted(skills) :
               loaded' = [loaded EXCEPT ![r] = [k \in ks |-> skills[k]]]
        /\ UNCHANGED <<skills, draft>> /\ \A q \in Runs \ {r} : pc'[q] = pc[q]
    BY <1>1 DEF StartFill, Selected, Goto, table, BaseInv, TypeOK
  <2>2. \A k \in Untrusted(skills) : k \in IdsOf(skills) /\ ~Kept(skills[k])
    BY DEF Untrusted, EmptyTrust, TrustFields, Kept
  <2> QED
    BY <2>1, <2>2 DEF BaseInv, TypeOK, OverrideInv, IdsOf
<1>2. CASE Fill(r)
  <2>1. loaded' = [loaded EXCEPT ![r] = Nothing] /\ pc' = [pc EXCEPT ![r] = "idle"] /\ UNCHANGED draft
    BY <1>2 DEF Fill, Goto
  <2>2. \A q \in Runs : DOMAIN loaded[r] \cap DOMAIN draft[q] = {}
    BY <1>2, RowIsSkill DEF Fill, Locked, Others, BaseInv, Ordered
  <2>3. CASE skills' = skills
    BY <2>1, <2>3, RowIsSkill DEF BaseInv, TypeOK, OverrideInv, IdsOf
  <2>4. ASSUME ~\E k \in DOMAIN loaded[r] : skills[k] = NoRow,
               NEW written \in [DOMAIN loaded[r] -> SUBSET TrustFields],
               skills' = [k \in RowIds |->
                   IF k \in DOMAIN loaded[r]
                   THEN Trusted(skills[k], written[k], "computed") ELSE skills[k]]
        PROVE  OverrideInv'
    <3>1. ASSUME NEW k \in DOMAIN loaded[r]
          PROVE  skills'[k] \in Skill /\ ~skills'[k].settled /\ k \in RowIds
      <4>1. k \in RowIds /\ skills[k] \in Skill /\ skills[k] # NoRow
        BY <2>4 DEF BaseInv, TypeOK
      <4>2. ~skills[k].settled
        BY <1>2, <4>1 DEF OverrideInv, Fill
      <4> QED
        BY <2>4, <4>1, <4>2, TrustedIsSkill DEF TrustValues
    <3>2. \A k \in RowIds : k \notin DOMAIN loaded[r] => skills'[k] = skills[k]
      BY <2>4
    <3> QED
      BY <2>1, <2>2, <3>1, <3>2, RowIsSkill DEF BaseInv, TypeOK, OverrideInv, IdsOf
  <2> QED
    BY <1>2, <2>3, <2>4 DEF Fill
<1> QED
  BY <1>1, <1>2

LEMMA OverrideStep == BaseInv /\ OverrideInv /\ [Next]_vars => OverrideInv'
<1> SUFFICES ASSUME BaseInv, OverrideInv, [Next]_vars PROVE OverrideInv'
  OBVIOUS
<1>1. CASE UNCHANGED <<skills, draft, loaded, pc>>
  BY <1>1 DEF OverrideInv, IdsOf
<1>2. CASE \E d \in Docs : Arrive(d)
  BY <1>1, <1>2 DEF Arrive, table, memory
<1>3. CASE \E p \in Payloads : Create(p.slug, p.url, p.tags)
  <2>1. \E k \in RowIds : TRUE
    BY <1>3 DEF Create, FreeIds
  <2> QED
    BY <1>3, <2>1, RequestsKeepOverride
<1>4. CASE \E k \in RowIds : Delete(k) \/ \E given \in SUBSET TrustFields : Override(k, given)
  BY <1>4, RequestsKeepOverride
<1>5. ASSUME NEW r \in Runs, RunStep(r) PROVE OverrideInv'
  <2>1. CASE StartBatch(r) \/ ChooseSlug(r) \/ LookUpTags(r)
    BY <2>1 DEF StartBatch, ChooseSlug, LookUpTags, Goto, table, BaseInv, TypeOK, OverrideInv, IdsOf
  <2> QED
    BY <1>5, <2>1, FindKeepsOverride, InsertKeepsOverride, WriteKeepsOverride,
       CommitKeepsOverride, FillKeepsOverride, LoseKeepsOverride DEF RunStep, BreakDeadlock
<1>6. ASSUME NEW r \in Runs, Fail(r) PROVE OverrideInv'
  BY <1>6, LoseKeepsOverride DEF Fail
<1>7. CASE UNCHANGED vars
  BY <1>1, <1>7 DEF vars, table, memory
<1> QED
  BY <1>2, <1>3, <1>4, <1>5, <1>6, <1>7 DEF Next

\* An administrator's score and level, given while no run had the skill loaded,
\* stay (override_skill_trust, against parse batches and the trust backfill).
THEOREM OverridesHold == Spec => []OverrideHolds
<1>1. OverrideInv => OverrideHolds
  BY DEF OverrideInv, OverrideHolds, Kept, TrustFields
<1> QED
  BY <1>1, BaseInit, BaseStep, OverrideInit, OverrideStep, PTL DEF Spec

(***************************************************************************)
(* Copies                                                                  *)
(***************************************************************************)
LEMMA CopyInit == Init => CopyInv /\ \A d : Copies(d) = {}
<1> SUFFICES ASSUME Init PROVE CopyInv /\ \A d : Copies(d) = {}
  OBVIOUS
<1>1. \A r \in Runs : DOMAIN draft[r] = {} /\ DOMAIN loaded[r] = {} /\ todo[r] = {}
  BY DEF Init, Nothing
<1>2. CopyInv
  <2>1. \A r \in Runs : \A d : Fresh(r, d) = {}
    BY <1>1 DEF Fresh
  <2> QED
    BY <1>1, <2>1 DEF CopyInv
<1>3. ASSUME NEW d PROVE Copies(d) = {}
  <2>1. \A k \in RowIds : ~Copy(skills[k], d)
    BY DEF Init, Copy
  <2> QED
    BY <2>1 DEF Copies
<1> QED
  BY <1>2, <1>3

\* What holds of the other runs at a step of run r, or of all at a request: they
\* hold what they held, and the rows they have written stay as they are.
Aside(q) ==
    /\ pc'[q] = pc[q] /\ todo'[q] = todo[q] /\ loaded'[q] = loaded[q] /\ draft'[q] = draft[q]
    /\ \A k \in DOMAIN draft[q] : skills'[k] = skills[k]
    /\ \A k \in DOMAIN loaded[q] :
        skills'[k] # NoRow => \/ skills'[k].url \in Docs
                              \/ skills[k] # NoRow /\ skills'[k].url = skills[k].url

CopiesOf(q) ==
    /\ \A d \in Docs :
        /\ \A j, k \in Fresh(q, d) : j = k
        /\ d \in todo[q] /\ ~Inserted(q, d) => Fresh(q, d) = {}
    /\ \A k \in DOMAIN draft[q] : draft[q][k].url \in Docs
    /\ \A k \in DOMAIN loaded[q] :
        /\ k \in DOMAIN draft[q]
               => loaded[q][k] = draft[q][k] /\ loaded[q][k].url = Oldest(todo[q])
        /\ k \notin DOMAIN draft[q] /\ loaded[q][k].url \in Docs /\ skills[k] # NoRow
               => skills[k].url \in Docs

LEMMA CopyInvIs == CopyInv <=> \A q \in Runs : CopiesOf(q)
  BY DEF CopyInv, CopiesOf

LEMMA AsideKeepsCopies ==
    ASSUME NEW q \in Runs, CopiesOf(q), Aside(q)
    PROVE  CopiesOf(q)' /\ \A d : q \in Adders(d)' => q \in Adders(d)
<1>1. \A d : Fresh(q, d)' = Fresh(q, d)
  BY DEF Aside, Fresh, Copy
<1>2. \A d : Inserted(q, d)' <=> Inserted(q, d)
  BY DEF Aside, Inserted
<1>3. \A d : (Hides(q, d)' <=> Hides(q, d)) /\ (Finding(q, d)' <=> Finding(q, d))
  BY DEF Aside, Hides, Finding, Copy
<1>4. CopiesOf(q)'
  BY <1>1, <1>2 DEF Aside, CopiesOf
<1> QED
  BY <1>1, <1>3, <1>4 DEF Adders

\* Committed copies and adders become fewer, or stay.
Fewer(d) == Copies(d)' \subseteq Copies(d) /\ Adders(d)' \subseteq Adders(d)

LEMMA CountsAreFinite ==
    ASSUME NEW d
    PROVE  /\ IsFiniteSet(Copies(d)) /\ Cardinality(Copies(d)) \in Nat
           /\ IsFiniteSet(Adders(d)) /\ Cardinality(Adders(d)) \in Nat
           /\ Cardinality(Adders(d)) <= Cardinality(Runs) /\ Cardinality(Runs) \in Nat
<1>1. IsFiniteSet(RowIds) /\ Copies(d) \subseteq RowIds
  BY BoundsAssumption, FS_Interval DEF RowIds, Copies
<1>2. IsFiniteSet(Runs) /\ Adders(d) \subseteq Runs
  BY BoundsAssumption DEF Adders
<1> QED
  BY <1>1, <1>2, FS_Subset, FS_CardinalityType

LEMMA FewerKeepsCount ==
    ASSUME NEW d \in Docs, Cardinality(Copies(d)) + Cardinality(Adders(d)) <= Cardinality(Runs),
           Fewer(d)
    PROVE  Cardinality(Copies(d)') + Cardinality(Adders(d)') <= Cardinality(Runs)
<1>1. /\ IsFiniteSet(Copies(d)) /\ Cardinality(Copies(d)) \in Nat
      /\ IsFiniteSet(Adders(d)) /\ Cardinality(Adders(d)) \in Nat /\ Cardinality(Runs) \in Nat
  BY CountsAreFinite
<1>2. ASSUME NEW C, NEW A, C \subseteq Copies(d), A \subseteq Adders(d)
      PROVE  Cardinality(C) + Cardinality(A) <= Cardinality(Runs)
  <2>1. /\ IsFiniteSet(C) /\ Cardinality(C) <= Cardinality(Copies(d))
        /\ IsFiniteSet(A) /\ Cardinality(A) <= Cardinality(Adders(d))
    BY <1>1, <1>2, FS_Subset
  <2>2. Cardinality(C) \in Nat /\ Cardinality(A) \in Nat
    BY <2>1, FS_CardinalityType
  <2> QED
    BY <1>1, <2>1, <2>2
<1> QED
  BY <1>2 DEF Fewer

\* A step of which run r is the actor, that makes nothing of r an adder and
\* takes no copy in.
LEMMA QuietStep ==
    ASSUME CopyInv, NEW r \in Runs, \A q \in Runs \ {r} : Aside(q), CopiesOf(r)',
           \A d \in Docs : r \in Adders(d)' => r \in Adders(d),
           \A d \in Docs : Copies(d)' \subseteq Copies(d)
    PROVE  CopyInv' /\ \A d \in Docs : Fewer(d)
<1>1. \A q \in Runs : CopiesOf(q)
  BY CopyInvIs
<1>2. \A q \in Runs \ {r} : CopiesOf(q)' /\ \A d : q \in Adders(d)' => q \in Adders(d)
  BY <1>1, AsideKeepsCopies
<1>3. CopyInv'
  <2>1. \A q \in Runs : CopiesOf(q)'
    BY <1>2
  <2> QED
    BY <2>1 DEF CopyInv, CopiesOf
<1>4. ASSUME NEW d \in Docs PROVE Adders(d)' \subseteq Adders(d)
  <2>1. Adders(d)' \subseteq Runs
    BY DEF Adders
  <2> QED
    BY <1>2, <2>1
<1> QED
  BY <1>3, <1>4 DEF Fewer

\* A step of which nobody is the actor.
LEMMA RequestStep ==
    ASSUME CopyInv, \A q \in Runs : Aside(q), \A d \in Docs : Copies(d)' \subseteq Copies(d)
    PROVE  CopyInv' /\ \A d \in Docs : Fewer(d)
<1>1. \A q \in Runs : CopiesOf(q)
  BY CopyInvIs
<1>2. \A q \in Runs : CopiesOf(q)' /\ \A d : q \in Adders(d)' => q \in Adders(d)
  BY <1>1, AsideKeepsCopies
<1>3. CopyInv'
  BY <1>2 DEF CopyInv, CopiesOf
<1>4. ASSUME NEW d \in Docs PROVE Adders(d)' \subseteq Adders(d)
  <2>1. Adders(d)' \subseteq Runs
    BY DEF Adders
  <2> QED
    BY <1>2, <2>1
<1> QED
  BY <1>3, <1>4 DEF Fewer

\* Without changes of the table the others are not concerned.
LEMMA OthersAside ==
    ASSUME NEW q \in Runs, pc'[q] = pc[q], todo'[q] = todo[q], loaded'[q] = loaded[q],
           draft'[q] = draft[q], skills' = skills
    PROVE  Aside(q)
  BY DEF Aside

LEMMA LoseKeepsCopies ==
    ASSUME BaseInv, CopyInv, NEW r \in Runs, Lose(r), UNCHANGED table
    PROVE  CopyInv' /\ \A d \in Docs : Fewer(d)
<1>1. /\ \A q \in Runs \ {r} : /\ pc'[q] = pc[q] /\ todo'[q] = todo[q]
                             /\ loaded'[q] = loaded[q] /\ draft'[q] = draft[q]
      /\ pc'[r] = "idle" /\ todo'[r] = {} /\ DOMAIN loaded'[r] = {} /\ DOMAIN draft'[r] = {}
      /\ skills' = skills
  BY RowIsSkill DEF Lose, Goto, table, BaseInv, TypeOK
<1>2. \A d : Fresh(r, d)' = {} /\ ~Finding(r, d)'
  BY <1>1 DEF Fresh, Finding, Publishing
<1>3. CopiesOf(r)'
  BY <1>1, <1>2 DEF CopiesOf
<1>4. \A d \in Docs : r \notin Adders(d)'
  BY <1>2 DEF Adders
<1>5. \A d \in Docs : Copies(d)' \subseteq Copies(d)
  BY <1>1 DEF Copies, Copy
<1> QED
  BY <1>1, <1>3, <1>4, <1>5, OthersAside, QuietStep

LEMMA RequestsKeepCopies ==
    ASSUME BaseInv, CopyInv, NEW k \in RowIds,
           Delete(k)
             \/ (\E given \in SUBSET TrustFields : Override(k, given))
             \/ (\E p \in Payloads : Create(p.slug, p.url, p.tags))
    PROVE  CopyInv' /\ \A d \in Docs : Fewer(d)
<1>1. UNCHANGED <<pc, todo, draft, loaded>>
  BY DEF Delete, Override, Create, Request, memory
<1>2. ASSUME NEW j \in RowIds, NEW row, skills' = [skills EXCEPT ![j] = row],
             \A q \in Runs : j \notin DOMAIN draft[q],
             \/ row = NoRow
             \/ skills[j] \in Skill /\ row.url = skills[j].url /\ row.by = skills[j].by
             \/ row.by = "admin" /\ \A q \in Runs : j \notin DOMAIN loaded[q]
      PROVE  CopyInv' /\ \A d \in Docs : Fewer(d)
  <2>1. skills'[j] = row /\ \A i \in RowIds \ {j} : skills'[i] = skills[i]
    BY <1>2 DEF BaseInv, TypeOK
  <2>2. ASSUME NEW q \in Runs PROVE Aside(q)
    BY <1>1, <1>2, <2>1, RowIsSkill DEF Aside, BaseInv, TypeOK
  <2>3. ASSUME NEW d \in Docs, NEW i \in Copies(d)' PROVE i \in Copies(d)
    BY <1>2, <2>1, <2>3, RowIsSkill DEF Copies, Copy
  <2> QED
    BY <2>2, <2>3, RequestStep
<1>3. CASE Delete(k)
  BY <1>2, <1>3 DEF Delete, Locked
<1>4. ASSUME NEW given \in SUBSET TrustFields, Override(k, given)
      PROVE  CopyInv' /\ \A d \in Docs : Fewer(d)
  <2> DEFINE row == [Trusted(skills[k], given, "admin") EXCEPT !.override = TRUE,
        !.settled = given = TrustFields /\ \A r \in Runs : k \notin DOMAIN loaded[r]]
  <2>1. skills' = [skills EXCEPT ![k] = row] /\ \A r \in Runs : k \notin DOMAIN draft[r]
    BY <1>4 DEF Override, Locked
  <2>2. skills[k] \in Skill
    BY <1>4, RowIsSkill DEF Override, BaseInv, TypeOK
  <2>3. row.url = skills[k].url /\ row.by = skills[k].by
    <3>1. /\ Trusted(skills[k], given, "admin") \in Skill
          /\ Trusted(skills[k], given, "admin").url = skills[k].url
          /\ Trusted(skills[k], given, "admin").by = skills[k].by
      BY <2>2, TrustedIsSkill DEF TrustValues
    <3> QED
      BY <3>1 DEF Skill
  <2> HIDE DEF row
  <2> QED
    BY <1>2, <2>1, <2>2, <2>3
<1>5. ASSUME NEW p \in Payloads, Create(p.slug, p.url, p.tags)
      PROVE  CopyInv' /\ \A d \in Docs : Fewer(d)
  <2> DEFINE row == [slug |-> p.slug, url |-> p.url, name |-> p.slug.name, score |-> "none",
         level |-> "none", override |-> FALSE, by |-> "admin", settled |-> FALSE]
  <2>1. PICK j \in FreeIds : skills' = [skills EXCEPT ![j] = row]
    BY <1>5 DEF Create
  <2>2. j \in RowIds /\ \A r \in Runs : j \notin DOMAIN draft[r] /\ j \notin DOMAIN loaded[r]
    BY <2>1 DEF FreeIds, Locked
  <2>3. row.by = "admin"
    OBVIOUS
  <2> HIDE DEF row
  <2> QED
    BY <1>2, <2>1, <2>2, <2>3
<1> QED
  BY <1>3, <1>4, <1>5

\* A run that turns to the next step of its document adds what it would have.
LEMMA TurnsKeepCopies ==
    ASSUME BaseInv, CopyInv, NEW r \in Runs,
           StartBatch(r) \/ ChooseSlug(r) \/ LookUpTags(r) \/ StartFill(r)
    PROVE  CopyInv' /\ \A d \in Docs : Fewer(d)
<1>1. UNCHANGED <<skills, draft>>
  BY DEF StartBatch, ChooseSlug, LookUpTags, StartFill, table
<1>2. \A q \in Runs \ {r} : Aside(q)
  BY <1>1, OthersAside
  DEF StartBatch, ChooseSlug, LookUpTags, StartFill, Goto, BaseInv, TypeOK
<1>3. \A d \in Docs : Copies(d)' \subseteq Copies(d)
  BY <1>1 DEF Copies, Copy
<1>4. \A d : (Fresh(r, d)' = Fresh(r, d)) /\ (Hides(r, d)' <=> Hides(r, d))
  BY <1>1 DEF Fresh, Hides, Copy
<1>5. CASE StartBatch(r) \/ StartFill(r)
  <2>1. DOMAIN draft[r] = {} /\ pc'[r] \in {"find", "commit", "idle", "fill"}
    BY <1>5, RowIsSkill DEF StartBatch, StartFill, Goto, BaseInv, TypeOK, Ordered
  <2>2. \A d : Fresh(r, d) = {} /\ ~Finding(r, d)'
    BY <2>1 DEF Fresh, Finding, Publishing
  <2>3. \A k \in DOMAIN loaded'[r] : loaded'[r][k].url \in Docs => skills[k].url \in Docs
    BY <1>5, RowIsSkill DEF StartBatch, StartFill, BaseInv, TypeOK, Ordered
  <2>4. CopiesOf(r)'
    BY <1>1, <1>4, <2>1, <2>2, <2>3 DEF CopiesOf
  <2>5. \A d \in Docs : r \notin Adders(d)'
    BY <1>4, <2>2 DEF Adders
  <2> QED
    BY <1>2, <1>3, <2>4, <2>5, QuietStep
<1>6. CASE ChooseSlug(r) \/ LookUpTags(r)
  <2>1. /\ todo' = todo /\ loaded' = loaded
        /\ \/ pc[r] = "slug" /\ pc'[r] = "insert"
           \/ pc[r] = "tags" /\ pc'[r] = "write"
    BY <1>6 DEF ChooseSlug, LookUpTags, Goto, BaseInv, TypeOK
  <2>2. \A d : (Finding(r, d)' <=> Finding(r, d)) /\ (Inserted(r, d)' <=> Inserted(r, d))
    BY <2>1 DEF Finding, Inserted, Publishing
  <2>3. CopiesOf(r)'
    BY <1>1, <1>4, <2>1, <2>2, CopyInvIs DEF CopiesOf
  <2>4. \A d \in Docs : r \in Adders(d)' => r \in Adders(d)
    BY <1>4, <2>2 DEF Adders
  <2> QED
    BY <1>2, <1>3, <2>3, <2>4, QuietStep
<1> QED
  BY <1>5, <1>6

\* A run that sees no row with the URL of d hides all the copies there are.
LEMMA UnseenIsHidden ==
    ASSUME BaseInv, NEW r \in Runs, NEW d, NEW c \in Copies(d),
           \A k \in IdsOf(Visible(r)) : Visible(r)[k].url # d
    PROVE  Hides(r, d)
<1>1. c \in RowIds /\ skills[c] # NoRow /\ skills[c].url = d /\ Copy(skills[c], d)
  BY DEF Copies, Copy
<1>2. CASE c \notin DOMAIN draft[r]
  BY <1>1, <1>2, VisibleIsTable DEF BaseInv, IdsOf
<1>3. CASE c \in DOMAIN draft[r]
  <2>1. Visible(r)[c] = draft[r][c] /\ draft[r][c] # NoRow
    BY <1>3, VisibleIsTable, RowIsSkill DEF BaseInv, TypeOK
  <2>2. draft[r][c].url # d
    BY <1>1, <2>1 DEF IdsOf
  <2> QED
    BY <1>1, <1>3, <2>2 DEF Hides, Copy
<1> QED
  BY <1>2, <1>3

LEMMA FindKeepsCopies ==
    ASSUME BaseInv, CopyInv, NEW r \in Runs, Find(r)
    PROVE  CopyInv' /\ \A d \in Docs : Fewer(d) \/ Copies(d)' = {}
<1>0. PICK e : e = Oldest(todo[r])
  OBVIOUS
<1> DEFINE found == SkillsFor(e, batch[r][e], Visible(r))
           Unseen == \A k \in IdsOf(Visible(r)) : Visible(r)[k].url # e
<1>1. UNCHANGED <<skills, draft, todo>> /\ pc[r] = "find"
  BY DEF Find, table
<1>2. \A q \in Runs \ {r} : Aside(q)
  BY <1>1, OthersAside DEF Find, Goto, BaseInv, TypeOK
<1>3. \A d : (Fresh(r, d)' = Fresh(r, d)) /\ (Hides(r, d)' <=> Hides(r, d))
  BY <1>1 DEF Fresh, Hides, Copy
<1>4. \A d : Copies(d)' = Copies(d)
  BY <1>1 DEF Copies, Copy
<1>5. \A d \in Docs : d \in todo[r] => Fresh(r, d) = {}
  BY <1>1, CopyInvIs DEF CopiesOf, Inserted
<1>6. \A d : d # e => ~Finding(r, d)'
  BY <1>0, <1>1 DEF Finding
<1>7. /\ Unseen \/ ~Finding(r, e)'
      /\ \A k \in DOMAIN loaded'[r] :
          /\ k \in DOMAIN draft[r] => loaded'[r][k] = draft[r][k] /\ loaded'[r][k].url = e
          /\ k \notin DOMAIN draft[r] => loaded'[r][k] = skills[k]
  <2>1. CASE found = {}
    <3>1. Unseen
      BY <2>1 DEF SkillsFor
    <3>2. loaded'[r] = Nothing
      BY <1>0, <1>1, <2>1 DEF Find, BaseInv, Ordered
    <3>3. DOMAIN loaded'[r] = {}
      BY <3>2, RowIsSkill
    <3> QED
      BY <3>1, <3>3
  <2>2. CASE found # {}
    <3>1. PICK k \in found : loaded' = [loaded EXCEPT ![r] = Put(Nothing, k, Visible(r)[k])]
      BY <1>0, <2>2 DEF Find
    <3>2. k \in RowIds /\ (Visible(r)[k].url = e \/ (Visible(r)[k].url = Repo /\ Unseen))
      BY <3>1, FoundIsSkill DEF BaseInv
    <3>3. k \in DOMAIN draft[r] => Visible(r)[k].url \in Docs /\ Visible(r)[k].url # Repo
      BY VisibleIsTable, CopyInvIs, DocsAssumption DEF BaseInv, CopiesOf, Repo
    <3>4. DOMAIN loaded'[r] = {k} /\ loaded'[r][k] = Visible(r)[k]
      BY <3>1 DEF Put, Nothing, BaseInv, TypeOK
    <3>5. pc'[r] = "tags"
      BY <1>0, <2>2 DEF Find, Goto, BaseInv, TypeOK
    <3>6. Visible(r)[k].url = e => ~Finding(r, e)'
      BY <3>4, <3>5 DEF Finding, Publishing
    <3> QED
      BY <3>2, <3>3, <3>4, <3>6, VisibleIsTable DEF BaseInv
  <2> QED
    BY <2>1, <2>2
<1> HIDE DEF found
<1>8. CopiesOf(r)'
  BY <1>0, <1>1, <1>3, <1>5, <1>7, CopyInvIs DEF CopiesOf
<1>9. CopyInv' /\ \A d \in Docs : (r \in Adders(d)' => r \in Adders(d)) => Fewer(d)
  <2>1. \A q \in Runs \ {r} : CopiesOf(q)' /\ \A d : q \in Adders(d)' => q \in Adders(d)
    BY <1>2, AsideKeepsCopies, CopyInvIs
  <2>2. CopyInv'
    BY <1>8, <2>1 DEF CopyInv, CopiesOf
  <2>3. \A d \in Docs : Adders(d)' \subseteq Runs
    BY DEF Adders
  <2> QED
    BY <1>4, <2>1, <2>2, <2>3 DEF Fewer
<1>10. ASSUME NEW d \in Docs PROVE Fewer(d) \/ Copies(d)' = {}
  <2>1. CASE ~Finding(r, d)'
    BY <1>3, <1>9, <2>1 DEF Adders
  <2>2. CASE Finding(r, d)' /\ Copies(d) # {}
    <3>1. d = e /\ Unseen
      BY <1>6, <1>7, <2>2
    <3>2. Hides(r, d)
      BY <2>2, <3>1, UnseenIsHidden
    <3> QED
      BY <1>3, <1>9, <3>2 DEF Adders
  <2> QED
    BY <1>4, <2>1, <2>2
<1> QED
  BY <1>9, <1>10

LEMMA InsertKeepsCopies ==
    ASSUME BaseInv, CopyInv, NEW r \in Runs, Insert(r)
    PROVE  CopyInv' /\ \A d \in Docs : Fewer(d)
<1>1. CASE SlugTaken(slug[r], Visible(r))
  BY <1>1, LoseKeepsCopies DEF Insert
<1>2. CASE ~SlugTaken(slug[r], Visible(r))
  <2>0. PICK e : e = Oldest(todo[r])
    OBVIOUS
  <2> DEFINE row == [slug |-> slug[r], url |-> slug[r].url, name |-> slug[r].name,
                     score |-> "computed", level |-> "computed",
                     override |-> FALSE, by |-> "batch", settled |-> FALSE]
  <2>1. PICK k \in FreeIds : draft' = [draft EXCEPT ![r] = Put(@, k, row)]
    BY <1>2 DEF Insert
  <2>2. row \in Skill /\ row.url = e
    BY <2>0 DEF Insert, BaseInv, Ordered, Slugs, Skill, TrustValues
  <2>3. /\ k \in RowIds /\ skills[k] = NoRow
        /\ \A q \in Runs : k \notin DOMAIN draft[q] /\ k \notin DOMAIN loaded[q]
    BY <2>1 DEF FreeIds, Locked
  <2>4. e \in todo[r] /\ e \in Docs
    BY <2>0, OldestIsIn DEF Insert, BaseInv, TypeOK, Ordered, Publishing
  <2> HIDE DEF row
  <2>5. /\ pc[r] = "insert" /\ pc' = [pc EXCEPT ![r] = "tags"]
        /\ UNCHANGED <<skills, loaded, todo>> /\ loaded[r] = Nothing
    BY <1>2 DEF Insert, Goto, table, BaseInv, Ordered
  <2>6. /\ DOMAIN draft'[r] = DOMAIN draft[r] \cup {k} /\ draft'[r][k] = row
        /\ \A j \in DOMAIN draft[r] : draft'[r][j] = draft[r][j]
        /\ \A q \in Runs \ {r} : draft'[q] = draft[q]
    <3>1. draft'[r] = Put(draft[r], k, row) /\ \A q \in Runs \ {r} : draft'[q] = draft[q]
      BY <2>1 DEF BaseInv, TypeOK
    <3> QED
      BY <2>3, <3>1 DEF Put
  <2>7. \A q \in Runs \ {r} : Aside(q)
    BY <2>5, <2>6, OthersAside DEF BaseInv, TypeOK
  <2>8. \A d : d # e => (Fresh(r, d)' = Fresh(r, d))
    BY <2>2, <2>5, <2>6 DEF Fresh, Copy
  <2>9. Fresh(r, e) = {} /\ Fresh(r, e)' \subseteq {k}
    <3>1. Fresh(r, e) = {}
      BY <2>4, <2>5, CopyInvIs DEF CopiesOf, Inserted
    <3> QED
      BY <2>5, <2>6, <3>1 DEF Fresh, Copy
  <2>10. Inserted(r, e)' /\ Finding(r, e)
    BY <2>0, <2>5 DEF Inserted, Finding, Publishing, BaseInv, TypeOK
  <2>11. CopiesOf(r)'
    <3>1. ASSUME NEW d \in Docs
          PROVE  /\ \A i, j \in Fresh(r, d)' : i = j
                 /\ d \in todo'[r] /\ ~Inserted(r, d)' => Fresh(r, d)' = {}
      <4>1. CASE d = e
        BY <2>9, <2>10, <4>1
      <4>2. CASE d # e
        BY <2>5, <2>8, <4>2, CopyInvIs DEF CopiesOf, Inserted
      <4> QED
        BY <4>1, <4>2
    <3>2. \A j \in DOMAIN draft'[r] : draft'[r][j].url \in Docs
      BY <2>2, <2>4, <2>6, CopyInvIs DEF CopiesOf
    <3> QED
      BY <2>5, <3>1, <3>2, RowIsSkill DEF CopiesOf
  <2>12. ASSUME NEW d \in Docs, r \in Adders(d)' PROVE r \in Adders(d)
    <3>1. ~Hides(r, d)
      BY <2>3, <2>5, <2>6, <2>12 DEF Adders, Hides, Copy
    <3>2. d # e => ~Finding(r, d)'
      BY <2>0, <2>5 DEF Finding
    <3> QED
      BY <2>8, <2>10, <2>12, <3>1, <3>2 DEF Adders
  <2>13. \A d \in Docs : Copies(d)' \subseteq Copies(d)
    BY <2>5 DEF Copies, Copy
  <2> QED
    BY <2>7, <2>11, <2>12, <2>13, QuietStep
<1> QED
  BY <1>1, <1>2

\* A row that is written for document e carries its URL, or another URL that it
\* has been given since it was read.
LEMMA WriteKeepsCopies ==
    ASSUME BaseInv, CopyInv, NEW r \in Runs, Write(r)
    PROVE  CopyInv' /\ \A d \in Docs : Fewer(d)
<1>1. CASE Lose(r)
  BY <1>1, LoseKeepsCopies DEF Write
<1>2. CASE ~Lose(r)
  <2>0. PICK e : e = Oldest(todo[r])
    OBVIOUS
  <2>1. /\ pc[r] = "write" /\ pc'[r] \in {"commit", "find"} /\ UNCHANGED skills
        /\ todo' = [todo EXCEPT ![r] = @ \ {e}] /\ loaded' = [loaded EXCEPT ![r] = Nothing]
        /\ \A q \in Runs \ {r} : pc'[q] = pc[q]
    BY <1>2, <2>0 DEF Write, Goto, table, BaseInv, TypeOK
  <2>2. e \in Docs
    BY <1>2, <2>0, WriteIs
  <2>3. /\ todo'[r] = todo[r] \ {e} /\ DOMAIN loaded'[r] = {}
        /\ \A q \in Runs \ {r} : todo'[q] = todo[q] /\ loaded'[q] = loaded[q]
    BY <2>1, RowIsSkill DEF BaseInv, TypeOK
  <2>4. \A d : ~Finding(r, d)'
    BY <2>1 DEF Finding, Publishing
  <2>5. \A d \in Docs : Copies(d)' \subseteq Copies(d)
    BY <2>1 DEF Copies, Copy
  <2>6. \A d \in Docs : d \in todo'[r] => Fresh(r, d) = {}
    BY <2>0, <2>3, CopyInvIs DEF CopiesOf, Inserted
  <2>7. ASSUME \A q \in Runs \ {r} : draft'[q] = draft[q],
               \A k \in DOMAIN draft'[r] : draft'[r][k].url \in Docs,
               \A d \in Docs : \/ Fresh(r, d)' = Fresh(r, d)
                               \/ d = e /\ \A j, k \in Fresh(r, d)' : j = k,
               \A d \in Docs : r \in Adders(d)' => r \in Adders(d)
        PROVE  CopyInv' /\ \A d \in Docs : Fewer(d)
    <3>1. \A q \in Runs \ {r} : Aside(q)
      BY <2>1, <2>3, <2>7, OthersAside
    <3>2. \A d \in Docs : /\ \A j, k \in Fresh(r, d)' : j = k
                          /\ d \in todo'[r] => Fresh(r, d)' = {}
      BY <2>3, <2>6, <2>7, CopyInvIs DEF CopiesOf
    <3>3. CopiesOf(r)'
      BY <2>3, <2>7, <3>2 DEF CopiesOf
    <3> QED
      BY <2>5, <2>7, <3>1, <3>3, QuietStep
  <2>8. CASE loaded[r] = Nothing /\ draft' = draft
    <3>1. \A d : (Fresh(r, d)' = Fresh(r, d)) /\ (Hides(r, d)' <=> Hides(r, d))
      BY <2>1, <2>8 DEF Fresh, Hides, Copy
    <3>2. \A d \in Docs : r \in Adders(d)' => r \in Adders(d)
      BY <2>4, <3>1 DEF Adders
    <3> QED
      BY <2>7, <2>8, <3>1, <3>2, CopyInvIs DEF CopiesOf
  <2>9. ASSUME NEW k \in DOMAIN loaded[r], NEW fs \in MayWrite(loaded[r][k]),
               k \in RowIds /\ loaded[r][k] \in Skill /\ Visible(r)[k] \in Skill,
               draft' = [draft EXCEPT ![r] = Put(@, k,
                   Updated(Visible(r)[k], loaded[r][k], e, batch[r][e], fs))]
        PROVE  CopyInv' /\ \A d \in Docs : Fewer(d)
    <3>0. PICK row : row = Updated(Visible(r)[k], loaded[r][k], e, batch[r][e], fs)
      OBVIOUS
    <3>1. /\ row \in Skill
          /\ row.url = IF loaded[r][k].url = e THEN Visible(r)[k].url ELSE e
          /\ row.by = IF loaded[r][k].url = e THEN Visible(r)[k].by ELSE "batch"
      <4>1. batch[r][e] \in Names
        BY <1>2, <2>0, WriteIs
      <4> QED
        BY <2>2, <2>9, <3>0, <4>1, UpdatedIsSkill DEF MayWrite
    <3>2. loaded[r][k].url # e => row.by = "batch"
      BY <3>1
    <3>3. /\ DOMAIN draft'[r] = DOMAIN draft[r] \cup {k} /\ draft'[r][k] = row
          /\ \A j \in DOMAIN draft[r] \ {k} : draft'[r][j] = draft[r][j]
          /\ \A q \in Runs \ {r} : draft'[q] = draft[q]
      <4>1. draft'[r] = Put(draft[r], k, row) /\ \A q \in Runs \ {r} : draft'[q] = draft[q]
        BY <2>9, <3>0 DEF BaseInv, TypeOK
      <4> QED
        BY <4>1 DEF Put
    <3>4. CASE loaded[r][k].url = e
      <4>1. /\ k \in DOMAIN draft[r] => draft[r][k] = Visible(r)[k]
            /\ k \notin DOMAIN draft[r] => skills[k] = Visible(r)[k]
        BY <2>9, VisibleIsTable DEF BaseInv
      <4>2. \A d : Copy(row, d) <=> Copy(Visible(r)[k], d)
        BY <2>9, <3>1, <3>4, RowIsSkill DEF Copy
      <4>3. \A d : Fresh(r, d)' = Fresh(r, d)
        BY <2>1, <3>3, <4>1, <4>2 DEF Fresh, Copy
      <4>4. \A d : Hides(r, d)' <=> Hides(r, d)
        BY <2>1, <3>3, <4>1, <4>2 DEF Hides, Copy
      <4>5. row.url \in Docs
        <5>1. CASE k \in DOMAIN draft[r]
          BY <3>1, <3>4, <4>1, <5>1, CopyInvIs DEF CopiesOf
        <5>2. CASE k \notin DOMAIN draft[r]
          BY <2>2, <2>9, <3>1, <3>4, <4>1, <5>2, CopyInvIs, RowIsSkill DEF CopiesOf
        <5> QED
          BY <5>1, <5>2
      <4>6. \A j \in DOMAIN draft'[r] : draft'[r][j].url \in Docs
        BY <3>3, <4>5, CopyInvIs DEF CopiesOf
      <4>7. \A d \in Docs : r \in Adders(d)' => r \in Adders(d)
        BY <2>4, <4>3, <4>4 DEF Adders
      <4> QED
        BY <2>7, <3>3, <4>3, <4>6, <4>7
    <3>5. CASE loaded[r][k].url # e
      <4>1. k \notin DOMAIN draft[r]
        BY <2>0, <3>5, CopyInvIs DEF CopiesOf
      <4>2. Fresh(r, e) = {} /\ Finding(r, e)
        <5>1. DOMAIN loaded[r] # {}
          OBVIOUS
        <5>2. ~Inserted(r, e) /\ e \in todo[r]
          BY <1>2, <2>0, <5>1, WriteIs, RowIsSkill DEF Inserted
        <5> QED
          BY <2>0, <2>1, <2>2, <3>5, <5>2, CopyInvIs DEF CopiesOf, Finding, Publishing
      <4>3. \A d : d # e => Fresh(r, d)' = Fresh(r, d)
        BY <2>1, <3>1, <3>3, <3>5, <4>1 DEF Fresh, Copy
      <4>4. \A j \in Fresh(r, e)' : j = k
        BY <2>1, <3>3, <4>1, <4>2 DEF Fresh, Copy
      <4>5. \A d : Hides(r, d) => Hides(r, d)'
        BY <2>1, <3>3, <4>1 DEF Hides, Copy
      <4>6. \A j \in DOMAIN draft'[r] : draft'[r][j].url \in Docs
        BY <2>2, <3>1, <3>3, <3>5, CopyInvIs DEF CopiesOf
      <4>7. \A d \in Docs : r \in Adders(d)' => r \in Adders(d)
        BY <2>4, <4>2, <4>3, <4>5 DEF Adders
      <4> QED
        BY <2>7, <3>3, <4>3, <4>4, <4>6, <4>7
    <3> QED
      BY <3>4, <3>5
  <2> QED
    BY <1>2, <2>0, <2>8, <2>9, WriteIs
<1> QED
  BY <1>1, <1>2

LEMMA FillKeepsCopies ==
    ASSUME BaseInv, CopyInv, NEW r \in Runs, Fill(r)
    PROVE  CopyInv' /\ \A d \in Docs : Fewer(d)
<1>1. /\ pc' = [pc EXCEPT ![r] = "idle"] /\ loaded' = [loaded EXCEPT ![r] = Nothing]
      /\ UNCHANGED <<draft, todo>> /\ DOMAIN draft[r] = {}
      /\ \A q \in Runs \ {r} : DOMAIN loaded[r] \cap DOMAIN draft[q] = {}
  BY RowIsSkill DEF Fill, Goto, Locked, Others, BaseInv, Ordered
<1>2. \A k \in RowIds :
          \/ skills'[k] = skills[k]
          \/ /\ k \in DOMAIN loaded[r] /\ skills[k] \in Skill /\ skills'[k] \in Skill
             /\ skills'[k].url = skills[k].url /\ skills'[k].by = skills[k].by
  <2>1. CASE skills' = skills
    BY <2>1
  <2>2. ASSUME ~\E k \in DOMAIN loaded[r] : skills[k] = NoRow,
               NEW written \in [DOMAIN loaded[r] -> SUBSET TrustFields],
               skills' = [k \in RowIds |->
                   IF k \in DOMAIN loaded[r]
                   THEN Trusted(skills[k], written[k], "computed") ELSE skills[k]],
               NEW k \in RowIds, k \in DOMAIN loaded[r]
        PROVE  /\ skills[k] \in Skill /\ skills'[k] \in Skill
               /\ skills'[k].url = skills[k].url /\ skills'[k].by = skills[k].by
    <3>1. skills[k] \in Skill
      BY <2>2 DEF BaseInv, TypeOK
    <3> QED
      BY <2>2, <3>1, TrustedIsSkill DEF TrustValues
  <2>3. ASSUME NEW written \in [DOMAIN loaded[r] -> SUBSET TrustFields],
               skills' = [k \in RowIds |->
                   IF k \in DOMAIN loaded[r]
                   THEN Trusted(skills[k], written[k], "computed") ELSE skills[k]],
               NEW k \in RowIds, k \notin DOMAIN loaded[r]
        PROVE  skills'[k] = skills[k]
    BY <2>3
  <2> QED
    BY <2>1, <2>2, <2>3 DEF Fill
<1>3. \A q \in Runs \ {r} : Aside(q)
  <2>1. ASSUME NEW q \in Runs \ {r} PROVE
            /\ \A k \in DOMAIN draft[q] : skills'[k] = skills[k]
            /\ \A k \in DOMAIN loaded[q] : skills'[k] # NoRow =>
                   skills[k] # NoRow /\ skills'[k].url = skills[k].url
    BY <1>1, <1>2, RowIsSkill DEF BaseInv, TypeOK
  <2> QED
    BY <1>1, <2>1 DEF Aside, BaseInv, TypeOK
<1>4. DOMAIN loaded'[r] = {} /\ DOMAIN draft'[r] = {} /\ pc'[r] = "idle"
  BY <1>1, RowIsSkill DEF BaseInv, TypeOK
<1>5. \A d : Fresh(r, d)' = {} /\ ~Finding(r, d)'
  BY <1>4 DEF Fresh, Finding, Publishing
<1>6. CopiesOf(r)' /\ \A d \in Docs : r \notin Adders(d)'
  BY <1>4, <1>5 DEF CopiesOf, Adders
<1>7. \A d \in Docs : Copies(d)' \subseteq Copies(d)
  BY <1>2, RowIsSkill DEF Copies, Copy
<1> QED
  BY <1>3, <1>6, <1>7, QuietStep

\* The commit adds the one copy the run has made.
LEMMA CommitKeepsCopies ==
    ASSUME BaseInv, CopyInv, NEW r \in Runs, Commit(r)
    PROVE  /\ CopyInv'
           /\ \A d \in Docs :
                /\ Adders(d)' \subseteq Adders(d) \ {r}
                /\ \/ Copies(d)' \subseteq Copies(d)
                   \/ \E k : Copies(d)' \subseteq Copies(d) \cup {k} /\ r \in Adders(d)
                   \/ \E j \in Copies(d) : \E k : Copies(d)' \subseteq (Copies(d) \ {j}) \cup {k}
<1>1. /\ pc'[r] = "trust" /\ todo'[r] = {} /\ DOMAIN draft'[r] = {} /\ DOMAIN loaded'[r] = {}
      /\ \A q \in Runs \ {r} : pc'[q] = pc[q] /\ todo'[q] = todo[q] /\ draft'[q] = draft[q]
      /\ loaded' = loaded /\ skills' = Visible(r)
  BY RowIsSkill DEF Commit, Goto, BaseInv, TypeOK, Ordered
<1>2. /\ \A k \in DOMAIN draft[r] : skills'[k] = draft[r][k]
      /\ \A k \in RowIds \ DOMAIN draft[r] : skills'[k] = skills[k]
  BY <1>1, VisibleIsTable DEF BaseInv
<1>3. ASSUME NEW q \in Runs \ {r} PROVE Aside(q)
  <2>1. \A k \in DOMAIN draft[q] : skills'[k] = skills[k]
    BY <1>2 DEF BaseInv, TypeOK, Ordered
  <2>2. \A k \in DOMAIN loaded[q] :
            skills'[k] # NoRow => \/ skills'[k].url \in Docs
                                  \/ skills[k] # NoRow /\ skills'[k].url = skills[k].url
    <3>1. \A k \in DOMAIN draft[r] : skills'[k].url \in Docs
      BY <1>2, CopyInvIs DEF CopiesOf
    <3>2. \A k \in DOMAIN loaded[q] : k \in RowIds
      BY DEF BaseInv, TypeOK
    <3> QED
      BY <1>2, <3>1, <3>2
  <2> QED
    BY <1>1, <2>1, <2>2 DEF Aside
<1>4. \A d : Fresh(r, d)' = {} /\ ~Finding(r, d)'
  BY <1>1 DEF Fresh, Finding, Publishing
<1>5. CopiesOf(r)'
  BY <1>1, <1>4 DEF CopiesOf
<1>6. \A q \in Runs \ {r} : CopiesOf(q)' /\ \A d : q \in Adders(d)' => q \in Adders(d)
  BY <1>3, AsideKeepsCopies, CopyInvIs
<1>7. CopyInv'
  BY <1>5, <1>6 DEF CopyInv, CopiesOf
<1>8. ASSUME NEW d \in Docs PROVE Adders(d)' \subseteq Adders(d) \ {r}
  <2>1. r \notin Adders(d)' /\ Adders(d)' \subseteq Runs
    BY <1>4 DEF Adders
  <2> QED
    BY <1>6, <2>1
<1>9. ASSUME NEW d \in Docs, NEW k \in Copies(d)' PROVE k \in Copies(d) \/ k \in Fresh(r, d)
  BY <1>2, <1>9 DEF Copies, Fresh
<1>10. ASSUME NEW d \in Docs
       PROVE  \/ Copies(d)' \subseteq Copies(d)
              \/ \E k : Copies(d)' \subseteq Copies(d) \cup {k} /\ r \in Adders(d)
              \/ \E j \in Copies(d) : \E k : Copies(d)' \subseteq (Copies(d) \ {j}) \cup {k}
  <2>1. CASE Fresh(r, d) = {}
    BY <1>9, <2>1
  <2>2. CASE Fresh(r, d) # {}
    <3>1. PICK k : Fresh(r, d) = {k}
      <4>1. PICK k : k \in Fresh(r, d)
        BY <2>2
      <4>2. \A j \in Fresh(r, d) : j = k
        BY <4>1, CopyInvIs DEF CopiesOf
      <4> QED
        BY <4>1, <4>2
    <3>2. CASE ~Hides(r, d)
      <4>1. r \in Adders(d)
        BY <2>2, <3>2 DEF Adders
      <4> QED
        BY <1>9, <3>1, <4>1
    <3>3. CASE Hides(r, d)
      <4>1. PICK j \in DOMAIN draft[r] : Copy(skills[j], d) /\ ~Copy(draft[r][j], d)
        BY <3>3 DEF Hides
      <4>2. j \in Copies(d) /\ j \notin Copies(d)'
        BY <1>2, <4>1 DEF Copies, BaseInv, TypeOK
      <4> QED
        BY <1>9, <3>1, <4>2
    <3> QED
      BY <3>2, <3>3
  <2> QED
    BY <2>1, <2>2
<1> QED
  BY <1>7, <1>8, <1>10

LEMMA AtMostOneMore ==
    ASSUME NEW C, NEW k, NEW D, IsFiniteSet(C), D \subseteq C \cup {k}
    PROVE  /\ IsFiniteSet(D) /\ Cardinality(C) \in Nat /\ Cardinality(D) \in Nat
           /\ Cardinality(D) <= Cardinality(C) + 1
<1>1. IsFiniteSet(C \cup {k}) /\ Cardinality(C) \in Nat
  BY FS_AddElement, FS_CardinalityType
<1>2. Cardinality(C \cup {k}) = IF k \in C THEN Cardinality(C) ELSE Cardinality(C) + 1
  BY FS_AddElement
<1>3. IsFiniteSet(D) /\ Cardinality(D) <= Cardinality(C \cup {k})
  BY <1>1, FS_Subset
<1>4. Cardinality(D) \in Nat
  BY <1>3, FS_CardinalityType
<1> QED
  BY <1>1, <1>2, <1>3, <1>4

LEMMA OneFewer ==
    ASSUME NEW C, NEW k \in C, NEW D, IsFiniteSet(C), D \subseteq C \ {k}
    PROVE  /\ IsFiniteSet(D) /\ Cardinality(C) \in Nat /\ Cardinality(D) \in Nat
           /\ Cardinality(D) <= Cardinality(C) - 1
<1>1. IsFiniteSet(C \ {k}) /\ Cardinality(C \ {k}) = Cardinality(C) - 1 /\ Cardinality(C) \in Nat
  BY FS_RemoveElement, FS_CardinalityType
<1>2. IsFiniteSet(D) /\ Cardinality(D) <= Cardinality(C \ {k})
  BY <1>1, FS_Subset
<1>3. Cardinality(D) \in Nat
  BY <1>2, FS_CardinalityType
<1> QED
  BY <1>1, <1>2, <1>3

LEMMA CountStep == BaseInv /\ CopyInv /\ CountInv /\ [Next]_vars => CopyInv' /\ CountInv'
<1> SUFFICES ASSUME BaseInv, CopyInv, CountInv, [Next]_vars PROVE CopyInv' /\ CountInv'
  OBVIOUS
<1>1. ASSUME CopyInv', \A d \in Docs : Fewer(d) PROVE CopyInv' /\ CountInv'
  BY <1>1, FewerKeepsCount DEF CountInv
<1>2. CASE UNCHANGED <<skills, draft, loaded, pc, todo>>
  <2>1. \A q \in Runs : Aside(q)
    BY <1>2, OthersAside
  <2>2. \A d \in Docs : Copies(d)' \subseteq Copies(d)
    BY <1>2 DEF Copies, Copy
  <2> QED
    BY <1>1, <2>1, <2>2, RequestStep
<1>3. CASE \E d \in Docs : Arrive(d)
  BY <1>2, <1>3 DEF Arrive, table, memory
<1>4. CASE \E p \in Payloads : Create(p.slug, p.url, p.tags)
  <2>1. \E k \in RowIds : TRUE
    BY <1>4 DEF Create, FreeIds
  <2> QED
    BY <1>1, <1>4, <2>1, RequestsKeepCopies
<1>5. CASE \E k \in RowIds : Delete(k) \/ \E given \in SUBSET TrustFields : Override(k, given)
  BY <1>1, <1>5, RequestsKeepCopies
<1>6. ASSUME NEW r \in Runs, Find(r) PROVE CopyInv' /\ CountInv'
  <2>1. CopyInv' /\ \A d \in Docs : Fewer(d) \/ Copies(d)' = {}
    BY <1>6, FindKeepsCopies
  <2>2. ASSUME NEW d \in Docs, Copies(d)' = {}
        PROVE  Cardinality(Copies(d)') + Cardinality(Adders(d)') <= Cardinality(Runs)
    <3>1. Adders(d)' \subseteq Runs /\ IsFiniteSet(Runs)
      BY BoundsAssumption DEF Adders
    <3>2. IsFiniteSet(Adders(d)') /\ Cardinality(Adders(d)') <= Cardinality(Runs)
      BY <3>1, FS_Subset
    <3>3. Cardinality(Adders(d)') \in Nat /\ Cardinality(Runs) \in Nat /\ Cardinality({}) = 0
      BY <3>1, <3>2, FS_CardinalityType, FS_EmptySet
    <3> QED
      BY <2>2, <3>2, <3>3
  <2> QED
    BY <2>1, <2>2, FewerKeepsCount DEF CountInv
<1>7. ASSUME NEW r \in Runs, Commit(r) PROVE CopyInv' /\ CountInv'
  <2>1. ASSUME NEW d \in Docs
        PROVE  Cardinality(Copies(d)') + Cardinality(Adders(d)') <= Cardinality(Runs)
    <3>1. /\ IsFiniteSet(Copies(d)) /\ IsFiniteSet(Adders(d)) /\ Cardinality(Runs) \in Nat
          /\ Cardinality(Copies(d)) + Cardinality(Adders(d)) <= Cardinality(Runs)
      BY CountsAreFinite DEF CountInv
    <3>2. CASE Copies(d)' \subseteq Copies(d)
      BY <1>7, <3>1, <3>2, CommitKeepsCopies, FewerKeepsCount DEF Fewer
    <3>3. ASSUME NEW k, Copies(d)' \subseteq Copies(d) \cup {k}, r \in Adders(d)
          PROVE  Cardinality(Copies(d)') + Cardinality(Adders(d)') <= Cardinality(Runs)
      <4>1. Adders(d)' \subseteq Adders(d) \ {r}
        BY <1>7, CommitKeepsCopies
      <4>2. /\ Cardinality(Copies(d)) \in Nat /\ Cardinality(Copies(d)') \in Nat
            /\ Cardinality(Copies(d)') <= Cardinality(Copies(d)) + 1
        BY <3>1, <3>3, AtMostOneMore
      <4>3. /\ Cardinality(Adders(d)) \in Nat /\ Cardinality(Adders(d)') \in Nat
            /\ Cardinality(Adders(d)') <= Cardinality(Adders(d)) - 1
        BY <3>1, <3>3, <4>1, OneFewer
      <4> QED
        BY <3>1, <4>2, <4>3
    <3>4. ASSUME NEW j \in Copies(d), NEW k, Copies(d)' \subseteq (Copies(d) \ {j}) \cup {k}
          PROVE  Cardinality(Copies(d)') + Cardinality(Adders(d)') <= Cardinality(Runs)
      <4>1. Adders(d)' \subseteq Adders(d)
        BY <1>7, CommitKeepsCopies
      <4>2. /\ IsFiniteSet(Copies(d) \ {j})
            /\ Cardinality(Copies(d)) \in Nat /\ Cardinality(Copies(d) \ {j}) \in Nat
            /\ Cardinality(Copies(d) \ {j}) <= Cardinality(Copies(d)) - 1
        BY <3>1, OneFewer
      <4>3. /\ Cardinality(Copies(d)') \in Nat
            /\ Cardinality(Copies(d)') <= Cardinality(Copies(d) \ {j}) + 1
        BY <3>4, <4>2, AtMostOneMore
      <4>4. IsFiniteSet(Adders(d)') /\ Cardinality(Adders(d)') <= Cardinality(Adders(d))
        BY <3>1, <4>1, FS_Subset
      <4>5. Cardinality(Adders(d)) \in Nat /\ Cardinality(Adders(d)') \in Nat
        BY <3>1, <4>4, FS_CardinalityType
      <4> QED
        BY <3>1, <4>2, <4>3, <4>4, <4>5
    <3> QED
      BY <1>7, <3>2, <3>3, <3>4, CommitKeepsCopies
  <2> QED
    BY <1>7, <2>1, CommitKeepsCopies DEF CountInv
<1>8. ASSUME NEW r \in Runs, RunStep(r) PROVE CopyInv' /\ CountInv'
  BY <1>1, <1>6, <1>7, <1>8, InsertKeepsCopies, WriteKeepsCopies, FillKeepsCopies,
     TurnsKeepCopies, LoseKeepsCopies DEF RunStep, BreakDeadlock
<1>9. ASSUME NEW r \in Runs, Fail(r) PROVE CopyInv' /\ CountInv'
  BY <1>1, <1>9, LoseKeepsCopies DEF Fail
<1>10. CASE UNCHANGED vars
  BY <1>2, <1>10 DEF vars, table, memory
<1> QED
  BY <1>3, <1>4, <1>5, <1>8, <1>9, <1>10 DEF Next

\* However overlapping runs look for, insert and rewrite the rows of a document
\* (_resolve_existing_skill), it has at most one published row for each run.
THEOREM CopiesAreBounded == Spec => []CopiesBounded
<1>1. CountInv => CopiesBounded
  <2> SUFFICES ASSUME CountInv, NEW d \in Docs
               PROVE  Cardinality({k \in IdsOf(skills) : skills[k].url = d /\ skills[k].by = "batch"})
                          <= Cardinality(Runs)
    BY DEF CopiesBounded
  <2>1. Copies(d) = {k \in IdsOf(skills) : skills[k].url = d /\ skills[k].by = "batch"}
    BY DEF Copies, Copy, IdsOf
  <2>2. Cardinality(Copies(d)) + Cardinality(Adders(d)) <= Cardinality(Runs)
    BY DEF CountInv
  <2> QED
    BY <2>1, <2>2, CountsAreFinite
<1>2. Init => CountInv
  <2> SUFFICES ASSUME Init, NEW d \in Docs
               PROVE  Cardinality(Copies(d)) + Cardinality(Adders(d)) <= Cardinality(Runs)
    BY DEF CountInv
  <2>1. Copies(d) = {}
    BY CopyInit
  <2> QED
    BY <2>1, CountsAreFinite, FS_EmptySet
<1>3. Init => CopyInv
  BY CopyInit
<1> QED
  BY <1>1, <1>2, <1>3, BaseInit, BaseStep, CountStep, PTL DEF Spec
=============================================================================
