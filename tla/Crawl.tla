------------------------------- MODULE Crawl -------------------------------
(***************************************************************************)
(* One crawl over the configured sources, from the first fetch to the last *)
(* raw_skills row: run_ingest_sources of app/ingest/sources.py, the        *)
(* repository scanner it calls, and the storing loop of ingest_raw with    *)
(* _ensure_source.  Two runs may be under way at once, the worker's and    *)
(* the one POST /ingest starts; they meet only in the database.  Until the *)
(* last source is done everything a run fetched is in its memory.          *)
(*                                                                         *)
(* The web is fixed; what varies is what a fetch brings home.  A page, a   *)
(* listing or a file that does not answer is skipped without a trace, so   *)
(* each such miss is a choice here, counted by "failures".  Texts and      *)
(* parse statuses of the rows belong to RawQueue: here a document is the   *)
(* pair of the SkillSource it is filed under, known by its unique url, and *)
(* the file, and what counts is how many rows it has.                      *)
(***************************************************************************)
EXTENDS RepoFocus, FiniteSets, SequencesExt

CONSTANTS
    SourceList,    \* SOURCES: names of the sources, in the order of the list
    Config,        \* the entry of each source
    RepoOrder,     \* every repository, in the order sorted() gives
    Files,         \* documents: SKILL.md files and single pages, known by their url
    RepoFiles,     \* SKILL.md files of each repository in a canonical layout, by path
    Profile,       \* what the scanner counts in each repository
    Locs,          \* what each sitemap lists, in order
    PageRepos,     \* repositories linked from each page of a directory
    Foreign,       \* sitemap entries on another host
    Runs,          \* the worker's run and the requested one
    Asked,         \* sources each run is started with
    Looping,       \* the runs that are started again and again: the worker's
    Nobody,        \* no name, no url
    MaxRequests,   \* bound: crawls started by POST /ingest
    MaxFailures    \* bound: fetches that fail and runs that die

Sources == Range(SourceList)
Repos   == Range(RepoOrder)
Maps    == DOMAIN Locs
Pages   == DOMAIN PageRepos
Kinds   == {"markdown_list", "github_repo", "web_directory", "github_search", "page"}

(***************************************************************************)
(* An entry of SOURCES.  "listed" is what the page, the override list, the *)
(* root of the directory or the search returns; "direct" are the SKILL.md  *)
(* links of a list; "cap" is max_repos; "pages" is max_sitemap_pages.      *)
(***************************************************************************)
SourceEntry == [kind: Kinds, listed: Seq(Repos), direct: Seq(Files), scan: BOOLEAN,
          map: Maps \cup {Nobody}, pages: Int, cap: Nat, perRepo: Nat,
          min: RepoTypes, paths: SUBSET Files, page: Files \cup {Nobody}]

ASSUME ConfigAssumption ==
    /\ SourceList \in Seq(Sources) /\ RepoOrder \in Seq(Repos)
    /\ Config \in [Sources -> SourceEntry]
    /\ \A s \in Sources : Config[s].kind = "github_repo" =>
           Len(Config[s].listed) = 1 /\ Config[s].cap = 1
    /\ \A s \in Sources : Config[s].kind = "web_directory" => Config[s].map \in Maps
    /\ \A s \in Sources : Config[s].kind = "page" => Config[s].page \in Files
ASSUME WebAssumption ==
    /\ Profile \in [Repos -> Profiles] /\ RepoFiles \in [Repos -> Seq(Files)]
    /\ Locs \in [Maps -> Seq(Maps \cup Pages)] /\ Maps \cap Pages = {} /\ IsFiniteSet(Maps)
    /\ \A a, b \in Repos : \A i \in DOMAIN RepoFiles[a], j \in DOMAIN RepoFiles[b] :
           RepoFiles[a][i] = RepoFiles[b][j] => a = b /\ i = j
    /\ PageRepos \in [Pages -> SUBSET Repos]
ASSUME RunsAssumption ==
    /\ Asked \in [Runs -> SUBSET Sources] /\ Looping \subseteq Runs
    /\ Nobody \notin Files \cup Sources \cup Maps
ASSUME BoundsAssumption == MaxRequests \in Nat /\ MaxFailures \in Nat

VARIABLES
    homes,     \* skill_sources, in the order of created_at
    raw,       \* raw_skills: how many rows each document has
    run,       \* memory of each run
    failures, requests   \* counters of the bounds

vars == <<homes, raw, run, failures, requests>>

Idle == [at |-> "idle", pos |-> 1, todo |-> <<>>, count |-> 0, scanned |-> {},
         results |-> <<>>, stored |-> 0, home |-> Nobody, missed |-> FALSE,
         maps |-> <<>>, seenMaps |-> {}, locs |-> <<>>, seenPages |-> {},
         budget |-> 0, found |-> {}]

Phases == {"idle", "open", "sitemaps", "pages", "scan", "look", "insert", "save", "add"}

Documents == [home: Files, file: Files]

Init ==
    /\ homes = <<>> /\ raw = [d \in Documents |-> 0]
    /\ run = [r \in Runs |-> Idle]
    /\ failures = 0 /\ requests = 0

(***************************************************************************)
(* What a source admits                                                    *)
(***************************************************************************)

\* The n-th of some places.
Nth == [places \in SUBSET Nat |-> [n \in 1..Cardinality(places) |->
    CHOOSE i \in places : Cardinality(places \cap 1..i) = n]]

\* The entries of a sequence at some places, in their order.
At(seq, places) == [n \in 1..Cardinality(places) |-> seq[Nth[places][n]]]

\* The entries that are in a set: SelectSeq in a form that a proof can expand.
Kept(seq, set) == At(seq, {i \in DOMAIN seq : seq[i] \in set})

\* The first n of the different entries that are in a set.
Foremost(seq, set, n) ==
    {seq[i] : i \in {j \in DOMAIN seq :
        seq[j] \in set /\ Cardinality({seq[k] : k \in 1..j} \cap set) <= n}}

Plan       == [r \in Runs |-> Kept(SourceList, Asked[r])]
Source(r)  == Plan[r][run[r].pos]
EntryOf(r) == Config[Source(r)]

Sorted          == [repos \in SUBSET Repos |-> Kept(RepoOrder, repos)]
FirstOf(seq, n) == SubSeq(seq, 1, Min({n, Len(seq)}))
Items(s, files) == [i \in DOMAIN files |-> [source |-> s, file |-> files[i]]]

\* list_repo_skills_candidates, and the limit per repository of a list.
Candidates == [s \in Sources |-> [repo \in Repos |->
    LET e == Config[s]
        matching == Kept(RepoFiles[repo], e.paths)
    IN  IF TypeRank[RepoType(Profile[repo])] < TypeRank[e.min] THEN <<>>
        ELSE IF e.kind = "markdown_list" THEN FirstOf(matching, e.perRepo) ELSE matching]]

(***************************************************************************)
(* Steps of run_ingest_sources                                             *)
(***************************************************************************)
Goes(r, memory) == run' = [run EXCEPT ![r] = memory] /\ UNCHANGED <<homes, raw, requests>>
Fine            == UNCHANGED failures
Miss            == failures < MaxFailures /\ failures' = failures + 1

Start(r) ==
    /\ run[r].at = "idle" /\ Asked[r] # {}
    /\ IF r \in Looping THEN requests' = requests
       ELSE requests < MaxRequests /\ requests' = requests + 1
    /\ run' = [run EXCEPT ![r] = [Idle EXCEPT !.at = "open"]]
    /\ UNCHANGED <<homes, raw, failures>>

\* The memory of a run that goes on to its next source, or to storing.
Onward(m, r) ==
    [m EXCEPT !.pos = @ + 1, !.todo = <<>>, !.count = 0,
              !.maps = <<>>, !.seenMaps = {}, !.locs = <<>>, !.seenPages = {},
              !.budget = 0, !.found = {},
              !.at = IF m.pos < Len(Plan[r]) THEN "open"
                     ELSE IF m.results = <<>> THEN "idle" ELSE "look"]

Opening(r, kind) == run[r].at = "open" /\ EntryOf(r).kind = kind

\* The page or the discovery of a source fails, a directory's at whatever point:
\* the next source follows.
SourceFails(r) ==
    /\ run[r].at = "open" /\ EntryOf(r).kind # "github_repo"
    /\ Miss
    /\ Goes(r, Onward([run[r] EXCEPT !.missed = TRUE], r))

\* A list: its direct SKILL.md links first, then its repositories.
OpenList(r) ==
    LET e == EntryOf(r) IN
    /\ Opening(r, "markdown_list")
    /\ \E got \in SUBSET Range(e.direct) :
           LET m == [run[r] EXCEPT !.results = @ \o Items(Source(r), Kept(e.direct, got)),
                                   !.missed = @ \/ got # Range(e.direct)]
           IN  /\ IF got = Range(e.direct) THEN Fine ELSE Miss
               /\ Goes(r, IF e.scan THEN [m EXCEPT !.todo = e.listed, !.at = "scan"]
                         ELSE Onward(m, r))

\* A single repository is a list of one that cannot fail to open.
OpenRepo(r) ==
    /\ Opening(r, "github_repo")
    /\ Fine
    /\ Goes(r, [run[r] EXCEPT !.todo = EntryOf(r).listed, !.at = "scan"])

\* A directory: the root page, unless it does not answer, and then its sitemap.
OpenDirectory(r) ==
    LET e == EntryOf(r) IN
    /\ Opening(r, "web_directory")
    /\ \E answers \in BOOLEAN :
           LET m == [run[r] EXCEPT !.found = IF answers THEN Range(e.listed) ELSE {},
                                   !.missed = @ \/ ~answers]
           IN  /\ IF answers THEN Fine ELSE Miss
               /\ Goes(r, IF e.pages <= 0
                         THEN [m EXCEPT !.todo = Sorted[m.found], !.at = "scan"]
                         ELSE [m EXCEPT !.maps = <<e.map>>, !.budget = e.pages, !.at = "sitemaps"])

\* The next sitemap of the queue, once.
ReadSitemap(r) ==
    LET m == [run[r] EXCEPT !.maps = Tail(@), !.seenMaps = @ \cup {Head(run[r].maps)}] IN
    /\ run[r].at = "sitemaps" /\ run[r].maps # <<>> /\ run[r].budget > 0
    /\ \/ Head(run[r].maps) \in run[r].seenMaps /\ Fine /\ Goes(r, m)
       \/ /\ Head(run[r].maps) \notin run[r].seenMaps
          /\ \/ Fine /\ Goes(r, [m EXCEPT !.locs = Locs[Head(run[r].maps)], !.at = "pages"])
             \/ Miss /\ Goes(r, [m EXCEPT !.missed = TRUE])

\* Mutant of Exhausted: the last page of the budget is not fetched.
ExhaustedByLast(budget) == budget <= 0

\* page_budget after it was decremented for the page at hand.
Exhausted(budget) == budget < 0

\* The next entry of the sitemap that was read.
VisitLoc(r) ==
    LET loc == Head(run[r].locs)
        m   == [run[r] EXCEPT !.locs = Tail(@)]
        v   == [m EXCEPT !.seenPages = @ \cup {loc}, !.budget = @ - 1]
    IN
    /\ run[r].at = "pages" /\ run[r].locs # <<>>
    /\ \/ loc \in Foreign \cup run[r].seenMaps \cup run[r].seenPages /\ Fine /\ Goes(r, m)
       \/ /\ loc \in Maps \ (Foreign \cup run[r].seenMaps)
          /\ Fine /\ Goes(r, [m EXCEPT !.maps = Append(@, loc)])
       \/ /\ loc \in Pages \ (Foreign \cup run[r].seenPages)
          /\ \/ Exhausted(v.budget) /\ Fine /\ Goes(r, [v EXCEPT !.locs = <<>>])
             \/ ~Exhausted(v.budget) /\ Fine /\ Goes(r, [v EXCEPT !.found = @ \cup PageRepos[loc]])
             \/ ~Exhausted(v.budget) /\ Miss /\ Goes(r, [v EXCEPT !.missed = TRUE])

CloseSitemap(r) ==
    /\ run[r].at = "pages" /\ run[r].locs = <<>>
    /\ Fine /\ Goes(r, [run[r] EXCEPT !.at = "sitemaps"])

\* The queue is empty or the budget spent: the repositories in order of their name.
CloseDirectory(r) ==
    /\ run[r].at = "sitemaps" /\ (run[r].maps = <<>> \/ run[r].budget <= 0)
    /\ Fine /\ Goes(r, [run[r] EXCEPT !.todo = Sorted[run[r].found], !.at = "scan"])

\* A search: the first max_repos of the repositories among the hits, without the
\* hits of the pages that do not come.  Without the token it requires a source
\* has no hits.
OpenSearch(r) ==
    LET e == EntryOf(r) IN
    /\ Opening(r, "github_search")
    /\ \E got \in SUBSET Range(e.listed) :
           /\ IF got = Range(e.listed) THEN Fine ELSE Miss
           /\ Goes(r, [run[r] EXCEPT !.todo = Sorted[Foremost(e.listed, got, e.cap)],
                                     !.missed = @ \/ got # Range(e.listed), !.at = "scan"])

\* Any other type: the url itself is the document.
OpenPage(r) ==
    /\ Opening(r, "page")
    /\ Fine
    /\ Goes(r, Onward([run[r] EXCEPT
                         !.results = @ \o Items(Source(r), <<EntryOf(r).page>>)], r))

\* Mutant of SkipRepo: a repository that was scanned before uses up the limit.
SkipRepoCounted(r) ==
    /\ run[r].at = "scan" /\ run[r].todo # <<>> /\ run[r].count < EntryOf(r).cap
    /\ Head(run[r].todo) \in run[r].scanned
    /\ Fine /\ Goes(r, [run[r] EXCEPT !.todo = Tail(@), !.count = @ + 1])

SkipRepo(r) ==
    /\ run[r].at = "scan" /\ run[r].todo # <<>> /\ run[r].count < EntryOf(r).cap
    /\ Head(run[r].todo) \in run[r].scanned
    /\ Fine /\ Goes(r, [run[r] EXCEPT !.todo = Tail(@)])

\* A repository no source of this run has reached: it counts as scanned from
\* here on, whether the scan fails, brings nothing or fetch_text gets some of the
\* files only.
ScanRepo(r) ==
    LET e    == EntryOf(r)
        repo == Head(run[r].todo)
        all  == Candidates[Source(r)][repo]
        Scanned(files, miss) ==
            [run[r] EXCEPT !.todo = Tail(@), !.count = @ + 1, !.scanned = @ \cup {repo},
                           !.results = @ \o Items(Source(r), files), !.missed = @ \/ miss]
    IN
    /\ run[r].at = "scan" /\ run[r].todo # <<>> /\ run[r].count < e.cap
    /\ repo \notin run[r].scanned
    /\ \E got \in SUBSET Range(all) :
           /\ IF got = Range(all) THEN Fine ELSE Miss
           /\ Goes(r, Scanned(Kept(all, got), got # Range(all)))

CloseSource(r) ==
    /\ run[r].at = "scan" /\ (run[r].todo = <<>> \/ run[r].count >= EntryOf(r).cap)
    /\ Fine /\ Goes(r, Onward(run[r], r))

(***************************************************************************)
(* Storing: one transaction per result                                     *)
(***************************************************************************)
Item(r) == run[r].results[run[r].stored + 1]

Visible(r) == {i \in DOMAIN homes : homes[i].committed \/ homes[i].by = r}

\* Mutant of HomesOf: sources are known by their url alone.
HomesOfUrl(r, s, f) == {i \in Visible(r) : homes[i].url = f}

\* The look-ups of _ensure_source: by name, else by url.
HomesOf(r, s, f) ==
    LET named == {i \in Visible(r) : homes[i].name = s}
    IN  IF named # {} THEN named ELSE {i \in Visible(r) : homes[i].url = f}

\* The oldest row that is found is taken.
LookUpSource(r) ==
    LET found == HomesOf(r, Item(r).source, Item(r).file) IN
    /\ run[r].at = "look"
    /\ Fine
    /\ Goes(r, IF found = {} THEN [run[r] EXCEPT !.at = "insert"]
              ELSE [run[r] EXCEPT !.at = "save", !.home = homes[Min(found)].url])

\* Mutant of InsertSource: the column url without its unique index.
InsertSourceAgain(r) ==
    /\ run[r].at = "insert"
    /\ run' = [run EXCEPT ![r] = [run[r] EXCEPT !.at = "save", !.home = Item(r).file]]
    /\ homes' = Append(homes, [name |-> Item(r).source, url |-> Item(r).file, by |-> r,
                               committed |-> FALSE])
    /\ UNCHANGED <<raw, failures, requests>>

\* The flush of a new SkillSource.  It waits while another transaction has
\* inserted the same url and not ended yet; it fails, and with it the run, when
\* that transaction has committed meanwhile.
InsertSource(r) ==
    LET f == Item(r).file
        same == {i \in DOMAIN homes : homes[i].url = f}
    IN
    /\ run[r].at = "insert"
    /\ \A i \in same : homes[i].committed
    /\ run' = [run EXCEPT ![r] = IF same = {} THEN [run[r] EXCEPT !.at = "save", !.home = f]
                                 ELSE Idle]
    /\ homes' = IF same = {}
                THEN Append(homes, [name |-> Item(r).source, url |-> f, by |-> r,
                                    committed |-> FALSE])
                ELSE homes
    /\ UNCHANGED <<raw, failures, requests>>

\* The document at hand, filed under the source that was found or inserted.
Document(r) == [home |-> run[r].home, file |-> Item(r).file]

\* The commit ends the transaction, and the next result follows.
Commits(r) ==
    LET m == [run[r] EXCEPT !.stored = @ + 1, !.home = Nobody] IN
    /\ homes' = [i \in DOMAIN homes |->
                    IF homes[i].by = r THEN [homes[i] EXCEPT !.committed = TRUE] ELSE homes[i]]
    /\ run' = [run EXCEPT ![r] = IF m.stored = Len(m.results) THEN Idle
                                 ELSE [m EXCEPT !.at = "look"]]
    /\ UNCHANGED <<failures, requests>>

\* The run ends before its commit: its own uncommitted rows go, what was
\* not stored is lost.
Ends(r) ==
    /\ run' = [run EXCEPT ![r] = Idle]
    /\ homes' = Kept(homes, {h \in Range(homes) : h.committed \/ h.by # r})
    /\ UNCHANGED <<raw, requests>>

\* upsert_raw_skill: SELECT the row of the document.  There is one, whose text is
\* replaced if it differs ...
RowFound(r) ==
    /\ run[r].at = "save" /\ raw[Document(r)] = 1
    /\ Commits(r) /\ UNCHANGED raw

\* ... there is none ...
RowMissing(r) ==
    /\ run[r].at = "save" /\ raw[Document(r)] = 0
    /\ Fine /\ Goes(r, [run[r] EXCEPT !.at = "add"])

\* ... or there are several: scalar_one_or_none raises, which ends the run.
RowTwice(r) ==
    /\ run[r].at = "save" /\ raw[Document(r)] > 1
    /\ Fine /\ Ends(r)

\* The INSERT of a row that was missing when it was looked for; raw_skills has no
\* unique key that another run's row could violate.
SaveItem(r) ==
    /\ run[r].at = "add"
    /\ raw' = [raw EXCEPT ![Document(r)] = @ + 1]
    /\ Commits(r)

\* The process or its connection goes.
Die(r) == run[r].at # "idle" /\ Miss /\ Ends(r)

Step(r) ==
    \/ OpenList(r) \/ OpenRepo(r) \/ OpenDirectory(r) \/ OpenSearch(r) \/ OpenPage(r)
    \/ SourceFails(r)
    \/ ReadSitemap(r) \/ VisitLoc(r) \/ CloseSitemap(r) \/ CloseDirectory(r)
    \/ SkipRepo(r) \/ ScanRepo(r) \/ CloseSource(r)
    \/ LookUpSource(r) \/ InsertSource(r)
    \/ RowFound(r) \/ RowMissing(r) \/ RowTwice(r) \/ SaveItem(r)

Next == \E r \in Runs : Start(r) \/ Step(r) \/ Die(r)

Spec == Init /\ [][Next]_vars

\* Both event loops run what they started until it ends, and the worker starts
\* its run again after every sleep.
FairSpec ==
    /\ Spec
    /\ \A r \in Runs : WF_vars(Step(r))
    /\ \A r \in Looping : WF_vars(Start(r))

(***************************************************************************)
(* Reference: what a crawl without a miss brings home                      *)
(***************************************************************************)
\* The entries of a sequence that are in a set, each where it first occurs.
Once(seq, set) ==
    At(seq, {i \in DOMAIN seq : seq[i] \in set /\ \A j \in 1..(i - 1) : seq[j] # seq[i]})

\* The sitemap at the root of a directory and those which the first n of them
\* name, in the order in which they are first named.
Named[n \in Nat] == [root \in Maps |->
    IF n = 0 THEN <<root>>
    ELSE LET known == Named[n - 1][root]
         IN  IF n > Len(known) THEN known
             ELSE known \o Once(Locs[known[n]], Maps \ (Foreign \cup Range(known)))]

Sitemaps == [root \in Maps |-> Named[Cardinality(Maps)][root]]

\* The pages of the site up to the i-th entry of the j-th of some sitemaps.
PagesUpTo(maps, j, i) ==
    ({Locs[maps[j]][k] : k \in 1..i} \cup UNION {Range(Locs[maps[k]]) : k \in 1..(j - 1)})
    \cap (Pages \ Foreign)

\* The first n pages a reader of some sitemaps comes to.
FirstPages(maps, n) ==
    UNION {{Locs[maps[j]][i] : i \in {k \in DOMAIN Locs[maps[j]] :
                Locs[maps[j]][k] \in Pages \ Foreign /\ Cardinality(PagesUpTo(maps, j, k)) <= n}}
           : j \in DOMAIN maps}

ReposOf == [s \in Sources |->
    LET e == Config[s] IN
    CASE e.kind = "web_directory" ->
             Sorted[Range(e.listed) \cup UNION {PageRepos[p] : p \in FirstPages(Sitemaps[e.map], e.pages)}]
      [] e.kind = "github_search" -> Sorted[Foremost(e.listed, Repos, e.cap)]
      [] e.kind = "github_repo" -> e.listed
      [] e.kind = "markdown_list" /\ e.scan -> e.listed
      [] OTHER -> <<>>]

\* The documents a source links itself.
Links == [s \in Sources |->
    CASE Config[s].kind = "markdown_list" -> Range(Config[s].direct)
      [] Config[s].kind = "page" -> {Config[s].page}
      [] OTHER -> {}]

\* The repositories a source takes when earlier ones have taken some.
Takes == [s \in Sources |-> [taken \in SUBSET Repos |->
    Foremost(ReposOf[s], Repos \ taken, Config[s].cap)]]

\* The repositories taken by the first n sources of each run.
Taken[n \in Nat] == [r \in Runs |->
    IF n = 0 THEN {}
    ELSE IF n > Len(Plan[r]) THEN Taken[n - 1][r]
    ELSE Taken[n - 1][r] \cup Takes[Plan[r][n]][Taken[n - 1][r]]]

\* What a source has to bring home when it takes some repositories.
Brought(s, repos) ==
    {[source |-> s, file |-> f] :
        f \in Links[s] \cup UNION {Range(Candidates[s][repo]) : repo \in repos}}

\* What the first n sources of a run promise.
Promised(r, n) ==
    UNION {Brought(Plan[r][k], Takes[Plan[r][k]][Taken[k - 1][r]]) : k \in 1..n}

Expected == [r \in Runs |-> Promised(r, Len(Plan[r]))]

(***************************************************************************)
(* Properties                                                              *)
(***************************************************************************)
Home == [name: Sources, url: Files, by: Runs, committed: BOOLEAN]

TypeOK ==
    /\ homes \in Seq(Home) /\ IsInjective([i \in DOMAIN homes |-> homes[i].url])
    /\ raw \in [Documents -> Nat]
    /\ \A d \in Documents : raw[d] > 0 => d.home \in {homes[i].url : i \in DOMAIN homes}
    /\ \A r \in Runs :
           /\ run[r].at \in Phases /\ run[r].pos \in 1..(Len(Plan[r]) + 1)
           /\ run[r].scanned \subseteq Repos /\ run[r].count <= Cardinality(Repos)
           /\ run[r].at \in {"save", "add"} => run[r].home \in {homes[i].url : i \in DOMAIN homes}
    /\ failures \in 0..MaxFailures /\ requests \in 0..MaxRequests

\* A run brings each document of a repository home once, whichever sources reach
\* the repository; only what a source links itself may come twice.  And when it
\* starts to store, a run that missed nothing holds exactly what the sources
\* promise together: what they link, and each repository's files under the first
\* source that reached it and by the rules of that source, up to the limits of
\* pages and repositories.
CleanCrawlIsComplete ==
    \A r \in Runs : run[r].at = "look" =>
        /\ \A i, j \in DOMAIN run[r].results :
               LET x == run[r].results[i]
                   y == run[r].results[j]
               IN  i # j /\ x.file = y.file => x.file \in Links[x.source] \/ y.file \in Links[y.source]
        /\ ~run[r].missed => Range(run[r].results) = Expected[r]

\* A source never gets a second skill_sources row from the same actor, whatever
\* the url of its first result was: the rows of one name are as many as the runs
\* that raced to create it, so a document has no more homes than that.
OneHomeEach ==
    \A i, j \in DOMAIN homes :
        homes[i].name = homes[j].name /\ homes[i].by = homes[j].by => i = j

\* How many rows an item has under the source that promised it, or under the one
\* whose first url it was.
RowsOf(x) == {raw[[home |-> homes[i].url, file |-> x.file]] :
                 i \in {j \in DOMAIN homes : homes[j].name = x.source \/ homes[j].url = x.file}}

\* A document that is stored twice ends every later run that comes to it: of the
\* same source as an item of the run, or of a source before that.
Blocked(r, x) ==
    \E y \in Expected[r] :
        /\ \E j \in DOMAIN Plan[r] : \E i \in 1..j : Plan[r][i] = y.source /\ Plan[r][j] = x.source
        /\ \E n \in RowsOf(y) : n > 1

\* Misses and deaths only delay: every file the worker's sources promise gets a row
\* in the end, unless two runs that overlapped have stored one twice that comes
\* before it, which nothing but that race brings about.
FilesArrive ==
    \A r \in Looping : \A x \in Expected[r] :
        <>(Blocked(r, x) \/ \E n \in RowsOf(x) : n > 0)
=============================================================================
