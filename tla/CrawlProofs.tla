---------------------------- MODULE CrawlProofs ----------------------------
(***************************************************************************)
(* What a crawl brings home and what its storing keeps, for every list of  *)
(* sources, every web and any number of runs that die, miss and race for   *)
(* the same names and urls.                                                *)
(***************************************************************************)
EXTENDS Crawl, SequenceTheorems, FunctionTheorems, FiniteSetTheorems, WellFoundedInduction, TLAPS

(***************************************************************************)
(* Filtered sequences                                                      *)
(***************************************************************************)

\* The places up to one of them are more the further it is.
LEMMA RanksGrow ==
    ASSUME NEW places \in SUBSET (Nat \ {0}), IsFiniteSet(places)
    PROVE  /\ \A i \in places : Cardinality(places \cap 1..i) \in 1..Cardinality(places)
           /\ \A i, j \in places : i < j =>
                  Cardinality(places \cap 1..i) < Cardinality(places \cap 1..j)
<1> DEFINE Upto(i) == places \cap 1..i
<1>1. \A i \in places : i \in Upto(i) /\ Upto(i) \in SUBSET places
  OBVIOUS
<1>2. \A i, j \in places : i < j => Upto(i) \in SUBSET Upto(j) /\ j \notin Upto(i)
  OBVIOUS
<1> HIDE DEF Upto
<1>3. \A i \in places : IsFiniteSet(Upto(i)) /\ Cardinality(Upto(i)) \in Nat
                         /\ Cardinality(Upto(i)) <= Cardinality(places)
  BY <1>1, FS_Subset, FS_CardinalityType
<1>4. \A i \in places : Cardinality(Upto(i)) # 0
  BY <1>1, <1>3, FS_EmptySet
<1>5. Cardinality(places) \in Nat
  BY FS_CardinalityType
<1>6. \A i \in places : Cardinality(Upto(i)) \in 1..Cardinality(places)
  BY <1>3, <1>4, <1>5
<1>7. ASSUME NEW i \in places, NEW j \in places, i < j
      PROVE  Cardinality(Upto(i)) < Cardinality(Upto(j))
  <2>1. Cardinality(Upto(i)) <= Cardinality(Upto(j))
    BY <1>2, <1>3, <1>7, FS_Subset
  <2>2. Cardinality(Upto(i)) # Cardinality(Upto(j))
    BY <1>1, <1>2, <1>3, <1>7, FS_Subset
  <2> QED
    BY <1>3, <2>1, <2>2
<1> QED
  BY <1>6, <1>7 DEF Upto

\* There is an n-th place for every n up to their number, and each place is one.
LEMMA NthIsPlace ==
    ASSUME NEW places \in SUBSET (Nat \ {0}), IsFiniteSet(places)
    PROVE  /\ Cardinality(places) \in Nat
           /\ \A n \in 1..Cardinality(places) :
                  /\ Nth[places][n] \in places
                  /\ Cardinality(places \cap 1..Nth[places][n]) = n
           /\ \A i \in places : \E n \in 1..Cardinality(places) : Nth[places][n] = i
<1> DEFINE rank == [i \in places |-> Cardinality(places \cap 1..i)]
           size == Cardinality(places)
<1>1. size \in Nat
  BY FS_CardinalityType
<1>2. rank \in [places -> 1..size]
  BY RanksGrow
<1>3. \A i, j \in places : rank[i] = rank[j] => i = j
  <2> SUFFICES ASSUME NEW i \in places, NEW j \in places, rank[i] = rank[j], i # j PROVE FALSE
    OBVIOUS
  <2>1. i < j \/ j < i
    OBVIOUS
  <2>2. Cardinality(places \cap 1..i) \in Nat /\ Cardinality(places \cap 1..j) \in Nat
    BY RanksGrow
  <2> QED
    BY <2>1, <2>2, RanksGrow
<1>4. rank \in Surjection(places, 1..size)
  <2>1. rank \in Injection(places, 1..size)
    BY <1>2, <1>3, Fun_IsInj
  <2>2. IsFiniteSet(1..size) /\ Cardinality(1..size) = size
    BY <1>1, FS_Interval
  <2> QED
    BY <2>1, <2>2, FS_Injection
<1>5. ASSUME NEW n \in 1..size
      PROVE  Nth[places][n] \in places /\ Cardinality(places \cap 1..Nth[places][n]) = n
  <2>0. \A t \in 1..size : \E s \in places : rank[s] = t
    <3> HIDE DEF rank, size
    <3> QED
      BY <1>4 DEF Surjection
  <2>1. PICK i \in places : rank[i] = n
    BY <2>0
  <2>2. Nth[places][n] = CHOOSE j \in places : Cardinality(places \cap 1..j) = n
    BY <1>1 DEF Nth
  <2> QED
    BY <2>1, <2>2
<1>6. ASSUME NEW i \in places PROVE Nth[places][rank[i]] = i
  <2>1. rank[i] \in 1..size
    BY <1>2
  <2>2. Nth[places][rank[i]] \in places /\ rank[Nth[places][rank[i]]] = rank[i]
    BY <1>5, <2>1
  <2> QED
    BY <1>3, <2>2
<1> QED
  BY <1>1, <1>2, <1>5, <1>6

\* The least of some places is one of them.
LEMMA LeastIsPlace ==
    ASSUME NEW places \in SUBSET (Nat \ {0}), IsFiniteSet(places), places # {}
    PROVE  Min(places) \in places
<1>1. Cardinality(places) # 0
  BY FS_EmptySet
<1>2. /\ 1 \in 1..Cardinality(places)
      /\ Nth[places][1] \in places
      /\ Cardinality(places \cap 1..Nth[places][1]) = 1
  BY <1>1, NthIsPlace
<1>3. ASSUME NEW j \in places PROVE Nth[places][1] <= j
  <2> SUFFICES ASSUME j < Nth[places][1] PROVE FALSE
    <3>1. j \in Nat /\ Nth[places][1] \in Nat
      BY <1>2
    <3> QED
      BY <3>1
  <2>1. Cardinality(places \cap 1..j) < Cardinality(places \cap 1..Nth[places][1])
    BY <1>2, RanksGrow
  <2>2. Cardinality(places \cap 1..j) \in 1..Cardinality(places)
    BY RanksGrow
  <2> QED
    BY <1>2, <2>1, <2>2
<1> QED
  BY <1>2, <1>3 DEF Min

\* What a filter keeps: entries of the sequence that are in the set, each from a
\* place of its own, and all of them.
LEMMA KeptIs ==
    ASSUME NEW T, NEW seq \in Seq(T), NEW set
    PROVE  /\ Kept(seq, set) \in Seq(T)
           /\ \E place \in [DOMAIN Kept(seq, set) -> DOMAIN seq] :
                  /\ \A m, n \in DOMAIN Kept(seq, set) : place[m] = place[n] => m = n
                  /\ \A n \in DOMAIN Kept(seq, set) :
                         Kept(seq, set)[n] = seq[place[n]] /\ seq[place[n]] \in set
           /\ \A i \in DOMAIN seq : seq[i] \in set =>
                  \E n \in DOMAIN Kept(seq, set) : Kept(seq, set)[n] = seq[i]
<1> DEFINE places == {i \in DOMAIN seq : seq[i] \in set}
           size   == Cardinality(places)
           place  == [n \in 1..size |-> Nth[places][n]]
<1>1. places \in SUBSET (Nat \ {0}) /\ IsFiniteSet(places)
  <2>1. DOMAIN seq = 1..Len(seq) /\ Len(seq) \in Nat
    OBVIOUS
  <2>2. IsFiniteSet(1..Len(seq))
    BY <2>1, FS_Interval
  <2>3. places \in SUBSET (1..Len(seq))
    BY <2>1
  <2> HIDE DEF places
  <2>4. IsFiniteSet(places)
    BY <2>2, <2>3, FS_Subset
  <2> QED
    BY <2>1, <2>3, <2>4
<1>2. /\ size \in Nat
      /\ \A n \in 1..size : /\ Nth[places][n] \in places
                            /\ Cardinality(places \cap 1..Nth[places][n]) = n
      /\ \A i \in places : \E n \in 1..size : Nth[places][n] = i
  <2> HIDE DEF places
  <2> QED
    BY <1>1, NthIsPlace
<1>3. Kept(seq, set) = [n \in 1..size |-> seq[Nth[places][n]]]
  BY DEF Kept, At
<1> HIDE DEF size
<1>4. /\ DOMAIN Kept(seq, set) = 1..size
      /\ \A n \in 1..size : Kept(seq, set)[n] = seq[place[n]]
  BY <1>3
<1>5. \A n \in 1..size : place[n] \in DOMAIN seq /\ seq[place[n]] \in set /\ seq[place[n]] \in T
  <2>1. \A i \in places : i \in DOMAIN seq /\ seq[i] \in set /\ seq[i] \in T
    OBVIOUS
  <2>2. \A n \in 1..size : place[n] = Nth[places][n]
    OBVIOUS
  <2> HIDE DEF places, place
  <2> QED
    BY <1>2, <2>1, <2>2
<1>6. Kept(seq, set) \in Seq(T)
  <2>1. Kept(seq, set) \in [1..size -> T]
    BY <1>3, <1>4, <1>5
  <2> QED
    BY <1>2, <2>1, SeqDef
<1>7. \A m, n \in 1..size : place[m] = place[n] => m = n
  <2>1. \A n \in 1..size : Cardinality(places \cap 1..place[n]) = n
    BY <1>2
  <2> QED
    BY <2>1
<1>8. place \in [DOMAIN Kept(seq, set) -> DOMAIN seq]
  BY <1>4, <1>5
<1>9. ASSUME NEW i \in DOMAIN seq, seq[i] \in set
      PROVE  \E n \in 1..size : Kept(seq, set)[n] = seq[i]
  <2>1. i \in places
    BY <1>9
  <2>2. PICK n \in 1..size : Nth[places][n] = i
    BY <1>2, <2>1
  <2> QED
    BY <1>3, <2>2
<1> HIDE DEF place
<1> QED
  BY <1>4, <1>5, <1>6, <1>7, <1>8, <1>9

\* No entry of the set is lost when it is kept.
LEMMA KeptAll ==
    ASSUME NEW T, NEW seq \in Seq(T), NEW set
    PROVE  \A i \in DOMAIN seq : seq[i] \in set =>
               \E n \in DOMAIN Kept(seq, set) : Kept(seq, set)[n] = seq[i]
BY KeptIs

\* Each entry kept has a place of its own.
LEMMA KeptPlaces ==
    ASSUME NEW T, NEW seq \in Seq(T), NEW set
    PROVE  \E place \in [DOMAIN Kept(seq, set) -> DOMAIN seq] :
               /\ \A i, j \in DOMAIN Kept(seq, set) : place[i] = place[j] => i = j
               /\ \A i \in DOMAIN Kept(seq, set) : Kept(seq, set)[i] = seq[place[i]]
<1>1. PICK place \in [DOMAIN Kept(seq, set) -> DOMAIN seq] :
          /\ \A m, n \in DOMAIN Kept(seq, set) : place[m] = place[n] => m = n
          /\ \A n \in DOMAIN Kept(seq, set) :
                 Kept(seq, set)[n] = seq[place[n]] /\ seq[place[n]] \in set
  BY KeptIs
<1> QED
  BY <1>1

\* What follows for the entries and for filters by all there is.
LEMMA KeptWithin ==
    ASSUME NEW T, NEW seq \in Seq(T), NEW set
    PROVE  /\ Kept(seq, set) \in Seq(T)
           /\ \A n \in DOMAIN Kept(seq, set) :
                  /\ Kept(seq, set)[n] \in set
                  /\ \E i \in DOMAIN seq : Kept(seq, set)[n] = seq[i]
           /\ (\E i \in DOMAIN seq : seq[i] \in set) => Kept(seq, set) # <<>>
BY KeptIs

(***************************************************************************)
(* The invariant                                                           *)
(***************************************************************************)
Results == [source: Sources, file: Files]

Memory == [at: Phases, pos: Nat, todo: Seq(Repos), count: Nat, scanned: SUBSET Repos,
           results: Seq(Results), stored: Nat, home: Files \cup {Nobody}, missed: BOOLEAN,
           maps: Seq(Maps), seenMaps: SUBSET Maps, locs: Seq(Maps \cup Pages),
           seenPages: SUBSET Pages, budget: Int, found: SUBSET Repos]

Reading == {"open", "sitemaps", "pages", "scan"}
Storing == {"look", "insert", "save", "add"}

\* Where the memory m of run r stands in its own plan.
InPlan(r, m) ==
    /\ m.pos \in 1..(Len(Plan[r]) + 1)
    /\ m.at \in Reading => m.pos <= Len(Plan[r]) /\ m.stored = 0
    /\ m.count <= Cardinality(m.scanned)
    /\ m.at \in Storing => m.stored < Len(m.results)

\* What the memory m of run r may take for granted of the stored homes.
OnHomes(r, m) ==
    /\ m.at = "insert" =>
           \A i \in DOMAIN homes :
               ~(homes[i].by = r /\ homes[i].name = m.results[m.stored + 1].source)
    /\ m.at \in {"save", "add"} =>
           \E i \in DOMAIN homes :
               homes[i].url = m.home /\ (homes[i].committed \/ homes[i].by = r)

\* The documents that have rows have lasting homes.
Housed ==
    \A d \in Documents : raw[d] > 0 =>
        \E i \in DOMAIN homes : homes[i].url = d.home /\ homes[i].committed

\* Homes differ by url and, for one actor, by name.
Stored ==
    /\ homes \in Seq(Home) /\ raw \in [Documents -> Nat]
    /\ \A i, j \in DOMAIN homes : homes[i].url = homes[j].url => i = j
    /\ OneHomeEach
    /\ Housed

CrawlInv ==
    /\ run \in [Runs -> Memory]
    /\ \A r \in Runs : InPlan(r, run[r]) /\ OnHomes(r, run[r])
    /\ Stored
    /\ failures \in 0..MaxFailures /\ requests \in 0..MaxRequests

(***************************************************************************)
(* What the sources and the web supply                                     *)
(***************************************************************************)
LEMMA RangeWithin ==
    ASSUME NEW T, NEW seq \in Seq(T)
    PROVE  Range(seq) \in SUBSET T
BY DEF Range

LEMMA ForemostWithin ==
    ASSUME NEW T, NEW seq \in Seq(T), NEW set, NEW n
    PROVE  Foremost(seq, set, n) \in SUBSET T
<1>1. \A i \in DOMAIN seq : seq[i] \in T
  OBVIOUS
<1>2. \A x \in Foremost(seq, set, n) : \E i \in DOMAIN seq : x = seq[i]
  BY DEF Foremost
<1> QED
  BY <1>1, <1>2

\* All names a filter looks for are in the range, so it keeps one if there is one.
LEMMA PlanIs ==
    ASSUME NEW r \in Runs
    PROVE  /\ Plan[r] \in Seq(Sources)
           /\ Asked[r] # {} => Len(Plan[r]) > 0
<1>1. /\ Plan[r] = Kept(SourceList, Asked[r])
      /\ SourceList \in Seq(Sources) /\ Asked[r] \in SUBSET Sources
  BY ConfigAssumption, RunsAssumption DEF Plan
<1>2. Plan[r] \in Seq(Sources)
  BY <1>1, KeptWithin
<1>3. ASSUME Asked[r] # {} PROVE \E i \in DOMAIN SourceList : SourceList[i] \in Asked[r]
  BY <1>1, <1>3 DEF Sources, Range
<1>4. Asked[r] # {} => Plan[r] # <<>>
  BY <1>1, <1>3, KeptWithin
<1> QED
  BY <1>2, <1>4

LEMMA EntryIs ==
    ASSUME NEW r \in Runs, run[r].pos \in 1..Len(Plan[r])
    PROVE  Source(r) \in Sources /\ EntryOf(r) \in SourceEntry
BY PlanIs, ConfigAssumption DEF Source, EntryOf

LEMMA SortedIs ==
    ASSUME NEW repos \in SUBSET Repos
    PROVE  Sorted[repos] \in Seq(Repos)
BY KeptWithin, ConfigAssumption DEF Sorted

LEMMA FirstOfIs ==
    ASSUME NEW T, NEW seq \in Seq(T), NEW n \in Nat
    PROVE  FirstOf(seq, n) \in Seq(T)
<1>1. n <= Len(seq) \/ Len(seq) <= n
  OBVIOUS
<1>2. Min({n, Len(seq)}) \in {n, Len(seq)} /\ Min({n, Len(seq)}) <= Len(seq)
  <2>1. \E x \in {n, Len(seq)} : \A y \in {n, Len(seq)} : x <= y
    BY <1>1
  <2> QED
    BY <2>1 DEF Min
<1> DEFINE last == Min({n, Len(seq)})
<1> HIDE DEF last
<1>3. last \in Int /\ last <= Len(seq)
  BY <1>2 DEF last
<1>5. \A i \in 1..last : seq[i] \in T
  BY <1>3
<1>4. SubSeq(seq, 1, last) \in Seq(T)
  BY <1>3, <1>5, SubSeqProperties
<1> QED
  BY <1>4 DEF FirstOf, last

LEMMA CandidatesAre ==
    ASSUME NEW s \in Sources, NEW repo \in Repos
    PROVE  Candidates[s][repo] \in Seq(Files)
<1> DEFINE matching == Kept(RepoFiles[repo], Config[s].paths)
<1>1. Config[s] \in SourceEntry /\ RepoFiles[repo] \in Seq(Files)
  BY ConfigAssumption, WebAssumption
<1>2. matching \in Seq(Files)
  BY <1>1, KeptWithin
<1>3. Config[s].perRepo \in Nat
  BY <1>1 DEF SourceEntry
<1> HIDE DEF matching
<1>4. FirstOf(matching, Config[s].perRepo) \in Seq(Files)
  BY <1>2, <1>3, FirstOfIs
<1>5. Candidates[s][repo] \in {<<>>, FirstOf(matching, Config[s].perRepo), matching}
  BY DEF Candidates, matching
<1>6. <<>> \in Seq(Files)
  OBVIOUS
<1> QED
  BY <1>2, <1>4, <1>5, <1>6

LEMMA ItemsAre ==
    ASSUME NEW s \in Sources, NEW files \in Seq(Files)
    PROVE  Items(s, files) \in Seq(Results)
<1>1. /\ DOMAIN files = 1..Len(files) /\ Len(files) \in Nat
      /\ \A i \in DOMAIN files : [source |-> s, file |-> files[i]] \in Results
  BY DEF Results
<1>2. Items(s, files) \in [1..Len(files) -> Results]
  BY <1>1 DEF Items
<1> QED
  BY <1>1, <1>2, SeqDef

LEMMA ReposFinite ==
    /\ IsFiniteSet(Repos) /\ Cardinality(Repos) \in Nat
    /\ \A set \in SUBSET Repos : /\ IsFiniteSet(set) /\ Cardinality(set) \in Nat
                                 /\ Cardinality(set) <= Cardinality(Repos)
<1>1. RepoOrder \in [1..Len(RepoOrder) -> Repos] /\ Len(RepoOrder) \in Nat
  BY ConfigAssumption
<1>2. \A repo \in Repos : \E i \in 1..Len(RepoOrder) : RepoOrder[i] = repo
  BY <1>1 DEF Repos, Range
<1>3. RepoOrder \in Surjection(1..Len(RepoOrder), Repos)
  BY <1>1, <1>2, Fun_IsSurj
<1>4. IsFiniteSet(Repos)
  BY <1>1, <1>3, FS_Interval, FS_Surjection
<1> QED
  BY <1>4, FS_CardinalityType, FS_Subset

(***************************************************************************)
(* Reading: nothing but one memory changes                                 *)
(***************************************************************************)
LEMMA MemoryStep ==
    ASSUME CrawlInv, NEW r \in Runs, NEW m \in Memory, InPlan(r, m), OnHomes(r, m),
           Goes(r, m), Fine \/ Miss
    PROVE  CrawlInv'
<1>1. /\ run' = [run EXCEPT ![r] = m] /\ homes' = homes /\ raw' = raw
      /\ requests' = requests
  BY DEF Goes
<1>2. run' \in [Runs -> Memory] /\ \A q \in Runs : run'[q] = IF q = r THEN m ELSE run[q]
  BY <1>1 DEF CrawlInv
<1>3. \A q \in Runs : InPlan(q, run'[q]) /\ OnHomes(q, run'[q])
  BY <1>2 DEF CrawlInv
<1>4. \A q \in Runs : (InPlan(q, run[q]) /\ OnHomes(q, run[q]))'
  BY <1>1, <1>3 DEF InPlan, OnHomes
<1>5. Stored'
  BY <1>1 DEF CrawlInv, Stored, OneHomeEach, Housed
<1>6. failures' \in 0..MaxFailures
  BY BoundsAssumption DEF CrawlInv, Fine, Miss
<1> QED
  BY <1>1, <1>2, <1>4, <1>5, <1>6 DEF CrawlInv

\* A run in the course of reading: what its memory is, and that a step which stays
\* in its source keeps InPlan and OnHomes.
LEMMA ReadingIs ==
    ASSUME CrawlInv, NEW r \in Runs, run[r].at \in Reading
    PROVE  /\ run[r] \in Memory /\ run[r].pos \in 1..Len(Plan[r]) /\ run[r].stored = 0
           /\ Source(r) \in Sources /\ EntryOf(r) \in SourceEntry
           /\ run[r].count <= Cardinality(run[r].scanned)
           /\ \A m \in Memory :
                  /\ m.at \in Reading /\ m.pos = run[r].pos /\ m.stored = 0
                  /\ m.count <= Cardinality(m.scanned)
                  => InPlan(r, m) /\ OnHomes(r, m)
<1>1. run[r] \in Memory /\ InPlan(r, run[r])
  BY DEF CrawlInv
<1>2. Len(Plan[r]) \in Nat
  BY PlanIs
<1>3. run[r].pos \in 1..Len(Plan[r]) /\ run[r].stored = 0
  BY <1>1, <1>2 DEF InPlan
<1>4. \A m \in Memory :
          /\ m.at \in Reading /\ m.pos = run[r].pos /\ m.stored = 0
          /\ m.count <= Cardinality(m.scanned)
          => InPlan(r, m) /\ OnHomes(r, m)
  BY <1>2, <1>3 DEF InPlan, OnHomes, Reading, Storing
<1> QED
  BY <1>1, <1>3, <1>4, EntryIs DEF InPlan

LEMMA OnwardIs ==
    ASSUME NEW r \in Runs, NEW m \in Memory, m.pos \in 1..Len(Plan[r]), m.stored = 0
    PROVE  Onward(m, r) \in Memory /\ InPlan(r, Onward(m, r)) /\ OnHomes(r, Onward(m, r))
<1> DEFINE o == Onward(m, r)
<1>1. Len(Plan[r]) \in Nat /\ m.pos \in Nat
  BY PlanIs
<1>2. o \in Memory
  <2> DEFINE at == IF m.pos < Len(Plan[r]) THEN "open"
                   ELSE IF m.results = <<>> THEN "idle" ELSE "look"
  <2>1. o = [m EXCEPT !.pos = @ + 1, !.todo = <<>>, !.count = 0,
                      !.maps = <<>>, !.seenMaps = {}, !.locs = <<>>, !.seenPages = {},
                      !.budget = 0, !.found = {}, !.at = at]
    BY DEF Onward
  <2>2. at \in Phases
    BY DEF Phases
  <2>3. m.pos + 1 \in Nat /\ 0 \in Nat /\ 0 \in Int
    BY <1>1
  <2>4. <<>> \in Seq(Repos) /\ <<>> \in Seq(Maps) /\ <<>> \in Seq(Maps \cup Pages)
    OBVIOUS
  <2>5. {} \in SUBSET Repos /\ {} \in SUBSET Maps /\ {} \in SUBSET Pages
    OBVIOUS
  <2> HIDE DEF at, o
  <2> QED
    BY <2>1, <2>2, <2>3, <2>4, <2>5 DEF Memory
<1>3. /\ o.pos = m.pos + 1 /\ o.count = 0 /\ o.stored = 0 /\ o.results = m.results
      /\ o.scanned = m.scanned
      /\ o.at = IF m.pos < Len(Plan[r]) THEN "open"
                ELSE IF m.results = <<>> THEN "idle" ELSE "look"
  BY DEF Onward, Memory
<1>4. m.results \in Seq(Results) /\ m.scanned \in SUBSET Repos
  BY DEF Memory
<1>5. m.results # <<>> => 0 < Len(m.results)
  BY <1>4
<1> HIDE DEF o
<1>6. InPlan(r, o)
  BY <1>1, <1>3, <1>4, <1>5, ReposFinite DEF InPlan, Reading, Storing
<1>7. OnHomes(r, o)
  BY <1>3 DEF OnHomes
<1> QED
  BY <1>2, <1>6, <1>7 DEF o

\* The steps of a source: run_ingest_sources.
LEMMA OpeningKeeps ==
    ASSUME CrawlInv, NEW r \in Runs
    PROVE  /\ SourceFails(r) => CrawlInv'
           /\ OpenList(r) => CrawlInv'
           /\ OpenRepo(r) => CrawlInv'
           /\ OpenDirectory(r) => CrawlInv'
           /\ OpenSearch(r) => CrawlInv'
           /\ OpenPage(r) => CrawlInv'
<1> SUFFICES ASSUME run[r].at = "open" PROVE
           /\ SourceFails(r) => CrawlInv'
           /\ OpenList(r) => CrawlInv'
           /\ OpenRepo(r) => CrawlInv'
           /\ OpenDirectory(r) => CrawlInv'
           /\ OpenSearch(r) => CrawlInv'
           /\ OpenPage(r) => CrawlInv'
  BY DEF SourceFails, OpenList, OpenRepo, OpenDirectory, OpenSearch, OpenPage, Opening
<1> DEFINE e == EntryOf(r)
           s == Source(r)
<1>1. /\ run[r] \in Memory /\ run[r].pos \in 1..Len(Plan[r]) /\ run[r].stored = 0
      /\ s \in Sources /\ e \in SourceEntry /\ e = Config[s]
      /\ run[r].count <= Cardinality(run[r].scanned)
  BY ReadingIs DEF Reading, EntryOf
<1>2. \A m \in Memory :
          /\ m.at \in Reading /\ m.pos = run[r].pos /\ m.stored = 0
          /\ m.count = run[r].count /\ m.scanned = run[r].scanned
          => InPlan(r, m) /\ OnHomes(r, m)
  BY ReadingIs DEF Reading
<1>3. /\ e.listed \in Seq(Repos) /\ e.direct \in Seq(Files) /\ e.pages \in Int /\ e.cap \in Nat
      /\ e.kind = "web_directory" => e.map \in Maps
      /\ e.kind = "page" => e.page \in Files
  BY <1>1, ConfigAssumption DEF SourceEntry
<1> HIDE DEF e, s
<1>a. ASSUME SourceFails(r) PROVE CrawlInv'
  <2> DEFINE m == [run[r] EXCEPT !.missed = TRUE]
  <2>1. m \in Memory /\ m.pos = run[r].pos /\ m.stored = 0
    BY <1>1 DEF Memory
  <2>2. Goes(r, Onward(m, r)) /\ Miss
    BY <1>a DEF SourceFails
  <2> HIDE DEF m
  <2>3. Onward(m, r) \in Memory /\ InPlan(r, Onward(m, r)) /\ OnHomes(r, Onward(m, r))
    BY <1>1, <2>1, OnwardIs
  <2> QED
    BY <2>2, <2>3, MemoryStep
<1>b. ASSUME OpenList(r) PROVE CrawlInv'
  <2>1. PICK got \in SUBSET Range(e.direct) :
           LET m == [run[r] EXCEPT !.results = @ \o Items(s, Kept(e.direct, got)),
                                   !.missed = @ \/ got # Range(e.direct)]
           IN  /\ IF got = Range(e.direct) THEN Fine ELSE Miss
               /\ Goes(r, IF e.scan THEN [m EXCEPT !.todo = e.listed, !.at = "scan"]
                         ELSE Onward(m, r))
    BY <1>b DEF OpenList, e, s
  <2> DEFINE new == Items(s, Kept(e.direct, got))
             m == [run[r] EXCEPT !.results = @ \o new,
                                 !.missed = @ \/ got # Range(e.direct)]
             n == [m EXCEPT !.todo = e.listed, !.at = "scan"]
  <2>2. new \in Seq(Results)
    BY <1>1, <1>3, KeptWithin, ItemsAre
  <2>3. Goes(r, IF e.scan THEN n ELSE Onward(m, r)) /\ (Fine \/ Miss)
    BY <2>1
  <2> HIDE DEF new
  <2>c. run[r].results \in Seq(Results) /\ run[r].results \o new \in Seq(Results)
    BY <1>1, <2>2 DEF Memory
  <2>4. /\ m \in Memory /\ m.pos = run[r].pos /\ m.stored = 0
        /\ m.count = run[r].count /\ m.scanned = run[r].scanned
    BY <1>1, <2>c DEF Memory
  <2> HIDE DEF m
  <2>5. /\ n \in Memory /\ n.at = "scan" /\ n.pos = run[r].pos /\ n.stored = 0
        /\ n.count = run[r].count /\ n.scanned = run[r].scanned
    BY <1>3, <2>4 DEF Memory, Phases
  <2> HIDE DEF n
  <2>6. InPlan(r, n) /\ OnHomes(r, n)
    BY <1>2, <2>5 DEF Reading
  <2>7. Onward(m, r) \in Memory /\ InPlan(r, Onward(m, r)) /\ OnHomes(r, Onward(m, r))
    BY <1>1, <2>4, OnwardIs
  <2> QED
    BY <2>3, <2>5, <2>6, <2>7, MemoryStep
<1>c. ASSUME OpenRepo(r) PROVE CrawlInv'
  <2> DEFINE m == [run[r] EXCEPT !.todo = e.listed, !.at = "scan"]
  <2>1. /\ m \in Memory /\ m.at = "scan" /\ m.pos = run[r].pos /\ m.stored = 0
        /\ m.count = run[r].count /\ m.scanned = run[r].scanned
    BY <1>1, <1>3 DEF Memory, Phases
  <2>2. Goes(r, m) /\ Fine
    BY <1>c DEF OpenRepo, e
  <2> HIDE DEF m
  <2>3. InPlan(r, m) /\ OnHomes(r, m)
    BY <1>2, <2>1 DEF Reading
  <2> QED
    BY <2>1, <2>2, <2>3, MemoryStep
<1>d. ASSUME OpenDirectory(r) PROVE CrawlInv'
  <2>1. PICK answers \in BOOLEAN :
           LET m == [run[r] EXCEPT !.found = IF answers THEN Range(e.listed) ELSE {},
                                   !.missed = @ \/ ~answers]
           IN  /\ IF answers THEN Fine ELSE Miss
               /\ Goes(r, IF e.pages <= 0
                         THEN [m EXCEPT !.todo = Sorted[m.found], !.at = "scan"]
                         ELSE [m EXCEPT !.maps = <<e.map>>, !.budget = e.pages, !.at = "sitemaps"])
    BY <1>d DEF OpenDirectory, e
  <2> DEFINE found == IF answers THEN Range(e.listed) ELSE {}
             m == [run[r] EXCEPT !.found = found, !.missed = @ \/ ~answers]
             n == [m EXCEPT !.todo = Sorted[found], !.at = "scan"]
             o == [m EXCEPT !.maps = <<e.map>>, !.budget = e.pages, !.at = "sitemaps"]
  <2>2. found \in SUBSET Repos
    BY <1>3, RangeWithin
  <2>3. Sorted[found] \in Seq(Repos)
    BY <2>2, SortedIs
  <2>4. e.kind = "web_directory"
    BY <1>d DEF OpenDirectory, Opening, e
  <2> HIDE DEF found
  <2>5. /\ m \in Memory /\ m.pos = run[r].pos /\ m.stored = 0 /\ m.found = found
        /\ m.count = run[r].count /\ m.scanned = run[r].scanned
    BY <1>1, <2>2 DEF Memory
  <2>6. Goes(r, IF e.pages <= 0 THEN n ELSE o) /\ (Fine \/ Miss)
    BY <2>1, <2>5 DEF found
  <2> HIDE DEF m
  <2>7. /\ n \in Memory /\ n.at = "scan" /\ n.pos = run[r].pos /\ n.stored = 0
        /\ n.count = run[r].count /\ n.scanned = run[r].scanned
    BY <2>3, <2>5 DEF Memory, Phases
  <2>8. /\ o \in Memory /\ o.at = "sitemaps" /\ o.pos = run[r].pos /\ o.stored = 0
        /\ o.count = run[r].count /\ o.scanned = run[r].scanned
    <3>1. <<e.map>> \in Seq(Maps)
      BY <1>3, <2>4
    <3> QED
      BY <1>3, <2>5, <3>1 DEF Memory, Phases
  <2> HIDE DEF n, o
  <2>9. InPlan(r, n) /\ OnHomes(r, n) /\ InPlan(r, o) /\ OnHomes(r, o)
    BY <1>2, <2>7, <2>8 DEF Reading
  <2> QED
    BY <2>6, <2>7, <2>8, <2>9, MemoryStep
<1>e. ASSUME OpenSearch(r) PROVE CrawlInv'
  <2>1. PICK got \in SUBSET Range(e.listed) :
           /\ IF got = Range(e.listed) THEN Fine ELSE Miss
           /\ Goes(r, [run[r] EXCEPT !.todo = Sorted[Foremost(e.listed, got, e.cap)],
                                     !.missed = @ \/ got # Range(e.listed), !.at = "scan"])
    BY <1>e DEF OpenSearch, e
  <2> DEFINE hits == Foremost(e.listed, got, e.cap)
             m == [run[r] EXCEPT !.todo = Sorted[hits],
                                 !.missed = @ \/ got # Range(e.listed), !.at = "scan"]
  <2>2. hits \in SUBSET Repos
    BY <1>3, ForemostWithin
  <2>3. Goes(r, m) /\ (Fine \/ Miss)
    BY <2>1
  <2> HIDE DEF hits
  <2>4. /\ m \in Memory /\ m.at = "scan" /\ m.pos = run[r].pos /\ m.stored = 0
        /\ m.count = run[r].count /\ m.scanned = run[r].scanned
    BY <1>1, <2>2, SortedIs DEF Memory, Phases
  <2> HIDE DEF m
  <2>5. InPlan(r, m) /\ OnHomes(r, m)
    BY <1>2, <2>4 DEF Reading
  <2> QED
    BY <2>3, <2>4, <2>5, MemoryStep
<1>f. ASSUME OpenPage(r) PROVE CrawlInv'
  <2> DEFINE new == Items(s, <<e.page>>)
             m == [run[r] EXCEPT !.results = @ \o new]
  <2>1. e.page \in Files
    BY <1>3, <1>f DEF OpenPage, Opening, e
  <2>2. new \in Seq(Results)
    <3>1. <<e.page>> \in Seq(Files)
      BY <2>1
    <3> QED
      BY <1>1, <3>1, ItemsAre
  <2>3. Goes(r, Onward(m, r)) /\ Fine
    BY <1>f DEF OpenPage, e, s
  <2> HIDE DEF new
  <2>c. run[r].results \in Seq(Results) /\ run[r].results \o new \in Seq(Results)
    BY <1>1, <2>2 DEF Memory
  <2>4. m \in Memory /\ m.pos = run[r].pos /\ m.stored = 0
    BY <1>1, <2>c DEF Memory
  <2> HIDE DEF m
  <2>5. Onward(m, r) \in Memory /\ InPlan(r, Onward(m, r)) /\ OnHomes(r, Onward(m, r))
    BY <1>1, <2>4, OnwardIs
  <2> QED
    BY <2>3, <2>5, MemoryStep
<1> QED
  BY <1>a, <1>b, <1>c, <1>d, <1>e, <1>f

\* Walking the sitemaps of a directory.
LEMMA SitemapsKeep ==
    ASSUME CrawlInv, NEW r \in Runs
    PROVE  /\ ReadSitemap(r) => CrawlInv'
           /\ VisitLoc(r) => CrawlInv'
           /\ CloseSitemap(r) => CrawlInv'
           /\ CloseDirectory(r) => CrawlInv'
<1> DEFINE Within(m) == /\ m \in Memory /\ m.at \in Reading
                        /\ m.pos = run[r].pos /\ m.stored = 0
                        /\ m.count = run[r].count /\ m.scanned = run[r].scanned
<1>0. ASSUME run[r].at \in Reading, NEW m, Within(m), Goes(r, m), Fine \/ Miss PROVE CrawlInv'
  <2>1. InPlan(r, m) /\ OnHomes(r, m)
    BY <1>0, ReadingIs
  <2> QED
    BY <1>0, <2>1, MemoryStep
<1>1. ASSUME run[r].at \in Reading PROVE run[r] \in Memory /\ run[r].stored = 0
  BY <1>1, ReadingIs
<1>a. ASSUME ReadSitemap(r) PROVE CrawlInv'
  <2> DEFINE map == Head(run[r].maps)
             m == [run[r] EXCEPT !.maps = Tail(@), !.seenMaps = @ \cup {map}]
             opened == [m EXCEPT !.locs = Locs[map], !.at = "pages"]
             failed == [m EXCEPT !.missed = TRUE]
  <2>1. run[r].at = "sitemaps" /\ run[r].at \in Reading /\ run[r].maps # <<>>
    BY <1>a DEF ReadSitemap, Reading
  <2>2. run[r] \in Memory /\ run[r].stored = 0
    BY <1>1, <2>1
  <2>3. map \in Maps /\ Tail(run[r].maps) \in Seq(Maps) /\ Locs[map] \in Seq(Maps \cup Pages)
    <3>1. run[r].maps \in Seq(Maps)
      BY <2>2 DEF Memory
    <3>2. map \in Maps /\ Tail(run[r].maps) \in Seq(Maps)
      BY <2>1, <3>1
    <3> QED
      BY <3>2, WebAssumption
  <2>4. \E n \in {m, opened, failed} : Goes(r, n) /\ (Fine \/ Miss)
    BY <1>a DEF ReadSitemap
  <2> HIDE DEF map
  <2>5. Within(m)
    BY <2>1, <2>2, <2>3 DEF Memory
  <2> HIDE DEF m
  <2>6. Within(opened) /\ Within(failed)
    BY <2>3, <2>5 DEF Memory, Phases, Reading
  <2> HIDE DEF opened, failed, Within
  <2> QED
    BY <1>0, <2>1, <2>4, <2>5, <2>6
<1>b. ASSUME VisitLoc(r) PROVE CrawlInv'
  <2> DEFINE loc == Head(run[r].locs)
             m == [run[r] EXCEPT !.locs = Tail(@)]
             v == [m EXCEPT !.seenPages = @ \cup {loc}, !.budget = @ - 1]
             queued == [m EXCEPT !.maps = Append(@, loc)]
             ended == [v EXCEPT !.locs = <<>>]
             read == [v EXCEPT !.found = @ \cup PageRepos[loc]]
             failed == [v EXCEPT !.missed = TRUE]
  <2>1. run[r].at = "pages" /\ run[r].at \in Reading /\ run[r].locs # <<>>
    BY <1>b DEF VisitLoc, Reading
  <2>2. run[r] \in Memory /\ run[r].stored = 0
    BY <1>1, <2>1
  <2>3. loc \in Maps \cup Pages /\ Tail(run[r].locs) \in Seq(Maps \cup Pages)
    <3>1. run[r].locs \in Seq(Maps \cup Pages)
      BY <2>2 DEF Memory
    <3> QED
      BY <2>1, <3>1
  <2>4. \/ Goes(r, m) /\ (Fine \/ Miss)
        \/ loc \in Maps /\ Goes(r, queued) /\ (Fine \/ Miss)
        \/ loc \in Pages /\ \E n \in {ended, read, failed} : Goes(r, n) /\ (Fine \/ Miss)
    BY <1>b DEF VisitLoc
  <2> HIDE DEF loc
  <2>5. Within(m)
    BY <2>1, <2>2, <2>3 DEF Memory
  <2> HIDE DEF m
  <2>6. ASSUME loc \in Maps PROVE Within(queued)
    <3>1. m.maps \in Seq(Maps) /\ Append(m.maps, loc) \in Seq(Maps)
      BY <2>5, <2>6 DEF Memory
    <3> QED
      BY <2>5, <3>1 DEF Memory
  <2>7. ASSUME loc \in Pages PROVE Within(ended) /\ Within(read) /\ Within(failed)
    <3>1. m.budget \in Int /\ m.budget - 1 \in Int /\ m.seenPages \cup {loc} \in SUBSET Pages
      BY <2>5, <2>7 DEF Memory
    <3>2. Within(v)
      BY <2>5, <3>1 DEF Memory
    <3> HIDE DEF v
    <3>3. v.found \cup PageRepos[loc] \in SUBSET Repos
      BY <2>7, <3>2, WebAssumption DEF Memory
    <3>4. <<>> \in Seq(Maps \cup Pages)
      OBVIOUS
    <3> QED
      BY <3>2, <3>3, <3>4 DEF Memory
  <2> HIDE DEF queued, ended, read, failed, Within
  <2> QED
    BY <1>0, <2>1, <2>4, <2>5, <2>6, <2>7
<1>c. ASSUME CloseSitemap(r) PROVE CrawlInv'
  <2> DEFINE m == [run[r] EXCEPT !.at = "sitemaps"]
  <2>1. run[r].at \in Reading /\ Goes(r, m) /\ Fine
    BY <1>c DEF CloseSitemap, Reading
  <2>2. Within(m)
    BY <1>1, <2>1 DEF Memory, Phases, Reading
  <2> HIDE DEF m, Within
  <2> QED
    BY <1>0, <2>1, <2>2
<1>d. ASSUME CloseDirectory(r) PROVE CrawlInv'
  <2> DEFINE m == [run[r] EXCEPT !.todo = Sorted[run[r].found], !.at = "scan"]
  <2>1. run[r].at \in Reading /\ Goes(r, m) /\ Fine
    BY <1>d DEF CloseDirectory, Reading
  <2>2. run[r] \in Memory /\ run[r].stored = 0
    BY <1>1, <2>1
  <2>3. Sorted[run[r].found] \in Seq(Repos)
    <3>1. run[r].found \in SUBSET Repos
      BY <2>2 DEF Memory
    <3> QED
      BY <3>1, SortedIs
  <2>4. Within(m)
    BY <2>2, <2>3 DEF Memory, Phases, Reading
  <2> HIDE DEF m, Within
  <2> QED
    BY <1>0, <2>1, <2>4
<1> QED
  BY <1>a, <1>b, <1>c, <1>d

\* Scanning the repositories of a source.
LEMMA ScanningKeeps ==
    ASSUME CrawlInv, NEW r \in Runs
    PROVE  /\ SkipRepo(r) => CrawlInv'
           /\ ScanRepo(r) => CrawlInv'
           /\ CloseSource(r) => CrawlInv'
<1> SUFFICES ASSUME run[r].at = "scan" PROVE
           /\ SkipRepo(r) => CrawlInv'
           /\ ScanRepo(r) => CrawlInv'
           /\ CloseSource(r) => CrawlInv'
  BY DEF SkipRepo, ScanRepo, CloseSource
<1>1. /\ run[r] \in Memory /\ run[r].pos \in 1..Len(Plan[r]) /\ run[r].stored = 0
      /\ Source(r) \in Sources
      /\ run[r].count <= Cardinality(run[r].scanned)
  BY ReadingIs DEF Reading
<1>2. \A m \in Memory :
          /\ m.at = "scan" /\ m.pos = run[r].pos /\ m.stored = 0
          /\ m.count <= Cardinality(m.scanned)
          => InPlan(r, m) /\ OnHomes(r, m)
  BY ReadingIs DEF Reading
<1>3. /\ run[r].todo \in Seq(Repos)
      /\ run[r].todo # <<>> => Head(run[r].todo) \in Repos /\ Tail(run[r].todo) \in Seq(Repos)
  <2>1. run[r].todo \in Seq(Repos)
    BY <1>1 DEF Memory
  <2> QED
    BY <2>1
<1>a. ASSUME SkipRepo(r) PROVE CrawlInv'
  <2> DEFINE m == [run[r] EXCEPT !.todo = Tail(@)]
  <2>1. Goes(r, m) /\ Fine /\ run[r].todo # <<>>
    BY <1>a DEF SkipRepo
  <2>2. /\ m \in Memory /\ m.at = "scan" /\ m.pos = run[r].pos /\ m.stored = 0
        /\ m.count <= Cardinality(m.scanned)
    BY <1>1, <1>3, <2>1 DEF Memory
  <2> HIDE DEF m
  <2> QED
    BY <1>2, <2>1, <2>2, MemoryStep
<1>b. ASSUME ScanRepo(r) PROVE CrawlInv'
  <2> DEFINE repo == Head(run[r].todo)
             all  == Candidates[Source(r)][repo]
             Scanned(files, miss) ==
                 [run[r] EXCEPT !.todo = Tail(@), !.count = @ + 1, !.scanned = @ \cup {repo},
                                !.results = @ \o Items(Source(r), files), !.missed = @ \/ miss]
  <2>1. run[r].todo # <<>> /\ repo \notin run[r].scanned
    BY <1>b DEF ScanRepo
  <2>2. PICK got \in SUBSET Range(all) :
           /\ IF got = Range(all) THEN Fine ELSE Miss
           /\ Goes(r, Scanned(Kept(all, got), got # Range(all)))
    BY <1>b DEF ScanRepo
  <2> DEFINE new == Items(Source(r), Kept(all, got))
             m == [run[r] EXCEPT !.todo = Tail(@), !.count = @ + 1, !.scanned = @ \cup {repo},
                                 !.results = @ \o new, !.missed = @ \/ got # Range(all)]
  <2>3. Goes(r, m) /\ (Fine \/ Miss)
    BY <2>2
  <2>4. all \in Seq(Files)
    BY <1>1, <1>3, <2>1, CandidatesAre
  <2> HIDE DEF all
  <2>5. new \in Seq(Results)
    BY <1>1, <2>4, KeptWithin, ItemsAre
  <2> HIDE DEF new, repo
  <2>6. run[r].results \o new \in Seq(Results)
    <3>1. run[r].results \in Seq(Results)
      BY <1>1 DEF Memory
    <3> QED
      BY <2>5, <3>1
  <2>7. /\ repo \in Repos /\ Tail(run[r].todo) \in Seq(Repos)
    BY <1>3, <2>1 DEF repo
  <2>8. run[r].scanned \in SUBSET Repos /\ run[r].count \in Nat
    BY <1>1 DEF Memory
  <2>9. Cardinality(run[r].scanned \cup {repo}) = Cardinality(run[r].scanned) + 1
    <3>1. IsFiniteSet(run[r].scanned)
      BY <2>8, ReposFinite
    <3> QED
      BY <2>1, <3>1, FS_AddElement
  <2>a. run[r].scanned \cup {repo} \in SUBSET Repos /\ run[r].count + 1 \in Nat
    BY <2>7, <2>8
  <2>10. /\ m \in Memory /\ m.at = "scan" /\ m.pos = run[r].pos /\ m.stored = 0
         /\ m.count = run[r].count + 1 /\ m.scanned = run[r].scanned \cup {repo}
    BY <1>1, <2>6, <2>7, <2>a DEF Memory
  <2> HIDE DEF m
  <2>11. m.count <= Cardinality(m.scanned)
    <3>1. Cardinality(run[r].scanned) \in Nat
      BY <2>8, ReposFinite
    <3> QED
      BY <1>1, <2>8, <2>9, <2>10, <3>1
  <2> QED
    BY <1>2, <2>3, <2>10, <2>11, MemoryStep
<1>c. ASSUME CloseSource(r) PROVE CrawlInv'
  <2>1. Goes(r, Onward(run[r], r)) /\ Fine
    BY <1>c DEF CloseSource
  <2> QED
    BY <1>1, <2>1, OnwardIs, MemoryStep
<1> QED
  BY <1>a, <1>b, <1>c

(***************************************************************************)
(* Storing: the homes change                                               *)
(***************************************************************************)
LEMMA StoringIs ==
    ASSUME CrawlInv, NEW r \in Runs, run[r].at \in Storing
    PROVE  /\ run[r] \in Memory /\ run[r].pos \in 1..(Len(Plan[r]) + 1)
           /\ run[r].count <= Cardinality(run[r].scanned)
           /\ run[r].results \in Seq(Results) /\ run[r].stored \in Nat
           /\ run[r].stored < Len(run[r].results)
           /\ Item(r) \in Results
<1>1. /\ run[r] \in Memory /\ run[r].pos \in 1..(Len(Plan[r]) + 1)
      /\ run[r].count <= Cardinality(run[r].scanned)
      /\ run[r].stored < Len(run[r].results)
  BY DEF CrawlInv, InPlan
<1>2. run[r].results \in Seq(Results) /\ run[r].stored \in Nat
  BY <1>1 DEF Memory
<1>3. run[r].stored + 1 \in 1..Len(run[r].results)
  BY <1>1, <1>2
<1> QED
  BY <1>1, <1>2, <1>3 DEF Item

LEMMA IdleIs ==
    ASSUME NEW r \in Runs
    PROVE  Idle \in Memory /\ InPlan(r, Idle)
<1>1. Len(Plan[r]) \in Nat
  BY PlanIs
<1>2. Idle \in Memory
  <2>1. /\ \A T : <<>> \in Seq(T) /\ {} \in SUBSET T
        /\ 0 \in Nat /\ 1 \in Nat /\ 0 \in Int
    OBVIOUS
  <2> QED
    BY <2>1 DEF Idle, Memory, Phases
<1>3. InPlan(r, Idle)
  BY <1>1, FS_EmptySet DEF Idle, InPlan, Reading, Storing
<1> QED
  BY <1>2, <1>3

LEMMA StartKeeps ==
    ASSUME CrawlInv, NEW r \in Runs, Start(r)
    PROVE  CrawlInv'
<1> DEFINE m == [Idle EXCEPT !.at = "open"]
<1>1. /\ run' = [run EXCEPT ![r] = m] /\ homes' = homes /\ raw' = raw
      /\ failures' = failures /\ Asked[r] # {}
      /\ \/ requests' = requests
         \/ requests < MaxRequests /\ requests' = requests + 1
  BY DEF Start
<1>2. Len(Plan[r]) \in Nat /\ Len(Plan[r]) > 0
  BY <1>1, PlanIs
<1>3. /\ m \in Memory /\ m.at = "open" /\ m.pos = 1 /\ m.stored = 0
      /\ m.count = 0 /\ m.scanned = {}
  BY IdleIs DEF Memory, Idle, Phases
<1> HIDE DEF m
<1>4. InPlan(r, m) /\ OnHomes(r, m)
  BY <1>2, <1>3, FS_EmptySet DEF InPlan, OnHomes, Reading, Storing
<1>5. run' \in [Runs -> Memory] /\ \A q \in Runs : run'[q] = IF q = r THEN m ELSE run[q]
  BY <1>1, <1>3 DEF CrawlInv
<1>6. \A q \in Runs : InPlan(q, run'[q]) /\ OnHomes(q, run'[q])
  BY <1>4, <1>5 DEF CrawlInv
<1>7. \A q \in Runs : (InPlan(q, run[q]) /\ OnHomes(q, run[q]))'
  BY <1>1, <1>6 DEF InPlan, OnHomes
<1>8. Stored'
  BY <1>1 DEF CrawlInv, Stored, OneHomeEach, Housed
<1>9. requests' \in 0..MaxRequests
  BY <1>1, BoundsAssumption DEF CrawlInv
<1> QED
  BY <1>1, <1>5, <1>7, <1>8, <1>9 DEF CrawlInv

LEMMA LookUpKeeps ==
    ASSUME CrawlInv, NEW r \in Runs, LookUpSource(r)
    PROVE  CrawlInv'
<1> DEFINE found == HomesOf(r, Item(r).source, Item(r).file)
           i     == [run[r] EXCEPT !.at = "insert"]
           s     == [run[r] EXCEPT !.at = "save", !.home = homes[Min(found)].url]
<1>1. /\ run[r].at = "look" /\ Fine
      /\ Goes(r, IF found = {} THEN i ELSE s)
  BY DEF LookUpSource
<1>2. /\ run[r] \in Memory /\ run[r].pos \in 1..(Len(Plan[r]) + 1)
      /\ run[r].count <= Cardinality(run[r].scanned)
      /\ run[r].results \in Seq(Results) /\ run[r].stored \in Nat
      /\ run[r].stored < Len(run[r].results)
      /\ Item(r) \in Results
  BY <1>1, StoringIs DEF Storing
<1>3. homes \in Seq(Home) /\ DOMAIN homes = 1..Len(homes) /\ Len(homes) \in Nat
  BY DEF CrawlInv, Stored
<1>4. /\ found \in SUBSET (1..Len(homes))
      /\ \A j \in found : homes[j].committed \/ homes[j].by = r
  BY <1>3 DEF HomesOf, Visible
<1>5. ASSUME found = {} PROVE CrawlInv'
  <2>1. \A j \in DOMAIN homes : ~(homes[j].by = r /\ homes[j].name = Item(r).source)
    BY <1>5 DEF HomesOf, Visible
  <2>2. /\ i \in Memory /\ i.at = "insert" /\ i.pos = run[r].pos /\ i.count = run[r].count
        /\ i.scanned = run[r].scanned /\ i.stored = run[r].stored
        /\ i.results = run[r].results
    BY <1>2 DEF Memory, Phases
  <2>3. Goes(r, i)
    BY <1>1, <1>5
  <2> HIDE DEF i
  <2>4. InPlan(r, i) /\ OnHomes(r, i)
    BY <1>2, <2>1, <2>2 DEF InPlan, OnHomes, Reading, Storing, Item
  <2> QED
    BY <1>1, <2>2, <2>3, <2>4, MemoryStep
<1>6. ASSUME found # {} PROVE CrawlInv'
  <2> HIDE DEF found
  <2>1. found \in SUBSET (Nat \ {0}) /\ IsFiniteSet(found)
    <3>1. IsFiniteSet(1..Len(homes))
      BY <1>3, FS_Interval
    <3>2. IsFiniteSet(found)
      BY <1>4, <3>1, FS_Subset
    <3> QED
      BY <1>3, <1>4, <3>2
  <2>2. Min(found) \in found
    BY <1>6, <2>1, LeastIsPlace
  <2>3. Min(found) \in DOMAIN homes /\ homes[Min(found)] \in Home
    <3>1. \A j \in 1..Len(homes) : homes[j] \in Home
      BY <1>3
    <3>2. Min(found) \in 1..Len(homes)
      BY <1>4, <2>2
    <3> QED
      BY <1>3, <3>1, <3>2
  <2>4. homes[Min(found)].url \in Files
    BY <2>3 DEF Home
  <2>5. /\ s \in Memory /\ s.at = "save" /\ s.pos = run[r].pos /\ s.count = run[r].count
        /\ s.scanned = run[r].scanned /\ s.stored = run[r].stored
        /\ s.results = run[r].results /\ s.home = homes[Min(found)].url
    BY <1>2, <2>4 DEF Memory, Phases
  <2>6. Goes(r, s)
    BY <1>1, <1>6
  <2> HIDE DEF s
  <2>7. InPlan(r, s)
    BY <1>2, <2>5 DEF InPlan, Reading, Storing
  <2>8. OnHomes(r, s)
    BY <1>4, <2>2, <2>3, <2>5 DEF OnHomes
  <2> QED
    BY <1>1, <2>5, <2>6, <2>7, <2>8, MemoryStep
<1> QED
  BY <1>5, <1>6

\* A new home ends up behind the others: with a url no other has, and a name its
\* run had not used.
LEMMA InsertKeeps ==
    ASSUME CrawlInv, NEW r \in Runs, InsertSource(r)
    PROVE  CrawlInv'
<1> DEFINE f    == Item(r).file
           home == [name |-> Item(r).source, url |-> f, by |-> r, committed |-> FALSE]
           same == {i \in DOMAIN homes : homes[i].url = f}
           m    == [run[r] EXCEPT !.at = "save", !.home = f]
<1>1. /\ run[r].at = "insert"
      /\ run' = [run EXCEPT ![r] = IF same = {} THEN m ELSE Idle]
      /\ homes' = IF same = {} THEN Append(homes, home) ELSE homes
      /\ raw' = raw /\ failures' = failures /\ requests' = requests
  BY DEF InsertSource
<1>2. /\ run[r] \in Memory /\ run[r].pos \in 1..(Len(Plan[r]) + 1)
      /\ run[r].count <= Cardinality(run[r].scanned)
      /\ run[r].stored < Len(run[r].results)
      /\ Item(r) \in Results
  BY <1>1, StoringIs DEF Storing
<1>3. /\ homes \in Seq(Home) /\ DOMAIN homes = 1..Len(homes) /\ Len(homes) \in Nat
      /\ Stored /\ run \in [Runs -> Memory]
      /\ \A q \in Runs : InPlan(q, run[q]) /\ OnHomes(q, run[q])
  BY DEF CrawlInv, Stored
<1>4. home \in Home /\ home.url = f /\ home.by = r /\ home.name = Item(r).source
  BY <1>2 DEF Home, Results
<1>5. \A i \in DOMAIN homes : ~(homes[i].by = r /\ homes[i].name = Item(r).source)
  BY <1>1, <1>3 DEF OnHomes, Item
<1>6. CASE same # {}
  <2>1. run' = [run EXCEPT ![r] = Idle] /\ homes' = homes
    BY <1>1, <1>6
  <2>2. Idle \in Memory /\ InPlan(r, Idle) /\ OnHomes(r, Idle)
    BY IdleIs DEF Idle, OnHomes
  <2>3. run' \in [Runs -> Memory] /\ \A q \in Runs : run'[q] = IF q = r THEN Idle ELSE run[q]
    BY <1>3, <2>1, <2>2
  <2>4. \A q \in Runs : InPlan(q, run'[q]) /\ OnHomes(q, run'[q])
    BY <1>3, <2>2, <2>3
  <2>5. \A q \in Runs : (InPlan(q, run[q]) /\ OnHomes(q, run[q]))'
    BY <2>1, <2>4 DEF InPlan, OnHomes
  <2>6. Stored'
    BY <1>1, <1>3, <2>1 DEF Stored, OneHomeEach, Housed
  <2> QED
    BY <1>1, <2>3, <2>5, <2>6 DEF CrawlInv
<1>7. CASE same = {}
  <2>1. run' = [run EXCEPT ![r] = m] /\ homes' = Append(homes, home)
    BY <1>1, <1>7
  <2>2. \A i \in DOMAIN homes : homes[i].url # f
    BY <1>7
  <2>3. /\ m \in Memory /\ m.at = "save" /\ m.pos = run[r].pos /\ m.count = run[r].count
        /\ m.scanned = run[r].scanned /\ m.stored = run[r].stored
        /\ m.results = run[r].results /\ m.home = f
    BY <1>2 DEF Memory, Phases, Results
  <2>4. InPlan(r, m)
    BY <1>2, <2>3 DEF InPlan, Reading, Storing
  <2> HIDE DEF home, m, same, f
  <2>5. /\ homes' \in Seq(Home) /\ DOMAIN homes' = 1..(Len(homes) + 1)
        /\ \A i \in 1..Len(homes) : homes'[i] = homes[i]
        /\ homes'[Len(homes) + 1] = home
    BY <1>3, <1>4, <2>1
  <2>6. \A i \in DOMAIN homes' :
            \/ i \in DOMAIN homes /\ homes'[i] = homes[i]
            \/ i = Len(homes) + 1 /\ homes'[i] = home
    BY <1>3, <2>5
  <2>7. \A i \in DOMAIN homes : i \in DOMAIN homes' /\ homes'[i] = homes[i]
    BY <1>3, <2>5
  <2>8. run' \in [Runs -> Memory] /\ \A q \in Runs : run'[q] = IF q = r THEN m ELSE run[q]
    BY <1>3, <2>1, <2>3
  <2>9. \A q \in Runs : InPlan(q, run'[q])
    BY <1>3, <2>4, <2>8
  <2>10. \A q \in Runs : InPlan(q, run[q])'
    BY <2>9 DEF InPlan
  <2>11. OnHomes(r, run[r])'
    BY <1>3, <1>4, <2>3, <2>5, <2>8 DEF OnHomes
  <2>12. ASSUME NEW q \in Runs, q # r PROVE OnHomes(q, run[q])'
    <3>1. run'[q] = run[q] /\ OnHomes(q, run[q])
      BY <1>3, <2>8, <2>12
    <3> QED
      BY <1>4, <2>6, <2>7, <2>12, <3>1 DEF OnHomes
  <2>13. \A i, j \in DOMAIN homes' : homes'[i].url = homes'[j].url => i = j
    BY <1>3, <1>4, <2>2, <2>6 DEF Stored
  <2>14. \A i, j \in DOMAIN homes' :
             homes'[i].name = homes'[j].name /\ homes'[i].by = homes'[j].by => i = j
    BY <1>3, <1>4, <1>5, <2>6 DEF Stored, OneHomeEach
  <2>15. Housed'
    BY <1>1, <1>3, <2>7 DEF Stored, Housed
  <2>16. Stored'
    BY <1>1, <1>3, <2>5, <2>13, <2>14, <2>15 DEF Stored, OneHomeEach
  <2> QED
    BY <1>1, <2>8, <2>10, <2>11, <2>12, <2>16 DEF CrawlInv
<1> QED
  BY <1>6, <1>7

\* A row that is missing is only noted.
LEMMA MissingKeeps ==
    ASSUME CrawlInv, NEW r \in Runs, RowMissing(r)
    PROVE  CrawlInv'
<1> DEFINE m == [run[r] EXCEPT !.at = "add"]
<1>1. run[r].at = "save" /\ Fine /\ Goes(r, m)
  BY DEF RowMissing
<1>2. /\ run[r] \in Memory /\ run[r].pos \in 1..(Len(Plan[r]) + 1)
      /\ run[r].count <= Cardinality(run[r].scanned)
      /\ run[r].stored < Len(run[r].results)
  BY <1>1, StoringIs DEF Storing
<1>3. OnHomes(r, run[r])
  BY DEF CrawlInv
<1>4. /\ m \in Memory /\ m.at = "add" /\ m.pos = run[r].pos /\ m.count = run[r].count
      /\ m.scanned = run[r].scanned /\ m.stored = run[r].stored
      /\ m.results = run[r].results /\ m.home = run[r].home
  BY <1>2 DEF Memory, Phases
<1> HIDE DEF m
<1>5. InPlan(r, m) /\ OnHomes(r, m)
  BY <1>1, <1>2, <1>3, <1>4 DEF InPlan, OnHomes, Reading, Storing
<1> QED
  BY <1>1, <1>4, <1>5, MemoryStep

\* The commit makes the homes of its run last, and with them the home of the row.
LEMMA SaveKeeps ==
    ASSUME CrawlInv, NEW r \in Runs, RowFound(r) \/ SaveItem(r)
    PROVE  CrawlInv'
<1> DEFINE m   == [run[r] EXCEPT !.stored = @ + 1, !.home = Nobody]
           n   == [m EXCEPT !.at = "look"]
           row == [home |-> run[r].home, file |-> Item(r).file]
<1>1. /\ run[r].at \in {"save", "add"}
      /\ run' = [run EXCEPT ![r] = IF m.stored = Len(m.results) THEN Idle ELSE n]
      /\ homes' = [i \in DOMAIN homes |->
                      IF homes[i].by = r THEN [homes[i] EXCEPT !.committed = TRUE] ELSE homes[i]]
      /\ raw' = raw \/ raw' = [raw EXCEPT ![row] = @ + 1]
      /\ failures' = failures /\ requests' = requests
  BY DEF RowFound, SaveItem, Commits, Document
<1>2. /\ run[r] \in Memory /\ run[r].pos \in 1..(Len(Plan[r]) + 1)
      /\ run[r].count <= Cardinality(run[r].scanned)
      /\ run[r].results \in Seq(Results) /\ run[r].stored \in Nat
      /\ run[r].stored < Len(run[r].results)
      /\ Item(r) \in Results
  BY <1>1, StoringIs DEF Storing
<1>3. /\ homes \in Seq(Home) /\ DOMAIN homes = 1..Len(homes) /\ Len(homes) \in Nat
      /\ Stored /\ run \in [Runs -> Memory]
      /\ \A q \in Runs : InPlan(q, run[q]) /\ OnHomes(q, run[q])
  BY DEF CrawlInv, Stored
<1>4. PICK h \in DOMAIN homes :
          homes[h].url = run[r].home /\ (homes[h].committed \/ homes[h].by = r)
  BY <1>1, <1>3 DEF OnHomes
<1>5. /\ DOMAIN homes' = DOMAIN homes
      /\ \A i \in DOMAIN homes :
             /\ homes'[i] \in Home
             /\ homes'[i].url = homes[i].url /\ homes'[i].name = homes[i].name
             /\ homes'[i].by = homes[i].by
             /\ homes'[i].committed = (homes[i].committed \/ homes[i].by = r)
  <2>1. \A i \in DOMAIN homes : homes[i] \in Home
    BY <1>3
  <2> QED
    BY <1>1, <2>1 DEF Home
<1>6. homes' \in Seq(Home)
  <2>1. homes' \in [1..Len(homes) -> Home]
    BY <1>1, <1>3, <1>5
  <2> QED
    BY <1>3, <2>1, SeqDef
<1>7. /\ m \in Memory /\ n \in Memory /\ n.at = "look" /\ n.pos = run[r].pos
      /\ n.count = run[r].count /\ n.scanned = run[r].scanned
      /\ m.stored = run[r].stored + 1 /\ n.stored = m.stored
      /\ m.results = run[r].results /\ n.results = m.results
  <2>1. run[r].stored + 1 \in Nat /\ Nobody \in Files \cup {Nobody}
    BY <1>2
  <2>2. /\ m \in Memory /\ m.pos = run[r].pos /\ m.count = run[r].count
        /\ m.scanned = run[r].scanned /\ m.results = run[r].results
        /\ m.stored = run[r].stored + 1
    BY <1>2, <2>1 DEF Memory
  <2> HIDE DEF m
  <2> QED
    BY <2>2 DEF Memory, Phases
<1> HIDE DEF m, n, row
<1>8. m.stored # Len(m.results) => InPlan(r, n)
  BY <1>2, <1>7 DEF InPlan, Reading, Storing
<1>9. Idle \in Memory /\ InPlan(r, Idle) /\ Idle.at = "idle"
  BY IdleIs DEF Idle
<1> DEFINE new == IF m.stored = Len(m.results) THEN Idle ELSE n
<1>10. new \in Memory /\ InPlan(r, new) /\ new.at \in {"idle", "look"}
  BY <1>7, <1>8, <1>9
<1>11. run' = [run EXCEPT ![r] = new]
  BY <1>1
<1> HIDE DEF new
<1>12. run' \in [Runs -> Memory] /\ \A q \in Runs : run'[q] = IF q = r THEN new ELSE run[q]
  BY <1>3, <1>10, <1>11
<1>13. \A q \in Runs : InPlan(q, run'[q])
  BY <1>3, <1>10, <1>12
<1>14. \A q \in Runs : InPlan(q, run[q])'
  BY <1>13 DEF InPlan
<1>15. OnHomes(r, run[r])'
  BY <1>10, <1>12 DEF OnHomes
<1>16. ASSUME NEW q \in Runs, q # r PROVE OnHomes(q, run[q])'
  <2>1. run'[q] = run[q] /\ OnHomes(q, run[q])
    BY <1>3, <1>12, <1>16
  <2> QED
    BY <1>5, <2>1 DEF OnHomes
<1>17. Stored'
  <2>1. run[r].home \in Files /\ row \in Documents /\ row.home = run[r].home
    <3>1. homes[h] \in Home
      BY <1>3, <1>4
    <3> QED
      BY <1>2, <1>4, <3>1 DEF Home, Results, Documents, row
  <2>2. /\ raw \in [Documents -> Nat] /\ raw' \in [Documents -> Nat]
        /\ \A x \in Documents : raw'[x] > 0 => raw[x] > 0 \/ x = row
    BY <1>1, <1>3, <2>1 DEF Stored
  <2>3. \A i, j \in DOMAIN homes' : homes'[i].url = homes'[j].url => i = j
    BY <1>3, <1>5 DEF Stored
  <2>4. \A i, j \in DOMAIN homes' :
            homes'[i].name = homes'[j].name /\ homes'[i].by = homes'[j].by => i = j
    BY <1>3, <1>5 DEF Stored, OneHomeEach
  <2>5. ASSUME NEW x \in Documents, raw'[x] > 0
        PROVE  \E i \in DOMAIN homes' : homes'[i].url = x.home /\ homes'[i].committed
    <3>1. CASE raw[x] > 0
      <4>1. PICK i \in DOMAIN homes : homes[i].url = x.home /\ homes[i].committed
        BY <1>3, <3>1 DEF Stored, Housed
      <4> QED
        BY <1>5, <4>1
    <3>2. CASE x = row
      BY <1>4, <1>5, <2>1, <3>2
    <3> QED
      BY <2>2, <2>5, <3>1, <3>2
  <2>6. Housed'
    BY <2>5 DEF Housed
  <2> QED
    BY <1>6, <2>2, <2>3, <2>4, <2>6 DEF Stored, OneHomeEach
<1> QED
  BY <1>1, <1>3, <1>12, <1>14, <1>15, <1>16, <1>17 DEF CrawlInv

\* What a rollback takes back nobody relied on but its own run.
LEMMA EndsKeeps ==
    ASSUME CrawlInv, NEW r \in Runs, RowTwice(r) \/ Die(r)
    PROVE  CrawlInv'
<1> DEFINE lasting == {h \in Range(homes) : h.committed \/ h.by # r}
<1>1. /\ run' = [run EXCEPT ![r] = Idle] /\ homes' = Kept(homes, lasting)
      /\ Fine \/ Miss
      /\ raw' = raw /\ requests' = requests
  BY DEF RowTwice, Die, Ends
<1>2. /\ homes \in Seq(Home) /\ Stored /\ run \in [Runs -> Memory]
      /\ \A q \in Runs : InPlan(q, run[q]) /\ OnHomes(q, run[q])
  BY DEF CrawlInv, Stored
<1>3. /\ homes' \in Seq(Home)
      /\ \E place \in [DOMAIN homes' -> DOMAIN homes] :
             /\ \A i, j \in DOMAIN homes' : place[i] = place[j] => i = j
             /\ \A i \in DOMAIN homes' : homes'[i] = homes[place[i]]
      /\ \A k \in DOMAIN homes : homes[k] \in lasting =>
             \E i \in DOMAIN homes' : homes'[i] = homes[k]
  <2> DEFINE kept == Kept(homes, lasting)
  <2> HIDE DEF lasting
  <2>h. homes \in Seq(Home)
    BY <1>2
  <2>1. kept \in Seq(Home)
    BY <2>h, KeptWithin
  <2>3. \E place \in [DOMAIN kept -> DOMAIN homes] :
            /\ \A i, j \in DOMAIN kept : place[i] = place[j] => i = j
            /\ \A i \in DOMAIN kept : kept[i] = homes[place[i]]
    BY <2>h, KeptPlaces
  <2>4. \A k \in DOMAIN homes : homes[k] \in lasting =>
            \E i \in DOMAIN kept : kept[i] = homes[k]
    BY <2>h, KeptAll
  <2>2. homes' = kept
    BY <1>1
  <2> HIDE DEF kept
  <2> QED
    BY <2>1, <2>2, <2>3, <2>4
<1>4. PICK place \in [DOMAIN homes' -> DOMAIN homes] :
          /\ \A i, j \in DOMAIN homes' : place[i] = place[j] => i = j
          /\ \A i \in DOMAIN homes' : homes'[i] = homes[place[i]]
  BY <1>3
<1>5. \A k \in DOMAIN homes : homes[k].committed \/ homes[k].by # r =>
          \E i \in DOMAIN homes' : homes'[i] = homes[k]
  BY <1>3 DEF Range
<1>6. Idle \in Memory /\ InPlan(r, Idle) /\ Idle.at = "idle"
  BY IdleIs DEF Idle
<1>7. run' \in [Runs -> Memory] /\ \A q \in Runs : run'[q] = IF q = r THEN Idle ELSE run[q]
  BY <1>1, <1>2, <1>6
<1>8. \A q \in Runs : InPlan(q, run'[q])
  BY <1>2, <1>6, <1>7
<1>9. \A q \in Runs : InPlan(q, run[q])'
  BY <1>8 DEF InPlan
<1>10. OnHomes(r, run[r])'
  BY <1>6, <1>7 DEF OnHomes
<1>11. ASSUME NEW q \in Runs, q # r PROVE OnHomes(q, run[q])'
  <2>1. run'[q] = run[q] /\ OnHomes(q, run[q])
    BY <1>2, <1>7, <1>11
  <2>2. ASSUME run[q].at = "insert", NEW i \in DOMAIN homes'
        PROVE  ~(homes'[i].by = q /\ homes'[i].name = run[q].results[run[q].stored + 1].source)
    BY <1>4, <2>1, <2>2 DEF OnHomes
  <2>3. ASSUME run[q].at \in {"save", "add"}
        PROVE  \E i \in DOMAIN homes' :
                   homes'[i].url = run[q].home /\ (homes'[i].committed \/ homes'[i].by = q)
    BY <1>5, <1>11, <2>1, <2>3 DEF OnHomes
  <2> QED
    BY <2>1, <2>2, <2>3 DEF OnHomes
<1>12. Stored'
  <2>1. \A i, j \in DOMAIN homes' : homes'[i].url = homes'[j].url => i = j
    BY <1>2, <1>4 DEF Stored
  <2>2. \A i, j \in DOMAIN homes' :
            homes'[i].name = homes'[j].name /\ homes'[i].by = homes'[j].by => i = j
    BY <1>2, <1>4 DEF Stored, OneHomeEach
  <2>3. Housed'
    <3>1. ASSUME NEW d \in Documents, raw[d] > 0
          PROVE  \E i \in DOMAIN homes' : homes'[i].url = d.home /\ homes'[i].committed
      <4>1. PICK k \in DOMAIN homes : homes[k].url = d.home /\ homes[k].committed
        BY <1>2, <3>1 DEF Stored, Housed
      <4> QED
        BY <1>5, <4>1
    <3> QED
      BY <1>1, <3>1 DEF Housed
  <2> QED
    BY <1>1, <1>2, <1>3, <2>1, <2>2, <2>3 DEF Stored, OneHomeEach
<1>13. failures' \in 0..MaxFailures
  BY <1>1, BoundsAssumption DEF CrawlInv, Fine, Miss
<1> QED
  BY <1>1, <1>7, <1>9, <1>10, <1>11, <1>12, <1>13 DEF CrawlInv

(***************************************************************************)
(* Induction and iteration over the naturals                               *)
(***************************************************************************)

\* A set of naturals that is not empty has a least element.
LEMMA Least ==
    ASSUME NEW T \in SUBSET Nat, T # {}
    PROVE  \E n \in T : \A m \in T : n <= m
<1>1. IsWellFoundedOn(OpToRel(<, Nat), Nat)
  BY NatLessThanWellFounded
<1>2. PICK n \in T : \A m \in T : ~ (<<m, n>> \in OpToRel(<, Nat))
  BY <1>1, WFMin
<1>3. \A m \in T : ~ (m < n)
  BY <1>2 DEF OpToRel
<1> QED
  BY <1>3

\* A set that has zero, and with each number the next, has all numbers.
LEMMA Induction ==
    ASSUME NEW T, 0 \in T, \A n \in Nat : n \in T => n + 1 \in T
    PROVE  \A n \in Nat : n \in T
<1> SUFFICES ASSUME Nat \ T # {} PROVE FALSE
  OBVIOUS
<1>1. PICK n \in Nat \ T : \A m \in Nat \ T : n <= m
  BY Least
<1>2. n - 1 \in Nat /\ n - 1 \notin T
  BY <1>1
<1> QED
  BY <1>1, <1>2

\* What one arrives at by steps.
Iterates(f, S, base, step) ==
    f \in [Nat -> S] /\ f[0] = base /\ \A n \in Nat : f[n + 1] = step[n][f[n]]

\* A function that is defined by its value at zero and by steps exists, and each value
\* follows from the one before.
LEMMA Iteration ==
    ASSUME NEW S, NEW base \in S, NEW step \in [Nat -> [S -> S]]
    PROVE  \E f : Iterates(f, S, base, step)
<1> DEFINE Begun(n) == {f \in [0..n -> S] : f[0] = base /\ \A i \in 0..(n - 1) : f[i + 1] = step[i][f[i]]}
           T == {n \in Nat : Begun(n) # {}}
<1>1. 0 \in T
  <2>1. [i \in 0..0 |-> base] \in Begun(0)
    OBVIOUS
  <2> QED
    BY <2>1
<1>2. ASSUME NEW n \in Nat, n \in T PROVE n + 1 \in T
  <2>1. PICK f \in Begun(n) : TRUE
    BY <1>2
  <2> DEFINE g == [i \in 0..(n + 1) |-> IF i <= n THEN f[i] ELSE step[n][f[n]]]
  <2>2. f \in [0..n -> S] /\ f[0] = base /\ \A i \in 0..(n - 1) : f[i + 1] = step[i][f[i]]
    BY <2>1
  <2>3. step[n][f[n]] \in S
    BY <2>2
  <2>4. g \in [0..(n + 1) -> S] /\ g[0] = base
    BY <2>2, <2>3
  <2>5. \A i \in 0..n : g[i + 1] = step[i][g[i]]
    BY <2>2
  <2>6. g \in Begun(n + 1)
    BY <2>4, <2>5
  <2> HIDE DEF Begun, g
  <2> QED
    BY <2>6
<1>3. \A n \in Nat : n \in T
  <2> HIDE DEF T
  <2> QED
    BY <1>1, <1>2, Induction
<1>4. ASSUME NEW m \in Nat, NEW n \in Nat, NEW f \in Begun(m), NEW g \in Begun(n)
      PROVE  \A i \in Nat : i <= m /\ i <= n => f[i] = g[i]
  <2> DEFINE U == {i \in Nat : i <= m /\ i <= n => f[i] = g[i]}
  <2>1. /\ f[0] = base /\ \A i \in 0..(m - 1) : f[i + 1] = step[i][f[i]]
        /\ g[0] = base /\ \A i \in 0..(n - 1) : g[i + 1] = step[i][g[i]]
    BY <1>4
  <2>2. 0 \in U
    BY <2>1
  <2>3. \A i \in Nat : i \in U => i + 1 \in U
    BY <2>1
  <2>4. \A i \in Nat : i \in U
    <3> HIDE DEF U
    <3> QED
      BY <2>2, <2>3, Induction
  <2> QED
    BY <2>4
<1> DEFINE h == [n \in Nat |-> CHOOSE f \in Begun(n) : TRUE]
           f == [n \in Nat |-> h[n][n]]
<1>5. \A n \in Nat : h[n] \in Begun(n)
  BY <1>3
<1> HIDE DEF h
<1>6. ASSUME NEW n \in Nat
      PROVE  f[n] \in S /\ f[n + 1] = step[n][f[n]]
  <2>1. h[n] \in Begun(n) /\ h[n + 1] \in Begun(n + 1)
    BY <1>5
  <2>2. \A i \in Nat : i <= n /\ i <= n + 1 => h[n][i] = h[n + 1][i]
    <3> HIDE DEF Begun
    <3> QED
      BY <1>4, <2>1
  <2>3. h[n + 1][n + 1] = step[n][h[n + 1][n]] /\ h[n][n] \in S
    BY <2>1
  <2> QED
    BY <2>2, <2>3
<1>7. f[0] = base
  BY <1>5
<1>8. f \in [Nat -> S]
  BY <1>6
<1>9. Iterates(f, S, base, step)
  BY <1>6, <1>7, <1>8 DEF Iterates
<1> HIDE DEF f
<1> QED
  BY <1>9

(***************************************************************************)
(* Lists that are read once                                                *)
(***************************************************************************)

\* A later place is a higher one.
LEMMA NthGrows ==
    ASSUME NEW places \in SUBSET (Nat \ {0}), IsFiniteSet(places)
    PROVE  \A m, n \in 1..Cardinality(places) : m < n => Nth[places][m] < Nth[places][n]
<1> SUFFICES ASSUME NEW m \in 1..Cardinality(places), NEW n \in 1..Cardinality(places), m < n,
                    ~(Nth[places][m] < Nth[places][n])
             PROVE  FALSE
  OBVIOUS
<1>1. /\ Cardinality(places) \in Nat
      /\ Nth[places][m] \in places /\ Cardinality(places \cap 1..Nth[places][m]) = m
      /\ Nth[places][n] \in places /\ Cardinality(places \cap 1..Nth[places][n]) = n
  BY NthIsPlace
<1>a. Nth[places][m] \in Nat /\ Nth[places][n] \in Nat
  BY <1>1
<1>2. Nth[places][n] < Nth[places][m] \/ Nth[places][n] = Nth[places][m]
  BY <1>a
<1>3. Nth[places][n] < Nth[places][m] => n < m
  BY <1>1, RanksGrow
<1> QED
  BY <1>1, <1>2, <1>3

\* A way to count some places up.
Counts(f, size, places) ==
    /\ places \in SUBSET (Nat \ {0}) /\ size \in Nat /\ f \in [1..size -> places]
    /\ \A m, n \in 1..size : m < n => f[m] < f[n]
    /\ \A i \in places : \E n \in 1..size : f[n] = i

\* At lists what stands at some places, in their order.
LEMMA AtIs ==
    ASSUME NEW f, NEW size, NEW places, Counts(f, size, places), NEW seq
    PROVE  /\ IsFiniteSet(places) /\ Cardinality(places) = size
           /\ \A n \in 1..size : Nth[places][n] = f[n]
           /\ DOMAIN At(seq, places) = 1..size
           /\ \A n \in 1..size : At(seq, places)[n] = seq[f[n]]
<1> USE DEF Counts
<1>0. \A n \in 1..size : f[n] \in places /\ f[n] \in Nat /\ f[n] # 0
  OBVIOUS
<1>1. \A m, n \in 1..size : f[m] = f[n] => m = n
  <2> SUFFICES ASSUME NEW m \in 1..size, NEW n \in 1..size, f[m] = f[n], m # n PROVE FALSE
    OBVIOUS
  <2>1. m < n \/ n < m
    OBVIOUS
  <2> QED
    BY <1>0, <2>1
<1>2. f \in Bijection(1..size, places)
  BY <1>1, Fun_IsBij
<1>3. IsFiniteSet(1..size) /\ Cardinality(1..size) = size
  BY FS_Interval
<1>4. IsFiniteSet(places) /\ Cardinality(places) = size
  BY <1>2, <1>3, FS_Bijection DEF ExistsBijection
<1>5. ASSUME NEW n \in 1..size PROVE Cardinality(places \cap 1..f[n]) = n
  <2> DEFINE g == [k \in 1..n |-> f[k]]
             low == places \cap 1..f[n]
  <2>1. ASSUME NEW k \in 1..size PROVE f[k] <= f[n] <=> k <= n
    <3>1. k < n \/ k = n \/ n < k
      OBVIOUS
    <3> QED
      BY <1>0, <3>1
  <2>2. g \in [1..n -> low]
    <3> SUFFICES ASSUME NEW k \in 1..n PROVE f[k] \in low
      OBVIOUS
    <3>1. k \in 1..size /\ k <= n
      OBVIOUS
    <3>2. f[k] \in places /\ f[k] \in Nat /\ f[k] # 0 /\ f[n] \in Nat /\ f[k] <= f[n]
      BY <1>0, <2>1, <3>1
    <3> QED
      BY <3>2
  <2>3. \A j, k \in 1..n : g[j] = g[k] => j = k
    BY <1>1
  <2>4. \A i \in low : \E k \in 1..n : g[k] = i
    <3> SUFFICES ASSUME NEW i \in low PROVE \E k \in 1..n : f[k] = i
      OBVIOUS
    <3>1. PICK k \in 1..size : f[k] = i
      OBVIOUS
    <3>2. f[k] <= f[n]
      BY <1>0, <3>1
    <3> QED
      BY <2>1, <3>1, <3>2
  <2>5. g \in Bijection(1..n, low)
    <3> HIDE DEF g, low
    <3> QED
      BY <2>2, <2>3, <2>4, Fun_IsBij
  <2>6. IsFiniteSet(1..n) /\ Cardinality(1..n) = n
    BY FS_Interval
  <2> HIDE DEF g
  <2> QED
    BY <2>5, <2>6, FS_Bijection DEF ExistsBijection
<1>6. ASSUME NEW n \in 1..size PROVE Nth[places][n] = f[n]
  <2>1. Nth[places][n] \in places /\ Cardinality(places \cap 1..Nth[places][n]) = n
    BY <1>4, NthIsPlace
  <2>2. PICK k \in 1..size : f[k] = Nth[places][n]
    BY <2>1
  <2> QED
    BY <1>5, <2>1, <2>2
<1>7. At(seq, places) = [n \in 1..size |-> seq[f[n]]]
  BY <1>4, <1>6 DEF At
<1> QED
  BY <1>4, <1>6, <1>7

\* The first places of the different entries that are in a set.
Firsts(seq, set) == {i \in DOMAIN seq : seq[i] \in set /\ \A j \in 1..(i - 1) : seq[j] # seq[i]}

\* Each entry in the set is kept where it is first, and nothing else is.
LEMMA OnceIs ==
    ASSUME NEW T, NEW seq \in Seq(T), NEW set
    PROVE  /\ Firsts(seq, set) \in SUBSET (Nat \ {0}) /\ IsFiniteSet(Firsts(seq, set))
           /\ Once(seq, set) = At(seq, Firsts(seq, set))
           /\ Once(seq, set) \in Seq(T)
           /\ Len(Once(seq, set)) = Cardinality(Firsts(seq, set))
           /\ Range(Once(seq, set)) = Range(seq) \cap set
<1> DEFINE places == Firsts(seq, set)
           size   == Cardinality(places)
<1>1. Once(seq, set) = At(seq, places)
  BY DEF Once, Firsts
<1>2. places \in SUBSET (Nat \ {0}) /\ places \in SUBSET (1..Len(seq)) /\ IsFiniteSet(places)
  <2>1. DOMAIN seq = 1..Len(seq) /\ Len(seq) \in Nat
    OBVIOUS
  <2>2. IsFiniteSet(1..Len(seq))
    BY <2>1, FS_Interval
  <2>3. places \in SUBSET (1..Len(seq))
    BY <2>1 DEF Firsts
  <2> HIDE DEF places
  <2>4. IsFiniteSet(places)
    BY <2>2, <2>3, FS_Subset
  <2> QED
    BY <2>1, <2>3, <2>4
<1>3. \A i \in places : seq[i] \in T /\ seq[i] \in set
  BY DEF Firsts
<1>a. \A x \in Range(seq) \cap set : \E i \in places : seq[i] = x
  <2> SUFFICES ASSUME NEW x \in Range(seq), x \in set PROVE \E i \in places : seq[i] = x
    OBVIOUS
  <2> DEFINE U == {i \in DOMAIN seq : seq[i] = x}
  <2>1. U \in SUBSET Nat /\ U # {}
    BY DEF Range
  <2>2. PICK i \in U : \A j \in U : i <= j
    <3> HIDE DEF U
    <3> QED
      BY <2>1, Least
  <2>3. ASSUME NEW j \in 1..(i - 1) PROVE seq[j] # x
    <3>1. j \in DOMAIN seq /\ ~(i <= j)
      BY <2>2
    <3> QED
      BY <2>2, <3>1
  <2> QED
    BY <2>2, <2>3 DEF Firsts
<1> HIDE DEF places
<1>4. /\ size \in Nat
      /\ \A n \in 1..size : Nth[places][n] \in places
      /\ \A i \in places : \E n \in 1..size : Nth[places][n] = i
  BY <1>2, NthIsPlace
<1> HIDE DEF size
<1>5. Once(seq, set) = [n \in 1..size |-> seq[Nth[places][n]]]
  BY <1>1 DEF At, size
<1>6. Once(seq, set) \in [1..size -> T]
  BY <1>3, <1>4, <1>5
<1>7. Once(seq, set) \in Seq(T) /\ Len(Once(seq, set)) = size
  BY <1>4, <1>6, SeqDef
<1>8. Range(Once(seq, set)) = Range(seq) \cap set
  <2>1. \A n \in 1..size : Once(seq, set)[n] \in Range(seq) \cap set
    <3>1. \A i \in places : seq[i] \in Range(seq)
      BY <1>2 DEF Range
    <3> QED
      BY <1>3, <1>4, <1>5, <3>1
  <2>2. \A x \in Range(seq) \cap set : \E n \in 1..size : Once(seq, set)[n] = x
    BY <1>4, <1>5, <1>a
  <2>3. DOMAIN Once(seq, set) = 1..size
    BY <1>5
  <2> QED
    BY <2>1, <2>2, <2>3 DEF Range
<1> QED
  BY <1>1, <1>2, <1>7, <1>8 DEF places, size

\* Of two lists, one behind the other, the second adds what the first has not.
LEMMA OnceConcat ==
    ASSUME NEW T, NEW a \in Seq(T), NEW b \in Seq(T), NEW set
    PROVE  Once(a \o b, set) = Once(a, set) \o Once(b, set \ Range(a))
<1> DEFINE ab == a \o b
           p  == Firsts(a, set)
           q  == Firsts(b, set \ Range(a))
           r  == Firsts(ab, set)
           m  == Cardinality(p)
           n  == Cardinality(q)
           f  == [k \in 1..(m + n) |-> IF k <= m THEN Nth[p][k] ELSE Len(a) + Nth[q][k - m]]
<1>1. /\ p \in SUBSET (Nat \ {0}) /\ IsFiniteSet(p) /\ Once(a, set) = At(a, p)
      /\ Once(a, set) \in Seq(T) /\ Len(Once(a, set)) = m
  BY OnceIs
<1>2. /\ q \in SUBSET (Nat \ {0}) /\ IsFiniteSet(q) /\ Once(b, set \ Range(a)) = At(b, q)
      /\ Once(b, set \ Range(a)) \in Seq(T) /\ Len(Once(b, set \ Range(a))) = n
  BY OnceIs
<1>3. ab \in Seq(T) /\ r \in SUBSET (Nat \ {0}) /\ Once(ab, set) = At(ab, r)
  <2>1. ab \in Seq(T)
    OBVIOUS
  <2> HIDE DEF ab
  <2> QED
    BY <2>1, OnceIs
<1>4. /\ Len(ab) = Len(a) + Len(b) /\ Len(a) \in Nat /\ Len(b) \in Nat
      /\ DOMAIN a = 1..Len(a) /\ DOMAIN b = 1..Len(b) /\ DOMAIN ab = 1..(Len(a) + Len(b))
      /\ \A i \in 1..Len(a) : ab[i] = a[i]
      /\ \A i \in 1..Len(b) : ab[Len(a) + i] = b[i]
  OBVIOUS
<1>5. \A i \in p : i \in 1..Len(a) /\ i \in r
  <2> SUFFICES ASSUME NEW i \in p PROVE i \in 1..Len(a) /\ i \in r
    OBVIOUS
  <2> HIDE DEF ab
  <2>1. i \in 1..Len(a) /\ a[i] \in set /\ \A j \in 1..(i - 1) : a[j] # a[i]
    BY <1>4 DEF Firsts
  <2>2. ab[i] = a[i] /\ \A j \in 1..(i - 1) : ab[j] = a[j]
    BY <1>4, <2>1
  <2> QED
    BY <1>4, <2>1, <2>2 DEF Firsts
<1>6. \A i \in q : i \in 1..Len(b) /\ Len(a) + i \in r
  <2> SUFFICES ASSUME NEW i \in q PROVE i \in 1..Len(b) /\ Len(a) + i \in r
    OBVIOUS
  <2> HIDE DEF ab
  <2>1. i \in 1..Len(b) /\ b[i] \in set /\ b[i] \notin Range(a) /\ \A j \in 1..(i - 1) : b[j] # b[i]
    BY <1>4 DEF Firsts
  <2>2. ab[Len(a) + i] = b[i]
    BY <1>4, <2>1
  <2>3. ASSUME NEW j \in 1..(Len(a) + i - 1) PROVE ab[j] # b[i]
    <3>1. CASE j <= Len(a)
      <4>1. j \in 1..Len(a) /\ ab[j] = a[j]
        BY <1>4, <3>1
      <4> QED
        BY <1>4, <2>1, <4>1 DEF Range
    <3>2. CASE j > Len(a)
      <4>1. j - Len(a) \in 1..(i - 1) /\ j - Len(a) \in 1..Len(b) /\ Len(a) + (j - Len(a)) = j
        BY <1>4, <2>1, <3>2
      <4>2. ab[j] = b[j - Len(a)]
        BY <1>4, <4>1
      <4> QED
        BY <2>1, <4>1, <4>2
    <3> QED
      BY <1>4, <3>1, <3>2
  <2> QED
    BY <1>4, <2>1, <2>2, <2>3 DEF Firsts
<1>7. \A i \in r : i \in p \/ (i - Len(a) \in q /\ Len(a) + (i - Len(a)) = i)
  <2> SUFFICES ASSUME NEW i \in r PROVE i \in p \/ (i - Len(a) \in q /\ Len(a) + (i - Len(a)) = i)
    OBVIOUS
  <2> HIDE DEF ab
  <2>1. i \in 1..(Len(a) + Len(b)) /\ ab[i] \in set /\ \A j \in 1..(i - 1) : ab[j] # ab[i]
    BY <1>4 DEF Firsts
  <2>2. CASE i <= Len(a)
    <3>1. i \in 1..Len(a) /\ ab[i] = a[i] /\ \A j \in 1..(i - 1) : ab[j] = a[j]
      BY <1>4, <2>1, <2>2
    <3> QED
      BY <1>4, <2>1, <3>1 DEF Firsts
  <2>3. CASE i > Len(a)
    <3>1. i - Len(a) \in 1..Len(b) /\ Len(a) + (i - Len(a)) = i
      BY <1>4, <2>1, <2>3
    <3>2. ab[i] = b[i - Len(a)]
      BY <1>4, <3>1
    <3>3. b[i - Len(a)] \notin Range(a)
      <4> SUFFICES ASSUME NEW j \in 1..Len(a), a[j] = b[i - Len(a)] PROVE FALSE
        BY <1>4 DEF Range
      <4>1. j \in 1..(i - 1) /\ ab[j] = a[j]
        BY <1>4, <2>1, <2>3
      <4> QED
        BY <2>1, <3>2, <4>1
    <3>4. ASSUME NEW j \in 1..(i - Len(a) - 1) PROVE b[j] # b[i - Len(a)]
      <4>1. Len(a) + j \in 1..(i - 1) /\ j \in 1..Len(b)
        BY <1>4, <2>1, <2>3
      <4>2. ab[Len(a) + j] = b[j]
        BY <1>4, <4>1
      <4> QED
        BY <2>1, <3>2, <4>1, <4>2
    <3> QED
      BY <1>4, <2>1, <3>1, <3>2, <3>3, <3>4 DEF Firsts
  <2> QED
    BY <1>4, <2>1, <2>2, <2>3
<1> HIDE DEF p, q, r, ab
<1>8. /\ m \in Nat /\ n \in Nat
      /\ \A k \in 1..m : Nth[p][k] \in p
      /\ \A k \in 1..n : Nth[q][k] \in q
      /\ \A i \in p : \E k \in 1..m : Nth[p][k] = i
      /\ \A i \in q : \E k \in 1..n : Nth[q][k] = i
  BY <1>1, <1>2, NthIsPlace
<1>9. /\ \A j, k \in 1..m : j < k => Nth[p][j] < Nth[p][k]
      /\ \A j, k \in 1..n : j < k => Nth[q][j] < Nth[q][k]
  BY <1>1, <1>2, NthGrows
<1> HIDE DEF m, n
<1>10. \A k \in 1..(m + n) : /\ k <= m => k \in 1..m /\ f[k] = Nth[p][k]
                             /\ k > m => k - m \in 1..n /\ f[k] = Len(a) + Nth[q][k - m]
  BY <1>8
<1>11. f \in [1..(m + n) -> r]
  BY <1>5, <1>6, <1>8, <1>10
<1>12. \A i \in r : \E k \in 1..(m + n) : f[k] = i
  <2> SUFFICES ASSUME NEW i \in r PROVE \E k \in 1..(m + n) : f[k] = i
    OBVIOUS
  <2>1. CASE i \in p
    <3>1. PICK k \in 1..m : Nth[p][k] = i
      BY <1>8, <2>1
    <3>2. k \in 1..(m + n) /\ k <= m
      BY <1>8
    <3> QED
      BY <1>10, <3>1, <3>2
  <2>2. CASE i - Len(a) \in q /\ Len(a) + (i - Len(a)) = i
    <3>1. PICK k \in 1..n : Nth[q][k] = i - Len(a)
      BY <1>8, <2>2
    <3>2. m + k \in 1..(m + n) /\ m + k > m /\ (m + k) - m = k
      BY <1>8
    <3>3. f[m + k] = i
      BY <1>10, <2>2, <3>1, <3>2
    <3> QED
      BY <3>2, <3>3
  <2> QED
    BY <1>7, <2>1, <2>2
<1>13. ASSUME NEW j \in 1..(m + n), NEW k \in 1..(m + n), j < k PROVE f[j] < f[k]
  <2>1. CASE k <= m
    <3>1. j \in 1..m /\ k \in 1..m /\ f[j] = Nth[p][j] /\ f[k] = Nth[p][k]
      BY <1>8, <1>10, <1>13, <2>1
    <3> QED
      BY <1>9, <1>13, <3>1
  <2>2. CASE j > m
    <3>1. j - m \in 1..n /\ k - m \in 1..n /\ j - m < k - m
          /\ f[j] = Len(a) + Nth[q][j - m] /\ f[k] = Len(a) + Nth[q][k - m]
      BY <1>8, <1>10, <1>13, <2>2
    <3>2. Nth[q][j - m] < Nth[q][k - m] /\ Nth[q][j - m] \in 1..Len(b) /\ Nth[q][k - m] \in 1..Len(b)
      BY <1>6, <1>8, <1>9, <3>1
    <3> QED
      BY <1>4, <3>1, <3>2
  <2>3. CASE j <= m /\ k > m
    <3>1. f[j] = Nth[p][j] /\ Nth[p][j] \in 1..Len(a)
      BY <1>5, <1>8, <1>10, <2>3
    <3>2. f[k] = Len(a) + Nth[q][k - m] /\ Nth[q][k - m] \in 1..Len(b)
      BY <1>6, <1>8, <1>10, <2>3
    <3> QED
      BY <1>4, <3>1, <3>2
  <2> QED
    BY <1>8, <2>1, <2>2, <2>3
<1> DEFINE size == m + n
<1>14. Counts(f, size, r)
  <2>1. \A j, k \in 1..(m + n) : j < k => f[j] < f[k]
    BY <1>13
  <2>2. m + n \in Nat
    BY <1>8
  <2> HIDE DEF f
  <2> QED
    BY <1>3, <1>11, <1>12, <2>1, <2>2 DEF Counts
<1> HIDE DEF f, size
<1>15. Cardinality(r) = size /\ \A k \in 1..size : At(ab, r)[k] = ab[f[k]]
  BY <1>14, AtIs
<1> USE DEF size
<1>16. At(a, p) = [k \in 1..m |-> a[Nth[p][k]]] /\ At(b, q) = [k \in 1..n |-> b[Nth[q][k]]]
  BY DEF At, m, n
<1>17. ASSUME NEW k \in 1..(m + n)
       PROVE  ab[f[k]] = IF k <= m THEN At(a, p)[k] ELSE At(b, q)[k - m]
  <2>1. CASE k <= m
    <3>1. k \in 1..m /\ f[k] = Nth[p][k] /\ Nth[p][k] \in 1..Len(a)
      BY <1>5, <1>8, <1>10, <2>1
    <3> QED
      BY <1>4, <1>16, <2>1, <3>1
  <2>2. CASE k > m
    <3>1. k - m \in 1..n /\ f[k] = Len(a) + Nth[q][k - m] /\ Nth[q][k - m] \in 1..Len(b)
      BY <1>6, <1>8, <1>10, <2>2
    <3>2. ~(k <= m)
      BY <1>8, <2>2
    <3> QED
      BY <1>4, <1>16, <3>1, <3>2
  <2> QED
    BY <1>8, <2>1, <2>2
<1> DEFINE x == Once(ab, set)
           y == Once(a, set)
           z == Once(b, set \ Range(a))
<1>18. /\ x \in Seq(T) /\ Len(x) = m + n /\ y \in Seq(T) /\ Len(y) = m /\ z \in Seq(T) /\ Len(z) = n
       /\ \A k \in 1..(m + n) : x[k] = IF k <= m THEN y[k] ELSE z[k - m]
  <2>1. x \in Seq(T) /\ Len(x) = Cardinality(r)
    BY <1>3, OnceIs DEF r
  <2>2. x = At(ab, r) /\ y = At(a, p) /\ z = At(b, q)
    BY <1>1, <1>2, <1>3
  <2>3. y \in Seq(T) /\ Len(y) = m /\ z \in Seq(T) /\ Len(z) = n
    BY <1>1, <1>2
  <2>4. Cardinality(r) = m + n
    BY <1>15
  <2>5. \A k \in 1..(m + n) : x[k] = ab[f[k]]
    BY <1>15, <2>2
  <2>6. \A k \in 1..(m + n) : ab[f[k]] = IF k <= m THEN y[k] ELSE z[k - m]
    BY <1>17, <2>2
  <2> HIDE DEF x, y, z
  <2> QED
    BY <2>1, <2>3, <2>4, <2>5, <2>6
<1> HIDE DEF x, y, z
<1>19. /\ y \o z \in Seq(T) /\ Len(y \o z) = m + n
       /\ \A k \in 1..(m + n) : (y \o z)[k] = IF k <= m THEN y[k] ELSE z[k - m]
  <2>1. y \in Seq(T) /\ z \in Seq(T) /\ Len(y) = m /\ Len(z) = n
    BY <1>18
  <2> QED
    BY <2>1, ConcatProperties
<1>20. x = y \o z
  <2> DEFINE w == y \o z
  <2>1. /\ x \in Seq(T) /\ w \in Seq(T) /\ Len(x) = Len(w)
        /\ \A i \in 1..Len(x) : x[i] = w[i]
    BY <1>18, <1>19
  <2> HIDE DEF w
  <2>2. x = w
    BY <2>1, SeqEqual
  <2> QED
    BY <2>2 DEF w
<1> QED
  BY <1>20 DEF x, y, z, ab

\* A list of one entry has it once, or not at all.
LEMMA OnceOfOne ==
    ASSUME NEW x, NEW set
    PROVE  /\ Once(<<>>, set) = <<>>
           /\ x \notin set => Once(<<x>>, set) = <<>>
           /\ x \in set => Once(<<x>>, set) = <<x>>
<1>1. Firsts(<<>>, set) = {} /\ (x \notin set => Firsts(<<x>>, set) = {})
  BY DEF Firsts
<1>2. \A seq : At(seq, {}) = <<>>
  BY FS_EmptySet DEF At
<1>3. Once(<<>>, set) = At(<<>>, Firsts(<<>>, set)) /\ Once(<<x>>, set) = At(<<x>>, Firsts(<<x>>, set))
  BY DEF Once, Firsts
<1>4. ASSUME x \in set PROVE Once(<<x>>, set) = <<x>>
  <2> DEFINE f == [n \in 1..1 |-> 1]
  <2>1. Firsts(<<x>>, set) = {1}
    BY <1>4 DEF Firsts
  <2>2. /\ f \in [1..1 -> {1}] /\ {1} \in SUBSET (Nat \ {0})
        /\ \A j, k \in 1..1 : j < k => f[j] < f[k]
        /\ \A i \in {1} : \E k \in 1..1 : f[k] = i
        /\ 1 \in Nat
    OBVIOUS
  <2>3. \A n \in 1..1 : f[n] = 1
    OBVIOUS
  <2> DEFINE seq == <<x>>
             one == {1}
             size == 1
  <2> HIDE DEF f, seq, one, size
  <2>a. /\ f \in [1..size -> one] /\ one \in SUBSET (Nat \ {0})
        /\ \A j, k \in 1..size : j < k => f[j] < f[k]
        /\ \A i \in one : \E k \in 1..size : f[k] = i
        /\ size \in Nat
    BY <2>2 DEF one, size
  <2>c. Counts(f, size, one)
    BY <2>a DEF Counts
  <2>b. DOMAIN At(seq, one) = 1..size /\ \A n \in 1..size : At(seq, one)[n] = seq[f[n]]
    BY <2>c, AtIs
  <2>4. DOMAIN At(<<x>>, {1}) = 1..1 /\ At(<<x>>, {1})[1] = x
    BY <2>3, <2>b DEF seq, one, size
  <2>5. At(<<x>>, {1}) = <<x>>
    <3>1. At(<<x>>, {1}) = [n \in 1..Cardinality({1}) |-> <<x>>[Nth[{1}][n]]]
      BY DEF At
    <3> HIDE DEF At
    <3> QED
      BY <2>4, <3>1
  <2> QED
    BY <1>3, <2>1, <2>5
<1> QED
  BY <1>1, <1>2, <1>3, <1>4

\* The head of a list counts, if it is in the set, and once only.
LEMMA OnceHead ==
    ASSUME NEW T, NEW seq \in Seq(T), seq # <<>>, NEW set
    PROVE  /\ Head(seq) \notin set => Once(seq, set) = Once(Tail(seq), set)
           /\ Head(seq) \in set =>
                  Once(seq, set) = <<Head(seq)>> \o Once(Tail(seq), set \ {Head(seq)})
<1>1. /\ <<Head(seq)>> \in Seq(T) /\ Tail(seq) \in Seq(T) /\ seq = <<Head(seq)>> \o Tail(seq)
      /\ Range(<<Head(seq)>>) = {Head(seq)}
  BY DEF Range
<1>2. Once(seq, set) = Once(<<Head(seq)>>, set) \o Once(Tail(seq), set \ {Head(seq)})
  BY <1>1, OnceConcat, ZenonT(60)
<1>3. Head(seq) \notin set => set \ {Head(seq)} = set
  OBVIOUS
<1>4. \A V : Once(Tail(seq), V) \in Seq(T)
  BY <1>1, OnceIs
<1> DEFINE h == Head(seq)
           t == Tail(seq)
<1> HIDE DEF h, t
<1>5. \A V : Once(t, V) \in Seq(T)
  BY <1>4 DEF t
<1>6. Once(seq, set) = Once(<<h>>, set) \o Once(t, set \ {h})
  BY <1>2 DEF h, t
<1>7. ASSUME h \notin set PROVE Once(seq, set) = Once(t, set)
  <2>1. set \ {h} = set /\ Once(<<h>>, set) = <<>>
    BY <1>7, OnceOfOne
  <2> DEFINE rest == Once(t, set)
  <2>2. rest \in Seq(T) /\ Once(seq, set) = <<>> \o rest
    BY <1>5, <1>6, <2>1
  <2> HIDE DEF rest
  <2>3. <<>> \o rest = rest
    BY <2>2
  <2> QED
    BY <2>2, <2>3 DEF rest
<1>8. ASSUME h \in set PROVE Once(seq, set) = <<h>> \o Once(t, set \ {h})
  BY <1>6, <1>8, OnceOfOne
<1> QED
  BY <1>7, <1>8 DEF h, t

\* What is not in the set does not count wherever it stands.
LEMMA OnceWithout ==
    ASSUME NEW T, NEW a \in Seq(T), NEW b \in Seq(T), b # <<>>, NEW set, Head(b) \notin set
    PROVE  Once(a \o b, set) = Once(a \o Tail(b), set)
<1> DEFINE V == set \ Range(a)
           t == Tail(b)
<1>1. Head(b) \notin V /\ t \in Seq(T)
  OBVIOUS
<1> HIDE DEF V
<1>2. Once(b, V) = Once(t, V)
  BY <1>1, OnceHead
<1> HIDE DEF t
<1>3. Once(a \o b, set) = Once(a, set) \o Once(b, V)
  BY OnceConcat DEF V
<1>4. Once(a \o t, set) = Once(a, set) \o Once(t, V)
  BY <1>1, OnceConcat DEF V
<1> QED
  BY <1>2, <1>3, <1>4 DEF t

\* What stands in two lists, one behind the other.
LEMMA RangeConcat ==
    ASSUME NEW T, NEW a \in Seq(T), NEW b \in Seq(T)
    PROVE  Range(a \o b) = Range(a) \cup Range(b)
<1> DEFINE c == a \o b
<1>1. /\ DOMAIN c = 1..(Len(a) + Len(b)) /\ Len(a) \in Nat /\ Len(b) \in Nat
      /\ DOMAIN a = 1..Len(a) /\ DOMAIN b = 1..Len(b)
      /\ \A i \in 1..Len(a) : c[i] = a[i]
      /\ \A i \in 1..Len(b) : c[Len(a) + i] = b[i]
  OBVIOUS
<1> HIDE DEF c
<1>2. ASSUME NEW x \in Range(c) PROVE x \in Range(a) \cup Range(b)
  <2>1. PICK i \in 1..(Len(a) + Len(b)) : c[i] = x
    BY <1>1, <1>2 DEF Range
  <2>2. CASE i <= Len(a)
    BY <1>1, <2>1, <2>2 DEF Range
  <2>3. CASE i > Len(a)
    <3>1. i - Len(a) \in 1..Len(b) /\ Len(a) + (i - Len(a)) = i
      BY <1>1, <2>3
    <3>2. b[i - Len(a)] = x
      BY <1>1, <2>1, <3>1
    <3> QED
      BY <1>1, <3>1, <3>2 DEF Range
  <2> QED
    BY <1>1, <2>1, <2>2, <2>3
<1>3. ASSUME NEW x \in Range(a) PROVE x \in Range(c)
  <2>1. PICK i \in 1..Len(a) : a[i] = x
    BY <1>1, <1>3 DEF Range
  <2>2. i \in DOMAIN c /\ c[i] = x
    BY <1>1, <2>1
  <2> QED
    BY <2>2 DEF Range
<1>4. ASSUME NEW x \in Range(b) PROVE x \in Range(c)
  <2>1. PICK i \in 1..Len(b) : b[i] = x
    BY <1>1, <1>4 DEF Range
  <2>2. Len(a) + i \in DOMAIN c /\ c[Len(a) + i] = x
    BY <1>1, <2>1
  <2> QED
    BY <2>2 DEF Range
<1> QED
  BY <1>2, <1>3, <1>4 DEF c

\* The part of a list behind the entries that were dealt with.
LEMMA RestIs ==
    ASSUME NEW T, NEW list \in Seq(T), NEW rest \in Seq(T), rest # <<>>,
           Len(rest) <= Len(list),
           rest = SubSeq(list, Len(list) - Len(rest) + 1, Len(list))
    PROVE  /\ Len(Tail(rest)) = Len(rest) - 1 /\ Tail(rest) \in Seq(T)
           /\ Len(list) - Len(rest) + 1 \in 1..Len(list)
           /\ Head(rest) = list[Len(list) - Len(rest) + 1]
           /\ Tail(rest) = SubSeq(list, Len(list) - Len(Tail(rest)) + 1, Len(list))
<1> DEFINE n == Len(list)
           k == n - Len(rest)
<1>1. n \in Nat /\ Len(rest) \in Nat /\ Len(rest) # 0
  OBVIOUS
<1>2. Len(Tail(rest)) = Len(rest) - 1 /\ Tail(rest) \in Seq(T)
  OBVIOUS
<1>3. k + 1 \in 1..n /\ n \in (k + 1)..n
  BY <1>1
<1>4. n - Len(Tail(rest)) + 1 = (k + 1) + 1
  BY <1>1, <1>2
<1>5. rest = SubSeq(list, k + 1, n)
  OBVIOUS
<1> HIDE DEF k, n
<1>6. Head(rest) = list[k + 1] /\ Tail(rest) = SubSeq(list, (k + 1) + 1, n)
  <2> DEFINE i == k + 1
  <2>1. i \in 1..Len(list) /\ n \in i..Len(list) /\ rest = SubSeq(list, i, n)
    BY <1>3, <1>5 DEF n
  <2> HIDE DEF i
  <2>2. Head(SubSeq(list, i, n)) = list[i] /\ Tail(SubSeq(list, i, n)) = SubSeq(list, i + 1, n)
    BY <2>1, HeadTailOfSubSeq
  <2> QED
    BY <2>1, <2>2 DEF i
<1> QED
  BY <1>2, <1>3, <1>4, <1>6 DEF k, n

\* What a filter keeps are the entries that pass.
LEMMA KeptRange ==
    ASSUME NEW T, NEW seq \in Seq(T), NEW set
    PROVE  Range(Kept(seq, set)) = Range(seq) \cap set
<1>1. \A n \in DOMAIN Kept(seq, set) :
          Kept(seq, set)[n] \in set /\ \E i \in DOMAIN seq : Kept(seq, set)[n] = seq[i]
  BY KeptWithin
<1>2. \A i \in DOMAIN seq : seq[i] \in set =>
          \E n \in DOMAIN Kept(seq, set) : Kept(seq, set)[n] = seq[i]
  BY KeptAll
<1> DEFINE kept == Kept(seq, set)
<1> HIDE DEF kept
<1> QED
  BY <1>1, <1>2 DEF Range, kept

\* Entries that all differ still do when some are left out.
Differ(seq) == \A i, j \in DOMAIN seq : seq[i] = seq[j] => i = j

\* A filter keeps entries that differ different.
LEMMA KeptDiffer ==
    ASSUME NEW T, NEW seq \in Seq(T), NEW set, Differ(seq)
    PROVE  Differ(Kept(seq, set))
<1>1. PICK place \in [DOMAIN Kept(seq, set) -> DOMAIN seq] :
          /\ \A i, j \in DOMAIN Kept(seq, set) : place[i] = place[j] => i = j
          /\ \A i \in DOMAIN Kept(seq, set) : Kept(seq, set)[i] = seq[place[i]]
  BY KeptPlaces
<1> DEFINE kept == Kept(seq, set)
<1> HIDE DEF kept
<1> QED
  BY <1>1 DEF Differ, kept

\* A scan looks at files of its repository, each once.
LEMMA CandidatesDiffer ==
    ASSUME NEW s \in Sources, NEW repo \in Repos
    PROVE  /\ Differ(Candidates[s][repo])
           /\ Range(Candidates[s][repo]) \in SUBSET Range(RepoFiles[repo])
<1> DEFINE files == RepoFiles[repo]
           matching == Kept(files, Config[s].paths)
           first == FirstOf(matching, Config[s].perRepo)
<1>1. /\ files \in Seq(Files) /\ Differ(files) /\ Config[s].perRepo \in Nat
  BY ConfigAssumption, WebAssumption DEF SourceEntry, Differ
<1> HIDE DEF files
<1>2. matching \in Seq(Files) /\ Differ(matching) /\ Range(matching) \in SUBSET Range(files)
  BY <1>1, KeptWithin, KeptDiffer, KeptRange
<1> HIDE DEF matching
<1>3. Differ(first) /\ Range(first) \in SUBSET Range(matching)
  <2> DEFINE last == Min({Config[s].perRepo, Len(matching)})
  <2>1. Len(matching) \in Nat /\ DOMAIN matching = 1..Len(matching)
    BY <1>2
  <2>2. last \in Int /\ last <= Len(matching)
    <3>1. Config[s].perRepo <= Len(matching) \/ Len(matching) <= Config[s].perRepo
      BY <1>1, <2>1
    <3>2. \E x \in {Config[s].perRepo, Len(matching)} :
              \A y \in {Config[s].perRepo, Len(matching)} : x <= y
      BY <1>1, <2>1, <3>1
    <3> QED
      BY <1>1, <2>1, <3>2 DEF Min
  <2> HIDE DEF last
  <2>3. \A i \in 1..last : i \in DOMAIN matching /\ matching[i] \in Files
    BY <1>2, <2>1, <2>2
  <2> DEFINE prefix == SubSeq(matching, 1, last)
  <2>4. /\ prefix \in Seq(Files) /\ Len(prefix) = IF 1 <= last THEN last ELSE 0
        /\ \A i \in 1..last : prefix[i] = matching[i]
    <3>1. /\ SubSeq(matching, 1, last) \in Seq(Files)
          /\ Len(SubSeq(matching, 1, last)) = IF 1 <= last THEN last - 1 + 1 ELSE 0
          /\ \A i \in 1..(last - 1 + 1) : SubSeq(matching, 1, last)[i] = matching[1 + i - 1]
      BY <2>2, <2>3, SubSeqProperties
    <3> QED
      BY <2>2, <2>3, <3>1
  <2>5. first = prefix
    BY DEF FirstOf, last
  <2> HIDE DEF prefix, first
  <2>6. \A i \in DOMAIN prefix : i \in 1..last /\ i \in DOMAIN matching /\ prefix[i] = matching[i]
    <3>1. DOMAIN prefix = 1..Len(prefix)
      BY <2>4
    <3> QED
      BY <2>2, <2>3, <2>4, <3>1
  <2> QED
    BY <1>2, <2>5, <2>6 DEF Differ, Range
<1>4. Candidates[s][repo] \in {<<>>, first, matching}
  BY DEF Candidates, matching, files
<1>5. Differ(<<>>) /\ Range(<<>>) = {}
  BY DEF Differ, Range
<1> HIDE DEF first
<1> QED
  BY <1>2, <1>3, <1>4, <1>5 DEF files

\* What is new in the first k entries of a list.
New(list, k, taken) == {list[i] : i \in 1..k} \ taken

(***************************************************************************)
(* The first repositories of a list, and the first pages of sitemaps       *)
(***************************************************************************)

\* Who goes through a list, leaves out what was taken and stops at the limit or at
\* the end has the foremost of the others.
LEMMA ForemostIs ==
    ASSUME NEW list \in Seq(Repos), NEW taken \in SUBSET Repos, NEW k \in 0..Len(list),
           NEW cap \in Nat, NEW new, new = New(list, k, taken),
           Cardinality(new) <= cap, k < Len(list) => Cardinality(new) = cap
    PROVE  Foremost(list, Repos \ taken, cap) = new
<1> DEFINE upto == [j \in 0..Len(list) |-> {list[i] : i \in 1..j} \cap (Repos \ taken)]
<1>1. /\ Len(list) \in Nat /\ DOMAIN list = 1..Len(list)
      /\ \A j \in 1..Len(list) : list[j] \in Repos
  OBVIOUS
<1>0. k \in Nat /\ k <= Len(list)
  BY <1>1
<1>a. \A i \in 1..k : i \in 1..Len(list) /\ i \in 0..Len(list) /\ i <= k
  BY <1>0, <1>1
<1>2. \A i, j \in 0..Len(list) : i <= j => upto[i] \in SUBSET upto[j]
  OBVIOUS
<1>3. \A j \in 0..Len(list) : upto[j] \in SUBSET Repos
  OBVIOUS
<1>4. upto[k] = new
  <2> DEFINE all == {list[i] : i \in 1..k}
  <2>1. all \in SUBSET Repos
    BY <1>1
  <2>2. upto[k] = all \cap (Repos \ taken) /\ new = all \ taken
    BY DEF New
  <2> HIDE DEF all, upto
  <2> QED
    BY <2>1, <2>2
<1>5. ASSUME NEW j \in 1..Len(list), list[j] \notin taken PROVE list[j] \in upto[j]
  <2>1. j \in 1..j /\ j \in 0..Len(list) /\ list[j] \in Repos
    BY <1>1
  <2>2. list[j] \in {list[i] : i \in 1..j}
    BY <2>1
  <2> QED
    BY <1>5, <2>1, <2>2
<1>6. \A x : x \in Foremost(list, Repos \ taken, cap) <=>
          \E j \in 1..Len(list) :
              x = list[j] /\ list[j] \notin taken /\ Cardinality(upto[j]) <= cap
  <2>1. ASSUME NEW j \in 1..Len(list) PROVE upto[j] = {list[i] : i \in 1..j} \cap (Repos \ taken)
    <3>1. j \in 0..Len(list)
      BY <1>1
    <3> QED
      BY <3>1
  <2> HIDE DEF upto
  <2>2. Foremost(list, Repos \ taken, cap) =
            {list[i] : i \in {j \in 1..Len(list) :
                 list[j] \in Repos \ taken /\ Cardinality(upto[j]) <= cap}}
    BY <1>1, <2>1 DEF Foremost
  <2> QED
    BY <1>1, <2>2
<1> HIDE DEF upto
<1>7. \A j \in 0..Len(list) : IsFiniteSet(upto[j]) /\ Cardinality(upto[j]) \in Nat
  BY <1>3, ReposFinite
<1>8. ASSUME NEW x \in new PROVE x \in Foremost(list, Repos \ taken, cap)
  <2>1. PICK i \in 1..k : x = list[i] /\ list[i] \notin taken
    BY <1>8 DEF New
  <2>2. i \in 1..Len(list) /\ i \in 0..Len(list) /\ i <= k
    BY <1>1
  <2>3. upto[i] \in SUBSET upto[k]
    BY <1>2, <2>2
  <2>4. Cardinality(upto[i]) <= Cardinality(upto[k])
    BY <1>7, <2>3, FS_Subset
  <2>5. Cardinality(upto[i]) <= cap
    BY <1>4, <1>7, <2>2, <2>4
  <2> QED
    BY <1>6, <2>1, <2>2, <2>5
<1>9. ASSUME NEW x \in Foremost(list, Repos \ taken, cap) PROVE x \in new
  <2>1. PICK j \in 1..Len(list) :
            x = list[j] /\ list[j] \notin taken /\ Cardinality(upto[j]) <= cap
    BY <1>6, <1>9
  <2>2. CASE j <= k
    BY <1>0, <2>1, <2>2 DEF New
  <2>3. CASE j > k
    <3>1. j \in 0..Len(list) /\ k <= j /\ Cardinality(new) = cap
      BY <1>1, <2>3
    <3>2. upto[k] \in SUBSET upto[j]
      BY <1>2, <3>1
    <3>3. Cardinality(upto[k]) <= Cardinality(upto[j])
      BY <1>7, <3>1, <3>2, FS_Subset
    <3>4. Cardinality(upto[k]) = Cardinality(upto[j])
      BY <1>4, <1>7, <2>1, <3>1, <3>3
    <3>5. upto[k] = upto[j]
      BY <1>7, <3>1, <3>2, <3>4, FS_Subset
    <3> QED
      BY <1>4, <1>5, <2>1, <3>5
  <2> QED
    BY <1>1, <2>2, <2>3
<1> QED
  BY <1>8, <1>9

\* The first pages are pages of the site.
LEMMA FirstPagesWithin ==
    ASSUME NEW maps, NEW n
    PROVE  FirstPages(maps, n) \in SUBSET (Pages \ Foreign)
BY DEF FirstPages

\* Pages that were read up to one place are read up to a later one.
LEMMA PagesGrow ==
    ASSUME NEW maps \in Seq(Maps), NEW j \in 1..Len(maps), NEW l \in 1..Len(maps),
           NEW i \in 0..Len(Locs[maps[j]]), NEW k \in 0..Len(Locs[maps[l]]),
           j < l \/ (j = l /\ i <= k)
    PROVE  PagesUpTo(maps, j, i) \in SUBSET PagesUpTo(maps, l, k)
<1> SUFFICES ASSUME NEW p \in PagesUpTo(maps, j, i) PROVE p \in PagesUpTo(maps, l, k)
  OBVIOUS
<1>1. Locs[maps[j]] \in Seq(Maps \cup Pages) /\ DOMAIN Locs[maps[j]] = 1..Len(Locs[maps[j]])
  BY WebAssumption
<1>2. /\ p \in Pages \ Foreign
      /\ \/ p \in {Locs[maps[j]][x] : x \in 1..i}
         \/ \E x \in 1..(j - 1) : p \in Range(Locs[maps[x]])
  BY DEF PagesUpTo
<1>3. CASE \E x \in 1..(j - 1) : p \in Range(Locs[maps[x]])
  BY <1>2, <1>3 DEF PagesUpTo
<1>4. CASE p \in {Locs[maps[j]][x] : x \in 1..i}
  <2>1. CASE j = l
    <3>1. p \in {Locs[maps[l]][x] : x \in 1..k}
      BY <1>4, <2>1
    <3> QED
      BY <1>2, <3>1 DEF PagesUpTo
  <2>2. CASE j < l
    <3>1. p \in Range(Locs[maps[j]])
      BY <1>1, <1>4, SMTT(30) DEF Range
    <3>2. j \in 1..(l - 1)
      BY <2>2
    <3> QED
      BY <1>2, <3>1, <3>2 DEF PagesUpTo
  <2> QED
    BY <2>1, <2>2
<1> QED
  BY <1>2, <1>3, <1>4

\* Finitely many values of a function are a finite set.
LEMMA ImageFinite ==
    ASSUME NEW f, NEW S \in SUBSET DOMAIN f, IsFiniteSet(S)
    PROVE  IsFiniteSet({f[x] : x \in S})
<1> DEFINE T == {f[x] : x \in S}
           g == [x \in S |-> f[x]]
<1>1. g \in [S -> T] /\ \A y \in T : \E x \in S : g[x] = y
  OBVIOUS
<1> HIDE DEF T, g
<1>2. g \in Surjection(S, T)
  BY <1>1, Fun_IsSurj
<1>3. IsFiniteSet(T)
  BY <1>2, FS_Surjection
<1> QED
  BY <1>3 DEF T

\* Only finitely many pages are ever read.
LEMMA PagesFinite ==
    ASSUME NEW maps \in Seq(Maps), NEW j \in 1..Len(maps), NEW i \in 0..Len(Locs[maps[j]])
    PROVE  /\ IsFiniteSet(PagesUpTo(maps, j, i)) /\ Cardinality(PagesUpTo(maps, j, i)) \in Nat
           /\ PagesUpTo(maps, j, i) \in SUBSET Pages
<1>1. \A k \in 1..Len(maps) : Locs[maps[k]] \in Seq(Maps \cup Pages)
  BY WebAssumption
<1> DEFINE parts == {Range(Locs[maps[k]]) : k \in 1..(j - 1)}
<1>2. ASSUME NEW k \in 1..Len(maps) PROVE IsFiniteSet(Range(Locs[maps[k]]))
  <2> DEFINE locs == Locs[maps[k]]
  <2>1. locs \in Seq(Maps \cup Pages)
    BY <1>1
  <2> HIDE DEF locs
  <2>2. locs \in [1..Len(locs) -> Maps \cup Pages] /\ IsFiniteSet(1..Len(locs))
    BY <2>1, FS_Interval
  <2>3. IsFiniteSet({locs[x] : x \in 1..Len(locs)})
    BY <2>2, ImageFinite
  <2>4. Range(locs) = {locs[x] : x \in 1..Len(locs)}
    BY <2>2 DEF Range
  <2> QED
    BY <2>3, <2>4 DEF locs
<1>3. IsFiniteSet(parts)
  <2> DEFINE part == [k \in 1..(j - 1) |-> Range(Locs[maps[k]])]
  <2>1. IsFiniteSet(1..(j - 1))
    BY FS_Interval
  <2>2. parts = {part[k] : k \in 1..(j - 1)} /\ DOMAIN part = 1..(j - 1)
    OBVIOUS
  <2> HIDE DEF part, parts
  <2> QED
    BY <2>1, <2>2, ImageFinite
<1>4. IsFiniteSet(UNION parts)
  <2>1. \A T \in parts : IsFiniteSet(T)
    BY <1>2
  <2> HIDE DEF parts
  <2> QED
    BY <1>3, <2>1, FS_UNION
<1> DEFINE last == Locs[maps[j]]
           first == {last[x] : x \in 1..i}
<1>5. IsFiniteSet(first)
  <2>1. last \in Seq(Maps \cup Pages)
    BY <1>1
  <2>a. i \in 0..Len(last)
    OBVIOUS
  <2> HIDE DEF last
  <2>b. DOMAIN last = 1..Len(last) /\ Len(last) \in Nat
    BY <2>1
  <2>c. IsFiniteSet(1..i)
    BY <2>a, <2>b, FS_Interval
  <2>2. 1..i \in SUBSET DOMAIN last /\ IsFiniteSet(1..i)
    BY <2>a, <2>b, <2>c
  <2> QED
    BY <2>2, ImageFinite
<1>6. PagesUpTo(maps, j, i) = (first \cup UNION parts) \cap (Pages \ Foreign)
  BY DEF PagesUpTo
<1> HIDE DEF first, parts
<1>7. IsFiniteSet(first \cup UNION parts)
  BY <1>4, <1>5, FS_Union
<1>8. PagesUpTo(maps, j, i) \in SUBSET (first \cup UNION parts)
  BY <1>6
<1> QED
  BY <1>6, <1>7, <1>8, FS_Subset, FS_CardinalityType

\* The entries of a sitemap are sitemaps and pages.
LEMMA LocsAre ==
    ASSUME NEW maps \in Seq(Maps), NEW j \in 1..Len(maps)
    PROVE  /\ Locs[maps[j]] \in Seq(Maps \cup Pages)
           /\ DOMAIN Locs[maps[j]] = 1..Len(Locs[maps[j]]) /\ Len(Locs[maps[j]]) \in Nat
           /\ \A k \in 1..Len(Locs[maps[j]]) : Locs[maps[j]][k] \in Maps \cup Pages
<1>1. Locs[maps[j]] \in Seq(Maps \cup Pages)
  BY WebAssumption
<1> DEFINE locs == Locs[maps[j]]
<1> HIDE DEF locs
<1>2. locs \in Seq(Maps \cup Pages)
  BY <1>1 DEF locs
<1> QED
  BY <1>2 DEF locs

\* What it takes to be among the first pages.
LEMMA FirstPageIs ==
    ASSUME NEW maps \in Seq(Maps), NEW n, NEW p
    PROVE  p \in FirstPages(maps, n) <=>
               \E l \in 1..Len(maps) : \E k \in 1..Len(Locs[maps[l]]) :
                   /\ p = Locs[maps[l]][k] /\ p \in Pages \ Foreign
                   /\ Cardinality(PagesUpTo(maps, l, k)) <= n
<1>1. DOMAIN maps = 1..Len(maps)
  OBVIOUS
<1>2. \A l \in 1..Len(maps) : DOMAIN Locs[maps[l]] = 1..Len(Locs[maps[l]])
  BY LocsAre
<1>3. ASSUME p \in FirstPages(maps, n)
      PROVE  \E l \in 1..Len(maps) : \E k \in 1..Len(Locs[maps[l]]) :
                 /\ p = Locs[maps[l]][k] /\ p \in Pages \ Foreign
                 /\ Cardinality(PagesUpTo(maps, l, k)) <= n
  <2>1. \E l \in DOMAIN maps : \E k \in DOMAIN Locs[maps[l]] :
            /\ p = Locs[maps[l]][k] /\ p \in Pages \ Foreign
            /\ Cardinality(PagesUpTo(maps, l, k)) <= n
    BY <1>3 DEF FirstPages
  <2> QED
    BY <1>1, <1>2, <2>1
<1>4. ASSUME NEW l \in 1..Len(maps), NEW k \in 1..Len(Locs[maps[l]]),
             p = Locs[maps[l]][k], p \in Pages \ Foreign,
             Cardinality(PagesUpTo(maps, l, k)) <= n
      PROVE  p \in FirstPages(maps, n)
  <2>1. l \in DOMAIN maps /\ k \in DOMAIN Locs[maps[l]]
    BY <1>1, <1>2
  <2> QED
    BY <1>4, <2>1 DEF FirstPages
<1> QED
  BY <1>3, <1>4

\* A page that was read stands at a place that was read.
LEMMA PagePlace ==
    ASSUME NEW maps \in Seq(Maps), NEW j \in 1..Len(maps), NEW i \in 0..Len(Locs[maps[j]]),
           NEW p
    PROVE  p \in PagesUpTo(maps, j, i) <=>
               /\ p \in Pages \ Foreign
               /\ \E l \in 1..j : \E k \in 1..Len(Locs[maps[l]]) :
                      p = Locs[maps[l]][k] /\ (l = j => k <= i)
<1>1. Len(maps) \in Nat /\ \A l \in 1..j : l \in 1..Len(maps)
  OBVIOUS
<1>2. \A l \in 1..Len(maps) : /\ DOMAIN Locs[maps[l]] = 1..Len(Locs[maps[l]])
                              /\ Len(Locs[maps[l]]) \in Nat
  BY LocsAre
<1>3. ASSUME p \in PagesUpTo(maps, j, i)
      PROVE  /\ p \in Pages \ Foreign
             /\ \E l \in 1..j : \E k \in 1..Len(Locs[maps[l]]) :
                    p = Locs[maps[l]][k] /\ (l = j => k <= i)
  <2>1. /\ p \in Pages \ Foreign
        /\ \/ \E k \in 1..i : p = Locs[maps[j]][k]
           \/ \E l \in 1..(j - 1) : p \in Range(Locs[maps[l]])
    BY <1>3 DEF PagesUpTo
  <2>2. CASE \E k \in 1..i : p = Locs[maps[j]][k]
    <3>1. j \in 1..j /\ \A k \in 1..i : k \in 1..Len(Locs[maps[j]]) /\ k <= i
      BY <1>2
    <3> QED
      BY <2>1, <2>2, <3>1
  <2>3. CASE \E l \in 1..(j - 1) : p \in Range(Locs[maps[l]])
    <3>1. PICK l \in 1..(j - 1) : p \in Range(Locs[maps[l]])
      BY <2>3
    <3>2. l \in 1..j /\ l \in 1..Len(maps) /\ l # j
      BY <1>1
    <3>3. \E k \in 1..Len(Locs[maps[l]]) : p = Locs[maps[l]][k]
      BY <1>2, <3>1, <3>2 DEF Range
    <3> QED
      BY <2>1, <3>2, <3>3
  <2> QED
    BY <2>1, <2>2, <2>3
<1>4. ASSUME p \in Pages \ Foreign, NEW l \in 1..j, NEW k \in 1..Len(Locs[maps[l]]),
             p = Locs[maps[l]][k], l = j => k <= i
      PROVE  p \in PagesUpTo(maps, j, i)
  <2>1. CASE l = j
    <3>1. k \in 1..i
      BY <1>4, <2>1
    <3> QED
      BY <1>4, <2>1, <3>1 DEF PagesUpTo
  <2>2. CASE l # j
    <3>1. l \in 1..(j - 1) /\ l \in 1..Len(maps)
      BY <1>1, <2>2
    <3>2. p \in Range(Locs[maps[l]])
      BY <1>2, <1>4, <3>1 DEF Range
    <3> QED
      BY <1>4, <3>1, <3>2 DEF PagesUpTo
  <2> QED
    BY <2>1, <2>2
<1> QED
  BY <1>3, <1>4

\* Who reads page after page and stops at the limit or at the end has read the first.
LEMMA FirstPagesAre ==
    ASSUME NEW maps \in Seq(Maps), NEW j \in 1..Len(maps), NEW i \in 0..Len(Locs[maps[j]]),
           NEW n \in Int, Cardinality(PagesUpTo(maps, j, i)) <= n,
           Cardinality(PagesUpTo(maps, j, i)) < n =>
               Len(maps) <= j /\ Len(Locs[maps[j]]) <= i
    PROVE  FirstPages(maps, n) = PagesUpTo(maps, j, i)
<1> DEFINE upto == PagesUpTo(maps, j, i)
<1>1. /\ Len(maps) \in Nat /\ j \in Nat /\ i \in Nat
      /\ \A l \in 1..Len(maps) : Len(Locs[maps[l]]) \in Nat
  BY LocsAre
<1>2. IsFiniteSet(upto) /\ Cardinality(upto) \in Nat
  BY PagesFinite
<1>3. ASSUME NEW p \in upto PROVE p \in FirstPages(maps, n)
  <2>1. /\ p \in Pages \ Foreign
        /\ \E l \in 1..j : \E k \in 1..Len(Locs[maps[l]]) :
               p = Locs[maps[l]][k] /\ (l = j => k <= i)
    BY <1>3, PagePlace
  <2>2. PICK l \in 1..j : \E k \in 1..Len(Locs[maps[l]]) :
               p = Locs[maps[l]][k] /\ (l = j => k <= i)
    BY <2>1
  <2>3. PICK k \in 1..Len(Locs[maps[l]]) : p = Locs[maps[l]][k] /\ (l = j => k <= i)
    BY <2>2
  <2>4. l \in 1..Len(maps) /\ (l < j \/ (l = j /\ k <= i))
    BY <1>1, <2>3
  <2>5. k \in 0..Len(Locs[maps[l]])
    BY <1>1, <2>4
  <2>6. PagesUpTo(maps, l, k) \in SUBSET upto
    BY <2>4, <2>5, PagesGrow
  <2> HIDE DEF upto
  <2>7. Cardinality(PagesUpTo(maps, l, k)) <= Cardinality(upto) /\ Cardinality(PagesUpTo(maps, l, k)) \in Nat
    BY <1>2, <2>6, FS_Subset, FS_CardinalityType
  <2>8. Cardinality(PagesUpTo(maps, l, k)) <= n
    BY <1>2, <2>7 DEF upto
  <2> QED
    BY <2>1, <2>3, <2>4, <2>8, FirstPageIs
<1>4. ASSUME NEW p \in FirstPages(maps, n) PROVE p \in upto
  <2>1. PICK l \in 1..Len(maps) : \E k \in 1..Len(Locs[maps[l]]) :
                   /\ p = Locs[maps[l]][k] /\ p \in Pages \ Foreign
                   /\ Cardinality(PagesUpTo(maps, l, k)) <= n
    BY <1>4, FirstPageIs
  <2>2. PICK k \in 1..Len(Locs[maps[l]]) :
                   /\ p = Locs[maps[l]][k] /\ p \in Pages \ Foreign
                   /\ Cardinality(PagesUpTo(maps, l, k)) <= n
    BY <2>1
  <2>3. k \in 0..Len(Locs[maps[l]]) /\ k \in Nat
    BY <1>1
  <2>4. p \in PagesUpTo(maps, l, k)
    <3>1. l \in 1..l /\ k <= k
      BY <1>1, <2>3
    <3> QED
      BY <2>2, <2>3, <3>1, PagePlace
  <2>5. CASE l < j \/ (l = j /\ k <= i)
    <3>1. PagesUpTo(maps, l, k) \in SUBSET upto
      BY <2>3, <2>5, PagesGrow
    <3> QED
      BY <2>4, <3>1
  <2>6. CASE j < l \/ (j = l /\ i < k)
    <3>1. upto \in SUBSET PagesUpTo(maps, l, k)
      BY <2>3, <2>6, PagesGrow
    <3>2. IsFiniteSet(PagesUpTo(maps, l, k)) /\ Cardinality(PagesUpTo(maps, l, k)) \in Nat
      BY <2>3, PagesFinite
    <3>3. ~(Len(maps) <= j /\ Len(Locs[maps[j]]) <= i)
      BY <1>1, <2>3, <2>6
    <3>4. Cardinality(upto) = n
      BY <1>2, <3>3
    <3> HIDE DEF upto
    <3>5. Cardinality(upto) <= Cardinality(PagesUpTo(maps, l, k))
      BY <3>1, <3>2, FS_Subset
    <3>6. Cardinality(upto) = Cardinality(PagesUpTo(maps, l, k))
      BY <1>2, <2>2, <3>2, <3>4, <3>5
    <3>7. upto = PagesUpTo(maps, l, k)
      BY <3>1, <3>2, <3>6, FS_Subset
    <3> QED
      BY <2>4, <3>7
  <2> QED
    BY <1>1, <2>3, <2>5, <2>6
<1> QED
  BY <1>3, <1>4

\* A limit of zero lets no page through.
LEMMA NoPages ==
    ASSUME NEW maps \in Seq(Maps), NEW n \in Int, n <= 0
    PROVE  FirstPages(maps, n) = {}
<1> SUFFICES ASSUME NEW p \in FirstPages(maps, n) PROVE FALSE
  OBVIOUS
<1>1. PICK l \in 1..Len(maps) : \E k \in 1..Len(Locs[maps[l]]) :
                 /\ p = Locs[maps[l]][k] /\ p \in Pages \ Foreign
                 /\ Cardinality(PagesUpTo(maps, l, k)) <= n
  BY FirstPageIs
<1>2. PICK k \in 1..Len(Locs[maps[l]]) :
                 /\ p = Locs[maps[l]][k] /\ p \in Pages \ Foreign
                 /\ Cardinality(PagesUpTo(maps, l, k)) <= n
  BY <1>1
<1>3. Len(Locs[maps[l]]) \in Nat
  BY LocsAre
<1>4. k \in 0..Len(Locs[maps[l]]) /\ k \in Nat /\ l \in 1..l /\ k <= k
  BY <1>3
<1>5. p \in PagesUpTo(maps, l, k)
  BY <1>2, <1>4, PagePlace
<1>6. IsFiniteSet(PagesUpTo(maps, l, k)) /\ Cardinality(PagesUpTo(maps, l, k)) \in Nat
  BY <1>4, PagesFinite
<1>7. Cardinality(PagesUpTo(maps, l, k)) # 0
  BY <1>5, <1>6, FS_EmptySet
<1> QED
  BY <1>2, <1>6, <1>7

\* What one more entry, or the next sitemap, adds to the pages.
LEMMA PagesStep ==
    ASSUME NEW maps \in Seq(Maps), NEW j \in 1..Len(maps), NEW i \in 0..Len(Locs[maps[j]])
    PROVE  /\ i < Len(Locs[maps[j]]) =>
                  PagesUpTo(maps, j, i + 1) =
                      PagesUpTo(maps, j, i) \cup ({Locs[maps[j]][i + 1]} \cap (Pages \ Foreign))
           /\ PagesUpTo(maps, 1, 0) = {}
           /\ j < Len(maps) =>
                  PagesUpTo(maps, j + 1, 0) = PagesUpTo(maps, j, Len(Locs[maps[j]]))
<1>1. Len(Locs[maps[j]]) \in Nat /\ DOMAIN Locs[maps[j]] = 1..Len(Locs[maps[j]])
  BY LocsAre
<1> DEFINE locs == Locs[maps[j]]
           read(k) == {Locs[maps[j]][x] : x \in 1..k}
           before(k) == UNION {Range(Locs[maps[x]]) : x \in 1..(k - 1)}
<1>2. \A k : PagesUpTo(maps, j, k) = (read(k) \cup before(j)) \cap (Pages \ Foreign)
  BY DEF PagesUpTo
<1>3. read(i + 1) = read(i) \cup {locs[i + 1]}
  <2>1. \A x : x \in 1..(i + 1) <=> (x \in 1..i \/ x = i + 1)
    BY <1>1
  <2> QED
    BY <2>1
<1>4. PagesUpTo(maps, 1, 0) = {}
  BY DEF PagesUpTo
<1>5. PagesUpTo(maps, j + 1, 0) = before(j + 1) \cap (Pages \ Foreign)
  BY DEF PagesUpTo
<1>6. before(j + 1) = before(j) \cup Range(locs)
  <2>1. \A x : x \in 1..((j + 1) - 1) <=> (x \in 1..(j - 1) \/ x = j)
    OBVIOUS
  <2> QED
    BY <2>1
<1>7. read(Len(locs)) = Range(locs)
  BY <1>1 DEF Range
<1>8. i + 1 \in Int /\ Len(locs) \in Int
  BY <1>1
<1> HIDE DEF read, before, locs
<1>9. PagesUpTo(maps, j, i + 1) = PagesUpTo(maps, j, i) \cup ({locs[i + 1]} \cap (Pages \ Foreign))
  BY <1>2, <1>3
<1>10. PagesUpTo(maps, j + 1, 0) = PagesUpTo(maps, j, Len(locs))
  BY <1>2, <1>5, <1>6, <1>7
<1> QED
  BY <1>4, <1>9, <1>10 DEF locs

\* Sitemaps that follow do not matter for the pages read before.
LEMMA PagesOfPrefix ==
    ASSUME NEW maps \in Seq(Maps), NEW more \in Seq(Maps), NEW j \in 1..Len(maps), NEW i,
           \A l \in 1..Len(maps) : maps[l] = more[l]
    PROVE  PagesUpTo(maps, j, i) = PagesUpTo(more, j, i)
<1>1. maps[j] = more[j]
  OBVIOUS
<1>2. \A x \in 1..(j - 1) : maps[x] = more[x]
  OBVIOUS
<1>3. {Range(Locs[maps[x]]) : x \in 1..(j - 1)} = {Range(Locs[more[x]]) : x \in 1..(j - 1)}
  BY <1>2
<1> QED
  BY <1>1, <1>3 DEF PagesUpTo

(***************************************************************************)
(* The sitemaps a directory makes known                                    *)
(***************************************************************************)

\* What a sitemap names are sitemaps.
LEMMA OnceOfMaps ==
    ASSUME NEW map \in Maps, NEW set \in SUBSET Maps
    PROVE  Once(Locs[map], set) \in Seq(Maps)
<1> DEFINE once == Once(Locs[map], set)
<1>1. Locs[map] \in Seq(Maps \cup Pages)
  BY WebAssumption
<1>2. once \in Seq(Maps \cup Pages) /\ Range(once) \in SUBSET set
  BY <1>1, OnceIs
<1> HIDE DEF once
<1>3. \A i \in 1..Len(once) : once[i] \in Maps
  BY <1>2 DEF Range
<1> QED
  BY <1>2, <1>3 DEF once

\* What is known when n sitemaps were read and the next one is: Named, unfolded.
Known(n, known) ==
    IF n + 1 > Len(known) THEN known
    ELSE known \o Once(Locs[known[n + 1]], Maps \ (Foreign \cup Range(known)))

\* What is known are sitemaps.
LEMMA KnownIs ==
    ASSUME NEW n \in Nat, NEW known \in Seq(Maps)
    PROVE  Known(n, known) \in Seq(Maps)
<1>1. CASE n + 1 > Len(known)
  BY <1>1 DEF Known
<1>2. CASE ~(n + 1 > Len(known))
  <2>1. known[n + 1] \in Maps
    BY <1>2
  <2> DEFINE set == Maps \ (Foreign \cup Range(known))
             once == Once(Locs[known[n + 1]], set)
  <2>2. once \in Seq(Maps)
    BY <2>1, OnceOfMaps
  <2>3. Known(n, known) = known \o once
    BY <1>2 DEF Known
  <2> HIDE DEF once
  <2> QED
    BY <2>2, <2>3
<1> QED
  BY <1>1, <1>2

\* What was known keeps its place.
LEMMA KnownGrows ==
    ASSUME NEW n \in Nat, NEW known \in Seq(Maps)
    PROVE  /\ Len(known) <= Len(Known(n, known))
           /\ \A l \in 1..Len(known) : Known(n, known)[l] = known[l]
           /\ n + 1 > Len(known) => Known(n, known) = known
<1>1. CASE n + 1 > Len(known)
  BY <1>1 DEF Known
<1>2. CASE ~(n + 1 > Len(known))
  <2>1. known[n + 1] \in Maps
    BY <1>2
  <2> DEFINE set == Maps \ (Foreign \cup Range(known))
             once == Once(Locs[known[n + 1]], set)
  <2>2. once \in Seq(Maps)
    BY <2>1, OnceOfMaps
  <2>3. Known(n, known) = known \o once
    BY <1>2 DEF Known
  <2> HIDE DEF once
  <2>4. Len(known) <= Len(known \o once) /\ \A l \in 1..Len(known) : (known \o once)[l] = known[l]
    BY <2>2
  <2> QED
    BY <1>2, <2>3, <2>4
<1> QED
  BY <1>1, <1>2

\* Named satisfies its recursive definition.
LEMMA NamedIs ==
    /\ Named \in [Nat -> [Maps -> Seq(Maps)]]
    /\ \A root \in Maps :
           /\ Named[0][root] = <<root>>
           /\ \A n \in Nat : Named[n + 1][root] = Known(n, Named[n][root])
<1> DEFINE S == [Maps -> Seq(Maps)]
           base == [root \in Maps |-> <<root>>]
           After(n, t) == [root \in Maps |-> Known(n, t[root])]
           step == [n \in Nat |-> [t \in S |-> After(n, t)]]
<1>1. ASSUME NEW n \in Nat, NEW t \in S PROVE After(n, t) \in S
  BY KnownIs
<1>2. PICK f : Iterates(f, S, base, step)
  <2>1. base \in S
    OBVIOUS
  <2>2. step \in [Nat -> [S -> S]]
    BY <1>1
  <2> HIDE DEF base, step, S
  <2> QED
    BY <2>1, <2>2, Iteration
<1>3. /\ f \in [Nat -> S] /\ f[0] = base
      /\ \A n \in Nat : f[n + 1] = After(n, f[n])
  BY <1>2 DEF Iterates
<1> DEFINE Body(g) == [n \in Nat |-> [root \in Maps |->
              IF n = 0 THEN <<root>>
              ELSE LET known == g[n - 1][root]
                   IN  IF n > Len(known) THEN known
                       ELSE known \o Once(Locs[known[n]], Maps \ (Foreign \cup Range(known)))]]
<1>4. f = Body(f)
  <2> SUFFICES ASSUME NEW n \in Nat
               PROVE  f[n] = [root \in Maps |->
              IF n = 0 THEN <<root>>
              ELSE LET known == f[n - 1][root]
                   IN  IF n > Len(known) THEN known
                       ELSE known \o Once(Locs[known[n]], Maps \ (Foreign \cup Range(known)))]
    BY <1>3
  <2>1. CASE n = 0
    BY <1>3, <2>1
  <2>2. CASE n # 0
    <3>1. n - 1 \in Nat /\ (n - 1) + 1 = n
      BY <2>2
    <3>2. f[n] = After(n - 1, f[n - 1])
      BY <1>3, <3>1
    <3> QED
      BY <2>2, <3>1, <3>2 DEF Known
  <2> QED
    BY <2>1, <2>2
<1>5. Named = Body(Named)
  <2> HIDE DEF S
  <2> QED
    BY <1>4, Zenon DEF Named
<1>6. \A n \in Nat : \A root \in Maps :
          Named[n][root] = IF n = 0 THEN <<root>> ELSE Known(n - 1, Named[n - 1][root])
  <2> SUFFICES ASSUME NEW n \in Nat, NEW root \in Maps
               PROVE  Named[n][root] = IF n = 0 THEN <<root>> ELSE Known(n - 1, Named[n - 1][root])
    OBVIOUS
  <2>1. Named[n][root] =
            IF n = 0 THEN <<root>>
            ELSE LET known == Named[n - 1][root]
                 IN  IF n > Len(known) THEN known
                     ELSE known \o Once(Locs[known[n]], Maps \ (Foreign \cup Range(known)))
    <3>1. Named[n] = Body(Named)[n]
      BY <1>5
    <3>2. Named[n] = [x \in Maps |->
              IF n = 0 THEN <<x>>
              ELSE LET known == Named[n - 1][x]
                   IN  IF n > Len(known) THEN known
                       ELSE known \o Once(Locs[known[n]], Maps \ (Foreign \cup Range(known)))]
      BY <3>1, Zenon
    <3> QED
      BY <3>2
  <2>2. (n - 1) + 1 = n
    OBVIOUS
  <2> QED
    BY <2>1, <2>2 DEF Known
<1>7. DOMAIN Named = Nat /\ \A n \in Nat : Named[n] = [root \in Maps |-> Named[n][root]]
  BY <1>5
<1> DEFINE U == {n \in Nat : Named[n] \in S}
<1>8. 0 \in U
  <2>1. Named[0] = base
    BY <1>6, <1>7
  <2>2. base \in S
    OBVIOUS
  <2> HIDE DEF base, S
  <2> QED
    BY <2>1, <2>2
<1>9. ASSUME NEW n \in Nat, n \in U PROVE n + 1 \in U
  <2>1. n + 1 \in Nat /\ n + 1 # 0 /\ (n + 1) - 1 = n /\ Named[n] \in S
    BY <1>9
  <2>2. \A root \in Maps : Named[n + 1][root] = Known(n, Named[n][root])
    BY <1>6, <2>1
  <2>3. Named[n + 1] = After(n, Named[n])
    BY <1>7, <2>1, <2>2
  <2> QED
    BY <1>1, <2>1, <2>3
<1>10. \A n \in Nat : n \in U
  <2> HIDE DEF U
  <2> QED
    BY <1>8, <1>9, Induction
<1>11. Named \in [Nat -> S]
  <2>1. \A n \in Nat : Named[n] \in S
    BY <1>10
  <2>2. Named = [n \in Nat |-> Named[n]]
    BY <1>5
  <2> HIDE DEF S
  <2> QED
    BY <2>1, <2>2
<1>12. \A n \in Nat : \A root \in Maps : Named[n + 1][root] = Known(n, Named[n][root])
  <2> SUFFICES ASSUME NEW n \in Nat, NEW root \in Maps
               PROVE  Named[n + 1][root] = Known(n, Named[n][root])
    OBVIOUS
  <2>1. n + 1 \in Nat /\ n + 1 # 0 /\ (n + 1) - 1 = n
    OBVIOUS
  <2> QED
    BY <1>6, <2>1
<1> QED
  BY <1>6, <1>11, <1>12

\* The sitemaps that are known after n were read.
LEMMA NamedAt ==
    ASSUME NEW root \in Maps, NEW n \in Nat
    PROVE  /\ Named[n][root] \in Seq(Maps)
           /\ Named[n + 1][root] = Known(n, Named[n][root])
<1>1. Named[n] \in [Maps -> Seq(Maps)]
  <2>1. Named \in [Nat -> [Maps -> Seq(Maps)]]
    BY NamedIs
  <2> QED
    BY <2>1
<1>2. Named[n][root] \in Seq(Maps)
  BY <1>1
<1>3. Named[n + 1][root] = Known(n, Named[n][root])
  BY NamedIs
<1> QED
  BY <1>2, <1>3

\* Nothing that is known is forgotten or comes to stand elsewhere.
LEMMA NamedGrows ==
    ASSUME NEW root \in Maps, NEW m \in Nat, NEW n \in Nat, m <= n
    PROVE  /\ Len(Named[m][root]) <= Len(Named[n][root])
           /\ \A k \in 1..Len(Named[m][root]) : Named[n][root][k] = Named[m][root][k]
<1> DEFINE known == [k \in Nat |-> Named[k][root]]
           Extends(k) == /\ Len(known[m]) <= Len(known[k])
                         /\ \A l \in 1..Len(known[m]) : known[k][l] = known[m][l]
           U == {k \in Nat : m <= k => Extends(k)}
<1>1. ASSUME NEW k \in Nat
      PROVE  known[k] \in Seq(Maps) /\ Len(known[k]) \in Nat /\ known[k + 1] = Known(k, known[k])
  <2>1. k + 1 \in Nat
    OBVIOUS
  <2>2. Named[k][root] \in Seq(Maps) /\ Named[k + 1][root] = Known(k, Named[k][root])
    BY NamedAt
  <2>3. known[k] = Named[k][root] /\ known[k + 1] = Named[k + 1][root]
    BY <2>1
  <2> HIDE DEF known
  <2>4. known[k] \in Seq(Maps)
    BY <2>2, <2>3
  <2> QED
    BY <2>2, <2>3, <2>4
<1> HIDE DEF known
<1>2. Extends(m)
  BY <1>1
<1>3. 0 \in U
  <2>1. m <= 0 => m = 0
    OBVIOUS
  <2> QED
    BY <1>2, <2>1
<1>4. ASSUME NEW k \in Nat, k \in U PROVE k + 1 \in U
  <2>1. CASE m <= k
    <3>1. Extends(k)
      BY <1>4, <2>1
    <3>2. /\ Len(known[k]) <= Len(known[k + 1])
          /\ \A l \in 1..Len(known[k]) : known[k + 1][l] = known[k][l]
      <4>1. known[k] \in Seq(Maps) /\ known[k + 1] = Known(k, known[k])
        BY <1>1
      <4> QED
        BY <4>1, KnownGrows
    <3>3. Extends(k + 1)
      <4>1. Len(known[m]) \in Nat /\ Len(known[k]) \in Nat /\ Len(known[k + 1]) \in Nat
        <5>1. k + 1 \in Nat
          OBVIOUS
        <5> QED
          BY <1>1, <5>1
      <4>2. \A l \in 1..Len(known[m]) : l \in 1..Len(known[k])
        BY <3>1, <4>1
      <4> QED
        BY <3>1, <3>2, <4>1, <4>2
    <3> QED
      BY <3>3
  <2>2. CASE ~(m <= k)
    <3>1. m <= k + 1 => m = k + 1
      BY <2>2
    <3> QED
      BY <1>2, <3>1
  <2> QED
    BY <2>1, <2>2
<1>5. \A k \in Nat : k \in U
  <2> HIDE DEF U
  <2> QED
    BY <1>3, <1>4, Induction
<1> QED
  BY <1>5 DEF known

\* When all that is known was read, no more is to be known.
LEMMA NamedDrained ==
    ASSUME NEW root \in Maps, NEW m \in Nat, NEW n \in Nat, m <= n,
           Len(Named[m][root]) <= m
    PROVE  Named[n][root] = Named[m][root]
<1> DEFINE known == [k \in Nat |-> Named[k][root]]
           U == {k \in Nat : m <= k => known[k] = known[m]}
<1>1. ASSUME NEW k \in Nat
      PROVE  known[k] \in Seq(Maps) /\ Len(known[k]) \in Nat /\ known[k + 1] = Known(k, known[k])
  <2>1. k + 1 \in Nat
    OBVIOUS
  <2>2. Named[k][root] \in Seq(Maps) /\ Named[k + 1][root] = Known(k, Named[k][root])
    BY NamedAt
  <2>3. known[k] = Named[k][root] /\ known[k + 1] = Named[k + 1][root]
    BY <2>1
  <2> HIDE DEF known
  <2>4. known[k] \in Seq(Maps)
    BY <2>2, <2>3
  <2> QED
    BY <2>2, <2>3, <2>4
<1>2. Len(known[m]) <= m
  OBVIOUS
<1> HIDE DEF known
<1>3. 0 \in U
  <2>1. m <= 0 => m = 0
    OBVIOUS
  <2> QED
    BY <2>1
<1>4. ASSUME NEW k \in Nat, k \in U PROVE k + 1 \in U
  <2>1. CASE m <= k
    <3>1. known[k] = known[m]
      BY <1>4, <2>1
    <3>a. Len(known[k]) \in Nat /\ Len(known[k]) <= m
      BY <1>1, <1>2, <3>1
    <3>2. k + 1 > Len(known[k])
      BY <2>1, <3>a
    <3>3. known[k + 1] = known[k]
      <4>1. known[k] \in Seq(Maps) /\ known[k + 1] = Known(k, known[k])
        BY <1>1
      <4> QED
        BY <3>2, <4>1, KnownGrows
    <3> QED
      BY <3>1, <3>3
  <2>2. CASE ~(m <= k)
    <3>1. m <= k + 1 => m = k + 1
      BY <2>2
    <3> QED
      BY <3>1
  <2> QED
    BY <2>1, <2>2
<1>5. \A k \in Nat : k \in U
  <2> HIDE DEF U
  <2> QED
    BY <1>3, <1>4, Induction
<1> QED
  BY <1>5 DEF known

(***************************************************************************)
(* What the sources promise                                                *)
(***************************************************************************)

\* The repositories named on the first pages of a directory.
SitemapPages(e) == UNION {PageRepos[p] : p \in FirstPages(Sitemaps[e.map], e.pages)}

\* The repositories of a source, kind by kind.
LEMMA ReposOfIs ==
    ASSUME NEW s \in Sources
    PROVE  /\ ReposOf[s] \in Seq(Repos)
           /\ Config[s].kind = "web_directory" =>
                  /\ SitemapPages(Config[s]) \in SUBSET Repos
                  /\ ReposOf[s] = Sorted[Range(Config[s].listed) \cup SitemapPages(Config[s])]
           /\ Config[s].kind = "github_search" =>
                  ReposOf[s] = Sorted[Foremost(Config[s].listed, Repos, Config[s].cap)]
           /\ Config[s].kind = "github_repo" => ReposOf[s] = Config[s].listed
           /\ Config[s].kind = "markdown_list" =>
                  ReposOf[s] = IF Config[s].scan THEN Config[s].listed ELSE <<>>
           /\ Config[s].kind = "page" => ReposOf[s] = <<>>
<1> DEFINE e == Config[s]
           pages == FirstPages(Sitemaps[e.map], e.pages)
           dir == Sorted[Range(e.listed) \cup SitemapPages(e)]
           hits == Sorted[Foremost(e.listed, Repos, e.cap)]
<1>1. e.listed \in Seq(Repos) /\ e.kind \in Kinds /\ e.scan \in BOOLEAN
  BY ConfigAssumption DEF SourceEntry
<1>2. ReposOf[s] = CASE e.kind = "web_directory" -> dir
                     [] e.kind = "github_search" -> hits
                     [] e.kind = "github_repo" -> e.listed
                     [] e.kind = "markdown_list" /\ e.scan -> e.listed
                     [] OTHER -> <<>>
  BY DEF ReposOf, SitemapPages
<1>3. SitemapPages(e) \in SUBSET Repos
  <2>1. pages \in SUBSET Pages
    BY FirstPagesWithin
  <2> HIDE DEF pages
  <2>2. \A p \in pages : PageRepos[p] \in SUBSET Repos
    BY <2>1, WebAssumption
  <2> QED
    BY <2>2 DEF SitemapPages, pages
<1>4. dir \in Seq(Repos)
  <2>1. Range(e.listed) \cup SitemapPages(e) \in SUBSET Repos
    BY <1>1, <1>3, RangeWithin
  <2> QED
    BY <2>1, SortedIs
<1>5. hits \in Seq(Repos)
  BY <1>1, ForemostWithin, SortedIs
<1>6. <<>> \in Seq(Repos)
  OBVIOUS
<1> HIDE DEF dir, hits, e
<1>7. /\ e.kind = "web_directory" => ReposOf[s] = dir
      /\ e.kind = "github_search" => ReposOf[s] = hits
      /\ e.kind = "github_repo" => ReposOf[s] = e.listed
      /\ e.kind = "markdown_list" => ReposOf[s] = IF e.scan THEN e.listed ELSE <<>>
      /\ e.kind = "page" => ReposOf[s] = <<>>
  BY <1>1, <1>2
<1>8. ReposOf[s] \in Seq(Repos)
  BY <1>1, <1>4, <1>5, <1>6, <1>7 DEF Kinds
<1> QED
  BY <1>3, <1>7, <1>8 DEF dir, hits, e

\* What a source takes are repositories, the foremost of those left.
LEMMA TakesAre ==
    ASSUME NEW s \in Sources, NEW taken \in SUBSET Repos
    PROVE  /\ Takes[s][taken] = Foremost(ReposOf[s], Repos \ taken, Config[s].cap)
           /\ Takes[s][taken] \in SUBSET Repos
<1>1. Takes[s][taken] = Foremost(ReposOf[s], Repos \ taken, Config[s].cap)
  BY DEF Takes
<1>2. ReposOf[s] \in Seq(Repos)
  BY ReposOfIs
<1>3. Foremost(ReposOf[s], Repos \ taken, Config[s].cap) \in SUBSET Repos
  BY <1>2, ForemostWithin
<1> QED
  BY <1>1, <1>3

\* What the sources of a run take, source by source.
LEMMA TakenIs ==
    /\ Taken \in [Nat -> [Runs -> SUBSET Repos]]
    /\ \A r \in Runs :
           /\ Taken[0][r] = {}
           /\ \A n \in Nat :
                  Taken[n + 1][r] = IF n + 1 > Len(Plan[r]) THEN Taken[n][r]
                                    ELSE Taken[n][r] \cup Takes[Plan[r][n + 1]][Taken[n][r]]
<1> DEFINE S == [Runs -> SUBSET Repos]
           base == [r \in Runs |-> {}]
           After(n, t) == [r \in Runs |->
               IF n + 1 > Len(Plan[r]) THEN t[r] ELSE t[r] \cup Takes[Plan[r][n + 1]][t[r]]]
           step == [n \in Nat |-> [t \in S |-> After(n, t)]]
<1>1. ASSUME NEW n \in Nat, NEW t \in S PROVE After(n, t) \in S
  <2> SUFFICES ASSUME NEW r \in Runs
               PROVE  (IF n + 1 > Len(Plan[r]) THEN t[r] ELSE t[r] \cup Takes[Plan[r][n + 1]][t[r]])
                          \in SUBSET Repos
    OBVIOUS
  <2>1. t[r] \in SUBSET Repos
    OBVIOUS
  <2>2. ASSUME ~(n + 1 > Len(Plan[r])) PROVE Takes[Plan[r][n + 1]][t[r]] \in SUBSET Repos
    <3>1. Plan[r] \in Seq(Sources)
      BY PlanIs
    <3>2. Plan[r][n + 1] \in Sources
      BY <2>2, <3>1
    <3> QED
      BY <2>1, <3>2, TakesAre
  <2> QED
    BY <2>1, <2>2
<1>2. PICK f : Iterates(f, S, base, step)
  <2>1. base \in S
    OBVIOUS
  <2>2. step \in [Nat -> [S -> S]]
    BY <1>1
  <2> HIDE DEF base, step, S
  <2> QED
    BY <2>1, <2>2, Iteration
<1>3. /\ f \in [Nat -> S] /\ f[0] = base
      /\ \A n \in Nat : f[n + 1] = After(n, f[n])
  BY <1>2 DEF Iterates
<1>4. f = [n \in Nat |-> [r \in Runs |->
              IF n = 0 THEN {}
              ELSE IF n > Len(Plan[r]) THEN f[n - 1][r]
              ELSE f[n - 1][r] \cup Takes[Plan[r][n]][f[n - 1][r]]]]
  <2> SUFFICES ASSUME NEW n \in Nat
               PROVE  f[n] = [r \in Runs |->
                          IF n = 0 THEN {}
                          ELSE IF n > Len(Plan[r]) THEN f[n - 1][r]
                          ELSE f[n - 1][r] \cup Takes[Plan[r][n]][f[n - 1][r]]]
    BY <1>3
  <2>1. CASE n = 0
    BY <1>3, <2>1
  <2>2. CASE n # 0
    <3>1. n - 1 \in Nat /\ (n - 1) + 1 = n
      BY <2>2
    <3>2. f[n] = After(n - 1, f[n - 1])
      BY <1>3, <3>1
    <3> QED
      BY <2>2, <3>1, <3>2
  <2> QED
    BY <2>1, <2>2
<1>5. Taken = [n \in Nat |-> [r \in Runs |->
              IF n = 0 THEN {}
              ELSE IF n > Len(Plan[r]) THEN Taken[n - 1][r]
              ELSE Taken[n - 1][r] \cup Takes[Plan[r][n]][Taken[n - 1][r]]]]
  <2> HIDE DEF S
  <2> QED
    BY <1>4, Zenon DEF Taken
<1>6. \A n \in Nat : n \in {i \in Nat : Taken[i] \in S}
  <2> DEFINE U == {i \in Nat : Taken[i] \in S}
  <2>1. Taken[0] = base
    BY <1>5
  <2>2. ASSUME NEW n \in Nat, n \in U PROVE n + 1 \in U
    <3>1. n + 1 \in Nat /\ n + 1 # 0 /\ (n + 1) - 1 = n /\ Taken[n] \in S
      BY <2>2
    <3>2. Taken[n + 1] = After(n, Taken[n])
      BY <1>5, <3>1
    <3> QED
      BY <1>1, <3>1, <3>2
  <2>3. 0 \in U
    BY <2>1
  <2> HIDE DEF U
  <2>4. \A n \in Nat : n \in U
    BY <2>2, <2>3, Induction
  <2> QED
    BY <2>4 DEF U
<1>7. Taken \in [Nat -> S]
  BY <1>5, <1>6
<1>8. ASSUME NEW n \in Nat PROVE Taken[n + 1] = After(n, Taken[n])
  <2>1. n + 1 \in Nat /\ n + 1 # 0 /\ (n + 1) - 1 = n /\ Taken[n] \in S
    BY <1>6
  <2> QED
    BY <1>5, <2>1
<1>9. Taken[0] = base
  BY <1>5
<1>10. \A r \in Runs : Taken[0][r] = {}
  BY <1>9
<1>11. \A n \in Nat : \A r \in Runs :
           Taken[n + 1][r] = IF n + 1 > Len(Plan[r]) THEN Taken[n][r]
                             ELSE Taken[n][r] \cup Takes[Plan[r][n + 1]][Taken[n][r]]
  BY <1>8
<1> QED
  BY <1>7, <1>10, <1>11

\* What the sources up to the n-th take are repositories.
LEMMA TakenAt ==
    ASSUME NEW r \in Runs, NEW n \in 1..Len(Plan[r])
    PROVE  /\ Taken[n - 1][r] \in SUBSET Repos
           /\ Taken[n][r] = Taken[n - 1][r] \cup Takes[Plan[r][n]][Taken[n - 1][r]]
<1>1. n - 1 \in Nat /\ (n - 1) + 1 = n /\ Len(Plan[r]) \in Nat
  BY PlanIs
<1>2. ~(n > Len(Plan[r]))
  BY <1>1
<1>3. Taken[n - 1][r] \in SUBSET Repos
  <2>1. Taken[n - 1] \in [Runs -> SUBSET Repos]
    BY <1>1, TakenIs
  <2> QED
    BY <2>1
<1>4. Taken[(n - 1) + 1][r] = IF (n - 1) + 1 > Len(Plan[r]) THEN Taken[n - 1][r]
                              ELSE Taken[n - 1][r] \cup Takes[Plan[r][(n - 1) + 1]][Taken[n - 1][r]]
  BY <1>1, TakenIs
<1> QED
  BY <1>1, <1>2, <1>3, <1>4

\* What a source brings home with one repository more, and without any.
LEMMA BroughtIs ==
    ASSUME NEW s \in Sources
    PROVE  /\ Brought(s, {}) = {[source |-> s, file |-> f] : f \in Links[s]}
           /\ \A repos, repo :
                  Brought(s, repos \cup {repo}) =
                      Brought(s, repos) \cup {[source |-> s, file |-> f] : f \in Range(Candidates[s][repo])}
<1> DEFINE Row(f) == [source |-> s, file |-> f]
           F(x) == Range(Candidates[s][x])
<1>1. \A repos : Brought(s, repos) = {Row(f) : f \in Links[s] \cup UNION {F(x) : x \in repos}}
  BY DEF Brought
<1>a. \A x : F(x) = Range(Candidates[s][x])
  OBVIOUS
<1> HIDE DEF F
<1>2. ASSUME NEW repos, NEW repo
      PROVE  UNION {F(x) : x \in repos \cup {repo}} = (UNION {F(x) : x \in repos}) \cup F(repo)
  <2>1. \A f : f \in UNION {F(x) : x \in repos \cup {repo}} <=>
                   f \in UNION {F(x) : x \in repos} \/ f \in F(repo)
    <3>1. \A S, f : f \in UNION {F(x) : x \in S} <=> \E x \in S : f \in F(x)
      OBVIOUS
    <3> QED
      BY <3>1
  <2> QED
    BY <2>1
<1>3. UNION {F(x) : x \in {}} = {}
  OBVIOUS
<1>4. Brought(s, {}) = {Row(f) : f \in Links[s]}
  <2>1. Links[s] \cup UNION {F(x) : x \in {}} = Links[s]
    BY <1>3
  <2> QED
    BY <1>1, <2>1
<1>5. ASSUME NEW repos, NEW repo
      PROVE  Brought(s, repos \cup {repo}) =
                 Brought(s, repos) \cup {Row(f) : f \in Range(Candidates[s][repo])}
  <2> DEFINE A == Links[s] \cup UNION {F(x) : x \in repos}
             B == F(repo)
  <2>1. Links[s] \cup UNION {F(x) : x \in repos \cup {repo}} = A \cup B
    <3> DEFINE C == UNION {F(x) : x \in repos \cup {repo}}
               D == UNION {F(x) : x \in repos}
    <3>1. C = D \cup B
      BY <1>2
    <3> HIDE DEF B, C, D
    <3>2. Links[s] \cup C = (Links[s] \cup D) \cup B
      BY <3>1
    <3> QED
      BY <3>2 DEF C, D
  <2>2. Brought(s, repos) = {Row(f) : f \in A}
    BY <1>1
  <2>3. Brought(s, repos \cup {repo}) = {Row(f) : f \in A \cup B}
    BY <1>1, <2>1
  <2>4. B = Range(Candidates[s][repo])
    BY <1>a
  <2> HIDE DEF A, B
  <2>5. {Row(f) : f \in A \cup B} = {Row(f) : f \in A} \cup {Row(f) : f \in B}
    OBVIOUS
  <2> QED
    BY <2>2, <2>3, <2>4, <2>5
<1> QED
  BY <1>4, <1>5

\* What the sources of a run promise, source by source.
LEMMA PromisedIs ==
    ASSUME NEW r \in Runs
    PROVE  /\ Promised(r, 0) = {}
           /\ \A n \in 1..Len(Plan[r]) :
                  Promised(r, n) = Promised(r, n - 1)
                      \cup Brought(Plan[r][n], Takes[Plan[r][n]][Taken[n - 1][r]])
<1> DEFINE part(k) == Brought(Plan[r][k], Takes[Plan[r][k]][Taken[k - 1][r]])
<1>1. \A n : Promised(r, n) = UNION {part(k) : k \in 1..n}
  BY DEF Promised
<1> HIDE DEF part
<1>2. UNION {part(k) : k \in 1..0} = {}
  OBVIOUS
<1>3. ASSUME NEW n \in 1..Len(Plan[r])
      PROVE  UNION {part(k) : k \in 1..n} = (UNION {part(k) : k \in 1..(n - 1)}) \cup part(n)
  <2>1. \A k : k \in 1..n <=> (k \in 1..(n - 1) \/ k = n)
    BY PlanIs
  <2>2. \A S, x : x \in UNION {part(k) : k \in S} <=> \E k \in S : x \in part(k)
    OBVIOUS
  <2>3. \A x : x \in UNION {part(k) : k \in 1..n} <=>
                  x \in UNION {part(k) : k \in 1..(n - 1)} \/ x \in part(n)
    BY <2>1, <2>2
  <2> QED
    BY <2>3
<1> QED
  BY <1>1, <1>2, <1>3 DEF part

\* What a source brings home with some files.
LEMMA ItemsRange ==
    ASSUME NEW s, NEW files
    PROVE  Range(Items(s, files)) = {[source |-> s, file |-> f] : f \in Range(files)}
BY DEF Items, Range

(***************************************************************************)
(* What a run has, and what it has if it missed nothing                    *)
(***************************************************************************)

\* What a run has gathered: the documents of scanned repositories, and links.
Gathered(m) ==
    /\ \A i \in DOMAIN m.results :
           \/ m.results[i].file \in Links[m.results[i].source]
           \/ \E repo \in m.scanned : m.results[i].file \in Range(RepoFiles[repo])
    /\ \A i, j \in DOMAIN m.results :
           i # j /\ m.results[i].file = m.results[j].file =>
               \/ m.results[i].file \in Links[m.results[i].source]
               \/ m.results[j].file \in Links[m.results[j].source]

\* The first j of the known sitemaps, and that a queue brings up the others.
FirstKnown(known, j) == {known[k] : k \in 1..j}
Pending(queue, known, j) ==
    Once(queue, Maps \ (Foreign \cup FirstKnown(known, j))) = SubSeq(known, j + 1, Len(known))

\* The sitemaps in known were read up to the j-th, of which locs is still to come,
\* and those in maps are to be read, in the order in which they became known.
Walked(m, known, j) ==
    LET last == Locs[known[j]] IN
    /\ j <= Len(known) /\ m.seenMaps = FirstKnown(known, j)
    /\ \A i \in DOMAIN m.maps : m.maps[i] \notin Foreign
    /\ Pending(m.maps \o m.locs, known, j)
    /\ m.at = "sitemaps" => m.locs = <<>>
    /\ Len(m.locs) <= Len(last)
    /\ m.locs = SubSeq(last, Len(last) - Len(m.locs) + 1, Len(last))
    /\ m.seenPages = PagesUpTo(known, j, Len(last) - Len(m.locs))

\* Nothing was read yet, or some sitemaps were.
AtRoot(e, m)   == /\ m.seenMaps = {} /\ m.at = "sitemaps" /\ m.maps = <<e.map>>
                  /\ m.seenPages = {} /\ m.locs = <<>>
UnderWay(e, m) == /\ m.seenMaps # {}
                  /\ LET j == Cardinality(m.seenMaps) IN Walked(m, Named[j][e.map], j)

Walking(e, m) ==
    /\ e.kind = "web_directory" /\ e.pages > 0
    /\ \/ /\ m.budget < 0 /\ m.locs = <<>>
          /\ m.found = Range(e.listed) \cup SitemapPages(e)
       \/ /\ m.budget >= 0 /\ Cardinality(m.seenPages) = e.pages - m.budget
          /\ m.found = Range(e.listed) \cup UNION {PageRepos[p] : p \in m.seenPages}
          /\ AtRoot(e, m) \/ UnderWay(e, m)

Scanning(r, m) ==
    LET s     == Plan[r][m.pos]
        taken == Taken[m.pos - 1][r]
        list  == ReposOf[s]
        fresh == New(list, Len(list) - Len(m.todo), taken)
    IN
    /\ Len(m.todo) <= Len(list)
    /\ m.todo = SubSeq(list, Len(list) - Len(m.todo) + 1, Len(list))
    /\ m.scanned = taken \cup fresh
    /\ m.count = Cardinality(fresh) /\ m.count <= Config[s].cap
    /\ Range(m.results) = Promised(r, m.pos - 1) \cup Brought(s, fresh)

\* Whatever the sources before the one at hand promise, and no more.
Begun(r, m) ==
    /\ m.scanned = Taken[m.pos - 1][r] /\ m.count = 0
    /\ Range(m.results) = Promised(r, m.pos - 1)

\* What holds of a run that missed nothing.
Clean(r, m) ==
    /\ m.at = "open" => /\ Begun(r, m)
                        /\ m.maps = <<>> /\ m.seenMaps = {} /\ m.locs = <<>>
                        /\ m.seenPages = {} /\ m.found = {}
    /\ m.at \in {"sitemaps", "pages"} => Begun(r, m) /\ Walking(Config[Plan[r][m.pos]], m)
    /\ m.at = "scan" => Scanning(r, m)
    /\ m.at \in Storing => Range(m.results) = Expected[r]

Sound(r, m) == Gathered(m) /\ (~m.missed => Clean(r, m))

\* Only the results and the repositories that were scanned matter.
LEMMA GatheredSame ==
    ASSUME NEW m, NEW n, Gathered(m), n.results = m.results, n.scanned = m.scanned
    PROVE  Gathered(n)
BY DEF Gathered

\* Where the entries of two lists, one behind the other, come from.
LEMMA MoreResults ==
    ASSUME NEW old \in Seq(Results), NEW s \in Sources, NEW files \in Seq(Files),
           NEW i \in DOMAIN (old \o Items(s, files))
    PROVE  \/ i \in DOMAIN old /\ (old \o Items(s, files))[i] = old[i]
           \/ /\ i - Len(old) \in DOMAIN files /\ i - Len(old) + Len(old) = i
              /\ (old \o Items(s, files))[i] = [source |-> s, file |-> files[i - Len(old)]]
<1> DEFINE more == Items(s, files)
<1>1. /\ more \in Seq(Results) /\ DOMAIN more = DOMAIN files /\ DOMAIN files = 1..Len(files)
      /\ \A k \in DOMAIN files : more[k] = [source |-> s, file |-> files[k]]
  BY ItemsAre DEF Items
<1> HIDE DEF more
<1>2. /\ Len(more) = Len(files) /\ Len(files) \in Nat /\ Len(old) \in Nat
      /\ DOMAIN old = 1..Len(old)
  BY <1>1
<1>3. /\ DOMAIN (old \o more) = 1..(Len(old) + Len(more))
      /\ \A k \in 1..(Len(old) + Len(more)) :
             (old \o more)[k] = IF k <= Len(old) THEN old[k] ELSE more[k - Len(old)]
  BY <1>1
<1>4. i \in 1..(Len(old) + Len(files))
  BY <1>2, <1>3 DEF more
<1>5. CASE i <= Len(old)
  BY <1>2, <1>3, <1>4, <1>5 DEF more
<1>6. CASE i > Len(old)
  <2>1. i - Len(old) \in DOMAIN files /\ i - Len(old) + Len(old) = i /\ ~(i <= Len(old))
    BY <1>1, <1>2, <1>4, <1>6
  <2>2. (old \o more)[i] = more[i - Len(old)]
    BY <1>2, <1>3, <1>4, <2>1
  <2> QED
    BY <1>1, <2>1, <2>2 DEF more
<1> QED
  BY <1>2, <1>4, <1>5, <1>6

\* Links may be gathered at any time.
LEMMA GatheredLinks ==
    ASSUME NEW m, NEW n, Gathered(m), m.results \in Seq(Results),
           NEW s \in Sources, NEW files \in Seq(Files), Range(files) \in SUBSET Links[s],
           n.results = m.results \o Items(s, files), n.scanned = m.scanned
    PROVE  Gathered(n)
<1> DEFINE all == m.results \o Items(s, files)
           IsLink(x) == x.file \in Links[x.source]
<1>1. ASSUME NEW i \in DOMAIN all
      PROVE  \/ i \in DOMAIN m.results /\ all[i] = m.results[i]
             \/ IsLink(all[i])
  <2>1. \A k \in DOMAIN files : files[k] \in Links[s]
    BY DEF Range
  <2>2. \/ i \in DOMAIN m.results /\ all[i] = m.results[i]
        \/ \E k \in DOMAIN files : all[i] = [source |-> s, file |-> files[k]]
    BY <1>1, MoreResults
  <2> HIDE DEF all
  <2> QED
    BY <2>1, <2>2
<1> HIDE DEF all
<1>2. n.results = all
  BY DEF all
<1> QED
  BY <1>1, <1>2 DEF Gathered

\* The files of a repository are gathered when it is scanned, and each once.
LEMMA GatheredFiles ==
    ASSUME NEW m, NEW n, Gathered(m), m.results \in Seq(Results), m.scanned \in SUBSET Repos,
           NEW s \in Sources, NEW files \in Seq(Files), Differ(files),
           NEW repo \in Repos \ m.scanned, Range(files) \in SUBSET Range(RepoFiles[repo]),
           n.results = m.results \o Items(s, files), n.scanned = m.scanned \cup {repo}
    PROVE  Gathered(n)
<1> DEFINE all == m.results \o Items(s, files)
           FromScan(x) == \E y \in m.scanned : x.file \in Range(RepoFiles[y])
           IsLink(x) == x.file \in Links[x.source]
<1>1. \A k \in DOMAIN files : files[k] \in Range(RepoFiles[repo])
  BY DEF Range
<1>2. \A f, y : y \in m.scanned /\ f \in Range(RepoFiles[y]) => f \notin Range(RepoFiles[repo])
  <2> SUFFICES ASSUME NEW f, NEW y \in m.scanned, f \in Range(RepoFiles[y]),
                      f \in Range(RepoFiles[repo])
               PROVE  FALSE
    OBVIOUS
  <2>1. PICK i \in DOMAIN RepoFiles[y] : RepoFiles[y][i] = f
    BY DEF Range
  <2>2. PICK j \in DOMAIN RepoFiles[repo] : RepoFiles[repo][j] = f
    BY DEF Range
  <2>3. y \in Repos /\ repo \in Repos /\ y # repo
    OBVIOUS
  <2> QED
    BY <2>1, <2>2, <2>3, WebAssumption
<1>3. ASSUME NEW i \in DOMAIN all
      PROVE  \/ i \in DOMAIN m.results /\ all[i] = m.results[i]
             \/ /\ i - Len(m.results) \in DOMAIN files /\ i - Len(m.results) + Len(m.results) = i
                /\ all[i] = [source |-> s, file |-> files[i - Len(m.results)]]
  BY <1>3, MoreResults
<1> HIDE DEF all
<1>4. \A i \in DOMAIN m.results : IsLink(m.results[i]) \/ FromScan(m.results[i])
  BY DEF Gathered
<1>5. \A i \in DOMAIN all : \/ IsLink(all[i]) \/ FromScan(all[i])
                            \/ all[i].file \in Range(RepoFiles[repo])
  <2> SUFFICES ASSUME NEW i \in DOMAIN all
               PROVE  \/ IsLink(all[i]) \/ FromScan(all[i])
                      \/ all[i].file \in Range(RepoFiles[repo])
    OBVIOUS
  <2>1. CASE i \in DOMAIN m.results /\ all[i] = m.results[i]
    <3> HIDE DEF IsLink, FromScan
    <3> QED
      BY <1>4, <2>1
  <2>2. ASSUME NEW k \in DOMAIN files, all[i] = [source |-> s, file |-> files[k]]
        PROVE  all[i].file \in Range(RepoFiles[repo])
    BY <1>1, <2>2
  <2> QED
    BY <1>3, <2>1, <2>2
<1>6. ASSUME NEW i \in DOMAIN all, NEW j \in DOMAIN all, i # j, all[i].file = all[j].file
      PROVE  IsLink(all[i]) \/ IsLink(all[j])
  <2> DEFINE Old(k) == k \in DOMAIN m.results /\ all[k] = m.results[k]
             Fresh(k) == /\ k - Len(m.results) \in DOMAIN files
                         /\ k - Len(m.results) + Len(m.results) = k
                         /\ all[k] = [source |-> s, file |-> files[k - Len(m.results)]]
  <2>1. (Old(i) \/ Fresh(i)) /\ (Old(j) \/ Fresh(j))
    BY <1>3
  <2>2. CASE Old(i) /\ Old(j)
    BY <1>6, <2>2 DEF Gathered
  <2>3. ASSUME NEW k \in DOMAIN all, NEW l \in DOMAIN all, Old(k), Fresh(l), all[k].file = all[l].file
        PROVE  IsLink(all[k])
    <3>1. all[l].file \in Range(RepoFiles[repo])
      BY <1>1, <2>3
    <3>2. ~FromScan(all[k])
      BY <1>2, <2>3, <3>1
    <3> QED
      BY <1>4, <2>3, <3>2
  <2>4. CASE Fresh(i) /\ Fresh(j)
    <3>1. files[i - Len(m.results)] = files[j - Len(m.results)]
      BY <1>6, <2>4
    <3>2. i - Len(m.results) = j - Len(m.results)
      BY <2>4, <3>1 DEF Differ
    <3> QED
      BY <1>6, <2>4, <3>2
  <2> HIDE DEF Old, Fresh, IsLink
  <2> QED
    BY <1>6, <2>1, <2>2, <2>3, <2>4
<1>7. n.results = all
  BY DEF all
<1> QED
  BY <1>5, <1>6, <1>7 DEF Gathered

\* What the sources up to the one at hand promise is there.
Finished(r, m) == m.scanned = Taken[m.pos][r] /\ Range(m.results) = Promised(r, m.pos)

\* A source that took its repositories and brought their files is finished.
LEMMA FinishedIs ==
    ASSUME NEW r \in Runs, NEW m, m.pos \in 1..Len(Plan[r]), NEW repos,
           repos = Takes[Plan[r][m.pos]][Taken[m.pos - 1][r]],
           m.scanned = Taken[m.pos - 1][r] \cup repos,
           Range(m.results) = Promised(r, m.pos - 1) \cup Brought(Plan[r][m.pos], repos)
    PROVE  Finished(r, m)
<1> DEFINE n == m.pos
<1>1. /\ n \in 1..Len(Plan[r]) /\ repos = Takes[Plan[r][n]][Taken[n - 1][r]]
      /\ m.scanned = Taken[n - 1][r] \cup repos
      /\ Range(m.results) = Promised(r, n - 1) \cup Brought(Plan[r][n], repos)
  OBVIOUS
<1> HIDE DEF n
<1>2. Taken[n][r] = Taken[n - 1][r] \cup Takes[Plan[r][n]][Taken[n - 1][r]]
  BY <1>1, TakenAt
<1>3. Promised(r, n) = Promised(r, n - 1) \cup Brought(Plan[r][n], Takes[Plan[r][n]][Taken[n - 1][r]])
  BY <1>1, PromisedIs
<1> QED
  BY <1>1, <1>2, <1>3 DEF Finished, n

\* Going on from a finished source, to the next one or to storing.
LEMMA OnwardIsClean ==
    ASSUME NEW r \in Runs, NEW m \in Memory, m.pos \in 1..Len(Plan[r]), Finished(r, m)
    PROVE  Clean(r, Onward(m, r))
<1> DEFINE o == Onward(m, r)
<1>1. Len(Plan[r]) \in Nat /\ m.pos \in Nat
  BY PlanIs
<1>2. /\ o.pos = m.pos + 1 /\ o.count = 0 /\ o.results = m.results /\ o.scanned = m.scanned
      /\ o.maps = <<>> /\ o.seenMaps = {} /\ o.locs = <<>> /\ o.seenPages = {} /\ o.found = {}
      /\ o.at = IF m.pos < Len(Plan[r]) THEN "open"
                ELSE IF m.results = <<>> THEN "idle" ELSE "look"
  BY DEF Onward, Memory
<1> HIDE DEF o
<1>3. Begun(r, o)
  <2>1. o.pos - 1 = m.pos
    BY <1>1, <1>2
  <2> QED
    BY <1>2, <2>1 DEF Begun, Finished
<1>4. ASSUME o.at = "look" PROVE Range(o.results) = Expected[r]
  <2>1. m.pos = Len(Plan[r])
    BY <1>1, <1>2, <1>4
  <2> QED
    BY <1>2, <2>1 DEF Finished, Expected
<1>5. o.at \in {"open", "idle", "look"}
  BY <1>2
<1> QED
  BY <1>2, <1>3, <1>4, <1>5 DEF Clean, Storing, o

\* Going on leaves the results alone.
LEMMA OnwardGathers ==
    ASSUME NEW r \in Runs, NEW m \in Memory, Gathered(m)
    PROVE  Gathered(Onward(m, r)) /\ Onward(m, r).missed = m.missed
<1>1. LET o == Onward(m, r)
      IN  o.results = m.results /\ o.scanned = m.scanned /\ o.missed = m.missed
  BY DEF Onward, Memory
<1> QED
  BY <1>1, GatheredSame

\* Nothing is new in no entries.
LEMMA NoneNew ==
    ASSUME NEW list, NEW taken
    PROVE  New(list, 0, taken) = {} /\ Cardinality({}) = 0
BY FS_EmptySet DEF New

\* A scan begins with the whole list.
LEMMA ScanningBegins ==
    ASSUME NEW r \in Runs, NEW m, m.at = "scan", m.pos \in 1..Len(Plan[r]),
           m.todo = ReposOf[Plan[r][m.pos]],
           m.scanned = Taken[m.pos - 1][r], m.count = 0,
           Range(m.results) = Promised(r, m.pos - 1) \cup Brought(Plan[r][m.pos], {})
    PROVE  Clean(r, m)
<1> DEFINE s     == Plan[r][m.pos]
           taken == Taken[m.pos - 1][r]
           list  == ReposOf[s]
<1>1. s \in Sources
  BY PlanIs
<1>2. list \in Seq(Repos) /\ Config[s].cap \in Nat
  BY <1>1, ReposOfIs, ConfigAssumption DEF SourceEntry
<1>3. Len(list) \in Nat /\ Len(list) - Len(list) = 0 /\ 0 + 1 = 1 /\ SubSeq(list, 1, Len(list)) = list
  <2> HIDE DEF list
  <2> QED
    BY <1>2, SubSeqFull
<1>4. /\ m.todo = list /\ m.scanned = taken /\ m.count = 0
      /\ Range(m.results) = Promised(r, m.pos - 1) \cup Brought(s, {})
  OBVIOUS
<1>5. New(list, 0, taken) = {} /\ Cardinality({}) = 0
  BY NoneNew
<1> HIDE DEF s, taken, list
<1>6. LET fresh == New(list, Len(list) - Len(m.todo), taken)
      IN  /\ Len(m.todo) <= Len(list)
          /\ m.todo = SubSeq(list, Len(list) - Len(m.todo) + 1, Len(list))
          /\ m.scanned = taken \cup fresh
          /\ m.count = Cardinality(fresh) /\ m.count <= Config[s].cap
          /\ Range(m.results) = Promised(r, m.pos - 1) \cup Brought(s, fresh)
  <2>1. Len(m.todo) = Len(list) /\ Len(list) - Len(m.todo) = 0
    BY <1>3, <1>4
  <2>2. New(list, Len(list) - Len(m.todo), taken) = {}
    BY <1>5, <2>1
  <2>3. Len(m.todo) <= Len(list) /\ 0 <= Config[s].cap
    BY <1>2, <1>3, <2>1
  <2>4. m.todo = SubSeq(list, Len(list) - Len(m.todo) + 1, Len(list))
    BY <1>3, <1>4, <2>1
  <2> QED
    BY <1>4, <1>5, <2>2, <2>3, <2>4
<1>7. Scanning(r, m)
  BY <1>6 DEF Scanning, s, taken, list
<1> QED
  BY <1>7 DEF Clean, Storing

\* A source without repositories is finished with its links.
LEMMA LinksFinish ==
    ASSUME NEW r \in Runs, NEW m, m.pos \in 1..Len(Plan[r]),
           ReposOf[Plan[r][m.pos]] = <<>>,
           m.scanned = Taken[m.pos - 1][r],
           Range(m.results) = Promised(r, m.pos - 1) \cup Brought(Plan[r][m.pos], {})
    PROVE  Finished(r, m)
<1> DEFINE s     == Plan[r][m.pos]
           taken == Taken[m.pos - 1][r]
<1>1. s \in Sources /\ taken \in SUBSET Repos
  BY PlanIs, TakenAt
<1>2. Takes[s][taken] = {}
  <2>1. Takes[s][taken] = Foremost(<<>>, Repos \ taken, Config[s].cap)
    BY <1>1, TakesAre
  <2>2. Foremost(<<>>, Repos \ taken, Config[s].cap) = {}
    BY DEF Foremost
  <2> QED
    BY <2>1, <2>2
<1> QED
  BY <1>2, FinishedIs

(***************************************************************************)
(* Opening a source                                                        *)
(***************************************************************************)

\* The invariant about what crawls bring home: every run is sound.
CleanInv == \A r \in Runs : Sound(r, run[r])

\* A step of one run leaves the other runs sound.
LEMMA SoundStep ==
    ASSUME CrawlInv, CleanInv, NEW r \in Runs, NEW m,
           run' = [run EXCEPT ![r] = m], Sound(r, m)
    PROVE  CleanInv'
<1>1. \A q \in Runs : run'[q] = IF q = r THEN m ELSE run[q]
  BY DEF CrawlInv
<1>2. \A q \in Runs : Sound(q, run'[q])
  BY <1>1 DEF CleanInv
<1> QED
  BY <1>2 DEF CleanInv

\* A run that missed something promises nothing but that each document comes once.
LEMMA MissedIsSound ==
    ASSUME NEW r \in Runs, NEW m, Gathered(m), m.missed
    PROVE  Sound(r, m)
BY DEF Sound

\* What is known of a run that opens a source.
LEMMA OpenIs ==
    ASSUME CrawlInv, CleanInv, NEW r \in Runs, run[r].at = "open"
    PROVE  /\ run[r] \in Memory /\ run[r].pos \in 1..Len(Plan[r])
           /\ run[r].results \in Seq(Results) /\ run[r].missed \in BOOLEAN
           /\ Source(r) = Plan[r][run[r].pos] /\ Source(r) \in Sources
           /\ EntryOf(r) = Config[Source(r)] /\ EntryOf(r) \in SourceEntry
           /\ Gathered(run[r])
           /\ ~run[r].missed =>
                  /\ run[r].scanned = Taken[run[r].pos - 1][r] /\ run[r].count = 0
                  /\ Range(run[r].results) = Promised(r, run[r].pos - 1)
                  /\ run[r].maps = <<>> /\ run[r].seenMaps = {} /\ run[r].locs = <<>>
                  /\ run[r].seenPages = {} /\ run[r].found = {}
<1>1. /\ run[r] \in Memory /\ run[r].pos \in 1..Len(Plan[r])
      /\ Source(r) \in Sources /\ EntryOf(r) \in SourceEntry
  BY ReadingIs DEF Reading
<1>2. run[r].results \in Seq(Results) /\ run[r].missed \in BOOLEAN
  BY <1>1 DEF Memory
<1>3. Source(r) = Plan[r][run[r].pos] /\ EntryOf(r) = Config[Source(r)]
  BY DEF Source, EntryOf
<1>4. Sound(r, run[r])
  BY DEF CleanInv
<1>5. Gathered(run[r])
  BY <1>4 DEF Sound
<1>6. ~run[r].missed =>
          /\ run[r].scanned = Taken[run[r].pos - 1][r] /\ run[r].count = 0
          /\ Range(run[r].results) = Promised(r, run[r].pos - 1)
          /\ run[r].maps = <<>> /\ run[r].seenMaps = {} /\ run[r].locs = <<>>
          /\ run[r].seenPages = {} /\ run[r].found = {}
  BY <1>4 DEF Sound, Clean, Begun
<1> QED
  BY <1>1, <1>2, <1>3, <1>5, <1>6

\* A source that fails is a miss.
LEMMA FailIsSound ==
    ASSUME CrawlInv, CleanInv, NEW r \in Runs, SourceFails(r)
    PROVE  CleanInv'
<1> DEFINE m == [run[r] EXCEPT !.missed = TRUE]
<1>1. run[r].at = "open" /\ run' = [run EXCEPT ![r] = Onward(m, r)]
  BY DEF SourceFails, Goes
<1>2. run[r] \in Memory /\ Gathered(run[r])
  BY <1>1, OpenIs
<1>3. m \in Memory /\ m.missed /\ m.results = run[r].results /\ m.scanned = run[r].scanned
  BY <1>2 DEF Memory
<1> HIDE DEF m
<1>4. Gathered(m)
  BY <1>2, <1>3, GatheredSame
<1>5. Sound(r, Onward(m, r))
  BY <1>3, <1>4, OnwardGathers, MissedIsSound
<1> QED
  BY <1>1, <1>5, SoundStep

\* A source that has no links brings home what its repositories have.
LEMMA WithoutLinks ==
    ASSUME NEW s \in Sources, Links[s] = {}
    PROVE  Brought(s, {}) = {}
BY BroughtIs

\* OpenRepo begins to scan the one repository.
LEMMA RepoIsSound ==
    ASSUME CrawlInv, CleanInv, NEW r \in Runs, OpenRepo(r)
    PROVE  CleanInv'
<1> DEFINE m == [run[r] EXCEPT !.todo = EntryOf(r).listed, !.at = "scan"]
<1>1. run[r].at = "open" /\ EntryOf(r).kind = "github_repo" /\ run' = [run EXCEPT ![r] = m]
  BY DEF OpenRepo, Opening, Goes
<1>2. /\ run[r] \in Memory /\ Gathered(run[r]) /\ run[r].pos \in 1..Len(Plan[r])
      /\ Source(r) \in Sources /\ EntryOf(r) = Config[Source(r)]
      /\ Source(r) = Plan[r][run[r].pos]
  BY <1>1, OpenIs
<1>3. /\ m.at = "scan" /\ m.pos = run[r].pos /\ m.todo = EntryOf(r).listed
      /\ m.results = run[r].results /\ m.scanned = run[r].scanned
      /\ m.count = run[r].count /\ m.missed = run[r].missed
  BY <1>2 DEF Memory
<1> HIDE DEF m
<1>4. Gathered(m)
  BY <1>2, <1>3, GatheredSame
<1>5. ASSUME ~m.missed PROVE Clean(r, m)
  <2>1. /\ m.scanned = Taken[m.pos - 1][r] /\ m.count = 0
        /\ Range(m.results) = Promised(r, m.pos - 1)
    BY <1>1, <1>3, <1>5, OpenIs
  <2>2. ReposOf[Source(r)] = EntryOf(r).listed
    BY <1>1, <1>2, ReposOfIs
  <2>3. Links[Source(r)] = {}
    BY <1>1, <1>2 DEF Links
  <2>4. Brought(Source(r), {}) = {}
    BY <1>2, <2>3, WithoutLinks
  <2> QED
    BY <1>2, <1>3, <2>1, <2>2, <2>4, ScanningBegins
<1> QED
  BY <1>1, <1>4, <1>5, SoundStep DEF Sound

\* The links of a source are there, the first of what it promises.
LEMMA LinksBrought ==
    ASSUME NEW s \in Sources, NEW old \in Seq(Results), NEW files \in Seq(Files),
           Range(files) = Links[s]
    PROVE  Range(old \o Items(s, files)) = Range(old) \cup Brought(s, {})
<1>1. Items(s, files) \in Seq(Results)
  BY ItemsAre
<1>2. Range(old \o Items(s, files)) = Range(old) \cup Range(Items(s, files))
  BY <1>1, RangeConcat
<1>3. Range(Items(s, files)) = Brought(s, {})
  BY BroughtIs, ItemsRange
<1> QED
  BY <1>2, <1>3

\* OpenList brings the links and begins to scan the repositories it names.
LEMMA ListIsSound ==
    ASSUME CrawlInv, CleanInv, NEW r \in Runs, OpenList(r)
    PROVE  CleanInv'
<1> DEFINE e == EntryOf(r)
           s == Source(r)
<1>1. run[r].at = "open" /\ e.kind = "markdown_list"
  BY DEF OpenList, Opening
<1>2. /\ run[r] \in Memory /\ Gathered(run[r]) /\ run[r].pos \in 1..Len(Plan[r])
      /\ run[r].results \in Seq(Results) /\ run[r].missed \in BOOLEAN
      /\ s \in Sources /\ e = Config[s] /\ e \in SourceEntry /\ s = Plan[r][run[r].pos]
  BY <1>1, OpenIs
<1>3. PICK got \in SUBSET Range(e.direct) :
         LET m == [run[r] EXCEPT !.results = @ \o Items(s, Kept(e.direct, got)),
                                 !.missed = @ \/ got # Range(e.direct)]
         IN  Goes(r, IF e.scan THEN [m EXCEPT !.todo = e.listed, !.at = "scan"]
                     ELSE Onward(m, r))
  BY DEF OpenList
<1>4. e.direct \in Seq(Files) /\ Links[s] = Range(e.direct) /\ ReposOf[s] = IF e.scan THEN e.listed ELSE <<>>
  BY <1>1, <1>2, ReposOfIs DEF SourceEntry, Links
<1> HIDE DEF e, s
<1> DEFINE files == Kept(e.direct, got)
           new == Items(s, files)
           missed == run[r].missed \/ got # Range(e.direct)
           m == [run[r] EXCEPT !.results = @ \o new, !.missed = missed]
           n == [m EXCEPT !.todo = e.listed, !.at = "scan"]
<1>5. run' = [run EXCEPT ![r] = IF e.scan THEN n ELSE Onward(m, r)]
  BY <1>3 DEF Goes
<1>6. files \in Seq(Files) /\ Range(files) = Range(e.direct) \cap got
  BY <1>4, KeptWithin, KeptRange
<1> HIDE DEF files
<1>7. new \in Seq(Results)
  BY <1>2, <1>6, ItemsAre
<1> HIDE DEF new
<1>8. run[r].results \o new \in Seq(Results) /\ missed \in BOOLEAN
  BY <1>2, <1>7
<1>9. /\ m \in Memory /\ m.pos = run[r].pos /\ m.results = run[r].results \o new
      /\ m.missed = missed /\ m.scanned = run[r].scanned /\ m.count = run[r].count
  BY <1>2, <1>8 DEF Memory
<1> HIDE DEF m
<1>10. /\ n.at = "scan" /\ n.todo = e.listed /\ n.pos = m.pos /\ n.results = m.results
       /\ n.missed = m.missed /\ n.scanned = m.scanned /\ n.count = m.count
  BY <1>9 DEF Memory
<1> HIDE DEF n
<1>11. Gathered(m)
  <2>1. Range(files) \in SUBSET Links[s]
    BY <1>4, <1>6
  <2>2. m.results = run[r].results \o Items(s, files)
    BY <1>9 DEF new
  <2> QED
    BY <1>2, <1>6, <1>9, <2>1, <2>2, GatheredLinks
<1>12. ASSUME ~m.missed
       PROVE  /\ m.scanned = Taken[m.pos - 1][r] /\ m.count = 0
              /\ Range(m.results) = Promised(r, m.pos - 1) \cup Brought(s, {})
  <2>1. ~run[r].missed /\ got = Range(e.direct)
    BY <1>9, <1>12
  <2>2. Range(files) = Links[s]
    BY <1>4, <1>6, <2>1
  <2>3. Range(m.results) = Range(run[r].results) \cup Brought(s, {})
    BY <1>2, <1>6, <1>9, <2>2, LinksBrought DEF new
  <2>4. /\ run[r].scanned = Taken[run[r].pos - 1][r] /\ run[r].count = 0
        /\ Range(run[r].results) = Promised(r, run[r].pos - 1)
    BY <1>1, <2>1, OpenIs
  <2> QED
    BY <1>9, <2>3, <2>4
<1>13. CASE e.scan
  <2>1. Gathered(n)
    BY <1>10, <1>11, GatheredSame
  <2>2. ASSUME ~n.missed PROVE Clean(r, n)
    BY <1>2, <1>4, <1>9, <1>10, <1>12, <1>13, <2>2, ScanningBegins, ZenonT(60)
  <2> QED
    BY <1>5, <1>13, <2>1, <2>2, SoundStep DEF Sound
<1>14. CASE ~e.scan
  <2>1. Gathered(Onward(m, r)) /\ Onward(m, r).missed = m.missed
    BY <1>9, <1>11, OnwardGathers
  <2>2. ASSUME ~m.missed PROVE Clean(r, Onward(m, r))
    <3>1. ReposOf[Plan[r][m.pos]] = <<>> /\ m.pos \in 1..Len(Plan[r])
      BY <1>2, <1>4, <1>9, <1>14
    <3>2. /\ m.scanned = Taken[m.pos - 1][r]
          /\ Range(m.results) = Promised(r, m.pos - 1) \cup Brought(Plan[r][m.pos], {})
      BY <1>2, <1>9, <1>12, <2>2
    <3>3. Finished(r, m)
      BY <3>1, <3>2, LinksFinish
    <3> QED
      BY <1>9, <3>1, <3>3, OnwardIsClean
  <2> QED
    BY <1>5, <1>14, <2>1, <2>2, SoundStep DEF Sound
<1> QED
  BY <1>13, <1>14

\* OpenPage brings the page and is finished.
LEMMA PageIsSound ==
    ASSUME CrawlInv, CleanInv, NEW r \in Runs, OpenPage(r)
    PROVE  CleanInv'
<1> DEFINE e == EntryOf(r)
           s == Source(r)
           files == <<e.page>>
           new == Items(s, files)
           m == [run[r] EXCEPT !.results = @ \o new]
<1>1. run[r].at = "open" /\ e.kind = "page" /\ run' = [run EXCEPT ![r] = Onward(m, r)]
  BY DEF OpenPage, Opening, Goes
<1>2. /\ run[r] \in Memory /\ Gathered(run[r]) /\ run[r].pos \in 1..Len(Plan[r])
      /\ run[r].results \in Seq(Results)
      /\ s \in Sources /\ e = Config[s] /\ s = Plan[r][run[r].pos]
  BY <1>1, OpenIs
<1>3. files \in Seq(Files) /\ Range(files) = {e.page} /\ Links[s] = {e.page} /\ ReposOf[s] = <<>>
  <2>1. e.page \in Files
    BY <1>1, <1>2, ConfigAssumption
  <2>2. files \in Seq(Files) /\ Range(files) = {e.page}
    BY <2>1 DEF Range
  <2>3. Links[s] = {e.page} /\ ReposOf[s] = <<>>
    BY <1>1, <1>2, ReposOfIs DEF Links
  <2> QED
    BY <2>2, <2>3
<1> HIDE DEF e, s, files
<1>4. new \in Seq(Results)
  BY <1>2, <1>3, ItemsAre
<1> HIDE DEF new
<1>5. run[r].results \o new \in Seq(Results)
  BY <1>2, <1>4
<1>6. /\ m \in Memory /\ m.pos = run[r].pos /\ m.results = run[r].results \o new
      /\ m.missed = run[r].missed /\ m.scanned = run[r].scanned
  BY <1>2, <1>5 DEF Memory
<1> HIDE DEF m
<1>7. Gathered(m)
  <2>1. m.results = run[r].results \o Items(s, files) /\ Range(files) \in SUBSET Links[s]
    BY <1>3, <1>6 DEF new
  <2> QED
    BY <1>2, <1>3, <1>6, <2>1, GatheredLinks
<1>8. Gathered(Onward(m, r)) /\ Onward(m, r).missed = m.missed
  BY <1>6, <1>7, OnwardGathers
<1>9. ASSUME ~m.missed PROVE Clean(r, Onward(m, r))
  <2>1. ReposOf[Plan[r][m.pos]] = <<>> /\ m.pos \in 1..Len(Plan[r])
    BY <1>2, <1>3, <1>6
  <2>2. /\ run[r].scanned = Taken[run[r].pos - 1][r]
        /\ Range(run[r].results) = Promised(r, run[r].pos - 1)
    BY <1>1, <1>6, <1>9, OpenIs
  <2>3. Range(m.results) = Range(run[r].results) \cup Brought(s, {})
    <3>1. files \in Seq(Files) /\ Range(files) = Links[s]
      BY <1>3
    <3>2. Range(run[r].results \o Items(s, files)) = Range(run[r].results) \cup Brought(s, {})
      BY <1>2, <3>1, LinksBrought
    <3> QED
      BY <1>6, <3>2 DEF new
  <2>4. /\ m.scanned = Taken[m.pos - 1][r]
        /\ Range(m.results) = Promised(r, m.pos - 1) \cup Brought(Plan[r][m.pos], {})
    BY <1>2, <1>6, <2>2, <2>3
  <2>5. Finished(r, m)
    BY <2>1, <2>4, LinksFinish
  <2> QED
    BY <1>6, <2>1, <2>5, OnwardIsClean
<1> QED
  BY <1>1, <1>8, <1>9, SoundStep DEF Sound

\* Among the hits of a complete search every repository counts.
LEMMA ForemostOfAll ==
    ASSUME NEW list \in Seq(Repos), NEW n
    PROVE  Foremost(list, Range(list), n) = Foremost(list, Repos, n)
<1>1. \A j \in DOMAIN list :
          /\ list[j] \in Range(list) /\ list[j] \in Repos
          /\ {list[k] : k \in 1..j} \cap Range(list) = {list[k] : k \in 1..j} \cap Repos
  <2> SUFFICES ASSUME NEW j \in DOMAIN list
               PROVE  /\ list[j] \in Range(list) /\ list[j] \in Repos
                      /\ {list[k] : k \in 1..j} \cap Range(list) = {list[k] : k \in 1..j} \cap Repos
    OBVIOUS
  <2>1. \A k \in 1..j : k \in DOMAIN list
    OBVIOUS
  <2>2. \A k \in DOMAIN list : list[k] \in Range(list) /\ list[k] \in Repos
    BY DEF Range
  <2> QED
    BY <2>1, <2>2
<1> QED
  BY <1>1 DEF Foremost

\* OpenSearch begins to scan the first hits, or misses some.
LEMMA SearchIsSound ==
    ASSUME CrawlInv, CleanInv, NEW r \in Runs, OpenSearch(r)
    PROVE  CleanInv'
<1> DEFINE e == EntryOf(r)
           s == Source(r)
<1>1. run[r].at = "open" /\ e.kind = "github_search"
  BY DEF OpenSearch, Opening
<1>2. /\ run[r] \in Memory /\ Gathered(run[r]) /\ run[r].pos \in 1..Len(Plan[r])
      /\ run[r].missed \in BOOLEAN
      /\ s \in Sources /\ e = Config[s] /\ e \in SourceEntry /\ s = Plan[r][run[r].pos]
  BY <1>1, OpenIs
<1>3. PICK got \in SUBSET Range(e.listed) :
         Goes(r, [run[r] EXCEPT !.todo = Sorted[Foremost(e.listed, got, e.cap)],
                                !.missed = @ \/ got # Range(e.listed), !.at = "scan"])
  BY DEF OpenSearch
<1>4. /\ e.listed \in Seq(Repos) /\ Links[s] = {}
      /\ ReposOf[s] = Sorted[Foremost(e.listed, Repos, e.cap)]
  BY <1>1, <1>2, ReposOfIs DEF SourceEntry, Links
<1> HIDE DEF e, s
<1> DEFINE todo == Sorted[Foremost(e.listed, got, e.cap)]
           missed == run[r].missed \/ got # Range(e.listed)
           m == [run[r] EXCEPT !.todo = todo, !.missed = missed, !.at = "scan"]
<1>5. run' = [run EXCEPT ![r] = m]
  BY <1>3 DEF Goes
<1> HIDE DEF todo
<1>6. /\ m.at = "scan" /\ m.pos = run[r].pos /\ m.todo = todo /\ m.results = run[r].results
      /\ m.scanned = run[r].scanned /\ m.count = run[r].count
      /\ (~m.missed => ~run[r].missed /\ got = Range(e.listed))
  BY <1>2 DEF Memory
<1> HIDE DEF m
<1>7. Gathered(m)
  BY <1>2, <1>6, GatheredSame
<1>8. ASSUME ~m.missed PROVE Clean(r, m)
  <2>1. /\ m.scanned = Taken[m.pos - 1][r] /\ m.count = 0
        /\ Range(m.results) = Promised(r, m.pos - 1)
    BY <1>1, <1>6, <1>8, OpenIs
  <2>2. m.todo = ReposOf[s]
    <3>1. Foremost(e.listed, got, e.cap) = Foremost(e.listed, Repos, e.cap)
      BY <1>4, <1>6, <1>8, ForemostOfAll
    <3> QED
      BY <1>4, <1>6, <3>1 DEF todo
  <2>3. Brought(s, {}) = {}
    BY <1>2, <1>4, WithoutLinks
  <2> QED
    BY <1>2, <1>6, <2>1, <2>2, <2>3, ScanningBegins
<1> QED
  BY <1>5, <1>7, <1>8, SoundStep DEF Sound

\* OpenDirectory begins to walk, scans what the directory lists, or misses it.
LEMMA DirectoryIsSound ==
    ASSUME CrawlInv, CleanInv, NEW r \in Runs, OpenDirectory(r)
    PROVE  CleanInv'
<1> DEFINE e == EntryOf(r)
           s == Source(r)
<1>1. run[r].at = "open" /\ e.kind = "web_directory"
  BY DEF OpenDirectory, Opening
<1>2. /\ run[r] \in Memory /\ Gathered(run[r]) /\ run[r].pos \in 1..Len(Plan[r])
      /\ run[r].missed \in BOOLEAN
      /\ s \in Sources /\ e = Config[s] /\ e \in SourceEntry /\ s = Plan[r][run[r].pos]
  BY <1>1, OpenIs
<1>3. PICK answers \in BOOLEAN :
         LET m == [run[r] EXCEPT !.found = IF answers THEN Range(e.listed) ELSE {},
                                 !.missed = @ \/ ~answers]
         IN  Goes(r, IF e.pages <= 0
                     THEN [m EXCEPT !.todo = Sorted[m.found], !.at = "scan"]
                     ELSE [m EXCEPT !.maps = <<e.map>>, !.budget = e.pages, !.at = "sitemaps"])
  BY DEF OpenDirectory
<1>4. /\ e.listed \in Seq(Repos) /\ e.pages \in Int /\ e.map \in Maps /\ Links[s] = {}
      /\ ReposOf[s] = Sorted[Range(e.listed) \cup SitemapPages(e)]
  BY <1>1, <1>2, ReposOfIs, ConfigAssumption DEF SourceEntry, Links
<1> HIDE DEF e, s
<1> DEFINE found == IF answers THEN Range(e.listed) ELSE {}
           missed == run[r].missed \/ ~answers
           m == [run[r] EXCEPT !.found = found, !.missed = missed]
           n == [m EXCEPT !.todo = Sorted[m.found], !.at = "scan"]
           o == [m EXCEPT !.maps = <<e.map>>, !.budget = e.pages, !.at = "sitemaps"]
<1>5. run' = [run EXCEPT ![r] = IF e.pages <= 0 THEN n ELSE o]
  BY <1>3 DEF Goes
<1>6. found \in SUBSET Repos
  BY <1>4, RangeWithin
<1>7. /\ m \in Memory /\ m.pos = run[r].pos /\ m.results = run[r].results
      /\ m.scanned = run[r].scanned /\ m.count = run[r].count
      /\ m.maps = run[r].maps /\ m.seenMaps = run[r].seenMaps /\ m.locs = run[r].locs
      /\ m.seenPages = run[r].seenPages
      /\ (~m.missed => ~run[r].missed /\ m.found = Range(e.listed))
  BY <1>2, <1>6 DEF Memory
<1> HIDE DEF m
<1>8. ASSUME ~m.missed
      PROVE  /\ m.scanned = Taken[m.pos - 1][r] /\ m.count = 0
             /\ Range(m.results) = Promised(r, m.pos - 1)
             /\ m.seenMaps = {} /\ m.locs = <<>> /\ m.seenPages = {}
  BY <1>1, <1>7, <1>8, OpenIs
<1>9. CASE e.pages <= 0
  <2>1. /\ n.at = "scan" /\ n.pos = m.pos /\ n.todo = Sorted[m.found] /\ n.results = m.results
        /\ n.scanned = m.scanned /\ n.count = m.count /\ n.missed = m.missed
    BY <1>7 DEF Memory
  <2> HIDE DEF n
  <2>2. Gathered(n)
    BY <1>2, <1>7, <2>1, GatheredSame
  <2>3. ASSUME ~n.missed PROVE Clean(r, n)
    <3>1. n.todo = ReposOf[s]
      <4>1. Sitemaps[e.map] \in Seq(Maps)
        <5>1. Cardinality(Maps) \in Nat
          BY WebAssumption, FS_CardinalityType
        <5> QED
          BY <1>4, <5>1, NamedAt DEF Sitemaps
      <4>2. FirstPages(Sitemaps[e.map], e.pages) = {}
        BY <1>4, <1>9, <4>1, NoPages
      <4>3. SitemapPages(e) = {}
        BY <4>2 DEF SitemapPages
      <4> QED
        BY <1>4, <1>7, <2>1, <2>3, <4>3
    <3>2. Brought(s, {}) = {}
      BY <1>2, <1>4, WithoutLinks
    <3> QED
      BY <1>2, <1>7, <1>8, <2>1, <2>3, <3>1, <3>2, ScanningBegins
  <2> QED
    BY <1>5, <1>9, <2>2, <2>3, SoundStep DEF Sound
<1>10. CASE ~(e.pages <= 0)
  <2>1. /\ o.at = "sitemaps" /\ o.pos = m.pos /\ o.results = m.results
        /\ o.scanned = m.scanned /\ o.count = m.count /\ o.missed = m.missed
        /\ o.maps = <<e.map>> /\ o.budget = e.pages /\ o.seenMaps = m.seenMaps
        /\ o.locs = m.locs /\ o.seenPages = m.seenPages /\ o.found = m.found
    BY <1>7 DEF Memory
  <2> HIDE DEF o
  <2>2. Gathered(o)
    BY <1>2, <1>7, <2>1, GatheredSame
  <2>3. ASSUME ~o.missed PROVE Clean(r, o)
    <3>1. Begun(r, o)
      BY <1>8, <2>1, <2>3 DEF Begun
    <3>2. AtRoot(e, o)
      BY <1>8, <2>1, <2>3 DEF AtRoot
    <3>3. Walking(e, o)
      <4>1. e.pages > 0 /\ o.budget >= 0 /\ e.pages - o.budget = 0
        BY <1>4, <1>10, <2>1
      <4>2. o.seenPages = {} /\ o.found = Range(e.listed)
        BY <1>7, <1>8, <2>1, <2>3
      <4>3. Cardinality(o.seenPages) = 0 /\ UNION {PageRepos[p] : p \in o.seenPages} = {}
        BY <4>2, FS_EmptySet
      <4> QED
        BY <1>1, <3>2, <4>1, <4>2, <4>3 DEF Walking, e
    <3>4. e = Config[Plan[r][o.pos]]
      BY <1>2, <1>7, <2>1
    <3> QED
      BY <2>1, <3>1, <3>3, <3>4 DEF Clean, Storing
  <2> QED
    BY <1>5, <1>10, <2>2, <2>3, SoundStep DEF Sound
<1> QED
  BY <1>9, <1>10

\* One entry further in a list.
LEMMA NewGrows ==
    ASSUME NEW list \in Seq(Repos), NEW k \in 0..Len(list), NEW taken
    PROVE  /\ New(list, k, taken) \in SUBSET Repos
           /\ k < Len(list) =>
                  New(list, k + 1, taken) = New(list, k, taken) \cup ({list[k + 1]} \ taken)
<1>1. \A i \in 1..Len(list) : list[i] \in Repos
  OBVIOUS
<1>2. \A i \in 1..k : i \in 1..Len(list)
  OBVIOUS
<1>3. k < Len(list) => 1..(k + 1) = 1..k \cup {k + 1}
  OBVIOUS
<1> QED
  BY <1>1, <1>2, <1>3 DEF New

(***************************************************************************)
(* Scanning repositories                                                   *)
(***************************************************************************)

\* What is yet to scan of a list, and what is new in the part before it.
Ahead(list, todo) ==
    /\ todo \in Seq(Repos) /\ Len(todo) <= Len(list)
    /\ todo = SubSeq(list, Len(list) - Len(todo) + 1, Len(list))
Fresh(list, todo, taken) == New(list, Len(list) - Len(todo), taken)

\* What the head of the list yet to scan changes.
LEMMA RestOfScan ==
    ASSUME NEW list \in Seq(Repos), NEW todo, Ahead(list, todo), todo # <<>>, NEW taken
    PROVE  /\ Ahead(list, Tail(todo))
           /\ Head(todo) \in taken \cup Fresh(list, todo, taken) =>
                  Fresh(list, Tail(todo), taken) = Fresh(list, todo, taken)
           /\ Head(todo) \notin taken \cup Fresh(list, todo, taken) =>
                  /\ Fresh(list, Tail(todo), taken) = Fresh(list, todo, taken) \cup {Head(todo)}
                  /\ Cardinality(Fresh(list, todo, taken)) \in Nat
                  /\ Cardinality(Fresh(list, Tail(todo), taken)) =
                         Cardinality(Fresh(list, todo, taken)) + 1
<1> DEFINE k == Len(list) - Len(todo)
           rest == Tail(todo)
           fresh == Fresh(list, todo, taken)
           now == Fresh(list, rest, taken)
<1>1. /\ Len(rest) = Len(todo) - 1 /\ rest \in Seq(Repos)
      /\ k + 1 \in 1..Len(list) /\ Head(todo) = list[k + 1]
      /\ rest = SubSeq(list, Len(list) - Len(rest) + 1, Len(list))
  BY RestIs DEF Ahead
<1> HIDE DEF rest
<1>2. /\ Len(list) \in Nat /\ Len(todo) \in Nat /\ k \in 0..Len(list) /\ k < Len(list)
      /\ Len(list) - Len(rest) = k + 1 /\ Len(rest) <= Len(list)
  BY <1>1 DEF Ahead
<1>3. fresh = New(list, k, taken) /\ now = New(list, k + 1, taken)
  BY <1>2 DEF Fresh
<1> HIDE DEF k, fresh, now
<1>4. fresh \in SUBSET Repos /\ now = fresh \cup ({Head(todo)} \ taken)
  BY <1>1, <1>2, <1>3, NewGrows
<1>5. IsFiniteSet(fresh) /\ Cardinality(fresh) \in Nat
  BY <1>4, ReposFinite
<1>6. ASSUME Head(todo) \notin taken \cup fresh
      PROVE  now = fresh \cup {Head(todo)} /\ Cardinality(now) = Cardinality(fresh) + 1
  <2>1. now = fresh \cup {Head(todo)}
    BY <1>4, <1>6
  <2> QED
    BY <1>5, <1>6, <2>1, FS_AddElement
<1>7. Head(todo) \in taken \cup fresh => now = fresh
  BY <1>4
<1>8. Ahead(list, rest)
  BY <1>1, <1>2 DEF Ahead
<1> QED
  BY <1>5, <1>6, <1>7, <1>8 DEF rest, fresh, now

\* What is known of a run that scans repositories.
LEMMA ScanIs ==
    ASSUME CrawlInv, CleanInv, NEW r \in Runs, run[r].at = "scan"
    PROVE  /\ run[r] \in Memory /\ run[r].pos \in 1..Len(Plan[r])
           /\ run[r].results \in Seq(Results) /\ run[r].todo \in Seq(Repos)
           /\ run[r].missed \in BOOLEAN /\ run[r].scanned \in SUBSET Repos /\ run[r].count \in Nat
           /\ Source(r) = Plan[r][run[r].pos] /\ Source(r) \in Sources
           /\ EntryOf(r) = Config[Source(r)] /\ EntryOf(r).cap \in Nat
           /\ ReposOf[Source(r)] \in Seq(Repos)
           /\ Gathered(run[r])
           /\ ~run[r].missed => Scanning(r, run[r])
<1>1. /\ run[r] \in Memory /\ run[r].pos \in 1..Len(Plan[r])
      /\ Source(r) \in Sources /\ EntryOf(r) \in SourceEntry
  BY ReadingIs DEF Reading
<1>2. /\ run[r].results \in Seq(Results) /\ run[r].todo \in Seq(Repos)
      /\ run[r].missed \in BOOLEAN /\ run[r].scanned \in SUBSET Repos /\ run[r].count \in Nat
  BY <1>1 DEF Memory
<1>3. /\ Source(r) = Plan[r][run[r].pos] /\ EntryOf(r) = Config[Source(r)]
      /\ EntryOf(r).cap \in Nat
  BY <1>1 DEF Source, EntryOf, SourceEntry
<1>4. Sound(r, run[r])
  BY DEF CleanInv
<1>5. Gathered(run[r]) /\ (~run[r].missed => Scanning(r, run[r]))
  BY <1>4 DEF Sound, Clean
<1> QED
  BY <1>1, <1>2, <1>3, <1>5, ReposOfIs

\* Scanning, with names for what the memory is compared with.
ScanningFrom(list, taken, cap, promised, s, m, fresh) ==
    /\ Ahead(list, m.todo) /\ fresh = Fresh(list, m.todo, taken)
    /\ m.scanned = taken \cup fresh
    /\ m.count = Cardinality(fresh) /\ m.count <= cap
    /\ Range(m.results) = promised \cup Brought(s, fresh)

\* Scanning, unfolded.
LEMMA ScanningIs ==
    ASSUME NEW r \in Runs, NEW m, m.todo \in Seq(Repos)
    PROVE  Scanning(r, m) <=>
               \E fresh : ScanningFrom(ReposOf[Plan[r][m.pos]], Taken[m.pos - 1][r],
                                       Config[Plan[r][m.pos]].cap, Promised(r, m.pos - 1),
                                       Plan[r][m.pos], m, fresh)
BY DEF Scanning, ScanningFrom, Ahead, Fresh

\* SkipRepo passes over a repository that was scanned before.
LEMMA SkipIsSound ==
    ASSUME CrawlInv, CleanInv, NEW r \in Runs, SkipRepo(r)
    PROVE  CleanInv'
<1> DEFINE m == [run[r] EXCEPT !.todo = Tail(@)]
           s == Plan[r][run[r].pos]
           list == ReposOf[s]
           taken == Taken[run[r].pos - 1][r]
           cap == Config[s].cap
           promised == Promised(r, run[r].pos - 1)
<1>1. /\ run[r].at = "scan" /\ run[r].todo # <<>> /\ Head(run[r].todo) \in run[r].scanned
      /\ run' = [run EXCEPT ![r] = m]
  BY DEF SkipRepo, Goes
<1>2. /\ run[r] \in Memory /\ run[r].todo \in Seq(Repos) /\ Gathered(run[r])
      /\ list \in Seq(Repos) /\ (~run[r].missed => Scanning(r, run[r]))
  BY <1>1, ScanIs
<1>3. /\ m.at = "scan" /\ m.todo = Tail(run[r].todo) /\ m.pos = run[r].pos
      /\ m.results = run[r].results /\ m.scanned = run[r].scanned /\ m.count = run[r].count
      /\ m.missed = run[r].missed
  BY <1>1, <1>2 DEF Memory
<1> HIDE DEF m
<1>4. Gathered(m)
  BY <1>2, <1>3, GatheredSame
<1>5. ASSUME ~m.missed PROVE Clean(r, m)
  <2>1. PICK fresh : ScanningFrom(list, taken, cap, promised, s, run[r], fresh)
    BY <1>2, <1>3, <1>5, ScanningIs
  <2> HIDE DEF list, taken, cap, promised, s
  <2>2. Ahead(list, m.todo) /\ Fresh(list, m.todo, taken) = fresh
    BY <1>1, <1>2, <1>3, <2>1, RestOfScan DEF ScanningFrom
  <2>3. ScanningFrom(list, taken, cap, promised, s, m, fresh)
    BY <1>3, <2>1, <2>2 DEF ScanningFrom
  <2>4. m.todo \in Seq(Repos)
    BY <2>2 DEF Ahead
  <2>5. Scanning(r, m)
    BY <1>3, <2>3, <2>4, ScanningIs DEF list, taken, cap, promised, s
  <2> QED
    BY <1>3, <2>5 DEF Clean, Storing
<1> QED
  BY <1>1, <1>4, <1>5, SoundStep DEF Sound

\* ScanRepo brings the files of a new repository, or misses them.
LEMMA ScanIsSound ==
    ASSUME CrawlInv, CleanInv, NEW r \in Runs, ScanRepo(r)
    PROVE  CleanInv'
<1> DEFINE s == Source(r)
           repo == Head(run[r].todo)
           all == Candidates[s][repo]
           list == ReposOf[s]
           taken == Taken[run[r].pos - 1][r]
           cap == Config[s].cap
           promised == Promised(r, run[r].pos - 1)
<1>1. /\ run[r].at = "scan" /\ run[r].todo # <<>> /\ run[r].count < EntryOf(r).cap
      /\ repo \notin run[r].scanned
  BY DEF ScanRepo
<1>2. PICK got \in SUBSET Range(all) :
         Goes(r, [run[r] EXCEPT !.todo = Tail(@), !.count = @ + 1, !.scanned = @ \cup {repo},
                                !.results = @ \o Items(s, Kept(all, got)),
                                !.missed = @ \/ got # Range(all)])
  BY DEF ScanRepo
<1>3. /\ run[r] \in Memory /\ run[r].todo \in Seq(Repos) /\ Gathered(run[r])
      /\ run[r].results \in Seq(Results) /\ run[r].missed \in BOOLEAN
      /\ run[r].scanned \in SUBSET Repos /\ run[r].count \in Nat /\ cap \in Nat
      /\ s \in Sources /\ list \in Seq(Repos) /\ run[r].count < cap
      /\ s = Plan[r][run[r].pos] /\ (~run[r].missed => Scanning(r, run[r]))
  BY <1>1, ScanIs
<1>4. repo \in Repos
  BY <1>1, <1>3
<1>5. /\ all \in Seq(Files) /\ Differ(all)
      /\ Range(all) \in SUBSET Range(RepoFiles[repo])
  BY <1>3, <1>4, CandidatesAre, CandidatesDiffer
<1> HIDE DEF all
<1> DEFINE files == Kept(all, got)
           new == Items(s, files)
           missed == run[r].missed \/ got # Range(all)
           m == [run[r] EXCEPT !.todo = Tail(@), !.count = @ + 1, !.scanned = @ \cup {repo},
                               !.results = @ \o new, !.missed = missed]
<1>6. run' = [run EXCEPT ![r] = m]
  BY <1>2 DEF Goes
<1>7. files \in Seq(Files) /\ Differ(files) /\ Range(files) = Range(all) \cap got
  BY <1>5, KeptWithin, KeptRange, KeptDiffer
<1> HIDE DEF files, new, repo
<1>8. /\ m.at = "scan" /\ m.todo = Tail(run[r].todo) /\ m.pos = run[r].pos
      /\ m.results = run[r].results \o new /\ m.scanned = run[r].scanned \cup {repo}
      /\ m.count = run[r].count + 1 /\ (~m.missed => ~run[r].missed /\ got = Range(all))
  BY <1>1, <1>3 DEF Memory
<1> HIDE DEF m
<1>9. Gathered(m)
  <2>1. Range(files) \in SUBSET Range(RepoFiles[repo])
    BY <1>5, <1>7
  <2>2. m.results = run[r].results \o Items(s, files)
    BY <1>8 DEF new
  <2>3. repo \in Repos \ run[r].scanned
    BY <1>1, <1>4
  <2> QED
    BY <1>3, <1>7, <1>8, <2>1, <2>2, <2>3, GatheredFiles
<1>10. ASSUME ~m.missed PROVE Clean(r, m)
  <2>1. PICK fresh : ScanningFrom(list, taken, cap, promised, s, run[r], fresh)
    BY <1>3, <1>8, <1>10, ScanningIs
  <2> HIDE DEF list, taken, cap, promised, s
  <2> DEFINE now == fresh \cup {repo}
  <2>2. /\ Ahead(list, m.todo) /\ Fresh(list, m.todo, taken) = now
        /\ Cardinality(fresh) \in Nat /\ Cardinality(now) = Cardinality(fresh) + 1
    <3>1. Ahead(list, run[r].todo) /\ fresh = Fresh(list, run[r].todo, taken)
          /\ repo \notin taken \cup fresh
      BY <1>1, <2>1 DEF ScanningFrom
    <3>2. repo = Head(run[r].todo)
      BY DEF repo
    <3>3. run[r].todo # <<>> /\ list \in Seq(Repos) /\ m.todo = Tail(run[r].todo)
      BY <1>1, <1>3, <1>8
    <3> DEFINE todo == run[r].todo
    <3>4. /\ Ahead(list, todo) /\ todo # <<>> /\ m.todo = Tail(todo)
          /\ fresh = Fresh(list, todo, taken) /\ Head(todo) \notin taken \cup fresh
      BY <3>1, <3>2, <3>3
    <3> HIDE DEF todo
    <3>5. /\ Ahead(list, Tail(todo)) /\ Fresh(list, Tail(todo), taken) = fresh \cup {Head(todo)}
          /\ Cardinality(fresh) \in Nat
          /\ Cardinality(Fresh(list, Tail(todo), taken)) = Cardinality(fresh) + 1
      BY <3>3, <3>4, RestOfScan
    <3> QED
      BY <3>2, <3>4, <3>5 DEF todo
  <2>3. Range(m.results) = promised \cup Brought(s, now)
    <3>1. Range(m.results) = Range(run[r].results) \cup Range(new)
      <4>1. new \in Seq(Results)
        BY <1>3, <1>7, ItemsAre DEF new
      <4> QED
        BY <1>3, <1>8, <4>1, RangeConcat
    <3>2. Range(new) = {[source |-> s, file |-> f] : f \in Range(Candidates[s][repo])}
      <4>1. Range(files) = Range(all)
        BY <1>7, <1>8, <1>10
      <4>2. all = Candidates[s][repo]
        BY DEF all, s, repo
      <4> QED
        BY <4>1, <4>2, ItemsRange DEF new
    <3>3. Brought(s, now) = Brought(s, fresh) \cup Range(new)
      <4>1. s \in Sources
        BY <1>3
      <4>2. Brought(s, fresh \cup {repo}) =
                Brought(s, fresh) \cup {[source |-> s, file |-> f] : f \in Range(Candidates[s][repo])}
        BY <4>1, BroughtIs
      <4> QED
        BY <3>2, <4>2
    <3>4. Range(run[r].results) = promised \cup Brought(s, fresh)
      BY <2>1 DEF ScanningFrom
    <3> QED
      BY <3>1, <3>3, <3>4
  <2>4. m.count = Cardinality(now) /\ m.count <= cap
    <3>1. run[r].count = Cardinality(fresh)
      BY <2>1 DEF ScanningFrom
    <3> QED
      BY <1>3, <1>8, <2>2, <3>1
  <2>5. m.scanned = taken \cup now
    BY <1>8, <2>1 DEF ScanningFrom
  <2>6. ScanningFrom(list, taken, cap, promised, s, m, now)
    BY <2>2, <2>3, <2>4, <2>5 DEF ScanningFrom
  <2>7. m.todo \in Seq(Repos)
    BY <2>2 DEF Ahead
  <2> HIDE DEF now
  <2>8. s = Plan[r][m.pos] /\ taken = Taken[m.pos - 1][r] /\ promised = Promised(r, m.pos - 1)
    BY <1>3, <1>8 DEF taken, promised
  <2>9. Scanning(r, m)
    BY <2>6, <2>7, <2>8, ScanningIs DEF list, cap
  <2> QED
    BY <1>8, <2>9 DEF Clean, Storing
<1> QED
  BY <1>6, <1>9, <1>10, SoundStep DEF Sound

\* CloseSource ends the scan at the limit or at the end of the list.
LEMMA CloseIsSound ==
    ASSUME CrawlInv, CleanInv, NEW r \in Runs, CloseSource(r)
    PROVE  CleanInv'
<1> DEFINE m == run[r]
           s == Source(r)
           list == ReposOf[s]
           taken == Taken[m.pos - 1][r]
           cap == Config[s].cap
           promised == Promised(r, m.pos - 1)
<1>1. /\ m.at = "scan" /\ (m.todo = <<>> \/ m.count >= EntryOf(r).cap)
      /\ run' = [run EXCEPT ![r] = Onward(m, r)]
  BY DEF CloseSource, Goes
<1>2. /\ m \in Memory /\ m.todo \in Seq(Repos) /\ Gathered(m) /\ m.pos \in 1..Len(Plan[r])
      /\ m.count \in Nat /\ cap \in Nat /\ EntryOf(r).cap = cap
      /\ s \in Sources /\ list \in Seq(Repos)
      /\ s = Plan[r][m.pos] /\ (~m.missed => Scanning(r, m))
  BY <1>1, ScanIs
<1>3. taken \in SUBSET Repos
  BY <1>2, TakenAt
<1>4. Gathered(Onward(m, r)) /\ Onward(m, r).missed = m.missed
  BY <1>2, OnwardGathers
<1>5. ASSUME ~m.missed PROVE Clean(r, Onward(m, r))
  <2>1. PICK fresh : ScanningFrom(list, taken, cap, promised, s, m, fresh)
    BY <1>2, <1>5, ScanningIs
  <2>2. Takes[s][taken] = fresh
    <3> HIDE DEF list, taken, cap, promised, s, m
    <3> DEFINE k == Len(list) - Len(m.todo)
    <3>1. /\ Len(list) \in Nat /\ Len(m.todo) \in Nat /\ Len(m.todo) <= Len(list)
          /\ k \in 0..Len(list)
      BY <1>2, <2>1 DEF ScanningFrom, Ahead
    <3>2. k < Len(list) => m.todo # <<>>
      BY <3>1
    <3>3. fresh = New(list, k, taken) /\ m.count = Cardinality(fresh) /\ m.count <= cap
      BY <2>1 DEF ScanningFrom, Fresh
    <3> HIDE DEF k
    <3>4. Cardinality(fresh) <= cap
      BY <3>3
    <3>5. ASSUME k < Len(list) PROVE Cardinality(fresh) = cap
      BY <1>1, <1>2, <3>2, <3>3, <3>5
    <3>6. Foremost(list, Repos \ taken, cap) = fresh
      BY <1>2, <1>3, <3>1, <3>3, <3>4, <3>5, ForemostIs
    <3> QED
      BY <1>2, <1>3, <3>6, TakesAre DEF list, cap
  <2>3. /\ m.scanned = taken \cup fresh
        /\ Range(m.results) = promised \cup Brought(s, fresh)
    BY <2>1 DEF ScanningFrom
  <2>4. Finished(r, m)
    <3>1. /\ fresh = Takes[Plan[r][m.pos]][Taken[m.pos - 1][r]]
          /\ m.scanned = Taken[m.pos - 1][r] \cup fresh
          /\ Range(m.results) = Promised(r, m.pos - 1) \cup Brought(Plan[r][m.pos], fresh)
      BY <1>2, <2>2, <2>3
    <3> HIDE DEF m
    <3> QED
      BY <1>2, <3>1, FinishedIs
  <2> QED
    BY <1>2, <2>4, OnwardIsClean
<1> QED
  BY <1>1, <1>4, <1>5, SoundStep DEF Sound

(***************************************************************************)
(* Starting, dying and storing                                             *)
(***************************************************************************)

\* A run that is idle, and one that begins.
LEMMA IdleIsSound ==
    ASSUME NEW r \in Runs
    PROVE  Sound(r, Idle) /\ Sound(r, [Idle EXCEPT !.at = "open"])
<1> DEFINE o == [Idle EXCEPT !.at = "open"]
<1>1. Idle.at = "idle" /\ Idle.results = <<>>
  BY DEF Idle
<1>2. /\ o.at = "open" /\ o.results = <<>> /\ o.scanned = {} /\ o.pos = 1 /\ o.count = 0
      /\ o.maps = <<>> /\ o.seenMaps = {} /\ o.locs = <<>> /\ o.seenPages = {} /\ o.found = {}
  BY DEF Idle
<1> HIDE DEF o
<1>3. Gathered(Idle) /\ Gathered(o)
  BY <1>1, <1>2 DEF Gathered
<1>4. Clean(r, Idle)
  BY <1>1 DEF Clean, Storing
<1>5. Taken[0][r] = {} /\ Promised(r, 0) = {} /\ o.pos - 1 = 0 /\ Range(o.results) = {}
  BY <1>2, TakenIs, PromisedIs DEF Range
<1>6. Begun(r, o)
  BY <1>2, <1>5 DEF Begun
<1>7. Clean(r, o)
  BY <1>2, <1>6 DEF Clean, Storing
<1> QED
  BY <1>3, <1>4, <1>7 DEF Sound, o

\* A run that starts or ends begins anew.
LEMMA StartIsSound ==
    ASSUME CrawlInv, CleanInv, NEW r \in Runs, Start(r) \/ RowTwice(r) \/ Die(r)
    PROVE  CleanInv'
<1>1. \E m \in {Idle, [Idle EXCEPT !.at = "open"]} : run' = [run EXCEPT ![r] = m]
  BY DEF Start, RowTwice, Die, Ends
<1> QED
  BY <1>1, IdleIsSound, SoundStep

\* Storing changes neither the results nor what was missed.
LEMMA StoringIsSound ==
    ASSUME CrawlInv, CleanInv, NEW r \in Runs,
           \/ LookUpSource(r) \/ InsertSource(r)
           \/ RowFound(r) \/ RowMissing(r) \/ SaveItem(r)
    PROVE  CleanInv'
<1> DEFINE look(home) == [run[r] EXCEPT !.at = "save", !.home = home]
           insert == [run[r] EXCEPT !.at = "insert"]
           add == [run[r] EXCEPT !.at = "add"]
           next == [run[r] EXCEPT !.stored = @ + 1, !.home = Nobody]
           again == [next EXCEPT !.at = "look"]
<1>1. run[r].at \in Storing
  BY DEF LookUpSource, InsertSource, RowFound, RowMissing, SaveItem, Storing
<1>2. /\ run[r] \in Memory /\ Gathered(run[r])
      /\ ~run[r].missed => Range(run[r].results) = Expected[r]
  <2>1. run[r] \in Memory /\ Sound(r, run[r])
    BY DEF CrawlInv, CleanInv
  <2> QED
    BY <1>1, <2>1 DEF Sound, Clean
<1>3. \E m : /\ m = Idle \/ m = insert \/ m = add \/ m = again \/ \E home : m = look(home)
             /\ run' = [run EXCEPT ![r] = m]
  BY DEF LookUpSource, InsertSource, RowFound, RowMissing, SaveItem, Commits, Goes
<1>4. ASSUME NEW m, m = insert \/ m = add \/ m = again \/ \E home : m = look(home)
      PROVE  /\ m.at \in Storing /\ m.results = run[r].results
             /\ m.scanned = run[r].scanned /\ m.missed = run[r].missed
  BY <1>2, <1>4 DEF Memory, Storing
<1> HIDE DEF look, insert, add, next, again
<1>5. ASSUME NEW m, m = insert \/ m = add \/ m = again \/ \E home : m = look(home)
      PROVE  Sound(r, m)
  <2>1. /\ m.at \in Storing /\ m.results = run[r].results
        /\ m.scanned = run[r].scanned /\ m.missed = run[r].missed
    BY <1>4, <1>5
  <2>2. Gathered(m)
    BY <1>2, <2>1, GatheredSame
  <2>3. ~m.missed => Clean(r, m)
    BY <1>2, <2>1 DEF Clean, Storing
  <2> QED
    BY <2>2, <2>3 DEF Sound
<1> QED
  BY <1>3, <1>5, IdleIsSound, SoundStep

(***************************************************************************)
(* Walking the sitemaps of a directory                                     *)
(***************************************************************************)

\* The entries of a list that differ from those in front of them come from it.
LEMMA FirstKnownIs ==
    ASSUME NEW known \in Seq(Maps), NEW j \in Nat, j <= Len(known)
    PROVE  /\ FirstKnown(known, j) \in SUBSET Maps
           /\ Range(known) = FirstKnown(known, j) \cup Range(SubSeq(known, j + 1, Len(known)))
           /\ j < Len(known) => FirstKnown(known, j + 1) = FirstKnown(known, j) \cup {known[j + 1]}
<1>1. \A k \in 1..j : k \in DOMAIN known
  OBVIOUS
<1>2. FirstKnown(known, j) \in SUBSET Maps /\ FirstKnown(known, j) \in SUBSET Range(known)
  BY <1>1 DEF FirstKnown, Range
<1> DEFINE rest == SubSeq(known, j + 1, Len(known))
<1>3. /\ Len(rest) = Len(known) - j
      /\ \A k \in 1..(Len(known) - j) : rest[k] = known[k + j]
  OBVIOUS
<1>4. rest \in Seq(Maps)
  OBVIOUS
<1> HIDE DEF rest
<1>5. \A k \in DOMAIN known : known[k] \in FirstKnown(known, j) \cup Range(rest)
  <2> SUFFICES ASSUME NEW k \in DOMAIN known PROVE known[k] \in FirstKnown(known, j) \cup Range(rest)
    OBVIOUS
  <2>1. CASE k <= j
    BY <2>1 DEF FirstKnown
  <2>2. CASE k > j
    <3>1. k - j \in DOMAIN rest /\ rest[k - j] = known[k]
      BY <1>3, <1>4, <2>2, SMTT(30)
    <3> QED
      BY <3>1 DEF Range
  <2> QED
    BY <2>1, <2>2
<1>6. \A k \in DOMAIN rest : rest[k] \in Range(known)
  <2> SUFFICES ASSUME NEW k \in DOMAIN rest PROVE rest[k] \in Range(known)
    OBVIOUS
  <2>1. k + j \in DOMAIN known /\ rest[k] = known[k + j]
    BY <1>3, <1>4
  <2> QED
    BY <2>1 DEF Range
<1>7. j < Len(known) => 1..(j + 1) = 1..j \cup {j + 1}
  OBVIOUS
<1>8. j < Len(known) => FirstKnown(known, j + 1) = FirstKnown(known, j) \cup {known[j + 1]}
  <2> SUFFICES ASSUME j < Len(known)
               PROVE  FirstKnown(known, j + 1) = FirstKnown(known, j) \cup {known[j + 1]}
    OBVIOUS
  <2>1. FirstKnown(known, j + 1) = {known[k] : k \in 1..j \cup {j + 1}}
    BY <1>7 DEF FirstKnown
  <2> QED
    BY <2>1 DEF FirstKnown
<1>9. Range(known) = FirstKnown(known, j) \cup Range(rest)
  <2>1. Range(rest) \in SUBSET Range(known)
    BY <1>6 DEF Range
  <2>2. Range(known) \in SUBSET (FirstKnown(known, j) \cup Range(rest))
    BY <1>5 DEF Range
  <2> QED
    BY <1>2, <2>1, <2>2
<1> QED
  BY <1>2, <1>8, <1>9 DEF rest

\* Known grows behind what it begins with.
LEMMA ConcatRest ==
    ASSUME NEW T, NEW a \in Seq(T), NEW b \in Seq(T), NEW j \in Nat, j <= Len(a)
    PROVE  SubSeq(a \o b, j + 1, Len(a \o b)) = SubSeq(a, j + 1, Len(a)) \o b
<1> DEFINE c == a \o b
           n == Len(a) - j
           left == SubSeq(c, j + 1, Len(c))
           tail == SubSeq(a, j + 1, Len(a))
<1>1. /\ c \in Seq(T) /\ Len(c) = Len(a) + Len(b) /\ Len(a) \in Nat /\ Len(b) \in Nat
      /\ n \in Nat /\ Len(c) - (j + 1) + 1 = n + Len(b) /\ Len(a) - (j + 1) + 1 = n
  OBVIOUS
<1>2. \A i \in 1..Len(c) : c[i] = IF i <= Len(a) THEN a[i] ELSE b[i - Len(a)]
  OBVIOUS
<1> HIDE DEF c
<1>3. /\ left \in Seq(T) /\ Len(left) = n + Len(b)
      /\ \A i \in 1..(n + Len(b)) : left[i] = c[i + j]
  <2>1. /\ left \in Seq(T)
        /\ Len(left) = IF j + 1 <= Len(c) THEN Len(c) - (j + 1) + 1 ELSE 0
        /\ \A i \in 1..(Len(c) - (j + 1) + 1) : left[i] = c[j + 1 + i - 1]
    <3>1. \A i \in (j + 1)..Len(c) : c[i] \in T
      BY <1>1
    <3> HIDE DEF n
    <3> QED
      BY <1>1, <3>1, SubSeqProperties
  <2> HIDE DEF left
  <2>2. Len(left) = n + Len(b)
    BY <1>1, <2>1
  <2>3. ASSUME NEW i \in 1..(n + Len(b)) PROVE left[i] = c[i + j]
    <3>1. i \in 1..(Len(c) - (j + 1) + 1) /\ j + 1 + i - 1 = i + j
      BY <1>1
    <3> QED
      BY <2>1, <3>1
  <2> QED
    BY <2>1, <2>2, <2>3
<1>4. tail \in Seq(T) /\ Len(tail) = n /\ \A i \in 1..n : tail[i] = a[i + j]
  <2>1. /\ tail \in Seq(T)
        /\ Len(tail) = IF j + 1 <= Len(a) THEN Len(a) - (j + 1) + 1 ELSE 0
        /\ \A i \in 1..(Len(a) - (j + 1) + 1) : tail[i] = a[j + 1 + i - 1]
    <3>1. \A i \in (j + 1)..Len(a) : a[i] \in T
      BY <1>1
    <3> HIDE DEF n
    <3> QED
      BY <1>1, <3>1, SubSeqProperties
  <2> HIDE DEF tail, left
  <2>2. \A i \in 1..n : j + 1 + i - 1 = i + j
    BY <1>1
  <2>3. Len(tail) = n
    <3> DEFINE l == Len(a)
    <3>1. l \in Nat /\ j <= l /\ n = l - j /\ Len(tail) = IF j + 1 <= l THEN l - (j + 1) + 1 ELSE 0
      BY <1>1, <2>1
    <3> HIDE DEF l, n
    <3> QED
      BY <3>1
  <2> HIDE DEF n
  <2>4. \A i \in 1..n : tail[i] = a[i + j]
    BY <1>1, <2>1, <2>2
  <2> QED
    BY <2>1, <2>3, <2>4
<1> HIDE DEF left, tail, n
<1>5. /\ tail \o b \in Seq(T) /\ Len(tail \o b) = n + Len(b)
      /\ \A i \in 1..(n + Len(b)) : (tail \o b)[i] = IF i <= n THEN tail[i] ELSE b[i - n]
  BY <1>4, ConcatProperties
<1>6. ASSUME NEW i \in 1..(n + Len(b)) PROVE left[i] = (tail \o b)[i]
  <2>1. i + j \in 1..Len(c) /\ left[i] = c[i + j]
    BY <1>1, <1>3
  <2>2. CASE i <= n
    <3>1. i + j <= Len(a) /\ i \in 1..n
      BY <1>1, <2>2 DEF n
    <3> QED
      BY <1>2, <1>4, <1>5, <2>1, <2>2, <3>1
  <2>3. CASE i > n
    <3>1. ~(i + j <= Len(a)) /\ ~(i <= n) /\ i + j - Len(a) = i - n
      BY <1>1, <2>3 DEF n
    <3> QED
      BY <1>2, <1>5, <2>1, <3>1, SMTT(30)
  <2>4. i <= n \/ i > n
    BY <1>1
  <2> QED
    BY <2>2, <2>3, <2>4
<1>7. left = tail \o b
  BY <1>1, <1>3, <1>5, <1>6, SeqEqual
<1> QED
  BY <1>7 DEF left, tail, c

\* When the next known sitemap is read what it names is pending behind the others.
LEMMA ReadingOn ==
    ASSUME NEW known \in Seq(Maps), NEW j \in Nat, j + 1 <= Len(known),
           NEW rest \in Seq(Maps), Pending(rest, known, j + 1),
           NEW more, more = Known(j, known)
    PROVE  /\ more \in Seq(Maps) /\ j + 1 <= Len(more)
           /\ \A k \in 1..Len(known) : more[k] = known[k]
           /\ FirstKnown(more, j + 1) = FirstKnown(known, j + 1)
           /\ Pending(rest \o Locs[known[j + 1]], more, j + 1)
<1> DEFINE read == FirstKnown(known, j + 1)
           locs == Locs[known[j + 1]]
           set == Maps \ (Foreign \cup read)
           new == Once(locs, Maps \ (Foreign \cup Range(known)))
           tail == SubSeq(known, j + 2, Len(known))
<1>1. more \in Seq(Maps) /\ Len(known) <= Len(more) /\ \A k \in 1..Len(known) : more[k] = known[k]
  BY KnownIs, KnownGrows
<1>2. Len(known) \in Nat /\ Len(more) \in Nat /\ j + 1 <= Len(more) /\ j + 1 \in Nat
  BY <1>1
<1>3. FirstKnown(more, j + 1) = read
  <2>1. \A k \in 1..(j + 1) : more[k] = known[k]
    BY <1>1, <1>2
  <2> QED
    BY <2>1 DEF FirstKnown
<1>4. more = known \o new
  BY <1>2 DEF Known
<1>5. locs \in Seq(Maps \cup Pages) /\ new \in Seq(Maps)
  <2>1. known[j + 1] \in Maps
    BY <1>2
  <2> QED
    BY <2>1, OnceOfMaps, WebAssumption
<1>6. Once(rest, set) = tail
  <2>1. j + 1 + 1 = j + 2
    OBVIOUS
  <2> QED
    BY <2>1 DEF Pending
<1> HIDE DEF locs, new
<1>7. Once(rest \o locs, set) = Once(rest, set) \o Once(locs, set \ Range(rest))
  <2>1. rest \in Seq(Maps \cup Pages)
    OBVIOUS
  <2> QED
    BY <1>5, <2>1, OnceConcat
<1>8. set \ Range(rest) = Maps \ (Foreign \cup Range(known))
  <2>1. Range(tail) = Range(rest) \cap set
    BY <1>6, OnceIs, ZenonT(60)
  <2>2. Range(known) = read \cup Range(tail)
    <3>1. Range(known) = FirstKnown(known, j + 1) \cup Range(SubSeq(known, j + 1 + 1, Len(known)))
      BY <1>2, FirstKnownIs
    <3>2. j + 1 + 1 = j + 2
      OBVIOUS
    <3> QED
      BY <3>1, <3>2
  <2> HIDE DEF tail, read
  <2> QED
    BY <2>1, <2>2
<1>9. SubSeq(more, j + 2, Len(more)) = tail \o new
  <2>1. j + 2 = (j + 1) + 1
    OBVIOUS
  <2> QED
    BY <1>2, <1>4, <1>5, <2>1, ConcatRest
<1>10. Once(rest \o locs, set) = SubSeq(more, j + 2, Len(more))
  <2> HIDE DEF set, tail
  <2> QED
    BY <1>6, <1>7, <1>8, <1>9 DEF new
<1>11. Pending(rest \o locs, more, j + 1)
  <2>1. j + 1 + 1 = j + 2
    OBVIOUS
  <2> QED
    BY <1>3, <1>10, <2>1 DEF Pending
<1> QED
  BY <1>1, <1>2, <1>3, <1>11 DEF locs

\* What is known of a run that walks the sitemaps of a directory.
LEMMA WalkIs ==
    ASSUME CrawlInv, CleanInv, NEW r \in Runs, run[r].at \in {"sitemaps", "pages"}
    PROVE  /\ run[r] \in Memory /\ run[r].pos \in 1..Len(Plan[r])
           /\ Source(r) = Plan[r][run[r].pos] /\ Source(r) \in Sources
           /\ EntryOf(r) = Config[Source(r)] /\ EntryOf(r).pages \in Int
           /\ EntryOf(r).listed \in Seq(Repos)
           /\ Gathered(run[r])
           /\ ~run[r].missed => /\ Begun(r, run[r]) /\ Walking(EntryOf(r), run[r])
                                /\ EntryOf(r).kind = "web_directory" /\ EntryOf(r).map \in Maps
<1>1. /\ run[r] \in Memory /\ run[r].pos \in 1..Len(Plan[r])
      /\ Source(r) \in Sources /\ EntryOf(r) \in SourceEntry
  BY ReadingIs DEF Reading
<1>2. /\ Source(r) = Plan[r][run[r].pos] /\ EntryOf(r) = Config[Source(r)]
      /\ EntryOf(r).pages \in Int /\ EntryOf(r).listed \in Seq(Repos)
  BY <1>1 DEF Source, EntryOf, SourceEntry
<1>3. Sound(r, run[r])
  BY DEF CleanInv
<1>4. Gathered(run[r])
  BY <1>3 DEF Sound
<1>5. ~run[r].missed => Begun(r, run[r]) /\ Walking(EntryOf(r), run[r])
  BY <1>2, <1>3 DEF Sound, Clean
<1>6. Walking(EntryOf(r), run[r]) => EntryOf(r).kind = "web_directory" /\ EntryOf(r).map \in Maps
  BY <1>1, <1>2, ConfigAssumption DEF Walking
<1> QED
  BY <1>1, <1>2, <1>4, <1>5, <1>6

\* What a walk leaves alone.
Alike(m, n) ==
    /\ n.pos = m.pos /\ n.results = m.results /\ n.scanned = m.scanned /\ n.count = m.count

\* A step of the walk keeps a run sound if it keeps the walk right.
LEMMA WalkGoesOn ==
    ASSUME CrawlInv, CleanInv, NEW r \in Runs, run[r].at \in {"sitemaps", "pages"},
           NEW m, run' = [run EXCEPT ![r] = m], Alike(run[r], m),
           m.at \in {"sitemaps", "pages"},
           ~m.missed => ~run[r].missed /\ Walking(EntryOf(r), m)
    PROVE  CleanInv'
<1>1. Gathered(m)
  BY WalkIs, GatheredSame DEF Alike
<1>2. ASSUME ~m.missed PROVE Clean(r, m)
  <2>1. Begun(r, run[r]) /\ Walking(EntryOf(r), m)
    BY <1>2, WalkIs
  <2>2. Begun(r, m)
    BY <2>1 DEF Begun, Alike
  <2>3. EntryOf(r) = Config[Plan[r][m.pos]]
    BY WalkIs DEF Alike
  <2> QED
    BY <2>1, <2>2, <2>3 DEF Clean, Storing
<1> QED
  BY <1>1, <1>2, SoundStep DEF Sound

\* CloseSitemap leaves a sitemap that was read to its end.
LEMMA CloseSitemapIsSound ==
    ASSUME CrawlInv, CleanInv, NEW r \in Runs, CloseSitemap(r)
    PROVE  CleanInv'
<1> DEFINE m == [run[r] EXCEPT !.at = "sitemaps"]
           e == EntryOf(r)
<1>1. run[r].at = "pages" /\ run[r].locs = <<>> /\ run' = [run EXCEPT ![r] = m]
  BY DEF CloseSitemap, Goes
<1>2. run[r] \in Memory /\ (~run[r].missed => Walking(e, run[r]))
  BY <1>1, WalkIs
<1>3. /\ m.at = "sitemaps" /\ Alike(run[r], m) /\ m.missed = run[r].missed
      /\ m.maps = run[r].maps /\ m.seenMaps = run[r].seenMaps /\ m.locs = run[r].locs
      /\ m.seenPages = run[r].seenPages /\ m.found = run[r].found /\ m.budget = run[r].budget
  BY <1>2 DEF Memory, Alike
<1> HIDE DEF m, e
<1>4. ASSUME Walking(e, run[r]) PROVE Walking(e, m)
  <2>1. ASSUME NEW known, NEW j, Walked(run[r], known, j) PROVE Walked(m, known, j)
    BY <1>1, <1>3, <2>1 DEF Walked
  <2>2. UnderWay(e, run[r]) => UnderWay(e, m)
    BY <1>3, <2>1 DEF UnderWay
  <2>3. ~AtRoot(e, run[r])
    BY <1>1 DEF AtRoot
  <2> QED
    BY <1>3, <1>4, <2>2, <2>3 DEF Walking
<1> QED
  BY <1>1, <1>2, <1>3, <1>4, WalkGoesOn DEF e

\* Who has read enough pages has read the first ones.
LEMMA EnoughRead ==
    ASSUME NEW root \in Maps, NEW j \in Nat, 0 < j, j <= Cardinality(Maps),
           j <= Len(Named[j][root]), NEW n \in Int,
           NEW i \in 0..Len(Locs[Named[j][root][j]]),
           Cardinality(PagesUpTo(Named[j][root], j, i)) <= n,
           Cardinality(PagesUpTo(Named[j][root], j, i)) < n =>
               Len(Named[j][root]) <= j /\ Len(Locs[Named[j][root][j]]) <= i
    PROVE  FirstPages(Sitemaps[root], n) = PagesUpTo(Named[j][root], j, i)
<1> DEFINE known == Named[j][root]
           all == Sitemaps[root]
           size == Cardinality(Maps)
<1>1. size \in Nat /\ all = Named[size][root]
  BY WebAssumption, FS_CardinalityType DEF Sitemaps
<1>2. known \in Seq(Maps) /\ all \in Seq(Maps)
  BY <1>1, NamedAt
<1>3. Len(known) <= Len(all) /\ \A k \in 1..Len(known) : all[k] = known[k]
  BY <1>1, NamedGrows
<1>4. Len(known) <= j => all = known
  BY <1>1, NamedDrained
<1>5. /\ j <= Len(known) /\ i \in 0..Len(Locs[known[j]])
      /\ Cardinality(PagesUpTo(known, j, i)) <= n
      /\ Cardinality(PagesUpTo(known, j, i)) < n => Len(known) <= j /\ Len(Locs[known[j]]) <= i
  OBVIOUS
<1> HIDE DEF known, all, size
<1>6. j \in 1..Len(known) /\ j \in 1..Len(all) /\ all[j] = known[j]
  BY <1>2, <1>3, <1>5
<1>7. PagesUpTo(known, j, i) = PagesUpTo(all, j, i)
  BY <1>2, <1>3, <1>6, PagesOfPrefix
<1>8. i \in 0..Len(Locs[all[j]])
  BY <1>5, <1>6
<1>9. Cardinality(PagesUpTo(all, j, i)) <= n
  BY <1>5, <1>7
<1>10. ASSUME Cardinality(PagesUpTo(all, j, i)) < n
       PROVE  Len(all) <= j /\ Len(Locs[all[j]]) <= i
  BY <1>4, <1>5, <1>6, <1>7, <1>10
<1>11. FirstPages(all, n) = PagesUpTo(all, j, i)
  BY <1>2, <1>6, <1>8, <1>9, <1>10, FirstPagesAre
<1> QED
  BY <1>7, <1>11 DEF known, all

\* What is known of a walk that is under way.
LEMMA UnderWayIs ==
    ASSUME NEW e, e.map \in Maps, NEW m \in Memory, UnderWay(e, m),
           NEW j, j = Cardinality(m.seenMaps)
    PROVE  /\ IsFiniteSet(m.seenMaps) /\ m.seenMaps \in SUBSET Maps
           /\ j \in Nat /\ 0 < j /\ j <= Cardinality(Maps)
           /\ Named[j][e.map] \in Seq(Maps) /\ j \in 1..Len(Named[j][e.map])
           /\ Walked(m, Named[j][e.map], j)
<1>1. m.seenMaps \in SUBSET Maps /\ IsFiniteSet(Maps)
  BY WebAssumption DEF Memory
<1>2. IsFiniteSet(m.seenMaps) /\ j \in Nat /\ j <= Cardinality(Maps)
  BY <1>1, FS_Subset, FS_CardinalityType
<1>3. m.seenMaps # {} /\ Walked(m, Named[j][e.map], j)
  BY DEF UnderWay
<1>4. j # 0
  BY <1>2, <1>3, FS_EmptySet
<1>5. Named[j][e.map] \in Seq(Maps) /\ j <= Len(Named[j][e.map])
  BY <1>2, <1>3, NamedAt DEF Walked
<1> QED
  BY <1>1, <1>2, <1>3, <1>4, <1>5

\* When the queue is empty or the budget spent the walk has found what it had to.
LEMMA WalkEnds ==
    ASSUME NEW e, e.map \in Maps, e.pages \in Int, NEW m \in Memory, Walking(e, m),
           m.at = "sitemaps", m.maps = <<>> \/ m.budget <= 0
    PROVE  m.found = Range(e.listed) \cup SitemapPages(e)
<1> DEFINE root == e.map
           pages == e.pages
           budget == m.budget
<1>1. budget \in Int /\ pages \in Int /\ 0 < pages
  BY DEF Memory, Walking
<1>2. CASE budget < 0
  BY <1>1, <1>2 DEF Walking
<1>3. CASE budget >= 0 /\ AtRoot(e, m)
  <2>1. m.seenPages = {} /\ m.maps # <<>> /\ Cardinality(m.seenPages) = pages - budget
    BY <1>1, <1>3 DEF AtRoot, Walking
  <2>2. Cardinality(m.seenPages) = 0
    BY <2>1, FS_EmptySet
  <2> HIDE DEF budget, pages
  <2>3. budget <= 0
    BY <2>1 DEF budget
  <2> QED
    BY <1>1, <1>3, <2>1, <2>2, <2>3
<1>4. CASE budget >= 0 /\ UnderWay(e, m)
  <2>1. PICK j : j = Cardinality(m.seenMaps)
    OBVIOUS
  <2> DEFINE known == Named[j][root]
             last == Locs[known[j]]
             read == PagesUpTo(known, j, Len(last))
  <2>2. /\ j \in Nat /\ 0 < j /\ j <= Cardinality(Maps)
        /\ known \in Seq(Maps) /\ j \in 1..Len(known) /\ Walked(m, known, j)
    BY <1>4, <2>1, UnderWayIs
  <2>3. Len(last) \in Nat
    BY <2>2, LocsAre
  <2> HIDE DEF known, last
  <2>4. m.locs = <<>> /\ m.seenPages = PagesUpTo(known, j, Len(last) - Len(m.locs))
    BY <2>2 DEF Walked, last
  <2>5. Len(last) - Len(m.locs) = Len(last)
    BY <2>3, <2>4
  <2>6. m.seenPages = read
    BY <2>4, <2>5
  <2>7. /\ Cardinality(read) = pages - budget
        /\ m.found = Range(e.listed) \cup UNION {PageRepos[p] : p \in read}
    BY <1>1, <1>4, <2>6 DEF Walking
  <2>8. m.maps = <<>> => Len(known) <= j
    <3> SUFFICES ASSUME m.maps = <<>>, ~(Len(known) <= j) PROVE FALSE
      OBVIOUS
    <3> DEFINE set == Maps \ (Foreign \cup FirstKnown(known, j))
    <3>1. Once(m.maps \o m.locs, set) = SubSeq(known, j + 1, Len(known))
      BY <2>2 DEF Walked, Pending
    <3>2. m.maps \o m.locs = <<>>
      BY <2>4
    <3> HIDE DEF set
    <3>3. SubSeq(known, j + 1, Len(known)) = <<>>
      BY <3>1, <3>2, OnceOfOne
    <3>4. Len(known) \in Nat /\ j + 1 <= Len(known) /\ \A k \in (j + 1)..Len(known) : known[k] \in Maps
      BY <2>2
    <3>5. Len(SubSeq(known, j + 1, Len(known))) = Len(known) - (j + 1) + 1
      BY <2>2, <3>4, SubSeqProperties
    <3>6. Len(known) - (j + 1) + 1 = 0
      BY <3>3, <3>5
    <3>7. j \in Nat /\ Len(known) - (j + 1) + 1 = Len(known) - j /\ Len(known) - j # 0
      BY <2>2, <3>4
    <3> QED
      BY <3>6, <3>7
  <2>9. m.maps = <<>> \/ budget = 0
    BY <1>1, <1>4
  <2> HIDE DEF read, pages, budget
  <2>10. Cardinality(read) <= pages
    BY <1>1, <1>4, <2>7
  <2>11. ASSUME Cardinality(read) < pages PROVE Len(known) <= j
    BY <1>1, <2>7, <2>8, <2>9, <2>11
  <2>12. FirstPages(Sitemaps[root], pages) = read
    <3>1. Len(last) \in 0..Len(Locs[Named[j][root][j]])
      BY <2>3 DEF last, known
    <3>2. j <= Len(Named[j][root])
      BY <2>2 DEF known
    <3>3. Cardinality(PagesUpTo(Named[j][root], j, Len(last))) <= pages
      BY <2>10 DEF read, known
    <3>4. ASSUME Cardinality(PagesUpTo(Named[j][root], j, Len(last))) < pages
          PROVE  Len(Named[j][root]) <= j /\ Len(Locs[Named[j][root][j]]) <= Len(last)
      <4>1. Cardinality(read) < pages
        BY <3>4 DEF read, known
      <4> QED
        BY <2>3, <2>11, <4>1 DEF last, known
    <3>5. FirstPages(Sitemaps[root], pages) = PagesUpTo(Named[j][root], j, Len(last))
      BY <1>1, <2>2, <3>1, <3>2, <3>3, <3>4, EnoughRead
    <3> QED
      BY <3>5 DEF read, known
  <2> QED
    BY <2>7, <2>12 DEF SitemapPages, pages
<1> QED
  BY <1>1, <1>2, <1>3, <1>4 DEF Walking

\* CloseDirectory begins to scan what the walk found.
LEMMA CloseDirectoryIsSound ==
    ASSUME CrawlInv, CleanInv, NEW r \in Runs, CloseDirectory(r)
    PROVE  CleanInv'
<1> DEFINE m == [run[r] EXCEPT !.todo = Sorted[run[r].found], !.at = "scan"]
           e == EntryOf(r)
           s == Source(r)
<1>1. /\ run[r].at = "sitemaps" /\ (run[r].maps = <<>> \/ run[r].budget <= 0)
      /\ run' = [run EXCEPT ![r] = m]
  BY DEF CloseDirectory, Goes
<1>2. /\ run[r] \in Memory /\ run[r].pos \in 1..Len(Plan[r]) /\ Gathered(run[r])
      /\ s = Plan[r][run[r].pos] /\ s \in Sources /\ e = Config[s] /\ e.pages \in Int
      /\ ~run[r].missed => /\ Begun(r, run[r]) /\ Walking(e, run[r])
                           /\ e.kind = "web_directory" /\ e.map \in Maps
  BY <1>1, WalkIs
<1>3. /\ m.at = "scan" /\ m.todo = Sorted[run[r].found] /\ Alike(run[r], m)
      /\ m.missed = run[r].missed
  BY <1>2 DEF Memory, Alike
<1> HIDE DEF m
<1>4. Gathered(m)
  BY <1>2, <1>3, GatheredSame DEF Alike
<1>5. ASSUME ~m.missed PROVE Clean(r, m)
  <2>1. Begun(r, run[r]) /\ Walking(e, run[r]) /\ e.kind = "web_directory" /\ e.map \in Maps
    BY <1>2, <1>3, <1>5
  <2>2. run[r].found = Range(e.listed) \cup SitemapPages(e)
    BY <1>1, <1>2, <2>1, WalkEnds
  <2>3. ReposOf[s] = Sorted[Range(e.listed) \cup SitemapPages(e)]
    BY <1>2, <2>1, ReposOfIs
  <2>4. m.todo = ReposOf[Plan[r][m.pos]]
    BY <1>2, <1>3, <2>2, <2>3 DEF Alike
  <2>5. Brought(s, {}) = {}
    <3>1. Links[s] = {}
      BY <1>2, <2>1 DEF Links
    <3> QED
      BY <1>2, <3>1, WithoutLinks
  <2>6. /\ m.scanned = Taken[m.pos - 1][r] /\ m.count = 0
        /\ Range(m.results) = Promised(r, m.pos - 1) \cup Brought(Plan[r][m.pos], {})
    BY <1>2, <1>3, <2>1, <2>5 DEF Begun, Alike
  <2>7. m.pos \in 1..Len(Plan[r])
    BY <1>2, <1>3 DEF Alike
  <2> QED
    BY <1>3, <2>4, <2>6, <2>7, ScanningBegins
<1> QED
  BY <1>1, <1>4, <1>5, SoundStep DEF Sound

\* A sitemap that was read before is passed over.
LEMMA PassedOver ==
    ASSUME NEW known, NEW j, NEW m \in Memory, NEW n, Walked(m, known, j),
           m.at = "sitemaps", m.maps # <<>>, Head(m.maps) \in m.seenMaps,
           n.at = "sitemaps", n.maps = Tail(m.maps), n.seenMaps = m.seenMaps,
           n.locs = m.locs, n.seenPages = m.seenPages
    PROVE  Walked(n, known, j)
<1> DEFINE set == Maps \ (Foreign \cup FirstKnown(known, j))
<1>1. m.maps \in Seq(Maps) /\ n.maps \in Seq(Maps)
  BY DEF Memory
<1>2. m.locs = <<>> /\ m.maps \o m.locs = m.maps /\ n.maps \o n.locs = n.maps
  <2>1. m.locs = <<>>
    BY DEF Walked
  <2>2. m.maps \o <<>> = m.maps /\ n.maps \o <<>> = n.maps
    BY <1>1, ConcatEmptySeq
  <2> QED
    BY <2>1, <2>2
<1>3. Head(m.maps) \notin set
  BY DEF Walked
<1> HIDE DEF set
<1>4. Once(m.maps, set) = Once(n.maps, set)
  BY <1>1, <1>3, OnceHead, ZenonT(60)
<1>5. Pending(n.maps \o n.locs, known, j)
  BY <1>2, <1>4 DEF Walked, Pending, set
<1>6. \A i \in DOMAIN n.maps : n.maps[i] \notin Foreign
  <2>1. \A i \in DOMAIN n.maps : i + 1 \in DOMAIN m.maps /\ n.maps[i] = m.maps[i + 1]
    BY <1>1
  <2> QED
    BY <2>1 DEF Walked
<1> QED
  BY <1>2, <1>5, <1>6 DEF Walked

\* The head of the queue, when it was not read before, is the next known sitemap.
LEMMA NextKnown ==
    ASSUME NEW known \in Seq(Maps), NEW j \in Nat, j <= Len(known),
           NEW maps \in Seq(Maps), maps # <<>>, Pending(maps, known, j),
           Head(maps) \notin Foreign \cup FirstKnown(known, j)
    PROVE  /\ j + 1 <= Len(known) /\ known[j + 1] = Head(maps)
           /\ Tail(maps) \in Seq(Maps) /\ Pending(Tail(maps), known, j + 1)
           /\ FirstKnown(known, j + 1) = FirstKnown(known, j) \cup {Head(maps)}
<1> DEFINE head == Head(maps)
           tail == Tail(maps)
           set == Maps \ (Foreign \cup FirstKnown(known, j))
           rest == SubSeq(known, j + 1, Len(known))
           new == Once(tail, set \ {head})
<1>1. head \in Maps /\ tail \in Seq(Maps) /\ head \in set
  OBVIOUS
<1>2. Once(maps, set) = rest
  BY DEF Pending
<1> HIDE DEF set, head, tail, rest
<1>3. Once(maps, set) = <<head>> \o new
  BY <1>1, OnceHead DEF head, tail
<1>4. new \in Seq(Maps)
  BY <1>1, OnceIs
<1> HIDE DEF new
<1>5. rest = <<head>> \o new /\ rest \in Seq(Maps) /\ rest # <<>>
  BY <1>1, <1>2, <1>3, <1>4
<1>6. rest[1] = head /\ Tail(rest) = new
  BY <1>1, <1>4, <1>5
<1>7. j + 1 <= Len(known) /\ Len(known) \in Nat
  <2> SUFFICES ASSUME ~(j + 1 <= Len(known)) PROVE FALSE
    OBVIOUS
  <2>1. Len(known) < j + 1
    OBVIOUS
  <2>2. rest = <<>>
    BY <2>1, SubSeqEmpty DEF rest
  <2> QED
    BY <1>5, <2>2
<1>8. Head(rest) = known[j + 1] /\ Tail(rest) = SubSeq(known, (j + 1) + 1, Len(known))
  <2>1. j + 1 \in 1..Len(known) /\ Len(known) \in (j + 1)..Len(known)
    BY <1>7
  <2> QED
    BY <2>1, HeadTailOfSubSeq DEF rest
<1>9. known[j + 1] = head /\ new = SubSeq(known, (j + 1) + 1, Len(known))
  BY <1>5, <1>6, <1>8
<1>10. FirstKnown(known, j + 1) = FirstKnown(known, j) \cup {head}
  <2>1. j < Len(known)
    BY <1>7
  <2> QED
    BY <1>9, <2>1, FirstKnownIs
<1>11. set \ {head} = Maps \ (Foreign \cup FirstKnown(known, j + 1))
  BY <1>10 DEF set
<1>12. Pending(tail, known, j + 1)
  BY <1>9, <1>11 DEF Pending, new
<1> QED
  BY <1>1, <1>7, <1>9, <1>10, <1>12 DEF head, tail

\* A sitemap that is read has all its entries still to come.
LEMMA JustOpened ==
    ASSUME NEW known \in Seq(Maps), NEW j \in Nat, j + 1 <= Len(known),
           NEW rest \in Seq(Maps), Pending(rest, known, j + 1),
           \A i \in DOMAIN rest : rest[i] \notin Foreign,
           NEW n, n.at = "pages", n.maps = rest, n.locs = Locs[known[j + 1]],
           n.seenMaps = FirstKnown(known, j + 1),
           n.seenPages = PagesUpTo(Known(j, known), j + 1, 0)
    PROVE  Walked(n, Known(j, known), j + 1)
<1> DEFINE more == Known(j, known)
           k == j + 1
           last == Locs[more[k]]
<1>1. /\ more \in Seq(Maps) /\ k <= Len(more) /\ more[k] = known[k]
      /\ FirstKnown(more, k) = FirstKnown(known, k)
      /\ Pending(rest \o Locs[known[k]], more, k)
  <2>1. j + 1 \in 1..Len(known)
    OBVIOUS
  <2> QED
    BY <2>1, ReadingOn
<1>2. n.locs = last
  BY <1>1
<1>3. k \in 1..Len(more)
  BY <1>1
<1> HIDE DEF more
<1>4. Len(last) \in Nat /\ last \in Seq(Maps \cup Pages)
  BY <1>1, <1>3, LocsAre
<1> HIDE DEF last, k
<1>5. /\ Len(n.locs) <= Len(last) /\ Len(last) - Len(n.locs) = 0
      /\ n.locs = SubSeq(last, 1, Len(last)) /\ 0 + 1 = 1
  BY <1>2, <1>4, SubSeqFull
<1>6. n.seenPages = PagesUpTo(more, k, Len(last) - Len(n.locs))
  BY <1>5 DEF more, k
<1>7. n.locs = SubSeq(last, Len(last) - Len(n.locs) + 1, Len(last))
  BY <1>5
<1>8. Pending(n.maps \o n.locs, more, k) /\ n.seenMaps = FirstKnown(more, k)
  BY <1>1, <1>2 DEF last, k
<1> QED
  BY <1>1, <1>5, <1>6, <1>7, <1>8 DEF Walked, last, more, k

\* The first sitemap of a directory.
LEMMA RootOpened ==
    ASSUME NEW e, e.map \in Maps, NEW m, AtRoot(e, m), NEW n,
           n.at = "pages", n.maps = Tail(m.maps), n.seenMaps = m.seenMaps \cup {Head(m.maps)},
           n.locs = Locs[Head(m.maps)], n.seenPages = m.seenPages
    PROVE  UnderWay(e, n)
<1> DEFINE root == e.map
           known == <<root>>
<1>1. /\ Head(m.maps) = root /\ Tail(m.maps) = <<>> /\ m.seenMaps = {} /\ m.seenPages = {}
  BY DEF AtRoot
<1>2. /\ known \in Seq(Maps) /\ 0 + 1 <= Len(known) /\ known[0 + 1] = root
      /\ FirstKnown(known, 0 + 1) = {root} /\ <<>> \in Seq(Maps) /\ 0 \in Nat
  BY DEF FirstKnown
<1>3. Pending(<<>>, known, 0 + 1)
  <2>1. Len(known) = 1 /\ SubSeq(known, 2, 1) = <<>>
    BY <1>2
  <2>2. 0 + 1 + 1 = 2
    OBVIOUS
  <2> QED
    BY <2>1, <2>2, OnceOfOne DEF Pending
<1>4. Named[1][root] = Known(0, known) /\ Named[1][root] \in Seq(Maps)
  <2>1. 0 \in Nat /\ 1 \in Nat /\ 0 + 1 = 1
    OBVIOUS
  <2>2. Named[0][root] = known
    BY NamedIs
  <2> QED
    BY <2>1, <2>2, NamedAt
<1> HIDE DEF known, root
<1>5. 0 + 1 = 1 /\ Known(0, known) \in Seq(Maps)
  BY <1>4
<1>6. PagesUpTo(Known(0, known), 0 + 1, 0) = {}
  <2>1. 0 + 1 <= Len(Known(0, known))
    <3>1. Len(known) <= Len(Known(0, known))
      BY <1>2, KnownGrows
    <3>2. Len(known) \in Nat /\ Len(Known(0, known)) \in Nat
      BY <1>2, <1>5
    <3> QED
      BY <1>2, <3>1, <3>2
  <2>2. 1 \in 1..Len(Known(0, known))
    BY <1>5, <2>1
  <2>3. 0 \in 0..Len(Locs[Known(0, known)[1]])
    BY <1>5, <2>2, LocsAre
  <2> QED
    BY <1>5, <2>2, <2>3, PagesStep
<1>7. Walked(n, Known(0, known), 0 + 1)
  <2>1. /\ n.at = "pages" /\ n.maps = <<>> /\ n.locs = Locs[known[0 + 1]]
        /\ n.seenMaps = FirstKnown(known, 0 + 1)
        /\ n.seenPages = PagesUpTo(Known(0, known), 0 + 1, 0)
    BY <1>1, <1>2, <1>6
  <2>2. \A i \in DOMAIN <<>> : <<>>[i] \notin Foreign
    OBVIOUS
  <2> QED
    BY <1>2, <1>3, <2>1, <2>2, JustOpened
<1>8. n.seenMaps = {root} /\ n.seenMaps # {} /\ Cardinality(n.seenMaps) = 1
  BY <1>1, FS_Singleton
<1> QED
  BY <1>4, <1>5, <1>7, <1>8 DEF UnderWay, root

\* A further sitemap of a directory.
LEMMA NextOpened ==
    ASSUME NEW e, e.map \in Maps, NEW m \in Memory, UnderWay(e, m),
           m.at = "sitemaps", m.maps # <<>>, Head(m.maps) \notin m.seenMaps, NEW n,
           n.at = "pages", n.maps = Tail(m.maps), n.seenMaps = m.seenMaps \cup {Head(m.maps)},
           n.locs = Locs[Head(m.maps)], n.seenPages = m.seenPages
    PROVE  UnderWay(e, n)
<1>1. PICK j : j = Cardinality(m.seenMaps)
  OBVIOUS
<1> DEFINE root == e.map
           known == Named[j][root]
           head == Head(m.maps)
           more == Known(j, known)
           last == Locs[known[j]]
<1>2. /\ IsFiniteSet(m.seenMaps) /\ j \in Nat /\ 0 < j
      /\ known \in Seq(Maps) /\ j \in 1..Len(known) /\ Walked(m, known, j)
  BY <1>1, UnderWayIs
<1>3. Named[j + 1][root] = more
  BY <1>2, NamedAt
<1>4. m.maps \in Seq(Maps)
  BY DEF Memory
<1> HIDE DEF known, root
<1>5. /\ m.seenMaps = FirstKnown(known, j) /\ m.locs = <<>>
      /\ (\A i \in DOMAIN m.maps : m.maps[i] \notin Foreign)
      /\ Pending(m.maps \o m.locs, known, j)
      /\ m.seenPages = PagesUpTo(known, j, Len(last) - Len(m.locs))
  BY <1>2 DEF Walked
<1>6. Pending(m.maps, known, j)
  <2>1. m.maps \o <<>> = m.maps
    BY <1>4, ConcatEmptySeq
  <2> QED
    BY <1>5, <2>1
<1>7. head \notin Foreign
  <2>1. 1 \in DOMAIN m.maps /\ head = m.maps[1]
    BY <1>4
  <2> QED
    BY <1>5, <2>1
<1>8. /\ j + 1 <= Len(known) /\ known[j + 1] = head
      /\ Tail(m.maps) \in Seq(Maps) /\ Pending(Tail(m.maps), known, j + 1)
      /\ FirstKnown(known, j + 1) = FirstKnown(known, j) \cup {head}
  <2>1. j <= Len(known) /\ head \notin Foreign \cup FirstKnown(known, j)
    BY <1>2, <1>5, <1>7
  <2> QED
    BY <1>2, <1>4, <1>6, <2>1, NextKnown
<1>9. \A i \in DOMAIN Tail(m.maps) : Tail(m.maps)[i] \notin Foreign
  <2>1. \A i \in DOMAIN Tail(m.maps) : i + 1 \in DOMAIN m.maps /\ Tail(m.maps)[i] = m.maps[i + 1]
    BY <1>4
  <2> QED
    BY <1>5, <2>1
<1>10. m.seenPages = PagesUpTo(more, j + 1, 0)
  <2>1. /\ more \in Seq(Maps) /\ Len(known) <= Len(more)
        /\ \A k \in 1..Len(known) : more[k] = known[k]
    BY <1>2, KnownIs, KnownGrows
  <2> HIDE DEF more
  <2>2. j \in 1..Len(more) /\ j < Len(more) /\ more[j] = known[j]
    BY <1>2, <1>8, <2>1
  <2>3. Len(last) \in Nat
    BY <1>2, LocsAre
  <2>4. Len(last) - Len(m.locs) = Len(last)
    BY <1>5, <2>3
  <2>5. m.seenPages = PagesUpTo(known, j, Len(last))
    BY <1>5, <2>4
  <2>6. PagesUpTo(known, j, Len(last)) = PagesUpTo(more, j, Len(last))
    BY <1>2, <2>1, PagesOfPrefix
  <2>7. PagesUpTo(more, j + 1, 0) = PagesUpTo(more, j, Len(Locs[more[j]]))
    <3>1. 0 \in 0..Len(Locs[more[j]])
      BY <2>1, <2>2, LocsAre
    <3> QED
      BY <2>1, <2>2, <3>1, PagesStep
  <2> QED
    BY <2>2, <2>5, <2>6, <2>7
<1>11. Walked(n, more, j + 1)
  <2>1. /\ n.maps = Tail(m.maps) /\ n.locs = Locs[known[j + 1]]
        /\ n.seenMaps = FirstKnown(known, j + 1)
        /\ n.seenPages = PagesUpTo(Known(j, known), j + 1, 0)
    BY <1>5, <1>8, <1>10
  <2> QED
    BY <1>2, <1>8, <1>9, <2>1, JustOpened
<1>12. Cardinality(n.seenMaps) = j + 1 /\ n.seenMaps # {}
  BY <1>1, <1>2, FS_AddElement
<1> QED
  BY <1>3, <1>11, <1>12 DEF UnderWay, root

\* ReadSitemap opens the next sitemap, passes one that was read, or misses it.
LEMMA ReadIsSound ==
    ASSUME CrawlInv, CleanInv, NEW r \in Runs, ReadSitemap(r)
    PROVE  CleanInv'
<1> DEFINE old == run[r]
           e == EntryOf(r)
           head == Head(old.maps)
           m == [old EXCEPT !.maps = Tail(@), !.seenMaps = @ \cup {head}]
           opened == [m EXCEPT !.locs = Locs[head], !.at = "pages"]
           failed == [m EXCEPT !.missed = TRUE]
<1>1. /\ old.at = "sitemaps" /\ old.maps # <<>> /\ old.budget > 0
      /\ \/ head \in old.seenMaps /\ run' = [run EXCEPT ![r] = m]
         \/ head \notin old.seenMaps /\ run' = [run EXCEPT ![r] = opened]
         \/ run' = [run EXCEPT ![r] = failed]
  BY DEF ReadSitemap, Goes
<1>2. /\ old \in Memory
      /\ ~old.missed => Walking(e, old) /\ e.kind = "web_directory" /\ e.map \in Maps
  BY <1>1, WalkIs
<1>3. /\ m.at = "sitemaps" /\ m.maps = Tail(old.maps) /\ m.seenMaps = old.seenMaps \cup {head}
      /\ m.locs = old.locs /\ m.seenPages = old.seenPages /\ m.budget = old.budget
      /\ m.found = old.found /\ m.missed = old.missed /\ Alike(old, m)
      /\ opened.at = "pages" /\ opened.maps = Tail(old.maps)
      /\ opened.seenMaps = old.seenMaps \cup {head} /\ opened.locs = Locs[head]
      /\ opened.seenPages = old.seenPages /\ opened.budget = old.budget
      /\ opened.found = old.found /\ opened.missed = old.missed /\ Alike(old, opened)
      /\ failed.at = "sitemaps" /\ failed.missed /\ Alike(old, failed)
  BY <1>1, <1>2 DEF Memory, Alike
<1> HIDE DEF m, opened, failed
<1>4. ASSUME Walking(e, old), e.map \in Maps, head \in old.seenMaps PROVE Walking(e, m)
  <2>1. UnderWay(e, old) => UnderWay(e, m)
    <3>1. m.seenMaps = old.seenMaps
      BY <1>3, <1>4
    <3>2. ASSUME NEW known, NEW j, Walked(old, known, j) PROVE Walked(m, known, j)
      BY <1>1, <1>2, <1>3, <1>4, <3>1, <3>2, PassedOver
    <3> QED
      BY <3>1, <3>2 DEF UnderWay
  <2>2. ~AtRoot(e, old)
    BY <1>4 DEF AtRoot
  <2> QED
    BY <1>3, <1>4, <2>1, <2>2 DEF Walking
<1>5. ASSUME Walking(e, old), e.map \in Maps, head \notin old.seenMaps PROVE Walking(e, opened)
  <2>1. UnderWay(e, old) => UnderWay(e, opened)
    BY <1>1, <1>2, <1>3, <1>5, NextOpened
  <2>2. AtRoot(e, old) => UnderWay(e, opened)
    BY <1>3, <1>5, RootOpened
  <2>3. ~(old.budget < 0)
    BY <1>1, <1>2 DEF Memory
  <2> QED
    BY <1>3, <1>5, <2>1, <2>2, <2>3 DEF Walking
<1>6. CASE head \in old.seenMaps /\ run' = [run EXCEPT ![r] = m]
  BY <1>1, <1>2, <1>3, <1>4, <1>6, WalkGoesOn
<1>7. CASE head \notin old.seenMaps /\ run' = [run EXCEPT ![r] = opened]
  BY <1>1, <1>2, <1>3, <1>5, <1>7, WalkGoesOn
<1>8. CASE run' = [run EXCEPT ![r] = failed]
  BY <1>1, <1>3, <1>8, WalkGoesOn
<1> QED
  BY <1>1, <1>6, <1>7, <1>8

\* How many entries of the sitemap that was read were dealt with.
AtEntry(m, known, j, i) ==
    /\ known \in Seq(Maps) /\ j \in 1..Len(known) /\ m \in Memory
    /\ Walked(m, known, j) /\ m.locs # <<>>
    /\ i = Len(Locs[known[j]]) - Len(m.locs)

\* The entry at hand of the sitemap that was read.
LEMMA EntryAtHand ==
    ASSUME NEW m, NEW known, NEW j, NEW i, AtEntry(m, known, j, i)
    PROVE  /\ Head(m.locs) = Locs[known[j]][i + 1] /\ Head(m.locs) \in Maps \cup Pages
           /\ i \in 0..Len(Locs[known[j]]) /\ i + 1 \in 0..Len(Locs[known[j]])
           /\ Len(Locs[known[j]]) - Len(Tail(m.locs)) = i + 1
           /\ Len(Tail(m.locs)) <= Len(Locs[known[j]])
<1> DEFINE last == Locs[known[j]]
           rest == m.locs
<1>0. /\ known \in Seq(Maps) /\ j \in 1..Len(known) /\ m \in Memory
      /\ Walked(m, known, j) /\ m.locs # <<>>
  BY DEF AtEntry
<1>1. /\ last \in Seq(Maps \cup Pages) /\ Len(last) \in Nat
      /\ \A k \in 1..Len(last) : last[k] \in Maps \cup Pages
  BY <1>0, LocsAre
<1>2. rest \in Seq(Maps \cup Pages) /\ rest # <<>>
  BY <1>0 DEF Memory
<1>3. /\ Len(rest) <= Len(last) /\ rest = SubSeq(last, Len(last) - Len(rest) + 1, Len(last))
  BY <1>0 DEF Walked
<1>4. i = Len(last) - Len(rest)
  BY DEF AtEntry
<1> HIDE DEF last, rest
<1>5. /\ Len(Tail(rest)) = Len(rest) - 1 /\ Tail(rest) \in Seq(Maps \cup Pages)
      /\ Len(last) - Len(rest) + 1 \in 1..Len(last)
      /\ Head(rest) = last[Len(last) - Len(rest) + 1]
      /\ Tail(rest) = SubSeq(last, Len(last) - Len(Tail(rest)) + 1, Len(last))
  BY <1>1, <1>2, <1>3, RestIs
<1>6. Len(rest) \in Nat
  BY <1>2
<1>7. /\ i \in 0..Len(last) /\ i < Len(last) /\ i + 1 \in 0..Len(last)
      /\ Len(last) - Len(Tail(rest)) = i + 1 /\ Len(Tail(rest)) <= Len(last)
      /\ Head(rest) = last[i + 1] /\ i + 1 \in 1..Len(last)
  <2> DEFINE a == Len(last)
             b == Len(rest)
             c == Len(Tail(rest))
  <2>1. a \in Nat /\ b \in Nat /\ c = b - 1 /\ i = a - b /\ a - b + 1 \in 1..a
    BY <1>1, <1>4, <1>5, <1>6
  <2>2. Head(rest) = last[i + 1]
    BY <1>4, <1>5
  <2> HIDE DEF a, b, c
  <2>3. i \in 0..a /\ i < a /\ i + 1 \in 0..a /\ a - c = i + 1 /\ c <= a /\ i + 1 \in 1..a
    BY <2>1
  <2> QED
    BY <2>2, <2>3 DEF a, b, c
<1>8. last[i + 1] \in Maps \cup Pages
  <2> DEFINE k == i + 1
  <2>1. k \in 1..Len(last)
    BY <1>7
  <2> HIDE DEF k
  <2>2. last[k] \in Maps \cup Pages
    BY <1>1, <2>1
  <2> QED
    BY <2>2 DEF k
<1> QED
  BY <1>7, <1>8 DEF last, rest

\* What is left of the sitemap behind it.
LEMMA RestAtHand ==
    ASSUME NEW m, NEW known, NEW j, NEW i, AtEntry(m, known, j, i)
    PROVE  Tail(m.locs) = SubSeq(Locs[known[j]], Len(Locs[known[j]]) - Len(Tail(m.locs)) + 1,
                                 Len(Locs[known[j]]))
<1> DEFINE last == Locs[known[j]]
           rest == m.locs
<1>1. /\ known \in Seq(Maps) /\ j \in 1..Len(known) /\ m \in Memory
      /\ Walked(m, known, j) /\ m.locs # <<>>
  BY DEF AtEntry
<1>2. last \in Seq(Maps \cup Pages)
  BY <1>1, LocsAre
<1>3. rest \in Seq(Maps \cup Pages) /\ rest # <<>>
  BY <1>1 DEF Memory
<1>4. Len(rest) <= Len(last) /\ rest = SubSeq(last, Len(last) - Len(rest) + 1, Len(last))
  BY <1>1 DEF Walked
<1> HIDE DEF last, rest
<1>5. Tail(rest) = SubSeq(last, Len(last) - Len(Tail(rest)) + 1, Len(last))
  BY <1>2, <1>3, <1>4, RestIs
<1> QED
  BY <1>5 DEF last, rest

\* The pages read when the entry is at hand.
LEMMA PagesAtHand ==
    ASSUME NEW m, NEW known, NEW j, NEW i, AtEntry(m, known, j, i)
    PROVE  m.seenPages = PagesUpTo(known, j, i)
  BY DEF AtEntry, Walked

\* The pages read when it was dealt with.
LEMMA PagesAfter ==
    ASSUME NEW m, NEW known, NEW j, NEW i, AtEntry(m, known, j, i)
    PROVE  PagesUpTo(known, j, i + 1) = m.seenPages \cup ({Head(m.locs)} \cap (Pages \ Foreign))
<1>1. known \in Seq(Maps) /\ j \in 1..Len(known)
  BY DEF AtEntry
<1>2. i \in 0..Len(Locs[known[j]]) /\ i + 1 \in 0..Len(Locs[known[j]])
  BY EntryAtHand
<1>3. Head(m.locs) = Locs[known[j]][i + 1]
  BY EntryAtHand
<1>4. i < Len(Locs[known[j]]) /\ i \in Nat
  <2> DEFINE n == Len(Locs[known[j]])
  <2>1. n \in Nat
    BY <1>1, LocsAre
  <2> HIDE DEF n
  <2>2. i \in 0..n /\ i + 1 \in 0..n
    BY <1>2 DEF n
  <2>3. i < n /\ i \in Nat
    BY <2>1, <2>2
  <2> QED
    BY <2>3 DEF n
<1>5. PagesUpTo(known, j, i + 1) =
          PagesUpTo(known, j, i) \cup ({Locs[known[j]][i + 1]} \cap (Pages \ Foreign))
  BY <1>1, <1>2, <1>4, PagesStep
<1>6. m.seenPages = PagesUpTo(known, j, i)
  BY PagesAtHand
<1> QED
  BY <1>3, <1>5, <1>6

\* What stays true of the queue when the entry at hand is dealt with.
LEMMA EntryPassed ==
    ASSUME NEW known \in Seq(Maps), NEW j \in 1..Len(known), NEW m \in Memory,
           Walked(m, known, j), m.locs # <<>>, Head(m.locs) \notin Maps \ (Foreign \cup m.seenMaps)
    PROVE  Pending(m.maps \o Tail(m.locs), known, j)
<1> DEFINE set == Maps \ (Foreign \cup FirstKnown(known, j))
<1>1. m.maps \in Seq(Maps \cup Pages) /\ m.locs \in Seq(Maps \cup Pages)
  BY DEF Memory
<1>2. Once(m.maps \o m.locs, set) = SubSeq(known, j + 1, Len(known)) /\ Head(m.locs) \notin set
  BY DEF Walked, Pending
<1> HIDE DEF set
<1>3. Once(m.maps \o m.locs, set) = Once(m.maps \o Tail(m.locs), set)
  BY <1>1, <1>2, OnceWithout
<1> QED
  BY <1>2, <1>3 DEF Pending, set

\* An entry behind the queue moves to its end.
LEMMA EntryQueued ==
    ASSUME NEW T, NEW maps \in Seq(T), NEW locs \in Seq(T), locs # <<>>
    PROVE  Append(maps, Head(locs)) \o Tail(locs) = maps \o locs
<1> DEFINE left == Append(maps, Head(locs)) \o Tail(locs)
           right == maps \o locs
           n == Len(maps)
           l == Len(locs)
<1>1. /\ n \in Nat /\ l \in Nat /\ l >= 1 /\ Head(locs) = locs[1] /\ Head(locs) \in T
      /\ Tail(locs) \in Seq(T) /\ Len(Tail(locs)) = l - 1
      /\ \A i \in 1..(l - 1) : Tail(locs)[i] = locs[i + 1]
  OBVIOUS
<1>2. /\ Append(maps, Head(locs)) \in Seq(T) /\ Len(Append(maps, Head(locs))) = n + 1
      /\ \A i \in 1..(n + 1) : Append(maps, Head(locs))[i] = IF i = n + 1 THEN locs[1] ELSE maps[i]
  BY <1>1
<1> DEFINE queue == Append(maps, Head(locs))
           tail == Tail(locs)
<1> HIDE DEF queue, tail
<1>3. /\ queue \o tail \in Seq(T) /\ Len(queue \o tail) = n + l
      /\ \A i \in 1..(n + l) : (queue \o tail)[i] = IF i <= n + 1 THEN queue[i] ELSE tail[i - (n + 1)]
  <2>1. queue \in Seq(T) /\ tail \in Seq(T) /\ Len(queue) = n + 1 /\ Len(tail) = l - 1
    BY <1>1, <1>2 DEF queue, tail
  <2>2. (n + 1) + (l - 1) = n + l
    BY <1>1
  <2> HIDE DEF n, l
  <2>3. /\ queue \o tail \in Seq(T) /\ Len(queue \o tail) = Len(queue) + Len(tail)
        /\ \A i \in 1..(Len(queue) + Len(tail)) :
               (queue \o tail)[i] = IF i <= Len(queue) THEN queue[i] ELSE tail[i - Len(queue)]
    BY <2>1, ConcatProperties
  <2> QED
    BY <2>1, <2>2, <2>3
<1>4. /\ right \in Seq(T) /\ Len(right) = n + l
      /\ \A i \in 1..(n + l) : right[i] = IF i <= n THEN maps[i] ELSE locs[i - n]
  BY ConcatProperties
<1> HIDE DEF right, n, l
<1>5. ASSUME NEW i \in 1..(n + l) PROVE (queue \o tail)[i] = right[i]
  <2>1. CASE i <= n
    <3>1. i <= n + 1 /\ i \in 1..(n + 1) /\ i # n + 1
      BY <1>1, <2>1
    <3> QED
      BY <1>2, <1>3, <1>4, <2>1, <3>1 DEF queue
  <2>2. CASE i = n + 1
    <3>1. i <= n + 1 /\ ~(i <= n) /\ i \in 1..(n + 1) /\ i - n = 1
      BY <1>1, <2>2
    <3> QED
      BY <1>2, <1>3, <1>4, <2>2, <3>1 DEF queue
  <2>3. CASE i > n + 1
    <3>1. ~(i <= n + 1) /\ ~(i <= n) /\ i - (n + 1) \in 1..(l - 1) /\ i - (n + 1) + 1 = i - n
      BY <1>1, <2>3
    <3> QED
      BY <1>1, <1>3, <1>4, <3>1 DEF tail
  <2>4. i <= n \/ i = n + 1 \/ i > n + 1
    BY <1>1
  <2> QED
    BY <2>1, <2>2, <2>3, <2>4
<1>6. queue \o tail = right
  BY <1>3, <1>4, <1>5, SeqEqual
<1> QED
  BY <1>6 DEF queue, tail, right

\* The entry at hand was dealt with.
LEMMA EntryDone ==
    ASSUME NEW known \in Seq(Maps), NEW j \in 1..Len(known), NEW m \in Memory,
           Walked(m, known, j), m.locs # <<>>, NEW n, n.at = "pages", n.locs = Tail(m.locs),
           n.seenMaps = m.seenMaps, \A i \in DOMAIN n.maps : n.maps[i] \notin Foreign,
           Pending(n.maps \o n.locs, known, j),
           n.seenPages = m.seenPages \cup ({Head(m.locs)} \cap (Pages \ Foreign))
    PROVE  Walked(n, known, j)
<1>1. PICK i : AtEntry(m, known, j, i)
  BY DEF AtEntry
<1> DEFINE last == Locs[known[j]]
<1>2. /\ Len(last) - Len(n.locs) = i + 1 /\ Len(n.locs) <= Len(last)
      /\ n.locs = SubSeq(last, Len(last) - Len(n.locs) + 1, Len(last))
      /\ PagesUpTo(known, j, i + 1) = n.seenPages
  <2> DEFINE tail == Tail(m.locs)
             add == {Head(m.locs)} \cap (Pages \ Foreign)
  <2>1. Len(last) - Len(tail) = i + 1
    BY <1>1, EntryAtHand
  <2>2. Len(tail) <= Len(last)
    BY <1>1, EntryAtHand, Zenon
  <2>3. tail = SubSeq(last, Len(last) - Len(tail) + 1, Len(last))
    BY <1>1, RestAtHand
  <2>4. PagesUpTo(known, j, i + 1) = m.seenPages \cup add
    BY <1>1, PagesAfter
  <2>5. n.locs = tail /\ n.seenPages = m.seenPages \cup add
    OBVIOUS
  <2> HIDE DEF tail, add, last
  <2> QED
    BY <2>1, <2>2, <2>3, <2>4, <2>5
<1> HIDE DEF last
<1>3. n.seenPages = PagesUpTo(known, j, Len(last) - Len(n.locs))
  BY <1>2
<1>4. j <= Len(known) /\ m.seenMaps = FirstKnown(known, j)
  BY DEF Walked
<1> QED
  BY <1>2, <1>3, <1>4 DEF Walked, last

\* An entry that is passed over: another site's, or one that was read before.
LEMMA EntrySkipped ==
    ASSUME NEW known \in Seq(Maps), NEW j \in 1..Len(known), NEW m \in Memory,
           Walked(m, known, j), m.locs # <<>>, NEW n, n.at = "pages", n.locs = Tail(m.locs),
           n.seenMaps = m.seenMaps, n.maps = m.maps, n.seenPages = m.seenPages,
           Head(m.locs) \in Foreign \cup m.seenMaps \cup m.seenPages
    PROVE  Walked(n, known, j)
<1>1. m.seenMaps \in SUBSET Maps /\ m.seenPages \in SUBSET Pages /\ Maps \cap Pages = {}
  BY WebAssumption DEF Memory
<1>2. Head(m.locs) \notin Maps \ (Foreign \cup m.seenMaps)
  BY <1>1
<1>3. n.seenPages = m.seenPages \cup ({Head(m.locs)} \cap (Pages \ Foreign))
  BY <1>1
<1>4. Pending(n.maps \o n.locs, known, j)
  BY <1>2, EntryPassed
<1>5. \A i \in DOMAIN n.maps : n.maps[i] \notin Foreign
  BY DEF Walked
<1> QED
  BY <1>3, <1>4, <1>5, EntryDone

\* A page.
LEMMA PageVisited ==
    ASSUME NEW known \in Seq(Maps), NEW j \in 1..Len(known), NEW m \in Memory,
           Walked(m, known, j), m.locs # <<>>, NEW n, n.at = "pages", n.locs = Tail(m.locs),
           n.seenMaps = m.seenMaps, n.maps = m.maps,
           n.seenPages = m.seenPages \cup {Head(m.locs)},
           Head(m.locs) \in Pages \ Foreign
    PROVE  Walked(n, known, j)
<1>1. Maps \cap Pages = {}
  BY WebAssumption
<1>2. Head(m.locs) \notin Maps \ (Foreign \cup m.seenMaps)
  BY <1>1
<1>3. n.seenPages = m.seenPages \cup ({Head(m.locs)} \cap (Pages \ Foreign))
  OBVIOUS
<1>4. Pending(n.maps \o n.locs, known, j)
  BY <1>2, EntryPassed
<1>5. \A i \in DOMAIN n.maps : n.maps[i] \notin Foreign
  BY DEF Walked
<1> QED
  BY <1>3, <1>4, <1>5, EntryDone

\* A sitemap, to be read after those in the queue.
LEMMA MapQueued ==
    ASSUME NEW known \in Seq(Maps), NEW j \in 1..Len(known), NEW m \in Memory,
           Walked(m, known, j), m.locs # <<>>, NEW n, n.at = "pages", n.locs = Tail(m.locs),
           n.seenMaps = m.seenMaps, n.maps = Append(m.maps, Head(m.locs)),
           n.seenPages = m.seenPages, Head(m.locs) \in Maps \ Foreign
    PROVE  Walked(n, known, j)
<1>1. Maps \cap Pages = {}
  BY WebAssumption
<1>2. m.maps \in Seq(Maps) /\ m.maps \in Seq(Maps \cup Pages) /\ m.locs \in Seq(Maps \cup Pages)
  BY DEF Memory
<1>3. n.seenPages = m.seenPages \cup ({Head(m.locs)} \cap (Pages \ Foreign))
  BY <1>1
<1>4. n.maps \o n.locs = m.maps \o m.locs
  BY <1>2, EntryQueued
<1>5. Pending(n.maps \o n.locs, known, j)
  BY <1>4 DEF Walked
<1>6. \A i \in DOMAIN n.maps : n.maps[i] \notin Foreign
  <2>1. \A i \in DOMAIN m.maps : m.maps[i] \notin Foreign
    BY DEF Walked
  <2> QED
    BY <1>2, <2>1
<1> QED
  BY <1>3, <1>5, <1>6, EntryDone

\* A page that is read, one budget and no more than one page at a time.
LEMMA PageRead ==
    ASSUME NEW e, e.map \in Maps, e.pages \in Int, NEW m \in Memory, Walking(e, m),
           m.at = "pages", m.locs # <<>>, Head(m.locs) \in Pages \ (Foreign \cup m.seenPages),
           0 <= m.budget - 1, NEW n, n.at = "pages", n.locs = Tail(m.locs),
           n.seenMaps = m.seenMaps, n.maps = m.maps,
           n.seenPages = m.seenPages \cup {Head(m.locs)}, n.budget = m.budget - 1,
           n.found = m.found \cup PageRepos[Head(m.locs)]
    PROVE  Walking(e, n)
<1> DEFINE loc == Head(m.locs)
<1>1. /\ m.budget \in Int /\ m.seenPages \in SUBSET Pages
  BY DEF Memory
<1>2. /\ e.kind = "web_directory" /\ e.pages > 0 /\ UnderWay(e, m)
      /\ Cardinality(m.seenPages) = e.pages - m.budget
      /\ m.found = Range(e.listed) \cup UNION {PageRepos[p] : p \in m.seenPages}
  BY DEF Walking, AtRoot
<1>3. PICK j : j = Cardinality(m.seenMaps)
  OBVIOUS
<1> DEFINE known == Named[j][e.map]
<1>4. /\ known \in Seq(Maps) /\ j \in 1..Len(known) /\ Walked(m, known, j)
  BY <1>2, <1>3, UnderWayIs
<1>5. IsFiniteSet(m.seenPages)
  <2> HIDE DEF known
  <2>1. PICK i : AtEntry(m, known, j, i)
    BY <1>4 DEF AtEntry
  <2>2. i \in 0..Len(Locs[known[j]]) /\ m.seenPages = PagesUpTo(known, j, i)
    <3>1. i \in 0..Len(Locs[known[j]])
      BY <2>1, EntryAtHand
    <3>2. m.seenPages = PagesUpTo(known, j, i)
      BY <2>1, PagesAtHand
    <3> QED
      BY <3>1, <3>2
  <2> QED
    BY <1>4, <2>2, PagesFinite
<1>6. UnderWay(e, n)
  <2> HIDE DEF known
  <2>1. Walked(n, known, j)
    BY <1>4, PageVisited
  <2> QED
    BY <1>2, <1>3, <2>1 DEF UnderWay, known
<1>7. Cardinality(n.seenPages) = e.pages - n.budget /\ n.budget >= 0
  <2>1. Cardinality(n.seenPages) = Cardinality(m.seenPages) + 1
    BY <1>5, FS_AddElement
  <2>2. n.budget = m.budget - 1 /\ n.budget >= 0
    BY <1>1
  <2> QED
    BY <1>1, <1>2, <2>1, <2>2
<1>8. n.found = Range(e.listed) \cup UNION {PageRepos[p] : p \in n.seenPages}
  <2>1. UNION {PageRepos[p] : p \in n.seenPages} =
            (UNION {PageRepos[p] : p \in m.seenPages}) \cup PageRepos[loc]
    OBVIOUS
  <2> QED
    BY <1>2, <2>1
<1> QED
  BY <1>2, <1>6, <1>7, <1>8 DEF Walking

\* The page the budget does not allow ends the walk.
LEMMA BudgetEnds ==
    ASSUME NEW e, e.map \in Maps, e.pages \in Int, NEW m \in Memory, Walking(e, m),
           m.at = "pages", m.locs # <<>>, m.budget - 1 < 0,
           NEW n, n.locs = <<>>, n.budget = m.budget - 1, n.found = m.found
    PROVE  Walking(e, n)
<1>1. /\ m.budget \in Int
  BY DEF Memory
<1>2. /\ e.kind = "web_directory" /\ e.pages > 0 /\ UnderWay(e, m) /\ m.budget >= 0
      /\ Cardinality(m.seenPages) = e.pages - m.budget
      /\ m.found = Range(e.listed) \cup UNION {PageRepos[p] : p \in m.seenPages}
  BY DEF Walking, AtRoot
<1>3. m.budget = 0 /\ n.budget < 0
  <2>1. n.budget = m.budget - 1 /\ m.budget - 1 < 0
    OBVIOUS
  <2> QED
    BY <1>1, <1>2, <2>1
<1>4. PICK j : j = Cardinality(m.seenMaps)
  OBVIOUS
<1> DEFINE known == Named[j][e.map]
<1>5. /\ known \in Seq(Maps) /\ j \in 1..Len(known) /\ Walked(m, known, j)
      /\ j \in Nat /\ 0 < j /\ j <= Cardinality(Maps)
  BY <1>2, <1>4, UnderWayIs
<1>6. FirstPages(Sitemaps[e.map], e.pages) = m.seenPages
  <2> HIDE DEF known
  <2>1. PICK i : AtEntry(m, known, j, i)
    BY <1>5 DEF AtEntry
  <2>2. i \in 0..Len(Locs[known[j]]) /\ m.seenPages = PagesUpTo(known, j, i)
    <3>1. i \in 0..Len(Locs[known[j]])
      BY <2>1, EntryAtHand
    <3>2. m.seenPages = PagesUpTo(known, j, i)
      BY <2>1, PagesAtHand
    <3> QED
      BY <3>1, <3>2
  <2>3. Cardinality(PagesUpTo(known, j, i)) = e.pages
    BY <1>2, <1>3, <2>2
  <2>4. j <= Len(known)
    BY <1>5
  <2>5. FirstPages(Sitemaps[e.map], e.pages) = PagesUpTo(known, j, i)
    <3>1. /\ j <= Len(Named[j][e.map]) /\ i \in 0..Len(Locs[Named[j][e.map][j]])
          /\ Cardinality(PagesUpTo(Named[j][e.map], j, i)) = e.pages
      BY <2>2, <2>3, <2>4 DEF known
    <3>2. /\ Cardinality(PagesUpTo(Named[j][e.map], j, i)) <= e.pages
          /\ ~(Cardinality(PagesUpTo(Named[j][e.map], j, i)) < e.pages)
      BY <3>1
    <3>3. FirstPages(Sitemaps[e.map], e.pages) = PagesUpTo(Named[j][e.map], j, i)
      BY <1>5, <3>1, <3>2, EnoughRead
    <3> QED
      BY <3>3 DEF known
  <2> QED
    BY <2>2, <2>5
<1>7. m.found = Range(e.listed) \cup SitemapPages(e)
  BY <1>2, <1>6 DEF SitemapPages
<1> QED
  BY <1>2, <1>3, <1>7 DEF Walking

\* An entry that is no page to read changes neither the budget nor what was found.
LEMMA EntryLeft ==
    ASSUME NEW e, e.map \in Maps, NEW m \in Memory, Walking(e, m), m.at = "pages", m.locs # <<>>,
           NEW n, n.at = "pages", n.locs = Tail(m.locs), n.seenMaps = m.seenMaps,
           n.seenPages = m.seenPages, n.budget = m.budget, n.found = m.found,
           \/ n.maps = m.maps /\ Head(m.locs) \in Foreign \cup m.seenMaps \cup m.seenPages
           \/ n.maps = Append(m.maps, Head(m.locs)) /\ Head(m.locs) \in Maps \ Foreign
    PROVE  Walking(e, n)
<1>1. /\ e.kind = "web_directory" /\ e.pages > 0 /\ UnderWay(e, m) /\ m.budget >= 0
      /\ Cardinality(m.seenPages) = e.pages - m.budget
      /\ m.found = Range(e.listed) \cup UNION {PageRepos[p] : p \in m.seenPages}
  BY DEF Walking, AtRoot
<1>2. PICK j : j = Cardinality(m.seenMaps)
  OBVIOUS
<1> DEFINE known == Named[j][e.map]
<1>3. known \in Seq(Maps) /\ j \in 1..Len(known) /\ Walked(m, known, j)
  BY <1>1, <1>2, UnderWayIs
<1>4. UnderWay(e, n)
  <2> HIDE DEF known
  <2>1. Walked(n, known, j)
    <3>1. CASE n.maps = m.maps /\ Head(m.locs) \in Foreign \cup m.seenMaps \cup m.seenPages
      BY <1>3, <3>1, EntrySkipped
    <3>2. CASE n.maps = Append(m.maps, Head(m.locs)) /\ Head(m.locs) \in Maps \ Foreign
      BY <1>3, <3>2, MapQueued
    <3> QED
      BY <3>1, <3>2
  <2> QED
    BY <1>1, <1>2, <2>1 DEF UnderWay, known
<1> QED
  BY <1>1, <1>4 DEF Walking

\* VisitLoc passes an entry, queues a sitemap, reads a page, or stops at the budget.
LEMMA VisitIsSound ==
    ASSUME CrawlInv, CleanInv, NEW r \in Runs, VisitLoc(r)
    PROVE  CleanInv'
<1> DEFINE old == run[r]
           e == EntryOf(r)
           loc == Head(old.locs)
           m == [old EXCEPT !.locs = Tail(@)]
           v == [m EXCEPT !.seenPages = @ \cup {loc}, !.budget = @ - 1]
           queued == [m EXCEPT !.maps = Append(@, loc)]
           ended == [v EXCEPT !.locs = <<>>]
           read == [v EXCEPT !.found = @ \cup PageRepos[loc]]
           failed == [v EXCEPT !.missed = TRUE]
           Skipped == loc \in Foreign \cup old.seenMaps \cup old.seenPages
           IsMap   == loc \in Maps \ (Foreign \cup old.seenMaps)
           IsPage  == loc \in Pages \ (Foreign \cup old.seenPages)
<1>1. /\ old.at = "pages" /\ old.locs # <<>>
      /\ \/ Skipped /\ run' = [run EXCEPT ![r] = m]
         \/ IsMap /\ run' = [run EXCEPT ![r] = queued]
         \/ IsPage /\ v.budget < 0 /\ run' = [run EXCEPT ![r] = ended]
         \/ IsPage /\ ~(v.budget < 0) /\ run' = [run EXCEPT ![r] = read]
         \/ run' = [run EXCEPT ![r] = failed]
  BY DEF VisitLoc, Goes, Exhausted
<1>2. /\ old \in Memory /\ e.pages \in Int
      /\ ~old.missed => Walking(e, old) /\ e.kind = "web_directory" /\ e.map \in Maps
  BY <1>1, WalkIs
<1>3. /\ m.at = "pages" /\ m.maps = old.maps /\ m.seenMaps = old.seenMaps
      /\ m.locs = Tail(old.locs) /\ m.seenPages = old.seenPages /\ m.budget = old.budget
      /\ m.found = old.found /\ m.missed = old.missed /\ Alike(old, m)
  BY <1>1, <1>2 DEF Memory, Alike
<1>4. /\ queued.at = "pages" /\ queued.maps = Append(old.maps, loc)
      /\ queued.seenMaps = old.seenMaps
      /\ queued.locs = Tail(old.locs) /\ queued.seenPages = old.seenPages
      /\ queued.budget = old.budget
      /\ queued.found = old.found /\ queued.missed = old.missed /\ Alike(old, queued)
  BY <1>1, <1>2 DEF Memory, Alike
<1>5. /\ v.budget = old.budget - 1 /\ old.budget \in Int
      /\ ended.at = "pages" /\ ended.locs = <<>> /\ ended.budget = old.budget - 1
      /\ ended.found = old.found /\ ended.missed = old.missed /\ Alike(old, ended)
      /\ failed.at = "pages" /\ failed.missed /\ Alike(old, failed)
  BY <1>1, <1>2 DEF Memory, Alike
<1>6. /\ read.at = "pages" /\ read.maps = old.maps /\ read.seenMaps = old.seenMaps
      /\ read.locs = Tail(old.locs) /\ read.seenPages = old.seenPages \cup {loc}
      /\ read.budget = old.budget - 1 /\ read.found = old.found \cup PageRepos[loc]
      /\ read.missed = old.missed /\ Alike(old, read)
  BY <1>1, <1>2 DEF Memory, Alike
<1> HIDE DEF m, v, queued, ended, read, failed
<1>7. CASE Skipped /\ run' = [run EXCEPT ![r] = m]
  <2>1. ASSUME Walking(e, old), e.map \in Maps PROVE Walking(e, m)
    BY <1>1, <1>2, <1>3, <1>7, <2>1, EntryLeft
  <2> QED
    BY <1>1, <1>2, <1>3, <1>7, <2>1, WalkGoesOn
<1>8. CASE IsMap /\ run' = [run EXCEPT ![r] = queued]
  <2>1. ASSUME Walking(e, old), e.map \in Maps PROVE Walking(e, queued)
    BY <1>1, <1>2, <1>4, <1>8, <2>1, EntryLeft
  <2> QED
    BY <1>1, <1>2, <1>4, <1>8, <2>1, WalkGoesOn
<1>9. CASE v.budget < 0 /\ run' = [run EXCEPT ![r] = ended]
  <2>1. old.budget - 1 < 0
    BY <1>5, <1>9
  <2>2. ASSUME Walking(e, old), e.map \in Maps PROVE Walking(e, ended)
    BY <1>1, <1>2, <1>5, <2>1, <2>2, BudgetEnds
  <2> QED
    BY <1>1, <1>2, <1>5, <1>9, <2>2, WalkGoesOn
<1>10. CASE IsPage /\ ~(v.budget < 0) /\ run' = [run EXCEPT ![r] = read]
  <2>1. 0 <= old.budget - 1
    BY <1>5, <1>10
  <2>2. ASSUME Walking(e, old), e.map \in Maps PROVE Walking(e, read)
    BY <1>1, <1>2, <1>6, <1>10, <2>1, <2>2, PageRead
  <2> QED
    BY <1>1, <1>2, <1>6, <1>10, <2>2, WalkGoesOn
<1>11. CASE run' = [run EXCEPT ![r] = failed]
  BY <1>1, <1>5, <1>11, WalkGoesOn
<1> QED
  BY <1>1, <1>7, <1>8, <1>9, <1>10, <1>11

(***************************************************************************)
(* Every run is sound                                                      *)
(***************************************************************************)

\* Runs that did not start are sound.
LEMMA CleanInit == Init => CleanInv
BY IdleIsSound DEF Init, CleanInv

\* Every step keeps every run sound.
LEMMA CleanStep == CrawlInv /\ CleanInv /\ [Next]_vars => CleanInv'
<1> SUFFICES ASSUME CrawlInv, CleanInv, [Next]_vars PROVE CleanInv'
  OBVIOUS
<1>1. CASE UNCHANGED vars
  <2>1. run' = run
    BY <1>1 DEF vars
  <2> QED
    BY <2>1 DEF CleanInv
<1>2. ASSUME NEW r \in Runs, Start(r) \/ Step(r) \/ Die(r) PROVE CleanInv'
  <2>1. CASE Start(r) \/ RowTwice(r) \/ Die(r)
    BY <2>1, StartIsSound
  <2>2. CASE SourceFails(r) \/ OpenList(r) \/ OpenRepo(r)
    BY <2>2, FailIsSound, ListIsSound, RepoIsSound
  <2>3. CASE OpenDirectory(r) \/ OpenSearch(r) \/ OpenPage(r)
    BY <2>3, DirectoryIsSound, SearchIsSound, PageIsSound
  <2>4. CASE ReadSitemap(r) \/ VisitLoc(r) \/ CloseSitemap(r) \/ CloseDirectory(r)
    BY <2>4, ReadIsSound, VisitIsSound, CloseSitemapIsSound, CloseDirectoryIsSound
  <2>5. CASE SkipRepo(r) \/ ScanRepo(r) \/ CloseSource(r)
    BY <2>5, SkipIsSound, ScanIsSound, CloseIsSound
  <2>6. CASE \/ LookUpSource(r) \/ InsertSource(r)
             \/ RowFound(r) \/ RowMissing(r) \/ SaveItem(r)
    BY <2>6, StoringIsSound
  <2> QED
    BY <1>2, <2>1, <2>2, <2>3, <2>4, <2>5, <2>6 DEF Step
<1> QED
  BY <1>1, <1>2 DEF Next

\* A sound run that starts to store has what it should.
LEMMA CleanIsComplete == CleanInv => CleanCrawlIsComplete
<1> SUFFICES ASSUME CleanInv, NEW r \in Runs, run[r].at = "look"
             PROVE  /\ \A i, j \in DOMAIN run[r].results :
                           LET x == run[r].results[i]
                               y == run[r].results[j]
                           IN  i # j /\ x.file = y.file =>
                                   x.file \in Links[x.source] \/ y.file \in Links[y.source]
                    /\ ~run[r].missed => Range(run[r].results) = Expected[r]
  BY DEF CleanCrawlIsComplete
<1>1. Gathered(run[r]) /\ (~run[r].missed => Clean(r, run[r]))
  BY DEF CleanInv, Sound
<1>2. ~run[r].missed => Range(run[r].results) = Expected[r]
  BY <1>1 DEF Clean, Storing
<1> QED
  BY <1>1, <1>2 DEF Gathered

(***************************************************************************)
(* Results                                                                 *)
(***************************************************************************)
LEMMA CrawlInit == Init => CrawlInv
<1> SUFFICES ASSUME Init PROVE CrawlInv
  OBVIOUS
<1>1. homes = <<>> /\ raw = [d \in Documents |-> 0] /\ run = [r \in Runs |-> Idle] /\ failures = 0 /\ requests = 0
  BY DEF Init
<1>2. \A r \in Runs : Idle \in Memory /\ InPlan(r, Idle) /\ OnHomes(r, Idle)
  BY IdleIs DEF Idle, OnHomes
<1>3. Stored
  BY <1>1 DEF Stored, OneHomeEach, Housed
<1> QED
  BY <1>1, <1>2, <1>3, BoundsAssumption DEF CrawlInv

LEMMA CrawlStep == CrawlInv /\ [Next]_vars => CrawlInv'
<1> SUFFICES ASSUME CrawlInv, [Next]_vars PROVE CrawlInv'
  OBVIOUS
<1>1. CASE UNCHANGED vars
  <2>1. /\ homes' = homes /\ raw' = raw /\ run' = run
        /\ failures' = failures /\ requests' = requests
    BY <1>1 DEF vars
  <2> QED
    BY <2>1 DEF CrawlInv, InPlan, OnHomes, Stored, OneHomeEach, Housed
<1>2. ASSUME NEW r \in Runs, Step(r) PROVE CrawlInv'
  <2>1. CASE \/ SourceFails(r) \/ OpenList(r) \/ OpenRepo(r) \/ OpenDirectory(r)
             \/ OpenSearch(r) \/ OpenPage(r)
    BY <2>1, OpeningKeeps
  <2>2. CASE ReadSitemap(r) \/ VisitLoc(r) \/ CloseSitemap(r) \/ CloseDirectory(r)
    BY <2>2, SitemapsKeep
  <2>3. CASE SkipRepo(r) \/ ScanRepo(r) \/ CloseSource(r)
    BY <2>3, ScanningKeeps
  <2>4. CASE LookUpSource(r)
    BY <2>4, LookUpKeeps
  <2>5. CASE InsertSource(r)
    BY <2>5, InsertKeeps
  <2>6. CASE RowFound(r) \/ SaveItem(r)
    BY <2>6, SaveKeeps
  <2>7. CASE RowMissing(r) \/ RowTwice(r)
    BY <2>7, MissingKeeps, EndsKeeps
  <2> QED
    BY <1>2, <2>1, <2>2, <2>3, <2>4, <2>5, <2>6, <2>7 DEF Step
<1> QED
  BY <1>1, <1>2, StartKeeps, EndsKeeps DEF Next

LEMMA InvariantGivesTypes == CrawlInv => TypeOK
<1> SUFFICES ASSUME CrawlInv PROVE TypeOK
  OBVIOUS
<1> DEFINE urls == [i \in DOMAIN homes |-> homes[i].url]
<1>1. homes \in Seq(Home) /\ Stored
  BY DEF CrawlInv, Stored
<1>2. IsInjective(urls)
  BY <1>1 DEF IsInjective, Stored
<1>3. /\ raw \in [Documents -> Nat]
      /\ \A d \in Documents : raw[d] > 0 => d.home \in {homes[i].url : i \in DOMAIN homes}
  BY <1>1 DEF Stored, Housed
<1>4. ASSUME NEW r \in Runs
      PROVE  /\ run[r].at \in Phases /\ run[r].pos \in 1..(Len(Plan[r]) + 1)
             /\ run[r].scanned \subseteq Repos /\ run[r].count <= Cardinality(Repos)
             /\ run[r].at \in {"save", "add"} => run[r].home \in {homes[i].url : i \in DOMAIN homes}
  <2>1. run[r] \in Memory /\ InPlan(r, run[r]) /\ OnHomes(r, run[r])
    BY DEF CrawlInv
  <2>2. /\ run[r].at \in Phases /\ run[r].scanned \in SUBSET Repos /\ run[r].count \in Nat
    BY <2>1 DEF Memory
  <2>3. run[r].pos \in 1..(Len(Plan[r]) + 1) /\ run[r].count <= Cardinality(run[r].scanned)
    BY <2>1 DEF InPlan
  <2>4. /\ Cardinality(run[r].scanned) \in Nat /\ Cardinality(Repos) \in Nat
        /\ Cardinality(run[r].scanned) <= Cardinality(Repos)
    BY <2>2, ReposFinite
  <2>5. run[r].at \in {"save", "add"} => run[r].home \in {homes[i].url : i \in DOMAIN homes}
    BY <2>1 DEF OnHomes
  <2> HIDE DEF urls
  <2>6. run[r].count <= Cardinality(Repos)
    BY <2>2, <2>3, <2>4
  <2> QED
    BY <2>2, <2>3, <2>5, <2>6
<1>5. failures \in 0..MaxFailures /\ requests \in 0..MaxRequests
  BY DEF CrawlInv
<1> QED
  BY <1>1, <1>2, <1>3, <1>4, <1>5 DEF TypeOK

\* A crawl's state keeps its shape for every list of sources, every web and any
\* number of concurrent runs: in particular urls stay unique, every raw row refers
\* to a home that exists, no run counts more repositories than it scanned, and a
\* run about to store a row holds a home no other run's rollback has taken away.
THEOREM TypesHold == Spec => []TypeOK
<1>1. Spec => []CrawlInv
  BY CrawlInit, CrawlStep, PTL DEF Spec
<1> QED
  BY <1>1, InvariantGivesTypes, PTL

\* _ensure_source never gives one actor two homes of the same name, whatever the
\* runs that race, fail on the unique url or die in between.
THEOREM OneHomePerActor == Spec => []OneHomeEach
<1>1. Spec => []CrawlInv
  BY CrawlInit, CrawlStep, PTL DEF Spec
<1>2. CrawlInv => OneHomeEach
  BY DEF CrawlInv, Stored
<1> QED
  BY <1>1, <1>2, PTL

\* However many sources reach a repository, its documents come home once, under the
\* first of them; and a run that missed nothing starts to store exactly what its
\* sources promise together: the scanned_repos set and the max_repos limits of
\* run_ingest_sources, and the sitemap walk of discover_repos_from_web_directory
\* with its page budget, for every list of sources and every web.
THEOREM CrawlsAreComplete == Spec => []CleanCrawlIsComplete
<1>1. Spec => []CrawlInv
  BY CrawlInit, CrawlStep, PTL DEF Spec
<1>2. Spec => []CleanInv
  BY <1>1, CleanInit, CleanStep, PTL DEF Spec
<1> QED
  BY <1>2, CleanIsComplete, PTL

\* A source never has more homes than there are runs that could race to create one:
\* what the look-up by name in _ensure_source guarantees without a unique name.
HomesNamed(s) == {i \in DOMAIN homes : homes[i].name = s}
HomesBounded  == \A s \in Sources : Cardinality(HomesNamed(s)) <= Cardinality(Runs)

THEOREM HomesAreBounded ==
    ASSUME IsFiniteSet(Runs)
    PROVE  Spec => []HomesBounded
<1>1. ASSUME CrawlInv PROVE HomesBounded
  <2> SUFFICES ASSUME NEW s \in Sources
               PROVE  Cardinality(HomesNamed(s)) <= Cardinality(Runs)
    BY DEF HomesBounded
  <2> DEFINE author == [i \in HomesNamed(s) |-> homes[i].by]
  <2>1. homes \in Seq(Home) /\ OneHomeEach
    BY <1>1 DEF CrawlInv, Stored
  <2>2. author \in [HomesNamed(s) -> Runs]
    <3>1. \A i \in DOMAIN homes : homes[i] \in Home
      BY <2>1
    <3> QED
      BY <3>1 DEF HomesNamed, Home
  <2>3. \A i, j \in HomesNamed(s) : author[i] = author[j] => i = j
    BY <2>1 DEF HomesNamed, OneHomeEach
  <2> HIDE DEF author
  <2>4. author \in Injection(HomesNamed(s), Runs)
    BY <2>2, <2>3, Fun_IsInj
  <2> QED
    BY <2>4, FS_Injection
<1> QED
  BY <1>1, CrawlInit, CrawlStep, PTL DEF Spec
=============================================================================
