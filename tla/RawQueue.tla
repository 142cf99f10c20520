------------------------------ MODULE RawQueue ------------------------------
(***************************************************************************)
(* The raw_skills table as a work queue: crawlers upsert the documents     *)
(* they fetched, parsers take batches of pending rows, an administrator    *)
(* re-queues processed ones.                                               *)
(*                                                                         *)
(* Workers are the processes that loop in app/workers/run_all.py;          *)
(* start.sh starts one beside the API and docker-compose.yml another as    *)
(* the worker service.  Tasks are the runs POST /ingest starts in the      *)
(* background of the API.  Both execute ingest_and_parse.run; nothing      *)
(* excludes one while another is under way.  Every database transaction is *)
(* a step of its own, because other actors act between any two of them.    *)
(***************************************************************************)
EXTENDS Integers, FiniteSets, ParseDecision

CONSTANTS
    Workers,       \* processes running the worker loop
    Tasks,         \* background runs of the API process
    Files,         \* external ids of the documents of one source
    Contents,      \* the texts a document may have, each with its metadata
    None,          \* no row, no text, no verdict
    GateVerdicts,  \* the verdicts the gates may give a text stored with some metadata
    BatchLimit,    \* rows per parse batch (2000 in the code)
    MaxRows,       \* bound: rows the table may hold
    MaxEdits,      \* bound: upstream changes
    MaxFailures,   \* bound: fetch errors, database errors and crashes
    MaxRequeues,   \* bound: uses of the re-parse endpoint
    MaxToggles     \* bound: changes of the auto-ingest setting

Actors == Workers \cup Tasks
RowIds == 1..MaxRows

ASSUME ActorsAssumption == Workers \cap Tasks = {} /\ IsFiniteSet(Actors)
ASSUME NoneAssumption == None \notin Files /\ None \notin Contents /\ None \notin Verdicts
\* The first three gates read only the URL and the metadata that are stored, so
\* whenever one of them rejects a document it always does.
Unsupported == {"non_skill_md_source", "untrusted_repo", "non_canonical_layout"}

\* The metadata a row may hold: those that came with a text, or none.
Metas == Contents \cup {None}

ASSUME VerdictsAssumption ==
    /\ DOMAIN GateVerdicts = Contents \X Metas
    /\ \A p \in Contents \X Metas :
          /\ GateVerdicts[p] \subseteq Verdicts /\ GateVerdicts[p] # {}
          /\ \A v \in GateVerdicts[p] \cap Unsupported : GateVerdicts[p] = {v}
ASSUME BoundsAssumption ==
    /\ BatchLimit \in Nat \ {0}
    /\ MaxRows \in Nat /\ MaxEdits \in Nat /\ MaxFailures \in Nat
    /\ MaxRequeues \in Nat /\ MaxToggles \in Nat

VARIABLES
    remote,   \* what each document reads upstream, None when it is not published
    raw,      \* the table; row numbers follow created_at
    autoIngest, \* WorkerSettings.auto_ingest_enabled
    requeue,  \* ids the re-parse endpoint has selected and not yet updated
    pc,       \* where each actor is
    drain,    \* whether the actor's run only parses
    results,  \* documents fetched and not yet upserted
    loaded,   \* the upsert in flight: document, text, row read, its status and data
    batch,    \* the texts of the rows the actor is parsing
    seen,     \* parsed_data and parse_error of those rows as they were loaded
    before,   \* pending_before of the actor's batch
    edits, failures, requeues, toggles   \* counters of the bounds

table   == <<remote, raw>>
control == <<autoIngest, requeue>>
memory  == <<drain, results, loaded, batch, seen, before>>
bounds  == <<edits, failures, requeues, toggles>>
vars    == <<table, control, pc, memory, bounds>>

(***************************************************************************)
(* Rows.  "decided" is the text the last parse verdict was reached about,  *)
(* a history field the table does not have.  "data" is parsed_data: the    *)
(* metadata the crawl stored and the reason a verdict has added.  "error"  *)
(* is parse_error, told by the verdict that wrote it.                      *)
(***************************************************************************)
Statuses == {"pending", "processed", "error"}

Data   == [meta: Metas, reason: Verdicts \cup {None}]
Errors == Verdicts \cup {None}

\* parsed_data as a crawl stores it, and without anything of a crawl.
Crawled(c) == [meta |-> c, reason |-> None]
NoData     == Crawled(None)

NoRow == [file |-> None, content |-> None, status |-> "pending",
          decided |-> None, data |-> NoData, error |-> None]

RawSkill == [file: Files, content: Contents, status: Statuses,
             decided: Contents \cup {None}, data: Data, error: Errors]

Rows       == {r \in RowIds : raw[r] # NoRow}
RowsOf(f)  == {r \in Rows : raw[r].file = f}
Pending    == {r \in Rows : raw[r].status = "pending"}

\* Mutant of OldestPending: one row short.
OldestPendingButOne == {r \in Pending : Cardinality({q \in Pending : q < r}) < BatchLimit - 1}

\* The oldest BatchLimit pending rows.
OldestPending == {r \in Pending : Cardinality({q \in Pending : q < r}) < BatchLimit}

NoLoad  == [file |-> None, content |-> None, row |-> 0, status |-> "pending",
            data |-> NoData]
NoBatch == [r \in RowIds |-> None]
NoSeen  == [r \in RowIds |-> [data |-> NoData, error |-> None]]

\* The ORM writes a column only if its new value differs from the loaded one.
Written(column, old, new) == IF new = old THEN column ELSE new

Steps == {"idle", "upsert", "insert", "update", "select", "parse", "check"}

Init ==
    /\ remote \in [Files -> Contents \cup {None}]
    /\ raw = [r \in RowIds |-> NoRow]
    /\ autoIngest = TRUE
    /\ requeue = {}
    /\ pc = [a \in Actors |-> "idle"]
    /\ drain = [a \in Actors |-> FALSE]
    /\ results = [a \in Actors |-> {}]
    /\ loaded = [a \in Actors |-> NoLoad]
    /\ batch = [a \in Actors |-> NoBatch]
    /\ seen = [a \in Actors |-> NoSeen]
    /\ before = [a \in Actors |-> 0]
    /\ edits = 0 /\ failures = 0 /\ requeues = 0 /\ toggles = 0

(***************************************************************************)
(* The environment: upstream repositories and the administrator            *)
(***************************************************************************)

\* A repository publishes, changes or withdraws a document.
Edit(f) ==
    /\ edits < MaxEdits
    /\ \E c \in (Contents \cup {None}) \ {remote[f]} :
           remote' = [remote EXCEPT ![f] = c]
    /\ edits' = edits + 1
    /\ UNCHANGED <<raw, control, pc, memory, failures, requeues, toggles>>

\* PATCH of the worker settings.
ToggleAutoIngest ==
    /\ toggles < MaxToggles
    /\ autoIngest' = ~autoIngest
    /\ toggles' = toggles + 1
    /\ UNCHANGED <<table, requeue, pc, memory, edits, failures, requeues>>

\* POST /raw-skills/reparse: first the ids, by filter and limit ...
ReparseSelect ==
    /\ requeues < MaxRequeues
    /\ requeue = {}
    /\ \E ids \in SUBSET {r \in Rows : raw[r].status = "processed"} :
           ids # {} /\ requeue' = ids
    /\ requeues' = requeues + 1
    /\ UNCHANGED <<table, autoIngest, pc, memory, edits, failures, toggles>>

\* ... then an UPDATE of those ids, whatever their status is by now.
ReparseUpdate ==
    /\ requeue # {}
    /\ raw' = [r \in RowIds |-> IF r \in requeue
                                THEN [raw[r] EXCEPT !.status = "pending", !.error = None]
                                ELSE raw[r]]
    /\ requeue' = {}
    /\ UNCHANGED <<remote, autoIngest, pc, memory, bounds>>

(***************************************************************************)
(* Ingest: fetch every source, then one transaction per result             *)
(***************************************************************************)

Published == {<<f, remote[f]>> : f \in {g \in Files : remote[g] # None}}

\* run(): fetch.  An unreachable source or file is skipped, not reported; a
\* background run may be restricted to some sources.
StartRun(a) ==
    /\ pc[a] = "idle"
    /\ a \in Workers => autoIngest
    /\ \E fetched \in SUBSET Published :
           /\ \/ /\ fetched = Published \/ a \in Tasks
                 /\ failures' = failures
              \/ /\ fetched # Published /\ failures < MaxFailures
                 /\ failures' = failures + 1
           /\ results' = [results EXCEPT ![a] = fetched]
    /\ pc' = [pc EXCEPT ![a] = "upsert"]
    /\ drain' = [drain EXCEPT ![a] = FALSE]
    /\ UNCHANGED <<table, control, loaded, batch, seen, before, edits, requeues, toggles>>

\* upsert_raw_skill: SELECT the rows of the next result's document.  The three
\* outcomes that keep the run going: the one row holds that text already ...
LookUpSame(a) ==
    /\ pc[a] = "upsert"
    /\ \E f \in Files, c \in Contents :
          /\ <<f, c>> \in results[a]
          /\ \E r \in RowIds : RowsOf(f) = {r} /\ raw[r].content = c
          /\ results' = [results EXCEPT ![a] = @ \ {<<f, c>>}]
    /\ UNCHANGED <<table, control, pc, drain, loaded, batch, seen, before, bounds>>

\* ... it holds another text ...
LookUpChanged(a) ==
    /\ pc[a] = "upsert"
    /\ \E f \in Files, c \in Contents, r \in RowIds :
          /\ <<f, c>> \in results[a]
          /\ RowsOf(f) = {r} /\ raw[r].content # c
          /\ results' = [results EXCEPT ![a] = @ \ {<<f, c>>}]
          /\ loaded' = [loaded EXCEPT ![a] =
                 [file |-> f, content |-> c, row |-> r, status |-> raw[r].status,
                  data |-> raw[r].data]]
    /\ pc' = [pc EXCEPT ![a] = "update"]
    /\ UNCHANGED <<table, control, drain, batch, seen, before, bounds>>

\* Mutant of LookUpAbsent: what the SELECT returned is not looked at.
LookUpAbsentBlindly(a) ==
    /\ pc[a] = "upsert"
    /\ \E f \in Files, c \in Contents :
          /\ <<f, c>> \in results[a]
          /\ results' = [results EXCEPT ![a] = @ \ {<<f, c>>}]
          /\ loaded' = [loaded EXCEPT ![a] =
                 [NoLoad EXCEPT !.file = f, !.content = c]]
    /\ pc' = [pc EXCEPT ![a] = "insert"]
    /\ UNCHANGED <<table, control, drain, batch, seen, before, bounds>>

\* ... or there is no row.
LookUpAbsent(a) ==
    /\ pc[a] = "upsert"
    /\ \E f \in Files, c \in Contents :
          /\ <<f, c>> \in results[a]
          /\ RowsOf(f) = {}
          /\ results' = [results EXCEPT ![a] = @ \ {<<f, c>>}]
          /\ loaded' = [loaded EXCEPT ![a] =
                 [NoLoad EXCEPT !.file = f, !.content = c]]
    /\ pc' = [pc EXCEPT ![a] = "insert"]
    /\ UNCHANGED <<table, control, drain, batch, seen, before, bounds>>

\* The same SELECT when the document has several rows: scalar_one_or_none
\* raises MultipleResultsFound, which ends the run.
LookUpRaises(a) ==
    /\ pc[a] = "upsert"
    /\ \E f \in Files, c \in Contents :
           <<f, c>> \in results[a] /\ Cardinality(RowsOf(f)) > 1
    /\ pc' = [pc EXCEPT ![a] = "idle"]
    /\ results' = [results EXCEPT ![a] = {}]
    /\ UNCHANGED <<table, control, drain, loaded, batch, seen, before, bounds>>

\* INSERT of the row found missing; raw_skills has no unique key to stop it.
InsertRow(a) ==
    /\ pc[a] = "insert"
    /\ \E r \in RowIds :
          /\ r \notin Rows /\ \A q \in RowIds : q < r => q \in Rows
          /\ raw' = [raw EXCEPT ![r] =
                 [file |-> loaded[a].file, content |-> loaded[a].content,
                  status |-> "pending", decided |-> None,
                  data |-> Crawled(loaded[a].content), error |-> None]]
    /\ pc' = [pc EXCEPT ![a] = "upsert"]
    /\ loaded' = [loaded EXCEPT ![a] = NoLoad]
    /\ UNCHANGED <<remote, control, drain, results, batch, seen, before, bounds>>

\* Mutant of UpdateRow: the status is not reset.
UpdateRowTextOnly(a) ==
    /\ pc[a] = "update"
    /\ raw' = [raw EXCEPT ![loaded[a].row].content = loaded[a].content]
    /\ pc' = [pc EXCEPT ![a] = "upsert"]
    /\ loaded' = [loaded EXCEPT ![a] = NoLoad]
    /\ UNCHANGED <<remote, control, drain, results, batch, seen, before, bounds>>

\* Mutant of UpdateRow: the new metadata are merged into parsed_data.
UpdateRowMerges(a) ==
    /\ pc[a] = "update"
    /\ LET row == raw[loaded[a].row]
           text == loaded[a].content
           merged == [loaded[a].data EXCEPT !.meta = text]
       IN  raw' = [raw EXCEPT ![loaded[a].row] =
                  [row EXCEPT !.content = text,
                              !.status  = Written(row.status, loaded[a].status, "pending"),
                              !.data    = Written(row.data, loaded[a].data, merged)]]
    /\ pc' = [pc EXCEPT ![a] = "upsert"]
    /\ loaded' = [loaded EXCEPT ![a] = NoLoad]
    /\ UNCHANGED <<remote, control, drain, results, batch, seen, before, bounds>>

\* UPDATE of the row found: the text, which differs from the one that was read,
\* and the status and parsed_data; parse_error stays.
UpdateRow(a) ==
    /\ pc[a] = "update"
    /\ LET row == raw[loaded[a].row]
           text == loaded[a].content
       IN  raw' = [raw EXCEPT ![loaded[a].row] =
                  [row EXCEPT !.content = text,
                              !.status  = Written(row.status, loaded[a].status, "pending"),
                              !.data    = Written(row.data, loaded[a].data, Crawled(text))]]
    /\ pc' = [pc EXCEPT ![a] = "upsert"]
    /\ loaded' = [loaded EXCEPT ![a] = NoLoad]
    /\ UNCHANGED <<remote, control, drain, results, batch, seen, before, bounds>>

\* All results are stored; the run goes on to parse.
FinishIngest(a) ==
    /\ pc[a] = "upsert" /\ results[a] = {}
    /\ pc' = [pc EXCEPT ![a] = "select"]
    /\ UNCHANGED <<table, control, memory, bounds>>

(***************************************************************************)
(* Parse: one batch, one transaction                                       *)
(***************************************************************************)

\* run_all's loop while auto-ingest is off.
StartDrain(a) ==
    /\ pc[a] = "idle" /\ a \in Workers /\ ~autoIngest
    /\ pc' = [pc EXCEPT ![a] = "select"]
    /\ drain' = [drain EXCEPT ![a] = TRUE]
    /\ UNCHANGED <<table, control, results, loaded, batch, seen, before, bounds>>

SelectBatch(a) ==
    /\ pc[a] = "select"
    /\ batch' = [batch EXCEPT ![a] =
           [r \in RowIds |-> IF r \in OldestPending THEN raw[r].content ELSE None]]
    /\ seen' = [seen EXCEPT ![a] =
           [r \in RowIds |-> IF r \in OldestPending
                             THEN [data |-> raw[r].data, error |-> raw[r].error]
                             ELSE NoSeen[r]]]
    /\ before' = [before EXCEPT ![a] = Cardinality(Pending)]
    /\ pc' = [pc EXCEPT ![a] = "parse"]
    /\ UNCHANGED <<table, control, drain, results, loaded, bounds>>

Batched(a) == {r \in RowIds : batch[a][r] # None}

\* parse_error and parsed_data as a verdict leaves them: the error of an error
\* row; a reason under the first three gates and under security_block; all of a
\* published row's data made anew.  The exception handler assigns no data.
ErrorOf(v) == IF StatusOf(v) = "error" THEN v ELSE None

Explained == Unsupported \cup {"security_block"}

DataOf(data, v) ==
    IF v \in Explained THEN [data EXCEPT !.reason = v]
    ELSE IF v = "published" THEN NoData ELSE data

\* What the commit leaves in either column.  It is written when its new value
\* differs from the one that was loaded, if only in a detail ("differing"), which
\* the error and the data of an examined text have.
DataAfter(column, old, differing, v) ==
    IF "data" \in differing /\ v \notin Unsupported \cup {"exception"}
    THEN DataOf(old, v) ELSE Written(column, old, DataOf(old, v))

ErrorAfter(column, old, differing, v) ==
    IF "error" \in differing /\ ErrorOf(v) # None
    THEN ErrorOf(v) ELSE Written(column, old, ErrorOf(v))

\* Mutant of Decided: a status the table does not know.
DecidedUnknownStatus(row, read, differing, c, v) == [row EXCEPT !.status = v, !.decided = c]

\* The row, its columns read as in "read", after the verdict v about the text c.
\* The status is always written, because the row was loaded as a pending one.
Decided(row, read, differing, c, v) ==
    [row EXCEPT !.status = StatusOf(v), !.decided = c,
                !.data  = DataAfter(@, read.data, differing, v),
                !.error = ErrorAfter(@, read.error, differing, v)]

CommitBatch(a) ==
    /\ pc[a] = "parse"
    /\ \E verdict \in [Batched(a) -> Verdicts],
          differing \in [Batched(a) -> SUBSET {"data", "error"}] :
          /\ \A r \in Batched(a) :
                 verdict[r] \in GateVerdicts[<<batch[a][r], seen[a][r].data.meta>>]
          /\ raw' = [r \in RowIds |->
                 IF r \in Batched(a)
                 THEN Decided(raw[r], seen[a][r], differing[r], batch[a][r], verdict[r])
                 ELSE raw[r]]
    /\ pc' = [pc EXCEPT ![a] = IF drain[a] THEN "check" ELSE "idle"]
    /\ batch' = [batch EXCEPT ![a] = NoBatch]
    /\ seen' = [seen EXCEPT ![a] = NoSeen]
    /\ before' = [before EXCEPT ![a] = IF drain[a] THEN @ ELSE 0]
    /\ UNCHANGED <<remote, control, drain, results, loaded, bounds>>

\* The drain loop takes another batch while rows remain and the last batch
\* made the queue shorter.
Drained(a) == Cardinality(Pending) = 0 \/ before[a] <= Cardinality(Pending)

CheckDrained(a) ==
    /\ pc[a] = "check"
    /\ pc' = [pc EXCEPT ![a] = IF Drained(a) THEN "idle" ELSE "select"]
    /\ drain' = [drain EXCEPT ![a] = ~Drained(a)]
    /\ before' = [before EXCEPT ![a] = 0]
    /\ UNCHANGED <<table, control, results, loaded, batch, seen, bounds>>

\* An exception outside the per-row handler, or the end of the process: what
\* was committed stays, the open transaction and the memory are lost.
Fail(a) ==
    /\ pc[a] # "idle" /\ failures < MaxFailures
    /\ failures' = failures + 1
    /\ pc' = [pc EXCEPT ![a] = "idle"]
    /\ drain' = [drain EXCEPT ![a] = FALSE]
    /\ results' = [results EXCEPT ![a] = {}]
    /\ loaded' = [loaded EXCEPT ![a] = NoLoad]
    /\ batch' = [batch EXCEPT ![a] = NoBatch]
    /\ seen' = [seen EXCEPT ![a] = NoSeen]
    /\ before' = [before EXCEPT ![a] = 0]
    /\ UNCHANGED <<table, control, edits, requeues, toggles>>

(***************************************************************************)
(* Specification                                                           *)
(***************************************************************************)
Progress(a) ==
    \/ LookUpSame(a) \/ LookUpChanged(a) \/ LookUpAbsent(a) \/ LookUpRaises(a)
    \/ InsertRow(a) \/ UpdateRow(a) \/ FinishIngest(a)
    \/ SelectBatch(a) \/ CommitBatch(a) \/ CheckDrained(a)

Start(a) == StartRun(a) \/ StartDrain(a)

Next ==
    \/ \E f \in Files : Edit(f)
    \/ ToggleAutoIngest \/ ReparseSelect \/ ReparseUpdate
    \/ \E a \in Actors : Start(a) \/ Progress(a) \/ Fail(a)

Spec == Init /\ [][Next]_vars

\* The worker loop never returns and the container restarts it; a statement of
\* a run that is under way is eventually executed.
Fairness ==
    /\ \A a \in Actors : WF_vars(Progress(a))
    /\ \A w \in Workers : WF_vars(Start(w))
    /\ WF_vars(ReparseUpdate)

FairSpec == Spec /\ Fairness

(***************************************************************************)
(* Properties                                                              *)
(***************************************************************************)

\* Type invariant of the table and of every actor's memory.
TypeOK ==
    /\ remote \in [Files -> Contents \cup {None}]
    /\ raw \in [RowIds -> RawSkill \cup {NoRow}]
    /\ autoIngest \in BOOLEAN
    /\ requeue \subseteq RowIds
    /\ pc \in [Actors -> Steps]
    /\ drain \in [Actors -> BOOLEAN]
    /\ results \in [Actors -> SUBSET (Files \X Contents)]
    /\ loaded \in [Actors -> [file: Files \cup {None}, content: Contents \cup {None},
                              row: RowIds \cup {0}, status: Statuses, data: Data]]
    /\ batch \in [Actors -> [RowIds -> Contents \cup {None}]]
    /\ seen \in [Actors -> [RowIds -> [data: Data, error: Errors]]]
    /\ before \in [Actors -> Nat]
    /\ edits \in Nat /\ failures \in Nat /\ requeues \in Nat /\ toggles \in Nat

\* A row that is no longer pending was decided on the text it now holds: the
\* status reset of upsert_raw_skill ("Reset status to re-parse") and the batch
\* commit of the parser never leave a new text unparsed behind an old verdict.
ParsedIsCurrent ==
    \A r \in Rows : raw[r].status # "pending" => raw[r].decided = raw[r].content

\* A document has at most one row, as the scalar_one_or_none of the upsert
\* presupposes.
RawUnique == \A r, q \in Rows : raw[r].file = raw[q].file => r = q

\* However many crawlers overlap, a document never has more rows than there
\* are actors: only the lookups that were open together can miss each other.
DuplicatesBounded == \A f \in Files : Cardinality(RowsOf(f)) <= Cardinality(Actors)

\* With one run at a time a row tells of one verdict, which the gates could give
\* the text that was parsed: no error of another verdict or of an earlier text,
\* and no reason but the verdict's own.  A re-queue that overtakes the parser
\* shows in two places: it may clear the error of the verdict in force, and a
\* row that was blocked before it may fail another gate and keep that reason.
StatusMeansVerdict ==
    \A r \in Rows : raw[r].status # "pending" =>
        \E m \in Metas : \E v \in GateVerdicts[<<raw[r].decided, m>>] :
            /\ raw[r].status = StatusOf(v)
            /\ raw[r].error \in {ErrorOf(v), None}
            /\ \/ raw[r].data.reason = IF v \in Explained THEN v ELSE None
               \/ raw[r].data.reason = "security_block" /\ StatusOf(v) = "error"

\* Every queued row is eventually decided, with ingest on or paused ("allow
\* draining the pending parse queue even when crawl/ingest is paused").
BacklogDrains ==
    \A r \in RowIds : (r \in Pending) ~> (r \notin Pending)

\* Once upstream is quiet and ingest stays on, every published document ends
\* stored with its last text and decided on it.
Stored(f) ==
    \E r \in RowsOf(f) : raw[r].content = remote[f] /\ raw[r].status # "pending"
                         /\ raw[r].decided = remote[f]
Converges == \A f \in Files : <>[](remote[f] = None \/ Stored(f) \/ ~autoIngest)

(***************************************************************************)
(* The contract a single actor keeps                                       *)
(***************************************************************************)
StoredText(f) ==
    IF RowsOf(f) = {} THEN None ELSE raw[CHOOSE r \in RowsOf(f) : TRUE].content

JudgedText(f) ==
    IF \E r \in RowsOf(f) : raw[r].status # "pending"
    THEN raw[CHOOSE r \in RowsOf(f) : TRUE].decided ELSE None

Contract == INSTANCE IngestContract WITH
                stored <- [f \in Files |-> StoredText(f)],
                judged <- [f \in Files |-> JudgedText(f)]

\* The queue implements the contract: no step voids, gives or moves a verdict
\* other than by storing a text, deciding stored texts or re-queueing.
KeepsContract == Contract!Spec
=============================================================================
