----------------------------- MODULE WorkerLoop -----------------------------
(***************************************************************************)
(* The loop of app/workers/run_all.py, the settings an administrator       *)
(* changes under it, the status row it reports in, and the backfill of     *)
(* summaries it makes in every loop.                                       *)
(*                                                                         *)
(* Settings and status are JSON rows of system_settings.  Whoever changes  *)
(* one reads it, merges in memory and writes the whole value back, in one  *)
(* transaction at READ COMMITTED: the value may have changed in between.   *)
(* Worker loops and the runs POST /ingest starts report in the same row.   *)
(*                                                                         *)
(* Simplified: the phases of one stage are one phase, a crawl reports      *)
(* MaxReports sources at most, and counters and times are left out.        *)
(***************************************************************************)
EXTENDS Integers, Sequences, FiniteSets

CONSTANTS
    Workers,     \* processes running the loop
    Tasks,       \* background runs of the API process
    Admins,      \* administrators who change the settings
    Asked,       \* the changes they may ask for
    Unsummarized,\* the skills without a summary at first, the last updated first
    Summarizable,\* those with a name and a description
    None,        \* no value
    BackfillLimit, \* skills per backfill pass (10 in the code)
    MaxEvents,   \* events kept in the status row (50 in the code)
    MaxReports,  \* bound: sources one crawl reports
    MaxFailures, \* bound: errors of any kind
    MaxPatches,  \* bound: changes of the settings
    MaxTouches   \* bound: changes of skills

Actors == Workers \cup Tasks
Rows == {Unsummarized[n] : n \in DOMAIN Unsummarized}

Fields   == {"enabled", "long"}   \* auto_ingest_enabled; whether the interval is long
Settings == [Fields -> BOOLEAN]
Defaults == [f \in Fields |-> f = "enabled"]
Changes  == [Fields -> BOOLEAN \cup {None}]   \* None: the field is not set

\* The phases a report may name, and the values of the status row.
Phases == {"loop_start", "crawl", "source", "source_error", "parse_only",
           "parse_only_error", "done", "backfill", "backfill_error", "error", "sleep"}
StatusRows == [phase: Phases, error: BOOLEAN, events: Seq(Phases)]

ASSUME ActorsAssumption == Workers \cap Tasks = {}
ASSUME NoneAssumption ==
    /\ None \notin Rows /\ None \notin Settings /\ None \notin Changes
    /\ None \notin BOOLEAN /\ None \notin Phases /\ None \notin StatusRows
ASSUME AskedAssumption == Asked \subseteq Changes
ASSUME RowsAssumption ==
    /\ Unsummarized \in Seq(Rows)
    /\ \A m, n \in DOMAIN Unsummarized : Unsummarized[m] = Unsummarized[n] => m = n
    /\ Summarizable \subseteq Rows
ASSUME LimitsAssumption == BackfillLimit \in Nat \ {0} /\ MaxEvents \in Nat \ {0}
ASSUME BoundsAssumption == {MaxReports, MaxFailures, MaxPatches, MaxTouches} \subseteq Nat

VARIABLES
    settings,  \* the settings row, None until the first change
    editing,   \* an administrator's change in flight: what was read and what is asked
    intended,  \* history: the settings if no two changes had overlapped
    raced,     \* history: whether two have
    status,    \* the status row, None until the first report
    pc,        \* where each actor is
    enabled,   \* auto_ingest_enabled as the loop read it
    reports,   \* sources the crawl may still report
    failed,    \* history: whether the loop has met an error it reports
    seen,      \* the status an actor has read and will write back merged
    patch,     \* what it merges
    next,      \* where it goes then
    shared,    \* history: another report fell into one of this loop
    missing,   \* skills without a summary
    newer,     \* the order by updated_at: pairs of a skill and one updated before it
    failures, patches, touches   \* counters of the bounds

config == <<settings, editing, intended, raced>>
report == <<status, seen, patch, next, shared>>
stage  == <<pc, enabled, reports, failed>>
bounds == <<failures, patches, touches>>
skills == <<missing, newer>>
vars   == <<config, report, stage, skills, bounds>>

(***************************************************************************)
(* Settings                                                                *)
(***************************************************************************)
Effective(row) == IF row = None THEN Defaults ELSE row

\* Mutant of Merged: a field that is not set gets its default.
MergedUnset(row, change) ==
    [f \in Fields |-> IF change[f] = None THEN Defaults[f] ELSE change[f]]

Merged(row, change) ==
    [f \in Fields |-> IF change[f] = None THEN Effective(row)[f] ELSE change[f]]

NotEditing == [read |-> None, change |-> None]

\* PATCH of the worker settings reads the row ...
StartPatch(m) ==
    /\ patches < MaxPatches
    /\ editing[m] = NotEditing
    /\ \E change \in Asked :
        editing' = [editing EXCEPT ![m] = [read |-> settings, change |-> change]]
    /\ raced' = (raced \/ \E n \in Admins : editing[n] # NotEditing)
    /\ patches' = patches + 1
    /\ UNCHANGED <<settings, intended, report, stage, skills, failures, touches>>

\* ... and writes all its fields.  When two found no row, the second finds it
\* now and overwrites it, or fails on the key and is answered 409.
EndPatch(m) ==
    /\ editing[m] # NotEditing
    /\ LET e == editing[m]
       IN  \/ /\ settings' = Merged(e.read, e.change)
              /\ intended' = [f \in Fields |->
                    IF e.change[f] = None THEN intended[f] ELSE e.change[f]]
           \/ /\ e.read = None /\ settings # None
              /\ UNCHANGED <<settings, intended>>
    /\ editing' = [editing EXCEPT ![m] = NotEditing]
    /\ UNCHANGED <<raced, report, stage, skills, bounds>>

(***************************************************************************)
(* The status row: its phase, whether last_error is set, and the phases of *)
(* its recent events.  A report sets or clears the error or (None) leaves  *)
(* it; the error of a source goes into a field of its own, which the model *)
(* shows by the phase.                                                     *)
(***************************************************************************)
Report(phase, error) == [phase |-> phase, error |-> error]
Plain(phase) == Report(phase, None)

Blank == [phase |-> None, error |-> FALSE, events |-> <<>>]

\* Mutants of Recent: one event too many is kept; the first events are kept.
RecentAndOne(events) ==
    IF Len(events) > MaxEvents + 1
    THEN SubSeq(events, Len(events) - MaxEvents, Len(events)) ELSE events

RecentFirst(events) == SubSeq(events, 1, MaxEvents)

Recent(events) ==
    IF Len(events) > MaxEvents
    THEN SubSeq(events, Len(events) - MaxEvents + 1, Len(events)) ELSE events

\* Mutant of Reported: an error that a report does not mention is cleared.
ReportedClear(row, p) ==
    LET old == IF row = None THEN Blank ELSE row
    IN  [phase |-> p.phase, error |-> p.error = TRUE,
         events |-> IF p.phase = old.phase THEN old.events
                    ELSE Recent(Append(old.events, p.phase))]

\* What _patch_worker_status writes: the report merged into the row that was
\* read, with an event when the phase changes or an error is reported.
Reported(row, p) ==
    LET old == IF row = None THEN Blank ELSE row
    IN  [phase |-> p.phase, error |-> IF p.error = None THEN old.error ELSE p.error,
         events |-> IF p.phase # old.phase \/ p.error = TRUE \/ p.phase = "source_error"
                    THEN Recent(Append(old.events, p.phase)) ELSE old.events]

Reporting == {a \in Actors : pc[a] = "write"}

\* An actor reads the row for its report; two reports in flight at once spoil
\* what either loop has shown.
Say(a, p, then) ==
    /\ pc' = [pc EXCEPT ![a] = "write"]
    /\ seen' = [seen EXCEPT ![a] = status]
    /\ patch' = [patch EXCEPT ![a] = p]
    /\ next' = [next EXCEPT ![a] = then]
    /\ shared' = [b \in Actors |->
          \/ shared[b] /\ (b # a \/ p.phase # "loop_start")
          \/ Reporting # {} /\ b \in Reporting \cup {a}]
    /\ UNCHANGED status

\* The write.  A row that was absent may have been inserted by now: the report
\* fails on the key, or overwrites it.  Any error of a report is ignored.
WriteReport(a) ==
    /\ pc[a] = "write"
    /\ pc' = [pc EXCEPT ![a] = next[a]]
    /\ seen' = [seen EXCEPT ![a] = None]
    /\ patch' = [patch EXCEPT ![a] = None]
    /\ next' = [next EXCEPT ![a] = None]
    /\ \/ /\ status' = Reported(seen[a], patch[a])
          /\ UNCHANGED <<shared, failures>>
       \/ /\ seen[a] = None /\ status # None
          /\ UNCHANGED <<status, shared, failures>>
       \/ /\ failures < MaxFailures
          /\ failures' = failures + 1
          /\ shared' = [shared EXCEPT ![a] = TRUE]
          /\ UNCHANGED status
    /\ UNCHANGED <<config, enabled, reports, failed, skills, patches, touches>>

(***************************************************************************)
(* A loop                                                                  *)
(***************************************************************************)
Goto(a, step) == pc' = [pc EXCEPT ![a] = step] /\ UNCHANGED report

Erring == failures < MaxFailures /\ failures' = failures + 1
Fine   == UNCHANGED failures

\* Mutant of LoadSettings: the settings are read once, before the first loop.
LoadSettingsOnce(w) ==
    /\ pc[w] = "top" /\ Fine
    /\ failed' = [failed EXCEPT ![w] = FALSE]
    /\ Say(w, Report("loop_start", FALSE), IF enabled[w] THEN "crawl" ELSE "parse")
    /\ UNCHANGED <<config, enabled, reports, skills, patches, touches>>

\* The settings are read at the top of each loop; when that fails the defaults
\* hold, whatever the administrator has asked for.
LoadSettings(w) ==
    /\ pc[w] = "top"
    /\ \E on \in BOOLEAN :
        /\ \/ on = Effective(settings)["enabled"] /\ Fine
           \/ on = Defaults["enabled"] /\ Erring
        /\ enabled' = [enabled EXCEPT ![w] = on]
        /\ failed' = [failed EXCEPT ![w] = FALSE]
        /\ Say(w, Report("loop_start", FALSE),
               IF on THEN "crawl" ELSE "parse")
    /\ UNCHANGED <<config, reports, skills, patches, touches>>

\* POST /ingest starts one run in the background.
StartTask(t) ==
    /\ t \in Tasks /\ pc[t] = "idle"
    /\ Goto(t, "crawl")
    /\ UNCHANGED <<config, enabled, reports, failed, skills, bounds>>

\* run() begins with the crawl.
StartCrawl(a) ==
    /\ pc[a] = "crawl"
    /\ reports' = [reports EXCEPT ![a] = MaxReports]
    /\ Say(a, Plain("crawl"), "source")
    /\ UNCHANGED <<config, enabled, failed, skills, bounds>>

\* It reports each source and each source that fails; any step of run() may
\* raise, which ends a task and is reported by a loop.
CrawlOn(a) ==
    /\ pc[a] = "source" /\ reports[a] > 0
    /\ reports' = [reports EXCEPT ![a] = @ - 1]
    /\ \/ Fine   /\ Say(a, Plain("source"), "source")
       \/ Erring /\ Say(a, Plain("source_error"), "source")
    /\ UNCHANGED <<config, enabled, failed, skills, patches, touches>>

EndRun(a) ==
    /\ pc[a] = "source"
    /\ reports' = [reports EXCEPT ![a] = 0]
    /\ \/ /\ Fine /\ Goto(a, "backfill") /\ UNCHANGED failed
       \/ /\ Erring /\ a \in Tasks /\ Goto(a, "ended") /\ UNCHANGED failed
       \/ /\ Erring /\ a \in Workers
          /\ Say(a, Report("error", TRUE), "sleep")
          /\ failed' = [failed EXCEPT ![a] = TRUE]
    /\ UNCHANGED <<config, enabled, skills, patches, touches>>

\* With ingest off the loop parses what is queued.
ParseOnly(w) ==
    /\ pc[w] = "parse"
    /\ Say(w, Plain("parse_only"), "drain")
    /\ UNCHANGED <<config, enabled, reports, failed, skills, bounds>>

Drain(w) ==
    /\ pc[w] = "drain"
    /\ \/ Fine /\ Say(w, Plain("done"), "backfill") /\ UNCHANGED failed
       \/ /\ Erring /\ Say(w, Report("parse_only_error", TRUE), "drained")
          /\ failed' = [failed EXCEPT ![w] = TRUE]
    /\ UNCHANGED <<config, enabled, reports, skills, patches, touches>>

Drained(w) ==
    /\ pc[w] = "drained"
    /\ Say(w, Plain("done"), "backfill")
    /\ UNCHANGED <<config, enabled, reports, failed, skills, bounds>>

Sleep(w) ==
    /\ pc[w] = "sleep"
    /\ Say(w, Plain("sleep"), "top")
    /\ UNCHANGED <<config, enabled, reports, failed, skills, bounds>>

(***************************************************************************)
(* backfill_missing_summaries                                              *)
(***************************************************************************)

\* Those of some skills that were updated after a skill.
Newer(ks, k) == {j \in ks : <<j, k>> \in newer}

\* Mutant of FirstMissing: the order is ascending.
LastMissing ==
    {k \in missing : Cardinality({j \in missing : <<k, j>> \in newer}) < BackfillLimit}

\* backfill_missing_summaries reads the first skills without a summary, the last
\* updated ones; among them are some that cannot have one.
FirstMissing == {k \in missing : Cardinality(Newer(missing, k)) < BackfillLimit}

Fillable == FirstMissing \cap Summarizable

\* A pass.  The GLM may give no answer for a skill; an error ends the pass
\* and is reported by the loop when ingest is off, otherwise printed.
Backfill(a) ==
    /\ pc[a] = "backfill"
    /\ \E done \in SUBSET Fillable :
        /\ IF done = Fillable THEN Fine ELSE Erring
        /\ missing' = missing \ done
        /\ \/ Goto(a, IF a \in Workers THEN "sleep" ELSE "ended") /\ UNCHANGED failed
           \/ /\ done = {} /\ Fillable # {}
              /\ a \in Workers /\ ~enabled[a]
              /\ Say(a, Report("backfill_error", TRUE), "sleep")
              /\ failed' = [failed EXCEPT ![a] = TRUE]
    /\ UNCHANGED <<config, enabled, reports, newer, patches, touches>>

\* A skill without a summary changes: it is the last updated now.
Touch(k) ==
    /\ touches < MaxTouches
    /\ k \in missing /\ Newer(missing, k) # {}
    /\ newer' = {p \in newer : p[2] # k} \cup {<<k, j>> : j \in Rows \ {k}}
    /\ touches' = touches + 1
    /\ UNCHANGED <<config, report, stage, missing, failures, patches>>

Init ==
    /\ settings = None
    /\ editing = [m \in Admins |-> NotEditing]
    /\ intended = Defaults /\ raced = FALSE
    /\ status = None
    /\ pc = [a \in Actors |-> IF a \in Workers THEN "top" ELSE "idle"]
    /\ enabled = [a \in Actors |-> TRUE]
    /\ reports = [a \in Actors |-> 0]
    /\ failed = [a \in Actors |-> FALSE]
    /\ seen = [a \in Actors |-> None]
    /\ patch = [a \in Actors |-> None]
    /\ next = [a \in Actors |-> None]
    /\ shared = [a \in Actors |-> TRUE]
    /\ missing = Rows
    /\ newer = {p \in Rows \X Rows : \E m, n \in DOMAIN Unsummarized :
                    m < n /\ p = <<Unsummarized[m], Unsummarized[n]>>}
    /\ failures = 0 /\ patches = 0 /\ touches = 0

Step(a) ==
    \/ WriteReport(a) \/ StartCrawl(a) \/ CrawlOn(a) \/ EndRun(a) \/ Backfill(a)
    \/ a \in Workers /\ (LoadSettings(a) \/ ParseOnly(a) \/ Drain(a) \/ Drained(a) \/ Sleep(a))

Next ==
    \/ \E m \in Admins : StartPatch(m) \/ EndPatch(m)
    \/ \E a \in Actors : Step(a)
    \/ \E t \in Tasks : StartTask(t)
    \/ \E k \in Rows : Touch(k)

Spec == Init /\ [][Next]_vars

\* The loops go on: start.sh and the compose file restart the worker, and a
\* sleep ends.
FairSpec == Spec /\ \A w \in Workers : WF_vars(Step(w))

(***************************************************************************)
(* Properties                                                              *)
(***************************************************************************)
Stages == {"top", "idle", "crawl", "source", "parse", "drain", "drained", "backfill",
           "sleep", "ended", "write"}

TypeOK ==
    /\ settings \in Settings \cup {None} /\ intended \in Settings /\ raced \in BOOLEAN
    /\ \A m \in Admins :
        editing[m] = NotEditing \/ editing[m] \in [read: Settings \cup {None}, change: Changes]
    /\ \A row \in {status} \cup {seen[a] : a \in Actors} :
        row # None => row \in StatusRows /\ Len(row.events) <= MaxEvents
    /\ pc \in [Actors -> Stages]
    /\ enabled \in [Actors -> BOOLEAN] /\ failed \in [Actors -> BOOLEAN]
    /\ reports \in [Actors -> 0..MaxReports]
    /\ missing \subseteq Rows /\ newer \subseteq Rows \X Rows
    /\ \A j, k \in Rows : j # k <=> <<j, k>> \in newer \/ <<k, j>> \in newer
    /\ \A j, k, l \in Rows : <<j, k>> \in newer /\ <<k, l>> \in newer => <<j, l>> \in newer

\* The last event in the log is the phase that the row shows: however many
\* actors report at once, and however long the log has been cut, the event of
\* the change that led to the shown phase is not lost.
LogEndsInPhase == status # None => status.events[Len(status.events)] = status.phase

\* An error a loop reports is still shown when it sleeps, and only then, with
\* background runs reporting in the same row; unless a report of theirs was in
\* flight together with one of the loop, or a report could not be written.
\* This is about a deployment with one loop: a second one clears the error.
OutcomeShown ==
    \A w \in Workers : pc[w] = "top" /\ ~shared[w] => status.error = failed[w]

\* Changes of the settings that do not overlap add up: a field holds what the
\* last change that set it asked for, or its default.
SettingsAddUp == ~raced => Effective(settings) = intended

\* Once automatic ingest stays off, the loops stop crawling for good, although
\* a loop that cannot read its settings crawls by default.
OffIsObeyed ==
    \A w \in Workers :
        <>[](~Effective(settings)["enabled"]) => <>[](pc[w] \notin {"crawl", "source"})

\* A skill that can have a summary gets one, unless as many skills that cannot
\* have one as a pass looks at were updated after it: those hold it up.
HeldUp(k) == Cardinality(Newer(missing \ Summarizable, k)) >= BackfillLimit

SummaryComes == \A k \in Summarizable : k \in missing ~> (k \notin missing \/ HeldUp(k))
=============================================================================
