-------------------------- MODULE WorkerLoopProofs --------------------------
(***************************************************************************)
(* What the status row and the settings row show, for every number of      *)
(* loops, background runs and administrators, every length of the log and  *)
(* any number of changes and errors.                                       *)
(*                                                                         *)
(* The properties speak of the rows.  What is inductive speaks also of the *)
(* copies actors hold between their read and their write: a copy of the    *)
(* status is a row like any other, and a copy of the settings is the row   *)
(* while changes do not overlap.                                           *)
(***************************************************************************)
EXTENDS WorkerLoop, SequenceTheorems, TLAPS

(***************************************************************************)
(* The settings                                                            *)
(***************************************************************************)
Edits == [read: Settings \cup {None}, change: Changes]

SettingsTyped ==
    /\ settings \in Settings \cup {None} /\ intended \in Settings /\ raced \in BOOLEAN
    /\ editing \in [Admins -> Edits \cup {NotEditing}]

\* One change at a time, made from the row as it is.
Alone ==
    /\ \A m \in Admins : editing[m] # NotEditing => editing[m].read = settings
    /\ \A m, n \in Admins : editing[m] # NotEditing /\ editing[n] # NotEditing => m = n

SettingsInv ==
    /\ SettingsTyped
    /\ ~raced => Alone
    /\ SettingsAddUp

LEMMA SettingsInit == Init => SettingsInv
<1> SUFFICES ASSUME Init PROVE SettingsInv
  OBVIOUS
<1>1. /\ settings = None /\ intended = Defaults /\ raced = FALSE
      /\ editing = [m \in Admins |-> NotEditing]
  BY DEF Init
<1>2. Defaults \in Settings
  BY DEF Defaults, Settings
<1>3. SettingsTyped
  BY <1>1, <1>2 DEF SettingsTyped
<1>4. Alone
  BY <1>1 DEF Alone
<1>5. SettingsAddUp
  BY <1>1 DEF SettingsAddUp, Effective
<1> QED
  BY <1>3, <1>4, <1>5 DEF SettingsInv

\* The row that a change leaves has a value in every field.
LEMMA MergedIsSettings ==
    ASSUME NEW row \in Settings \cup {None}, NEW change \in Changes
    PROVE  /\ Merged(row, change) \in Settings
           /\ \A f \in Fields : Merged(row, change)[f] =
                 IF change[f] = None THEN Effective(row)[f] ELSE change[f]
<1>1. Effective(row) \in Settings
  BY DEF Effective, Settings, Defaults
<1>2. \A f \in Fields : change[f] # None => change[f] \in BOOLEAN
  BY DEF Changes
<1> QED
  BY <1>1, <1>2 DEF Merged, Settings

LEMMA StartPatchKeeps ==
    ASSUME SettingsInv, NEW m \in Admins, StartPatch(m)
    PROVE  SettingsInv'
<1>1. PICK change \in Asked :
          editing' = [editing EXCEPT ![m] = [read |-> settings, change |-> change]]
  BY DEF StartPatch
<1>2. [read |-> settings, change |-> change] \in Edits
  BY AskedAssumption DEF Edits, SettingsInv, SettingsTyped
<1>3. UNCHANGED <<settings, intended>> /\ raced' = (raced \/ \E n \in Admins : editing[n] # NotEditing)
  BY DEF StartPatch
<1>4. SettingsTyped'
  BY <1>1, <1>2, <1>3 DEF SettingsInv, SettingsTyped
<1>5. ~raced' => Alone'
  BY <1>1, <1>3 DEF SettingsInv, SettingsTyped, Alone
<1>6. SettingsAddUp'
  BY <1>3 DEF SettingsInv, SettingsAddUp, Effective
<1> QED
  BY <1>4, <1>5, <1>6 DEF SettingsInv

LEMMA EndPatchKeeps ==
    ASSUME SettingsInv, NEW m \in Admins, EndPatch(m)
    PROVE  SettingsInv'
<1> DEFINE e == editing[m]
<1>1. /\ e \in Edits /\ e # NotEditing
      /\ editing' = [editing EXCEPT ![m] = NotEditing] /\ raced' = raced
  BY DEF EndPatch, SettingsInv, SettingsTyped
<1>2. e.read \in Settings \cup {None} /\ e.change \in Changes
  BY <1>1 DEF Edits
<1>3. CASE /\ settings' = Merged(e.read, e.change)
           /\ intended' = [f \in Fields |-> IF e.change[f] = None THEN intended[f] ELSE e.change[f]]
  <2>1. settings' \in Settings /\ settings' # None
    BY <1>2, <1>3, MergedIsSettings, NoneAssumption
  <2>2. intended' \in Settings
    BY <1>2, <1>3 DEF SettingsInv, SettingsTyped, Settings, Changes
  <2>3. SettingsTyped'
    BY <1>1, <2>1, <2>2 DEF SettingsInv, SettingsTyped
  <2>4. ~raced' => Alone'
    BY <1>1 DEF SettingsInv, SettingsTyped, Alone
  <2>5. ASSUME ~raced' PROVE settings' = intended'
    <3>1. e.read = settings /\ Effective(settings) = intended
      BY <1>1, <2>5 DEF SettingsInv, Alone, SettingsAddUp
    <3>2. \A f \in Fields : settings'[f] = intended'[f]
      BY <1>2, <1>3, <3>1, MergedIsSettings
    <3> QED
      BY <2>1, <2>2, <3>2 DEF Settings
  <2>6. SettingsAddUp'
    BY <2>1, <2>5 DEF SettingsAddUp, Effective
  <2> QED
    BY <2>3, <2>4, <2>6 DEF SettingsInv
<1>4. CASE /\ e.read = None /\ settings # None
           /\ UNCHANGED <<settings, intended>>
  <2>1. raced
    BY <1>1, <1>4 DEF SettingsInv, Alone
  <2> QED
    BY <1>1, <1>4, <2>1 DEF SettingsInv, SettingsTyped, SettingsAddUp
<1> QED
  BY <1>3, <1>4 DEF EndPatch

\* Nothing else writes the settings.
LEMMA SettingsStep == SettingsInv /\ [Next]_vars => SettingsInv'
<1> SUFFICES ASSUME SettingsInv, [Next]_vars PROVE SettingsInv'
  OBVIOUS
<1>1. CASE UNCHANGED config
  BY <1>1 DEF config, SettingsInv, SettingsTyped, Alone, SettingsAddUp, Effective
<1>2. CASE \E m \in Admins : StartPatch(m) \/ EndPatch(m)
  BY <1>2, StartPatchKeeps, EndPatchKeeps
<1>3. CASE \E a \in Actors : Step(a)
  BY <1>1, <1>3 DEF Step, WriteReport, StartCrawl, CrawlOn, EndRun, Backfill, LoadSettings,
     ParseOnly, Drain, Drained, Sleep
<1>4. CASE (\E t \in Tasks : StartTask(t)) \/ (\E k \in Rows : Touch(k))
  BY <1>1, <1>4 DEF StartTask, Touch
<1>5. CASE UNCHANGED vars
  BY <1>1, <1>5 DEF vars
<1> QED
  BY <1>2, <1>3, <1>4, <1>5 DEF Next

\* Changes of the settings that do not overlap add up
\* (system_setting_repo.py, the settings endpoint of admin.py).
THEOREM ChangesAddUp == Spec => []SettingsAddUp
  BY SettingsInit, SettingsStep, PTL DEF Spec, SettingsInv

(***************************************************************************)
(* The log                                                                 *)
(***************************************************************************)
Reports == [phase: Phases, error: BOOLEAN \cup {None}]

Logged(row) == row.events # <<>> /\ row.events[Len(row.events)] = row.phase

\* A row of the table and a copy in the hands of an actor look alike; an actor
\* about to write has something to write.
LogInv ==
    /\ status \in StatusRows \cup {None} /\ (status # None => Logged(status))
    /\ seen \in [Actors -> StatusRows \cup {None}]
    /\ \A a \in Actors : seen[a] # None => Logged(seen[a])
    /\ patch \in [Actors -> Reports \cup {None}]
    /\ pc \in [Actors -> Stages] /\ next \in [Actors -> Stages \cup {None}]
    /\ \A a \in Actors : pc[a] = "write" => patch[a] \in Reports /\ next[a] \in Stages \ {"write"}

\* The cut keeps the last event.
LEMMA RecentKeepsLast ==
    ASSUME NEW events \in Seq(Phases), NEW phase \in Phases
    PROVE  LET kept == Recent(Append(events, phase))
           IN  kept \in Seq(Phases) /\ kept # <<>> /\ kept[Len(kept)] = phase
<1> DEFINE all == Append(events, phase)
           n == Len(all)
<1>1. all \in Seq(Phases) /\ n \in Nat \ {0} /\ all[n] = phase /\ all # <<>>
  OBVIOUS
<1>2. CASE n > MaxEvents
  <2> DEFINE cut == SubSeq(all, n - MaxEvents + 1, n)
  <2>1. MaxEvents \in Nat \ {0}
    BY LimitsAssumption
  <2>2. \A i \in (n - MaxEvents + 1)..n : all[i] \in Phases
    BY <1>1, <1>2, <2>1
  <2>3. /\ cut \in Seq(Phases) /\ Len(cut) = MaxEvents
        /\ \A i \in 1..MaxEvents : cut[i] = all[n - MaxEvents + i]
    <3> HIDE DEF all
    <3>1. n - MaxEvents + 1 \in Int /\ n \in Int
      BY <1>1, <2>1
    <3> QED
      BY <1>1, <1>2, <2>1, <2>2, <3>1, SubSeqProperties
  <2>4. cut # <<>> /\ cut[Len(cut)] = phase
    <3> HIDE DEF cut, all
    <3>1. cut[MaxEvents] = all[n - MaxEvents + MaxEvents]
      BY <2>1, <2>3
    <3>2. n - MaxEvents + MaxEvents = n
      BY <1>1, <2>1
    <3> QED
      BY <1>1, <2>1, <2>3, <3>1, <3>2
  <2> QED
    BY <1>2, <2>3, <2>4 DEF Recent
<1>3. CASE ~(n > MaxEvents)
  BY <1>1, <1>3 DEF Recent
<1> QED
  BY <1>2, <1>3

\* A report merged into a row, or into none, is a row whose log ends in its
\* phase: without a row the phase is new.
LEMMA ReportedIsLogged ==
    ASSUME NEW row \in StatusRows \cup {None}, row # None => Logged(row), NEW p \in Reports
    PROVE  /\ Reported(row, p) \in StatusRows /\ Logged(Reported(row, p))
           /\ Reported(row, p) # None
<1> DEFINE old == IF row = None THEN Blank ELSE row
<1>1. /\ old.events \in Seq(Phases) /\ old.error \in BOOLEAN
      /\ old.phase \in Phases => Logged(old)
  <2>1. CASE row = None
    BY <2>1, NoneAssumption DEF Blank
  <2>2. CASE row # None
    BY <2>2 DEF StatusRows
  <2> QED
    BY <2>1, <2>2
<1>2. old.phase \in Phases \/ old.phase # p.phase
  BY NoneAssumption DEF Blank, StatusRows, Reports
<1>3. p.phase \in Phases /\ p.error \in BOOLEAN \cup {None}
  BY DEF Reports
<1>4. LET kept == Recent(Append(old.events, p.phase))
      IN  kept \in Seq(Phases) /\ kept # <<>> /\ kept[Len(kept)] = p.phase
  BY <1>1, <1>3, RecentKeepsLast
<1> HIDE DEF old
<1>5. Reported(row, p) =
        [phase |-> p.phase, error |-> IF p.error = None THEN old.error ELSE p.error,
         events |-> IF p.phase # old.phase \/ p.error = TRUE \/ p.phase = "source_error"
                    THEN Recent(Append(old.events, p.phase)) ELSE old.events]
  BY DEF Reported, old
<1>6. Reported(row, p) \in StatusRows
  BY <1>1, <1>3, <1>4, <1>5 DEF StatusRows
<1>7. Logged(Reported(row, p))
  BY <1>1, <1>2, <1>3, <1>4, <1>5 DEF Logged
<1> QED
  BY <1>6, <1>7, NoneAssumption

LEMMA LogInit == Init => LogInv
  BY DEF Init, LogInv, Stages, Actors

\* What an actor is about to say and where it goes then.
LEMMA SayKeepsLog ==
    ASSUME LogInv, NEW a \in Actors, NEW p \in Reports, NEW then \in Stages \ {"write"}, Say(a, p, then)
    PROVE  LogInv'
  BY DEF LogInv, Say, Stages

LEMMA GotoKeepsLog ==
    ASSUME LogInv, NEW a \in Actors, NEW step \in Stages \ {"write"}, Goto(a, step)
    PROVE  LogInv'
  BY DEF LogInv, Goto, report, Stages

LEMMA WriteKeepsLog ==
    ASSUME LogInv, NEW a \in Actors, WriteReport(a)
    PROVE  LogInv'
<1>1. /\ patch[a] \in Reports /\ next[a] \in Stages \ {"write"}
      /\ seen[a] \in StatusRows \cup {None} /\ (seen[a] # None => Logged(seen[a]))
  BY DEF WriteReport, LogInv
<1>2. status' = status \/ status' = Reported(seen[a], patch[a])
  BY DEF WriteReport
<1>3. status' \in StatusRows \cup {None} /\ (status' # None => Logged(status'))
  BY <1>1, <1>2, ReportedIsLogged DEF LogInv
<1>4. /\ pc' = [pc EXCEPT ![a] = next[a]] /\ seen' = [seen EXCEPT ![a] = None]
      /\ patch' = [patch EXCEPT ![a] = None] /\ next' = [next EXCEPT ![a] = None]
  BY DEF WriteReport
<1> QED
  BY <1>1, <1>3, <1>4 DEF LogInv

\* What the steps of the loop say.
LEMMA WhatIsSaid ==
    /\ \A phase \in Phases : Plain(phase) \in Reports /\ Plain(phase).error = None
    /\ \A phase \in Phases, e \in BOOLEAN :
           Report(phase, e) \in Reports /\ Report(phase, e).error = e
  BY DEF Plain, Report, Reports

\* Every step of an actor is a write, a read of the row, or neither.
LEMMA LogStep == LogInv /\ [Next]_vars => LogInv'
<1> SUFFICES ASSUME LogInv, [Next]_vars PROVE LogInv'
  OBVIOUS
<1>1. CASE UNCHANGED <<report, pc>>
  BY <1>1 DEF report, LogInv
<1>2. ASSUME NEW a \in Actors, Step(a) PROVE LogInv'
  <2>1. CASE WriteReport(a)
    BY <2>1, WriteKeepsLog
  <2>2. CASE StartCrawl(a) \/ CrawlOn(a) \/ ParseOnly(a) \/ Drained(a) \/ Sleep(a)
    BY <2>2, SayKeepsLog, WhatIsSaid
    DEF StartCrawl, CrawlOn, ParseOnly, Drained, Sleep, Stages, Phases
  <2>3. CASE Drain(a) \/ LoadSettings(a)
    BY <2>3, SayKeepsLog, WhatIsSaid DEF Drain, LoadSettings, Stages, Phases
  <2>4. CASE EndRun(a) \/ Backfill(a)
    BY <2>4, SayKeepsLog, GotoKeepsLog, WhatIsSaid DEF EndRun, Backfill, Stages, Phases
  <2> QED
    BY <1>2, <2>1, <2>2, <2>3, <2>4 DEF Step
<1>3. ASSUME NEW t \in Tasks, StartTask(t) PROVE LogInv'
  BY <1>3, GotoKeepsLog DEF StartTask, Stages, Actors
<1>4. CASE \E k \in Rows : Touch(k)
  BY <1>1, <1>4 DEF Touch, stage
<1>5. CASE \E m \in Admins : StartPatch(m) \/ EndPatch(m)
  BY <1>1, <1>5 DEF StartPatch, EndPatch, stage
<1>6. CASE UNCHANGED vars
  BY <1>1, <1>6 DEF vars, stage
<1> QED
  BY <1>2, <1>3, <1>4, <1>5, <1>6 DEF Next

\* The log ends in the phase that is shown (run_all.py, _patch_worker_status).
THEOREM LogIsComplete == Spec => []LogEndsInPhase
<1>1. LogInv => LogEndsInPhase
  BY DEF LogInv, Logged, LogEndsInPhase
<1> QED
  BY <1>1, LogInit, LogStep, PTL DEF Spec

(***************************************************************************)
(* The types.  Besides those above: a log is never longer than MaxEvents,  *)
(* in the row or in a copy of it, and updated_at orders the skills totally *)
(* however they change.                                                    *)
(***************************************************************************)
ShortInv ==
    /\ status # None => Len(status.events) <= MaxEvents
    /\ \A a \in Actors : seen[a] # None => Len(seen[a].events) <= MaxEvents

LoopTyped ==
    /\ enabled \in [Actors -> BOOLEAN] /\ failed \in [Actors -> BOOLEAN]
    /\ reports \in [Actors -> 0..MaxReports]

Ordered ==
    /\ newer \subseteq Rows \X Rows
    /\ \A j, k \in Rows : j # k <=> <<j, k>> \in newer \/ <<k, j>> \in newer
    /\ \A j, k, l \in Rows : <<j, k>> \in newer /\ <<k, l>> \in newer => <<j, l>> \in newer

LEMMA ReportedIsShort ==
    ASSUME NEW row \in StatusRows \cup {None}, NEW p \in Reports,
           row # None => Len(row.events) <= MaxEvents
    PROVE  Len(Reported(row, p).events) <= MaxEvents
<1> DEFINE old == IF row = None THEN Blank ELSE row
           all == Append(old.events, p.phase)
<1>1. MaxEvents \in Nat \ {0}
  BY LimitsAssumption
<1>2. old.events \in Seq(Phases) /\ Len(old.events) <= MaxEvents
  BY <1>1 DEF Blank, StatusRows
<1>3. all \in Seq(Phases) /\ Len(all) \in Nat
  BY <1>2 DEF Reports
<1> HIDE DEF old
<1>4. Len(Recent(all)) <= MaxEvents
  <2>1. CASE Len(all) > MaxEvents
    <3> DEFINE m == Len(all) - MaxEvents + 1
               n == Len(all)
    <3>1. m \in Int /\ n \in Int /\ m <= n + 1 /\ n - m + 1 = MaxEvents
      BY <1>1, <1>3, <2>1
    <3>2. \A i \in m..n : all[i] \in Phases
      BY <1>1, <1>3, <2>1
    <3>3. Len(SubSeq(all, m, n)) = IF m <= n THEN n - m + 1 ELSE 0
      <4> HIDE DEF all, m, n
      <4> QED
        BY <3>1, <3>2, SubSeqProperties
    <3>4. Recent(all) = SubSeq(all, m, n)
      BY <2>1 DEF Recent
    <3> HIDE DEF m, n
    <3> QED
      BY <1>1, <3>1, <3>3, <3>4
  <2>2. CASE ~(Len(all) > MaxEvents)
    BY <1>1, <1>3, <2>2 DEF Recent
  <2> QED
    BY <2>1, <2>2
<1>5. Reported(row, p).events \in {Recent(all), old.events}
  BY DEF Reported, old
<1> HIDE DEF all
<1> QED
  BY <1>2, <1>4, <1>5

LEMMA ShortStep == LogInv /\ ShortInv /\ [Next]_vars => ShortInv'
<1> SUFFICES ASSUME LogInv, ShortInv, [Next]_vars PROVE ShortInv'
  OBVIOUS
<1>1. CASE UNCHANGED <<status, seen>>
  BY <1>1 DEF ShortInv
<1>2. ASSUME NEW a \in Actors, NEW p, NEW then, Say(a, p, then) PROVE ShortInv'
  BY <1>2 DEF Say, ShortInv, LogInv
<1>3. ASSUME NEW a \in Actors, WriteReport(a) PROVE ShortInv'
  <2>1. patch[a] \in Reports /\ seen[a] \in StatusRows \cup {None}
    BY <1>3 DEF WriteReport, LogInv
  <2>2. status' = status \/ status' = Reported(seen[a], patch[a])
    BY <1>3 DEF WriteReport
  <2>3. Len(Reported(seen[a], patch[a]).events) <= MaxEvents
    BY <2>1, ReportedIsShort DEF ShortInv
  <2>4. seen' = [seen EXCEPT ![a] = None]
    BY <1>3 DEF WriteReport
  <2> QED
    BY <2>2, <2>3, <2>4 DEF ShortInv, LogInv
<1>4. ASSUME NEW a \in Actors, Step(a) PROVE ShortInv'
  <2>1. \/ WriteReport(a)
        \/ UNCHANGED <<status, seen>>
        \/ \E p, then : Say(a, p, then)
    BY <1>4 DEF Step, StartCrawl, CrawlOn, EndRun, Backfill, LoadSettings, ParseOnly, Drain,
                Drained, Sleep, Goto, report
  <2> QED
    BY <1>1, <1>2, <1>3, <2>1
<1>5. CASE \/ \E m \in Admins : StartPatch(m) \/ EndPatch(m)
           \/ \E t \in Tasks : StartTask(t)
           \/ \E k \in Rows : Touch(k)
           \/ UNCHANGED vars
  BY <1>1, <1>5 DEF StartPatch, EndPatch, StartTask, Touch, Goto, report, vars
<1> QED
  BY <1>4, <1>5 DEF Next

LEMMA LoopStep == LoopTyped /\ [Next]_vars => LoopTyped'
<1> SUFFICES ASSUME LoopTyped, [Next]_vars PROVE LoopTyped'
  OBVIOUS
<1>1. MaxReports \in Nat
  BY BoundsAssumption
<1>2. CASE UNCHANGED <<enabled, failed, reports>>
  BY <1>2 DEF LoopTyped
<1>3. ASSUME NEW a \in Actors, CrawlOn(a) PROVE LoopTyped'
  <2>1. reports' = [reports EXCEPT ![a] = reports[a] - 1] /\ UNCHANGED <<enabled, failed>>
    BY <1>3 DEF CrawlOn
  <2>2. reports[a] \in 0..MaxReports /\ reports[a] > 0
    BY <1>3 DEF CrawlOn, LoopTyped
  <2>3. reports[a] - 1 \in 0..MaxReports
    BY <1>1, <2>2
  <2> QED
    BY <2>1, <2>3 DEF LoopTyped
<1>4. ASSUME NEW a \in Actors, Step(a) PROVE LoopTyped'
  <2>1. CASE StartCrawl(a) \/ EndRun(a)
    <3>1. MaxReports \in 0..MaxReports /\ 0 \in 0..MaxReports
      BY <1>1
    <3> QED
      BY <2>1, <3>1 DEF StartCrawl, EndRun, LoopTyped
  <2>2. CASE LoadSettings(a)
    BY <2>2 DEF LoadSettings, LoopTyped
  <2>3. CASE Backfill(a) \/ Drain(a)
    BY <2>3 DEF Backfill, Drain, LoopTyped
  <2>4. CASE WriteReport(a) \/ ParseOnly(a) \/ Drained(a) \/ Sleep(a)
    BY <1>2, <2>4 DEF WriteReport, ParseOnly, Drained, Sleep
  <2> QED
    BY <1>3, <1>4, <2>1, <2>2, <2>3, <2>4 DEF Step
<1>5. CASE \/ \E m \in Admins : StartPatch(m) \/ EndPatch(m)
           \/ \E t \in Tasks : StartTask(t)
           \/ \E k \in Rows : Touch(k)
           \/ UNCHANGED vars
  BY <1>2, <1>5 DEF StartPatch, EndPatch, StartTask, Touch, stage, vars
<1> QED
  BY <1>4, <1>5 DEF Next

LEMMA OrderInit == Init => Ordered
<1> SUFFICES ASSUME Init PROVE Ordered
  OBVIOUS
<1> DEFINE Above(j, k) == \E m, n \in DOMAIN Unsummarized :
                m < n /\ j = Unsummarized[m] /\ k = Unsummarized[n]
<1>1. DOMAIN Unsummarized \subseteq Nat
  BY RowsAssumption
<1>2. newer \subseteq Rows \X Rows /\ \A j, k \in Rows : <<j, k>> \in newer <=> Above(j, k)
  BY DEF Init
<1>3. \A j \in Rows : \E n \in DOMAIN Unsummarized : j = Unsummarized[n]
  BY DEF Rows
<1>4. \A m, n \in DOMAIN Unsummarized : Unsummarized[m] = Unsummarized[n] => m = n
  BY RowsAssumption
<1>5. ASSUME NEW j \in Rows, NEW k \in Rows PROVE j # k <=> Above(j, k) \/ Above(k, j)
  BY <1>1, <1>3, <1>4
<1>6. ASSUME NEW j \in Rows, NEW k \in Rows, NEW l \in Rows, Above(j, k), Above(k, l)
      PROVE  Above(j, l)
  <2>1. PICK m, n \in DOMAIN Unsummarized : m < n /\ j = Unsummarized[m] /\ k = Unsummarized[n]
    BY <1>6
  <2>2. PICK p, q \in DOMAIN Unsummarized : p < q /\ k = Unsummarized[p] /\ l = Unsummarized[q]
    BY <1>6
  <2>3. n = p
    BY <1>4, <2>1, <2>2
  <2>4. m < q
    BY <1>1, <2>1, <2>2, <2>3
  <2> QED
    BY <2>1, <2>2, <2>4
<1> QED
  BY <1>2, <1>5, <1>6 DEF Ordered

\* A skill that changes goes to the front, the others keep their order.
LEMMA OrderStep == Ordered /\ [Next]_vars => Ordered'
<1> SUFFICES ASSUME Ordered, [Next]_vars PROVE Ordered'
  OBVIOUS
<1>1. CASE UNCHANGED newer
  BY <1>1 DEF Ordered
<1>2. ASSUME NEW k \in Rows, Touch(k) PROVE Ordered'
  <2>1. newer' = {p \in newer : p[2] # k} \cup {<<k, j>> : j \in Rows \ {k}}
    BY <1>2 DEF Touch
  <2>2. newer' \subseteq Rows \X Rows
    BY <2>1 DEF Ordered
  <2>3. \A i, j \in Rows : <<i, j>> \in newer' <=> j # k /\ (i = k \/ <<i, j>> \in newer)
    BY <2>1
  <2> QED
    BY <2>2, <2>3 DEF Ordered
<1>3. CASE \E a \in Actors : Step(a)
  BY <1>1, <1>3 DEF Step, WriteReport, StartCrawl, CrawlOn, EndRun, Backfill, LoadSettings,
     ParseOnly, Drain, Drained, Sleep, skills
<1>4. CASE \/ \E m \in Admins : StartPatch(m) \/ EndPatch(m)
           \/ \E t \in Tasks : StartTask(t)
           \/ UNCHANGED vars
  BY <1>1, <1>4 DEF StartPatch, EndPatch, StartTask, skills, vars
<1> QED
  BY <1>2, <1>3, <1>4 DEF Next

LEMMA MissingStep == missing \subseteq Rows /\ [Next]_vars => missing' \subseteq Rows
<1> SUFFICES ASSUME missing \subseteq Rows, [Next]_vars PROVE missing' \subseteq Rows
  OBVIOUS
<1>1. CASE \E a \in Actors : Step(a)
  BY <1>1 DEF Step, WriteReport, StartCrawl, CrawlOn, EndRun, Backfill, LoadSettings,
     ParseOnly, Drain, Drained, Sleep, skills
<1>2. CASE \/ \E m \in Admins : StartPatch(m) \/ EndPatch(m)
           \/ \E t \in Tasks : StartTask(t)
           \/ \E k \in Rows : Touch(k)
           \/ UNCHANGED vars
  BY <1>2 DEF StartPatch, EndPatch, StartTask, Touch, skills, vars
<1> QED
  BY <1>1, <1>2 DEF Next

\* The types hold, the log among them within its limit in the row and in every
\* copy (_patch_worker_status), and the order of the backfill total.
THEOREM TypesHold == Spec => []TypeOK
<1> DEFINE TypeInv == /\ SettingsInv /\ LogInv /\ ShortInv /\ LoopTyped
                      /\ Ordered /\ missing \subseteq Rows
<1>1. Init => TypeInv
  <2>1. Init => ShortInv /\ missing \subseteq Rows
    BY DEF Init, ShortInv
  <2>2. Init => LoopTyped
    BY BoundsAssumption DEF Init, LoopTyped
  <2> QED
    BY <2>1, <2>2, SettingsInit, LogInit, OrderInit
<1>2. TypeInv /\ [Next]_vars => TypeInv'
  BY SettingsStep, LogStep, ShortStep, LoopStep, OrderStep, MissingStep
<1>3. TypeInv => TypeOK
  <2> SUFFICES ASSUME TypeInv PROVE TypeOK
    OBVIOUS
  <2>1. /\ settings \in Settings \cup {None} /\ intended \in Settings /\ raced \in BOOLEAN
        /\ \A m \in Admins : editing[m] = NotEditing
                             \/ editing[m] \in [read: Settings \cup {None}, change: Changes]
    BY DEF SettingsInv, SettingsTyped, Edits
  <2>2. \A row \in {status} \cup {seen[a] : a \in Actors} :
            row # None => row \in StatusRows /\ Len(row.events) <= MaxEvents
    BY DEF LogInv, ShortInv
  <2>3. pc \in [Actors -> Stages]
    BY DEF LogInv
  <2> QED
    BY <2>1, <2>2, <2>3 DEF TypeOK, LoopTyped, Ordered
<1> QED
  BY <1>1, <1>2, <1>3, PTL DEF Spec

(***************************************************************************)
(* The outcome of a loop, where one loop runs beside any number of         *)
(* background runs                                                         *)
(***************************************************************************)
OneLoop == \A v, w \in Workers : v = w

Err(row) == IF row = None THEN FALSE ELSE row.error

\* While the reports of loop w have been undisturbed since it began: no report
\* of another is in flight with one of its own, copies and row agree on the
\* error, and the row shows the outcome or is about to.
Undisturbed(w) ==
    /\ \A a \in Actors : pc[a] = "write" => Err(seen[a]) = Err(status)
    /\ IF pc[w] = "write"
       THEN /\ \A a \in Actors \ {w} : pc[a] # "write"
            /\ seen[w] = status
            /\ failed[w] = IF patch[w].error = None THEN Err(status) ELSE patch[w].error
       ELSE status # None /\ status.error = failed[w]

OutcomeInv ==
    /\ failed \in [Actors -> BOOLEAN] /\ shared \in [Actors -> BOOLEAN]
    /\ \A t \in Tasks : pc[t] = "write" => patch[t].error = None
    /\ \A w \in Workers : ~shared[w] => Undisturbed(w)

LEMMA OutcomeInit == Init => OutcomeInv
  BY DEF Init, OutcomeInv, Actors

\* A report merged into a row keeps the error or sets it.
LEMMA ErrorReported ==
    ASSUME NEW row, NEW p
    PROVE  Reported(row, p).error = IF p.error = None THEN Err(row) ELSE p.error
  BY DEF Reported, Blank, Err

\* A loop reports: with another report in flight it is disturbed, otherwise the
\* row will show what it says, or keep what it showed.
LEMMA LoopSays ==
    ASSUME OneLoop, LogInv, OutcomeInv, NEW w \in Workers, NEW p \in Reports,
           NEW then \in Stages \ {"write"}, Say(w, p, then), pc[w] # "write",
           failed' \in [Actors -> BOOLEAN],
           \/ p.error = None /\ p.phase # "loop_start" /\ failed' = failed
           \/ p.error \in BOOLEAN /\ failed'[w] = p.error
    PROVE  OutcomeInv'
<1>1. w \in Actors /\ w \notin Tasks
  BY ActorsAssumption DEF Actors
<1>2. /\ pc' = [pc EXCEPT ![w] = "write"] /\ seen' = [seen EXCEPT ![w] = status]
      /\ patch' = [patch EXCEPT ![w] = p] /\ status' = status
      /\ shared' = [b \in Actors |->
            \/ shared[b] /\ (b # w \/ p.phase # "loop_start")
            \/ Reporting # {} /\ b \in Reporting \cup {w}]
  BY DEF Say
<1>3. \A t \in Tasks : pc'[t] = "write" => patch'[t].error = None
  BY <1>1, <1>2 DEF OutcomeInv, LogInv, Actors
<1>4. ASSUME ~shared'[w] PROVE Undisturbed(w)'
  <2>1. \A a \in Actors : pc[a] # "write"
    BY <1>1, <1>2, <1>4 DEF Reporting
  <2>2. /\ \A a \in Actors : pc'[a] = "write" => Err(seen'[a]) = Err(status')
        /\ \A a \in Actors \ {w} : pc'[a] # "write"
        /\ pc'[w] = "write" /\ seen'[w] = status' /\ patch'[w] = p
    BY <1>1, <1>2, <2>1 DEF LogInv
  <2>3. CASE p.error = None /\ p.phase # "loop_start" /\ failed' = failed
    <3>1. ~shared[w]
      BY <1>1, <1>2, <1>4, <2>3
    <3>2. status # None /\ status.error = failed[w]
      BY <2>1, <3>1, <1>1 DEF OutcomeInv, Undisturbed
    <3> QED
      BY <1>2, <2>2, <2>3, <3>2 DEF Undisturbed, Err
  <2>4. CASE p.error \in BOOLEAN /\ failed'[w] = p.error
    BY <1>2, <2>2, <2>4, NoneAssumption DEF Undisturbed
  <2> QED
    BY <2>3, <2>4
<1>5. \A v \in Workers : ~shared'[v] => Undisturbed(v)'
  BY <1>4 DEF OneLoop
<1>6. shared' \in [Actors -> BOOLEAN]
  BY <1>2 DEF OutcomeInv
<1> QED
  BY <1>3, <1>5, <1>6 DEF OutcomeInv

\* A background run reports: it disturbs a loop that is reporting and no other.
LEMMA TaskSays ==
    ASSUME OneLoop, LogInv, OutcomeInv, NEW t \in Tasks, NEW p \in Reports, p.error = None,
           p.phase # "loop_start", NEW then \in Stages \ {"write"}, Say(t, p, then),
           failed' = failed
    PROVE  OutcomeInv'
<1>1. t \in Actors /\ t \notin Workers
  BY ActorsAssumption DEF Actors
<1>2. /\ pc' = [pc EXCEPT ![t] = "write"] /\ seen' = [seen EXCEPT ![t] = status]
      /\ patch' = [patch EXCEPT ![t] = p] /\ status' = status
      /\ shared' = [b \in Actors |->
            \/ shared[b] /\ (b # t \/ p.phase # "loop_start")
            \/ Reporting # {} /\ b \in Reporting \cup {t}]
  BY DEF Say
<1>3. \A s \in Tasks : pc'[s] = "write" => patch'[s].error = None
  BY <1>1, <1>2 DEF OutcomeInv, LogInv, Actors
<1>4. ASSUME NEW w \in Workers, ~shared'[w] PROVE Undisturbed(w)'
  <2>1. w \in Actors /\ w # t
    BY <1>1 DEF Actors
  <2>2. ~shared[w] /\ w \notin Reporting
    BY <1>1, <1>2, <1>4, <2>1
  <2>3. pc[w] # "write" /\ Undisturbed(w)
    BY <2>1, <2>2 DEF Reporting, OutcomeInv
  <2>4. \A a \in Actors : pc'[a] = "write" => Err(seen'[a]) = Err(status')
    BY <1>1, <1>2, <2>3 DEF LogInv, Undisturbed
  <2> QED
    BY <1>1, <1>2, <2>1, <2>3, <2>4 DEF LogInv, Undisturbed
<1>5. shared' \in [Actors -> BOOLEAN]
  BY <1>2 DEF OutcomeInv
<1> QED
  BY <1>3, <1>4, <1>5 DEF OutcomeInv

\* A step that says nothing changes nothing of this.
LEMMA GotoKeepsOutcome ==
    ASSUME LogInv, OutcomeInv, NEW a \in Actors, NEW step \in Stages \ {"write"},
           Goto(a, step), pc[a] # "write", failed' = failed
    PROVE  OutcomeInv'
  BY DEF Goto, report, LogInv, OutcomeInv, Undisturbed, Actors

\* The write of a loop that is not disturbed goes into the row it has read.
LEMMA LoopWrites ==
    ASSUME OneLoop, LogInv, OutcomeInv, NEW w \in Workers, WriteReport(w)
    PROVE  OutcomeInv'
<1>1. w \in Actors /\ w \notin Tasks
  BY ActorsAssumption DEF Actors
<1>2. /\ pc[w] = "write" /\ next[w] \in Stages \ {"write"} /\ patch[w] \in Reports
      /\ pc' = [pc EXCEPT ![w] = next[w]] /\ seen' = [seen EXCEPT ![w] = None]
      /\ patch' = [patch EXCEPT ![w] = None] /\ failed' = failed
      /\ seen[w] \in StatusRows \cup {None} /\ (seen[w] # None => Logged(seen[w]))
  BY <1>1 DEF WriteReport, LogInv
<1>3. \A t \in Tasks : pc'[t] = "write" => patch'[t].error = None
  BY <1>1, <1>2 DEF OutcomeInv, LogInv, Actors
<1>4. shared' = shared \/ shared' = [shared EXCEPT ![w] = TRUE]
  BY DEF WriteReport
<1>5. ASSUME ~shared'[w] PROVE Undisturbed(w)'
  <2>1. ~shared[w]
    BY <1>1, <1>4, <1>5 DEF OutcomeInv
  <2>2. /\ \A a \in Actors \ {w} : pc[a] # "write"
        /\ seen[w] = status
        /\ failed[w] = IF patch[w].error = None THEN Err(status) ELSE patch[w].error
    BY <1>2, <2>1 DEF OutcomeInv, Undisturbed
  <2>3. status' = Reported(seen[w], patch[w])
    BY <1>1, <1>5, <2>2 DEF WriteReport, OutcomeInv
  <2>4. status' # None /\ status'.error = failed[w]
    BY <1>2, <2>2, <2>3, ReportedIsLogged, ErrorReported
  <2>5. \A a \in Actors : pc'[a] # "write"
    BY <1>1, <1>2, <2>2 DEF LogInv
  <2> QED
    BY <1>1, <1>2, <2>4, <2>5 DEF Undisturbed
<1>6. \A v \in Workers : ~shared'[v] => Undisturbed(v)'
  BY <1>5 DEF OneLoop
<1> QED
  BY <1>2, <1>3, <1>4, <1>6 DEF OutcomeInv

\* A background run writes what it has read, which differs from the row in its
\* phase and log at most.
LEMMA TaskWrites ==
    ASSUME OneLoop, LogInv, OutcomeInv, NEW t \in Tasks, WriteReport(t)
    PROVE  OutcomeInv'
<1>1. t \in Actors /\ t \notin Workers
  BY ActorsAssumption DEF Actors
<1>2. /\ pc[t] = "write" /\ next[t] \in Stages \ {"write"} /\ patch[t] \in Reports
      /\ pc' = [pc EXCEPT ![t] = next[t]] /\ seen' = [seen EXCEPT ![t] = None]
      /\ patch' = [patch EXCEPT ![t] = None] /\ failed' = failed
      /\ seen[t] \in StatusRows \cup {None} /\ (seen[t] # None => Logged(seen[t]))
  BY <1>1 DEF WriteReport, LogInv
<1>3. \A s \in Tasks : pc'[s] = "write" => patch'[s].error = None
  BY <1>1, <1>2 DEF OutcomeInv, LogInv, Actors
<1>4. shared' = shared \/ shared' = [shared EXCEPT ![t] = TRUE]
  BY DEF WriteReport
<1>5. ASSUME NEW w \in Workers, ~shared'[w] PROVE Undisturbed(w)'
  <2>1. w \in Actors /\ w # t
    BY <1>1 DEF Actors
  <2>2. ~shared[w]
    BY <1>1, <1>4, <1>5, <2>1 DEF OutcomeInv
  <2>3. Undisturbed(w) /\ pc[w] # "write"
    BY <1>1, <1>2, <2>1, <2>2 DEF OutcomeInv, Undisturbed
  <2>4. Err(seen[t]) = Err(status) /\ status # None /\ status.error = failed[w]
    BY <1>1, <1>2, <2>3 DEF Undisturbed
  <2>5. patch[t].error = None
    BY <1>2 DEF OutcomeInv
  <2>6. status' # None /\ status'.error = status.error
    <3>1. CASE status' = status
      BY <3>1, <2>4
    <3>2. CASE status' = Reported(seen[t], patch[t])
      BY <3>2, <1>2, <2>4, <2>5, ReportedIsLogged, ErrorReported DEF Err
    <3> QED
      BY <3>1, <3>2 DEF WriteReport
  <2>7. \A a \in Actors : pc'[a] = "write" => pc[a] = "write" /\ seen'[a] = seen[a]
    BY <1>1, <1>2 DEF LogInv
  <2> QED
    BY <1>2, <2>1, <2>3, <2>4, <2>6, <2>7 DEF Undisturbed, Err, LogInv
<1> QED
  BY <1>2, <1>3, <1>4, <1>5 DEF OutcomeInv

LEMMA OutcomeStep ==
    ASSUME OneLoop PROVE LogInv /\ OutcomeInv /\ [Next]_vars => OutcomeInv'
<1> SUFFICES ASSUME LogInv, OutcomeInv, [Next]_vars PROVE OutcomeInv'
  OBVIOUS
<1>1. CASE UNCHANGED <<report, stage>>
  BY <1>1 DEF report, stage, OutcomeInv, Undisturbed
<1>2. ASSUME NEW w \in Workers, Step(w) PROVE OutcomeInv'
  <2> w \in Actors /\ w \notin Tasks
    BY ActorsAssumption DEF Actors
  <2>1. CASE WriteReport(w)
    BY OneLoop, <2>1, LoopWrites
  <2>2. CASE StartCrawl(w) \/ CrawlOn(w) \/ ParseOnly(w) \/ Drained(w) \/ Sleep(w)
    BY OneLoop, <2>2, LoopSays, WhatIsSaid
    DEF StartCrawl, CrawlOn, ParseOnly, Drained, Sleep, Plain, Report, Stages, Phases, OutcomeInv
  <2>3. CASE LoadSettings(w)
    <3>1. Say(w, Report("loop_start", FALSE), "crawl") \/ Say(w, Report("loop_start", FALSE), "parse")
      BY <2>3 DEF LoadSettings
    <3>2. pc[w] # "write" /\ failed' = [failed EXCEPT ![w] = FALSE]
      BY <2>3 DEF LoadSettings
    <3> QED
      BY OneLoop, <3>1, <3>2, LoopSays, WhatIsSaid DEF Stages, Phases, OutcomeInv
  <2>4. CASE Drain(w)
    BY OneLoop, <2>4, LoopSays, WhatIsSaid DEF Drain, Plain, Report, Stages, Phases, OutcomeInv
  <2>5. CASE EndRun(w)
    BY OneLoop, <2>5, LoopSays, GotoKeepsOutcome, WhatIsSaid
    DEF EndRun, Stages, Phases, OutcomeInv
  <2>6. CASE Backfill(w)
    BY OneLoop, <2>6, LoopSays, GotoKeepsOutcome, WhatIsSaid
    DEF Backfill, Stages, Phases, OutcomeInv
  <2> QED
    BY <1>2, <2>1, <2>2, <2>3, <2>4, <2>5, <2>6 DEF Step
<1>3. ASSUME NEW t \in Tasks, Step(t) PROVE OutcomeInv'
  <2> t \in Actors /\ t \notin Workers
    BY ActorsAssumption DEF Actors
  <2>1. CASE WriteReport(t)
    BY OneLoop, <2>1, TaskWrites
  <2>2. CASE StartCrawl(t) \/ CrawlOn(t)
    BY OneLoop, <2>2, TaskSays, WhatIsSaid DEF StartCrawl, CrawlOn, Plain, Report, Stages, Phases
  <2>3. CASE EndRun(t) \/ Backfill(t)
    BY <2>3, GotoKeepsOutcome DEF EndRun, Backfill, Stages
  <2> QED
    BY <1>3, <2>1, <2>2, <2>3 DEF Step
<1>4. ASSUME NEW t \in Tasks, StartTask(t) PROVE OutcomeInv'
  BY <1>4, GotoKeepsOutcome DEF StartTask, Stages, Actors
<1>5. CASE (\E k \in Rows : Touch(k)) \/ (\E m \in Admins : StartPatch(m) \/ EndPatch(m))
  BY <1>1, <1>5 DEF Touch, StartPatch, EndPatch
<1>6. CASE UNCHANGED vars
  BY <1>1, <1>6 DEF vars
<1> QED
  BY <1>2, <1>3, <1>4, <1>5, <1>6 DEF Next, Actors

\* Where one loop runs, an error it has reported is still shown when it sleeps,
\* and only then (run_all.py, main), whatever background runs report.
THEOREM OutcomeIsShown == ASSUME OneLoop PROVE Spec => []OutcomeShown
<1>1. OutcomeInv => OutcomeShown
  BY DEF OutcomeInv, Undisturbed, OutcomeShown
<1>2. LogInv /\ OutcomeInv /\ [Next]_vars => OutcomeInv'
  BY OneLoop, OutcomeStep
<1> QED
  BY <1>1, <1>2, LogInit, LogStep, OutcomeInit, PTL DEF Spec
=============================================================================
