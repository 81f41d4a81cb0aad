-------------------------------- MODULE TaskState --------------------------------
(* How what panes report and what requests change in the tasks reaches the      *)
(* store and the browsers (cli/cmd/shellman/runtime_task_state_actor.go,        *)
(* runtime_status_baseline.go; PaneActor.reportTaskState;                       *)
(* projectstate/task_state_store.go).                                           *)
(*                                                                              *)
(* A pane actor makes a report and hands it to the TaskStateActor outside its   *)
(* lock. The TaskStateActor drops a report that says nothing new, queues the    *)
(* others and wakes its loop. One turn of the loop, Tick, takes the queue,      *)
(* matches every report with the binding of a task, writes one batch to every   *)
(* repository, compares the tasks of every project with those it has cached and *)
(* sends one message with what has changed. Requests change the same rows       *)
(* meanwhile, and the program may be restarted.                                 *)
(*                                                                              *)
(* Time is in seconds, the unit of last_modified and updated_at. A report is    *)
(* known by the command it shows, which stands for the status and the snapshot  *)
(* too. A project has one repository and is named like it. The adapter that     *)
(* BatchUpsertRuntime derives from the command, the order of a delta's lists and *)
(* the columns of a task that are compared like its command are left out.       *)
EXTENDS Integers, Sequences, SequencesExt

CONSTANTS
    Pane, Task,
    Project,        \* the projects in the order the provider lists them
    Home,           \* the project of every task
    Blank,          \* what a pane shows before anything was captured
    Command,        \* what it may show otherwise
    NoPane, None,
    MaxTime,        \* bound: seconds that pass
    MaxReports,     \* bound: reports that panes hand over
    MaxEdits,       \* bound: statements of requests
    MaxFaults,      \* bound: failing calls and restarts
    MaxInFlight     \* bound: reports of a pane on their way at once

ASSUME TaskStateAssumption ==
    /\ Project \in Seq(Range(Project)) /\ Project # << >>
    /\ Home \in [Task -> Range(Project)]
    /\ Blank \notin Command /\ NoPane \notin Pane
    /\ None \notin Range(Project) \cup Task \cup Command \cup {Blank} \cup Nat
    /\ {MaxReports, MaxEdits, MaxFaults} \subseteq Nat
    /\ {MaxTime, MaxInFlight} \subseteq Nat \ {0}

VARIABLES
    now,
    actor,          \* every pane actor
    inFlight,       \* its reports not yet taken up by the sink, by age
    appended,       \* panes whose report is queued and has yet to wake the loop
    paneLatest, reportQueue,
    triggered,      \* triggerQueue holds its one element
    tick,           \* the loop
    projectCache,
    row,            \* the tasks table
    bound,          \* panes_json: the pane of every task
    paneRow,        \* the pane_runtime table
    seen,           \* external: the tasks the browsers show
    spent,          \* what has been used of the bounds
    lost,           \* history: panes whose latest report was dropped
    crossed,        \* history: panes with reports for two repositories in a batch
    overtaken,      \* history: panes with a report that a later one overtook
    silent,         \* history: tasks changed behind the cached newest time
    unsent          \* history: tasks in a message that could not be sent

paneVars  == <<actor, inFlight, appended>>
queueVars == <<paneLatest, reportQueue, triggered>>
storeVars == <<row, bound, paneRow>>
histVars  == <<lost, crossed, overtaken, silent, unsent>>
vars == <<now, paneVars, queueVars, tick, projectCache, storeVars, seen, spent, histVars>>

Projects == Range(Project)
TasksOf(j) == {t \in Task : Home[t] = j}
Shown == Command \cup {Blank}
Seconds == 0..MaxTime

Report == [pane : Pane, shown : Shown, at : 1..MaxTime]
NoRow == [parent |-> 0, command |-> Blank, archived |-> FALSE, mod |-> 0]
Exists(t) == row[t] # NoRow
\* ListTasksByProject leaves out archived rows, GetProjectMaxTaskLastModified not.
ListedAs(r) == IF r.archived THEN NoRow ELSE r
Listed(t) == ListedAs(row[t])
\* Mutant: rows that are archived do not count.
Newest_Listed(j) == LET rows == {t \in TasksOf(j) : Listed(t) # NoRow}
                    IN IF rows = {} THEN 0
                       ELSE CHOOSE m \in {row[t].mod : t \in rows} : \A t \in rows : row[t].mod <= m
Newest(j) == IF \E t \in TasksOf(j) : Exists(t)
             THEN CHOOSE m \in {row[t].mod : t \in TasksOf(j)} :
                      \A t \in TasksOf(j) : row[t].mod <= m
             ELSE 0
NoCache == [mod |-> None, rows |-> [t \in Task |-> NoRow]]

NoDelta == [t \in {} |-> NoRow]
Idle == [pc |-> "idle", projects |-> << >>, todo |-> << >>,
         batch |-> [j \in Projects |-> << >>], mod |-> 0, delta |-> NoDelta]

-----------------------------------------------------------------------------
(* What the program knows of a pane when it starts.                             *)

MaxOf(S) == CHOOSE m \in S : \A n \in S : n <= m

LastModifiedIndex(t) == IF row[t].archived THEN 0 ELSE row[t].mod

\* Mutant: the row of the pane is not looked up.
BaseOf_TaskOnly(t, p) == LastModifiedIndex(t)
\* The last activity of a pane, by a task that it is bound to: that of its own row
\* or the last change of the task, whichever is later.
BaseOf(t, p) == MaxOf({LastModifiedIndex(t), paneRow[p].at})

\* Of several such tasks the one with the latest counts.
MergePaneBaseline(bases) == IF bases = {} THEN 0 ELSE MaxOf(bases)
Baseline(p) == MergePaneBaseline({BaseOf(t, p) : t \in {u \in Task : bound[u] = p}})

\* PaneActor before Start; a time of 0 is the zero time.
NewActor(p) ==
    [started |-> FALSE, snap |-> Blank, active |-> Baseline(p), seeded |-> Baseline(p),
     reported |-> FALSE, lastAt |-> 0, sampled |-> FALSE]

NoReport(p) == [pane |-> p, shown |-> None, at |-> 0]

Init ==
    /\ now = 1
    /\ row \in {[t \in Task |-> IF t \in S THEN [NoRow EXCEPT !.mod = 1] ELSE NoRow] :
                   S \in SUBSET Task \ {{}}}
    /\ bound \in {b \in [Task -> Pane \cup {NoPane}] :
                     /\ \A t, u \in Task : b[t] = b[u] => t = u \/ b[t] = NoPane
                     /\ \A t \in Task : ~Exists(t) => b[t] = NoPane}
    /\ paneRow = [p \in Pane |-> NoReport(p)]
    /\ actor = [p \in Pane |-> NewActor(p)]
    /\ inFlight = [p \in Pane |-> << >>] /\ appended = {}
    /\ paneLatest = [p \in Pane |-> NoReport(p)]
    /\ reportQueue = << >> /\ triggered = FALSE
    /\ tick = Idle
    /\ projectCache = [j \in Projects |-> NoCache]
    /\ seen = [t \in Task |-> Listed(t)]
    /\ spent = [reports |-> 0, edits |-> 0, faults |-> 0]
    /\ lost = {} /\ crossed = {} /\ overtaken = {} /\ silent = {} /\ unsent = {}

Fault == spent.faults < MaxFaults /\ spent' = [spent EXCEPT !.faults = @ + 1]
Unspent == UNCHANGED spent

-----------------------------------------------------------------------------
(* A pane actor makes a report.                                                 *)

\* At most one a second; one that comes too early is not made later.
Throttled(a) == a.lastAt # 0 /\ now - a.lastAt < 1

\* The first report gives the activity the pane was seeded with.
ReportAt(a) ==
    IF ~a.reported /\ a.seeded # 0 THEN a.seeded
    ELSE IF a.active # 0 THEN a.active ELSE now

Reported(a) == [a EXCEPT !.lastAt = now, !.reported = TRUE]

\* reportTaskState up to the call of the sink; a is the actor as the caller leaves it.
ReportTaskState(p, a) ==
    IF Throttled(a)
    THEN actor' = [actor EXCEPT ![p] = a] /\ UNCHANGED <<inFlight, spent>>
    ELSE /\ spent.reports < MaxReports /\ Len(inFlight[p]) < MaxInFlight
         /\ spent' = [spent EXCEPT !.reports = @ + 1]
         /\ inFlight' = [inFlight EXCEPT ![p] =
                            Append(@, [pane |-> p, shown |-> a.snap, at |-> ReportAt(a)])]
         /\ actor' = [actor EXCEPT ![p] = Reported(a)]

\* The actor is created: nothing has been captured yet.
Start(p) ==
    /\ ~actor[p].started
    /\ ReportTaskState(p, [actor[p] EXCEPT !.started = TRUE])
    /\ UNCHANGED <<now, appended, queueVars, tick, projectCache, storeVars, seen, histVars>>

\* The last activity after an evaluation: the first one keeps what the pane was
\* seeded with, and a pane that nothing is known of has what tmux says.
Activity(a, shown) ==
    IF a.active = 0 THEN {0, 1, now}
    ELSE IF shown = a.snap \/ ~a.sampled THEN {a.active}
    ELSE {a.active, now}

\* onSnapshotUpdated, by output, a subscription or the status timer.
OnSnapshotUpdated(p, shown) ==
    /\ actor[p].started
    /\ \E active \in Activity(actor[p], shown) :
          ReportTaskState(p, [actor[p] EXCEPT !.snap = shown, !.active = active,
                                              !.sampled = TRUE])
    /\ UNCHANGED <<now, appended, queueVars, tick, projectCache, storeVars, seen, histVars>>
-----------------------------------------------------------------------------
(* OnPaneReport.                                                                *)

SamePaneContent(r, s) == r.shown = s.shown

Enqueue(r) ==
    IF SamePaneContent(paneLatest[r.pane], r)
    THEN UNCHANGED <<appended, paneLatest, reportQueue, lost>>
    ELSE /\ paneLatest' = [paneLatest EXCEPT ![r.pane] = r]
         /\ reportQueue' = Append(reportQueue, r)
         /\ appended' = appended \cup {r.pane}
         /\ lost' = lost \ {r.pane}

\* The reports of a pane are made on several goroutines, and tmux is asked for the
\* command before the sink is called.
OnPaneReport(p, i) ==
    /\ i \in DOMAIN inFlight[p] /\ p \notin appended
    /\ inFlight' = [inFlight EXCEPT ![p] = RemoveAt(@, i)]
    /\ Enqueue(inFlight[p][i])
    /\ overtaken' = IF i > 1 THEN overtaken \cup {p} ELSE overtaken
    /\ UNCHANGED <<now, actor, triggered, tick, projectCache, storeVars, seen, spent,
                   crossed, silent, unsent>>

\* The send to triggerQueue, which does not wait for room.
Trigger(p) ==
    /\ p \in appended
    /\ appended' = appended \ {p}
    /\ triggered' = TRUE
    /\ UNCHANGED <<now, actor, inFlight, paneLatest, reportQueue, tick, projectCache,
                   storeVars, seen, spent, histVars>>

-----------------------------------------------------------------------------
(* Tick: the reports.                                                           *)

RunLoop ==
    /\ tick.pc = "idle" /\ triggered
    /\ triggered' = FALSE
    /\ tick' = [Idle EXCEPT !.pc = "projects"]
    /\ UNCHANGED <<now, paneVars, paneLatest, reportQueue, projectCache, storeVars, seen,
                   spent, histVars>>

PanesOf(reports) == {r.pane : r \in Range(reports)}

\* swapDirtyReports; without projects, or with a list of them that could not be
\* read, the reports are dropped.
TakeReports(projects) ==
    /\ reportQueue' = << >>
    /\ IF projects = << >>
       THEN tick' = Idle /\ lost' = lost \cup PanesOf(reportQueue)
       ELSE /\ tick' = [tick EXCEPT !.pc = "match", !.projects = projects, !.todo = reportQueue]
            /\ UNCHANGED lost

LoadProjects ==
    /\ tick.pc = "projects"
    /\ \/ TakeReports(Project) /\ Unspent
       \/ TakeReports(<< >>) /\ Fault
    /\ UNCHANGED <<now, paneVars, paneLatest, triggered, projectCache, storeVars, seen,
                   crossed, overtaken, silent, unsent>>

\* A report goes to the repository of one task that the pane is bound to, and to
\* the first one when there is none. What cannot be read has no bindings.
Owners(r, readable) == {t \in Task : bound[t] = r.pane /\ Home[t] \in readable}
Matched(r, readable) ==
    IF Owners(r, readable) = {} THEN {[repo |-> Project[1], task |-> None]}
    ELSE {[repo |-> Home[t], task |-> t] : t \in Owners(r, readable)}

AddToBatch(r, m) ==
    /\ tick' = [tick EXCEPT !.todo = Tail(@),
                            !.batch[m.repo] = Append(@, [report |-> r, task |-> m.task])]
    /\ crossed' = IF \E j \in Projects \ {m.repo} :
                        \E k \in DOMAIN tick.batch[j] : tick.batch[j][k].report.pane = r.pane
                  THEN crossed \cup {r.pane} ELSE crossed \ {r.pane}

MatchReport ==
    /\ tick.pc = "match" /\ tick.todo # << >>
    /\ LET r == Head(tick.todo) IN
           \/ \E m \in Matched(r, Projects) : AddToBatch(r, m) /\ Unspent
           \/ \E j \in Projects : \E m \in Matched(r, Projects \ {j}) : AddToBatch(r, m) /\ Fault
    /\ UNCHANGED <<now, paneVars, queueVars, projectCache, storeVars, seen,
                   lost, overtaken, silent, unsent>>

\* The rows a batch leaves: those of its last report of every pane and task.
OfPane(batch, p) == {k \in DOMAIN batch : batch[k].report.pane = p}
OfTask(batch, t) == {k \in DOMAIN batch : batch[k].task = t}
LastAmong(batch, ks) == batch[MaxOf(ks)].report
\* Mutant: a row that is there already is not overwritten.
PaneRowOf_First(batch, p) ==
    IF paneRow[p].shown # None THEN paneRow[p]
    ELSE IF OfPane(batch, p) = {} THEN paneRow[p] ELSE LastAmong(batch, OfPane(batch, p))
PaneRowOf(batch, p) ==
    IF OfPane(batch, p) = {} THEN paneRow[p] ELSE LastAmong(batch, OfPane(batch, p))
\* No command shown leaves the one there is, and last_modified is left alone.
TaskRowOf(batch, t) ==
    LET r == LastAmong(batch, OfTask(batch, t))
    IN IF Exists(t) /\ OfTask(batch, t) # {} /\ r.shown \in Command
       THEN [row[t] EXCEPT !.command = r.shown] ELSE row[t]

BatchUpsertRuntime(j) ==
    LET batch == tick.batch[j]
    IN /\ paneRow' = [p \in Pane |-> PaneRowOf(batch, p)]
       /\ row' = [t \in Task |-> TaskRowOf(batch, t)]
       /\ silent' = silent \cup {t \in Task : row'[t] # row[t]}
       /\ UNCHANGED <<bound, lost>>

\* A batch that fails is dropped; the order of the batches is that of a map.
StoreBatch(j) ==
    /\ tick.pc = "match" /\ tick.todo = << >> /\ tick.batch[j] # << >>
    /\ \/ BatchUpsertRuntime(j) /\ Unspent
       \/ /\ Fault /\ UNCHANGED <<storeVars, silent>>
          /\ lost' = lost \cup ({e.report.pane : e \in Range(tick.batch[j])}
                                   \ PanesOf(reportQueue))
    /\ tick' = [tick EXCEPT !.batch[j] = << >>]
    /\ UNCHANGED <<now, paneVars, queueVars, projectCache, seen, crossed, overtaken, unsent>>

-----------------------------------------------------------------------------
(* Tick: the tasks.                                                             *)

NextProject == tick' = [tick EXCEPT !.pc = "match", !.projects = Tail(@)]

\* The batches are written before the tasks are compared.
Flushed == tick.pc = "match" /\ tick.todo = << >> /\ \A j \in Projects : tick.batch[j] = << >>

\* Nothing is done for a project whose newest change is the one known already.
ReadMax ==
    /\ Flushed /\ tick.projects # << >>
    /\ LET j == Head(tick.projects) IN
           \/ projectCache[j].mod = Newest(j) /\ NextProject /\ Unspent
           \/ /\ projectCache[j].mod # Newest(j) /\ Unspent
              /\ tick' = [tick EXCEPT !.pc = "list", !.mod = Newest(j)]
           \/ NextProject /\ Fault
    /\ UNCHANGED <<now, paneVars, queueVars, projectCache, storeVars, seen, histVars>>

Reparented(old, new) == old # NoRow /\ new # NoRow /\ old.parent # new.parent
Content(r) == [command |-> r.command, mod |-> r.mod]
Updated(old, new) == old # NoRow /\ new # NoRow /\ Content(old) # Content(new)
Added(old, new) == old = NoRow /\ new # NoRow
Removed(old, new) == old # NoRow /\ new = NoRow

\* diffTaskRows, as the row a browser is left with for every task it names.
TaskDelta(old, new) ==
    [t \in {u \in Task : \/ Added(old[u], new[u]) \/ Removed(old[u], new[u])
                         \/ Updated(old[u], new[u]) \/ Reparented(old[u], new[u])} |-> new[t]]

ListTasks ==
    /\ tick.pc = "list"
    /\ LET j     == Head(tick.projects)
           rows  == [t \in Task |-> IF Home[t] = j THEN Listed(t) ELSE NoRow]
           delta == TaskDelta(projectCache[j].rows, rows)
       IN \/ /\ projectCache' = [projectCache EXCEPT ![j] = [mod |-> tick.mod, rows |-> rows]]
             /\ tick' = [tick EXCEPT !.pc = "match", !.projects = Tail(@), !.mod = 0,
                            !.delta = [t \in DOMAIN delta \cup DOMAIN @ |->
                                          IF t \in DOMAIN delta THEN delta[t] ELSE @[t]]]
             /\ silent' = silent \ DOMAIN delta
             /\ Unspent
          \/ NextProject /\ Fault /\ UNCHANGED <<projectCache, silent>>
    /\ UNCHANGED <<now, paneVars, queueVars, storeVars, seen, lost, crossed, overtaken, unsent>>

\* An error of the send is ignored.
EmitTmuxStatusDelta(delta) ==
    \/ /\ seen' = [t \in Task |-> IF t \in DOMAIN delta THEN delta[t] ELSE seen[t]]
       /\ unsent' = unsent \ DOMAIN delta
       /\ Unspent
    \/ /\ unsent' = unsent \cup DOMAIN delta
       /\ Fault /\ UNCHANGED seen

\* One message for the whole turn, and none if nothing has changed.
Emit ==
    /\ Flushed /\ tick.projects = << >>
    /\ tick' = Idle
    /\ IF tick.delta = NoDelta THEN UNCHANGED <<seen, unsent, spent>>
       ELSE EmitTmuxStatusDelta(tick.delta)
    /\ UNCHANGED <<now, paneVars, queueVars, projectCache, storeVars,
                   lost, crossed, overtaken, silent>>

-----------------------------------------------------------------------------
(* Requests change the tasks and the bindings, one statement at a time.         *)

Edit == spent.edits < MaxEdits /\ spent' = [spent EXCEPT !.edits = @ + 1]

\* A change that the next turn has no sign of: last_modified is not above the time
\* that is cached, or the task will be listed as it is cached, having gone before it
\* was ever listed or having been changed and changed back within a second.
Unnoticed(t, new) ==
    LET c == projectCache[Home[t]]
    IN \/ c.mod # None /\ new.mod <= c.mod
       \/ ListedAs(new) = c.rows[t]
       \/ new = NoRow

ChangeRow(t, new) ==
    /\ Edit
    /\ row' = [row EXCEPT ![t] = new]
    /\ silent' = IF Unnoticed(t, new) THEN silent \cup {t} ELSE silent
    /\ UNCHANGED <<now, paneVars, queueVars, tick, projectCache, bound, paneRow, seen,
                   lost, crossed, overtaken, unsent>>

\* last_modified is the time the statement was made up, which may be a second ago.
Stamp == {m \in {now - 1, now} : m > 0}

InsertTask(t) ==
    /\ ~Exists(t)
    /\ \E m \in Stamp : ChangeRow(t, [NoRow EXCEPT !.mod = m])

UpsertTaskMeta(t) ==
    /\ Exists(t)
    /\ \E m \in Stamp, new \in {[row[t] EXCEPT !.parent = 1 - @],
                                [row[t] EXCEPT !.archived = TRUE]} :
          ChangeRow(t, [new EXCEPT !.mod = m])

DeleteTask(t) == Exists(t) /\ ChangeRow(t, NoRow)

SavePanes(t, p) ==
    /\ Exists(t) /\ bound[t] # p
    /\ p # NoPane => \A u \in Task : bound[u] # p
    /\ Edit
    /\ bound' = [bound EXCEPT ![t] = p]
    /\ UNCHANGED <<now, paneVars, queueVars, tick, projectCache, row, paneRow, seen, histVars>>

-----------------------------------------------------------------------------

\* External: a browser loads the tasks of all projects.
LoadTree ==
    /\ seen' = [t \in Task |-> Listed(t)]
    /\ unsent' = {}
    /\ UNCHANGED <<now, paneVars, queueVars, tick, projectCache, storeVars, spent,
                   lost, crossed, overtaken, silent>>

\* The program ends and starts again; browsers connect again and load the tasks.
Restart ==
    /\ Fault
    /\ actor' = [p \in Pane |-> NewActor(p)]
    /\ inFlight' = [p \in Pane |-> << >>] /\ appended' = {}
    /\ paneLatest' = [p \in Pane |-> NoReport(p)]
    /\ reportQueue' = << >> /\ triggered' = FALSE
    /\ tick' = Idle
    /\ projectCache' = [j \in Projects |-> NoCache]
    /\ seen' = [t \in Task |-> Listed(t)]
    /\ lost' = {} /\ crossed' = {} /\ overtaken' = {} /\ silent' = {} /\ unsent' = {}
    /\ UNCHANGED <<now, storeVars>>

Second ==
    /\ now < MaxTime /\ now' = now + 1
    /\ UNCHANGED <<paneVars, queueVars, tick, projectCache, storeVars, seen, spent, histVars>>

TickStep ==
    \/ RunLoop \/ LoadProjects \/ MatchReport \/ ReadMax \/ ListTasks \/ Emit
    \/ \E j \in Projects : StoreBatch(j)

Next ==
    \/ TickStep
    \/ \E p \in Pane :
          \/ Start(p) \/ Trigger(p)
          \/ \E shown \in Command : OnSnapshotUpdated(p, shown)
          \/ \E i \in 1..MaxInFlight : OnPaneReport(p, i)
    \/ \E t \in Task :
          \/ InsertTask(t) \/ UpsertTaskMeta(t) \/ DeleteTask(t)
          \/ \E p \in Pane \cup {NoPane} : SavePanes(t, p)
    \/ LoadTree \/ Restart \/ Second

Spec == Init /\ [][Next]_vars

-----------------------------------------------------------------------------

Row   == [parent : {0, 1}, command : Shown, archived : BOOLEAN, mod : Seconds]
Actor == [started : BOOLEAN, snap : Shown, active : Seconds, seeded : Seconds,
          reported : BOOLEAN, lastAt : Seconds, sampled : BOOLEAN]
Entry == [report : Report, task : Task \cup {None}]
Cache == [mod : Seconds \cup {None}, rows : [Task -> {r \in Row : ~r.archived}]]
Turn  == [pc : {"idle", "projects", "match", "list"}, projects : Seq(Projects),
          todo : Seq(Report), batch : [Projects -> Seq(Entry)], mod : Seconds,
          delta : UNION {[S -> Row] : S \in SUBSET Task}]

(* Every variable holds what the program can put there.                         *)
TypeOK ==
    /\ now \in 1..MaxTime
    /\ actor \in [Pane -> Actor]
    /\ inFlight \in [Pane -> Seq(Report)]
    /\ {paneLatest, paneRow} \subseteq [Pane -> Report \cup {NoReport(p) : p \in Pane}]
    /\ \A p \in Pane :
          /\ Len(inFlight[p]) <= MaxInFlight
          /\ \A i \in DOMAIN inFlight[p] : inFlight[p][i].pane = p
          /\ paneLatest[p] \in Report \cup {NoReport(p)}
          /\ paneRow[p] \in Report \cup {NoReport(p)}
    /\ reportQueue \in Seq(Report) /\ triggered \in BOOLEAN
    /\ tick \in Turn
    /\ projectCache \in [Projects -> Cache]
    /\ row \in [Task -> Row] /\ seen \in [Task -> Row]
    /\ bound \in [Task -> Pane \cup {NoPane}]
    /\ spent \in [reports : 0..MaxReports, edits : 0..MaxEdits, faults : 0..MaxFaults]
    /\ appended \cup lost \cup crossed \cup overtaken \subseteq Pane
    /\ silent \cup unsent \subseteq Task

\* The latest report that the actor has taken, wherever it has got to.
Of(reports, p) == {k \in DOMAIN reports : reports[k].pane = p}
LastReport(reports, p) == reports[MaxOf(Of(reports, p))]
Batched(p) == {j \in Projects : OfPane(tick.batch[j], p) # {}}
LatestOf(p) ==
    IF Of(reportQueue, p) # {} THEN {LastReport(reportQueue, p)}
    ELSE IF Of(tick.todo, p) # {} THEN {LastReport(tick.todo, p)}
    ELSE IF Batched(p) # {}
    THEN {LastAmong(tick.batch[j], OfPane(tick.batch[j], p)) : j \in Batched(p)}
    ELSE {paneRow[p]}

(* What the sink takes for known of a pane, and so drops when it comes again, is *)
(* what is stored or will be: otherwise the row would stay old for as long as the *)
(* pane shows the same. It is not so only after a call has failed, and when two  *)
(* reports of one turn have gone to two repositories (OnPaneReport,             *)
(* flushDirtyRuntime).                                                          *)
KnownIsStored ==
    \A p \in Pane : paneLatest[p].shown = None \/ p \in lost \cup crossed
                    \/ LatestOf(p) = {paneLatest[p]}

(* Between two turns a browser shows every task as it is in the store, or the   *)
(* next turn finds its project changed, unless the change was made behind the   *)
(* cached time or its message was lost (diffProjectsTree, diffTaskRows).        *)
TreeShownOrNoticed ==
    tick.pc = "idle" =>
        \A t \in Task : seen[t] = Listed(t) \/ t \in silent \cup unsent
                        \/ projectCache[Home[t]].mod # Newest(Home[t])

(* The stored time of a pane's last activity never goes back, over restarts too, *)
(* but when reports are stored out of order or nothing was known of the pane at  *)
(* the start (reportTaskState, loadPaneRuntimeBaselineFromDB).                  *)
ActivityNotBackdated ==
    [][\A p \in Pane : \/ paneRow'[p].at >= paneRow[p].at
                       \/ p \in crossed \cup overtaken \/ actor[p].seeded = 0]_vars

-----------------------------------------------------------------------------
(* What every step preserves, so that the properties above follow.              *)

\* A turn starts with nothing, and has written its batches before it lists tasks.
TurnInStep ==
    /\ tick.pc \in {"idle", "projects"} => tick.projects = << >> /\ tick.delta = NoDelta
    /\ tick.pc # "match" => tick.todo = << >> /\ \A j \in Projects : tick.batch[j] = << >>
    /\ tick.pc = "list" => tick.projects # << >>

\* What is known of a pane is its latest report in the queue, or else in what the
\* turn has taken from it; one repository gets it all, unless it is crossed.
KnownIsLast ==
    \A p \in Pane :
        /\ Of(reportQueue, p) # {} => LastReport(reportQueue, p) = paneLatest[p]
        /\ Of(reportQueue, p) = {} /\ Of(tick.todo, p) # {}
              => LastReport(tick.todo, p) = paneLatest[p]
        /\ p \in crossed \/ \A j, k \in Batched(p) : j = k

\* What a browser will show once the turn's message has come.
Coming(t) == IF t \in DOMAIN tick.delta THEN tick.delta[t] ELSE seen[t]
Unknown(t) == t \in silent \/ t \in unsent \ DOMAIN tick.delta
\* The task itself makes the next turn look at its project.
Ahead(t) == projectCache[Home[t]].mod = None \/ row[t].mod > projectCache[Home[t]].mod

\* Browsers show or will show a task as it is, or it is ahead of the cache; and the
\* cache, where it has the task as it is, will find no difference and need not.
TreeComing ==
    /\ \A t \in Task : Coming(t) = Listed(t) \/ Unknown(t) \/ Ahead(t)
    /\ \A t \in Task : Coming(t) = Listed(t) \/ Unknown(t)
                        \/ projectCache[Home[t]].rows[t] # Listed(t)
    /\ \A j \in Projects : \A t \in Task \ TasksOf(j) : projectCache[j].rows[t] = NoRow

\* The times of a pane's reports, from the stored one back to the actor: no later
\* stage has an earlier time, and the actor's next report no earlier one than any.
Times(reports, p) == {reports[k].at : k \in Of(reports, p)}
BatchTimes(batch, p) == {batch[k].report.at : k \in OfPane(batch, p)}
StoredTimes(p) == {paneRow[p].at} \cup UNION {BatchTimes(tick.batch[j], p) : j \in Projects}
NotAfter(S, T) == \A s \in S, t \in T : s <= t
Sorted(reports, p) == \A i, k \in Of(reports, p) : i < k => reports[i].at <= reports[k].at
SortedBatch(batch, p) ==
    \A i, k \in OfPane(batch, p) : i < k => batch[i].report.at <= batch[k].report.at
NextTime(a) == IF a.reported THEN a.active ELSE a.seeded

TimesInOrder ==
    \A p \in Pane : p \in overtaken \/ actor[p].seeded = 0 \/
        /\ NotAfter(StoredTimes(p), Times(tick.todo, p))
        /\ NotAfter(StoredTimes(p) \cup Times(tick.todo, p), Times(reportQueue, p))
        /\ NotAfter(StoredTimes(p) \cup Times(tick.todo, p) \cup Times(reportQueue, p),
                    Times(inFlight[p], p))
        /\ NotAfter(StoredTimes(p) \cup Times(tick.todo, p) \cup Times(reportQueue, p)
                       \cup Times(inFlight[p], p), {NextTime(actor[p])})
        /\ Sorted(tick.todo, p) /\ Sorted(reportQueue, p) /\ Sorted(inFlight[p], p)
        /\ \A j \in Projects :
              /\ SortedBatch(tick.batch[j], p)
              /\ p \notin crossed \/ tick.todo # << >>
                    => NotAfter({paneRow[p].at}, BatchTimes(tick.batch[j], p))

\* No time is in the future, and a pane's activity not before what it was seeded with.
TimesPassed ==
    /\ \A t \in Task : row[t].mod <= now
    /\ \A p \in Pane :
          /\ actor[p].seeded <= actor[p].active /\ actor[p].active <= now
          /\ NotAfter(StoredTimes(p) \cup Times(tick.todo, p) \cup Times(reportQueue, p)
                         \cup Times(inFlight[p], p), {now})

StateInv ==
    /\ TypeOK /\ TurnInStep /\ KnownIsLast /\ KnownIsStored /\ TreeComing
    /\ TimesInOrder /\ TimesPassed

================================================================================
