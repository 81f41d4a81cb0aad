-------------------------------- MODULE TaskPanes --------------------------------
(* The tasks of a project and the panes bound to them                           *)
(* (cli/internal/localapi: routes_tasks.go, routes_panes.go,                    *)
(* shell_ready_gate.go; projectstate: store.go, task_state_store.go).           *)
(*                                                                              *)
(* Tasks are rows of one table. Bindings are one map per project, panes_json,   *)
(* which every handler loads, changes and saves as a whole. A request runs on a *)
(* goroutine of its own; an action is one of its statements of the store or one *)
(* call of tmux, and the other requests run between two of them. No handler     *)
(* locks anything and none uses a transaction.                                  *)
(*                                                                              *)
(* A pane that exits by itself is one nothing is claimed about, and tmux is not *)
(* restarted, so that pane ids are used once.                                   *)
EXTENDS Naturals, FiniteSets

CONSTANTS
    Request,        \* goroutines that serve a request
    NoTask, NoPane,
    MaxRequests,    \* bound: requests, and so tasks created and panes opened
    MaxErrors       \* bound: failing statements and failing tmux calls

ASSUME TaskPanesAssumption ==
    /\ NoTask \notin Nat /\ NoPane \notin Nat
    /\ MaxRequests \in Nat /\ MaxErrors \in Nat

Task == 0..MaxRequests          \* 0 is there from the start, with pane 0
Foreign == MaxRequests + 1      \* a pane opened by hand in tmux
Pane == 0..Foreign
Role == {"full", "planner", "executor"}
Status == {"", "pending", "running", "waiting_children", "completed"}

VARIABLES
    row,            \* the tasks table
    panes,          \* panes_json
    alive,          \* panes there are in tmux
    lastTask, lastPane,
    req,            \* what every goroutine is doing
    served, errors,
    answered,       \* history: the pane of every task whose request answered OK
    exposed,        \* history: tasks rebound while a request held an older map
    late,           \* history: tasks archived, or bound, behind the other's back
    opening,        \* history: panes adopted before the request that opened them saved
    retired,        \* history: panes left open when a launch replaced them
    cut             \* history: parents whose child's rollback was cut short

storeVars == <<row, panes>>
tmuxVars  == <<alive, lastPane>>
histVars  == <<answered, exposed, late, opening, retired, cut>>
vars == <<storeVars, tmuxVars, lastTask, req, served, errors, histVars>>

\* A row of tasks; there is none while status is "absent".
NoRow == [status |-> "absent", parent |-> NoTask, role |-> "full",
          checked |-> FALSE, archived |-> FALSE]
Exists(t) == t # NoTask /\ row[t].status # "absent"
\* What ListTasksByProject shows: rows that are not archived.
Listed(t) == Exists(t) /\ ~row[t].archived
Children(t) == {u \in Task : Listed(u) /\ row[u].parent = t}

\* A binding; gated while the shell has yet to be seen ready
\* (ShellReadyRequired and not ShellReadyAcked).
Binding(p, gated) == [pane |-> p, gated |-> gated]
Unbound == Binding(NoPane, FALSE)
Nothing == [t \in Task |-> Unbound]
Bound(map, t) == map[t] # Unbound

\* What a goroutine does: the kind of request, where it is, the task it is for or
\* has created, the parent, the role, its pane, its copy of panes_json (held from
\* load to save), and for an archive the tasks it has listed and has yet to close.
Idle == [kind |-> "none", pc |-> "idle", task |-> NoTask, parent |-> NoTask,
         role |-> "full", pane |-> NoPane, copy |-> Nothing, held |-> FALSE,
         list |-> {}, todo |-> {}]

At(q, pc) == req[q].pc = pc
Step(q, changes) == req' = [req EXCEPT ![q] = changes]
GoTo(q, pc) == req' = [req EXCEPT ![q].pc = pc]
Ends(q) == req' = [req EXCEPT ![q] = Idle]

Init ==
    /\ \E role \in Role, checked \in BOOLEAN :
          row = [t \in Task |-> IF t # 0 THEN NoRow ELSE
                    [NoRow EXCEPT !.status = "running", !.role = role, !.checked = checked]]
    /\ panes = [Nothing EXCEPT ![0] = Binding(0, FALSE)]
    /\ alive = {0, Foreign}
    /\ lastTask = 0 /\ lastPane = 0
    /\ req = [q \in Request |-> Idle] /\ served = 0 /\ errors = 0
    /\ answered = [t \in Task |-> IF t = 0 THEN 0 ELSE NoPane]
    /\ exposed = {} /\ late = {} /\ opening = {} /\ retired = {} /\ cut = {}

--------------------------------------------------------------------------------
(* A request begins.                                                            *)

Begins(q, pc, request) ==
    /\ At(q, "idle") /\ served < MaxRequests
    /\ served' = served + 1
    /\ req' = [req EXCEPT ![q] = [request EXCEPT !.pc = pc]]
    /\ UNCHANGED <<storeVars, tmuxVars, lastTask, errors, histVars>>

\* handleProjectRootPaneCreate drops the role of the request (createTask).
RootPaneCreate(q) == Begins(q, "role", [Idle EXCEPT !.kind = "root"])

\* handlePaneCreate: a sibling gets the parent of the task asked for.
PaneCreate(q, t, relation, role) ==
    /\ Listed(t)
    /\ Begins(q, "load", [Idle EXCEPT !.kind = "create", !.role = role,
                 !.parent = IF relation = "child" THEN t ELSE row[t].parent])

AdoptPane(q, t, p) ==
    /\ Listed(t)
    /\ Begins(q, "load", [Idle EXCEPT !.kind = "adopt", !.parent = t, !.pane = p])

\* handleCreateTask takes any parent, also one that has been archived.
CreateTask(q, t, role) ==
    /\ t = NoTask \/ Exists(t)
    /\ Begins(q, "role", [Idle EXCEPT !.kind = "task", !.parent = t, !.role = role])

DeriveTask(q, t) ==
    /\ Listed(t)
    /\ Begins(q, "role", [Idle EXCEPT !.kind = "task", !.parent = t])

ManualLaunch(q, t) ==
    /\ Listed(t)
    /\ Begins(q, "load", [Idle EXCEPT !.kind = "launch", !.task = t])

\* handlePostTaskMessage with source tty_write_stdin.
WriteStdin(q, t) ==
    /\ Listed(t)
    /\ Begins(q, "load", [Idle EXCEPT !.kind = "input", !.task = t])

\* handleUpdateTaskStatus, handleUpdateTaskChecked and the patches of other fields.
Patch(q, t, what) ==
    /\ Listed(t)
    /\ Begins(q, "patch", [Idle EXCEPT !.kind = what, !.task = t])

ArchiveChecked(q) ==
    LET checked == {t \in Task : Listed(t) /\ row[t].checked}
    IN  /\ Begins(q, "load", [Idle EXCEPT !.kind = "archive", !.list = checked])

--------------------------------------------------------------------------------
(* panes_json.                                                                  *)

\* Where each kind of request goes once it has the map.
AfterLoad(q, kind) ==
    CASE kind = "root"    -> "save"
      [] kind = "create"  -> "role"
      [] kind = "adopt"   -> "role"
      [] kind = "launch"  -> "open"
      [] kind = "archive" -> "close"
      [] kind = "input"   -> IF panes[req[q].task].gated THEN "wait" ELSE "sent"

\* A request is done with its copy.
Dropped(q) == [req[q] EXCEPT !.held = FALSE, !.copy = Nothing]

\* PANE_ALREADY_BOUND and TASK_PANE_NOT_FOUND.
RefusedOn(q, map) ==
    \/ req[q].kind = "adopt" /\ \E t \in Task : map[t].pane = req[q].pane
    \/ req[q].kind = "input" /\ ~Bound(map, req[q].task)

LoadPanes(q) ==
    /\ At(q, "load")
    /\ IF RefusedOn(q, panes) \/ AfterLoad(q, req[q].kind) = "sent"
       THEN Ends(q)
       ELSE Step(q, [req[q] EXCEPT
                !.pc = AfterLoad(q, req[q].kind), !.copy = panes, !.held = TRUE,
                !.todo = {t \in req[q].list : Bound(panes, t)}])
    /\ UNCHANGED <<storeVars, tmuxVars, lastTask, served, errors, histVars>>

\* What a request makes of a map: an archive takes its tasks out, an input marks
\* the shell as seen ready, the others bind their task.
Changed(q, map) ==
    CASE req[q].kind = "archive" ->
            [u \in Task |-> IF u \in req[q].list THEN Unbound ELSE map[u]]
      [] req[q].kind = "input"   -> [map EXCEPT ![req[q].task].gated = FALSE]
      [] OTHER -> [map EXCEPT ![req[q].task] =
                      Binding(req[q].pane, req[q].kind \in {"root", "create"})]

\* Mutants: the map is read again for the save; only the new binding is saved; an
\* archive leaves the bindings.
NewMap_Fresh(q) == Changed(q, panes)
NewMap_Only(q) == Changed(q, Nothing)
NewMap_Kept(q) == IF req[q].kind = "archive" THEN req[q].copy ELSE Changed(q, req[q].copy)

NewMap(q) == Changed(q, req[q].copy)

AfterSave(q) ==
    CASE req[q].kind = "archive" -> Step(q, [Dropped(q) EXCEPT !.pc = "archive"])
      [] req[q].kind = "input"   -> Ends(q)
      [] OTHER                   -> Step(q, [Dropped(q) EXCEPT !.pc = "find"])

SavePanes(q) ==
    /\ At(q, "save")
    /\ panes' = NewMap(q)
    /\ AfterSave(q)
    /\ exposed' = exposed \union
          {t \in Task : /\ panes'[t] # req[q].copy[t]
                        /\ \E o \in Request \ {q} : req[o].held /\ req[o].copy[t] # panes'[t]}
    /\ late' = late \union {t \in {req[q].task} \ {NoTask} :
                              row[t].archived \/ \E o \in Request : t \in req[o].list}
    /\ opening' = opening \union
          {p \in {req[q].pane} : /\ req[q].kind = "adopt"
                                 /\ \E o \in Request : /\ req[o].kind = "root" /\ At(o, "load")
                                                        /\ req[o].pane = p}
    /\ retired' = retired \union ({panes[t].pane : t \in {req[q].task} \ {NoTask}} \ {req[q].pane})
    /\ UNCHANGED <<row, tmuxVars, lastTask, served, errors, answered, cut>>

--------------------------------------------------------------------------------
(* createTaskWithRole.                                                          *)

\* Where a request that creates a task goes once the task is there.
AfterCreate(q, r) ==
    CASE r.kind = "task"  -> Ends(q)
      [] r.kind = "adopt" -> Step(q, [r EXCEPT !.pc = "save"])
      [] OTHER            -> Step(q, [r EXCEPT !.pc = "open"])

\* A parent that is not found counts as one with the role full.
ParentRole(t) == IF Listed(t) THEN row[t].role ELSE "full"

MayDelegate(parent, role) ==
    \/ parent = NoTask
    \/ ParentRole(parent) = "full"
    \/ ParentRole(parent) = "planner" /\ role = "executor"

CheckRole(q) ==
    /\ At(q, "role")
    /\ IF MayDelegate(req[q].parent, req[q].role) THEN GoTo(q, "insert") ELSE Ends(q)
    /\ UNCHANGED <<storeVars, tmuxVars, lastTask, served, errors, histVars>>

InsertTask(q) ==
    /\ At(q, "insert")
    /\ lastTask' = lastTask + 1
    /\ row' = [row EXCEPT ![lastTask + 1] =
                  [NoRow EXCEPT !.status = "pending", !.parent = req[q].parent,
                                !.role = req[q].role]]
    /\ LET r == [req[q] EXCEPT !.task = lastTask + 1]
       IN  IF r.parent = NoTask THEN AfterCreate(q, r)
                                ELSE Step(q, [r EXCEPT !.pc = "readParent"])
    /\ UNCHANGED <<panes, tmuxVars, served, errors, histVars>>

ReadParent(q) ==
    /\ At(q, "readParent")
    /\ IF Listed(req[q].parent) /\ row[req[q].parent].status # "waiting_children"
       THEN GoTo(q, "setParent")
       ELSE AfterCreate(q, req[q])
    /\ UNCHANGED <<storeVars, tmuxVars, lastTask, served, errors, histVars>>

\* UpsertTaskMeta inserts a row where there is none any more: no parent, full.
Upserted(t, status) ==
    IF Exists(t) THEN [row EXCEPT ![t].status = IF status = "" THEN @ ELSE status]
                 ELSE [row EXCEPT ![t] = [NoRow EXCEPT !.status = status]]

SetParent(q) ==
    /\ At(q, "setParent")
    /\ row' = Upserted(req[q].parent, "waiting_children")
    /\ AfterCreate(q, req[q])
    /\ UNCHANGED <<panes, tmuxVars, lastTask, served, errors, histVars>>

--------------------------------------------------------------------------------
(* The pane, the task's status, its run and its command.                        *)

\* CreateRootPaneInDir, CreateSiblingPaneInDir, CreateChildPaneInDir. The login
\* shell of a manual launch is not waited for.
OpenPane(q) ==
    /\ At(q, "open")
    /\ lastPane' = lastPane + 1
    /\ alive' = alive \union {lastPane + 1}
    /\ Step(q, [req[q] EXCEPT !.pc = IF req[q].kind = "root" THEN "load" ELSE "save",
                              !.pane = lastPane + 1])
    /\ UNCHANGED <<storeVars, lastTask, served, errors, histVars>>

\* A failure after the task was created: rollbackTaskCreation, but not for a
\* launch, whose task was there before, nor within createTaskWithRole; a rollback
\* that fails is given up.
Fails(q) ==
    IF /\ req[q].kind \in {"root", "create", "adopt"} /\ req[q].task # NoTask
       /\ req[q].pc \in {"load", "open", "save", "find", "setRunning", "finish"}
    THEN Step(q, [Dropped(q) EXCEPT !.pc = "rbFind"])
    ELSE Ends(q)

\* updateTaskStatusInternal.
FindTask(q) ==
    /\ At(q, "find")
    /\ IF Listed(req[q].task) THEN GoTo(q, "setRunning") ELSE Fails(q)
    /\ UNCHANGED <<storeVars, tmuxVars, lastTask, served, errors, histVars>>

SetRunning(q) ==
    /\ At(q, "setRunning")
    /\ row' = Upserted(req[q].task, "running")
    /\ GoTo(q, "finish")
    /\ UNCHANGED <<panes, tmuxVars, lastTask, served, errors, histVars>>

\* createRunAndLiveBinding, whose tables TaskRuns models, and
\* persistTaskCurrentCommand, which does nothing when tmux names no command.
\* A launch makes no run, an adoption leaves the command.
Finish(q) ==
    /\ At(q, "finish")
    /\ \/ row' = row
       \/ req[q].kind # "adopt" /\ row' = Upserted(req[q].task, "")
    /\ answered' = [answered EXCEPT ![req[q].task] = req[q].pane]
    /\ Ends(q)
    /\ UNCHANGED <<panes, tmuxVars, lastTask, served, errors, exposed, late, opening, retired, cut>>

--------------------------------------------------------------------------------
(* rollbackTaskCreation: panes_json and tmux stay as they are.                  *)

RollbackFind(q) ==
    /\ At(q, "rbFind")
    /\ IF Listed(req[q].task)
       THEN Step(q, [req[q] EXCEPT !.pc = "rbDelete", !.parent = row[req[q].task].parent])
       ELSE Ends(q)
    /\ UNCHANGED <<storeVars, tmuxVars, lastTask, served, errors, histVars>>

RollbackDelete(q) ==
    /\ At(q, "rbDelete")
    /\ row' = [row EXCEPT ![req[q].task] = NoRow]
    /\ GoTo(q, "rbList")
    /\ UNCHANGED <<panes, tmuxVars, lastTask, served, errors, histVars>>

\* Mutant: the row that was deleted still counts as a child.
RollbackList_OwnRow(q) ==
    /\ At(q, "rbList")
    /\ Ends(q)
    /\ UNCHANGED <<storeVars, tmuxVars, lastTask, served, errors, histVars>>

RollbackList(q) ==
    /\ At(q, "rbList")
    /\ LET p == req[q].parent
       IN  IF Listed(p) /\ row[p].status = "waiting_children" /\ Children(p) = {}
           THEN GoTo(q, "rbParent")
           ELSE Ends(q)
    /\ UNCHANGED <<storeVars, tmuxVars, lastTask, served, errors, histVars>>

RollbackParent(q) ==
    /\ At(q, "rbParent")
    /\ row' = Upserted(req[q].parent, "pending")
    /\ Ends(q)
    /\ UNCHANGED <<panes, tmuxVars, lastTask, served, errors, histVars>>

--------------------------------------------------------------------------------
(* Patches, archiving and input.                                                *)

PatchTask(q) ==
    /\ At(q, "patch")
    /\ LET t == req[q].task
       IN  row' = CASE req[q].kind = "status" -> Upserted(t, "completed")
                    [] req[q].kind = "other"  -> Upserted(t, "")
                    [] req[q].kind = "check"   -> [Upserted(t, "") EXCEPT ![t].checked = TRUE]
                    [] req[q].kind = "uncheck" -> [Upserted(t, "") EXCEPT ![t].checked = FALSE]
    /\ Ends(q)
    /\ UNCHANGED <<panes, tmuxVars, lastTask, served, errors, histVars>>

\* archiveCheckedTasksByProject closes the panes in the order of the list; that a
\* pane is gone already is no error.
CloseNext(q) ==
    /\ At(q, "close")
    /\ IF req[q].todo = {}
       THEN /\ Step(q, IF \E t \in req[q].list : Bound(req[q].copy, t)
                       THEN [req[q] EXCEPT !.pc = "save"]
                       ELSE [Dropped(q) EXCEPT !.pc = "archive"])
            /\ UNCHANGED alive
       ELSE LET t == CHOOSE t \in req[q].todo : \A u \in req[q].todo : t <= u
            IN  /\ alive' = alive \ {req[q].copy[t].pane}
                /\ Step(q, [req[q] EXCEPT !.todo = @ \ {t}])
    /\ UNCHANGED <<storeVars, lastPane, lastTask, served, errors, histVars>>

\* ArchiveCheckedTasksByProject: every row that is checked by now.
ArchiveRows(q) ==
    /\ At(q, "archive")
    /\ LET rows == {t \in Task : Listed(t) /\ row[t].checked}
       IN  /\ row' = [t \in Task |-> IF t \in rows THEN [row[t] EXCEPT !.archived = TRUE]
                                     ELSE row[t]]
           /\ late' = late \union (rows \ req[q].list)
    /\ Ends(q)
    /\ UNCHANGED <<panes, tmuxVars, lastTask, served, errors, answered, exposed, opening, retired, cut>>

\* waitPaneShellReady: the shell sets its option, or the pane is gone or eight
\* seconds are over (SHELL_NOT_READY). The input itself is sent after the save.
ShellIsReady(q) ==
    /\ At(q, "wait")
    /\ GoTo(q, "save") \/ Ends(q)
    /\ UNCHANGED <<storeVars, tmuxVars, lastTask, served, errors, histVars>>

\* A statement or a tmux call fails. Errors of a rollback are ignored.
CallFails(q) ==
    /\ ~At(q, "idle") /\ errors < MaxErrors
    /\ At(q, "close") => req[q].todo # {}
    /\ errors' = errors + 1
    /\ Fails(q)
    /\ cut' = IF At(q, "rbList") \/ At(q, "rbParent") THEN cut \union {req[q].parent} ELSE cut
    /\ UNCHANGED <<storeVars, tmuxVars, lastTask, served, answered, exposed, late, opening, retired>>

Begin(q) ==
    \/ RootPaneCreate(q) \/ ArchiveChecked(q)
    \/ \E t \in Task :
          \/ \E role \in Role : \/ CreateTask(q, t, role)
                                \/ \E rel \in {"sibling", "child"} : PaneCreate(q, t, rel, role)
          \/ \E p \in alive : AdoptPane(q, t, p)
          \/ DeriveTask(q, t) \/ ManualLaunch(q, t) \/ WriteStdin(q, t)
          \/ \E what \in {"status", "other", "check", "uncheck"} : Patch(q, t, what)
    \/ \E role \in Role : CreateTask(q, NoTask, role)

Handle(q) ==
    \/ LoadPanes(q) \/ SavePanes(q)
    \/ CheckRole(q) \/ InsertTask(q) \/ ReadParent(q) \/ SetParent(q)
    \/ OpenPane(q) \/ FindTask(q) \/ SetRunning(q) \/ Finish(q)
    \/ RollbackFind(q) \/ RollbackDelete(q) \/ RollbackList(q) \/ RollbackParent(q)
    \/ PatchTask(q) \/ CloseNext(q) \/ ArchiveRows(q) \/ ShellIsReady(q)

Next == \E q \in Request : Begin(q) \/ Handle(q) \/ CallFails(q)

Spec == Init /\ [][Next]_vars

--------------------------------------------------------------------------------
(* Properties.                                                                  *)

PaneOrNone == Pane \union {NoPane}
TaskOrNone == Task \union {NoTask}
Maps == [Task -> [pane : PaneOrNone, gated : BOOLEAN]]

Rows == [status : Status \union {"absent"}, parent : TaskOrNone, role : Role,
         checked : BOOLEAN, archived : BOOLEAN]

Patches == {"status", "other", "check", "uncheck"}
Creators == {"root", "create", "adopt", "task"}
Openers == {"root", "create", "launch"}
Kind == {"none", "archive", "input", "launch"} \union Creators \union Patches

PC == {"idle", "load", "role", "insert", "readParent", "setParent", "open", "save", "find",
       "setRunning", "finish", "rbFind", "rbDelete", "rbList", "rbParent", "patch", "close",
       "archive", "wait"}

RequestState == [kind : Kind, pc : PC, task : TaskOrNone, parent : TaskOrNone, role : Role,
                 pane : PaneOrNone, copy : Maps, held : BOOLEAN,
                 list : SUBSET Task, todo : SUBSET Task]

TypeOK ==
    /\ row \in [Task -> Rows]
    /\ panes \in Maps /\ alive \subseteq Pane
    /\ lastTask \in Task /\ lastPane \in Pane
    /\ served \in 0..MaxRequests /\ errors \in 0..MaxErrors
    /\ req \in [Request -> RequestState]
    /\ answered \in [Task -> PaneOrNone]
    /\ exposed \subseteq Task /\ late \subseteq Task /\ opening \subseteq Pane
    /\ retired \subseteq PaneOrNone /\ cut \subseteq TaskOrNone

\* Adopting refuses a pane that another task has (PANE_ALREADY_BOUND), but on a
\* copy of the map, and several adoptions may be under way. Since a copy is saved
\* as a whole, the map still never binds a pane twice; the one exception is a pane
\* adopted after a request for a root pane has opened it and before that request
\* has loaded the map.
PaneBoundOnce ==
    \A t, u \in Task :
        t # u /\ Bound(panes, t) /\ panes[t].pane = panes[u].pane => panes[t].pane \in opening

\* A task whose request answered OK can be reached through its pane as long as
\* that is open and was not replaced by a launch, unless some request held a map
\* from before its binding.
OpenPanesBound ==
    \A t \in Task : answered[t] \in alive \ retired => Bound(panes, t) \/ t \in exposed

\* Archiving takes the bindings along: an archived task is bound to a pane only if
\* a request held an older map, or it was checked after the rows were listed, or
\* bound after they were.
ArchivedUnbound ==
    \A t \in Task : row[t].archived /\ Bound(panes, t) => t \in exposed \union late

\* A task waits for its children only while it has some, a rollback is about to see
\* to it, or an error has cut that rollback short.
WaitingForSomebody ==
    \A t \in Task : Listed(t) /\ row[t].status = "waiting_children" =>
        \/ \E u \in Task : Exists(u) /\ row[u].parent = t
        \/ \E q \in Request : req[q].parent = t /\ (At(q, "rbList") \/ At(q, "rbParent"))
        \/ t \in cut

--------------------------------------------------------------------------------
(* The inductive invariant.                                                     *)

\* What a request has, by where it is: its task once that is created, its pane once
\* that is open, a copy of the map between load and save.
Footing(r) ==
    /\ r.pc = "idle" <=> r.kind = "none"
    /\ r.pc \in {"role", "insert"} => r.kind \in Creators /\ r.task = NoTask
    /\ r.pc \in {"readParent", "setParent"} =>
          r.kind \in Creators /\ r.task # NoTask /\ r.parent # NoTask
    /\ r.pc = "open" => r.kind \in Openers /\ r.task # NoTask
    /\ r.pc = "load" =>
          /\ r.kind \in {"root", "create", "adopt", "launch", "input", "archive"}
          /\ r.kind \in {"create", "adopt"} <=> r.task = NoTask /\ r.kind # "archive"
    /\ r.pc \in {"save", "find", "setRunning", "finish"} =>
          \/ r.kind \in {"root", "create", "adopt", "launch"} /\ r.task # NoTask /\ r.pane # NoPane
          \/ r.pc = "save" /\ r.kind = "input" /\ r.task # NoTask /\ Bound(r.copy, r.task)
          \/ r.pc = "save" /\ r.kind = "archive" /\ r.todo = {}
    /\ r.pc \in {"rbFind", "rbDelete", "rbList", "rbParent"} =>
          r.kind \in Creators /\ r.task # NoTask
    /\ r.pc = "rbParent" => r.parent # NoTask
    /\ r.pc \in {"close", "archive"} => r.kind = "archive"
    /\ r.pc = "wait" => r.kind = "input" /\ r.task # NoTask /\ Bound(r.copy, r.task)
    /\ r.pc = "patch" => r.kind \in Patches /\ r.task # NoTask
    /\ r.kind = "adopt" => r.pane # NoPane
    /\ r.kind \in Openers /\ r.pc \in {"role", "insert", "readParent", "setParent", "open"} =>
          r.pane = NoPane
    /\ r.pc = "load" => (r.kind = "root" <=> r.kind \in Openers /\ r.pane # NoPane)
    /\ r.kind = "archive" => r.task = NoTask
    /\ r.held <=> \/ r.pc \in {"save", "wait", "close"}
                  \/ r.kind \in {"create", "adopt", "launch"} /\
                     r.pc \in {"role", "insert", "readParent", "setParent", "open"}

RequestsKeepFooting == \A q \in Request : Footing(req[q])

\* Requests that have yet to create their task, or to open their pane: each has been
\* counted as served.
ToInsert(r) ==
    \/ r.pc \in {"role", "insert"}
    \/ r.pc = "load" /\ r.kind \in {"create", "adopt"}
ToOpen(r) == r.kind \in Openers /\ r.pane = NoPane
Inserting == {q \in Request : ToInsert(req[q])}
Opening == {q \in Request : ToOpen(req[q])}

IdsLeft ==
    /\ IsFiniteSet(Inserting) /\ lastTask + Cardinality(Inserting) <= served
    /\ IsFiniteSet(Opening) /\ lastPane + Cardinality(Opening) <= served

\* Nobody knows a task or a pane that is yet to be created, and whoever creates one
\* is alone with it.
KnownTasks == 0..lastTask \union {NoTask}
KnownPanes == 0..lastPane \union {Foreign, NoPane}
Owner(r) == r.kind \in Creators /\ r.task # NoTask
HasOpened(r) == r.kind \in Openers /\ r.pane # NoPane

TasksKnown ==
    /\ \A t \in Task : Exists(t) => t \in KnownTasks /\ row[t].parent \in KnownTasks
    /\ \A q \in Request : req[q].task \in KnownTasks /\ req[q].parent \in KnownTasks
    /\ \A q, o \in Request :
          q # o /\ Owner(req[q]) /\ Owner(req[o]) => req[q].task # req[o].task

PanesKnown ==
    /\ alive \subseteq KnownPanes \ {NoPane}
    /\ \A t \in Task : panes[t].pane \in KnownPanes /\ answered[t] \in KnownPanes
    /\ \A q \in Request :
          req[q].pane \in KnownPanes /\ \A t \in Task : req[q].copy[t].pane \in KnownPanes
    /\ \A q, o \in Request :
          q # o /\ HasOpened(req[q]) /\ HasOpened(req[o]) => req[q].pane # req[o].pane

\* A task that a request has created is there until that request deletes it.
TasksOwned ==
    \A q \in Request : Owner(req[q]) /\ req[q].pc \notin {"rbList", "rbParent"} =>
        Exists(req[q].task) /\ row[req[q].task].parent = req[q].parent

\* There is no pane-less binding.
Whole(map) == \A t \in Task : map[t].pane = NoPane => map[t] = Unbound

\* A map binds no pane twice.
Once(map) ==
    \A t, u \in Task :
        t # u /\ Bound(map, t) /\ map[t].pane = map[u].pane => map[t].pane \in opening

\* A copy is what the map is, but for the tasks that are exposed.
CopiesCurrent ==
    /\ Whole(panes)
    /\ \A q \in Request : req[q].held =>
          /\ Whole(req[q].copy) /\ Once(req[q].copy)
          /\ \A t \in Task \ exposed : req[q].copy[t] = panes[t]

\* A pane that is about to be bound is not in the copy it is added to, and the pane
\* of a root request that has yet to load the map is in none.
PaneIsNew ==
    /\ \A q \in Request, t \in Task :
          /\ req[q].held /\ req[q].kind \in Openers \union {"adopt"}
          /\ req[q].pane # NoPane /\ req[q].copy[t].pane = req[q].pane
          => req[q].pane \in opening
    /\ \A q, o \in Request, t \in Task :
          /\ req[q].kind = "root" /\ At(q, "load")
          /\ \/ panes[t].pane = req[q].pane
             \/ req[o].held /\ req[o].copy[t].pane = req[q].pane
          => req[q].pane \in opening

\* A task is bound to the pane its request answered with, or is about to.
AnsweredBound ==
    /\ \A t \in Task \ exposed :
          answered[t] \in alive \ retired => panes[t].pane = answered[t]
    /\ \A q \in Request :
          /\ req[q].pc \in {"find", "setRunning", "finish"}
          /\ req[q].pane \in alive \ retired /\ req[q].task \notin exposed
          => panes[req[q].task].pane = req[q].pane

\* An archive has closed the panes it is about to take out of the map, and has taken
\* them out before it archives.
ClosedThenUnbound ==
    \A q \in Request : req[q].kind = "archive" =>
        /\ req[q].held => \A t \in req[q].list \ req[q].todo :
              Bound(req[q].copy, t) => req[q].copy[t].pane \notin alive
        /\ req[q].pc = "archive" => \A t \in req[q].list :
              Bound(panes, t) => t \in exposed \union late

TasksInv == RequestsKeepFooting /\ IdsLeft /\ TasksKnown /\ TasksOwned /\ WaitingForSomebody

BindingsInv ==
    /\ PanesKnown /\ CopiesCurrent /\ PaneIsNew /\ AnsweredBound /\ ClosedThenUnbound
    /\ PaneBoundOnce /\ ArchivedUnbound

PanesInv == TypeOK /\ TasksInv /\ BindingsInv

================================================================================
