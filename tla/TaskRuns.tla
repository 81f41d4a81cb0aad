-------------------------------- MODULE TaskRuns --------------------------------
(* The runs of one task and what completes them (cli/internal/localapi:         *)
(* run_autocomplete.go, task_completion.go, routes_runs.go, routes_panes.go;    *)
(* projectstate/run_store.go). A pane that falls silent completes the run bound *)
(* to it and posts a turn to the task's agent; requests create, bind and resume *)
(* runs; a tmux server that was restarted makes the bindings to it stale.       *)
(*                                                                              *)
(* The task has one pane and is not in advisor mode, in which nothing below     *)
(* happens by itself. An action is one statement of the store, because requests *)
(* run beside each other and no transaction spans two of them, but for          *)
(* MarkBindingsStaleByServer. The process may stop between any two.             *)
EXTENDS Naturals

CONSTANTS
    Run,            \* runs of the task
    Call,           \* goroutines that serve a request, a trigger or the fallback
    NoRun,
    MaxSecond,      \* bound: seconds in which the pane is active
    MaxServer,      \* bound: server instance ids
    MaxStoreErrors, \* bound: failing statements
    MaxRestarts     \* bound: restarts of the process

ASSUME TaskRunsAssumption ==
    /\ NoRun \notin Run
    /\ MaxSecond \in Nat /\ MaxServer \in Nat \ {0}
    /\ MaxStoreErrors \in Nat /\ MaxRestarts \in Nat

Second == 1..MaxSecond
Server == 1..MaxServer

VARIABLES
    task,           \* tasks.status, as far as it is read here
    observed,       \* tasks.last_auto_progress_at
    run,            \* task_runs.run_status of every run, "none" before it exists
    binding,        \* run_bindings.binding_status of every run
    boundTo,        \* run_bindings.server_instance_id
    server,         \* detectServerInstanceID, fixed while the process lives
    clock,          \* the last second the pane was active in
    fallback,       \* the timer of scheduleChildSpawnAutoProgressFallback is set
    call,           \* what every goroutine is doing
    storeErrors, restarts,
    marked,         \* history: seconds whose trigger was accepted
    turns,          \* history: turns posted for every second
    lost,           \* history: accepted seconds whose completion was cut short
    torn            \* history: runs whose binding was cut short or overtaken

storeVars == <<task, observed, run, binding, boundTo>>
envVars   == <<server, clock, fallback, restarts>>
histVars  == <<marked, turns, lost, torn>>
runsVars == <<storeVars, envVars, call, storeErrors, histVars>>

\* What a goroutine does: kind, the statement it is at, the second it was
\* triggered by (0 if by none), its run and the server it found that bound to.
Doing(kind, pc, second, r, old) ==
    [kind |-> kind, pc |-> pc, second |-> second, run |-> r, old |-> old]
IdleCall == Doing("none", "idle", 0, NoRun, 0)

CallAt(c, pc) == call[c].pc = pc
Starts(c, kind, pc, second, r) ==
    /\ CallAt(c, "idle")
    /\ call' = [call EXCEPT ![c] = Doing(kind, pc, second, r, 0)]
GoTo(c, pc) == call' = [call EXCEPT ![c].pc = pc]
Ends(c) == call' = [call EXCEPT ![c] = IdleCall]

\* The task has been created with its pane, which makes a run and binds it
\* (createRunAndLiveBinding) and, for a child in autopilot mode, sets the
\* fallback's timer; a pane that was launched by hand comes without a run.
RunsInit ==
    /\ task = "running" /\ observed = 0
    /\ \E first \in SUBSET Run :
          /\ \A r, q \in first : r = q
          /\ run = [r \in Run |-> IF r \in first THEN "running" ELSE "none"]
          /\ binding = [r \in Run |-> IF r \in first THEN "live" ELSE "none"]
    /\ boundTo = [r \in Run |-> 1]
    /\ server = 1 /\ clock = 0 /\ fallback \in BOOLEAN
    /\ call = [c \in Call |-> IdleCall]
    /\ storeErrors = 0 /\ restarts = 0
    /\ marked = {} /\ turns = [s \in Second |-> 0] /\ lost = {} /\ torn = {}

--------------------------------------------------------------------------------
(* Runs and bindings: handleCreateRun, handleRunBindPane, handleRunResume.      *)

\* handleCreateRun: the run is running before it has a binding.
CreateRun(r) ==
    /\ run[r] = "none"
    /\ run' = [run EXCEPT ![r] = "running"]
    /\ UNCHANGED <<task, observed, binding, boundTo, envVars, call, storeErrors, histVars>>

\* handleRunBindPane: findRun.
BindPane(c, r) ==
    /\ run[r] # "none"
    /\ Starts(c, "bind", "bind", 0, r)
    /\ UNCHANGED <<storeVars, envVars, storeErrors, histVars>>

\* One row per run: the new binding replaces the old one.
UpsertRunBinding(c) ==
    /\ CallAt(c, "bind")
    /\ binding' = [binding EXCEPT ![call[c].run] = "live"]
    /\ boundTo' = [boundTo EXCEPT ![call[c].run] = server]
    /\ GoTo(c, "running")
    /\ UNCHANGED <<task, observed, run, envVars, storeErrors, histVars>>

\* SetRunStatus(running) has no condition on the status the run has by now.
SetRunning(c) ==
    /\ CallAt(c, "running")
    /\ run' = [run EXCEPT ![call[c].run] = "running"]
    /\ torn' = torn \ {call[c].run}
    /\ Ends(c)
    /\ UNCHANGED <<task, observed, binding, boundTo, envVars, storeErrors,
                   marked, turns, lost>>

Resume(c, r) ==
    /\ run[r] # "none"
    /\ Starts(c, "resume", "check", 0, r)
    /\ UNCHANGED <<storeVars, envVars, storeErrors, histVars>>

--------------------------------------------------------------------------------
(* invalidateBindingIfServerChanged.                                            *)

\* GetLiveBindingByRunID: no live binding counts as an unchanged server.
CheckBinding(c) ==
    /\ CallAt(c, "check")
    /\ LET r == call[c].run
       IN  IF binding[r] = "live" /\ boundTo[r] # server
           THEN call' = [call EXCEPT ![c].pc = "stale", ![c].old = boundTo[r]]
           ELSE IF call[c].kind = "resume" THEN Ends(c) ELSE GoTo(c, "complete")
    /\ UNCHANGED <<storeVars, envVars, storeErrors, histVars>>

\* Mutant: the runs of the server's bindings are left as they are.
MarkBindingsStaleByServer_RunsKept(c) ==
    /\ CallAt(c, "stale")
    /\ binding' = [r \in Run |-> IF boundTo[r] = call[c].old /\ binding[r] = "live"
                                 THEN "stale" ELSE binding[r]]
    /\ GoTo(c, "rebind")
    /\ UNCHANGED <<task, observed, run, boundTo, envVars, storeErrors, histVars>>

\* Mutant: every run is parked, whatever server it is bound to.
MarkBindingsStaleByServer_All(c) ==
    /\ CallAt(c, "stale")
    /\ run' = [r \in Run |-> IF run[r] # "none" THEN "needs_rebind" ELSE "none"]
    /\ binding' = [r \in Run |-> IF binding[r] = "live" /\ boundTo[r] = call[c].old
                                 THEN "stale" ELSE binding[r]]
    /\ GoTo(c, "rebind")
    /\ UNCHANGED <<task, observed, boundTo, envVars, storeErrors, histVars>>

\* One transaction: the live bindings to the old server become stale, and every
\* run with a stale binding to it, also one completed long ago, needs a rebind.
MarkBindingsStaleByServer(c) ==
    /\ CallAt(c, "stale")
    /\ LET ofOld == {r \in Run : binding[r] # "none" /\ boundTo[r] = call[c].old}
       IN  /\ binding' = [r \in Run |-> IF r \in ofOld THEN "stale" ELSE binding[r]]
           /\ run' = [r \in Run |-> IF r \in ofOld THEN "needs_rebind" ELSE run[r]]
    /\ GoTo(c, "rebind")
    /\ UNCHANGED <<task, observed, boundTo, envVars, storeErrors, histVars>>

\* SetRunStatus(needs_rebind), of a run that may have been bound again since. The
\* trigger that finds its server gone ends here: its second is spent.
SetNeedsRebind(c) ==
    /\ CallAt(c, "rebind")
    /\ LET r == call[c].run
       IN  /\ run' = [run EXCEPT ![r] = "needs_rebind"]
           /\ torn' = IF binding[r] = "live" THEN torn \union {r} ELSE torn
    /\ lost' = lost \union ({call[c].second} \ {0})
    /\ Ends(c)
    /\ UNCHANGED <<task, observed, binding, boundTo, envVars, storeErrors, marked, turns>>

--------------------------------------------------------------------------------
(* AutoCompleteByPane.                                                          *)

\* The pane actor reports ready, with the second the pane was last active in.
PaneReady(c, s) ==
    /\ s \in {clock, clock + 1} \ {0}
    /\ clock' = s
    /\ Starts(c, "trigger", "mark", s, NoRun)
    /\ UNCHANGED <<storeVars, server, fallback, restarts, storeErrors, histVars>>

\* The fallback for a child that is ready from the start goes on if the task is
\* still running and the pane is ready by now; it skips the mark.
FallbackFires(c) ==
    /\ fallback /\ fallback' = FALSE
    /\ \/ task = "running" /\ Starts(c, "fallback", "find", 0, NoRun)
       \/ CallAt(c, "idle") /\ UNCHANGED call
    /\ UNCHANGED <<storeVars, server, clock, restarts, storeErrors, histVars>>

\* Mutant: a second that equals the stored one is accepted.
TryMark_NotStrict(c) ==
    /\ CallAt(c, "mark")
    /\ LET s == call[c].second
       IN  IF observed <= s
           THEN /\ observed' = s
                /\ marked' = marked \union {s}
                /\ GoTo(c, "find")
           ELSE Ends(c) /\ UNCHANGED <<observed, marked>>
    /\ UNCHANGED <<task, run, binding, boundTo, envVars, storeErrors, turns, lost, torn>>

\* TryMarkTaskAutoProgressObserved: one upsert, which compares and writes.
TryMark(c) ==
    /\ CallAt(c, "mark")
    /\ LET s == call[c].second
       IN  IF observed < s
           THEN /\ observed' = s
                /\ marked' = marked \union {s}
                /\ GoTo(c, "find")
           ELSE Ends(c) /\ UNCHANGED <<observed, marked>>
    /\ UNCHANGED <<task, run, binding, boundTo, envVars, storeErrors, turns, lost, torn>>

\* findLiveRunningRunByPaneTargetForTask: the runs it chooses from.
LiveRunning == {r \in Run : run[r] = "running" /\ binding[r] = "live"}

\* The newest by updated_at, which has the resolution of a second. Without one the
\* task itself is completed.
FindRun(c) ==
    /\ CallAt(c, "find")
    /\ \/ LiveRunning = {} /\ GoTo(c, "task")
       \/ \E r \in LiveRunning :
             call' = [call EXCEPT ![c].pc = "check", ![c].run = r]
    /\ UNCHANGED <<storeVars, envVars, storeErrors, histVars>>

\* completeRunAndEnqueueActions: MarkRunCompleted, unconditional.
MarkRunCompleted(c) ==
    /\ CallAt(c, "complete")
    /\ run' = [run EXCEPT ![call[c].run] = "completed"]
    /\ torn' = torn \ {call[c].run}
    /\ GoTo(c, "task")
    /\ UNCHANGED <<task, observed, binding, boundTo, envVars, storeErrors,
                   marked, turns, lost>>

\* updateTaskStatusInternal; a run's completion is also written to the outbox.
CompleteTask(c) ==
    /\ CallAt(c, "task")
    /\ task' = "completed"
    /\ GoTo(c, IF call[c].run = NoRun THEN "post" ELSE "outbox")
    /\ UNCHANGED <<observed, run, binding, boundTo, envVars, storeErrors, histVars>>

EnqueueRunAction(c) ==
    /\ CallAt(c, "outbox")
    /\ GoTo(c, "post")
    /\ UNCHANGED <<storeVars, envVars, storeErrors, histVars>>

\* Mutant: only the completion of a run posts a turn.
PostTurn_RunOnly(c) ==
    /\ CallAt(c, "post")
    /\ turns' = [s \in Second |-> IF s = call[c].second /\ call[c].run # NoRun
                                  THEN turns[s] + 1 ELSE turns[s]]
    /\ Ends(c)
    /\ UNCHANGED <<storeVars, envVars, storeErrors, marked, lost, torn>>

\* sendTaskAgentLoop: the turn is accepted by the task's conversation.
PostTurn(c) ==
    /\ CallAt(c, "post")
    /\ turns' = [s \in Second |-> IF s = call[c].second THEN turns[s] + 1 ELSE turns[s]]
    /\ Ends(c)
    /\ UNCHANGED <<storeVars, envVars, storeErrors, marked, lost, torn>>

--------------------------------------------------------------------------------
(* The user, failures, restarts.                                                *)

\* handleUpdateTaskStatus.
SetTaskStatus(status) ==
    /\ task' = status
    /\ UNCHANGED <<observed, run, binding, boundTo, envVars, call, storeErrors, histVars>>

\* A call that has been accepted for a second and has posted nothing yet.
Owes(c, s) == call[c].second = s /\ call[c].pc \notin {"idle", "mark"}

\* A bind that has not yet set its run to running.
HalfBound(c, r) == CallAt(c, "running") /\ call[c].run = r

CutShort(C) ==
    /\ lost' = lost \union {s \in Second : \E c \in C : Owes(c, s)}
    /\ torn' = torn \union {r \in Run : \E c \in C : HalfBound(c, r)}

\* A statement fails and the handler returns its error; nothing is undone.
StoreError(c) ==
    /\ call[c].pc \notin {"idle", "post"}
    /\ storeErrors < MaxStoreErrors
    /\ storeErrors' = storeErrors + 1
    /\ CutShort({c})
    /\ Ends(c)
    /\ UNCHANGED <<storeVars, envVars, marked, turns>>

\* The process starts again, maybe under another SHELLMAN_SERVER_INSTANCE_ID.
Restart(id) ==
    /\ restarts < MaxRestarts
    /\ restarts' = restarts + 1
    /\ server' = id
    /\ fallback' = FALSE
    /\ CutShort(Call)
    /\ call' = [c \in Call |-> IdleCall]
    /\ UNCHANGED <<storeVars, clock, storeErrors, marked, turns>>

RunsNext ==
    \/ \E c \in Call, r \in Run :
          CreateRun(r) \/ BindPane(c, r) \/ Resume(c, r)
    \/ \E c \in Call :
          \/ UpsertRunBinding(c) \/ SetRunning(c)
          \/ CheckBinding(c) \/ MarkBindingsStaleByServer(c) \/ SetNeedsRebind(c)
          \/ FallbackFires(c) \/ TryMark(c) \/ FindRun(c) \/ MarkRunCompleted(c)
          \/ CompleteTask(c) \/ EnqueueRunAction(c) \/ PostTurn(c) \/ StoreError(c)
          \/ \E s \in Second : PaneReady(c, s)
    \/ \E status \in {"running", "completed"} : SetTaskStatus(status)
    \/ \E id \in Server : Restart(id)

RunsSpec == RunsInit /\ [][RunsNext]_runsVars

--------------------------------------------------------------------------------
Kind == {"none", "bind", "resume", "trigger", "fallback"}
PC == {"idle", "bind", "running", "check", "stale", "rebind", "mark", "find",
       "complete", "task", "outbox", "post"}

CallState == [kind : Kind, pc : PC, second : 0..MaxSecond, run : Run \union {NoRun},
              old : 0..MaxServer]

RunsTypeOK ==
    /\ task \in {"running", "completed"}
    /\ observed \in 0..MaxSecond /\ clock \in 0..MaxSecond
    /\ run \in [Run -> {"none", "running", "completed", "needs_rebind"}]
    /\ binding \in [Run -> {"none", "live", "stale"}]
    /\ boundTo \in [Run -> Server] /\ server \in Server /\ fallback \in BOOLEAN
    /\ call \in [Call -> CallState]
    /\ storeErrors \in 0..MaxStoreErrors /\ restarts \in 0..MaxRestarts
    /\ marked \subseteq Second /\ lost \subseteq Second /\ torn \subseteq Run
    /\ turns \in [Second -> Nat]

\* One activity of a pane, named by its second, makes the pane actor's triggers
\* post at most one turn, whichever goroutines race for it and however often the
\* process is restarted in between.
OneTurnPerSecond == \A s \in Second : turns[s] <= 1

\* A trigger that was accepted is not forgotten: it has posted its turn, is on its
\* way to, or was cut short by an error, a restart or a server that is gone.
AcceptedSecondsAccounted ==
    \A s \in marked : turns[s] = 1 \/ s \in lost \/ \E c \in Call : Owes(c, s)

\* A run is not left running on a binding that is stale, although the binding and
\* the run are two tables that requests write one after the other.
StaleRunsParked == \A r \in Run : binding[r] = "stale" => run[r] # "running"

\* A run with a live binding stays usable: writing off a server parks no run that
\* is bound to another one, unless the late half of it overtakes the very request
\* that binds the run again.
ReboundRunsKept ==
    \A r \in Run : binding[r] = "live" /\ run[r] = "needs_rebind"
        => r \in torn \/ \E c \in Call : HalfBound(c, r)

\* What a call has established when it is at a statement, and no other goroutine
\* undoes: its run exists, the binding it wrote is the one there is, the server
\* it is about to write off is not the present one.
CallsKeepFooting ==
    \A c \in Call :
        LET r == call[c].run
        IN  /\ call[c].pc = "mark" => call[c].second \in Second
            /\ call[c].second # 0 => call[c].kind = "trigger"
            /\ call[c].pc \in {"bind", "running"} => call[c].kind = "bind"
            /\ call[c].pc \in {"bind", "running", "check", "stale", "rebind", "complete"}
                   => r \in Run /\ run[r] # "none"
            /\ call[c].pc = "running" => binding[r] = "live" /\ boundTo[r] = server
            /\ call[c].pc = "stale" => call[c].old # server

\* The mark lies at or after every second that was accepted, and whoever owes the
\* turn of a second is alone with it and has not posted it.
MarkBehindNone ==
    /\ \A s \in marked : s <= observed
    /\ \A s \in Second : turns[s] # 0 => s \in marked
    /\ \A c \in Call, s \in Second : Owes(c, s) =>
          /\ s \in marked /\ turns[s] = 0
          /\ \A d \in Call : Owes(d, s) => d = c

\* Only runs that exist have a binding.
BindingsOfRuns == \A r \in Run : binding[r] # "none" => run[r] # "none"

\* The strengthening of the properties above that every step preserves.
RunsInv ==
    /\ RunsTypeOK /\ CallsKeepFooting /\ MarkBehindNone /\ BindingsOfRuns
    /\ OneTurnPerSecond /\ AcceptedSecondsAccounted
    /\ StaleRunsParked /\ ReboundRunsKept

================================================================================
