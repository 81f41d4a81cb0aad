------------------------------ MODULE TaskMessages ------------------------------
(* A task's conversation with its agent: messages posted to the task's queue,   *)
(* the handler that turns each into a row of task_messages and settles it, the  *)
(* stop button, and the tools through which a running agent posts messages to   *)
(* related tasks (cli/internal/localapi: routes_tasks.go, task_agent_actor.go,  *)
(* task_messages_stop.go; projectstate/run_store.go). The queue and its actor   *)
(* are ConversationRuntime, whose steps are taken here one by one.              *)
(*                                                                              *)
(* Turns are numbered in the order they are posted. A row's text is nothing, a  *)
(* partial reply or the reply; a response id is named by the turn it came from. *)
EXTENDS Naturals, Sequences, FiniteSets

CONSTANTS
    Task,
    Related,        \* pairs <<t, u>>: t's agent has a tool that posts to u
    Stopper,        \* stop requests
    Runner,         \* kinds of runner the server may be given: "context", "plain"
    QueueSize,      \* defaultConversationQueueSize (64)
    MaxTurns,       \* bound: messages posted
    MaxStoreErrors, \* bound: failing reads and writes of task_messages
    MaxCrashes      \* bound: restarts of the process

ASSUME TaskMessagesAssumption ==
    /\ Related \subseteq Task \X Task
    /\ \A t \in Task : <<t, t>> \notin Related
    /\ Runner \subseteq {"context", "plain"}
    /\ QueueSize \in Nat \ {0}
    /\ MaxTurns \in Nat /\ MaxStoreErrors \in Nat /\ MaxCrashes \in Nat

Turn == 1..MaxTurns
NoTurn == 0

VARIABLES
    called, actors, sendq, queue, stage, current, inflight, cancelled, calling, log,
                    \* the variables of ConversationRuntime
    runner,         \* it continues responses ("context") or takes a prompt only
    rows,           \* assistant rows of every task, by id
    handler,        \* the handler of every task, while it handles a turn
    runOf,          \* taskMessageRunByTask: the row a stop would cancel, or 0
    stopped,        \* turns whose run context a stop has cancelled
    stopper,        \* every stop request inside handleStopTaskMessage
    storeErrors, crashes,
    unsettled       \* history: turns spoiled by a store error or a crash

\* Nobody calls Cancel of the runtime: a stop cancels the run, not the event.
Runtime == INSTANCE ConversationRuntime
             WITH Key <- Task, Event <- Turn, Canceller <- {}, NoEvent <- NoTurn

queueVars == <<called, actors, sendq, queue, stage, current, inflight, cancelled, calling, log>>
stopVars  == <<stopped, stopper>>
faultVars == <<storeErrors, crashes, unsettled>>
vars == <<queueVars, runner, rows, handler, runOf, stopVars, faultVars>>

\* The handler's local variables, its program counter first.
Handler(pc, row, prev, tool, out) ==
    [pc |-> pc, row |-> row, prev |-> prev, tool |-> tool, out |-> out]
NoHandler == Handler("none", 0, NoTurn, NoTurn, "none")

\* A stop request: answered says that it replied canceled = true.
NotStopping == [pc |-> "idle", task |-> "none", row |-> 0, answered |-> FALSE]

Init ==
    /\ Runtime!RuntimeInit
    /\ runner \in Runner
    /\ rows = [t \in Task |-> <<>>]
    /\ handler = [t \in Task |-> NoHandler]
    /\ runOf = [t \in Task |-> 0]
    /\ stopped = {}
    /\ stopper = [x \in Stopper |-> NotStopping]
    /\ storeErrors = 0 /\ crashes = 0 /\ unsettled = {}

\* A read or write of the store fails.
StoreFails == storeErrors < MaxStoreErrors /\ storeErrors' = storeErrors + 1
StoreWorks == UNCHANGED storeErrors

--------------------------------------------------------------------------------
(* handlePostTaskMessage enqueues the message with the prompt it has built; what *)
(* the prompt says is left out.                                                 *)

Posted(t, e) ==
    /\ e = Cardinality(called) + 1
    /\ Runtime!EnqueueCall(t, e)

\* A user, or the auto-progress trigger of the task's pane, posts a message.
UserPost(t, e) ==
    /\ Posted(t, e)
    /\ UNCHANGED <<runner, rows, handler, runOf, stopVars, faultVars>>

EnqueueSend(t, e) ==
    /\ Runtime!EnqueueSend(t, e)
    /\ UNCHANGED <<runner, rows, handler, runOf, stopVars, faultVars>>

\* Turns a tool call is waiting to post. Tools run their request through
\* HTTPExecutor, whose context never ends, so they do not give up.
ToolTurns == {handler[t].tool : t \in Task}

UserGivesUp(t, e) ==
    /\ e \notin ToolTurns
    /\ Runtime!EnqueueGiveUp(t, e)
    /\ UNCHANGED <<runner, rows, handler, runOf, stopVars, faultVars>>

--------------------------------------------------------------------------------
(* The actor's loop; the handler is runTaskAgentLoopEventHybrid.                *)

Take(t) ==
    /\ Runtime!Take(t)
    /\ UNCHANGED <<runner, rows, handler, runOf, stopVars, faultVars>>

HandlerCalled(t) ==
    /\ Runtime!SetInflight(t)
    /\ handler' = [handler EXCEPT ![t] = Handler("read", 0, NoTurn, NoTurn, "none")]
    /\ UNCHANGED <<runner, rows, runOf, stopVars, faultVars>>

HandlerReturned(t) ==
    /\ handler[t].pc = "return"
    /\ Runtime!HandlerReturn(t)
    /\ handler' = [handler EXCEPT ![t] = NoHandler]
    /\ UNCHANGED <<runner, rows, runOf, stopVars, faultVars>>

RoundEnds(t) ==
    /\ Runtime!CancelOwn(t) \/ Runtime!ClearInflight(t)
    /\ UNCHANGED <<runner, rows, handler, runOf, stopVars, faultVars>>

\* A step of the handler from one pc to the next.
At(t, pc) == handler[t].pc = pc
GoTo(t, pc) == handler' = [handler EXCEPT ![t].pc = pc]

\* The handler gives up before it has a row to settle.
ReturnsEarly(t) ==
    /\ StoreFails
    /\ unsettled' = unsettled \union {current[t]}
    /\ GoTo(t, "return")
    /\ UNCHANGED <<crashes, rows>>

\* Mutant: only replies that still stand as completed are continued.
LatestResponse_Completed(t) ==
    LET answered == {i \in DOMAIN rows[t] :
                        rows[t][i].resp # NoTurn /\ rows[t][i].status = "completed"}
    IN  IF answered = {} THEN NoTurn
        ELSE rows[t][CHOOSE i \in answered : \A j \in answered : j <= i].resp

\* GetLatestTaskAssistantResponseID: the newest row that has a response id.
LatestResponse(t) ==
    LET answered == {i \in DOMAIN rows[t] : rows[t][i].resp # NoTurn}
    IN  IF answered = {} THEN NoTurn
        ELSE rows[t][CHOOSE i \in answered : \A j \in answered : j <= i].resp

\* The id is read, then the user's row is written, which nothing here reads.
ReadPrevious(t) ==
    /\ At(t, "read")
    /\ \/ /\ handler' = [handler EXCEPT ![t].pc = "assistant", ![t].prev = LatestResponse(t)]
          /\ UNCHANGED <<rows, faultVars>>
       \/ ReturnsEarly(t)
    /\ UNCHANGED <<queueVars, runner, runOf, stopVars>>

NewRow(t) == [turn |-> current[t], status |-> "running", text |-> "none", resp |-> NoTurn,
              prev |-> handler[t].prev]

InsertsRow(t, next) ==
    /\ rows' = [rows EXCEPT ![t] = Append(@, NewRow(t))]
    /\ handler' = [handler EXCEPT ![t].pc = next, ![t].row = Len(rows[t]) + 1]
    /\ UNCHANGED faultVars

\* Mutant: the handler goes on although its row could not be inserted.
InsertAssistantRow_ErrorDropped(t) ==
    /\ At(t, "assistant")
    /\ \/ rows' = [rows EXCEPT ![t] = Append(@, NewRow(t))] /\ UNCHANGED faultVars
       \/ StoreFails /\ UNCHANGED <<rows, crashes, unsettled>>
    /\ handler' = [handler EXCEPT ![t].pc = "register", ![t].row = Len(rows[t]) + 1]
    /\ UNCHANGED <<queueVars, runner, runOf, stopVars>>

InsertAssistantRow(t) ==
    /\ At(t, "assistant")
    /\ \/ InsertsRow(t, IF runner = "plain" THEN "again" ELSE "register")
       \/ ReturnsEarly(t)
    /\ UNCHANGED <<queueVars, runner, runOf, stopVars>>

\* A runner that takes a prompt only is run by runTaskAgentLoopEvent, which
\* inserts rows of its own and leaves the first one behind.
InsertRowsAgain(t) ==
    /\ At(t, "again")
    /\ InsertsRow(t, "register") \/ ReturnsEarly(t)
    /\ UNCHANGED <<queueVars, runner, runOf, stopVars>>

\* setTaskMessageRun; from here on a stop finds the run.
Register(t) ==
    /\ At(t, "register")
    /\ runOf' = [runOf EXCEPT ![t] = handler[t].row]
    /\ GoTo(t, "run")
    /\ UNCHANGED <<queueVars, runner, rows, stopVars, faultVars>>

--------------------------------------------------------------------------------
(* The agent's run. The runner is not part of this repository: it streams text, *)
(* calls tools, and returns a reply, an error, or, once its context is          *)
(* cancelled, context.Canceled.                                                 *)

\* UpdateTaskMessageWithResponseID has no condition on the row's status, and an
\* empty response id leaves the column alone.
Updated(row, text, status, resp) ==
    [row EXCEPT !.text = text, !.status = status,
                !.resp = IF resp = NoTurn THEN @ ELSE resp]

Write(t, i, text, status, resp) ==
    rows' = [rows EXCEPT ![t][i] = Updated(@, text, status, resp)]

\* flushRunning, throttled; a failing write is ignored and a later one follows.
Delta(t) ==
    /\ At(t, "run")
    /\ Write(t, handler[t].row, "partial", "running", NoTurn)
    /\ UNCHANGED <<queueVars, runner, handler, runOf, stopVars, faultVars>>

\* task.child.send_message and task.parent.report: the runner waits for the call.
ToolPost(t, u, e) ==
    /\ At(t, "run") /\ <<t, u>> \in Related
    /\ Posted(u, e)
    /\ handler' = [handler EXCEPT ![t].pc = "tool", ![t].tool = e]
    /\ UNCHANGED <<runner, rows, runOf, stopVars, faultVars>>

\* Mutant: the tool waits for the other agent's reply.
ToolDone_AfterReply(t) ==
    /\ At(t, "tool")
    /\ \E u \in Task : \E i \in DOMAIN rows[u] :
            rows[u][i].turn = handler[t].tool /\ rows[u][i].status # "running"
    /\ handler' = [handler EXCEPT ![t].pc = "run", ![t].tool = NoTurn]
    /\ UNCHANGED <<queueVars, runner, rows, runOf, stopVars, faultVars>>

ToolDone(t) ==
    /\ At(t, "tool")
    /\ \A u \in Task : handler[t].tool \notin sendq[u]
    /\ handler' = [handler EXCEPT ![t].pc = "run", ![t].tool = NoTurn]
    /\ UNCHANGED <<queueVars, runner, rows, runOf, stopVars, faultVars>>

RunnerReturns(t, out) ==
    /\ At(t, "run")
    /\ out = "canceled" => current[t] \in stopped
    /\ handler' = [handler EXCEPT ![t].pc = "settle", ![t].out = out]
    /\ UNCHANGED <<queueVars, runner, rows, runOf, stopVars, faultVars>>

\* A reply with a response id, one without, an error, or context.Canceled.
ContextOutcome == {"reply", "silent reply", "error", "canceled"}

\* Whichever way a plain runner is called, it has no response id to return.
PlainOutcome == ContextOutcome \ {"reply"}

Outcome == IF runner = "plain" THEN PlainOutcome ELSE ContextOutcome

MarkCanceled(t) == Write(t, handler[t].row, "none", "canceled", NoTurn)

\* What was streamed so far stays; a runner that does not stream leaves nothing.
MarkFailed(t) ==
    \E text \in {"none", "partial"} : Write(t, handler[t].row, text, "error", NoTurn)

\* The write that settles the row.
SettleWrite(t) ==
    CASE handler[t].out = "canceled" -> MarkCanceled(t)
      [] handler[t].out = "error"    -> MarkFailed(t)
      [] OTHER -> Write(t, handler[t].row, "reply", "completed",
                        IF handler[t].out = "reply" THEN current[t] ELSE NoTurn)

\* Mutant: a cancelled run returns without a write of its own.
Settle_CancelSilent(t) ==
    /\ At(t, "settle")
    /\ \/ /\ IF handler[t].out = "canceled" THEN UNCHANGED rows ELSE SettleWrite(t)
          /\ UNCHANGED <<storeErrors, unsettled>>
       \/ /\ StoreFails /\ UNCHANGED rows
          /\ unsettled' = unsettled \union {current[t]}
    /\ GoTo(t, "unwind")
    /\ UNCHANGED <<queueVars, runner, runOf, stopVars, crashes>>

Settle(t) ==
    /\ At(t, "settle")
    /\ \/ SettleWrite(t) /\ UNCHANGED <<storeErrors, unsettled>>
       \/ /\ StoreFails /\ UNCHANGED rows
          /\ unsettled' = unsettled \union {current[t]}
    /\ GoTo(t, "unwind")
    /\ UNCHANGED <<queueVars, runner, runOf, stopVars, crashes>>

\* The deferred calls: the run context is cancelled, then clearTaskMessageRun.
Unwind(t) ==
    /\ At(t, "unwind")
    /\ runOf' = [runOf EXCEPT ![t] = 0]
    /\ GoTo(t, "return")
    /\ UNCHANGED <<queueVars, runner, rows, stopVars, faultVars>>

RunnerStep(t) == ToolDone(t) \/ \E out \in Outcome : RunnerReturns(t, out)

HandlerStep(t) ==
    \/ ReadPrevious(t) \/ InsertAssistantRow(t) \/ InsertRowsAgain(t) \/ Register(t)
    \/ Settle(t) \/ Unwind(t) \/ HandlerReturned(t)

ActorStep(t) == Take(t) \/ HandlerCalled(t) \/ RoundEnds(t)

--------------------------------------------------------------------------------
(* handleStopTaskMessage, in the goroutine of request x.                        *)

\* stopTaskMessageRun takes the registration away under its lock.
StopTake(x, t) ==
    /\ stopper[x].pc = "idle"
    /\ stopper' = [stopper EXCEPT ![x] =
                      IF runOf[t] = 0 THEN [NotStopping EXCEPT !.pc = "done"]
                      ELSE [pc |-> "cancel", task |-> t, row |-> runOf[t], answered |-> FALSE]]
    /\ runOf' = [runOf EXCEPT ![t] = 0]
    /\ UNCHANGED <<queueVars, runner, rows, handler, stopped, faultVars>>

StopCancel(x) ==
    /\ stopper[x].pc = "cancel"
    /\ stopped' = stopped \union {rows[stopper[x].task][stopper[x].row].turn}
    /\ stopper' = [stopper EXCEPT ![x].pc = "write"]
    /\ UNCHANGED <<queueVars, runner, rows, handler, runOf, faultVars>>

StopWrite(x) ==
    /\ stopper[x].pc = "write"
    /\ \/ /\ Write(stopper[x].task, stopper[x].row, "none", "canceled", NoTurn)
          /\ stopper' = [stopper EXCEPT ![x].pc = "done", ![x].answered = TRUE]
          /\ StoreWorks
       \/ /\ StoreFails
          /\ stopper' = [stopper EXCEPT ![x].pc = "done"]
          /\ UNCHANGED rows
    /\ UNCHANGED <<queueVars, runner, handler, runOf, stopped, crashes, unsettled>>

StopStep(x) == StopCancel(x) \/ StopWrite(x)

--------------------------------------------------------------------------------
\* The process dies and comes back: rows survive, queues and handlers do not,
\* and nothing looks for rows that were left running.
Crash ==
    /\ crashes < MaxCrashes
    /\ crashes' = crashes + 1
    /\ unsettled' = unsettled \union {e \in called :
                        \A t \in Task : \A i \in DOMAIN rows[t] :
                            rows[t][i].turn = e => rows[t][i].status = "running"}
    /\ actors' = {} /\ cancelled' = {} /\ stopped' = {}
    /\ sendq' = [t \in Task |-> {}]
    /\ queue' = [t \in Task |-> <<>>] /\ log' = [t \in Task |-> <<>>]
    /\ stage' = [t \in Task |-> "idle"]
    /\ current' = [t \in Task |-> NoTurn] /\ inflight' = [t \in Task |-> NoTurn]
    /\ handler' = [t \in Task |-> NoHandler]
    /\ runOf' = [t \in Task |-> 0]
    /\ stopper' = [x \in Stopper |-> IF stopper[x].pc = "idle" THEN NotStopping
                                     ELSE [stopper[x] EXCEPT !.pc = "done"]]
    /\ UNCHANGED <<called, calling, runner, rows, storeErrors>>

Next ==
    \/ \E t \in Task, e \in Turn : UserPost(t, e) \/ EnqueueSend(t, e) \/ UserGivesUp(t, e)
    \/ \E t \in Task : ActorStep(t) \/ HandlerStep(t) \/ RunnerStep(t) \/ Delta(t)
    \/ \E t, u \in Task, e \in Turn : ToolPost(t, u, e)
    \/ \E x \in Stopper : StopStep(x) \/ \E t \in Task : StopTake(x, t)
    \/ Crash

\* Goroutines run, a blocked sender gets the room there is, and the runner, once
\* its tool call is over, returns.
Fairness ==
    /\ \A t \in Task : WF_vars(ActorStep(t)) /\ WF_vars(HandlerStep(t)) /\ WF_vars(RunnerStep(t))
    /\ \A t \in Task : WF_vars(\E e \in Turn : EnqueueSend(t, e))
    /\ \A x \in Stopper : WF_vars(StopStep(x))

Spec == Init /\ [][Next]_vars /\ Fairness

--------------------------------------------------------------------------------
Row == [turn : Turn, status : {"running", "completed", "error", "canceled"},
        text : {"none", "partial", "reply"}, resp : {NoTurn} \union Turn,
        prev : {NoTurn} \union Turn]

HandlerPc == {"none", "read", "assistant", "again", "register", "run", "tool", "settle",
              "unwind", "return"}

TypeOK ==
    /\ Runtime!RuntimeTypeOK
    /\ runner \in Runner
    /\ rows \in [Task -> Seq(Row)]
    /\ \A t \in Task : runOf[t] \in 0..Len(rows[t])
    /\ runOf \in [Task -> Nat]
    /\ handler \in [Task -> [pc : HandlerPc, row : Nat, prev : {NoTurn} \union Turn,
                             tool : {NoTurn} \union Turn,
                             out : {"none"} \union ContextOutcome]]
    /\ stopped \subseteq Turn /\ unsettled \subseteq Turn
    /\ stopper \in [Stopper -> [pc : {"idle", "cancel", "write", "done"},
                                task : Task \union {"none"}, row : Nat, answered : BOOLEAN]]
    /\ \A x \in Stopper : stopper[x].pc \in {"cancel", "write"} =>
          stopper[x].task \in Task /\ stopper[x].row \in DOMAIN rows[stopper[x].task]
    /\ storeErrors \in 0..MaxStoreErrors /\ crashes \in 0..MaxCrashes

\* A row says "running" only while its handler is on it, except where a store
\* error or a crash kept the last write from being made, and except for the row
\* that the fallback to a plain runner doubles: neither a stop nor a late delta
\* leaves a spinner behind.
RunningRowsOwned ==
    \A t \in Task : \A i \in DOMAIN rows[t] : rows[t][i].status = "running" =>
        \/ rows[t][i].turn \in unsettled
        \/ handler[t].row = i /\ handler[t].pc \in {"again", "register", "run", "tool", "settle"}
        \/ runner = "plain" /\ \E j \in DOMAIN rows[t] : j > i /\ rows[t][j].turn = rows[t][i].turn

\* prev is the newest of the response ids before row j of a task, or none.
Continues(rs, j, prev) ==
    LET before == {i \in 1..(j - 1) : rs[i].resp # NoTurn}
    IN  IF before = {} THEN prev = NoTurn
        ELSE \E i \in before : prev = rs[i].resp /\ \A h \in before : h <= i

\* The provider's chain of responses is linear: a reply continues from the newest
\* reply before it, although the id is read before the rows are written.
RepliesChain ==
    \A t \in Task : \A j \in DOMAIN rows[t] :
        rows[t][j].resp # NoTurn => Continues(rows[t], j, rows[t][j].prev)

\* t's agent waits in a tool call for room in the queue of u.
WaitsFor(t, u) == At(t, "tool") /\ handler[t].tool \in sendq[u]

\* Agents that all wait for each other's full queues.
MutualWait == \E S \in SUBSET Task \ {{}} : \A t \in S : \E u \in S : WaitsFor(t, u)

Accepted(e) == \E t \in Task : \E i \in DOMAIN log[t] : log[t][i] = e
Settled(e) == \E t \in Task : \E i \in DOMAIN rows[t] :
                  rows[t][i].turn = e /\ rows[t][i].status # "running"

\* A message the API has answered "queued" for is settled in the end, unless the
\* store fails for it, the process dies or agents wait for each other in a circle.
AcceptedTurnsSettle ==
    \A e \in Turn : Accepted(e) ~> Settled(e) \/ e \in unsettled \/ MutualWait

\* "assistant message did not transition to canceled": a stop that has answered
\* canceled = true leaves the row canceled once the handler is done with it
\* (TestTaskMessages_StopCancelsRunningAssistantMessage).
StoppedRowsCanceled ==
    \A x \in Stopper :
        stopper[x].answered /\ (handler[stopper[x].task].row # stopper[x].row
                                \/ At(stopper[x].task, "unwind"))
            => rows[stopper[x].task][stopper[x].row].status = "canceled"

--------------------------------------------------------------------------------
(* The inductive invariant. A turn gets its rows in one task, once it has left  *)
(* the queue, from the one handler that works on it; that handler's row is the  *)
(* newest of its task, and a stop reaches only rows no fallback has left behind. *)

\* t's turn has been taken and has no row yet.
Beginning(t) == stage[t] = "taken" \/ handler[t].pc \in {"read", "assistant"}

\* Turn e is posted to t and has no row yet.
Queued(t, e) == e \in sendq[t] \/ \E i \in DOMAIN queue[t] : queue[t][i] = e
Awaits(t, e) == Queued(t, e) \/ (Beginning(t) /\ e = current[t])

AwaitedHaveNoRow ==
    \A t \in Task, e \in Turn : Awaits(t, e) =>
        e \in called /\ \A u \in Task : \A i \in DOMAIN rows[u] : rows[u][i].turn # e

AwaitedOnce ==
    /\ \A t, u \in Task, e \in Turn : Awaits(t, e) /\ Awaits(u, e) => t = u
    /\ \A t \in Task : \A i \in DOMAIN queue[t] : queue[t][i] \notin sendq[t]
    /\ \A t \in Task : \A i, j \in DOMAIN queue[t] : queue[t][i] = queue[t][j] => i = j
    /\ \A t \in Task : Beginning(t) => ~Queued(t, current[t])

RowsOfOneTask ==
    /\ \A t \in Task : \A i \in DOMAIN rows[t] : rows[t][i].turn \in called
    /\ \A t, u \in Task : \A i \in DOMAIN rows[t], j \in DOMAIN rows[u] :
          rows[t][i].turn = rows[u][j].turn => t = u

\* The handler is called for the turn the actor has taken.
HandlesTaken ==
    \A t \in Task :
        /\ stage[t] # "idle" => current[t] \in called
        /\ handler[t].pc # "none" => stage[t] = "handling"

OnRow(t) == handler[t].pc \in {"again", "register", "run", "tool", "settle", "unwind"}

WorksOnNewestRow ==
    \A t \in Task : OnRow(t) =>
        /\ Len(rows[t]) > 0 /\ handler[t].row = Len(rows[t])
        /\ rows[t][Len(rows[t])].turn = current[t]

\* A row followed by another of its turn is left as it was inserted, and no stop
\* has hold of it.
AbandonedRunning ==
    \A t \in Task : \A i, j \in DOMAIN rows[t] :
        i < j /\ rows[t][i].turn = rows[t][j].turn => rows[t][i].status = "running"

Reachable(t, i) ==
    \/ runOf[t] = i
    \/ \E x \in Stopper :
          stopper[x].pc \in {"cancel", "write"} /\ stopper[x].task = t /\ stopper[x].row = i

StopsReachNoAbandoned ==
    \A t \in Task : \A i \in DOMAIN rows[t] : Reachable(t, i) =>
        /\ \A j \in DOMAIN rows[t] : i < j => rows[t][i].turn # rows[t][j].turn
        /\ ~(At(t, "again") /\ i = Len(rows[t]))

FirstRowUntouched ==
    \A t \in Task : At(t, "again") =>
        runner = "plain" /\ rows[t][Len(rows[t])].status = "running"

\* The id read at the start is still the newest when the reply is written.
PreviousIsNewest ==
    \A t \in Task :
        /\ At(t, "assistant") => Continues(rows[t], Len(rows[t]) + 1, handler[t].prev)
        /\ OnRow(t) /\ ~At(t, "unwind") =>
              /\ rows[t][Len(rows[t])].prev = handler[t].prev
              /\ rows[t][Len(rows[t])].resp = NoTurn
              /\ Continues(rows[t], Len(rows[t]), handler[t].prev)

TurnsInv == AwaitedHaveNoRow /\ AwaitedOnce /\ RowsOfOneTask /\ HandlesTaken

RowsInv ==
    /\ WorksOnNewestRow /\ AbandonedRunning /\ StopsReachNoAbandoned /\ FirstRowUntouched
    /\ PreviousIsNewest
    /\ RunningRowsOwned /\ RepliesChain

MessagesInv == TypeOK /\ TurnsInv /\ RowsInv

================================================================================
