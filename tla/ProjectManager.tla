----------------------------- MODULE ProjectManager -----------------------------
(* Project-manager conversations: sessions, the messages posted to them, and    *)
(* the handler that turns a message into two rows of pm_messages and streams    *)
(* the agent's text and tool calls into the second                              *)
(* (cli/internal/localapi: project_manager_actor.go, routes_project_manager.go, *)
(* pm_prompt_history.go; cli/internal/projectstate/pm_state_store.go). Queue    *)
(* and actor of a session keep the promise of ConversationSpec, which           *)
(* ConversationRuntime has been shown to implement. Nothing stops a run.        *)
(*                                                                              *)
(* Turns are numbered in the order they are posted. A text is "none", "partial" *)
(* (what was streamed) or "reply"; a response id is the turn it came from.      *)
EXTENDS Integers, Sequences, FiniteSets, SequencesExt, FiniteSetsExt

CONSTANTS
    Session,
    Call,           \* ids of tool calls
    NoCall,         \* a tool event without call_id
    ListLimit,      \* rows ListPMMessages returns for a history block (400)
    HistoryMax,     \* messages MaxMessages (80) and MaxChars (12000) leave of it
    MaxTurns,       \* bound: messages posted
    MaxReports,     \* bound: deltas and tool events of all runs
    MaxFaults       \* bound: failing reads and writes, removals of the project
                    \* and restarts of the process

ASSUME ProjectManagerAssumption ==
    /\ NoCall \notin Call
    /\ {ListLimit, HistoryMax} \subseteq Nat \ {0}
    /\ {MaxTurns, MaxReports, MaxFaults} \subseteq Nat

Turn == 1..MaxTurns
NoTurn == 0

VARIABLES
    log, started, finished, cancelled,
                    \* the variables of ConversationSpec
    sessions,       \* sessions created
    listed,         \* the project is in the projects store
    runner,         \* the agent's runner continues responses ("context") or not ("plain")
    rows,           \* pm_messages of every session, by id
    handler,        \* the handler of every session
    history,        \* history block of every turn, with the rows there were then
    reports,        \* deltas and tool events so far
    faults,         \* store errors, removals and restarts so far
    spoiled         \* history: turns hit by an error, a removal or a crash

Serial == INSTANCE ConversationSpec WITH Key <- Session, Event <- Turn

queueVars == <<log, started, finished, cancelled>>
setupVars == <<sessions, listed, runner>>
faultVars == <<faults, spoiled>>
saidVars == <<rows, handler, history, reports>>
vars == <<queueVars, setupVars, faultVars, rows, handler, history, reports>>

\* What the runner has reported: streamState, and the history of its tool events.
Stream(text, tools) == [text |-> text, tools |-> tools]
NothingSaid == Stream("none", <<>>)

\* The handler's local variables, its program counter first.
NoHandler == [pc |-> "none", row |-> 0, prev |-> NoTurn, stream |-> NothingSaid,
              told |-> <<>>, flushed |-> FALSE, out |-> "none"]

\* What a turn's history is before it is posted, and when it is of no use any more.
NotPosted == [rows |-> -1, said |-> {}, shown |-> {}]
Spent == [rows |-> 0, said |-> {}, shown |-> {}]

Init ==
    /\ Serial!SpecInit
    /\ sessions = {} /\ listed = TRUE
    /\ runner \in {"context", "plain"}
    /\ rows = [s \in Session |-> <<>>]
    /\ handler = [s \in Session |-> NoHandler]
    /\ history = [e \in Turn |-> NotPosted]
    /\ reports = 0 /\ faults = 0 /\ spoiled = {}

Fault == faults < MaxFaults /\ faults' = faults + 1

\* A read or write of the store fails.
StoreFails == Fault

--------------------------------------------------------------------------------
(* Requests.                                                                    *)

CreateSession(s) ==
    /\ listed /\ s \notin sessions
    /\ sessions' = sessions \union {s}
    /\ UNCHANGED <<queueVars, listed, runner, faultVars, saidVars>>

RemoveProject ==
    /\ listed /\ Fault
    /\ listed' = FALSE
    /\ UNCHANGED <<queueVars, sessions, runner, spoiled, saidVars>>

\* Posted again, or patched by a request that had read the list before the removal.
AddProject ==
    /\ ~listed
    /\ listed' = TRUE
    /\ UNCHANGED <<queueVars, sessions, runner, faultVars, saidVars>>

\* Rows normalizeTimelineMessageContent leaves something of.
HasContent(row) == row.said.text # "none" \/ row.said.tools # <<>>

\* ListPMMessages: ascending, and the limit keeps the oldest.
Listed(s) == {i \in DOMAIN rows[s] : i <= ListLimit}

\* Mutant: the first of them are kept.
HistoryBlock_First(s) ==
    LET said == {i \in Listed(s) : HasContent(rows[s][i])}
    IN  {i \in said : Cardinality({j \in said : j < i}) < HistoryMax}

\* buildTaskPromptHistory keeps the last of the messages it is given.
HistoryBlock(s) ==
    LET said == {i \in Listed(s) : HasContent(rows[s][i])}
    IN  {i \in said : Cardinality({j \in said : j > i}) < HistoryMax}

\* handleProjectManagerSendMessage: the history is read before the message is
\* queued. A request that ends while the queue is full leaves nothing behind, and
\* one that waits for room differs from one that waits in the queue only in that
\* it may be overtaken, so both are one step here. When the rows cannot be read,
\* the message is queued without a history.
Post(s, e) ==
    /\ listed /\ s \in sessions
    /\ history[e] = NotPosted /\ \A d \in 1..(e - 1) : history[d] # NotPosted
    /\ \/ /\ history' = [history EXCEPT ![e] =
                [rows |-> Len(rows[s]), shown |-> HistoryBlock(s),
                 said |-> {i \in DOMAIN rows[s] :
                              rows[s][i].status = "completed" /\ HasContent(rows[s][i])}]]
          /\ UNCHANGED faultVars
       \/ /\ StoreFails /\ spoiled' = spoiled \union {e}
          /\ history' = [history EXCEPT ![e] = Spent]
    /\ Serial!Accept(s, e)
    /\ UNCHANGED <<setupVars, rows, handler, reports>>

--------------------------------------------------------------------------------
(* The actor's loop and runProjectManagerLoopEventHybrid, or                    *)
(* runProjectManagerLoopEvent for a plain runner.                               *)

At(s, pc) == handler[s].pc = pc
GoTo(s, pc) == handler' = [handler EXCEPT ![s].pc = pc]

\* The turn whose handler was called last.
Current(s) == log[s][started[s]]

HandlerCalled(s) ==
    /\ Serial!Start(s)
    /\ handler' = [handler EXCEPT ![s] = [NoHandler EXCEPT !.pc = "check"]]
    /\ UNCHANGED <<setupVars, faultVars, rows, history, reports>>

HandlerReturned(s) ==
    /\ At(s, "return")
    /\ Serial!Finish(s)
    /\ handler' = [handler EXCEPT ![s] = NoHandler]
    /\ history' = [history EXCEPT ![Current(s)] = Spent]
    /\ UNCHANGED <<setupVars, faultVars, rows, reports>>

\* The handler returns an error, which the actor drops.
Abandon(s) ==
    /\ spoiled' = spoiled \union {Current(s)}
    /\ GoTo(s, "return")
    /\ UNCHANGED rows

\* findProjectRepoRoot and GetPMSession: the message is lost with its project.
Check(s) ==
    /\ At(s, "check")
    /\ \/ /\ listed
          /\ GoTo(s, IF runner = "context" THEN "read" ELSE "user")
          /\ UNCHANGED <<faultVars, rows>>
       \/ ~listed /\ Abandon(s) /\ UNCHANGED faults
       \/ StoreFails /\ Abandon(s)
    /\ UNCHANGED <<queueVars, setupVars, history, reports>>

\* GetLatestPMAssistantResponseID: the newest row that has a response id.
LatestResponse(s) ==
    LET answered == {i \in DOMAIN rows[s] : rows[s][i].resp # NoTurn}
    IN  IF answered = {} THEN NoTurn ELSE rows[s][Max(answered)].resp

ReadPrevious(s) ==
    /\ At(s, "read")
    /\ \/ /\ handler' = [handler EXCEPT ![s].pc = "user", ![s].prev = LatestResponse(s)]
          /\ UNCHANGED <<faultVars, rows>>
       \/ StoreFails /\ Abandon(s)
    /\ UNCHANGED <<queueVars, setupVars, history, reports>>

Row(s, role, status, said) ==
    [turn |-> Current(s), role |-> role, status |-> status, said |-> said, resp |-> NoTurn,
     prev |-> handler[s].prev, told |-> [text |-> "none", events |-> <<>>]]

\* Mutant: the id kept is that of the first row.
Insert_FirstId(s, pc, row, next) ==
    /\ At(s, pc)
    /\ \/ /\ rows' = [rows EXCEPT ![s] = Append(@, row)]
          /\ handler' = [handler EXCEPT ![s].pc = next,
                                       ![s].row = IF pc = "user" THEN Len(rows[s]) + 1 ELSE @]
          /\ UNCHANGED faultVars
       \/ StoreFails /\ Abandon(s)
    /\ UNCHANGED <<queueVars, setupVars, history, reports>>

\* InsertPMMessage, for the user's message and then for the reply to come.
Insert(s, pc, row, next) ==
    /\ At(s, pc)
    /\ \/ /\ rows' = [rows EXCEPT ![s] = Append(@, row)]
          /\ handler' = [handler EXCEPT ![s].pc = next, ![s].row = Len(rows[s]) + 1]
          /\ UNCHANGED faultVars
       \/ StoreFails /\ Abandon(s)
    /\ UNCHANGED <<queueVars, setupVars, history, reports>>

InsertUserRow(s) ==
    Insert(s, "user", Row(s, "user", "completed", Stream("reply", <<>>)), "assistant")
InsertAssistantRow(s) ==
    Insert(s, "assistant", Row(s, "assistant", "running", NothingSaid), "run")

\* UpdatePMMessageWithResponseID: no condition on the row, an empty id is left out.
Update(s, said, status, resp) ==
    LET row == rows[s][handler[s].row]
    IN  rows' = [rows EXCEPT ![s][handler[s].row] =
                    [row EXCEPT !.said = said, !.status = status,
                                !.resp = IF resp = NoTurn THEN row.resp ELSE resp]]

--------------------------------------------------------------------------------
(* The run. The runner is a library: it streams text, reports tool calls        *)
(* (ToLegacyToolEvent, ParseLegacyToolEvent) and returns a reply or an error.   *)

\* ToToolStatePatch: an output event has no input; a blank stands for no key.
InputEvent(c)  == [call |-> c, state |-> "input-available", input |-> "input", output |-> ""]
OutputEvent(c) == [call |-> c, state |-> "output-available", input |-> "", output |-> "output"]
ToolEvent == {InputEvent(c) : c \in Call \union {NoCall}}
               \union {OutputEvent(c) : c \in Call \union {NoCall}}

\* Mutant: the patch replaces the state, what it does not mention included.
MergeToolStatePatch_Replace(tool, patch) == patch

\* What the patch leaves blank stays.
MergeToolStatePatch(tool, patch) ==
    [k \in DOMAIN tool |-> IF patch[k] = "" THEN tool[k] ELSE patch[k]]

\* toolIndexByID: a call has one entry; an event without an id gets its own.
WithEvent(tools, ev) ==
    LET index == {i \in DOMAIN tools : ev.call # NoCall /\ tools[i].call = ev.call}
    IN  IF index = {} THEN Append(tools, ev)
        ELSE [tools EXCEPT ![Max(index)] = MergeToolStatePatch(@, ev)]

\* The runner reports something. flushRunning writes the whole stream, always for
\* the first report, later at most every 120 ms; that a write fails is ignored.
Report(s, stream, told) ==
    /\ At(s, "run")
    /\ reports < MaxReports /\ reports' = reports + 1
    /\ \/ /\ Update(s, stream, "running", NoTurn)
          /\ handler' = [handler EXCEPT ![s].stream = stream, ![s].told = told, ![s].flushed = TRUE]
          /\ UNCHANGED faults
       \/ /\ (handler[s].flushed /\ UNCHANGED faults) \/ StoreFails
          /\ handler' = [handler EXCEPT ![s].stream = stream, ![s].told = told]
          /\ UNCHANGED rows
    /\ UNCHANGED <<queueVars, setupVars, history, spoiled>>

Delta(s) == Report(s, Stream("partial", handler[s].stream.tools), handler[s].told)

OnToolEvent(s, ev) ==
    Report(s, Stream(handler[s].stream.text, WithEvent(handler[s].stream.tools, ev)),
           Append(handler[s].told, ev))

\* The reply may be blank; then what was streamed is the reply.
RunnerReturns(s, out) ==
    /\ At(s, "run")
    /\ handler' = [handler EXCEPT ![s].pc = "settle", ![s].out = out]
    /\ UNCHANGED <<queueVars, setupVars, history, reports, rows, faultVars>>

FinalText(s) == IF handler[s].out = "reply" THEN "reply" ELSE handler[s].stream.text

\* The last write: a failed run loses what was streamed, a plain one has no id.
SettleWrite(s) ==
    LET row == rows[s][handler[s].row]
    IN  IF handler[s].out = "error"
        THEN Update(s, NothingSaid, "failed", NoTurn)
        ELSE rows' = [rows EXCEPT ![s][handler[s].row] =
                [row EXCEPT !.said = Stream(FinalText(s), handler[s].stream.tools),
                            !.status = "completed",
                            !.resp = IF runner = "context" THEN Current(s) ELSE row.resp,
                            !.told = [text |-> FinalText(s), events |-> handler[s].told]]]

\* Mutant: a run that failed is reported and its row left as it is.
Settle_FailureLeft(s) ==
    /\ At(s, "settle")
    /\ \/ /\ IF handler[s].out = "error" THEN UNCHANGED rows ELSE SettleWrite(s)
          /\ UNCHANGED faultVars
       \/ StoreFails /\ spoiled' = spoiled \union {Current(s)} /\ UNCHANGED rows
    /\ GoTo(s, "return")
    /\ UNCHANGED <<queueVars, setupVars, history, reports>>

Settle(s) ==
    /\ At(s, "settle")
    /\ \/ SettleWrite(s) /\ UNCHANGED faultVars
       \/ StoreFails /\ spoiled' = spoiled \union {Current(s)} /\ UNCHANGED rows
    /\ GoTo(s, "return")
    /\ UNCHANGED <<queueVars, setupVars, history, reports>>

--------------------------------------------------------------------------------
\* Rows survive a restart, queues and handlers do not; nothing settles old rows.
Crash ==
    /\ Fault
    /\ spoiled' = {e \in Turn : history[e] # NotPosted}
    /\ log' = [s \in Session |-> <<>>]
    /\ started' = [s \in Session |-> 0] /\ finished' = [s \in Session |-> 0]
    /\ handler' = [s \in Session |-> NoHandler]
    /\ history' = [e \in Turn |-> IF history[e] = NotPosted THEN NotPosted ELSE Spent]
    /\ UNCHANGED <<cancelled, setupVars, rows, reports>>

HandlerStep(s) ==
    \/ HandlerCalled(s) \/ Check(s) \/ ReadPrevious(s) \/ InsertUserRow(s)
    \/ InsertAssistantRow(s) \/ Settle(s) \/ HandlerReturned(s)

RunnerStep(s) ==
    \/ Delta(s)
    \/ \E ev \in ToolEvent : OnToolEvent(s, ev)
    \/ \E out \in {"reply", "blank", "error"} : RunnerReturns(s, out)

Next ==
    \/ \E s \in Session :
          \/ CreateSession(s)
          \/ \E e \in Turn : Post(s, e)
          \/ HandlerStep(s) \/ RunnerStep(s)
    \/ RemoveProject \/ AddProject \/ Crash

Spec == Init /\ [][Next]_vars

--------------------------------------------------------------------------------
Text == {"none", "partial", "reply"}
Tool == [call : Call \union {NoCall}, state : {"input-available", "output-available"},
         input : {"", "input"}, output : {"", "output"}]
Said == [text : Text, tools : Seq(Tool)]
Message == [turn : Turn, role : {"user", "assistant"}, status : {"running", "completed", "failed"},
            said : Said, resp : 0..MaxTurns, prev : 0..MaxTurns,
            told : [text : Text, events : Seq(ToolEvent)]]
Handler == [pc : {"none", "check", "read", "user", "assistant", "run", "settle", "return"},
            row : Nat, prev : 0..MaxTurns, stream : Said, told : Seq(ToolEvent),
            flushed : BOOLEAN, out : {"none", "reply", "blank", "error"}]

(* Every variable holds what the program can put there; a handler's row is in its *)
(* session, only replies run or fail, and a response id is that of the row's turn. *)
TypeOK ==
    /\ log \in [Session -> Seq(Turn)] /\ cancelled = {}
    /\ started \in [Session -> Nat] /\ finished \in [Session -> Nat]
    /\ \A s \in Session : finished[s] <= started[s] /\ started[s] <= Len(log[s])
    /\ sessions \subseteq Session /\ listed \in BOOLEAN /\ runner \in {"context", "plain"}
    /\ rows \in [Session -> Seq(Message)]
    /\ \A s \in Session : \A i \in DOMAIN rows[s] :
          /\ rows[s][i].resp \in {NoTurn, rows[s][i].turn}
          /\ rows[s][i].role = "user" => rows[s][i].status = "completed"
    /\ handler \in [Session -> Handler]
    /\ \A s \in Session : handler[s].row <= Len(rows[s])
    /\ history \in [Turn -> [rows : Nat \union {-1}, said : SUBSET Nat, shown : SUBSET Nat]]
    /\ reports \in 0..MaxReports /\ faults \in 0..MaxFaults /\ spoiled \subseteq Turn

\* Position of turn e in the log of session s, 0 when this process never took it.
Place(s, e) == IF \E p \in DOMAIN log[s] : log[s][p] = e
               THEN CHOOSE p \in DOMAIN log[s] : log[s][p] = e ELSE 0

\* The row after a message is its reply, or the handler is about to insert it.
Paired(s) ==
    \A i \in DOMAIN rows[s] :
        IF rows[s][i].role = "user"
        THEN \/ i < Len(rows[s]) /\ rows[s][i + 1].role = "assistant"
             \/ rows[s][i].turn \in spoiled
             \/ At(s, "assistant") /\ handler[s].row = i
        ELSE i > 1 /\ rows[s][i - 1].role = "user" /\ rows[s][i - 1].turn = rows[s][i].turn

\* Turn e has its reply, or what is left of a failed one.
Settled(s, e) ==
    \E i \in DOMAIN rows[s] : /\ rows[s][i].turn = e
                              /\ rows[s][i].role = "assistant" /\ rows[s][i].status # "running"

\* What the actor has done with is settled.
DoneIsSettled(s) ==
    \A p \in DOMAIN log[s] : p <= finished[s] => log[s][p] \in spoiled \/ Settled(s, log[s][p])

\* A session's rows tell the accepted messages in order, each followed by its
\* reply; what the actor has done with is settled. Only store errors, a removed
\* project and a crash leave a message out, without a reply or "running".
TimelineIsLog ==
    \A s \in Session :
        /\ \A i, j \in DOMAIN rows[s] : i < j /\ Place(s, rows[s][i].turn) # 0
              => Place(s, rows[s][i].turn) <= Place(s, rows[s][j].turn)
        /\ Paired(s) /\ DoneIsSettled(s)

Calls(seq, c) == {k \in DOMAIN seq : seq[k].call = c}

\* A call as its events, in order, have left it.
ToolTold(events, c) ==
    [call |-> c, state |-> events[Max(Calls(events, c))].state,
     input |-> IF InputEvent(c) \in Range(events) THEN "input" ELSE "",
     output |-> IF OutputEvent(c) \in Range(events) THEN "output" ELSE ""]

\* What is said of call c is what was told of it, once.
CallTold(tools, events, c) ==
    /\ \A k, l \in Calls(tools, c) : k = l
    /\ Calls(tools, c) = {} <=> Calls(events, c) = {}
    /\ \A k \in Calls(tools, c) : tools[k] = ToolTold(events, c)

\* Of calls without an id every event is there as it came.
OthersTold(tools, events) ==
    \E f \in [Calls(tools, NoCall) -> Calls(events, NoCall)] :
        /\ \A e \in Calls(events, NoCall) : \E k \in Calls(tools, NoCall) : f[k] = e
        /\ \A k, l \in Calls(tools, NoCall) : k < l => f[k] < f[l]
        /\ \A k \in Calls(tools, NoCall) : tools[k] = events[f[k]]

Tells(tools, events) ==
    (\A c \in Call : CallTold(tools, events, c)) /\ OthersTold(tools, events)

\* A row that is the whole reply of a run that has not failed.
RowTells(row) ==
    row.role = "assistant" /\ row.status = "completed" =>
        row.said.text = row.told.text /\ Tells(row.said.tools, row.told.events)

\* A completed row tells all the runner reported, however flushes were throttled
\* or failed: the reply, and every tool call once, with its input, its output
\* and the state its last event gave it.
ReplyTellsAll == \A s \in Session : \A i \in DOMAIN rows[s] : RowTells(rows[s][i])

ShowsSaid(h) ==
    h.rows <= ListLimit =>
        \A i \in h.said : i \in h.shown \/ Cardinality({j \in h.shown : j > i}) >= HistoryMax

\* While a session has no more rows than ListPMMessages returns, a run's history
\* holds every message completed when it was posted, up to the newest HistoryMax.
\* (Beyond that the listing keeps the oldest rows, and new ones never appear.)
HistoryTellsSettled ==
    \A s \in Session : At(s, "run") => ShowsSaid(history[Current(s)])

--------------------------------------------------------------------------------
(* What every step preserves, so that the properties above follow.              *)

\* Turns are posted in order.
PostedInOrder ==
    \A e \in Turn : history[e] # NotPosted => \A d \in 1..(e - 1) : history[d] # NotPosted

\* So they are logged, each of them once, posted first.
LogInOrder(s) ==
    /\ \A p, q \in DOMAIN log[s] : p < q => log[s][p] < log[s][q]
    /\ \A p \in DOMAIN log[s] : history[log[s][p]] # NotPosted

\* The newest row of a session is one its handler has inserted for the turn.
OwnRow(s, role) ==
    LET row == rows[s][Len(rows[s])]
    IN  /\ handler[s].row = Len(rows[s]) /\ rows[s] # <<>>
        /\ row.role = role /\ row.turn = Current(s)

\* A handler is between the start and the end of its turn, knows the row it writes
\* to, the newest, and what it holds of the stream tells what it was told.
HandlerInStep(s) ==
    /\ IF At(s, "none") THEN started[s] = finished[s] ELSE started[s] = finished[s] + 1
    /\ At(s, "assistant") => OwnRow(s, "user")
    /\ At(s, "run") \/ At(s, "settle") => OwnRow(s, "assistant")
    /\ At(s, "return") => Current(s) \in spoiled \/ Settled(s, Current(s))
    /\ Tells(handler[s].stream.tools, handler[s].told)

\* Rows are those of posted turns, in order, and of this process's only of turns begun.
RowsOfTurns(s) ==
    /\ \A i, j \in DOMAIN rows[s] : i < j => rows[s][i].turn <= rows[s][j].turn
    /\ \A i \in DOMAIN rows[s] :
          /\ history[rows[s][i].turn] # NotPosted
          /\ \/ \E p \in 1..started[s] : rows[s][i].turn = log[s][p]
             \/ \A p \in DOMAIN log[s] : rows[s][i].turn < log[s][p]

SessionInv(s) ==
    /\ LogInOrder(s) /\ HandlerInStep(s) /\ RowsOfTurns(s) /\ Paired(s) /\ DoneIsSettled(s)
    /\ \A i \in DOMAIN rows[s] : RowTells(rows[s][i])

ManagerInv ==
    /\ TypeOK /\ PostedInOrder
    /\ \A e \in Turn : ShowsSaid(history[e])
    /\ \A s \in Session : SessionInv(s)

================================================================================
