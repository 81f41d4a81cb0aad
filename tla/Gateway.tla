-------------------------------- MODULE Gateway --------------------------------
(* How a browser's request reaches the local API and its answer comes back: the *)
(* hub between browser connections and the agent (appserver/edge_ws.go), the    *)
(* agent's connection and its message loop (cmd/shellman/local_agent_loop.go,   *)
(* runWSRuntime and bindMessageLoop of main.go), and the queue of the task      *)
(* agent, where a request of the message loop and the auto-progress of a pane   *)
(* wait for room without a deadline.                                            *)
(*                                                                              *)
(* A tab is one websocket of a browser; a browser that comes back is another    *)
(* tab. Tabs and agents are numbered in the order they connect. Messages no tab *)
(* has asked for, which the hub sends to every tab, are left out.               *)
EXTENDS Naturals, Sequences, FiniteSets, SequencesExt, FiniteSetsExt

CONSTANTS
    Pane, NoPane,
    Task,           \* tasks that have an agent
    QueueSize,      \* messages a task's queue holds (64)
    MaxTabs,        \* bound: tabs
    MaxRequests,    \* bound: requests of all tabs
    MaxAgents       \* bound: connections of the agent

ASSUME GatewayAssumption ==
    /\ NoPane \notin Pane /\ Task # {}
    /\ {QueueSize, MaxAgents} \subseteq Nat \ {0}
    /\ {MaxTabs, MaxRequests} \subseteq Nat

Tab == 1..MaxTabs
Request == 1..MaxRequests
Agent == 1..MaxAgents
ConnId == 1..MaxTabs
Report == 0         \* the Enqueue call of the pane that reports auto-progress
NoRequest == 0      \* as the request a message loop handles

VARIABLES
    tabs,           \* every tab: "new", "open" or "closed"
    connOf,         \* s.connByClient: the connection id of every tab, 0 for none
    nextConnSeq,
    hubAgent,       \* s.agent, 0 for none
    forwarding,     \* every tab's reader in the hub: what it is about to write
    fromAgent,      \* what every agent has sent and the hub has not read
    reading,        \* agents whose reader in the hub has not returned
    agent,          \* the agent's loop: its number, its socket and its message loop
    toAgent,        \* what the hub has sent and the message loop has not read
    selected,       \* what every connection of the registry has selected
    reqs,           \* history: every request, who handled it and with which header
    delivered,      \* history: requests whose answers every tab has got
    excused,        \* history: requests hit by a break, a closed tab or no agent
    epoch,          \* history: sessions the hub has forgotten
    tabEpoch,       \* history: the value of epoch when every tab was attached
    tabId           \* history: the connection id every tab was given then

VARIABLES
    posting,        \* callers of Enqueue waiting for room in the queue of every task
    log, started, finished, cancelled   \* the variables of ConversationSpec

Queue == INSTANCE ConversationSpec WITH Key <- Task, Event <- Request \union {Report}

queueVars == <<posting, log, started, finished, cancelled>>
hubVars == <<connOf, nextConnSeq, hubAgent, reading>>
agentVars == <<agent, selected>>
historyVars == <<reqs, delivered, excused>>
epochVars == <<epoch, tabEpoch, tabId>>
vars == <<tabs, hubVars, forwarding, fromAgent, agentVars, toAgent, historyVars, epochVars, queueVars>>

Idle == [agent |-> 0, conn |-> 0, req |-> NoRequest]
NewRegistry == [c \in ConnId |-> NoPane]
NoAgent == [no |-> 0, link |-> "down", pc |-> "dial", conn |-> 0, req |-> NoRequest]

Init ==
    /\ tabs = [t \in Tab |-> "new"]
    /\ connOf = [t \in Tab |-> 0] /\ nextConnSeq = 0
    /\ hubAgent = 0 /\ reading = {}
    /\ forwarding = [t \in Tab |-> Idle]
    /\ fromAgent = [a \in Agent |-> <<>>] /\ toAgent = <<>>
    /\ agent = NoAgent /\ selected = NewRegistry
    /\ reqs = <<>> /\ delivered = [t \in Tab |-> <<>>] /\ excused = {}
    /\ epoch = 0 /\ tabEpoch = [t \in Tab |-> 0] /\ tabId = [t \in Tab |-> 0]
    /\ posting = [k \in Task |-> {}] /\ Queue!SpecInit

Answered == UNION {Range(delivered[t]) : t \in Tab}
Pending == DOMAIN reqs \ Answered
Attached == {t \in Tab : connOf[t] # 0}

--------------------------------------------------------------------------------
(* Tabs and their readers in the hub.                                           *)

\* Mutant: the id is that of the connection's place among the ones there are.
NewId_Count == Cardinality(Attached) + 1

NewId == nextConnSeq + 1

AttachClient(t) ==
    /\ tabs[t] = "new" /\ \A u \in 1..(t - 1) : tabs[u] # "new"
    /\ tabs' = [tabs EXCEPT ![t] = "open"]
    /\ connOf' = [connOf EXCEPT ![t] = NewId]
    /\ nextConnSeq' = nextConnSeq + 1
    /\ tabEpoch' = [tabEpoch EXCEPT ![t] = epoch]
    /\ tabId' = [tabId EXCEPT ![t] = NewId]
    /\ UNCHANGED <<hubAgent, reading, forwarding, fromAgent, toAgent, agentVars, historyVars,
                   epoch, queueVars>>

\* The last one to leave takes the session, and the ids given so far, with it.
Forget(agentLeft, clientsLeft) ==
    IF agentLeft = 0 /\ clientsLeft = {}
    THEN nextConnSeq' = 0 /\ epoch' = epoch + 1
    ELSE UNCHANGED <<nextConnSeq, epoch>>

\* A tab goes away, or a write to it takes longer than two seconds, and its reader
\* in the hub ends.
DetachClient(t) ==
    /\ tabs[t] = "open" /\ forwarding[t] = Idle
    /\ tabs' = [tabs EXCEPT ![t] = "closed"]
    /\ connOf' = [connOf EXCEPT ![t] = 0]
    /\ excused' = excused \union {r \in DOMAIN reqs : reqs[r].tab = t}
    /\ Forget(hubAgent, Attached \ {t})
    /\ UNCHANGED <<hubAgent, reading, forwarding, fromAgent, agentVars, toAgent, reqs, delivered,
                   tabEpoch, tabId, queueVars>>

\* The hub reads a message and looks up the agent (wrapClientOutbound); without one
\* the message is dropped and nobody is told.
Ask(t, op, p) ==
    /\ tabs[t] = "open" /\ forwarding[t] = Idle
    /\ Len(reqs) < MaxRequests
    /\ reqs' = Append(reqs, [tab |-> t, op |-> op, pane |-> p, by |-> 0, header |-> NoPane])
    /\ IF hubAgent = 0
       THEN excused' = excused \union {Len(reqs) + 1} /\ UNCHANGED forwarding
       ELSE /\ forwarding' = [forwarding EXCEPT ![t] =
                  [agent |-> hubAgent, conn |-> connOf[t], req |-> Len(reqs) + 1]]
            /\ UNCHANGED excused
    /\ UNCHANGED <<tabs, hubVars, fromAgent, agentVars, toAgent, delivered, epochVars, queueVars>>

\* writePeer: to the agent there was, whether it is still there or not.
Forward(t) ==
    /\ forwarding[t] # Idle
    /\ forwarding' = [forwarding EXCEPT ![t] = Idle]
    /\ IF forwarding[t].agent = agent.no /\ agent.link = "up"
       THEN toAgent' = Append(toAgent, [conn |-> forwarding[t].conn, req |-> forwarding[t].req])
            /\ UNCHANGED excused
       ELSE excused' = excused \union {forwarding[t].req} /\ UNCHANGED toAgent
    /\ UNCHANGED <<tabs, hubVars, fromAgent, agentVars, reqs, delivered, epochVars, queueVars>>

\* routeAgentOutbound and writePeer: to the tab that has the id now, if there is one.
RouteReply(a) ==
    /\ a \in reading /\ fromAgent[a] # <<>>
    /\ fromAgent' = [fromAgent EXCEPT ![a] = Tail(@)]
    /\ delivered' = [t \in Tab |-> IF /\ connOf[t] = Head(fromAgent[a]).conn
                                   THEN Append(delivered[t], Head(fromAgent[a]).req)
                                   ELSE delivered[t]]
    /\ UNCHANGED <<tabs, hubVars, forwarding, agentVars, toAgent, reqs, excused, epochVars, queueVars>>

\* Mutant: an agent that goes leaves the session without one, whoever it was.
Remaining_None(a) == 0

Remaining(a) == IF hubAgent = a THEN 0 ELSE hubAgent

\* The hub's reader of an agent ends, with or without all that was sent before.
DetachAgent(a) ==
    /\ a \in reading /\ (a < agent.no \/ agent.link = "down")
    /\ reading' = reading \ {a}
    /\ hubAgent' = Remaining(a)
    /\ fromAgent' = [fromAgent EXCEPT ![a] = <<>>]
    /\ Forget(Remaining(a), Attached)
    /\ UNCHANGED <<tabs, connOf, forwarding, agentVars, toAgent, historyVars, tabEpoch, tabId,
                   queueVars>>

--------------------------------------------------------------------------------
(* The agent: startLocalAgentLoop, runWSRuntime and the message loop.           *)

\* Mutant: connections and their selections outlive the runtime.
Registry_Kept == selected

\* Every runtime has a registry of its own.
Registry == NewRegistry

\* Dial, attach (the one that was there is replaced), runWSRuntime.
Connect ==
    /\ agent.pc = "dial" /\ agent.no < MaxAgents
    /\ agent' = [no |-> agent.no + 1, link |-> "up", pc |-> "read", conn |-> 0, req |-> NoRequest]
    /\ selected' = Registry /\ toAgent' = <<>>
    /\ hubAgent' = agent.no + 1 /\ reading' = reading \union {agent.no + 1}
    /\ UNCHANGED <<tabs, connOf, nextConnSeq, forwarding, fromAgent, historyVars,
                   epochVars, queueVars>>

\* The socket breaks, or a write to it takes too long. The last one allowed stays.
BreakLink ==
    /\ agent.link = "up" /\ agent.no < MaxAgents
    /\ agent' = [agent EXCEPT !.link = "down"]
    /\ excused' = excused \union Pending
    /\ UNCHANGED <<tabs, hubVars, forwarding, fromAgent, selected, toAgent, reqs, delivered,
                   epochVars, queueVars>>

\* Run ends when the message loop reads again, and not before.
EndRuntime ==
    /\ agent.link = "down" /\ agent.pc = "read"
    /\ agent' = [agent EXCEPT !.pc = "dial"]
    /\ UNCHANGED <<tabs, hubVars, forwarding, fromAgent, selected, toAgent, historyVars,
                   epochVars, queueVars>>

\* Mutant: an operation that failed is not answered.
NextPc_ErrorSilent(req, done) ==
    CASE req.op = "post" -> "wait" [] ~done -> "read" [] OTHER -> "reply"

\* A post waits in Enqueue; anything else has its answer, or its error, at once.
NextPc(req, done) == IF req.op = "post" THEN "wait" ELSE "reply"

\* The caller is in the select of Enqueue.
CallEnqueue(k, e) ==
    /\ posting' = [posting EXCEPT ![k] = @ \union {e}]
    /\ UNCHANGED <<log, started, finished, cancelled>>

\* A request for the HTTP API is given the pane its connection selected last.
ActivePane(msg) == IF reqs[msg.req].op = "post" THEN selected[msg.conn] ELSE NoPane

\* GetOrCreateConn, enrichGatewayHTTPMessage and Handle. Selecting a pane or typing
\* into it may fail in tmux; when it does not, the connection has it selected. (What
\* a pane that closes does to the selection is in RuntimePanes.)
Handle ==
    /\ agent.pc = "read" /\ toAgent # <<>>
    /\ \E done \in BOOLEAN :
       LET msg == Head(toAgent)
           req == reqs[msg.req]
       IN  /\ agent' = [agent EXCEPT !.pc = NextPc(req, done), !.conn = msg.conn, !.req = msg.req]
           /\ reqs' = [reqs EXCEPT ![msg.req].by = agent.no, ![msg.req].header = ActivePane(msg)]
           /\ IF req.op = "post"
              THEN /\ done /\ UNCHANGED selected
                   /\ \E k \in Task : CallEnqueue(k, msg.req)
              ELSE /\ selected' = IF done THEN [selected EXCEPT ![msg.conn] = req.pane] ELSE selected
                   /\ UNCHANGED queueVars
    /\ toAgent' = Tail(toAgent)
    /\ UNCHANGED <<tabs, hubVars, forwarding, fromAgent, delivered, excused, epochVars>>

\* Enqueue returns; the request's context never ends.
Posted ==
    /\ agent.pc = "wait" /\ \A k \in Task : agent.req \notin posting[k]
    /\ agent' = [agent EXCEPT !.pc = "reply"]
    /\ UNCHANGED <<tabs, hubVars, forwarding, fromAgent, selected, toAgent, historyVars,
                   epochVars, queueVars>>

\* WrapMuxEnvelope and Send. What a broken socket was given is lost.
Reply ==
    /\ agent.pc = "reply"
    /\ agent' = [agent EXCEPT !.pc = "read"]
    /\ \/ fromAgent' = [fromAgent EXCEPT ![agent.no] = Append(@, [conn |-> agent.conn, req |-> agent.req])]
       \/ agent.link = "down" /\ UNCHANGED fromAgent
    /\ UNCHANGED <<tabs, hubVars, forwarding, selected, toAgent, historyVars, epochVars, queueVars>>

--------------------------------------------------------------------------------
\* enqueueRunCompletionActions: the goroutine of a pane posts its completion.
AutoProgress(k) ==
    /\ \A j \in Task : Report \notin posting[j] /\ Report \notin Range(log[j])
    /\ CallEnqueue(k, Report)
    /\ UNCHANGED <<tabs, hubVars, forwarding, fromAgent, agentVars, toAgent, historyVars, epochVars>>

\* The channel has room for one of the callers.
Room(k) == Len(log[k]) - started[k] < QueueSize

\* The rest of the queue: a caller gets room, handlers are called and return.
QueueStep(k) ==
    /\ \/ \E e \in posting[k] : /\ Room(k) /\ Queue!Accept(k, e)
                                /\ posting' = [posting EXCEPT ![k] = @ \ {e}]
       \/ (Queue!Start(k) \/ Queue!Finish(k)) /\ UNCHANGED posting
    /\ UNCHANGED <<tabs, hubVars, forwarding, fromAgent, agentVars, toAgent, historyVars, epochVars>>

HubStep == \/ \E t \in Tab : Forward(t)
           \/ \E a \in Agent : RouteReply(a)
AgentStep == Handle \/ Posted \/ Reply \/ EndRuntime \/ Connect

Next ==
    \/ \E t \in Tab :
          \/ AttachClient(t) \/ DetachClient(t) \/ Forward(t)
          \/ \E p \in Pane : Ask(t, "select", p)
          \/ Ask(t, "post", NoPane)
    \/ \E a \in Agent : RouteReply(a) \/ DetachAgent(a)
    \/ AgentStep \/ BreakLink
    \/ \E k \in Task : AutoProgress(k) \/ QueueStep(k)

\* The hub's readers, the agent's loops and the actors of the queue are goroutines
\* that run; a Go channel serves its senders in turn; handlers return.
Fairness ==
    /\ \A t \in Tab : WF_vars(Forward(t))
    /\ \A a \in Agent : WF_vars(RouteReply(a))
    /\ WF_vars(AgentStep)
    /\ \A k \in Task : WF_vars(QueueStep(k))

Spec == Init /\ [][Next]_vars /\ Fairness

--------------------------------------------------------------------------------
RequestRecord == [tab : Tab, op : {"select", "post"}, pane : Pane \union {NoPane},
                  by : Agent \union {0}, header : Pane \union {NoPane}]
Envelope == [conn : ConnId, req : Request]
Forwarded == [agent : 0..MaxAgents, conn : 0..MaxTabs, req : 0..MaxRequests]

TypeOK ==
    /\ tabs \in [Tab -> {"new", "open", "closed"}]
    /\ nextConnSeq \in 0..MaxTabs /\ connOf \in [Tab -> 0..MaxTabs]
    /\ hubAgent \in 0..MaxAgents /\ reading \subseteq Agent
    /\ forwarding \in [Tab -> Forwarded]
    /\ fromAgent \in [Agent -> Seq(Envelope)] /\ toAgent \in Seq(Envelope)
    /\ agent \in [no : 0..MaxAgents, link : {"up", "down"}, conn : 0..MaxTabs,
                   pc : {"dial", "read", "wait", "reply"}, req : 0..MaxRequests]
    /\ selected \in [ConnId -> Pane \union {NoPane}]
    /\ reqs \in Seq(RequestRecord) /\ Len(reqs) <= MaxRequests
    /\ delivered \in [Tab -> Seq(Request)]
    /\ epoch \in Nat /\ tabEpoch \in [Tab -> Nat] /\ tabId \in [Tab -> 0..MaxTabs]

\* The tab that made request r was attached in the session that t is, or was, in.
SameSession(r, t) == tabEpoch[reqs[r].tab] = tabEpoch[t]

\* An answer comes to the tab that asked, once, and the answers of one agent come in
\* the order of the questions, though agents are replaced while their last messages
\* are still being read, and one loop serves every tab. Only once the hub has
\* forgotten a session are its ids given again.
ReplyReachesAsker ==
    \A t \in Tab : \A i \in DOMAIN delivered[t] : SameSession(delivered[t][i], t) =>
        /\ reqs[delivered[t][i]].tab = t
        /\ \A j \in DOMAIN delivered[t] : i < j /\ SameSession(delivered[t][j], t) =>
              /\ delivered[t][i] # delivered[t][j]
              /\ reqs[delivered[t][i]].by = reqs[delivered[t][j]].by
                    => delivered[t][i] < delivered[t][j]

\* The active pane put into a request's headers is one that the tab of the request
\* selected or typed into under the same agent: never another tab's.
ActivePaneIsAskers ==
    \A r \in DOMAIN reqs : reqs[r].header # NoPane =>
        \E q \in 1..(r - 1) : /\ reqs[q].tab = reqs[r].tab /\ reqs[q].by = reqs[r].by
                              /\ reqs[q].op = "select"
                              /\ reqs[q].pane = reqs[r].header

\* While the agent is connected the hub sends it what tabs ask, however late the
\* readers of its earlier connections end.
NewestAgentServes == agent.link = "up" => hubAgent = agent.no

\* A request is answered unless its tab is closed, the agent's connection breaks or
\* there is none; a pane that posts auto-progress goes on; an agent that has lost its
\* connection gets another. Neither a full queue nor a connection that breaks while
\* the message loop waits for room lasts: again and again nothing is left to do.
RequestsEnd ==
    []<>(/\ Pending \subseteq excused
         /\ \A k \in Task : Report \notin posting[k]
         /\ agent.link = "up")

--------------------------------------------------------------------------------
(* The inductive invariant. What makes answers come in order is that a tab has  *)
(* one request at a time in the hub, the agent's queue keeps the order, and one *)
(* loop handles it; what makes ids safe is that the hub forgets a session only  *)
(* when nobody is left who could be asked, or answered, under them.             *)

\* An attached tab has the id it was given, no other tab of the session has it.
IdsAreGivenOnce ==
    /\ \A t \in Tab :
        /\ connOf[t] = IF tabs[t] = "open" THEN tabId[t] ELSE 0
        /\ tabs[t] = "new" <=> tabId[t] = 0
        /\ tabs[t] = "new" => nextConnSeq < t /\ delivered[t] = <<>> /\ forwarding[t] = Idle
        /\ tabs[t] = "open" => tabEpoch[t] = epoch
        /\ tabs[t] # "new" => tabEpoch[t] <= epoch
        /\ tabs[t] # "new" /\ tabEpoch[t] = epoch => tabId[t] <= nextConnSeq
    /\ \A t, u \in Tab :
        tabs[t] # "new" /\ tabs[u] # "new" /\ tabEpoch[t] = tabEpoch[u] /\ tabId[t] = tabId[u]
            => t = u

TabOf(r) == reqs[r].tab
Handled(r) == reqs[r].by # 0
Busy == agent.pc \in {"wait", "reply"}

RequestsHaveTabs ==
    \A r \in DOMAIN reqs :
        /\ tabs[TabOf(r)] # "new" /\ reqs[r].by <= agent.no
        /\ reqs[r].header # NoPane => Handled(r)

\* What a tab's reader is about to write is the last thing the tab asked.
ForwardsLatest ==
    \A t \in Tab : forwarding[t] # Idle =>
        LET f == forwarding[t]
        IN  /\ tabs[t] = "open" /\ f.conn = tabId[t] /\ f.agent <= agent.no
            /\ f.req \in DOMAIN reqs /\ TabOf(f.req) = t /\ ~Handled(f.req)
            /\ \A r \in DOMAIN reqs : TabOf(r) = t => r <= f.req

\* What waits for the message loop came after what it has handled and before what
\* is still in the hub.
WaitingInOrder ==
    \A i \in 1..Len(toAgent) :
        LET r == toAgent[i].req
        IN  /\ r \in DOMAIN reqs /\ ~Handled(r) /\ toAgent[i].conn = tabId[TabOf(r)]
            /\ \A q \in DOMAIN reqs : TabOf(q) = TabOf(r) /\ Handled(q) => q < r
            /\ \A j \in 1..Len(toAgent) : i < j /\ TabOf(toAgent[j].req) = TabOf(r)
                    => r < toAgent[j].req
            /\ forwarding[TabOf(r)] # Idle => r < forwarding[TabOf(r)].req

\* The request the loop is on is the newest of its tab that has been handled, and
\* has not been answered.
HandledNow ==
    /\ agent.pc # "dial" => agent.no # 0
    /\ Busy =>
        /\ agent.req \in DOMAIN reqs /\ reqs[agent.req].by = agent.no
        /\ agent.conn = tabId[TabOf(agent.req)]
        /\ \A q \in DOMAIN reqs :
              TabOf(q) = TabOf(agent.req) /\ Handled(q) => q <= agent.req
        /\ \A a \in Agent : \A i \in 1..Len(fromAgent[a]) : fromAgent[a][i].req # agent.req
        /\ \A t \in Tab : \A i \in 1..Len(delivered[t]) : delivered[t][i] # agent.req

SameTabAndAgent(r, q) == TabOf(r) = TabOf(q) /\ reqs[r].by = reqs[q].by

\* The answers on their way are in order, after those that have arrived.
AnswersInOrder ==
    \A a \in Agent : \A i \in 1..Len(fromAgent[a]) :
        LET r == fromAgent[a][i].req
        IN  /\ r \in DOMAIN reqs /\ reqs[r].by = a /\ fromAgent[a][i].conn = tabId[TabOf(r)]
            /\ \A j \in 1..Len(fromAgent[a]) :
                  i < j /\ TabOf(fromAgent[a][j].req) = TabOf(r) => r < fromAgent[a][j].req
            /\ \A t \in Tab : \A k \in 1..Len(delivered[t]) :
                  SameTabAndAgent(delivered[t][k], r) => delivered[t][k] < r

DeliveredInOrder ==
    \A t \in Tab : \A i \in 1..Len(delivered[t]) :
        /\ delivered[t][i] \in DOMAIN reqs /\ Handled(delivered[t][i])
        /\ SameSession(delivered[t][i], t) => TabOf(delivered[t][i]) = t
        /\ \A j \in 1..Len(delivered[t]) :
              i < j /\ SameTabAndAgent(delivered[t][i], delivered[t][j])
                => delivered[t][i] < delivered[t][j]

\* The requests the agent has got since it connected come from tabs of one session,
\* the present one while it is connected.
OneSession ==
    LET mine == {r \in DOMAIN reqs : Handled(r) /\ reqs[r].by = agent.no}
                    \union {toAgent[i].req : i \in 1..Len(toAgent)}
    IN  \A r, q \in mine : /\ tabEpoch[TabOf(r)] = tabEpoch[TabOf(q)]
                           /\ agent.link = "up" => tabEpoch[TabOf(r)] = epoch

ServesWhileUp ==
    /\ NewestAgentServes
    /\ hubAgent <= agent.no
    /\ agent.link = "up" => agent.no # 0 /\ agent.pc # "dial"

\* What a connection has selected, a request of the tab with its id asked for.
SelectedByAsker ==
    \A c \in ConnId : selected[c] # NoPane =>
        \E q \in DOMAIN reqs :
            /\ Handled(q) /\ reqs[q].by = agent.no /\ reqs[q].op = "select"
            /\ reqs[q].pane = selected[c] /\ tabId[TabOf(q)] = c

GatewayInv ==
    /\ TypeOK /\ IdsAreGivenOnce /\ RequestsHaveTabs /\ ForwardsLatest /\ WaitingInOrder
    /\ HandledNow /\ AnswersInOrder /\ DeliveredInOrder /\ OneSession /\ ServesWhileUp
    /\ SelectedByAsker /\ ActivePaneIsAskers

================================================================================
