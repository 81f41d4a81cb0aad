------------------------------ MODULE RuntimePanes ------------------------------
(* The panes the program knows of, and who hears them (cli/cmd/shellman:        *)
(* runtime_registry_actor.go, runtime_conn_actor.go, runtime_control_mode_hub.go*)
(* and the realtime half of runtime_pane_actor.go), for one tmux session.       *)
(*                                                                              *)
(* The registry maps a pane to its actor, the hub keeps a watcher of the session*)
(* (a tmux client in control mode) to which the actors subscribe, and a         *)
(* connection keeps the list of the panes it watches. Three kinds of goroutine  *)
(* work on them: the message loop, one loop per watcher, and the pane actors'   *)
(* status hooks. The registry's lock is held over a whole subscription of a new *)
(* actor and over nothing else that takes time.                                 *)
(*                                                                              *)
(* A pane id is never used again by tmux. An actor is named by its pane and a   *)
(* number, since a pane can be given up and registered once more.               *)
EXTENDS Integers, Sequences, FiniteSets, SequencesExt

CONSTANTS
    Pane, NoPane, Conn,
    Limit,          \* activePaneWatchLimit
    LineLimit,      \* capacity of realControlSessionClient.lines
    MaxWatcher,     \* bound: clients attached to the session, one after another
    MaxActor,       \* bound: actors of one pane, one after another
    MaxEvent        \* bound: selections, crashes of the client, unknown output

ASSUME RuntimePanesAssumption ==
    /\ NoPane \notin Pane /\ IsFiniteSet(Pane) /\ Conn # {}
    /\ Limit \in Nat \ {0} /\ LineLimit \in Nat
    /\ MaxWatcher \in Nat \ {0} /\ MaxActor \in Nat \ {0}
    /\ MaxEvent \in Nat

Watcher == 1..MaxWatcher
Actor == Pane \X (1..MaxActor)
NoStop == [watcher |-> 0, id |-> 0]

VARIABLES
    tmux,           \* every pane's life in tmux: "new", "live", "gone"
    session,        \* h.sessions of the session: the watcher, 0 for none
    watcher,        \* the watchers, also those given up: map, subs, nextID, lines, open
    hub,            \* what every watcher's loop is doing
    actor,          \* the actors' subscribers and realtimeStop
    actorOf,        \* r.panes: the number of a pane's actor, 0 for none
    made,           \* how many actors a pane has had
    items,          \* r.paneItems, the panes alone
    known,          \* r.conns
    order,          \* watchOrder of every connection
    ml,             \* what the message loop is doing
    events,         \* how many of them there have been
    emit,           \* an emission of the list by a status hook
    shown,          \* whether the list the browsers have is the current one
    lost,           \* history: panes a signal does not find, because of other refreshes
    robbed,         \* history: actors whose subscription was taken by another's stop
    overlap         \* history: two emissions have been under way together

tmuxVars == <<tmux, session, watcher>>
registryVars == <<actor, actorOf, made, items, known, order>>
listVars == <<emit, shown, overlap>>
vars == <<tmuxVars, events, registryVars, hub, ml, listVars, lost, robbed>>

Live == {p \in Pane : tmux[p] = "live"}

Event == events < MaxEvent /\ events' = events + 1

NoWatcher == [map |-> {}, subs |-> {}, next |-> 0, lines |-> <<>>, open |-> FALSE]
HubIdle == [pc |-> "idle", before |-> {}, list |-> {}, todo |-> {}, exit |-> FALSE,
            pane |-> NoPane, number |-> 0, conns |-> {}, current |-> FALSE]
MlIdle == [pc |-> "idle", conn |-> CHOOSE c \in Conn : TRUE, pane |-> NoPane, evicted |-> NoPane,
           number |-> 0, stop |-> NoStop, list |-> {}, locked |-> FALSE]
EmitIdle == [pc |-> "idle", current |-> FALSE]

(* A watcher has given out the numbers of its subscriptions, each to one.       *)
SubscriptionsOK ==
    \A w \in Watcher :
        /\ watcher[w].subs \subseteq
             [id : 1..watcher[w].next, pane : Pane, number : 1..MaxActor]
        /\ \A s, t \in watcher[w].subs : s.id = t.id => s = t

(* A connection's list has a pane once, and no more panes than it may.          *)
WatchOrderOK ==
    \A c \in Conn :
        order[c] \in Seq(Pane) /\ IsInjective(order[c]) /\ Len(order[c]) <= Limit

TypeOK ==
    /\ tmux \in [Pane -> {"new", "live", "gone"}]
    /\ session \in 0..MaxWatcher
    /\ \A w \in Watcher :
         /\ watcher[w].map \subseteq Pane
         /\ watcher[w].lines \in Seq(Pane \cup {"topology"}) /\ Len(watcher[w].lines) <= LineLimit
         /\ hub[w].pc \in {"none", "idle", "assign", "compare", "deliver", "close",
                           "end", "copy", "send", "done"}
         /\ hub[w].todo \subseteq Pane
    /\ \A a \in Actor : actor[a].subs \subseteq Conn
                        /\ actor[a].stop \in [watcher : 0..MaxWatcher, id : Nat]
    /\ actorOf \in [Pane -> 0..MaxActor] /\ made \in [Pane -> 0..MaxActor]
    /\ \A p \in Pane : actorOf[p] \in {0, made[p]}
    /\ items \subseteq Pane /\ shown \in BOOLEAN /\ known \subseteq Conn
    /\ SubscriptionsOK /\ WatchOrderOK
    /\ ml.pc \in {"idle", "pane", "list", "assign", "add", "capture", "evict"}
    /\ robbed \subseteq Actor
    /\ lost \subseteq Pane

(* bootstrapPanesFromTmux has registered every pane there is.                   *)
Init ==
    \E panes \in (SUBSET Pane) \ {{}} :
      \E id \in Bijection(panes, 1..Cardinality(panes)) :
         /\ tmux = [p \in Pane |-> IF p \in panes THEN "live" ELSE "new"]
         /\ session = 1
         /\ watcher = [w \in Watcher |-> IF w # 1 THEN NoWatcher ELSE
              [map |-> panes, subs |-> {[id |-> id[p], pane |-> p, number |-> 1] : p \in panes},
               next |-> Cardinality(panes), lines |-> <<>>, open |-> TRUE]]
         /\ hub = [w \in Watcher |-> IF w = 1 THEN HubIdle ELSE [HubIdle EXCEPT !.pc = "none"]]
         /\ actor = [a \in Actor |-> [subs |-> {}, stop |->
              IF a[1] \in panes /\ a[2] = 1 THEN [watcher |-> 1, id |-> id[a[1]]] ELSE NoStop]]
         /\ actorOf = [p \in Pane |-> IF p \in panes THEN 1 ELSE 0]
         /\ made = actorOf
         /\ items = panes /\ shown = TRUE
         /\ known = {} /\ order = [c \in Conn |-> <<>>]
         /\ ml = MlIdle /\ emit = EmitIdle /\ events = 0
         /\ lost = {} /\ robbed = {} /\ overlap = FALSE

-----------------------------------------------------------------------------
(* tmux and its clients.                                                        *)

(* scanStdout puts a line into the channel, or drops it when that is full.      *)
Line(line) ==
    watcher' = [w \in Watcher |->
        IF watcher[w].open /\ Len(watcher[w].lines) < LineLimit
        THEN [watcher[w] EXCEPT !.lines = Append(@, line)] ELSE watcher[w]]

PaneOpens(p) ==
    /\ tmux[p] = "new" /\ Live # {} /\ Event
    /\ tmux' = [tmux EXCEPT ![p] = "live"]
    /\ Line("topology")
    /\ UNCHANGED <<session, registryVars, hub, ml, listVars, lost, robbed>>

PaneExits(p) ==
    /\ tmux[p] = "live" /\ Event
    /\ tmux' = [tmux EXCEPT ![p] = "gone"]
    /\ Line("topology")
    /\ lost' = IF session # 0 /\ Len(watcher[session].lines) = LineLimit
                  /\ "topology" \notin Range(watcher[session].lines)
               THEN lost \cup {p} ELSE lost
    /\ UNCHANGED <<session, registryVars, hub, ml, listVars, robbed>>

(* A pane writes something. What a known pane writes only matters to its actor, *)
(* see StatusChanges.                                                           *)
Output(p) ==
    /\ tmux[p] = "live" /\ session # 0 /\ p \notin watcher[session].map /\ Event
    /\ \A w \in Watcher : p \notin Range(watcher[w].lines)
    /\ Line(p)
    /\ UNCHANGED <<tmux, session, registryVars, hub, ml, listVars, lost, robbed>>

ClientExits(w) ==
    /\ watcher[w].open
    /\ IF Live = {} THEN UNCHANGED events ELSE Event
    /\ watcher' = [watcher EXCEPT ![w].open = FALSE]
    /\ UNCHANGED <<tmux, session, registryVars, hub, ml, listVars, lost, robbed>>

-----------------------------------------------------------------------------
(* ControlModeHub: subscriptions.                                               *)

Locked == ml.locked

(* The part of Subscribe under h.mu: a watcher is attached if there is none.    *)
SubscribeCan(p) ==
    tmux[p] = "live" /\ (session # 0 \/ \E w \in Watcher : hub[w].pc = "none")

SubscribeHub(p, number, w) ==
    LET old == IF session # 0 THEN watcher[w]
               ELSE [NoWatcher EXCEPT !.map = Live, !.open = TRUE]
    IN /\ session' = w
       /\ watcher' = [watcher EXCEPT ![w] = [old EXCEPT !.next = @ + 1,
              !.subs = @ \cup {[id |-> old.next + 1, pane |-> p, number |-> number]}]]
       /\ hub' = IF session # 0 THEN hub ELSE [hub EXCEPT ![w] = HubIdle]
       /\ ml' = [ml EXCEPT !.pc = "list", !.number = number,
                           !.stop = [watcher |-> w, id |-> old.next + 1],
                           !.locked = ml.pc = "pane"]

NextWatcher == IF session # 0 THEN session
               ELSE CHOOSE w \in Watcher : hub[w].pc = "none"

(* The closure finds its watcher by the name of the session: the one that is    *)
(* there by now.                                                                *)
StopsIn(stop) == session

(* unsubscribe, under h.mu.                                                     *)
Unsubscribed(stop) ==
    LET w == StopsIn(stop)
        left == {s \in watcher[w].subs : s.id # stop.id}
    IN IF stop = NoStop \/ w = 0 THEN UNCHANGED <<session, watcher, robbed>>
       ELSE /\ watcher' = [watcher EXCEPT ![w].subs = left,
                                          ![w].open = @ /\ left # {}]
            /\ session' = IF left = {} THEN 0 ELSE session
            /\ robbed' = IF stop.watcher = w THEN robbed
                         ELSE robbed \cup {<<s.pane, s.number>> : s \in watcher[w].subs \ left}

-----------------------------------------------------------------------------
(* The message loop: tmux.select_pane.                                          *)

Watched(o, p) == Append(RemoveFirst(o, p), p)

OverLimit_OneMore(o) == Len(o) > Limit + 1
OverLimit(o) == Len(o) > Limit

Evicted(o) == Head(o)

KnownWith(c) == known \cup {c}

(* The handler has selected the pane in tmux, and the connection notes it.      *)
SelectPane(c, p) ==
    LET o == Watched(order[c], p)
        over == OverLimit(o)
    IN /\ ml.pc = "idle" /\ tmux[p] = "live" /\ Event
       /\ known' = KnownWith(c)
       /\ order' = [order EXCEPT ![c] = IF over THEN Tail(o) ELSE o]
       /\ ml' = [MlIdle EXCEPT !.pc = "pane", !.conn = c, !.pane = p,
                              !.evicted = IF over THEN Evicted(o) ELSE NoPane]
       /\ UNCHANGED <<tmuxVars, actor, actorOf, made, items, hub, listVars, lost, robbed>>

(* GetOrCreatePane finds the actor or makes one and starts it: a new actor      *)
(* subscribes to the hub while the registry is locked.                          *)
PaneFound ==
    /\ ml.pc = "pane" /\ actorOf[ml.pane] # 0
    /\ ml' = [ml EXCEPT !.pc = "add", !.number = actorOf[ml.pane]]
    /\ UNCHANGED <<events, tmuxVars, registryVars, hub, listVars, lost, robbed>>

Register(p, number) ==
    /\ actorOf' = [actorOf EXCEPT ![p] = number]
    /\ items' = items \cup {p}

PaneCreated ==
    /\ ml.pc = "pane" /\ actorOf[ml.pane] = 0 /\ made[ml.pane] < MaxActor
    /\ made' = [made EXCEPT ![ml.pane] = @ + 1]
    /\ IF SubscribeCan(ml.pane)
       THEN SubscribeHub(ml.pane, made[ml.pane] + 1, NextWatcher) /\ UNCHANGED <<actorOf, items>>
       ELSE /\ ml' = [ml EXCEPT !.pc = "add", !.number = made[ml.pane] + 1]
            /\ Register(ml.pane, made[ml.pane] + 1)
            /\ UNCHANGED <<session, watcher, hub>>
    /\ UNCHANGED <<events, tmux, actor, known, order, listVars, lost, robbed>>

(* RefreshPaneMap of the subscriber: the panes are listed and then assigned.    *)
ListPanes ==
    /\ ml.pc = "list"
    /\ ml' = [ml EXCEPT !.pc = "assign", !.list = Live]
    /\ UNCHANGED <<events, tmuxVars, registryVars, hub, listVars, lost, robbed>>

(* What a refresh takes from the map, or puts back although it has gone since,  *)
(* no signal finds.                                                             *)
Swallowed(w, list) == (watcher[w].map \ list) \cup (list \ Live)

(* The list fails when the session is gone. Then the actor has its subscription,*)
(* and in the registry it is when it is new.                                    *)
AssignPanes ==
    LET w == ml.stop.watcher
        a == <<ml.pane, ml.number>>
    IN /\ ml.pc = "assign"
       /\ IF ml.list = {} THEN UNCHANGED <<watcher, lost>>
          ELSE /\ watcher' = [watcher EXCEPT ![w].map = ml.list]
               /\ lost' = lost \cup Swallowed(w, ml.list) \cup ({ml.pane} \ ml.list)
       /\ actor' = [actor EXCEPT ![a].stop = ml.stop]
       /\ IF ml.locked THEN Register(ml.pane, ml.number) ELSE UNCHANGED <<actorOf, items>>
       /\ ml' = [ml EXCEPT !.pc = IF ml.locked THEN "add" ELSE "evict", !.locked = FALSE]
       /\ UNCHANGED <<events, tmux, session, made, known, order, hub, listVars, robbed>>

AddSubscriber ==
    /\ ml.pc = "add"
    /\ actor' = [actor EXCEPT ![<<ml.pane, ml.number>>].subs = @ \cup {ml.conn}]
    /\ ml' = [ml EXCEPT !.pc = "capture"]
    /\ UNCHANGED <<events, tmuxVars, actorOf, made, items, known, order, hub, listVars,
                   lost, robbed>>

(* The capture, and ensureRealtimeSubscribed. A capture that fails ends the     *)
(* subscription, as far as it has got.                                          *)
CaptureFails ==
    /\ ml.pc = "capture"
    /\ ml' = [ml EXCEPT !.pc = "evict"]
    /\ UNCHANGED <<events, tmuxVars, registryVars, hub, listVars, lost, robbed>>

EnsureRealtime ==
    /\ ml.pc = "capture" /\ SubscribeCan(ml.pane)
    /\ actor[<<ml.pane, ml.number>>].stop = NoStop
    /\ SubscribeHub(ml.pane, ml.number, NextWatcher)
    /\ UNCHANGED <<events, tmux, registryVars, listVars, lost, robbed>>

UnsubscribeEvicted ==
    /\ ml.pc = "evict"
    /\ actor' = IF ml.evicted = NoPane \/ ml.evicted = ml.pane THEN actor
                ELSE IF actorOf[ml.evicted] = 0 THEN actor
                ELSE [actor EXCEPT ![<<ml.evicted, actorOf[ml.evicted]>>].subs = @ \ {ml.conn}]
    /\ ml' = MlIdle
    /\ UNCHANGED <<events, tmuxVars, actorOf, made, items, known, order, hub, listVars,
                   lost, robbed>>

-----------------------------------------------------------------------------
(* The loop of a watcher.                                                       *)

PopLine(w) == watcher' = [watcher EXCEPT ![w].lines = Tail(@)]

HasLine(w) == hub[w].pc = "idle" /\ watcher[w].lines # <<>>

(* handleTopologySignal: the map before, then the list; a list that fails ends  *)
(* it.                                                                          *)
TopologySignal(w) ==
    /\ HasLine(w) /\ Head(watcher[w].lines) = "topology"
    /\ PopLine(w)
    /\ hub' = IF Live = {} THEN hub
              ELSE [hub EXCEPT ![w] = [HubIdle EXCEPT !.pc = "assign",
                                         !.before = watcher[w].map, !.list = Live]]
    /\ UNCHANGED <<events, tmux, session, registryVars, ml, listVars, lost, robbed>>

AssignAfterSignal(w) ==
    /\ hub[w].pc = "assign"
    /\ watcher' = [watcher EXCEPT ![w].map = hub[w].list]
    /\ lost' = lost \cup ((watcher[w].map \ hub[w].list) \ hub[w].before)
    /\ hub' = [hub EXCEPT ![w].pc = "compare"]
    /\ UNCHANGED <<events, tmux, session, registryVars, ml, listVars, robbed>>

RemovedPanes_Swapped(before, after) == after \ before
RemovedPanes(before, after) == before \ after

CompareMaps(w) ==
    /\ hub[w].pc = "compare"
    /\ hub' = [hub EXCEPT ![w] = [HubIdle EXCEPT !.pc = "close",
                 !.todo = RemovedPanes(hub[w].before, watcher[w].map)]]
    /\ UNCHANGED <<events, tmuxVars, registryVars, ml, listVars, lost, robbed>>

(* Output of a pane that is not in the map makes the loop list the panes.       *)
UnknownOutput(w) ==
    /\ HasLine(w) /\ Head(watcher[w].lines) # "topology"
    /\ PopLine(w)
    /\ hub' = IF Head(watcher[w].lines) \in watcher[w].map \/ Live = {} THEN hub
              ELSE [hub EXCEPT ![w] = [HubIdle EXCEPT !.pc = "deliver", !.list = Live]]
    /\ UNCHANGED <<events, tmux, session, registryVars, ml, listVars, lost, robbed>>

AssignAfterOutput(w) ==
    /\ hub[w].pc = "deliver"
    /\ watcher' = [watcher EXCEPT ![w].map = hub[w].list]
    /\ lost' = lost \cup (watcher[w].map \ hub[w].list)
    /\ hub' = [hub EXCEPT ![w] = HubIdle]
    /\ UNCHANGED <<events, tmux, session, registryVars, ml, listVars, robbed>>

Subscribed_Gone(w) == {s.pane : s \in watcher[w].subs} \ Live
Subscribed(w) == {s.pane : s \in watcher[w].subs}

(* onSessionLoopExit, once the channel is closed and empty.                     *)
LoopExits(w) ==
    /\ hub[w].pc = "idle" /\ ~watcher[w].open /\ watcher[w].lines = <<>>
    /\ session' = IF session = w THEN 0 ELSE session
    /\ hub' = [hub EXCEPT ![w] = [HubIdle EXCEPT !.pc = "close", !.exit = TRUE,
                                    !.todo = Subscribed(w)]]
    /\ UNCHANGED <<events, tmux, watcher, registryVars, ml, listVars, lost, robbed>>

AllClosed(w) ==
    /\ hub[w].pc = "close" /\ hub[w].todo = {}
    /\ hub' = [hub EXCEPT ![w] = IF hub[w].exit THEN [HubIdle EXCEPT !.pc = "done"] ELSE HubIdle]
    /\ watcher' = IF hub[w].exit THEN [watcher EXCEPT ![w] = NoWatcher] ELSE watcher
    /\ UNCHANGED <<events, tmux, session, registryVars, ml, listVars, lost, robbed>>

-----------------------------------------------------------------------------
(* RegistryActor.onPaneClosed, in a watcher's loop.                             *)

CloseUnregistered(w, p) ==
    /\ hub[w].pc = "close" /\ p \in hub[w].todo /\ ~Locked
    /\ actorOf[p] = 0 /\ p \notin items
    /\ hub' = [hub EXCEPT ![w].todo = @ \ {p}]
    /\ UNCHANGED <<events, tmuxVars, registryVars, ml, listVars, lost, robbed>>

Outdated == [w \in Watcher |-> [hub[w] EXCEPT !.current = FALSE]]

CloseRegistered(w, p) ==
    /\ hub[w].pc = "close" /\ p \in hub[w].todo /\ ~Locked
    /\ actorOf[p] # 0 \/ p \in items
    /\ hub' = [Outdated EXCEPT ![w].pc = "end",
                 ![w].todo = @ \ {p}, ![w].pane = p, ![w].number = actorOf[p], ![w].conns = known]
    /\ actorOf' = [actorOf EXCEPT ![p] = 0]
    /\ items' = items \ {p}
    /\ shown' = FALSE /\ emit' = [emit EXCEPT !.current = FALSE]
    /\ UNCHANGED <<events, tmuxVars, actor, made, known, order, ml, overlap, lost, robbed>>

(* DropWatch filters the list, which has the pane once.                         *)
Unwatched(o, p) == RemoveFirst(o, p)

(* NotifyEnded stops the realtime subscription, the connections are taken from  *)
(* the actor and the pane from their lists, under one lock after another. What  *)
(* others do meanwhile they could as well do before or after all of it.         *)
EndActor(w) ==
    LET a == <<hub[w].pane, hub[w].number>>
    IN /\ hub[w].pc = "end"
       /\ hub' = [hub EXCEPT ![w].pc = "copy"]
       /\ IF hub[w].number = 0 THEN UNCHANGED <<session, watcher, actor, robbed>>
          ELSE /\ Unsubscribed(actor[a].stop)
               /\ actor' = [actor EXCEPT ![a] = [subs |-> @.subs \ hub[w].conns, stop |-> NoStop]]
       /\ order' = [c \in Conn |-> IF c \in hub[w].conns
                                   THEN Unwatched(order[c], hub[w].pane) ELSE order[c]]
       /\ UNCHANGED <<events, tmux, actorOf, made, items, known, ml, listVars, lost>>

Emitting == Cardinality({w \in Watcher : hub[w].pc = "send"})
            + (IF emit.pc = "send" THEN 1 ELSE 0)

(* emitTmuxStatus: the list is copied under the lock and sent without it.       *)
CopyList(w) ==
    /\ hub[w].pc = "copy" /\ ~Locked
    /\ hub' = [hub EXCEPT ![w].pc = "send", ![w].current = TRUE]
    /\ overlap' = (overlap \/ Emitting > 0)
    /\ UNCHANGED <<events, tmuxVars, registryVars, ml, emit, shown, lost, robbed>>

SendList(w) ==
    /\ hub[w].pc = "send"
    /\ shown' = hub[w].current
    /\ hub' = [hub EXCEPT ![w] = [HubIdle EXCEPT !.pc = "close", !.todo = hub[w].todo,
                                                 !.exit = hub[w].exit]]
    /\ UNCHANGED <<events, tmuxVars, registryVars, ml, emit, overlap, lost, robbed>>

-----------------------------------------------------------------------------
(* Status hooks: onPaneStatusUpdate.                                            *)

CallHook_NewOnly(p) ==
    /\ made[p] # 0 /\ ~Locked /\ Event
    /\ items' = items \cup {p}
    /\ emit.pc = "idle"
    /\ emit' = IF p \in items THEN emit ELSE [pc |-> "send", current |-> TRUE]
    /\ hub' = Outdated
    /\ shown' = FALSE
    /\ UNCHANGED <<tmuxVars, actor, actorOf, made, known, order, ml, overlap, lost, robbed>>

(* An actor that has evaluated the status of its pane calls the hook, maybe long*)
(* after the pane was closed. When the item has changed, and else nothing       *)
(* happens, the list is copied and sent.                                        *)
CallHook(p) ==
    /\ made[p] # 0 /\ ~Locked /\ Event
    /\ items' = items \cup {p}
    /\ emit.pc = "idle"
    /\ emit' = [pc |-> "send", current |-> TRUE]
    /\ hub' = Outdated
    /\ shown' = FALSE
    /\ overlap' = (overlap \/ Emitting > 0)
    /\ UNCHANGED <<tmuxVars, actor, actorOf, made, known, order, ml, lost, robbed>>

HookSends ==
    /\ emit.pc = "send"
    /\ shown' = emit.current /\ emit' = EmitIdle
    /\ UNCHANGED <<events, tmuxVars, registryVars, hub, ml, overlap, lost, robbed>>

-----------------------------------------------------------------------------
MessageLoop ==
    \/ PaneFound \/ PaneCreated \/ ListPanes \/ AssignPanes
    \/ AddSubscriber \/ CaptureFails \/ EnsureRealtime \/ UnsubscribeEvicted

HubLoop(w) ==
    \/ TopologySignal(w) \/ AssignAfterSignal(w) \/ CompareMaps(w)
    \/ UnknownOutput(w) \/ AssignAfterOutput(w) \/ LoopExits(w) \/ AllClosed(w)
    \/ \E p \in Pane : CloseUnregistered(w, p) \/ CloseRegistered(w, p)
    \/ EndActor(w) \/ CopyList(w) \/ SendList(w)

Next ==
    \/ \E p \in Pane : PaneOpens(p) \/ PaneExits(p) \/ Output(p)
    \/ \E w \in Watcher : ClientExits(w) \/ HubLoop(w)
    \/ \E c \in Conn, p \in Pane : SelectPane(c, p)
    \/ MessageLoop
    \/ \E p \in Pane : CallHook(p)
    \/ HookSends

Spec == Init /\ [][Next]_vars

-----------------------------------------------------------------------------
(* What makes a watcher find that a pane has gone: a signal is on its way and    *)
(* the map still has the pane, or is being handled and the comparison will tell;*)
(* or the client has ended, or has nothing more to live for.                    *)
Finds(w, p) ==
    \/ ~watcher[w].open \/ Live = {}
    \/ "topology" \in Range(watcher[w].lines) /\ p \in watcher[w].map
    \/ hub[w].pc = "assign" /\ p \in hub[w].before \ hub[w].list
    \/ hub[w].pc = "compare" /\ p \in hub[w].before \ watcher[w].map

WillFind(w, p) ==
    \/ p \in hub[w].todo
    \/ p \in Subscribed(w) /\ ~hub[w].exit /\ Finds(w, p)

(* A pane that is gone is given up: as long as it is registered, a signal or the*)
(* end of the client is on its way whose handling will find it, or it is about  *)
(* to be given up. What a signal has to find, another refresh of the map may    *)
(* take away, and a full channel, and a subscription may be taken away by       *)
(* another's stop. An actor that could not subscribe, since its pane had just   *)
(* gone, stays (handleTopologySignal, onSessionLoopExit, getOrCreatePaneLocked).*)
GoneAwaited ==
    \A p \in Pane :
        actorOf[p] # 0 /\ tmux[p] = "gone" /\ actor[<<p, actorOf[p]>>].stop # NoStop =>
        \/ p \in lost \/ <<p, actorOf[p]>> \in robbed
        \/ \E w \in Watcher : WillFind(w, p)

(* The subscription an actor's stop would end is there, and is its own.         *)
Heard(stop, p, number) ==
    /\ session = stop.watcher
    /\ [id |-> stop.id, pane |-> p, number |-> number] \in watcher[session].subs

Hears(p) == Heard(actor[<<p, actorOf[p]>>].stop, p, actorOf[p])

BeingClosed(p) == \E w \in Watcher : p \in hub[w].todo

(* An actor that takes itself for subscribed hears its pane, unless another's   *)
(* stop has taken its subscription; otherwise it is about to be ended           *)
(* (ensureRealtimeSubscribed, stopRealtime, broadcast).                         *)
DeafOnlyRobbed ==
    \A p \in Pane : actorOf[p] # 0 /\ actor[<<p, actorOf[p]>>].stop # NoStop =>
        Hears(p) \/ <<p, actorOf[p]>> \in robbed \/ BeingClosed(p)

(* As long as no two lists were on their way together, the browsers have the    *)
(* current one once it is sent (emitTmuxStatus).                                *)
ListIsCurrent ==
    /\ ~overlap /\ emit.pc = "idle"
    /\ \A w \in Watcher : hub[w].pc \notin {"end", "copy", "send"}
    => shown

-----------------------------------------------------------------------------
(* The inductive invariant.                                                     *)

Subscription == [id : Nat, pane : Pane, number : 1..MaxActor]
Stop == [watcher : 0..MaxWatcher, id : Nat]
WatcherState == [map : SUBSET Pane, subs : SUBSET Subscription, next : Nat,
                 lines : Seq(Pane \cup {"topology"}), open : BOOLEAN]
HubState == [pc : {"none", "idle", "assign", "compare", "deliver", "close", "end", "copy",
                   "send", "done"},
             before : SUBSET Pane, list : SUBSET Pane, todo : SUBSET Pane, exit : BOOLEAN,
             pane : Pane \cup {NoPane}, number : 0..MaxActor, conns : SUBSET Conn,
             current : BOOLEAN]
MlTyped ==
    /\ DOMAIN ml = {"pc", "conn", "pane", "evicted", "number", "stop", "list", "locked"}
    /\ ml.pc \in {"idle", "pane", "list", "assign", "add", "capture", "evict"}
    /\ ml.conn \in Conn /\ ml.pane \in Pane \cup {NoPane} /\ ml.number \in 0..MaxActor
    /\ ml.stop \in Stop /\ ml.list \subseteq Pane /\ ml.locked \in BOOLEAN

Typed ==
    /\ tmux \in [Pane -> {"new", "live", "gone"}] /\ session \in 0..MaxWatcher
    /\ watcher \in [Watcher -> WatcherState] /\ hub \in [Watcher -> HubState]
    /\ \A w \in Watcher : Len(watcher[w].lines) <= LineLimit
    /\ actor \in [Actor -> [subs : SUBSET Conn, stop : Stop]]
    /\ actorOf \in [Pane -> 0..MaxActor] /\ made \in [Pane -> 0..MaxActor]
    /\ known \subseteq Conn /\ DOMAIN order = Conn /\ MlTyped
    /\ emit \in [pc : {"idle", "send"}, current : BOOLEAN]
    /\ shown \in BOOLEAN /\ overlap \in BOOLEAN

(* Only the session's watcher has a client, and its loop has not been left.     *)
OneSession ==
    \A w \in Watcher :
        /\ hub[w].pc \in {"none", "done"} \/ hub[w].exit => session # w
        /\ watcher[w].open => session = w
        /\ hub[w].todo # {} => hub[w].pc \in {"close", "end", "copy", "send"}

Subscribing == ml.pc \in {"list", "assign"}

(* A pane has one actor at a time, and the one a loop is ending is not the one  *)
(* that is registered, nor the one that will be.                                *)
Numbered ==
    /\ \A p \in Pane : actorOf[p] \in {0, made[p]} /\ (made[p] # 0 => tmux[p] # "new")
    /\ \A a \in Actor : a[2] > made[a[1]] => actor[a].stop = NoStop
    /\ ml.pc # "idle" => ml.pane \in Pane /\ tmux[ml.pane] # "new"
    /\ ml.pc \in {"list", "assign", "add", "capture"} => ml.number \in 1..made[ml.pane]
    /\ ml.locked => Subscribing /\ actorOf[ml.pane] = 0 /\ ml.number = made[ml.pane]
    /\ \A w \in Watcher : hub[w].pc = "end" =>
         /\ hub[w].pane \in Pane /\ hub[w].number <= made[hub[w].pane]
         /\ hub[w].number # 0 =>
              /\ actorOf[hub[w].pane] # hub[w].number
              /\ ~(ml.locked /\ ml.pane = hub[w].pane /\ ml.number = hub[w].number)

(* A stop's number is its owner's, in the watcher it was made for.              *)
OwnedBy(stop, p, number) ==
    /\ stop.watcher \in Watcher /\ hub[stop.watcher].pc # "none"
    /\ hub[stop.watcher].pc # "done" => stop.id <= watcher[stop.watcher].next
    /\ \A s \in watcher[stop.watcher].subs :
         s.id = stop.id => s.pane = p /\ s.number = number

StopsOwned ==
    /\ \A a \in Actor : actor[a].stop # NoStop => OwnedBy(actor[a].stop, a[1], a[2])
    /\ Subscribing => OwnedBy(ml.stop, ml.pane, ml.number)
    /\ \A w \in Watcher : \A s \in watcher[w].subs : s.id <= watcher[w].next

(* The actor that is subscribing, if it is or becomes the pane's.               *)
PendingHeard ==
    Subscribing /\ (ml.locked \/ actorOf[ml.pane] = ml.number) =>
        \/ Heard(ml.stop, ml.pane, ml.number)
        \/ <<ml.pane, ml.number>> \in robbed \/ BeingClosed(ml.pane)

(* The maps and the lists are of panes that are or were there, and what a signal*)
(* does not list any more has gone.                                             *)
ListsPast ==
    /\ \A w \in Watcher :
         /\ \A p \in watcher[w].map : tmux[p] # "new"
         /\ hub[w].pc \in {"assign", "deliver"} => \A p \in hub[w].list : tmux[p] # "new"
         /\ hub[w].pc = "assign" => \A p \in hub[w].before \ hub[w].list : tmux[p] = "gone"
    /\ ml.pc = "assign" =>
         (\A p \in ml.list : tmux[p] # "new") /\ (ml.list = {} => Live = {})

(* What is heard is found once it has gone, and is in the map until then.       *)
HeardIsFound ==
    \A p \in Pane \ lost :
        actorOf[p] # 0 /\ actor[<<p, actorOf[p]>>].stop # NoStop /\ Hears(p) =>
        /\ tmux[p] = "live" => p \in watcher[session].map
        /\ tmux[p] = "gone" => Finds(session, p) \/ BeingClosed(p)

(* Without an overlap there is one list on its way, and after the last change   *)
(* of the items it is the current one.                                          *)
OneList ==
    ~overlap =>
    /\ \A v, w \in Watcher : hub[v].pc = "send" /\ hub[w].pc = "send" => v = w
    /\ \A w \in Watcher : hub[w].pc = "send" => emit.pc # "send"
    /\ (\A w \in Watcher : hub[w].pc \notin {"end", "copy"}) =>
         /\ \A w \in Watcher : hub[w].pc = "send" => hub[w].current
         /\ emit.pc = "send" => emit.current
         /\ emit.pc # "send" /\ (\A w \in Watcher : hub[w].pc # "send") => shown

RuntimeInv ==
    /\ Typed /\ OneSession /\ Numbered /\ StopsOwned /\ DeafOnlyRobbed /\ PendingHeard
    /\ ListsPast /\ HeardIsFound /\ OneList
================================================================================
