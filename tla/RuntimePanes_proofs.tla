------------------------- MODULE RuntimePanes_proofs --------------------------
(* Proofs about RuntimePanes for any panes, connections, watchers and bounds:   *)
(* a pane that has gone is found, who takes itself for subscribed is, and the   *)
(* browsers get the current list, but for the losses the model names; and what  *)
(* lists and subscriptions are made of.                                         *)
EXTENDS RuntimePanes, FiniteSetTheorems, SequenceTheorems, TLAPS

\* The constants are numbers, and no pane is the missing one.
LEMMA Bounds ==
    /\ MaxWatcher \in Nat \ {0} /\ MaxActor \in Nat \ {0} /\ NoPane \notin Pane
    /\ Watcher = 1..MaxWatcher /\ Actor = Pane \X (1..MaxActor) /\ LineLimit \in Nat
  BY RuntimePanesAssumption DEF Watcher, Actor

\* The idle message loop is one of its states, whichever connection it names.
LEMMA MlIdleState ==
    /\ ml' = MlIdle => MlTyped'
    /\ MlIdle.pc = "idle" /\ MlIdle.locked = FALSE
<1>1. PICK c \in Conn : c = CHOOSE d \in Conn : TRUE
  BY RuntimePanesAssumption
<1>2. MlIdle = [pc |-> "idle", conn |-> c, pane |-> NoPane, evicted |-> NoPane, number |-> 0,
                stop |-> NoStop, list |-> {}, locked |-> FALSE]
  BY <1>1 DEF MlIdle
<1>3. NoStop \in Stop
  BY Bounds DEF NoStop, Stop
<1>4. ASSUME ml' = MlIdle PROVE MlTyped'
  BY <1>2, <1>3, <1>4, Bounds DEF MlTyped
<1>. QED
  BY <1>2, <1>4

-------------------------------------------------------------------------------
(* States of the loops and the watchers.                                       *)

\* The fields of a loop, of a watcher and of a subscription.
LEMMA HubFields ==
    ASSUME NEW h \in HubState
    PROVE  /\ h.pc \in {"none", "idle", "assign", "compare", "deliver", "close", "end", "copy",
                        "send", "done"}
           /\ h.before \subseteq Pane /\ h.list \subseteq Pane /\ h.todo \subseteq Pane
           /\ h.exit \in BOOLEAN /\ h.pane \in Pane \cup {NoPane} /\ h.number \in 0..MaxActor
           /\ h.conns \subseteq Conn /\ h.current \in BOOLEAN
  BY DEF HubState

\* The same of a watcher.
LEMMA WatcherFields ==
    ASSUME NEW x \in WatcherState
    PROVE  /\ x.map \subseteq Pane /\ x.subs \subseteq Subscription /\ x.next \in Nat
           /\ x.lines \in Seq(Pane \cup {"topology"}) /\ x.open \in BOOLEAN
  BY DEF WatcherState

\* The same of a subscription.
LEMMA SubFields ==
    ASSUME NEW s \in Subscription
    PROVE  s.id \in Nat /\ s.pane \in Pane /\ s.number \in 1..MaxActor
  BY DEF Subscription

\* A loop that waits for a line.
LEMMA HubIdleState ==
    HubIdle \in HubState /\ HubIdle.pc = "idle" /\ HubIdle.todo = {} /\ HubIdle.exit = FALSE
  BY Bounds DEF HubIdle, HubState

\* A loop that goes on with what it has.
LEMMA HubMoves ==
    ASSUME NEW h \in HubState, NEW pc \in {"compare", "copy", "send"}
    PROVE  LET k == [h EXCEPT !.pc = pc]
           IN /\ k \in HubState /\ k.pc = pc /\ k.before = h.before /\ k.list = h.list
              /\ k.todo = h.todo /\ k.exit = h.exit /\ k.current = h.current /\ k.pane = h.pane
              /\ k.number = h.number
  BY DEF HubState

\* A loop that has listed the panes for unknown output.
LEMMA HubDelivers ==
    ASSUME NEW l \in SUBSET Pane
    PROVE  LET k == [HubIdle EXCEPT !.pc = "deliver", !.list = l]
           IN k \in HubState /\ k.pc = "deliver" /\ k.list = l /\ k.todo = {} /\ k.exit = FALSE
  BY HubIdleState DEF HubState

\* A loop with panes to close, and one that is done.
LEMMA HubCloses ==
    ASSUME NEW t \in SUBSET Pane, NEW e \in BOOLEAN
    PROVE  /\ LET k == [HubIdle EXCEPT !.pc = "close", !.todo = t]
              IN k \in HubState /\ k.pc = "close" /\ k.todo = t /\ k.exit = FALSE
           /\ LET k == [HubIdle EXCEPT !.pc = "close", !.exit = TRUE, !.todo = t]
              IN k \in HubState /\ k.pc = "close" /\ k.todo = t /\ k.exit = TRUE
           /\ LET k == [HubIdle EXCEPT !.pc = "close", !.todo = t, !.exit = e]
              IN k \in HubState /\ k.pc = "close" /\ k.todo = t /\ k.exit = e
           /\ LET k == [HubIdle EXCEPT !.pc = "done"]
              IN k \in HubState /\ k.pc = "done" /\ k.todo = {} /\ k.exit = FALSE
<1>1. LET k == [HubIdle EXCEPT !.pc = "close", !.todo = t]
      IN k \in HubState /\ k.pc = "close" /\ k.todo = t /\ k.exit = FALSE
  BY HubIdleState DEF HubState
<1>2. LET k == [HubIdle EXCEPT !.pc = "close", !.exit = TRUE, !.todo = t]
      IN k \in HubState /\ k.pc = "close" /\ k.todo = t /\ k.exit = TRUE
  BY HubIdleState DEF HubState
<1>3. LET k == [HubIdle EXCEPT !.pc = "close", !.todo = t, !.exit = e]
      IN k \in HubState /\ k.pc = "close" /\ k.todo = t /\ k.exit = e
  BY HubIdleState DEF HubState
<1>4. LET k == [HubIdle EXCEPT !.pc = "done"]
      IN k \in HubState /\ k.pc = "done" /\ k.todo = {} /\ k.exit = FALSE
  BY HubIdleState DEF HubState
<1>. QED
  BY <1>1, <1>2, <1>3, <1>4

\* A loop that takes a pane from those it has to close.
LEMMA HubTakes ==
    ASSUME NEW h \in HubState, NEW t \in SUBSET Pane
    PROVE  LET k == [h EXCEPT !.todo = t]
           IN /\ k \in HubState /\ k.pc = h.pc /\ k.before = h.before /\ k.list = h.list
              /\ k.todo = t /\ k.exit = h.exit /\ k.current = h.current /\ k.pane = h.pane
              /\ k.number = h.number
  BY DEF HubState

\* A change of the items makes every copied list an old one, and nothing else.
LEMMA OutdatedState ==
    ASSUME Typed
    PROVE  /\ Outdated \in [Watcher -> HubState]
           /\ \A v \in Watcher :
                /\ Outdated[v].pc = hub[v].pc /\ Outdated[v].before = hub[v].before
                /\ Outdated[v].list = hub[v].list /\ Outdated[v].todo = hub[v].todo
                /\ Outdated[v].exit = hub[v].exit /\ Outdated[v].pane = hub[v].pane
                /\ Outdated[v].number = hub[v].number /\ Outdated[v].current = FALSE
<1>1. \A h \in HubState : LET k == [h EXCEPT !.current = FALSE]
        IN /\ k \in HubState /\ k.pc = h.pc /\ k.before = h.before /\ k.list = h.list
           /\ k.todo = h.todo /\ k.exit = h.exit /\ k.current = FALSE /\ k.pane = h.pane
           /\ k.number = h.number
  BY DEF HubState
<1>. QED
  BY <1>1 DEF Typed, Outdated

\* A watcher with another map.
LEMMA WatcherMap ==
    ASSUME NEW x \in WatcherState, NEW m \in SUBSET Pane
    PROVE  LET k == [x EXCEPT !.map = m]
           IN /\ k \in WatcherState /\ k.map = m /\ k.subs = x.subs /\ k.next = x.next
              /\ k.lines = x.lines /\ k.open = x.open
  BY DEF WatcherState

\* A watcher with other lines.
LEMMA WatcherLines ==
    ASSUME NEW x \in WatcherState, NEW l \in Seq(Pane \cup {"topology"})
    PROVE  LET k == [x EXCEPT !.lines = l]
           IN /\ k \in WatcherState /\ k.map = x.map /\ k.subs = x.subs /\ k.next = x.next
              /\ k.lines = l /\ k.open = x.open
  BY DEF WatcherState

\* A watcher whose client goes on or not.
LEMMA WatcherCloses ==
    ASSUME NEW x \in WatcherState, NEW o \in BOOLEAN
    PROVE  LET k == [x EXCEPT !.open = o]
           IN /\ k \in WatcherState /\ k.map = x.map /\ k.subs = x.subs /\ k.next = x.next
              /\ k.lines = x.lines /\ k.open = o
  BY DEF WatcherState

\* A watcher that loses subscriptions.
LEMMA WatcherLoses ==
    ASSUME NEW x \in WatcherState, NEW s \in SUBSET Subscription, NEW o \in BOOLEAN
    PROVE  LET k == [x EXCEPT !.subs = s, !.open = o]
           IN /\ k \in WatcherState /\ k.map = x.map /\ k.subs = s /\ k.next = x.next
              /\ k.lines = x.lines /\ k.open = o
  BY DEF WatcherState

\* A watcher with one subscription more.
LEMMA WatcherAdds ==
    ASSUME NEW x \in WatcherState, NEW s \in SUBSET Subscription
    PROVE  LET k == [x EXCEPT !.next = x.next + 1, !.subs = s]
           IN /\ k \in WatcherState /\ k.map = x.map /\ k.subs = s /\ k.next = x.next + 1
              /\ k.lines = x.lines /\ k.open = x.open
<1>1. x.next + 1 \in Nat
  BY DEF WatcherState
<1>. QED
  BY <1>1 DEF WatcherState

\* A watcher before it is attached, and one that has just been.
LEMMA NoWatcherState ==
    ASSUME NEW m \in SUBSET Pane
    PROVE  /\ NoWatcher \in WatcherState /\ NoWatcher.subs = {} /\ NoWatcher.open = FALSE
           /\ NoWatcher.next = 0 /\ NoWatcher.lines = <<>> /\ NoWatcher.map = {}
           /\ LET k == [NoWatcher EXCEPT !.map = m, !.open = TRUE]
              IN /\ k \in WatcherState /\ k.map = m /\ k.subs = {} /\ k.next = 0
                 /\ k.lines = <<>> /\ k.open = TRUE
<1>1. /\ NoWatcher \in WatcherState /\ NoWatcher.subs = {} /\ NoWatcher.open = FALSE
      /\ NoWatcher.next = 0 /\ NoWatcher.lines = <<>> /\ NoWatcher.map = {}
  BY DEF WatcherState, NoWatcher
<1>. QED
  BY <1>1 DEF WatcherState

-------------------------------------------------------------------------------
(* What the actions do, field by field.                                        *)

\* A line comes to every client that has room for it.
LEMMA LineEffect ==
    ASSUME Typed, NEW line \in Pane \cup {"topology"}, Line(line)
    PROVE  /\ watcher' \in [Watcher -> WatcherState]
           /\ \A v \in Watcher :
                /\ watcher'[v].map = watcher[v].map /\ watcher'[v].subs = watcher[v].subs
                /\ watcher'[v].next = watcher[v].next /\ watcher'[v].open = watcher[v].open
                /\ Len(watcher'[v].lines) <= LineLimit
                /\ \A x \in Range(watcher[v].lines) : x \in Range(watcher'[v].lines)
                /\ watcher[v].open /\ Len(watcher[v].lines) # LineLimit =>
                     line \in Range(watcher'[v].lines)
<1>1. \A l \in Seq(Pane \cup {"topology"}) :
        LET k == Append(l, line)
        IN /\ k \in Seq(Pane \cup {"topology"}) /\ Len(k) = Len(l) + 1 /\ Len(l) \in Nat
           /\ line \in Range(k) /\ \A x \in Range(l) : x \in Range(k)
  <2> SUFFICES ASSUME NEW l \in Seq(Pane \cup {"topology"})
               PROVE  LET k == Append(l, line)
                      IN /\ k \in Seq(Pane \cup {"topology"}) /\ Len(k) = Len(l) + 1
                         /\ Len(l) \in Nat
                         /\ line \in Range(k) /\ \A x \in Range(l) : x \in Range(k)
    OBVIOUS
  <2>1. /\ Append(l, line) \in Seq(Pane \cup {"topology"})
        /\ Len(Append(l, line)) = Len(l) + 1 /\ Len(l) \in Nat
        /\ Append(l, line)[Len(l) + 1] = line
        /\ \A i \in 1..Len(l) : Append(l, line)[i] = l[i]
    OBVIOUS
  <2>2. DOMAIN l = 1..Len(l) /\ DOMAIN Append(l, line) = 1..(Len(l) + 1)
    BY <2>1
  <2>3. /\ Len(l) + 1 \in DOMAIN Append(l, line)
        /\ \A i \in DOMAIN l : i \in DOMAIN Append(l, line) /\ i \in 1..Len(l)
    BY <2>1, <2>2
  <2>. QED
    BY <2>1, <2>2, <2>3 DEF Range
<1>2. \A v \in Watcher : watcher[v] \in WatcherState /\ Len(watcher[v].lines) <= LineLimit
                         /\ watcher[v].lines \in Seq(Pane \cup {"topology"})
                         /\ watcher[v].open \in BOOLEAN
  BY WatcherFields DEF Typed
<1> SUFFICES ASSUME NEW v \in Watcher
             PROVE  /\ watcher'[v] \in WatcherState
                    /\ watcher'[v].map = watcher[v].map /\ watcher'[v].subs = watcher[v].subs
                    /\ watcher'[v].next = watcher[v].next /\ watcher'[v].open = watcher[v].open
                    /\ Len(watcher'[v].lines) <= LineLimit
                    /\ \A x \in Range(watcher[v].lines) : x \in Range(watcher'[v].lines)
                    /\ watcher[v].open /\ Len(watcher[v].lines) # LineLimit =>
                         line \in Range(watcher'[v].lines)
  BY DEF Line
<1>4. CASE watcher[v].open /\ Len(watcher[v].lines) < LineLimit
  <2>1. watcher'[v] = [watcher[v] EXCEPT !.lines = Append(@, line)]
    <3>1. watcher'[v] = IF watcher[v].open /\ Len(watcher[v].lines) < LineLimit
                        THEN [watcher[v] EXCEPT !.lines = Append(@, line)] ELSE watcher[v]
      BY Zenon DEF Line
    <3>. QED
      BY <3>1, <1>4
  <2> DEFINE k == Append(watcher[v].lines, line)
  <2>2. /\ k \in Seq(Pane \cup {"topology"}) /\ Len(k) = Len(watcher[v].lines) + 1
        /\ Len(watcher[v].lines) \in Nat /\ line \in Range(k)
        /\ \A x \in Range(watcher[v].lines) : x \in Range(k)
    BY <1>1, <1>2
  <2>3. watcher'[v] = [watcher[v] EXCEPT !.lines = k]
    BY <2>1
  <2>. HIDE DEF k
  <2>4. /\ watcher'[v] \in WatcherState /\ watcher'[v].lines = k
        /\ watcher'[v].map = watcher[v].map /\ watcher'[v].subs = watcher[v].subs
        /\ watcher'[v].next = watcher[v].next /\ watcher'[v].open = watcher[v].open
    <3>1. watcher[v] \in WatcherState /\ k \in Seq(Pane \cup {"topology"})
      BY <2>2, <1>2
    <3>2. LET j == [watcher[v] EXCEPT !.lines = k]
          IN /\ j \in WatcherState /\ j.map = watcher[v].map /\ j.subs = watcher[v].subs
             /\ j.next = watcher[v].next /\ j.lines = k /\ j.open = watcher[v].open
      BY <3>1, WatcherLines
    <3>. QED
      BY <3>2, <2>3, Zenon
  <2>5. Len(k) <= LineLimit
    BY <2>2, <1>4, Bounds
  <2>. QED
    BY <2>2, <2>4, <2>5
<1>5. CASE ~(watcher[v].open /\ Len(watcher[v].lines) < LineLimit)
  <2>1. watcher'[v] = watcher[v]
    BY <1>5 DEF Line
  <2>2. Len(watcher[v].lines) \in Nat
    BY <1>1, <1>2
  <2>. QED
    BY <2>1, <2>2, <1>2, <1>5, Bounds
<1>. QED
  BY <1>4, <1>5

\* A loop takes the first line.
LEMMA PopEffect ==
    ASSUME Typed, NEW w \in Watcher, PopLine(w), watcher[w].lines # <<>>
    PROVE  /\ watcher' \in [Watcher -> WatcherState]
           /\ \A v \in Watcher :
                /\ watcher'[v].map = watcher[v].map /\ watcher'[v].subs = watcher[v].subs
                /\ watcher'[v].next = watcher[v].next /\ watcher'[v].open = watcher[v].open
                /\ Len(watcher'[v].lines) <= LineLimit
                /\ v # w => watcher'[v] = watcher[v]
           /\ \A x \in Range(watcher[w].lines) :
                x = Head(watcher[w].lines) \/ x \in Range(watcher'[w].lines)
<1> DEFINE l == watcher[w].lines
<1>1. watcher[w] \in WatcherState /\ l \in Seq(Pane \cup {"topology"}) /\ Len(l) <= LineLimit
  BY WatcherFields DEF Typed
<1>2. /\ Tail(l) \in Seq(Pane \cup {"topology"}) /\ Len(l) \in Nat \ {0} /\ Len(Tail(l)) = Len(l) - 1
      /\ \A i \in 1..Len(Tail(l)) : Tail(l)[i] = l[i + 1]
      /\ DOMAIN l = 1..Len(l) /\ DOMAIN Tail(l) = 1..(Len(l) - 1) /\ Head(l) = l[1]
  BY <1>1
<1>3. \A x \in Range(l) : x = Head(l) \/ x \in Range(Tail(l))
  <2> SUFFICES ASSUME NEW i \in DOMAIN l, l[i] # Head(l) PROVE l[i] \in Range(Tail(l))
    BY DEF Range
  <2>1. i - 1 \in DOMAIN Tail(l) /\ Tail(l)[i - 1] = l[i]
    <3>1. i # 1 /\ i \in 1..Len(l)
      BY <1>2
    <3>2. i - 1 \in 1..(Len(l) - 1) /\ (i - 1) + 1 = i
      BY <3>1, <1>2
    <3>. QED
      BY <3>2, <1>2
  <2>. QED
    BY <2>1 DEF Range
<1>4. watcher' = [watcher EXCEPT ![w] = [watcher[w] EXCEPT !.lines = Tail(l)]]
  BY DEF PopLine
<1>5. LET k == [watcher[w] EXCEPT !.lines = Tail(l)]
      IN /\ k \in WatcherState /\ k.map = watcher[w].map /\ k.subs = watcher[w].subs
         /\ k.next = watcher[w].next /\ k.lines = Tail(l) /\ k.open = watcher[w].open
  BY <1>1, <1>2, WatcherLines, ZenonT(60)
<1>6. watcher'[w] = [watcher[w] EXCEPT !.lines = Tail(l)]
      /\ (\A v \in Watcher \ {w} : watcher'[v] = watcher[v])
      /\ watcher' \in [Watcher -> WatcherState]
  BY <1>4, <1>5 DEF Typed
<1>7. Len(Tail(l)) <= LineLimit
  BY <1>1, <1>2, Bounds
<1>8. /\ watcher'[w].map = watcher[w].map /\ watcher'[w].subs = watcher[w].subs
      /\ watcher'[w].next = watcher[w].next /\ watcher'[w].open = watcher[w].open
      /\ watcher'[w].lines = Tail(l)
  BY <1>5, <1>6
<1>. QED
  BY <1>3, <1>6, <1>7, <1>8 DEF Typed

\* An actor's place among the subscriptions: in the session's watcher, or in a new one.
LEMMA SubscribeEffect ==
    ASSUME Typed, NEW p \in Pane, NEW n \in 1..MaxActor, SubscribeCan(p),
           SubscribeHub(p, n, NextWatcher)
    PROVE  \E w \in Watcher :
             /\ session' = w /\ hub' \in [Watcher -> HubState] /\ watcher' \in [Watcher -> WatcherState]
             /\ \A v \in Watcher \ {w} : watcher'[v] = watcher[v] /\ hub'[v] = hub[v]
             /\ \A v \in Watcher : Len(watcher'[v].lines) <= LineLimit
             /\ ml' = [ml EXCEPT !.pc = "list", !.number = n,
                                 !.stop = [watcher |-> w, id |-> watcher'[w].next],
                                 !.locked = ml.pc = "pane"]
             /\ [id |-> watcher'[w].next, pane |-> p, number |-> n] \in watcher'[w].subs
             /\ \/ /\ session = w /\ hub' = hub /\ watcher'[w].next = watcher[w].next + 1
                   /\ watcher'[w].subs = watcher[w].subs \cup
                        {[id |-> watcher'[w].next, pane |-> p, number |-> n]}
                   /\ watcher'[w].map = watcher[w].map /\ watcher'[w].lines = watcher[w].lines
                   /\ watcher'[w].open = watcher[w].open
                \/ /\ session = 0 /\ hub[w].pc = "none" /\ hub'[w] = HubIdle
                   /\ watcher'[w].next = 1
                   /\ watcher'[w].subs = {[id |-> watcher'[w].next, pane |-> p, number |-> n]}
                   /\ watcher'[w].map = Live
<1>1. NextWatcher \in Watcher /\ (session # 0 => session = NextWatcher)
      /\ (session = 0 => hub[NextWatcher].pc = "none")
  <2>1. CASE session # 0
    BY <2>1, Bounds DEF NextWatcher, Typed
  <2>2. CASE session = 0
    BY <2>2 DEF NextWatcher, SubscribeCan
  <2>. QED
    BY <2>1, <2>2
<1>2. PICK w \in Watcher : w = NextWatcher
  BY <1>1
<1>3. Live \in SUBSET Pane
  BY DEF Live
<1>4. PICK old \in WatcherState :
        /\ old = IF session # 0 THEN watcher[w] ELSE [NoWatcher EXCEPT !.map = Live, !.open = TRUE]
        /\ Len(old.lines) <= LineLimit /\ old.next \in Nat
  <2>0. watcher[w] \in WatcherState /\ Len(watcher[w].lines) <= LineLimit
        /\ watcher[w].next \in Nat
    BY WatcherFields DEF Typed
  <2>1. CASE session # 0
    BY <2>0, <2>1
  <2>2. CASE session = 0
    <3> DEFINE k2 == [NoWatcher EXCEPT !.map = Live, !.open = TRUE]
    <3>1. k2 \in WatcherState /\ k2.next = 0 /\ k2.lines = <<>>
      BY <1>3, NoWatcherState
    <3>. HIDE DEF k2
    <3>2. Len(k2.lines) <= LineLimit
      <4>1. Len(<<>>) = 0
        OBVIOUS
      <4>. QED
        BY <3>1, <4>1, Bounds
    <3>3. k2 = IF session # 0 THEN watcher[w] ELSE [NoWatcher EXCEPT !.map = Live, !.open = TRUE]
      BY <2>2 DEF k2
    <3>4. k2.next \in Nat
      BY <3>1
    <3>. QED
      BY <3>1, <3>2, <3>3, <3>4, Zenon
  <2>. QED
    BY <2>1, <2>2
<1>5. session # 0 => old = watcher[w]
  BY <1>4
<1>6. session = 0 => old.next = 0 /\ old.subs = {} /\ old.map = Live
  BY <1>3, <1>4, NoWatcherState
<1> DEFINE sub == [id |-> old.next + 1, pane |-> p, number |-> n]
           k == [old EXCEPT !.next = old.next + 1, !.subs = old.subs \cup {sub}]
<1>7. sub \in Subscription
  BY <1>4 DEF Subscription
<1>8. /\ k \in WatcherState /\ k.map = old.map /\ k.subs = old.subs \cup {sub}
      /\ k.next = old.next + 1 /\ k.lines = old.lines /\ k.open = old.open
  <2>1. old.subs \cup {sub} \in SUBSET Subscription
    BY <1>7, WatcherFields, old \in WatcherState
  <2>. QED
    BY <2>1, WatcherAdds
<1>9. /\ session' = w /\ watcher' = [watcher EXCEPT ![w] = k]
      /\ hub' = (IF session # 0 THEN hub ELSE [hub EXCEPT ![w] = HubIdle])
      /\ ml' = [ml EXCEPT !.pc = "list", !.number = n,
                          !.stop = [watcher |-> w, id |-> old.next + 1],
                          !.locked = ml.pc = "pane"]
  BY <1>2, <1>4 DEF SubscribeHub
<1>. HIDE DEF k
<1>10. watcher'[w] = k /\ watcher' \in [Watcher -> WatcherState]
       /\ \A v \in Watcher \ {w} : watcher'[v] = watcher[v]
  BY <1>8, <1>9 DEF Typed
<1>11. hub' \in [Watcher -> HubState] /\ (\A v \in Watcher \ {w} : hub'[v] = hub[v])
       /\ (session = 0 => hub'[w] = HubIdle) /\ (session # 0 => hub' = hub)
  BY <1>9, HubIdleState DEF Typed
<1>12. watcher'[w].next = old.next + 1 /\ watcher'[w].subs = old.subs \cup {sub}
       /\ watcher'[w].map = old.map /\ watcher'[w].lines = old.lines /\ watcher'[w].open = old.open
  BY <1>8, <1>10
<1>13. \A v \in Watcher : Len(watcher'[v].lines) <= LineLimit
  BY <1>4, <1>10, <1>12 DEF Typed
<1>14. \/ /\ session = w /\ hub' = hub /\ watcher'[w].next = watcher[w].next + 1
          /\ watcher'[w].subs = watcher[w].subs \cup
               {[id |-> watcher'[w].next, pane |-> p, number |-> n]}
          /\ watcher'[w].map = watcher[w].map /\ watcher'[w].lines = watcher[w].lines
          /\ watcher'[w].open = watcher[w].open
       \/ /\ session = 0 /\ hub[w].pc = "none" /\ hub'[w] = HubIdle
          /\ watcher'[w].next = 1
          /\ watcher'[w].subs = {[id |-> watcher'[w].next, pane |-> p, number |-> n]}
          /\ watcher'[w].map = Live
  BY <1>1, <1>2, <1>5, <1>6, <1>11, <1>12
<1>15. [id |-> watcher'[w].next, pane |-> p, number |-> n] \in watcher'[w].subs
  BY <1>12
<1>. QED
  BY <1>9, <1>10, <1>11, <1>12, <1>13, <1>14, <1>15

\* PaneOpens.
LEMMA PaneOpensEffect ==
    ASSUME Typed, NEW p \in Pane, PaneOpens(p)
    PROVE  /\ Typed' /\ tmux[p] = "new" /\ Live # {} /\ tmux' = [tmux EXCEPT ![p] = "live"]
           /\ \A v \in Watcher :
                /\ watcher'[v].map = watcher[v].map /\ watcher'[v].subs = watcher[v].subs
                /\ watcher'[v].next = watcher[v].next /\ watcher'[v].open = watcher[v].open
                /\ \A x \in Range(watcher[v].lines) : x \in Range(watcher'[v].lines)
           /\ UNCHANGED <<session, registryVars, hub, ml, listVars, lost, robbed>>
<1>1. Line("topology") /\ UNCHANGED <<session, registryVars, hub, ml, listVars, lost, robbed>>
      /\ tmux[p] = "new" /\ Live # {} /\ tmux' = [tmux EXCEPT ![p] = "live"]
  BY DEF PaneOpens
<1>2. tmux' \in [Pane -> {"new", "live", "gone"}]
  BY <1>1 DEF Typed
<1>. QED
  BY <1>1, <1>2, LineEffect, ZenonT(60) DEF Typed, MlTyped, registryVars, listVars

\* PaneExits.
LEMMA PaneExitsEffect ==
    ASSUME Typed, NEW p \in Pane, PaneExits(p)
    PROVE  /\ Typed' /\ tmux[p] = "live" /\ tmux' = [tmux EXCEPT ![p] = "gone"]
           /\ \A v \in Watcher :
                /\ watcher'[v].map = watcher[v].map /\ watcher'[v].subs = watcher[v].subs
                /\ watcher'[v].next = watcher[v].next /\ watcher'[v].open = watcher[v].open
                /\ \A x \in Range(watcher[v].lines) : x \in Range(watcher'[v].lines)
           /\ session # 0 => \/ p \in lost' \/ ~watcher[session].open
                             \/ "topology" \in Range(watcher'[session].lines)
           /\ lost \subseteq lost'
           /\ UNCHANGED <<session, registryVars, hub, ml, listVars, robbed>>
<1>1. Line("topology") /\ UNCHANGED <<session, registryVars, hub, ml, listVars, robbed>>
      /\ tmux[p] = "live" /\ tmux' = [tmux EXCEPT ![p] = "gone"]
      /\ lost' = IF session # 0 /\ Len(watcher[session].lines) = LineLimit
                    /\ "topology" \notin Range(watcher[session].lines)
                 THEN lost \cup {p} ELSE lost
  BY DEF PaneExits
<1>2. tmux' \in [Pane -> {"new", "live", "gone"}]
  BY <1>1 DEF Typed
<1>3. lost \subseteq lost'
  BY <1>1
<1>4. session # 0 => session \in Watcher
  BY Bounds DEF Typed
<1>5. watcher' \in [Watcher -> WatcherState]
      /\ \A v \in Watcher :
           /\ watcher'[v].map = watcher[v].map /\ watcher'[v].subs = watcher[v].subs
           /\ watcher'[v].next = watcher[v].next /\ watcher'[v].open = watcher[v].open
           /\ Len(watcher'[v].lines) <= LineLimit
           /\ \A x \in Range(watcher[v].lines) : x \in Range(watcher'[v].lines)
           /\ watcher[v].open /\ Len(watcher[v].lines) # LineLimit =>
                "topology" \in Range(watcher'[v].lines)
  BY <1>1, LineEffect
<1>6. session # 0 => \/ p \in lost' \/ ~watcher[session].open
                     \/ "topology" \in Range(watcher'[session].lines)
  BY <1>1, <1>4, <1>5
<1>7. Typed'
  BY <1>1, <1>2, <1>3, <1>5 DEF Typed, MlTyped, registryVars, listVars
<1>. QED
  BY <1>1, <1>3, <1>5, <1>6, <1>7

\* Output.
LEMMA OutputEffect ==
    ASSUME Typed, NEW p \in Pane, Output(p)
    PROVE  /\ Typed'
           /\ \A v \in Watcher :
                /\ watcher'[v].map = watcher[v].map /\ watcher'[v].subs = watcher[v].subs
                /\ watcher'[v].next = watcher[v].next /\ watcher'[v].open = watcher[v].open
                /\ \A x \in Range(watcher[v].lines) : x \in Range(watcher'[v].lines)
           /\ UNCHANGED <<tmux, session, registryVars, hub, ml, listVars, lost, robbed>>
<1>1. Line(p) /\ UNCHANGED <<tmux, session, registryVars, hub, ml, listVars, lost, robbed>>
  BY DEF Output
<1>. QED
  BY <1>1, LineEffect, ZenonT(60) DEF Typed, MlTyped, registryVars, listVars

\* ClientExits.
LEMMA ClientExitsEffect ==
    ASSUME Typed, NEW w \in Watcher, ClientExits(w)
    PROVE  /\ Typed' /\ watcher'[w].open = FALSE
           /\ \A v \in Watcher :
                /\ watcher'[v].map = watcher[v].map /\ watcher'[v].subs = watcher[v].subs
                /\ watcher'[v].next = watcher[v].next /\ watcher'[v].lines = watcher[v].lines
                /\ v # w => watcher'[v].open = watcher[v].open
           /\ UNCHANGED <<tmux, session, registryVars, hub, ml, listVars, lost, robbed>>
<1>1. /\ UNCHANGED <<tmux, session, registryVars, hub, ml, listVars, lost, robbed>>
      /\ watcher' = [watcher EXCEPT ![w] = [watcher[w] EXCEPT !.open = FALSE]]
  BY DEF ClientExits
<1> DEFINE k == [watcher[w] EXCEPT !.open = FALSE]
<1>2. /\ k \in WatcherState /\ k.map = watcher[w].map /\ k.subs = watcher[w].subs
      /\ k.next = watcher[w].next /\ k.lines = watcher[w].lines /\ k.open = FALSE
  <2>1. watcher[w] \in WatcherState
    BY DEF Typed
  <2>. QED
    BY <2>1, WatcherCloses
<1>3. watcher' = [watcher EXCEPT ![w] = k]
  BY <1>1
<1>. HIDE DEF k
<1>4. watcher' \in [Watcher -> WatcherState] /\ watcher'[w] = k
      /\ \A v \in Watcher \ {w} : watcher'[v] = watcher[v]
  BY <1>2, <1>3 DEF Typed
<1>5. \A v \in Watcher : watcher'[v].lines = watcher[v].lines
  BY <1>2, <1>4
<1>6. Typed'
  BY <1>1, <1>4, <1>5 DEF Typed, MlTyped, registryVars, listVars
<1>. QED
  BY <1>1, <1>2, <1>4, <1>6

\* One loop changes.
LEMMA HubStep ==
    ASSUME Typed, NEW w \in Watcher, NEW k \in HubState, hub' = [hub EXCEPT ![w] = k]
    PROVE  /\ hub' \in [Watcher -> HubState] /\ hub'[w] = k
           /\ \A v \in Watcher \ {w} : hub'[v] = hub[v]
  BY DEF Typed

\* One map changes.
LEMMA MapStep ==
    ASSUME Typed, NEW w \in Watcher, NEW m \in SUBSET Pane, watcher' = [watcher EXCEPT ![w].map = m]
    PROVE  /\ watcher' \in [Watcher -> WatcherState]
           /\ \A v \in Watcher :
                /\ watcher'[v].subs = watcher[v].subs /\ watcher'[v].open = watcher[v].open
                /\ watcher'[v].next = watcher[v].next /\ watcher'[v].lines = watcher[v].lines
                /\ Len(watcher'[v].lines) <= LineLimit
                /\ v # w => watcher'[v].map = watcher[v].map
           /\ watcher'[w].map = m
<1> DEFINE k == [watcher[w] EXCEPT !.map = m]
<1>1. /\ k \in WatcherState /\ k.map = m /\ k.subs = watcher[w].subs
      /\ k.next = watcher[w].next /\ k.lines = watcher[w].lines /\ k.open = watcher[w].open
  <2>1. watcher[w] \in WatcherState
    BY DEF Typed
  <2>. QED
    BY <2>1, WatcherMap
<1>2. watcher' = [watcher EXCEPT ![w] = k] /\ k \in WatcherState
      /\ watcher \in [Watcher -> WatcherState]
  BY <1>1 DEF Typed
<1>. HIDE DEF k
<1>3. watcher' \in [Watcher -> WatcherState] /\ watcher'[w] = k
      /\ \A v \in Watcher \ {w} : watcher'[v] = watcher[v]
  BY <1>2
<1>. QED
  BY <1>1, <1>3 DEF Typed

\* TopologySignal.
LEMMA TopologySignalEffect ==
    ASSUME Typed, NEW w \in Watcher, TopologySignal(w)
    PROVE  /\ Typed' /\ hub[w].pc = "idle"
           /\ \A v \in Watcher :
                /\ watcher'[v].map = watcher[v].map /\ watcher'[v].subs = watcher[v].subs
                /\ watcher'[v].next = watcher[v].next /\ watcher'[v].open = watcher[v].open
                /\ v # w => watcher'[v] = watcher[v] /\ hub'[v] = hub[v]
           /\ \/ Live = {} /\ hub' = hub
              \/ /\ hub'[w].pc = "assign" /\ hub'[w].before = watcher[w].map
                 /\ hub'[w].list = Live /\ hub'[w].todo = {} /\ hub'[w].exit = FALSE
           /\ UNCHANGED <<tmux, session, registryVars, ml, listVars, lost, robbed>>
<1>1. /\ UNCHANGED <<tmux, session, registryVars, ml, listVars, lost, robbed>>
      /\ hub[w].pc = "idle" /\ PopLine(w) /\ watcher[w].lines # <<>>
      /\ hub' = IF Live = {} THEN hub
                ELSE [hub EXCEPT ![w] = [HubIdle EXCEPT !.pc = "assign",
                                           !.before = watcher[w].map, !.list = Live]]
  BY DEF TopologySignal, HasLine
<1>2. watcher[w].map \subseteq Pane /\ Live \subseteq Pane
  BY WatcherFields DEF Typed, Live
<1> DEFINE k == [HubIdle EXCEPT !.pc = "assign", !.before = watcher[w].map, !.list = Live]
<1>3. /\ k \in HubState /\ k.pc = "assign" /\ k.before = watcher[w].map /\ k.list = Live
      /\ k.todo = {} /\ k.exit = FALSE
  <2>1. watcher[w].map \in SUBSET Pane /\ Live \in SUBSET Pane
    BY <1>2
  <2>. QED
    BY <2>1, HubIdleState DEF HubState
<1>4. hub' = IF Live = {} THEN hub ELSE [hub EXCEPT ![w] = k]
  BY <1>1
<1>. HIDE DEF k
<1>5. /\ hub' \in [Watcher -> HubState] /\ \A v \in Watcher \ {w} : hub'[v] = hub[v]
      /\ (Live = {} /\ hub' = hub) \/ hub'[w] = k
  BY <1>3, <1>4, HubStep DEF Typed
<1>6. /\ watcher' \in [Watcher -> WatcherState]
      /\ \A v \in Watcher :
           /\ watcher'[v].map = watcher[v].map /\ watcher'[v].subs = watcher[v].subs
           /\ watcher'[v].next = watcher[v].next /\ watcher'[v].open = watcher[v].open
           /\ Len(watcher'[v].lines) <= LineLimit
           /\ v # w => watcher'[v] = watcher[v]
  BY <1>1, PopEffect
<1>7. Typed'
  BY <1>1, <1>5, <1>6 DEF Typed, MlTyped, registryVars, listVars
<1>. QED
  BY <1>1, <1>3, <1>5, <1>6, <1>7

\* AssignAfterSignal.
LEMMA AssignAfterSignalEffect ==
    ASSUME Typed, NEW w \in Watcher, AssignAfterSignal(w)
    PROVE  /\ Typed' /\ hub[w].pc = "assign"
           /\ \A v \in Watcher :
                /\ watcher'[v].subs = watcher[v].subs /\ watcher'[v].open = watcher[v].open
                /\ watcher'[v].next = watcher[v].next /\ watcher'[v].lines = watcher[v].lines
                /\ v # w => watcher'[v].map = watcher[v].map /\ hub'[v] = hub[v]
           /\ watcher'[w].map = hub[w].list
           /\ hub'[w].pc = "compare" /\ hub'[w].before = hub[w].before
           /\ hub'[w].todo = hub[w].todo /\ hub'[w].exit = hub[w].exit
           /\ lost' = lost \cup ((watcher[w].map \ hub[w].list) \ hub[w].before)
           /\ UNCHANGED <<tmux, session, registryVars, ml, listVars, robbed>>
<1>1. /\ UNCHANGED <<tmux, session, registryVars, ml, listVars, robbed>>
      /\ hub[w].pc = "assign" /\ watcher' = [watcher EXCEPT ![w].map = hub[w].list]
      /\ hub' = [hub EXCEPT ![w].pc = "compare"]
      /\ lost' = lost \cup ((watcher[w].map \ hub[w].list) \ hub[w].before)
  BY DEF AssignAfterSignal
<1>2. hub[w].list \subseteq Pane /\ watcher[w].map \subseteq Pane
  BY WatcherFields, HubFields DEF Typed
<1> DEFINE k == [hub[w] EXCEPT !.pc = "compare"]
<1>3. /\ k \in HubState /\ k.pc = "compare" /\ k.before = hub[w].before
      /\ k.todo = hub[w].todo /\ k.exit = hub[w].exit
  <2>1. hub[w] \in HubState
    BY DEF Typed
  <2>. QED
    BY <2>1, HubMoves
<1>4. hub' = [hub EXCEPT ![w] = k]
  BY <1>1
<1>. HIDE DEF k
<1>5. hub' \in [Watcher -> HubState] /\ hub'[w] = k /\ \A v \in Watcher \ {w} : hub'[v] = hub[v]
  BY <1>3, <1>4, HubStep
<1>6. /\ watcher' \in [Watcher -> WatcherState]
      /\ \A v \in Watcher :
           /\ watcher'[v].subs = watcher[v].subs /\ watcher'[v].open = watcher[v].open
           /\ watcher'[v].next = watcher[v].next /\ watcher'[v].lines = watcher[v].lines
           /\ Len(watcher'[v].lines) <= LineLimit
           /\ v # w => watcher'[v].map = watcher[v].map
      /\ watcher'[w].map = hub[w].list
  BY <1>1, <1>2, MapStep
<1>7. Typed'
  BY <1>1, <1>5, <1>6 DEF Typed, MlTyped, registryVars, listVars
<1>. QED
  BY <1>1, <1>3, <1>5, <1>6, <1>7

\* CompareMaps.
LEMMA CompareMapsEffect ==
    ASSUME Typed, NEW w \in Watcher, CompareMaps(w)
    PROVE  /\ Typed' /\ hub[w].pc = "compare"
           /\ \A v \in Watcher \ {w} : hub'[v] = hub[v]
           /\ hub'[w].pc = "close" /\ hub'[w].exit = FALSE
           /\ hub'[w].todo = hub[w].before \ watcher[w].map
           /\ UNCHANGED <<tmuxVars, registryVars, ml, listVars, lost, robbed>>
<1>1. /\ UNCHANGED <<tmuxVars, registryVars, ml, listVars, lost, robbed>>
      /\ hub[w].pc = "compare"
      /\ hub' = [hub EXCEPT ![w] = [HubIdle EXCEPT !.pc = "close",
                                      !.todo = hub[w].before \ watcher[w].map]]
  BY DEF CompareMaps, RemovedPanes
<1> DEFINE k == [HubIdle EXCEPT !.pc = "close", !.todo = hub[w].before \ watcher[w].map]
<1>2. /\ k \in HubState /\ k.pc = "close" /\ k.todo = hub[w].before \ watcher[w].map
      /\ k.exit = FALSE
  <2>1. hub[w].before \ watcher[w].map \subseteq Pane
    BY HubFields DEF Typed
  <2>2. PICK t \in SUBSET Pane : t = hub[w].before \ watcher[w].map
    BY <2>1
  <2>. QED
    BY <2>2, HubCloses
<1>3. hub' = [hub EXCEPT ![w] = k]
  BY <1>1
<1>. HIDE DEF k
<1>4. hub' \in [Watcher -> HubState] /\ hub'[w] = k /\ \A v \in Watcher \ {w} : hub'[v] = hub[v]
  BY <1>2, <1>3, HubStep
<1>5. Typed'
  BY <1>1, <1>4 DEF Typed, MlTyped, tmuxVars, registryVars, listVars
<1>. QED
  BY <1>1, <1>2, <1>4, <1>5

\* UnknownOutput.
LEMMA UnknownOutputEffect ==
    ASSUME Typed, NEW w \in Watcher, UnknownOutput(w)
    PROVE  /\ Typed' /\ hub[w].pc = "idle" /\ Head(watcher[w].lines) # "topology"
           /\ \A v \in Watcher :
                /\ watcher'[v].map = watcher[v].map /\ watcher'[v].subs = watcher[v].subs
                /\ watcher'[v].next = watcher[v].next /\ watcher'[v].open = watcher[v].open
                /\ \A x \in Range(watcher[v].lines) :
                     x # "topology" \/ x \in Range(watcher'[v].lines)
                /\ v # w => hub'[v] = hub[v]
           /\ \/ hub' = hub
              \/ /\ hub'[w].pc = "deliver" /\ hub'[w].list = Live
                 /\ hub'[w].todo = {} /\ hub'[w].exit = FALSE
           /\ UNCHANGED <<tmux, session, registryVars, ml, listVars, lost, robbed>>
<1>1. /\ UNCHANGED <<tmux, session, registryVars, ml, listVars, lost, robbed>>
      /\ hub[w].pc = "idle" /\ PopLine(w) /\ watcher[w].lines # <<>>
      /\ Head(watcher[w].lines) # "topology"
      /\ hub' = IF Head(watcher[w].lines) \in watcher[w].map \/ Live = {} THEN hub
                ELSE [hub EXCEPT ![w] = [HubIdle EXCEPT !.pc = "deliver", !.list = Live]]
  BY DEF UnknownOutput, HasLine
<1> DEFINE k == [HubIdle EXCEPT !.pc = "deliver", !.list = Live]
<1>3. /\ k \in HubState /\ k.pc = "deliver" /\ k.list = Live /\ k.todo = {} /\ k.exit = FALSE
  <2>1. Live \in SUBSET Pane
    BY DEF Live
  <2>. QED
    BY <2>1, HubDelivers
<1>4. hub' = hub \/ hub' = [hub EXCEPT ![w] = k]
  BY <1>1
<1>. HIDE DEF k
<1>5. /\ hub' \in [Watcher -> HubState] /\ \A v \in Watcher \ {w} : hub'[v] = hub[v]
      /\ hub' = hub \/ hub'[w] = k
  BY <1>3, <1>4, HubStep DEF Typed
<1>6. /\ watcher' \in [Watcher -> WatcherState]
      /\ \A v \in Watcher :
           /\ watcher'[v].map = watcher[v].map /\ watcher'[v].subs = watcher[v].subs
           /\ watcher'[v].next = watcher[v].next /\ watcher'[v].open = watcher[v].open
           /\ Len(watcher'[v].lines) <= LineLimit
           /\ v # w => watcher'[v] = watcher[v]
      /\ \A x \in Range(watcher[w].lines) :
           x = Head(watcher[w].lines) \/ x \in Range(watcher'[w].lines)
  BY <1>1, PopEffect
<1>7. Typed'
  BY <1>1, <1>5, <1>6 DEF Typed, MlTyped, registryVars, listVars
<1>. QED
  BY <1>1, <1>3, <1>5, <1>6, <1>7

\* AssignAfterOutput.
LEMMA AssignAfterOutputEffect ==
    ASSUME Typed, NEW w \in Watcher, AssignAfterOutput(w)
    PROVE  /\ Typed' /\ hub[w].pc = "deliver"
           /\ \A v \in Watcher :
                /\ watcher'[v].subs = watcher[v].subs /\ watcher'[v].open = watcher[v].open
                /\ watcher'[v].next = watcher[v].next /\ watcher'[v].lines = watcher[v].lines
                /\ v # w => watcher'[v].map = watcher[v].map /\ hub'[v] = hub[v]
           /\ watcher'[w].map = hub[w].list
           /\ hub'[w].pc = "idle" /\ hub'[w].todo = {} /\ hub'[w].exit = FALSE
           /\ lost' = lost \cup (watcher[w].map \ hub[w].list)
           /\ UNCHANGED <<tmux, session, registryVars, ml, listVars, robbed>>
<1>1. /\ UNCHANGED <<tmux, session, registryVars, ml, listVars, robbed>>
      /\ hub[w].pc = "deliver" /\ watcher' = [watcher EXCEPT ![w].map = hub[w].list]
      /\ hub' = [hub EXCEPT ![w] = HubIdle]
      /\ lost' = lost \cup (watcher[w].map \ hub[w].list)
  BY DEF AssignAfterOutput
<1>2. hub[w].list \subseteq Pane
  BY HubFields DEF Typed
<1>5. hub' \in [Watcher -> HubState] /\ hub'[w] = HubIdle
      /\ \A v \in Watcher \ {w} : hub'[v] = hub[v]
  BY <1>1, HubIdleState, HubStep
<1>6. /\ watcher' \in [Watcher -> WatcherState]
      /\ \A v \in Watcher :
           /\ watcher'[v].subs = watcher[v].subs /\ watcher'[v].open = watcher[v].open
           /\ watcher'[v].next = watcher[v].next /\ watcher'[v].lines = watcher[v].lines
           /\ Len(watcher'[v].lines) <= LineLimit
           /\ v # w => watcher'[v].map = watcher[v].map
      /\ watcher'[w].map = hub[w].list
  BY <1>1, <1>2, MapStep
<1>7. Typed'
  BY <1>1, <1>5, <1>6 DEF Typed, MlTyped, registryVars, listVars
<1>. QED
  BY <1>1, <1>5, <1>6, <1>7, HubIdleState

\* LoopExits.
LEMMA LoopExitsEffect ==
    ASSUME Typed, NEW w \in Watcher, LoopExits(w)
    PROVE  /\ Typed' /\ hub[w].pc = "idle" /\ ~watcher[w].open
           /\ \A v \in Watcher \ {w} : hub'[v] = hub[v]
           /\ hub'[w].pc = "close" /\ hub'[w].exit = TRUE /\ hub'[w].todo = Subscribed(w)
           /\ session' = IF session = w THEN 0 ELSE session
           /\ UNCHANGED <<tmux, watcher, registryVars, ml, listVars, lost, robbed>>
<1>1. /\ UNCHANGED <<tmux, watcher, registryVars, ml, listVars, lost, robbed>>
      /\ hub[w].pc = "idle" /\ ~watcher[w].open
      /\ session' = IF session = w THEN 0 ELSE session
      /\ hub' = [hub EXCEPT ![w] = [HubIdle EXCEPT !.pc = "close", !.exit = TRUE,
                                      !.todo = Subscribed(w)]]
  BY DEF LoopExits
<1>2. Subscribed(w) \in SUBSET Pane
  BY WatcherFields, SubFields DEF Typed, Subscribed
<1> DEFINE k == [HubIdle EXCEPT !.pc = "close", !.exit = TRUE, !.todo = Subscribed(w)]
<1>3. k \in HubState /\ k.pc = "close" /\ k.todo = Subscribed(w) /\ k.exit = TRUE
  BY <1>2, HubCloses
<1>4. hub' = [hub EXCEPT ![w] = k]
  BY <1>1
<1>. HIDE DEF k
<1>5. hub' \in [Watcher -> HubState] /\ hub'[w] = k /\ \A v \in Watcher \ {w} : hub'[v] = hub[v]
  BY <1>3, <1>4, HubStep
<1>6. session' \in 0..MaxWatcher
  BY <1>1, Bounds DEF Typed
<1>7. Typed'
  BY <1>1, <1>5, <1>6 DEF Typed, MlTyped, registryVars, listVars
<1>. QED
  BY <1>1, <1>3, <1>5, <1>7

\* AllClosed.
LEMMA AllClosedEffect ==
    ASSUME Typed, NEW w \in Watcher, AllClosed(w)
    PROVE  /\ Typed' /\ hub[w].pc = "close" /\ hub[w].todo = {}
           /\ \A v \in Watcher \ {w} : hub'[v] = hub[v] /\ watcher'[v] = watcher[v]
           /\ hub'[w].pc = (IF hub[w].exit THEN "done" ELSE "idle")
           /\ hub'[w].todo = {} /\ hub'[w].exit = FALSE
           /\ \/ hub[w].exit /\ watcher'[w] = NoWatcher
              \/ ~hub[w].exit /\ watcher' = watcher
           /\ UNCHANGED <<tmux, session, registryVars, ml, listVars, lost, robbed>>
<1>1. /\ UNCHANGED <<tmux, session, registryVars, ml, listVars, lost, robbed>>
      /\ hub[w].pc = "close" /\ hub[w].todo = {}
      /\ hub' = [hub EXCEPT ![w] = IF hub[w].exit THEN [HubIdle EXCEPT !.pc = "done"] ELSE HubIdle]
      /\ watcher' = IF hub[w].exit THEN [watcher EXCEPT ![w] = NoWatcher] ELSE watcher
  BY DEF AllClosed
<1> DEFINE j == [HubIdle EXCEPT !.pc = "done"]
           k == IF hub[w].exit THEN j ELSE HubIdle
<1>2. j \in HubState /\ j.pc = "done" /\ j.todo = {} /\ j.exit = FALSE
  <2>1. {} \in SUBSET Pane /\ TRUE \in BOOLEAN
    OBVIOUS
  <2>. QED
    BY <2>1, HubCloses
<1>. HIDE DEF j
<1>3. /\ k \in HubState /\ k.todo = {} /\ k.exit = FALSE
      /\ k.pc = (IF hub[w].exit THEN "done" ELSE "idle")
  BY <1>2, HubIdleState
<1>4. hub' = [hub EXCEPT ![w] = k]
  BY <1>1 DEF j
<1>. HIDE DEF k
<1>5. hub' \in [Watcher -> HubState] /\ hub'[w] = k /\ \A v \in Watcher \ {w} : hub'[v] = hub[v]
  BY <1>3, <1>4, HubStep
<1>6. NoWatcher \in WatcherState /\ Len(NoWatcher.lines) <= LineLimit
  <2>1. {} \in SUBSET Pane
    OBVIOUS
  <2>2. NoWatcher \in WatcherState /\ NoWatcher.lines = <<>>
    BY <2>1, NoWatcherState
  <2>. QED
    BY <2>2, Bounds
<1>7. /\ watcher' \in [Watcher -> WatcherState]
      /\ \A v \in Watcher \ {w} : watcher'[v] = watcher[v]
      /\ \A v \in Watcher : Len(watcher'[v].lines) <= LineLimit
      /\ \/ hub[w].exit /\ watcher'[w] = NoWatcher
         \/ ~hub[w].exit /\ watcher' = watcher
  <2>1. CASE hub[w].exit
    BY <2>1, <1>1, <1>6 DEF Typed
  <2>2. CASE ~hub[w].exit
    BY <2>2, <1>1 DEF Typed
  <2>. QED
    BY <2>1, <2>2
<1>8. Typed'
  BY <1>1, <1>5, <1>7 DEF Typed, MlTyped, registryVars, listVars
<1>. QED
  BY <1>1, <1>3, <1>5, <1>7, <1>8

\* CloseUnregistered.
LEMMA CloseUnregisteredEffect ==
    ASSUME Typed, NEW w \in Watcher, NEW p \in Pane, CloseUnregistered(w, p)
    PROVE  /\ Typed' /\ hub[w].pc = "close" /\ actorOf[p] = 0 /\ ~ml.locked
           /\ \A v \in Watcher :
                /\ hub'[v].pc = hub[v].pc /\ hub'[v].exit = hub[v].exit
                /\ v # w => hub'[v] = hub[v]
           /\ hub'[w].todo = hub[w].todo \ {p}
           /\ UNCHANGED <<tmuxVars, registryVars, ml, listVars, lost, robbed>>
<1>1. /\ UNCHANGED <<tmuxVars, registryVars, ml, listVars, lost, robbed>>
      /\ hub[w].pc = "close" /\ actorOf[p] = 0 /\ ~ml.locked
      /\ hub' = [hub EXCEPT ![w] = [hub[w] EXCEPT !.todo = hub[w].todo \ {p}]]
  BY DEF CloseUnregistered, Locked
<1> DEFINE k == [hub[w] EXCEPT !.todo = hub[w].todo \ {p}]
<1>2. /\ k \in HubState /\ k.pc = hub[w].pc /\ k.todo = hub[w].todo \ {p}
      /\ k.exit = hub[w].exit
  <2>1. hub[w] \in HubState /\ hub[w].todo \ {p} \in SUBSET Pane
    BY HubFields DEF Typed
  <2>2. PICK t \in SUBSET Pane : t = hub[w].todo \ {p}
    BY <2>1
  <2>3. LET j == [hub[w] EXCEPT !.todo = t]
        IN j \in HubState /\ j.pc = hub[w].pc /\ j.todo = t /\ j.exit = hub[w].exit
    BY <2>1, HubTakes
  <2>. QED
    BY <2>2, <2>3
<1>3. hub' = [hub EXCEPT ![w] = k]
  BY <1>1
<1>. HIDE DEF k
<1>4. hub' \in [Watcher -> HubState] /\ hub'[w] = k /\ \A v \in Watcher \ {w} : hub'[v] = hub[v]
  BY <1>2, <1>3, HubStep
<1>5. Typed'
  BY <1>1, <1>4 DEF Typed, MlTyped, tmuxVars, registryVars, listVars
<1>. QED
  BY <1>1, <1>2, <1>4, <1>5

\* CloseRegistered.
LEMMA CloseRegisteredEffect ==
    ASSUME Typed, NEW w \in Watcher, NEW p \in Pane, CloseRegistered(w, p)
    PROVE  /\ Typed' /\ hub[w].pc = "close" /\ p \in hub[w].todo /\ ~ml.locked
           /\ \A v \in Watcher \ {w} :
                /\ hub'[v].pc = hub[v].pc /\ hub'[v].before = hub[v].before
                /\ hub'[v].list = hub[v].list /\ hub'[v].todo = hub[v].todo
                /\ hub'[v].exit = hub[v].exit /\ hub'[v].pane = hub[v].pane
                /\ hub'[v].number = hub[v].number
           /\ hub'[w].pc = "end" /\ hub'[w].todo = hub[w].todo \ {p}
           /\ hub'[w].exit = hub[w].exit /\ hub'[w].pane = p /\ hub'[w].number = actorOf[p]
           /\ actorOf' = [actorOf EXCEPT ![p] = 0]
           /\ UNCHANGED <<tmuxVars, actor, made, known, order, ml, overlap, lost, robbed>>
<1>1. /\ hub[w].pc = "close" /\ p \in hub[w].todo /\ ~ml.locked
      /\ actorOf' = [actorOf EXCEPT ![p] = 0]
      /\ shown' = FALSE /\ emit' = [emit EXCEPT !.current = FALSE]
      /\ UNCHANGED <<tmuxVars, actor, made, known, order, ml, overlap, lost, robbed>>
      /\ hub' = [Outdated EXCEPT ![w] = [Outdated[w] EXCEPT !.pc = "end",
                   !.todo = Outdated[w].todo \ {p}, !.pane = p, !.number = actorOf[p],
                   !.conns = known]]
  BY DEF CloseRegistered, Locked
<1> DEFINE k == [Outdated[w] EXCEPT !.pc = "end", !.todo = Outdated[w].todo \ {p}, !.pane = p,
                                    !.number = actorOf[p], !.conns = known]
<1>2. /\ Outdated \in [Watcher -> HubState]
      /\ \A v \in Watcher :
           /\ Outdated[v].pc = hub[v].pc /\ Outdated[v].before = hub[v].before
           /\ Outdated[v].list = hub[v].list /\ Outdated[v].todo = hub[v].todo
           /\ Outdated[v].exit = hub[v].exit /\ Outdated[v].pane = hub[v].pane
           /\ Outdated[v].number = hub[v].number
  BY OutdatedState
<1>3. /\ k \in HubState /\ k.pc = "end" /\ k.todo = Outdated[w].todo \ {p}
      /\ k.exit = Outdated[w].exit /\ k.pane = p /\ k.number = actorOf[p]
  <2>1. Outdated[w] \in HubState /\ actorOf[p] \in 0..MaxActor /\ known \subseteq Conn
    BY <1>2 DEF Typed
  <2>. QED
    BY <2>1 DEF HubState
<1>4. hub' = [Outdated EXCEPT ![w] = k]
  BY <1>1
<1>. HIDE DEF k
<1>5. /\ hub' \in [Watcher -> HubState] /\ hub'[w] = k
      /\ \A v \in Watcher \ {w} : hub'[v] = Outdated[v]
  BY <1>2, <1>3, <1>4
<1>6. actorOf' \in [Pane -> 0..MaxActor] /\ emit' \in [pc : {"idle", "send"}, current : BOOLEAN]
      /\ shown' \in BOOLEAN
  <2>1. 0 \in 0..MaxActor
    BY Bounds
  <2>. QED
    BY <2>1, <1>1 DEF Typed
<1>7. Typed'
  BY <1>1, <1>5, <1>6 DEF Typed, MlTyped, tmuxVars
<1>. QED
  BY <1>1, <1>2, <1>3, <1>5, <1>7

\* EndActor.
LEMMA EndActorEffect ==
    ASSUME Typed, NEW w \in Watcher, EndActor(w)
    PROVE  /\ Typed' /\ hub[w].pc = "end"
           /\ \A v \in Watcher \ {w} : hub'[v] = hub[v]
           /\ hub'[w].pc = "copy" /\ hub'[w].todo = hub[w].todo /\ hub'[w].exit = hub[w].exit
           /\ \/ UNCHANGED <<session, watcher, actor, robbed>>
              \/ /\ hub[w].number # 0
                 /\ \A a \in Actor : a # <<hub[w].pane, hub[w].number>> => actor'[a] = actor[a]
                 /\ <<hub[w].pane, hub[w].number>> \in Actor =>
                      actor'[<<hub[w].pane, hub[w].number>>].stop = NoStop
                 /\ \/ UNCHANGED <<session, watcher, robbed>>
                    \/ LET stop == actor[<<hub[w].pane, hub[w].number>>].stop
                           left == {s \in watcher[session].subs : s.id # stop.id}
                       IN /\ stop # NoStop /\ session \in Watcher
                          /\ \A v \in Watcher :
                               /\ watcher'[v].map = watcher[v].map
                               /\ watcher'[v].next = watcher[v].next
                               /\ watcher'[v].lines = watcher[v].lines
                               /\ v # session => watcher'[v] = watcher[v]
                          /\ watcher'[session].subs = left
                          /\ watcher'[session].open = (watcher[session].open /\ left # {})
                          /\ session' = IF left = {} THEN 0 ELSE session
                          /\ robbed' = IF stop.watcher = session THEN robbed
                               ELSE robbed \cup {<<s.pane, s.number>> : s \in watcher[session].subs \ left}
           /\ UNCHANGED <<tmux, actorOf, made, known, ml, listVars, lost>>
<1>1. /\ hub[w].pc = "end" /\ hub' = [hub EXCEPT ![w] = [hub[w] EXCEPT !.pc = "copy"]]
      /\ UNCHANGED <<tmux, actorOf, made, known, ml, listVars, lost>>
      /\ DOMAIN order' = Conn
  BY DEF EndActor
<1> DEFINE k == [hub[w] EXCEPT !.pc = "copy"]
<1>2. /\ k \in HubState /\ k.pc = "copy" /\ k.todo = hub[w].todo /\ k.exit = hub[w].exit
  <2>1. hub[w] \in HubState
    BY DEF Typed
  <2>. QED
    BY <2>1, HubMoves
<1>3. hub' = [hub EXCEPT ![w] = k]
  BY <1>1
<1>. HIDE DEF k
<1>4. hub' \in [Watcher -> HubState] /\ hub'[w] = k /\ \A v \in Watcher \ {w} : hub'[v] = hub[v]
  BY <1>2, <1>3, HubStep
<1>5. CASE hub[w].number = 0
  <2>1. UNCHANGED <<session, watcher, actor, robbed>>
    BY <1>5 DEF EndActor
  <2>2. Typed'
    BY <1>1, <1>4, <2>1 DEF Typed, MlTyped, listVars
  <2>. QED
    BY <1>1, <1>2, <1>4, <2>1, <2>2
<1>6. CASE hub[w].number # 0
  <2> DEFINE a == <<hub[w].pane, hub[w].number>>
             stop == actor[a].stop
             left == {s \in watcher[session].subs : s.id # stop.id}
  <2>1. /\ Unsubscribed(stop)
        /\ actor' = [actor EXCEPT ![a] = [subs |-> @.subs \ hub[w].conns, stop |-> NoStop]]
    BY <1>6 DEF EndActor
  <2>2. actor' \in [Actor -> [subs : SUBSET Conn, stop : Stop]]
        /\ (\A b \in Actor : b # a => actor'[b] = actor[b])
        /\ (a \in Actor => actor'[a].stop = NoStop)
    <3>1. NoStop \in Stop
      BY Bounds DEF NoStop, Stop
    <3>2. actor \in [Actor -> [subs : SUBSET Conn, stop : Stop]]
      BY DEF Typed
    <3>3. CASE a \in Actor
      <4> DEFINE new == [subs |-> actor[a].subs \ hub[w].conns, stop |-> NoStop]
      <4>1. new \in [subs : SUBSET Conn, stop : Stop] /\ new.stop = NoStop
        BY <3>1, <3>2, <3>3
      <4>2. actor' = [actor EXCEPT ![a] = new]
        BY <2>1
      <4>. HIDE DEF new, a
      <4>. QED
        BY <4>1, <4>2, <3>2, <3>3
    <3>4. CASE a \notin Actor
      <4> DEFINE new == [subs |-> actor[a].subs \ hub[w].conns, stop |-> NoStop]
      <4>2. actor' = [actor EXCEPT ![a] = new]
        BY <2>1
      <4>. HIDE DEF new, a
      <4>. QED
        BY <4>2, <3>2, <3>4
    <3>. QED
      BY <3>3, <3>4
  <2>3. CASE stop = NoStop \/ session = 0
    <3>1. UNCHANGED <<session, watcher, robbed>>
      BY <2>1, <2>3 DEF Unsubscribed, StopsIn
    <3>2. Typed'
      BY <1>1, <1>4, <2>2, <3>1 DEF Typed, MlTyped, listVars
    <3>. QED
      BY <1>1, <1>2, <1>4, <1>6, <2>2, <3>1, <3>2
  <2>4. CASE ~(stop = NoStop \/ session = 0)
    <3>1. /\ watcher' = [watcher EXCEPT ![session] =
                [watcher[session] EXCEPT !.subs = left, !.open = watcher[session].open /\ left # {}]]
          /\ session' = IF left = {} THEN 0 ELSE session
          /\ robbed' = IF stop.watcher = session THEN robbed
               ELSE robbed \cup {<<s.pane, s.number>> : s \in watcher[session].subs \ left}
      BY <2>1, <2>4 DEF Unsubscribed, StopsIn
    <3>2. session \in Watcher
      BY <2>4, Bounds DEF Typed
    <3>3. watcher[session] \in WatcherState /\ left \in SUBSET Subscription
          /\ (watcher[session].open /\ left # {}) \in BOOLEAN
      BY <3>2, WatcherFields DEF Typed
    <3> DEFINE j == [watcher[session] EXCEPT !.subs = left,
                                            !.open = watcher[session].open /\ left # {}]
    <3>4. /\ j \in WatcherState /\ j.map = watcher[session].map /\ j.subs = left
          /\ j.next = watcher[session].next /\ j.lines = watcher[session].lines
          /\ j.open = (watcher[session].open /\ left # {})
      <4> DEFINE o == watcher[session].open /\ left # {}
      <4>1. watcher[session] \in WatcherState /\ left \in SUBSET Subscription /\ o \in BOOLEAN
        BY <3>3
      <4>2. j = [watcher[session] EXCEPT !.subs = left, !.open = o]
        OBVIOUS
      <4>. HIDE DEF left, o, j
      <4>3. /\ j \in WatcherState /\ j.map = watcher[session].map /\ j.subs = left
            /\ j.next = watcher[session].next /\ j.lines = watcher[session].lines
            /\ j.open = o
        BY <4>1, <4>2 DEF WatcherState
      <4>. QED
        BY <4>3 DEF o
    <3>5. watcher' = [watcher EXCEPT ![session] = j]
      BY <3>1
    <3>. HIDE DEF j
    <3>6. /\ watcher' \in [Watcher -> WatcherState] /\ watcher'[session] = j
          /\ \A v \in Watcher \ {session} : watcher'[v] = watcher[v]
      BY <3>2, <3>4, <3>5 DEF Typed
    <3>7. session' \in 0..MaxWatcher
      <4>. HIDE DEF left
      <4>. QED
        BY <3>1, Bounds DEF Typed
    <3>8. \A v \in Watcher :
            /\ watcher'[v].map = watcher[v].map /\ watcher'[v].next = watcher[v].next
            /\ watcher'[v].lines = watcher[v].lines /\ (v # session => watcher'[v] = watcher[v])
      BY <3>4, <3>6
    <3>9. Typed'
      BY <1>1, <1>4, <2>2, <3>6, <3>7, <3>8 DEF Typed, MlTyped, listVars
    <3>10. watcher'[session].subs = left
           /\ watcher'[session].open = (watcher[session].open /\ left # {})
      BY <3>4, <3>6
    <3>. QED
      BY <1>1, <1>2, <1>4, <1>6, <2>2, <2>4, <3>1, <3>2, <3>8, <3>9, <3>10
  <2>. QED
    BY <2>3, <2>4
<1>. QED
  BY <1>5, <1>6

\* CopyList.
LEMMA CopyListEffect ==
    ASSUME Typed, NEW w \in Watcher, CopyList(w)
    PROVE  /\ Typed' /\ hub[w].pc = "copy"
           /\ \A v \in Watcher \ {w} : hub'[v] = hub[v]
           /\ hub'[w].pc = "send" /\ hub'[w].todo = hub[w].todo /\ hub'[w].exit = hub[w].exit
           /\ hub'[w].current = TRUE
           /\ overlap' = (overlap \/ Emitting > 0)
           /\ UNCHANGED <<tmuxVars, registryVars, ml, emit, shown, lost, robbed>>
<1>1. /\ hub[w].pc = "copy" /\ overlap' = (overlap \/ Emitting > 0)
      /\ hub' = [hub EXCEPT ![w] = [hub[w] EXCEPT !.pc = "send", !.current = TRUE]]
      /\ UNCHANGED <<tmuxVars, registryVars, ml, emit, shown, lost, robbed>>
  BY DEF CopyList
<1> DEFINE k == [hub[w] EXCEPT !.pc = "send", !.current = TRUE]
<1>2. /\ k \in HubState /\ k.pc = "send" /\ k.todo = hub[w].todo /\ k.exit = hub[w].exit
      /\ k.current = TRUE
  <2>1. hub[w] \in HubState
    BY DEF Typed
  <2>. QED
    BY <2>1 DEF HubState
<1>3. hub' = [hub EXCEPT ![w] = k]
  BY <1>1
<1>. HIDE DEF k
<1>4. hub' \in [Watcher -> HubState] /\ hub'[w] = k /\ \A v \in Watcher \ {w} : hub'[v] = hub[v]
  BY <1>2, <1>3, HubStep
<1>5. overlap' \in BOOLEAN
  BY <1>1
<1>6. Typed'
  BY <1>1, <1>4, <1>5 DEF Typed, MlTyped, tmuxVars, registryVars
<1>. QED
  BY <1>1, <1>2, <1>4, <1>6

\* SendList.
LEMMA SendListEffect ==
    ASSUME Typed, NEW w \in Watcher, SendList(w)
    PROVE  /\ Typed' /\ hub[w].pc = "send"
           /\ \A v \in Watcher \ {w} : hub'[v] = hub[v]
           /\ hub'[w].pc = "close" /\ hub'[w].todo = hub[w].todo /\ hub'[w].exit = hub[w].exit
           /\ shown' = hub[w].current
           /\ UNCHANGED <<tmuxVars, registryVars, ml, emit, overlap, lost, robbed>>
<1>1. /\ hub[w].pc = "send" /\ shown' = hub[w].current
      /\ hub' = [hub EXCEPT ![w] = [HubIdle EXCEPT !.pc = "close", !.todo = hub[w].todo,
                                                   !.exit = hub[w].exit]]
      /\ UNCHANGED <<tmuxVars, registryVars, ml, emit, overlap, lost, robbed>>
  BY DEF SendList
<1>0. hub[w].todo \in SUBSET Pane /\ hub[w].exit \in BOOLEAN /\ hub[w].current \in BOOLEAN
  BY HubFields DEF Typed
<1> DEFINE k == [HubIdle EXCEPT !.pc = "close", !.todo = hub[w].todo, !.exit = hub[w].exit]
<1>2. k \in HubState /\ k.pc = "close" /\ k.todo = hub[w].todo /\ k.exit = hub[w].exit
  BY <1>0, HubIdleState DEF HubState
<1>3. hub' = [hub EXCEPT ![w] = k]
  BY <1>1
<1>. HIDE DEF k
<1>4. hub' \in [Watcher -> HubState] /\ hub'[w] = k /\ \A v \in Watcher \ {w} : hub'[v] = hub[v]
  BY <1>2, <1>3, HubStep
<1>6. Typed'
  BY <1>0, <1>1, <1>4 DEF Typed, MlTyped, tmuxVars, registryVars
<1>. QED
  BY <1>1, <1>2, <1>4, <1>6

\* SelectPane.
LEMMA SelectPaneEffect ==
    ASSUME Typed, NEW c \in Conn, NEW p \in Pane, SelectPane(c, p)
    PROVE  /\ Typed' /\ tmux[p] = "live" /\ ml.pc = "idle"
           /\ ml'.pc = "pane" /\ ml'.pane = p /\ ml'.locked = FALSE
           /\ UNCHANGED <<tmuxVars, actor, actorOf, made, hub, listVars, lost, robbed>>
<1>1. /\ tmux[p] = "live" /\ ml.pc = "idle" /\ known' = known \cup {c} /\ DOMAIN order' = Conn
      /\ UNCHANGED <<tmuxVars, actor, actorOf, made, hub, listVars, lost, robbed>>
      /\ \E e : ml' = [MlIdle EXCEPT !.pc = "pane", !.conn = c, !.pane = p, !.evicted = e]
  BY DEF SelectPane, KnownWith, Typed
<1>2. PICK e : ml' = [MlIdle EXCEPT !.pc = "pane", !.conn = c, !.pane = p, !.evicted = e]
  BY <1>1
<1>3. ml' = [pc |-> "pane", conn |-> c, pane |-> p, evicted |-> e, number |-> 0,
             stop |-> NoStop, list |-> {}, locked |-> FALSE]
  BY <1>2 DEF MlIdle
<1>4. MlTyped'
  BY <1>3, Bounds DEF MlTyped, Stop, NoStop
<1>5. Typed'
  BY <1>1, <1>4 DEF Typed, tmuxVars, listVars
<1>. QED
  BY <1>1, <1>3, <1>5

\* PaneFound.
LEMMA PaneFoundEffect ==
    ASSUME Typed, Numbered, PaneFound
    PROVE  /\ Typed' /\ ml.pc = "pane" /\ ml'.pc = "add" /\ actorOf[ml.pane] # 0
           /\ ml.pane \in Pane /\ ml'.pane = ml.pane /\ ml'.number = actorOf[ml.pane]
           /\ ml'.locked = ml.locked
           /\ UNCHANGED <<tmuxVars, registryVars, hub, listVars, lost, robbed>>
<1>1. /\ ml.pc = "pane" /\ actorOf[ml.pane] # 0
      /\ ml' = [ml EXCEPT !.pc = "add", !.number = actorOf[ml.pane]]
      /\ UNCHANGED <<tmuxVars, registryVars, hub, listVars, lost, robbed>>
  BY DEF PaneFound
<1>2. ml.pane \in Pane
  BY <1>1 DEF Numbered
<1>3. actorOf[ml.pane] \in 0..MaxActor
  BY <1>2 DEF Typed
<1>. QED
  BY <1>1, <1>2, <1>3 DEF Typed, MlTyped, tmuxVars, registryVars, listVars

\* PaneCreated.
LEMMA PaneCreatedEffect ==
    ASSUME Typed, Numbered, PaneCreated
    PROVE  /\ Typed' /\ ml.pc = "pane" /\ actorOf[ml.pane] = 0 /\ ml.pane \in Pane
           /\ made' = [made EXCEPT ![ml.pane] = @ + 1] /\ ml'.number = made[ml.pane] + 1
           /\ made[ml.pane] + 1 \in 1..MaxActor /\ ml'.pane = ml.pane
           /\ UNCHANGED <<tmux, actor, listVars, lost, robbed>>
           /\ \/ /\ ml'.pc = "add" /\ ml'.locked = ml.locked
                 /\ actorOf' = [actorOf EXCEPT ![ml.pane] = made[ml.pane] + 1]
                 /\ UNCHANGED <<session, watcher, hub>>
              \/ /\ ml'.pc = "list" /\ ml'.locked = TRUE
                 /\ UNCHANGED actorOf
                 /\ \E w \in Watcher :
                      /\ session' = w
                      /\ \A v \in Watcher \ {w} : watcher'[v] = watcher[v] /\ hub'[v] = hub[v]
                      /\ ml'.stop = [watcher |-> w, id |-> watcher'[w].next]
                      /\ [id |-> watcher'[w].next, pane |-> ml'.pane, number |-> ml'.number]
                           \in watcher'[w].subs
                      /\ \/ /\ session = w /\ hub' = hub
                            /\ watcher'[w].next = watcher[w].next + 1
                            /\ watcher'[w].subs = watcher[w].subs \cup
                                 {[id |-> watcher'[w].next, pane |-> ml'.pane, number |-> ml'.number]}
                            /\ watcher'[w].map = watcher[w].map
                            /\ watcher'[w].lines = watcher[w].lines
                            /\ watcher'[w].open = watcher[w].open
                         \/ /\ session = 0 /\ hub[w].pc = "none" /\ hub'[w] = HubIdle
                            /\ watcher'[w].next = 1
                            /\ watcher'[w].subs =
                                 {[id |-> watcher'[w].next, pane |-> ml'.pane, number |-> ml'.number]}
                            /\ watcher'[w].map = Live
<1> DEFINE n == made[ml.pane] + 1
<1>1. /\ ml.pc = "pane" /\ actorOf[ml.pane] = 0 /\ made[ml.pane] < MaxActor
      /\ made' = [made EXCEPT ![ml.pane] = @ + 1]
      /\ UNCHANGED <<tmux, actor, known, order, listVars, lost, robbed>>
  BY DEF PaneCreated
<1>2. ml.pane \in Pane /\ n \in 1..MaxActor
  <2>1. ml.pane \in Pane
    BY <1>1 DEF Numbered
  <2>. QED
    BY <2>1, <1>1, Bounds DEF Typed
<1>3. made' \in [Pane -> 0..MaxActor]
  <2>1. made' = [made EXCEPT ![ml.pane] = n] /\ n \in 0..MaxActor
    BY <1>1, <1>2, Bounds
  <2>. HIDE DEF n
  <2>. QED
    BY <2>1, <1>2 DEF Typed
<1>4. CASE SubscribeCan(ml.pane)
  <2>1. SubscribeHub(ml.pane, n, NextWatcher) /\ UNCHANGED actorOf
    BY <1>4 DEF PaneCreated
  <2>. HIDE DEF n
  <2>2. PICK w \in Watcher :
             /\ session' = w /\ hub' \in [Watcher -> HubState] /\ watcher' \in [Watcher -> WatcherState]
             /\ \A v \in Watcher \ {w} : watcher'[v] = watcher[v] /\ hub'[v] = hub[v]
             /\ \A v \in Watcher : Len(watcher'[v].lines) <= LineLimit
             /\ ml' = [ml EXCEPT !.pc = "list", !.number = n,
                                 !.stop = [watcher |-> w, id |-> watcher'[w].next],
                                 !.locked = ml.pc = "pane"]
             /\ [id |-> watcher'[w].next, pane |-> ml.pane, number |-> n] \in watcher'[w].subs
             /\ \/ /\ session = w /\ hub' = hub /\ watcher'[w].next = watcher[w].next + 1
                   /\ watcher'[w].subs = watcher[w].subs \cup
                        {[id |-> watcher'[w].next, pane |-> ml.pane, number |-> n]}
                   /\ watcher'[w].map = watcher[w].map /\ watcher'[w].lines = watcher[w].lines
                   /\ watcher'[w].open = watcher[w].open
                \/ /\ session = 0 /\ hub[w].pc = "none" /\ hub'[w] = HubIdle
                   /\ watcher'[w].next = 1
                   /\ watcher'[w].subs = {[id |-> watcher'[w].next, pane |-> ml.pane, number |-> n]}
                   /\ watcher'[w].map = Live
    BY <1>2, <1>4, <2>1, SubscribeEffect
  <2>3. /\ ml'.pc = "list" /\ ml'.number = n /\ ml'.locked = TRUE /\ ml'.pane = ml.pane
        /\ ml'.stop = [watcher |-> w, id |-> watcher'[w].next] /\ MlTyped'
    <3>1. w \in 0..MaxWatcher /\ watcher'[w].next \in Nat /\ n \in 0..MaxActor
      BY <1>2, <2>2, Bounds, WatcherFields
    <3>2. [watcher |-> w, id |-> watcher'[w].next] \in Stop
      BY <3>1 DEF Stop
    <3>3. PICK st \in Stop : st = [watcher |-> w, id |-> watcher'[w].next]
      BY <3>2
    <3>4. ml' = [ml EXCEPT !.pc = "list", !.number = n, !.stop = st, !.locked = TRUE]
      BY <2>2, <3>3, <1>1
    <3>. QED
      BY <3>1, <3>3, <3>4 DEF Typed, MlTyped
  <2>4. session' \in 0..MaxWatcher
    BY <2>2, Bounds
  <2>5. Typed'
    BY <1>1, <1>3, <2>1, <2>2, <2>3, <2>4 DEF Typed, listVars
  <2>6. UNCHANGED <<tmux, actor, listVars, lost, robbed>>
    BY <1>1
  <2>7. \E x \in Watcher :
          /\ session' = x
          /\ \A v \in Watcher \ {x} : watcher'[v] = watcher[v] /\ hub'[v] = hub[v]
          /\ ml'.stop = [watcher |-> x, id |-> watcher'[x].next]
          /\ [id |-> watcher'[x].next, pane |-> ml'.pane, number |-> ml'.number]
               \in watcher'[x].subs
          /\ \/ /\ session = x /\ hub' = hub
                /\ watcher'[x].next = watcher[x].next + 1
                /\ watcher'[x].subs = watcher[x].subs \cup
                     {[id |-> watcher'[x].next, pane |-> ml'.pane, number |-> ml'.number]}
                /\ watcher'[x].map = watcher[x].map
                /\ watcher'[x].lines = watcher[x].lines
                /\ watcher'[x].open = watcher[x].open
             \/ /\ session = 0 /\ hub[x].pc = "none" /\ hub'[x] = HubIdle
                /\ watcher'[x].next = 1
                /\ watcher'[x].subs =
                     {[id |-> watcher'[x].next, pane |-> ml'.pane, number |-> ml'.number]}
                /\ watcher'[x].map = Live
    BY <2>2, <2>3
  <2>8. ml'.number = made[ml.pane] + 1 /\ made[ml.pane] + 1 \in 1..MaxActor
    BY <1>2, <2>3 DEF n
  <2>. QED
    BY <1>1, <1>2, <2>1, <2>3, <2>5, <2>6, <2>7, <2>8
<1>5. CASE ~SubscribeCan(ml.pane)
  <2>1. /\ ml' = [ml EXCEPT !.pc = "add", !.number = n]
        /\ actorOf' = [actorOf EXCEPT ![ml.pane] = n]
        /\ UNCHANGED <<session, watcher, hub>>
    BY <1>5 DEF PaneCreated, Register
  <2>. HIDE DEF n
  <2>2. n \in 0..MaxActor
    BY <1>2, Bounds
  <2>3. /\ ml'.pc = "add" /\ ml'.number = n /\ ml'.locked = ml.locked /\ ml'.pane = ml.pane
        /\ MlTyped'
    BY <2>1, <2>2 DEF Typed, MlTyped
  <2>4. actorOf' \in [Pane -> 0..MaxActor]
    BY <2>1, <2>2 DEF Typed
  <2>5. Typed'
    BY <1>1, <1>3, <2>1, <2>3, <2>4 DEF Typed, listVars
  <2>. QED
    BY <1>1, <1>2, <2>1, <2>3, <2>5 DEF n
<1>. QED
  BY <1>4, <1>5

\* EnsureRealtime.
LEMMA EnsureRealtimeEffect ==
    ASSUME Typed, Numbered, EnsureRealtime
    PROVE  /\ Typed' /\ ml.pc = "capture" /\ ml.pane \in Pane
           /\ actor[<<ml.pane, ml.number>>].stop = NoStop
           /\ UNCHANGED <<tmux, registryVars, listVars, lost, robbed>>
           /\ ml'.number = ml.number /\ ml'.pane = ml.pane
           /\ ml'.pc = "list" /\ ml'.locked = FALSE
           /\ \E w \in Watcher :
                /\ session' = w
                /\ \A v \in Watcher \ {w} : watcher'[v] = watcher[v] /\ hub'[v] = hub[v]
                /\ ml'.stop = [watcher |-> w, id |-> watcher'[w].next]
                /\ [id |-> watcher'[w].next, pane |-> ml'.pane, number |-> ml'.number]
                     \in watcher'[w].subs
                /\ \/ /\ session = w /\ hub' = hub
                      /\ watcher'[w].next = watcher[w].next + 1
                      /\ watcher'[w].subs = watcher[w].subs \cup
                           {[id |-> watcher'[w].next, pane |-> ml'.pane, number |-> ml'.number]}
                      /\ watcher'[w].map = watcher[w].map
                      /\ watcher'[w].lines = watcher[w].lines
                      /\ watcher'[w].open = watcher[w].open
                   \/ /\ session = 0 /\ hub[w].pc = "none" /\ hub'[w] = HubIdle
                      /\ watcher'[w].next = 1
                      /\ watcher'[w].subs =
                           {[id |-> watcher'[w].next, pane |-> ml'.pane, number |-> ml'.number]}
                      /\ watcher'[w].map = Live
<1> DEFINE n == ml.number
<1>1. /\ ml.pc = "capture" /\ SubscribeCan(ml.pane) /\ actor[<<ml.pane, ml.number>>].stop = NoStop
      /\ SubscribeHub(ml.pane, n, NextWatcher)
      /\ UNCHANGED <<tmux, registryVars, listVars, lost, robbed>>
  BY DEF EnsureRealtime
<1>2. ml.pane \in Pane /\ n \in 1..MaxActor
  <2>1. ml.pane \in Pane /\ ml.number \in 1..made[ml.pane]
    BY <1>1 DEF Numbered
  <2>2. made[ml.pane] \in 0..MaxActor
    BY <2>1 DEF Typed
  <2>. QED
    BY <2>1, <2>2, Bounds
<1>. HIDE DEF n
<1>3. PICK w \in Watcher :
             /\ session' = w /\ hub' \in [Watcher -> HubState] /\ watcher' \in [Watcher -> WatcherState]
             /\ \A v \in Watcher \ {w} : watcher'[v] = watcher[v] /\ hub'[v] = hub[v]
             /\ \A v \in Watcher : Len(watcher'[v].lines) <= LineLimit
             /\ ml' = [ml EXCEPT !.pc = "list", !.number = n,
                                 !.stop = [watcher |-> w, id |-> watcher'[w].next],
                                 !.locked = ml.pc = "pane"]
             /\ [id |-> watcher'[w].next, pane |-> ml.pane, number |-> n] \in watcher'[w].subs
             /\ \/ /\ session = w /\ hub' = hub /\ watcher'[w].next = watcher[w].next + 1
                   /\ watcher'[w].subs = watcher[w].subs \cup
                        {[id |-> watcher'[w].next, pane |-> ml.pane, number |-> n]}
                   /\ watcher'[w].map = watcher[w].map /\ watcher'[w].lines = watcher[w].lines
                   /\ watcher'[w].open = watcher[w].open
                \/ /\ session = 0 /\ hub[w].pc = "none" /\ hub'[w] = HubIdle
                   /\ watcher'[w].next = 1
                   /\ watcher'[w].subs = {[id |-> watcher'[w].next, pane |-> ml.pane, number |-> n]}
                   /\ watcher'[w].map = Live
  BY <1>1, <1>2, SubscribeEffect
<1>4. /\ ml'.pc = "list" /\ ml'.number = n /\ ml'.locked = FALSE /\ ml'.pane = ml.pane
      /\ ml'.stop = [watcher |-> w, id |-> watcher'[w].next] /\ MlTyped'
  <2>1. w \in 0..MaxWatcher /\ watcher'[w].next \in Nat /\ n \in 0..MaxActor
    BY <1>2, <1>3, Bounds, WatcherFields
  <2>2. [watcher |-> w, id |-> watcher'[w].next] \in Stop
    BY <2>1 DEF Stop
  <2>3. PICK st \in Stop : st = [watcher |-> w, id |-> watcher'[w].next]
    BY <2>2
  <2>4. ml' = [ml EXCEPT !.pc = "list", !.number = n, !.stop = st, !.locked = FALSE]
    BY <1>1, <1>3, <2>3
  <2>. QED
    BY <2>1, <2>3, <2>4 DEF Typed, MlTyped
<1>5. session' \in 0..MaxWatcher
  BY <1>3, Bounds
<1>6. Typed'
  BY <1>1, <1>3, <1>4, <1>5 DEF Typed, listVars, registryVars
<1>7. ml'.number = ml.number
  BY <1>4 DEF n
<1>. QED
  BY <1>1, <1>2, <1>3, <1>4, <1>6, <1>7

\* ListPanes.
LEMMA ListPanesEffect ==
    ASSUME Typed, ListPanes
    PROVE  /\ Typed' /\ ml.pc = "list" /\ ml'.pc = "assign" /\ ml'.list = Live
           /\ ml'.pane = ml.pane /\ ml'.number = ml.number /\ ml'.stop = ml.stop
           /\ ml'.locked = ml.locked
           /\ UNCHANGED <<tmuxVars, registryVars, hub, listVars, lost, robbed>>
<1>1. /\ ml.pc = "list" /\ ml' = [ml EXCEPT !.pc = "assign", !.list = Live]
      /\ UNCHANGED <<tmuxVars, registryVars, hub, listVars, lost, robbed>>
  BY DEF ListPanes
<1>2. Live \subseteq Pane
  BY DEF Live
<1>. QED
  BY <1>1, <1>2 DEF Typed, MlTyped, tmuxVars, registryVars, listVars

\* AssignPanes.
LEMMA AssignPanesEffect ==
    ASSUME Typed, Numbered, AssignPanes, ml.stop.watcher \in Watcher
    PROVE  LET w == ml.stop.watcher
               a == <<ml.pane, ml.number>>
           IN /\ Typed' /\ ml.pc = "assign" /\ a \in Actor /\ ml.pane \in Pane
              /\ \A v \in Watcher :
                   /\ watcher'[v].subs = watcher[v].subs /\ watcher'[v].open = watcher[v].open
                   /\ watcher'[v].next = watcher[v].next /\ watcher'[v].lines = watcher[v].lines
                   /\ v # w => watcher'[v].map = watcher[v].map
              /\ \/ ml.list = {} /\ UNCHANGED <<watcher, lost>>
                 \/ /\ ml.list # {} /\ watcher'[w].map = ml.list
                    /\ lost' = lost \cup Swallowed(w, ml.list) \cup ({ml.pane} \ ml.list)
              /\ actor'[a].stop = ml.stop /\ \A b \in Actor \ {a} : actor'[b] = actor[b]
              /\ actorOf' = IF ml.locked THEN [actorOf EXCEPT ![ml.pane] = ml.number] ELSE actorOf
              /\ ml'.pc \in {"add", "evict"} /\ (ml'.pc = "add" => ml.locked) /\ ml'.locked = FALSE
              /\ ml'.pane = ml.pane /\ ml'.number = ml.number
              /\ UNCHANGED <<tmux, session, made, hub, listVars, robbed>>
<1> DEFINE w == ml.stop.watcher
           a == <<ml.pane, ml.number>>
<1>1. /\ ml.pc = "assign"
      /\ ml.list = {} => UNCHANGED <<watcher, lost>>
      /\ ml.list # {} =>
           /\ watcher' = [watcher EXCEPT ![w].map = ml.list]
           /\ lost' = lost \cup Swallowed(w, ml.list) \cup ({ml.pane} \ ml.list)
      /\ actor' = [actor EXCEPT ![a].stop = ml.stop]
      /\ actorOf' = IF ml.locked THEN [actorOf EXCEPT ![ml.pane] = ml.number] ELSE actorOf
      /\ ml' = [ml EXCEPT !.pc = IF ml.locked THEN "add" ELSE "evict", !.locked = FALSE]
      /\ UNCHANGED <<tmux, session, made, known, order, hub, listVars, robbed>>
  BY DEF AssignPanes, Register
<1>2. ml.pane \in Pane /\ ml.number \in 1..MaxActor /\ ml.number \in 0..MaxActor
  <2>1. ml.pane \in Pane /\ ml.number \in 1..made[ml.pane]
    BY <1>1 DEF Numbered
  <2>2. made[ml.pane] \in 0..MaxActor
    BY <2>1 DEF Typed
  <2>. QED
    BY <2>1, <2>2, Bounds
<1>3. a \in Actor
  BY <1>2 DEF Actor
<1>4. /\ actor' \in [Actor -> [subs : SUBSET Conn, stop : Stop]] /\ actor'[a].stop = ml.stop
      /\ \A b \in Actor \ {a} : actor'[b] = actor[b]
  <2> DEFINE new == [actor[a] EXCEPT !.stop = ml.stop]
  <2>1. actor[a] \in [subs : SUBSET Conn, stop : Stop] /\ ml.stop \in Stop
    BY <1>3 DEF Typed, MlTyped
  <2>2. new \in [subs : SUBSET Conn, stop : Stop] /\ new.stop = ml.stop
    BY <2>1
  <2>3. actor' = [actor EXCEPT ![a] = new]
    BY <1>1
  <2>. HIDE DEF new, a
  <2>. QED
    BY <2>2, <2>3, <1>3 DEF Typed
<1>5. actorOf' \in [Pane -> 0..MaxActor]
  BY <1>1, <1>2 DEF Typed
<1>6. /\ ml'.pc \in {"add", "evict"} /\ (ml'.pc = "add" => ml.locked) /\ ml'.locked = FALSE
      /\ ml'.pane = ml.pane /\ ml'.number = ml.number /\ MlTyped'
  <2>1. CASE ml.locked
    BY <1>1, <2>1 DEF Typed, MlTyped
  <2>2. CASE ~ml.locked
    BY <1>1, <2>2 DEF Typed, MlTyped
  <2>. QED
    BY <2>1, <2>2
<1>7. /\ watcher' \in [Watcher -> WatcherState]
      /\ \A v \in Watcher :
           /\ watcher'[v].subs = watcher[v].subs /\ watcher'[v].open = watcher[v].open
           /\ watcher'[v].next = watcher[v].next /\ watcher'[v].lines = watcher[v].lines
           /\ Len(watcher'[v].lines) <= LineLimit
           /\ v # w => watcher'[v].map = watcher[v].map
      /\ ml.list # {} => watcher'[w].map = ml.list
  <2>1. CASE ml.list = {}
    BY <2>1, <1>1 DEF Typed
  <2>2. CASE ml.list # {}
    <3>1. w \in Watcher /\ ml.list \in SUBSET Pane /\ watcher' = [watcher EXCEPT ![w].map = ml.list]
      BY <2>2, <1>1 DEF Typed, MlTyped
    <3>. HIDE DEF w
    <3>. QED
      BY <3>1, MapStep
  <2>. QED
    BY <2>1, <2>2
<1>8. Typed'
  BY <1>1, <1>4, <1>5, <1>6, <1>7 DEF Typed, listVars
<1>. QED
  BY <1>1, <1>2, <1>3, <1>4, <1>6, <1>7, <1>8

\* AddSubscriber.
LEMMA AddSubscriberEffect ==
    ASSUME Typed, AddSubscriber
    PROVE  /\ Typed' /\ ml.pc = "add" /\ ml'.pc = "capture"
           /\ ml'.pane = ml.pane /\ ml'.number = ml.number /\ ml'.locked = ml.locked
           /\ \A b \in Actor : actor'[b].stop = actor[b].stop
           /\ UNCHANGED <<tmuxVars, actorOf, made, hub, listVars, lost, robbed>>
<1> DEFINE a == <<ml.pane, ml.number>>
<1>1. /\ ml.pc = "add" /\ ml' = [ml EXCEPT !.pc = "capture"]
      /\ actor' = [actor EXCEPT ![a].subs = @ \cup {ml.conn}]
      /\ UNCHANGED <<tmuxVars, actorOf, made, known, order, hub, listVars, lost, robbed>>
  BY DEF AddSubscriber
<1>2. /\ ml'.pc = "capture" /\ ml'.pane = ml.pane /\ ml'.number = ml.number
      /\ ml'.locked = ml.locked /\ MlTyped'
  BY <1>1 DEF Typed, MlTyped
<1>3. /\ actor' \in [Actor -> [subs : SUBSET Conn, stop : Stop]]
      /\ \A b \in Actor : actor'[b].stop = actor[b].stop
  <2>1. ml.conn \in Conn /\ actor \in [Actor -> [subs : SUBSET Conn, stop : Stop]]
    BY DEF Typed, MlTyped
  <2>2. actor' = [actor EXCEPT ![a] = [actor[a] EXCEPT !.subs = actor[a].subs \cup {ml.conn}]]
    BY <1>1
  <2> DEFINE new == [actor[a] EXCEPT !.subs = actor[a].subs \cup {ml.conn}]
  <2>3. a \in Actor => new \in [subs : SUBSET Conn, stop : Stop] /\ new.stop = actor[a].stop
    <3>1. a \in Actor => actor[a] \in [subs : SUBSET Conn, stop : Stop]
      BY <2>1
    <3>. QED
      BY <2>1, <3>1
  <2>4. actor' = [actor EXCEPT ![a] = new]
    BY <2>2
  <2>. HIDE DEF new, a
  <2>. QED
    BY <2>1, <2>3, <2>4
<1>4. Typed'
  BY <1>1, <1>2, <1>3 DEF Typed, tmuxVars, listVars
<1>. QED
  BY <1>1, <1>2, <1>3, <1>4

\* CaptureFails.
LEMMA CaptureFailsEffect ==
    ASSUME Typed, CaptureFails
    PROVE  /\ Typed' /\ ml.pc = "capture" /\ ml'.pc = "evict" /\ ml'.pane = ml.pane
           /\ ml'.locked = ml.locked
           /\ UNCHANGED <<tmuxVars, registryVars, hub, listVars, lost, robbed>>
<1>1. /\ ml.pc = "capture" /\ ml' = [ml EXCEPT !.pc = "evict"]
      /\ UNCHANGED <<tmuxVars, registryVars, hub, listVars, lost, robbed>>
  BY DEF CaptureFails
<1>. QED
  BY <1>1 DEF Typed, MlTyped, tmuxVars, registryVars, listVars

\* UnsubscribeEvicted.
LEMMA UnsubscribeEvictedEffect ==
    ASSUME Typed, UnsubscribeEvicted
    PROVE  /\ Typed' /\ ml'.pc = "idle" /\ ml'.locked = FALSE
           /\ \A b \in Actor : actor'[b].stop = actor[b].stop
           /\ UNCHANGED <<tmuxVars, actorOf, made, hub, listVars, lost, robbed>>
<1> DEFINE a == <<ml.evicted, actorOf[ml.evicted]>>
<1>1. /\ ml' = MlIdle
      /\ actor' = actor \/ actor' = [actor EXCEPT ![a].subs = @ \ {ml.conn}]
      /\ UNCHANGED <<tmuxVars, actorOf, made, known, order, hub, listVars, lost, robbed>>
  BY DEF UnsubscribeEvicted
<1>3. /\ actor' \in [Actor -> [subs : SUBSET Conn, stop : Stop]]
      /\ \A b \in Actor : actor'[b].stop = actor[b].stop
  <2>1. actor \in [Actor -> [subs : SUBSET Conn, stop : Stop]]
    BY DEF Typed
  <2> DEFINE new == [actor[a] EXCEPT !.subs = actor[a].subs \ {ml.conn}]
  <2>3. a \in Actor => new \in [subs : SUBSET Conn, stop : Stop] /\ new.stop = actor[a].stop
    <3>1. a \in Actor => actor[a] \in [subs : SUBSET Conn, stop : Stop]
      BY <2>1
    <3>. QED
      BY <3>1
  <2>4. actor' = actor \/ actor' = [actor EXCEPT ![a] = new]
    BY <1>1
  <2>. HIDE DEF new, a
  <2>. QED
    BY <2>1, <2>3, <2>4
<1>4. Typed'
  BY <1>1, <1>3, MlIdleState DEF Typed, tmuxVars, listVars
<1>. QED
  BY <1>1, <1>3, <1>4, MlIdleState

\* CallHook.
LEMMA CallHookEffect ==
    ASSUME Typed, NEW p \in Pane, CallHook(p)
    PROVE  /\ Typed' /\ emit.pc = "idle" /\ emit'.pc = "send" /\ emit'.current = TRUE
           /\ \A v \in Watcher :
                /\ hub'[v].pc = hub[v].pc /\ hub'[v].before = hub[v].before
                /\ hub'[v].list = hub[v].list /\ hub'[v].todo = hub[v].todo
                /\ hub'[v].exit = hub[v].exit /\ hub'[v].pane = hub[v].pane
                /\ hub'[v].number = hub[v].number
           /\ overlap' = (overlap \/ Emitting > 0)
           /\ UNCHANGED <<tmuxVars, actor, actorOf, made, known, order, ml, lost, robbed>>
<1>1. /\ emit.pc = "idle" /\ emit' = [pc |-> "send", current |-> TRUE] /\ hub' = Outdated
      /\ shown' = FALSE /\ overlap' = (overlap \/ Emitting > 0)
      /\ UNCHANGED <<tmuxVars, actor, actorOf, made, known, order, ml, lost, robbed>>
  BY DEF CallHook
<1>2. overlap' \in BOOLEAN /\ shown' \in BOOLEAN
      /\ emit' \in [pc : {"idle", "send"}, current : BOOLEAN]
  BY <1>1
<1>3. Typed'
  BY <1>1, <1>2, OutdatedState DEF Typed, MlTyped, tmuxVars
<1>. QED
  BY <1>1, <1>3, OutdatedState

\* HookSends.
LEMMA HookSendsEffect ==
    ASSUME Typed, HookSends
    PROVE  /\ Typed' /\ emit.pc = "send" /\ emit'.pc = "idle" /\ shown' = emit.current
           /\ UNCHANGED <<tmuxVars, registryVars, hub, ml, overlap, lost, robbed>>
<1>1. /\ emit.pc = "send" /\ emit' = [pc |-> "idle", current |-> FALSE] /\ shown' = emit.current
      /\ UNCHANGED <<tmuxVars, registryVars, hub, ml, overlap, lost, robbed>>
  BY DEF HookSends, EmitIdle
<1>2. emit' \in [pc : {"idle", "send"}, current : BOOLEAN] /\ shown' \in BOOLEAN
  BY <1>1 DEF Typed
<1>. QED
  BY <1>1, <1>2 DEF Typed, MlTyped, tmuxVars, registryVars

-------------------------------------------------------------------------------
(* What a step leaves as it is keeps the parts of the invariant that are about it.*)

\* No actor comes or goes, and a stop can only be dropped.
SameActors ==
    /\ UNCHANGED <<actorOf, made>>
    /\ \A a \in Actor : actor'[a].stop # NoStop => actor'[a].stop = actor[a].stop

\* The session is kept while no loop is left or exits, and no client opens.
LEMMA OneSessionKept ==
    ASSUME OneSession, session' = session,
           \A v \in Watcher :
             /\ hub'[v].pc \in {"none", "done"} \/ hub'[v].exit =>
                  hub[v].pc \in {"none", "done"} \/ hub[v].exit
             /\ watcher'[v].open => watcher[v].open
             /\ hub'[v].todo # {} => hub'[v].pc \in {"close", "end", "copy", "send"}
    PROVE  OneSession'
  BY DEF OneSession

\* The numbers are kept while no actor comes or goes and no loop begins to end one.
LEMMA NumberedKept ==
    ASSUME Typed, Numbered, SameActors,
           \/ ml' = ml
           \/ /\ ml'.pc # "idle" => ml'.pane \in Pane /\ tmux[ml'.pane] # "new"
              /\ ml'.pc \in {"list", "assign", "add", "capture"} =>
                   ml'.number \in 1..made[ml'.pane]
              /\ ml'.locked => ml.locked /\ Subscribing' /\ ml'.pane = ml.pane
                               /\ ml'.number = ml.number,
           \A p \in Pane : tmux[p] # "new" => tmux'[p] # "new",
           \A v \in Watcher : hub'[v].pc = "end" =>
             hub[v].pc = "end" /\ hub'[v].pane = hub[v].pane /\ hub'[v].number = hub[v].number
    PROVE  Numbered'
<1>1. \A p \in Pane : actorOf'[p] \in {0, made'[p]} /\ (made'[p] # 0 => tmux'[p] # "new")
  BY DEF Numbered, SameActors
<1>2. \A a \in Actor : a[2] > made'[a[1]] => actor'[a].stop = NoStop
  BY DEF Numbered, SameActors
<1>3. /\ ml'.pc # "idle" => ml'.pane \in Pane /\ tmux'[ml'.pane] # "new"
      /\ ml'.pc \in {"list", "assign", "add", "capture"} => ml'.number \in 1..made'[ml'.pane]
      /\ ml'.locked => Subscribing' /\ actorOf'[ml'.pane] = 0 /\ ml'.number = made'[ml'.pane]
  <2>1. CASE ml' = ml
    BY <2>1 DEF Numbered, SameActors, Subscribing
  <2>2. CASE ml' # ml
    <3>1. /\ ml'.pc # "idle" => ml'.pane \in Pane /\ tmux[ml'.pane] # "new"
          /\ ml'.pc \in {"list", "assign", "add", "capture"} =>
               ml'.number \in 1..made[ml'.pane]
      BY <2>2
    <3>2. ml'.locked => ml.locked /\ Subscribing' /\ ml'.pane = ml.pane
                        /\ ml'.number = ml.number
      BY <2>2
    <3>3. ml.locked => actorOf[ml.pane] = 0 /\ ml.number = made[ml.pane]
      BY DEF Numbered
    <3>. QED
      BY <3>1, <3>2, <3>3 DEF SameActors
  <2>. QED
    BY <2>1, <2>2
<1>4. \A v \in Watcher : hub'[v].pc = "end" =>
         /\ hub'[v].pane \in Pane /\ hub'[v].number <= made'[hub'[v].pane]
         /\ hub'[v].number # 0 =>
              /\ actorOf'[hub'[v].pane] # hub'[v].number
              /\ ~(ml'.locked /\ ml'.pane = hub'[v].pane /\ ml'.number = hub'[v].number)
  <2>1. CASE ml' = ml
    BY <2>1 DEF Numbered, SameActors
  <2>2. CASE ml' # ml
    <3>2. ml'.locked => ml.locked /\ ml'.pane = ml.pane /\ ml'.number = ml.number
      BY <2>2
    <3>. QED
      BY <3>2 DEF Numbered, SameActors
  <2>. QED
    BY <2>1, <2>2
<1>. QED
  BY <1>1, <1>2, <1>3, <1>4 DEF Numbered

\* Stops stay owned while none is made and subscriptions only go.
LEMMA StopsKept ==
    ASSUME Typed, StopsOwned,
           \A a \in Actor : actor'[a].stop # NoStop => actor'[a].stop = actor[a].stop,
           Subscribing' => /\ Subscribing /\ ml'.stop = ml.stop
                           /\ ml'.pane = ml.pane /\ ml'.number = ml.number,
           \A v \in Watcher :
             /\ hub'[v].pc = "none" => hub[v].pc = "none"
             /\ hub[v].pc = "done" => hub'[v].pc = "done"
             /\ \/ hub'[v].pc = "done" /\ watcher'[v].subs = {}
                \/ /\ watcher'[v].next = watcher[v].next
                   /\ watcher'[v].subs \subseteq watcher[v].subs
    PROVE  StopsOwned'
<1>1. ASSUME NEW stop \in Stop, NEW p, NEW n, OwnedBy(stop, p, n)
      PROVE  /\ stop.watcher \in Watcher /\ hub'[stop.watcher].pc # "none"
             /\ hub'[stop.watcher].pc # "done" => stop.id <= watcher'[stop.watcher].next
             /\ \A s \in watcher'[stop.watcher].subs :
                  s.id = stop.id => s.pane = p /\ s.number = n
  <2>1. stop.watcher \in Watcher
    BY <1>1 DEF OwnedBy
  <2>. QED
    BY <1>1, <2>1 DEF OwnedBy
<1>2. ASSUME NEW a \in Actor, actor'[a].stop # NoStop
      PROVE  OwnedBy(actor[a].stop, a[1], a[2])' 
  <2>1. actor'[a].stop = actor[a].stop /\ actor[a].stop \in Stop
    BY <1>2 DEF Typed
  <2>2. OwnedBy(actor[a].stop, a[1], a[2])
    BY <1>2, <2>1 DEF StopsOwned
  <2>. QED
    BY <1>1, <2>1, <2>2 DEF OwnedBy
<1>3. ASSUME Subscribing'
      PROVE  OwnedBy(ml.stop, ml.pane, ml.number)'
  <2>1. /\ ml'.stop = ml.stop /\ ml'.pane = ml.pane /\ ml'.number = ml.number
        /\ ml.stop \in Stop /\ OwnedBy(ml.stop, ml.pane, ml.number)
    BY <1>3 DEF StopsOwned, Typed, MlTyped
  <2>. QED
    BY <1>1, <2>1 DEF OwnedBy
<1>4. \A v \in Watcher : \A s \in watcher'[v].subs : s.id <= watcher'[v].next
  BY DEF StopsOwned
<1>. QED
  BY <1>2, <1>3, <1>4 DEF StopsOwned

\* What is heard stays so, and what is to be closed.
KeepsHeard ==
    /\ session' = session /\ robbed \subseteq robbed'
    /\ session \in Watcher => watcher[session].subs \subseteq watcher'[session].subs
    /\ \A v \in Watcher : hub[v].todo \subseteq hub'[v].todo

\* An actor that hears still does, or its subscription is robbed, or it is to be closed.
LEMMA HeardStays ==
    ASSUME Typed, KeepsHeard, NEW stop \in Stop, stop # NoStop => stop.watcher \in Watcher,
           stop # NoStop, NEW p \in Pane, NEW n,
           Heard(stop, p, n) \/ <<p, n>> \in robbed \/ BeingClosed(p)
    PROVE  \/ session' = stop.watcher
              /\ [id |-> stop.id, pane |-> p, number |-> n] \in watcher'[session'].subs
           \/ <<p, n>> \in robbed' \/ BeingClosed(p)'
  BY DEF KeepsHeard, Heard, BeingClosed

\* A step that keeps what is heard makes no actor deaf.
LEMMA DeafKept ==
    ASSUME Typed, StopsOwned, Numbered, DeafOnlyRobbed, KeepsHeard,
           \A p \in Pane : actorOf'[p] # 0 => actorOf'[p] = actorOf[p],
           \A a \in Actor : actor'[a].stop # NoStop => actor'[a].stop = actor[a].stop
    PROVE  DeafOnlyRobbed'
<1> SUFFICES ASSUME NEW p \in Pane, actorOf'[p] # 0, actor'[<<p, actorOf'[p]>>].stop # NoStop
             PROVE  (Hears(p) \/ <<p, actorOf[p]>> \in robbed \/ BeingClosed(p))'
  BY DEF DeafOnlyRobbed
<1>1. actorOf'[p] = actorOf[p] /\ <<p, actorOf[p]>> \in Actor
  BY Bounds DEF Typed
<1> DEFINE stop == actor[<<p, actorOf[p]>>].stop
<1>2. actor'[<<p, actorOf'[p]>>].stop = stop /\ stop \in Stop /\ stop # NoStop
  BY <1>1 DEF Typed
<1>3. OwnedBy(stop, p, actorOf[p])
  BY <1>1, <1>2 DEF StopsOwned
<1>4. Heard(stop, p, actorOf[p]) \/ <<p, actorOf[p]>> \in robbed \/ BeingClosed(p)
  BY <1>1, <1>2 DEF DeafOnlyRobbed, Hears
<1>5. stop.watcher \in Watcher
  BY <1>3 DEF OwnedBy
<1>. HIDE DEF stop
<1>6. \/ session' = stop.watcher
         /\ [id |-> stop.id, pane |-> p, number |-> actorOf[p]] \in watcher'[session'].subs
      \/ <<p, actorOf[p]>> \in robbed' \/ BeingClosed(p)'
  BY <1>2, <1>4, <1>5, HeardStays
<1>. QED
  BY <1>1, <1>2, <1>6 DEF Hears, Heard

\* Nor does it take the subscription of the actor that is subscribing.
LEMMA PendingKept ==
    ASSUME Typed, StopsOwned, Numbered, PendingHeard, KeepsHeard,
           Subscribing' => /\ Subscribing /\ ml'.stop = ml.stop /\ ml'.pane = ml.pane
                           /\ ml'.number = ml.number /\ ml'.locked = ml.locked,
           \A p \in Pane : actorOf'[p] # 0 => actorOf'[p] = actorOf[p]
    PROVE  PendingHeard'
<1> SUFFICES ASSUME Subscribing', ml'.locked \/ actorOf'[ml'.pane] = ml'.number
             PROVE  (\/ Heard(ml.stop, ml.pane, ml.number)
                     \/ <<ml.pane, ml.number>> \in robbed \/ BeingClosed(ml.pane))'
  BY DEF PendingHeard
<1>1. /\ Subscribing /\ ml'.stop = ml.stop /\ ml'.pane = ml.pane
      /\ ml'.number = ml.number /\ ml'.locked = ml.locked
  OBVIOUS
<1>2. ml.pane \in Pane /\ ml.number # 0
  <2>1. ml.pane \in Pane /\ ml.number \in 1..made[ml.pane]
    BY <1>1 DEF Numbered, Subscribing
  <2>. QED
    BY <2>1
<1>3. ml.locked \/ actorOf[ml.pane] = ml.number
  BY <1>1, <1>2
<1>4. Heard(ml.stop, ml.pane, ml.number) \/ <<ml.pane, ml.number>> \in robbed \/ BeingClosed(ml.pane)
  BY <1>1, <1>3 DEF PendingHeard
<1>5. ml.stop \in Stop /\ ml.stop.watcher \in Watcher
  BY <1>1 DEF StopsOwned, OwnedBy, Typed, MlTyped
<1>6. ml.stop # NoStop
  BY <1>5, Bounds DEF NoStop
<1>7. \/ session' = ml.stop.watcher
         /\ [id |-> ml.stop.id, pane |-> ml.pane, number |-> ml.number] \in watcher'[session'].subs
      \/ <<ml.pane, ml.number>> \in robbed' \/ BeingClosed(ml.pane)'
  BY <1>2, <1>4, <1>5, <1>6, HeardStays
<1>. QED
  BY <1>1, <1>7 DEF Heard

\* Maps and lists that only shrink are of panes that are or were there.
LEMMA ListsKept ==
    ASSUME Typed, ListsPast, tmux' = tmux,
           ml'.pc = "assign" => ml.pc = "assign" /\ ml'.list = ml.list,
           \A v \in Watcher :
             /\ watcher'[v].map \subseteq watcher[v].map
             /\ hub'[v].pc \in {"assign", "deliver"} =>
                  hub'[v].pc = hub[v].pc /\ hub'[v].list = hub[v].list /\ hub'[v].before = hub[v].before
    PROVE  ListsPast'
<1>1. \A v \in Watcher :
         /\ \A p \in watcher'[v].map : tmux'[p] # "new"
         /\ hub'[v].pc \in {"assign", "deliver"} => \A p \in hub'[v].list : tmux'[p] # "new"
         /\ hub'[v].pc = "assign" => \A p \in hub'[v].before \ hub'[v].list : tmux'[p] = "gone"
  BY DEF ListsPast
<1>2. ml'.pc = "assign" =>
         (\A p \in ml'.list : tmux'[p] # "new") /\ (ml'.list = {} => Live' = {})
  BY DEF ListsPast, Live
<1>. QED
  BY <1>1, <1>2 DEF ListsPast

\* What is heard after the step was heard before, in a watcher that finds it still.
LEMMA FoundKept ==
    ASSUME Typed, StopsOwned, HeardIsFound, tmux' = tmux, lost \subseteq lost',
           session' # 0 => session' = session,
           \A p \in Pane : actorOf'[p] # 0 => actorOf'[p] = actorOf[p],
           \A a \in Actor : actor'[a].stop # NoStop => actor'[a].stop = actor[a].stop,
           session' \in Watcher => watcher'[session'].subs \subseteq watcher[session'].subs,
           \A p \in Pane : BeingClosed(p) /\ actorOf'[p] # 0 => BeingClosed(p)',
           \A p \in Pane \ lost' :
             session' \in Watcher /\ p \in watcher[session].map /\ tmux[p] = "live" =>
               p \in watcher'[session].map,
           \A p \in Pane \ lost' : session' \in Watcher /\ tmux[p] = "gone" /\ Finds(session, p) =>
               (Finds(session, p))' \/ BeingClosed(p)'
    PROVE  HeardIsFound'
<1> SUFFICES ASSUME NEW p \in Pane \ lost', actorOf'[p] # 0,
                    actor'[<<p, actorOf'[p]>>].stop # NoStop, Hears(p)'
             PROVE  (/\ tmux[p] = "live" => p \in watcher[session].map
                     /\ tmux[p] = "gone" => Finds(session, p) \/ BeingClosed(p))'
  BY DEF HeardIsFound
<1>1. actorOf'[p] = actorOf[p] /\ <<p, actorOf[p]>> \in Actor
  BY Bounds DEF Typed
<1> DEFINE stop == actor[<<p, actorOf[p]>>].stop
<1>2. actor'[<<p, actorOf'[p]>>].stop = stop /\ stop \in Stop /\ stop # NoStop
  BY <1>1 DEF Typed
<1>3. stop.watcher \in Watcher
  BY <1>1, <1>2 DEF StopsOwned, OwnedBy
<1>4. session' = stop.watcher
      /\ [id |-> stop.id, pane |-> p, number |-> actorOf[p]] \in watcher'[session'].subs
  BY <1>1, <1>2 DEF Hears, Heard
<1>5. session' = session /\ session' \in Watcher
  BY <1>3, <1>4, Bounds, SMTT(30)
<1>6. Hears(p)
  BY <1>4, <1>5 DEF Hears, Heard
<1>7. /\ tmux[p] = "live" => p \in watcher[session].map
      /\ tmux[p] = "gone" => Finds(session, p) \/ BeingClosed(p)
  BY <1>1, <1>2, <1>6 DEF HeardIsFound
<1>8. CASE tmux[p] = "live"
  BY <1>5, <1>7, <1>8
<1>9. CASE tmux[p] = "gone"
  BY <1>5, <1>7, <1>9
<1>10. CASE tmux[p] \notin {"live", "gone"}
  BY <1>10
<1>. QED
  BY <1>8, <1>9, <1>10

\* A step that is no emission keeps what is known of the lists.
LEMMA OneListKept ==
    ASSUME OneList, UNCHANGED <<emit, shown, overlap>>,
           \A v \in Watcher :
             \/ hub'[v].pc = hub[v].pc /\ hub'[v].current = hub[v].current
             \/ hub[v].pc \notin {"end", "copy", "send"} /\ hub'[v].pc \notin {"end", "copy", "send"}
    PROVE  OneList'
<1> SUFFICES ASSUME ~overlap
             PROVE  (/\ \A v, w \in Watcher : hub[v].pc = "send" /\ hub[w].pc = "send" => v = w
                     /\ \A w \in Watcher : hub[w].pc = "send" => emit.pc # "send"
                     /\ (\A w \in Watcher : hub[w].pc \notin {"end", "copy"}) =>
                         /\ \A w \in Watcher : hub[w].pc = "send" => hub[w].current
                         /\ emit.pc = "send" => emit.current
                         /\ emit.pc # "send" /\ (\A w \in Watcher : hub[w].pc # "send") => shown)'
  BY DEF OneList
<1>1. \A v \in Watcher :
        /\ hub'[v].pc = "send" <=> hub[v].pc = "send"
        /\ hub'[v].pc \in {"end", "copy"} <=> hub[v].pc \in {"end", "copy"}
        /\ hub'[v].pc = "send" => hub'[v].current = hub[v].current
  OBVIOUS
<1>. QED
  BY <1>1 DEF OneList

\* Nobody sends when the number of senders is zero.
LEMMA NobodySends ==
    ASSUME ~(Emitting > 0)
    PROVE  emit.pc # "send" /\ \A v \in Watcher : hub[v].pc # "send"
<1> DEFINE S == {v \in Watcher : hub[v].pc = "send"}
<1>1. IsFiniteSet(S)
  <2>1. IsFiniteSet(Watcher)
    BY FS_Interval, Bounds
  <2>. QED
    BY <2>1, FS_Subset
<1>2. Cardinality(S) \in Nat
  BY <1>1, FS_CardinalityType
<1>3. Cardinality(S) = 0 => S = {}
  BY <1>1, FS_EmptySet
<1>4. Emitting = Cardinality(S) + (IF emit.pc = "send" THEN 1 ELSE 0)
  BY DEF Emitting
<1>. HIDE DEF S
<1>5. emit.pc # "send" /\ Cardinality(S) = 0
  BY <1>2, <1>4
<1>. QED
  BY <1>3, <1>5 DEF S

\* A watcher whose loop the step does not touch finds what it found.
LEMMA FindsKept ==
    ASSUME NEW v \in Watcher, NEW p \in Pane, tmux' = tmux, hub'[v] = hub[v],
           watcher'[v].map = watcher[v].map, watcher'[v].open => watcher[v].open,
           "topology" \in Range(watcher[v].lines) => "topology" \in Range(watcher'[v].lines),
           session' = session, session = v, Finds(session, p)
    PROVE  Finds(session, p)'
  BY DEF Finds, Live

\* What is heard is heard by way of a watcher.
LEMMA HearsInSession ==
    ASSUME Typed, StopsOwned, NEW p \in Pane, actorOf[p] # 0,
           actor[<<p, actorOf[p]>>].stop # NoStop, Hears(p)
    PROVE  session \in Watcher
<1>1. <<p, actorOf[p]>> \in Actor
  BY Bounds DEF Typed
<1>2. OwnedBy(actor[<<p, actorOf[p]>>].stop, p, actorOf[p])
  BY <1>1 DEF StopsOwned
<1>. QED
  BY <1>2 DEF OwnedBy, Hears, Heard

-------------------------------------------------------------------------------
(* Every action keeps the invariant.                                           *)

\* Output of an unknown pane.
LEMMA OutputKeeps ==
    ASSUME RuntimeInv, NEW p \in Pane, Output(p)
    PROVE  RuntimeInv'
<1>0. /\ Typed /\ OneSession /\ Numbered /\ StopsOwned /\ DeafOnlyRobbed
      /\ PendingHeard /\ ListsPast /\ HeardIsFound /\ OneList
  BY DEF RuntimeInv
<1>1. /\ Typed'
      /\ \A v \in Watcher :
           /\ watcher'[v].map = watcher[v].map /\ watcher'[v].subs = watcher[v].subs
           /\ watcher'[v].next = watcher[v].next /\ watcher'[v].open = watcher[v].open
           /\ \A x \in Range(watcher[v].lines) : x \in Range(watcher'[v].lines)
      /\ UNCHANGED <<tmux, session, actor, actorOf, made, items, known, order, hub, ml, emit, shown, overlap, lost, robbed>>
  BY <1>0, OutputEffect DEF tmuxVars, registryVars, listVars
<1>2. OneSession'
  BY <1>0, <1>1, OneSessionKept DEF OneSession
<1>3. Numbered'
  BY <1>0, <1>1, NumberedKept DEF SameActors
<1>4. StopsOwned'
  BY <1>0, <1>1, StopsKept DEF Subscribing
<1>5. DeafOnlyRobbed'
  BY <1>0, <1>1, DeafKept DEF KeepsHeard
<1>6. PendingHeard'
  BY <1>0, <1>1, PendingKept DEF KeepsHeard, Subscribing
<1>7. ListsPast'
  BY <1>0, <1>1, ListsKept
<1>8. HeardIsFound'
  BY <1>0, <1>1, FoundKept DEF BeingClosed, Finds, Live
<1>9. OneList'
  BY <1>0, <1>1, OneListKept
<1>. QED
  BY <1>1, <1>2, <1>3, <1>4, <1>5, <1>6, <1>7, <1>8, <1>9 DEF RuntimeInv

\* A client that ends makes its loop find everything.
LEMMA ClientExitsKeeps ==
    ASSUME RuntimeInv, NEW w \in Watcher, ClientExits(w)
    PROVE  RuntimeInv'
<1>0. /\ Typed /\ OneSession /\ Numbered /\ StopsOwned /\ DeafOnlyRobbed
      /\ PendingHeard /\ ListsPast /\ HeardIsFound /\ OneList
  BY DEF RuntimeInv
<1>1. /\ Typed' /\ watcher'[w].open = FALSE
      /\ \A v \in Watcher :
           /\ watcher'[v].map = watcher[v].map /\ watcher'[v].subs = watcher[v].subs
           /\ watcher'[v].next = watcher[v].next /\ watcher'[v].lines = watcher[v].lines
           /\ v # w => watcher'[v].open = watcher[v].open
      /\ UNCHANGED <<tmux, session, actor, actorOf, made, items, known, order, hub, ml, emit, shown, overlap, lost, robbed>>
  BY <1>0, ClientExitsEffect DEF tmuxVars, registryVars, listVars
<1>2. OneSession'
  BY <1>0, <1>1, OneSessionKept DEF OneSession
<1>3. Numbered'
  BY <1>0, <1>1, NumberedKept DEF SameActors
<1>4. StopsOwned'
  BY <1>0, <1>1, StopsKept DEF Subscribing
<1>5. DeafOnlyRobbed'
  BY <1>0, <1>1, DeafKept DEF KeepsHeard
<1>6. PendingHeard'
  BY <1>0, <1>1, PendingKept DEF KeepsHeard, Subscribing
<1>7. ListsPast'
  BY <1>0, <1>1, ListsKept
<1>8. HeardIsFound'
  BY <1>0, <1>1, FoundKept DEF BeingClosed, Finds, Live
<1>9. OneList'
  BY <1>0, <1>1, OneListKept
<1>. QED
  BY <1>1, <1>2, <1>3, <1>4, <1>5, <1>6, <1>7, <1>8, <1>9 DEF RuntimeInv

\* Adding a connection.
LEMMA AddSubscriberKeeps ==
    ASSUME RuntimeInv, AddSubscriber
    PROVE  RuntimeInv'
<1>0. /\ Typed /\ OneSession /\ Numbered /\ StopsOwned /\ DeafOnlyRobbed
      /\ PendingHeard /\ ListsPast /\ HeardIsFound /\ OneList
  BY DEF RuntimeInv
<1>1. /\ Typed' /\ ml.pc = "add" /\ ml'.pc = "capture"
      /\ ml'.pane = ml.pane /\ ml'.number = ml.number /\ ml'.locked = ml.locked
      /\ \A b \in Actor : actor'[b].stop = actor[b].stop
      /\ UNCHANGED <<tmux, session, watcher, actorOf, made, hub, emit, shown, overlap, lost, robbed>>
  BY <1>0, AddSubscriberEffect DEF tmuxVars, registryVars, listVars
<1>2. OneSession'
  BY <1>0, <1>1, OneSessionKept DEF OneSession
<1>3. Numbered'
  BY <1>0, <1>1, NumberedKept DEF SameActors, Numbered, Subscribing
<1>4. StopsOwned'
  BY <1>0, <1>1, StopsKept DEF Subscribing
<1>5. DeafOnlyRobbed'
  BY <1>0, <1>1, DeafKept DEF KeepsHeard
<1>6. PendingHeard'
  BY <1>0, <1>1, PendingKept DEF KeepsHeard, Subscribing
<1>7. ListsPast'
  BY <1>0, <1>1, ListsKept
<1>8. HeardIsFound'
  BY <1>0, <1>1, FoundKept DEF BeingClosed, Finds, Live
<1>9. OneList'
  BY <1>0, <1>1, OneListKept
<1>. QED
  BY <1>1, <1>2, <1>3, <1>4, <1>5, <1>6, <1>7, <1>8, <1>9 DEF RuntimeInv

\* A capture that fails.
LEMMA CaptureFailsKeeps ==
    ASSUME RuntimeInv, CaptureFails
    PROVE  RuntimeInv'
<1>0. /\ Typed /\ OneSession /\ Numbered /\ StopsOwned /\ DeafOnlyRobbed
      /\ PendingHeard /\ ListsPast /\ HeardIsFound /\ OneList
  BY DEF RuntimeInv
<1>1. /\ Typed' /\ ml.pc = "capture" /\ ml'.pc = "evict" /\ ml'.pane = ml.pane
      /\ ml'.locked = ml.locked
      /\ UNCHANGED <<tmux, session, watcher, actor, actorOf, made, items, known, order, hub, emit, shown, overlap, lost, robbed>>
  BY <1>0, CaptureFailsEffect DEF tmuxVars, registryVars, listVars
<1>2. OneSession'
  BY <1>0, <1>1, OneSessionKept DEF OneSession
<1>3. Numbered'
  BY <1>0, <1>1, NumberedKept DEF SameActors, Numbered, Subscribing
<1>4. StopsOwned'
  BY <1>0, <1>1, StopsKept DEF Subscribing
<1>5. DeafOnlyRobbed'
  BY <1>0, <1>1, DeafKept DEF KeepsHeard
<1>6. PendingHeard'
  BY <1>0, <1>1, PendingKept DEF KeepsHeard, Subscribing
<1>7. ListsPast'
  BY <1>0, <1>1, ListsKept
<1>8. HeardIsFound'
  BY <1>0, <1>1, FoundKept DEF BeingClosed, Finds, Live
<1>9. OneList'
  BY <1>0, <1>1, OneListKept
<1>. QED
  BY <1>1, <1>2, <1>3, <1>4, <1>5, <1>6, <1>7, <1>8, <1>9 DEF RuntimeInv

\* Taking away a connection.
LEMMA UnsubscribeEvictedKeeps ==
    ASSUME RuntimeInv, UnsubscribeEvicted
    PROVE  RuntimeInv'
<1>0. /\ Typed /\ OneSession /\ Numbered /\ StopsOwned /\ DeafOnlyRobbed
      /\ PendingHeard /\ ListsPast /\ HeardIsFound /\ OneList
  BY DEF RuntimeInv
<1>1. /\ Typed' /\ ml'.pc = "idle" /\ ml'.locked = FALSE
      /\ \A b \in Actor : actor'[b].stop = actor[b].stop
      /\ UNCHANGED <<tmux, session, watcher, actorOf, made, hub, emit, shown, overlap, lost, robbed>>
  BY <1>0, UnsubscribeEvictedEffect DEF tmuxVars, registryVars, listVars
<1>2. OneSession'
  BY <1>0, <1>1, OneSessionKept DEF OneSession
<1>3. Numbered'
  BY <1>0, <1>1, NumberedKept DEF SameActors, Numbered, Subscribing
<1>4. StopsOwned'
  BY <1>0, <1>1, StopsKept DEF Subscribing
<1>5. DeafOnlyRobbed'
  BY <1>0, <1>1, DeafKept DEF KeepsHeard
<1>6. PendingHeard'
  BY <1>0, <1>1, PendingKept DEF KeepsHeard, Subscribing
<1>7. ListsPast'
  BY <1>0, <1>1, ListsKept
<1>8. HeardIsFound'
  BY <1>0, <1>1, FoundKept DEF BeingClosed, Finds, Live
<1>9. OneList'
  BY <1>0, <1>1, OneListKept
<1>. QED
  BY <1>1, <1>2, <1>3, <1>4, <1>5, <1>6, <1>7, <1>8, <1>9 DEF RuntimeInv

\* Selecting a pane subscribes nobody.
LEMMA SelectPaneKeeps ==
    ASSUME RuntimeInv, NEW c \in Conn, NEW p \in Pane, SelectPane(c, p)
    PROVE  RuntimeInv'
<1>0. /\ Typed /\ OneSession /\ Numbered /\ StopsOwned /\ DeafOnlyRobbed
      /\ PendingHeard /\ ListsPast /\ HeardIsFound /\ OneList
  BY DEF RuntimeInv
<1>1. /\ Typed' /\ tmux[p] = "live" /\ ml.pc = "idle"
      /\ ml'.pc = "pane" /\ ml'.pane = p /\ ml'.locked = FALSE
      /\ UNCHANGED <<tmux, session, watcher, actor, actorOf, made, hub, emit, shown, overlap, lost, robbed>>
  BY <1>0, SelectPaneEffect DEF tmuxVars, registryVars, listVars
<1>2. OneSession'
  BY <1>0, <1>1, OneSessionKept DEF OneSession
<1>3. Numbered'
  BY <1>0, <1>1, NumberedKept DEF SameActors, Numbered, Subscribing
<1>4. StopsOwned'
  BY <1>0, <1>1, StopsKept DEF Subscribing
<1>5. DeafOnlyRobbed'
  BY <1>0, <1>1, DeafKept DEF KeepsHeard
<1>6. PendingHeard'
  BY <1>0, <1>1, PendingKept DEF KeepsHeard, Subscribing
<1>7. ListsPast'
  BY <1>0, <1>1, ListsKept
<1>8. HeardIsFound'
  BY <1>0, <1>1, FoundKept DEF BeingClosed, Finds, Live
<1>9. OneList'
  BY <1>0, <1>1, OneListKept
<1>. QED
  BY <1>1, <1>2, <1>3, <1>4, <1>5, <1>6, <1>7, <1>8, <1>9 DEF RuntimeInv

\* The actor there is has its number.
LEMMA PaneFoundKeeps ==
    ASSUME RuntimeInv, PaneFound
    PROVE  RuntimeInv'
<1>0. /\ Typed /\ OneSession /\ Numbered /\ StopsOwned /\ DeafOnlyRobbed
      /\ PendingHeard /\ ListsPast /\ HeardIsFound /\ OneList
  BY DEF RuntimeInv
<1>1. /\ Typed' /\ ml.pc = "pane" /\ ml'.pc = "add" /\ actorOf[ml.pane] # 0
      /\ ml.pane \in Pane /\ ml'.pane = ml.pane /\ ml'.number = actorOf[ml.pane]
      /\ ml'.locked = ml.locked
      /\ UNCHANGED <<tmux, session, watcher, actor, actorOf, made, items, known, order, hub, emit, shown, overlap, lost, robbed>>
  BY <1>0, PaneFoundEffect DEF tmuxVars, registryVars, listVars
<1>2. OneSession'
  BY <1>0, <1>1, OneSessionKept DEF OneSession
<1>3. Numbered'
  <2>1. actorOf[ml.pane] \in 1..made[ml.pane]
    BY <1>0, <1>1 DEF Numbered, Typed
  <2>. QED
    BY <1>0, <1>1, <2>1, NumberedKept DEF SameActors, Numbered, Subscribing
<1>4. StopsOwned'
  BY <1>0, <1>1, StopsKept DEF Subscribing
<1>5. DeafOnlyRobbed'
  BY <1>0, <1>1, DeafKept DEF KeepsHeard
<1>6. PendingHeard'
  BY <1>0, <1>1, PendingKept DEF KeepsHeard, Subscribing
<1>7. ListsPast'
  BY <1>0, <1>1, ListsKept
<1>8. HeardIsFound'
  BY <1>0, <1>1, FoundKept DEF BeingClosed, Finds, Live
<1>9. OneList'
  BY <1>0, <1>1, OneListKept
<1>. QED
  BY <1>1, <1>2, <1>3, <1>4, <1>5, <1>6, <1>7, <1>8, <1>9 DEF RuntimeInv

\* The list has what is live.
LEMMA ListPanesKeeps ==
    ASSUME RuntimeInv, ListPanes
    PROVE  RuntimeInv'
<1>0. /\ Typed /\ OneSession /\ Numbered /\ StopsOwned /\ DeafOnlyRobbed
      /\ PendingHeard /\ ListsPast /\ HeardIsFound /\ OneList
  BY DEF RuntimeInv
<1>1. /\ Typed' /\ ml.pc = "list" /\ ml'.pc = "assign" /\ ml'.list = Live
      /\ ml'.pane = ml.pane /\ ml'.number = ml.number /\ ml'.stop = ml.stop
      /\ ml'.locked = ml.locked
      /\ UNCHANGED <<tmux, session, watcher, actor, actorOf, made, items, known, order, hub, emit, shown, overlap, lost, robbed>>
  BY <1>0, ListPanesEffect DEF tmuxVars, registryVars, listVars
<1>2. OneSession'
  BY <1>0, <1>1, OneSessionKept DEF OneSession
<1>3. Numbered'
  BY <1>0, <1>1, NumberedKept DEF SameActors, Numbered, Subscribing
<1>4. StopsOwned'
  BY <1>0, <1>1, StopsKept DEF Subscribing
<1>5. DeafOnlyRobbed'
  BY <1>0, <1>1, DeafKept DEF KeepsHeard
<1>6. PendingHeard'
  BY <1>0, <1>1, PendingKept DEF KeepsHeard, Subscribing
<1>7. ListsPast'
  BY <1>0, <1>1 DEF ListsPast, Live
<1>8. HeardIsFound'
  BY <1>0, <1>1, FoundKept DEF BeingClosed, Finds, Live
<1>9. OneList'
  BY <1>0, <1>1, OneListKept
<1>. QED
  BY <1>1, <1>2, <1>3, <1>4, <1>5, <1>6, <1>7, <1>8, <1>9 DEF RuntimeInv

\* The line is gone, and the comparison that begins has what the map had.
LEMMA TopologySignalKeeps ==
    ASSUME RuntimeInv, NEW w \in Watcher, TopologySignal(w)
    PROVE  RuntimeInv'
<1>0. /\ Typed /\ OneSession /\ Numbered /\ StopsOwned /\ DeafOnlyRobbed
      /\ PendingHeard /\ ListsPast /\ HeardIsFound /\ OneList
  BY DEF RuntimeInv
<1>1. /\ Typed' /\ hub[w].pc = "idle"
      /\ \A v \in Watcher :
           /\ watcher'[v].map = watcher[v].map /\ watcher'[v].subs = watcher[v].subs
           /\ watcher'[v].next = watcher[v].next /\ watcher'[v].open = watcher[v].open
           /\ v # w => watcher'[v] = watcher[v] /\ hub'[v] = hub[v]
      /\ \/ Live = {} /\ hub' = hub
         \/ /\ hub'[w].pc = "assign" /\ hub'[w].before = watcher[w].map
            /\ hub'[w].list = Live /\ hub'[w].todo = {} /\ hub'[w].exit = FALSE
      /\ UNCHANGED <<tmux, session, actor, actorOf, made, items, known, order, ml, emit, shown, overlap, lost, robbed>>
  BY <1>0, TopologySignalEffect DEF tmuxVars, registryVars, listVars
<1>a. \A v \in Watcher : v = w \/ hub'[v] = hub[v]
  BY <1>1
<1>b. hub[w].todo = {}
  BY <1>0, <1>1 DEF OneSession
<1>2. OneSession'
  BY <1>0, <1>1, <1>a, <1>b, OneSessionKept DEF OneSession
<1>3. Numbered'
  BY <1>0, <1>1, <1>a, NumberedKept DEF SameActors
<1>4. StopsOwned'
  BY <1>0, <1>1, <1>a, StopsKept DEF Subscribing
<1>5. DeafOnlyRobbed'
  BY <1>0, <1>1, <1>a, <1>b, DeafKept DEF KeepsHeard
<1>6. PendingHeard'
  BY <1>0, <1>1, <1>a, <1>b, PendingKept DEF KeepsHeard, Subscribing
<1>7. ListsPast'
  <2>1. CASE hub' = hub
    BY <1>0, <1>1, <2>1, ListsKept
  <2>2. CASE hub' # hub
    <3>1. \A p \in Live : tmux[p] # "new"
      BY DEF Live
    <3>2. \A p \in watcher[w].map \ Live : tmux[p] = "gone"
      <4>1. \A p \in watcher[w].map : p \in Pane /\ tmux[p] # "new"
        BY <1>0, WatcherFields DEF ListsPast, Typed
      <4>. QED
        BY <1>0, <4>1 DEF Live, Typed
    <3>3. \A v \in Watcher \ {w} : hub'[v] = hub[v] /\ watcher'[v] = watcher[v]
      BY <1>1
    <3>4. /\ hub'[w].pc = "assign" /\ hub'[w].before = watcher[w].map /\ hub'[w].list = Live
          /\ watcher'[w].map = watcher[w].map
      BY <1>1, <2>2
    <3>. QED
      BY <1>0, <1>1, <3>1, <3>2, <3>3, <3>4 DEF ListsPast, Live
  <2>. QED
    BY <2>1, <2>2
<1>8. HeardIsFound'
  <2>1. ASSUME NEW p \in Pane, session \in Watcher, tmux[p] = "gone", Finds(session, p)
        PROVE  Finds(session, p)'
    <3>1. CASE session # w
      BY <1>1, <2>1, <3>1, FindsKept
    <3>2. CASE session = w /\ Live = {}
      BY <1>1, <3>2 DEF Finds, Live
    <3>3. CASE session = w /\ Live # {}
      <4>1. ~watcher[w].open \/ p \in watcher[w].map
        BY <1>1, <2>1, <3>3 DEF Finds
      <4>2. p \notin Live
        BY <2>1 DEF Live
      <4>3. hub'[w].pc = "assign" /\ hub'[w].before = watcher[w].map /\ hub'[w].list = Live
        BY <1>1, <3>3
      <4>4. watcher'[w].open = watcher[w].open /\ session' = session
        BY <1>1
      <4>. QED
        BY <3>3, <4>1, <4>2, <4>3, <4>4 DEF Finds
    <3>. QED
      BY <3>1, <3>2, <3>3
  <2>2. \A p \in Pane : BeingClosed(p) => BeingClosed(p)'
    BY <1>a, <1>b DEF BeingClosed
  <2>. QED
    BY <1>0, <1>1, <2>1, <2>2, FoundKept
<1>9. OneList'
  BY <1>0, <1>1, <1>a, OneListKept
<1>. QED
  BY <1>1, <1>2, <1>3, <1>4, <1>5, <1>6, <1>7, <1>8, <1>9 DEF RuntimeInv

\* Listing the panes does not tell what has gone.
LEMMA UnknownOutputKeeps ==
    ASSUME RuntimeInv, NEW w \in Watcher, UnknownOutput(w)
    PROVE  RuntimeInv'
<1>0. /\ Typed /\ OneSession /\ Numbered /\ StopsOwned /\ DeafOnlyRobbed
      /\ PendingHeard /\ ListsPast /\ HeardIsFound /\ OneList
  BY DEF RuntimeInv
<1>1. /\ Typed' /\ hub[w].pc = "idle" /\ Head(watcher[w].lines) # "topology"
      /\ \A v \in Watcher :
           /\ watcher'[v].map = watcher[v].map /\ watcher'[v].subs = watcher[v].subs
           /\ watcher'[v].next = watcher[v].next /\ watcher'[v].open = watcher[v].open
           /\ \A x \in Range(watcher[v].lines) :
                x # "topology" \/ x \in Range(watcher'[v].lines)
           /\ v # w => hub'[v] = hub[v]
      /\ \/ hub' = hub
         \/ /\ hub'[w].pc = "deliver" /\ hub'[w].list = Live
            /\ hub'[w].todo = {} /\ hub'[w].exit = FALSE
      /\ UNCHANGED <<tmux, session, actor, actorOf, made, items, known, order, ml, emit, shown, overlap, lost, robbed>>
  BY <1>0, UnknownOutputEffect DEF tmuxVars, registryVars, listVars
<1>a. \A v \in Watcher : v = w \/ hub'[v] = hub[v]
  BY <1>1
<1>b. hub[w].todo = {}
  BY <1>0, <1>1 DEF OneSession
<1>2. OneSession'
  BY <1>0, <1>1, <1>a, <1>b, OneSessionKept DEF OneSession
<1>3. Numbered'
  BY <1>0, <1>1, <1>a, NumberedKept DEF SameActors
<1>4. StopsOwned'
  BY <1>0, <1>1, <1>a, StopsKept DEF Subscribing
<1>5. DeafOnlyRobbed'
  BY <1>0, <1>1, <1>a, <1>b, DeafKept DEF KeepsHeard
<1>6. PendingHeard'
  BY <1>0, <1>1, <1>a, <1>b, PendingKept DEF KeepsHeard, Subscribing
<1>7. ListsPast'
  <2>1. CASE hub' = hub
    BY <1>0, <1>1, <2>1, ListsKept
  <2>2. CASE hub' # hub
    <3>1. \A p \in Live : tmux[p] # "new"
      BY DEF Live
    <3>3. \A v \in Watcher \ {w} : hub'[v] = hub[v]
      BY <1>1
    <3>4. /\ hub'[w].pc = "deliver" /\ hub'[w].list = Live
          /\ \A v \in Watcher : watcher'[v].map = watcher[v].map
      BY <1>1, <2>2
    <3>. QED
      BY <1>0, <1>1, <3>1, <3>3, <3>4 DEF ListsPast, Live
  <2>. QED
    BY <2>1, <2>2
<1>8. HeardIsFound'
  <2>1. ASSUME NEW p \in Pane, session \in Watcher, tmux[p] = "gone", Finds(session, p)
        PROVE  Finds(session, p)'
    <3>1. CASE session # w
      BY <1>1, <2>1, <3>1, FindsKept
    <3>2. CASE session = w
      BY <1>1, <2>1, <3>2 DEF Finds, Live
    <3>. QED
      BY <3>1, <3>2
  <2>2. \A p \in Pane : BeingClosed(p) => BeingClosed(p)'
    BY <1>a, <1>b DEF BeingClosed
  <2>. QED
    BY <1>0, <1>1, <2>1, <2>2, FoundKept
<1>9. OneList'
  BY <1>0, <1>1, <1>a, OneListKept
<1>. QED
  BY <1>1, <1>2, <1>3, <1>4, <1>5, <1>6, <1>7, <1>8, <1>9 DEF RuntimeInv

\* A pane without an actor needs no closing.
LEMMA CloseUnregisteredKeeps ==
    ASSUME RuntimeInv, NEW w \in Watcher, NEW p \in Pane, CloseUnregistered(w, p)
    PROVE  RuntimeInv'
<1>0. /\ Typed /\ OneSession /\ Numbered /\ StopsOwned /\ DeafOnlyRobbed
      /\ PendingHeard /\ ListsPast /\ HeardIsFound /\ OneList
  BY DEF RuntimeInv
<1>1. /\ Typed' /\ hub[w].pc = "close" /\ actorOf[p] = 0 /\ ~ml.locked
      /\ \A v \in Watcher :
           /\ hub'[v].pc = hub[v].pc /\ hub'[v].exit = hub[v].exit
           /\ v # w => hub'[v] = hub[v]
      /\ hub'[w].todo = hub[w].todo \ {p}
      /\ UNCHANGED <<tmux, session, watcher, actor, actorOf, made, items, known, order, ml, emit, shown, overlap, lost, robbed>>
  BY <1>0, CloseUnregisteredEffect DEF tmuxVars, registryVars, listVars
<1>a. \A v \in Watcher : v = w \/ hub'[v] = hub[v]
  BY <1>1
<1>c. \A q \in Pane \ {p} : BeingClosed(q) => BeingClosed(q)'
  BY <1>1 DEF BeingClosed
<1>2. OneSession'
  BY <1>0, <1>1, <1>a, OneSessionKept DEF OneSession
<1>3. Numbered'
  BY <1>0, <1>1, NumberedKept DEF SameActors
<1>4. StopsOwned'
  BY <1>0, <1>1, <1>a, StopsKept DEF Subscribing
<1>5. DeafOnlyRobbed'
  <2>1. \A q \in Pane : actorOf[q] # 0 => q # p /\ (BeingClosed(q) => BeingClosed(q)')
    BY <1>1, <1>c
  <2>. QED
    BY <1>0, <1>1, <2>1 DEF DeafOnlyRobbed, Hears, Heard
<1>6. PendingHeard'
  <2>1. Subscribing => ml.number # 0 /\ ml.pane \in Pane
    BY <1>0 DEF Numbered, Subscribing
  <2>2. Subscribing /\ (ml.locked \/ actorOf[ml.pane] = ml.number) => ml.pane # p
    BY <1>1, <2>1
  <2>3. Subscribing /\ BeingClosed(ml.pane) /\ ml.pane # p => BeingClosed(ml.pane)'
    BY <1>1, <1>c, <2>1
  <2>. QED
    BY <1>0, <1>1, <2>2, <2>3 DEF PendingHeard, Heard, Subscribing
<1>7. ListsPast'
  BY <1>0, <1>1, ListsKept
<1>8. HeardIsFound'
  <2>1. ASSUME NEW q \in Pane, session \in Watcher, Finds(session, q)
        PROVE  Finds(session, q)'
    BY <1>1, <2>1 DEF Finds, Live
  <2>2. \A q \in Pane : BeingClosed(q) /\ actorOf'[q] # 0 => BeingClosed(q)'
    BY <1>1, <1>c
  <2>. QED
    BY <1>0, <1>1, <2>1, <2>2, FoundKept
<1>9. OneList'
  BY <1>0, <1>1, <1>a, OneListKept
<1>. QED
  BY <1>1, <1>2, <1>3, <1>4, <1>5, <1>6, <1>7, <1>8, <1>9 DEF RuntimeInv

\* The last list sent is the last one copied.
LEMMA SendListKeeps ==
    ASSUME RuntimeInv, NEW w \in Watcher, SendList(w)
    PROVE  RuntimeInv'
<1>0. /\ Typed /\ OneSession /\ Numbered /\ StopsOwned /\ DeafOnlyRobbed
      /\ PendingHeard /\ ListsPast /\ HeardIsFound /\ OneList
  BY DEF RuntimeInv
<1>1. /\ Typed' /\ hub[w].pc = "send"
      /\ \A v \in Watcher \ {w} : hub'[v] = hub[v]
      /\ hub'[w].pc = "close" /\ hub'[w].todo = hub[w].todo /\ hub'[w].exit = hub[w].exit
      /\ shown' = hub[w].current
      /\ UNCHANGED <<tmux, session, watcher, actor, actorOf, made, items, known, order, ml, emit, overlap, lost, robbed>>
  BY <1>0, SendListEffect DEF tmuxVars, registryVars, listVars
<1>a. \A v \in Watcher : v = w \/ hub'[v] = hub[v]
  BY <1>1
<1>c. \A v \in Watcher : hub'[v].todo = hub[v].todo /\ hub'[v].exit = hub[v].exit
  BY <1>1
<1>2. OneSession'
  BY <1>0, <1>1, <1>a, <1>c, OneSessionKept DEF OneSession
<1>3. Numbered'
  BY <1>0, <1>1, <1>a, NumberedKept DEF SameActors
<1>4. StopsOwned'
  BY <1>0, <1>1, <1>a, StopsKept DEF Subscribing
<1>5. DeafOnlyRobbed'
  BY <1>0, <1>1, <1>c, DeafKept DEF KeepsHeard
<1>6. PendingHeard'
  BY <1>0, <1>1, <1>c, PendingKept DEF KeepsHeard, Subscribing
<1>7. ListsPast'
  BY <1>0, <1>1, <1>a, ListsKept
<1>8. HeardIsFound'
  <2>1. ASSUME NEW q \in Pane, session \in Watcher, Finds(session, q)
        PROVE  Finds(session, q)'
    BY <1>1, <2>1 DEF Finds, Live
  <2>2. \A q \in Pane : BeingClosed(q) => BeingClosed(q)'
    BY <1>1, <1>a DEF BeingClosed
  <2>. QED
    BY <1>0, <1>1, <2>1, <2>2, FoundKept
<1>9. OneList'
  <2> SUFFICES ASSUME ~overlap PROVE OneList'
    BY <1>1 DEF OneList
  <2>1. /\ \A v \in Watcher \ {w} : hub[v].pc # "send"
        /\ emit.pc # "send"
    BY <1>0, <1>1 DEF OneList
  <2>2. \A v \in Watcher : hub'[v].pc # "send" /\ (hub[v].pc \in {"end", "copy"} => hub'[v].pc = hub[v].pc)
    BY <1>1, <1>a, <2>1
  <2>3. (\A v \in Watcher : hub[v].pc \notin {"end", "copy"}) => hub[w].current
    BY <1>0, <1>1 DEF OneList
  <2>. QED
    BY <1>1, <2>1, <2>2, <2>3 DEF OneList
<1>. QED
  BY <1>1, <1>2, <1>3, <1>4, <1>5, <1>6, <1>7, <1>8, <1>9 DEF RuntimeInv

\* A copy of the current list.
LEMMA CopyListKeeps ==
    ASSUME RuntimeInv, NEW w \in Watcher, CopyList(w)
    PROVE  RuntimeInv'
<1>0. /\ Typed /\ OneSession /\ Numbered /\ StopsOwned /\ DeafOnlyRobbed
      /\ PendingHeard /\ ListsPast /\ HeardIsFound /\ OneList
  BY DEF RuntimeInv
<1>1. /\ Typed' /\ hub[w].pc = "copy"
      /\ \A v \in Watcher \ {w} : hub'[v] = hub[v]
      /\ hub'[w].pc = "send" /\ hub'[w].todo = hub[w].todo /\ hub'[w].exit = hub[w].exit
      /\ hub'[w].current = TRUE
      /\ overlap' = (overlap \/ Emitting > 0)
      /\ UNCHANGED <<tmux, session, watcher, actor, actorOf, made, items, known, order, ml, emit, shown, lost, robbed>>
  BY <1>0, CopyListEffect DEF tmuxVars, registryVars, listVars
<1>a. \A v \in Watcher : v = w \/ hub'[v] = hub[v]
  BY <1>1
<1>c. \A v \in Watcher : hub'[v].todo = hub[v].todo /\ hub'[v].exit = hub[v].exit
  BY <1>1
<1>2. OneSession'
  BY <1>0, <1>1, <1>a, <1>c, OneSessionKept DEF OneSession
<1>3. Numbered'
  BY <1>0, <1>1, <1>a, NumberedKept DEF SameActors
<1>4. StopsOwned'
  BY <1>0, <1>1, <1>a, StopsKept DEF Subscribing
<1>5. DeafOnlyRobbed'
  BY <1>0, <1>1, <1>c, DeafKept DEF KeepsHeard
<1>6. PendingHeard'
  BY <1>0, <1>1, <1>c, PendingKept DEF KeepsHeard, Subscribing
<1>7. ListsPast'
  BY <1>0, <1>1, <1>a, ListsKept
<1>8. HeardIsFound'
  <2>1. ASSUME NEW q \in Pane, session \in Watcher, Finds(session, q)
        PROVE  Finds(session, q)'
    BY <1>1, <2>1 DEF Finds, Live
  <2>2. \A q \in Pane : BeingClosed(q) => BeingClosed(q)'
    BY <1>1, <1>a DEF BeingClosed
  <2>. QED
    BY <1>0, <1>1, <2>1, <2>2, FoundKept
<1>9. OneList'
  <2> SUFFICES ASSUME ~overlap' PROVE OneList'
    BY DEF OneList
  <2>1. emit.pc # "send" /\ (\A v \in Watcher : hub[v].pc # "send")
    BY <1>1, NobodySends
  <2>2. \A v \in Watcher : hub'[v].pc = "send" => v = w
    BY <1>a, <2>1
  <2>. QED
    BY <1>1, <2>1, <2>2 DEF OneList
<1>. QED
  BY <1>1, <1>2, <1>3, <1>4, <1>5, <1>6, <1>7, <1>8, <1>9 DEF RuntimeInv

\* A hook makes every copy an old one, and takes its own.
LEMMA CallHookKeeps ==
    ASSUME RuntimeInv, NEW p \in Pane, CallHook(p)
    PROVE  RuntimeInv'
<1>0. /\ Typed /\ OneSession /\ Numbered /\ StopsOwned /\ DeafOnlyRobbed
      /\ PendingHeard /\ ListsPast /\ HeardIsFound /\ OneList
  BY DEF RuntimeInv
<1>1. /\ Typed' /\ emit.pc = "idle" /\ emit'.pc = "send" /\ emit'.current = TRUE
      /\ \A v \in Watcher :
           /\ hub'[v].pc = hub[v].pc /\ hub'[v].before = hub[v].before
           /\ hub'[v].list = hub[v].list /\ hub'[v].todo = hub[v].todo
           /\ hub'[v].exit = hub[v].exit /\ hub'[v].pane = hub[v].pane
           /\ hub'[v].number = hub[v].number
      /\ overlap' = (overlap \/ Emitting > 0)
      /\ UNCHANGED <<tmux, session, watcher, actor, actorOf, made, known, order, ml, lost, robbed>>
  BY <1>0, CallHookEffect DEF tmuxVars, registryVars, listVars
<1>2. OneSession'
  BY <1>0, <1>1, OneSessionKept DEF OneSession
<1>3. Numbered'
  BY <1>0, <1>1, NumberedKept DEF SameActors
<1>4. StopsOwned'
  BY <1>0, <1>1, StopsKept DEF Subscribing
<1>5. DeafOnlyRobbed'
  BY <1>0, <1>1, DeafKept DEF KeepsHeard
<1>6. PendingHeard'
  BY <1>0, <1>1, PendingKept DEF KeepsHeard, Subscribing
<1>7. ListsPast'
  BY <1>0, <1>1, ListsKept
<1>8. HeardIsFound'
  BY <1>0, <1>1, FoundKept DEF BeingClosed, Finds, Live
<1>9. OneList'
  <2> SUFFICES ASSUME ~overlap' PROVE OneList'
    BY DEF OneList
  <2>1. emit.pc # "send" /\ (\A v \in Watcher : hub[v].pc # "send")
    BY <1>1, NobodySends
  <2>2. \A v \in Watcher : hub'[v].pc # "send"
    BY <1>1, <2>1
  <2>. QED
    BY <1>1, <2>2 DEF OneList
<1>. QED
  BY <1>1, <1>2, <1>3, <1>4, <1>5, <1>6, <1>7, <1>8, <1>9 DEF RuntimeInv

\* The list the hook has copied is sent.
LEMMA HookSendsKeeps ==
    ASSUME RuntimeInv, HookSends
    PROVE  RuntimeInv'
<1>0. /\ Typed /\ OneSession /\ Numbered /\ StopsOwned /\ DeafOnlyRobbed
      /\ PendingHeard /\ ListsPast /\ HeardIsFound /\ OneList
  BY DEF RuntimeInv
<1>1. /\ Typed' /\ emit.pc = "send" /\ emit'.pc = "idle" /\ shown' = emit.current
      /\ UNCHANGED <<tmux, session, watcher, actor, actorOf, made, items, known, order, hub, ml, overlap, lost, robbed>>
  BY <1>0, HookSendsEffect DEF tmuxVars, registryVars, listVars
<1>2. OneSession'
  BY <1>0, <1>1, OneSessionKept DEF OneSession
<1>3. Numbered'
  BY <1>0, <1>1, NumberedKept DEF SameActors
<1>4. StopsOwned'
  BY <1>0, <1>1, StopsKept DEF Subscribing
<1>5. DeafOnlyRobbed'
  BY <1>0, <1>1, DeafKept DEF KeepsHeard
<1>6. PendingHeard'
  BY <1>0, <1>1, PendingKept DEF KeepsHeard, Subscribing
<1>7. ListsPast'
  BY <1>0, <1>1, ListsKept
<1>8. HeardIsFound'
  BY <1>0, <1>1, FoundKept DEF BeingClosed, Finds, Live
<1>9. OneList'
  BY <1>0, <1>1 DEF OneList
<1>. QED
  BY <1>1, <1>2, <1>3, <1>4, <1>5, <1>6, <1>7, <1>8, <1>9 DEF RuntimeInv

\* A new pane is in no map and has no actor.
LEMMA PaneOpensKeeps ==
    ASSUME RuntimeInv, NEW p \in Pane, PaneOpens(p)
    PROVE  RuntimeInv'
<1>0. /\ Typed /\ OneSession /\ Numbered /\ StopsOwned /\ DeafOnlyRobbed
      /\ PendingHeard /\ ListsPast /\ HeardIsFound /\ OneList
  BY DEF RuntimeInv
<1>1. /\ Typed' /\ tmux[p] = "new" /\ Live # {} /\ tmux' = [tmux EXCEPT ![p] = "live"]
      /\ \A v \in Watcher :
           /\ watcher'[v].map = watcher[v].map /\ watcher'[v].subs = watcher[v].subs
           /\ watcher'[v].next = watcher[v].next /\ watcher'[v].open = watcher[v].open
           /\ \A x \in Range(watcher[v].lines) : x \in Range(watcher'[v].lines)
      /\ UNCHANGED <<session, actor, actorOf, made, items, known, order, hub, ml, emit, shown, overlap, lost, robbed>>
  BY <1>0, PaneOpensEffect DEF tmuxVars, registryVars, listVars
<1>2. OneSession'
  BY <1>0, <1>1, OneSessionKept DEF OneSession
<1>3. Numbered'
  BY <1>0, <1>1, NumberedKept DEF SameActors, Typed
<1>4. StopsOwned'
  BY <1>0, <1>1, StopsKept DEF Subscribing
<1>5. DeafOnlyRobbed'
  BY <1>0, <1>1, DeafKept DEF KeepsHeard
<1>6. PendingHeard'
  BY <1>0, <1>1, PendingKept DEF KeepsHeard, Subscribing
<1>7. ListsPast'
  <2>1. \A q \in Pane : (tmux[q] # "new" => tmux'[q] # "new") /\ (tmux[q] = "gone" => tmux'[q] = "gone")
    BY <1>0, <1>1 DEF Typed
  <2>2. \A v \in Watcher : watcher[v].map \subseteq Pane /\ hub[v].list \subseteq Pane
                          /\ hub[v].before \subseteq Pane
    BY <1>0, WatcherFields, HubFields DEF Typed
  <2>3. ml.list \subseteq Pane
    BY <1>0 DEF Typed, MlTyped
  <2>. QED
    BY <1>0, <1>1, <2>1, <2>2, <2>3 DEF ListsPast
<1>8. HeardIsFound'
  <2> SUFFICES ASSUME NEW q \in Pane \ lost', actorOf[q] # 0,
                      actor[<<q, actorOf[q]>>].stop # NoStop, Hears(q)'
               PROVE  (/\ tmux[q] = "live" => q \in watcher[session].map
                       /\ tmux[q] = "gone" => Finds(session, q) \/ BeingClosed(q))'
    BY <1>1 DEF HeardIsFound
  <2>0. actor[<<q, actorOf[q]>>].stop.watcher \in Watcher
    BY <1>0, Bounds DEF StopsOwned, OwnedBy, Typed
  <2>1. q \notin lost /\ Hears(q)
    BY <1>1, <2>0 DEF Hears, Heard
  <2>2. session \in Watcher /\ session' = session
    BY <1>0, <1>1, <2>1, HearsInSession
  <2>3. /\ tmux[q] = "live" => q \in watcher[session].map
        /\ tmux[q] = "gone" => Finds(session, q) \/ BeingClosed(q)
    BY <1>0, <2>1 DEF HeardIsFound
  <2>4. q # p
    BY <1>0, <1>1 DEF Numbered
  <2>5. tmux'[q] = tmux[q]
    BY <1>0, <1>1, <2>4 DEF Typed
  <2>6. Finds(session, q) => Finds(session, q)'
    BY <1>1, <2>2 DEF Finds
  <2>. QED
    BY <1>1, <2>2, <2>3, <2>5, <2>6 DEF BeingClosed
<1>9. OneList'
  BY <1>0, <1>1, OneListKept
<1>. QED
  BY <1>1, <1>2, <1>3, <1>4, <1>5, <1>6, <1>7, <1>8, <1>9 DEF RuntimeInv

\* What was heard and in the map is found by the line, or lost when there is no room.
LEMMA PaneExitsKeeps ==
    ASSUME RuntimeInv, NEW p \in Pane, PaneExits(p)
    PROVE  RuntimeInv'
<1>0. /\ Typed /\ OneSession /\ Numbered /\ StopsOwned /\ DeafOnlyRobbed
      /\ PendingHeard /\ ListsPast /\ HeardIsFound /\ OneList
  BY DEF RuntimeInv
<1>1. /\ Typed' /\ tmux[p] = "live" /\ tmux' = [tmux EXCEPT ![p] = "gone"]
      /\ \A v \in Watcher :
           /\ watcher'[v].map = watcher[v].map /\ watcher'[v].subs = watcher[v].subs
           /\ watcher'[v].next = watcher[v].next /\ watcher'[v].open = watcher[v].open
           /\ \A x \in Range(watcher[v].lines) : x \in Range(watcher'[v].lines)
      /\ session # 0 => \/ p \in lost' \/ ~watcher[session].open
                        \/ "topology" \in Range(watcher'[session].lines)
      /\ lost \subseteq lost'
      /\ UNCHANGED <<session, actor, actorOf, made, items, known, order, hub, ml, emit, shown, overlap, robbed>>
  BY <1>0, PaneExitsEffect DEF tmuxVars, registryVars, listVars
<1>2. OneSession'
  BY <1>0, <1>1, OneSessionKept DEF OneSession
<1>3. Numbered'
  BY <1>0, <1>1, NumberedKept DEF SameActors, Typed
<1>4. StopsOwned'
  BY <1>0, <1>1, StopsKept DEF Subscribing
<1>5. DeafOnlyRobbed'
  BY <1>0, <1>1, DeafKept DEF KeepsHeard
<1>6. PendingHeard'
  BY <1>0, <1>1, PendingKept DEF KeepsHeard, Subscribing
<1>7. ListsPast'
  <2>1. \A q \in Pane : (tmux[q] # "new" => tmux'[q] # "new") /\ (tmux[q] = "gone" => tmux'[q] = "gone")
    BY <1>0, <1>1 DEF Typed
  <2>2. \A v \in Watcher : watcher[v].map \subseteq Pane /\ hub[v].list \subseteq Pane
                          /\ hub[v].before \subseteq Pane
    BY <1>0, WatcherFields, HubFields DEF Typed
  <2>3. ml.list \subseteq Pane /\ Live # {}
    BY <1>0, <1>1 DEF Typed, MlTyped, Live
  <2>. QED
    BY <1>0, <1>1, <2>1, <2>2, <2>3 DEF ListsPast
<1>8. HeardIsFound'
  <2> SUFFICES ASSUME NEW q \in Pane \ lost', actorOf[q] # 0,
                      actor[<<q, actorOf[q]>>].stop # NoStop, Hears(q)'
               PROVE  (/\ tmux[q] = "live" => q \in watcher[session].map
                       /\ tmux[q] = "gone" => Finds(session, q) \/ BeingClosed(q))'
    BY <1>1 DEF HeardIsFound
  <2>0. actor[<<q, actorOf[q]>>].stop.watcher \in Watcher
    BY <1>0, Bounds DEF StopsOwned, OwnedBy, Typed
  <2>1. q \notin lost /\ Hears(q)
    BY <1>1, <2>0 DEF Hears, Heard
  <2>2. session \in Watcher /\ session' = session
    BY <1>0, <1>1, <2>1, HearsInSession
  <2>3. /\ tmux[q] = "live" => q \in watcher[session].map
        /\ tmux[q] = "gone" => Finds(session, q) \/ BeingClosed(q)
    BY <1>0, <2>1 DEF HeardIsFound
  <2>4. CASE q = p
    <3>1. q \in watcher'[session].map /\ tmux'[q] = "gone"
      BY <1>0, <1>1, <2>2, <2>3, <2>4 DEF Typed
    <3>2. ~watcher'[session].open \/ "topology" \in Range(watcher'[session].lines)
      BY <1>1, <2>2, <2>4, Bounds
    <3>. QED
      BY <2>2, <3>1, <3>2 DEF Finds
  <2>5. CASE q # p
    <3>1. tmux'[q] = tmux[q]
      BY <1>0, <1>1, <2>5 DEF Typed
    <3>2. Finds(session, q) => Finds(session, q)'
      <4>1. Live # {}
        BY <1>1 DEF Live
      <4>. QED
        BY <1>1, <2>2, <4>1 DEF Finds
    <3>. QED
      BY <1>1, <2>2, <2>3, <3>1, <3>2 DEF BeingClosed
  <2>. QED
    BY <2>4, <2>5
<1>9. OneList'
  BY <1>0, <1>1, OneListKept
<1>. QED
  BY <1>1, <1>2, <1>3, <1>4, <1>5, <1>6, <1>7, <1>8, <1>9 DEF RuntimeInv

\* What leaves the map was there before the signal, or is lost.
LEMMA AssignAfterSignalKeeps ==
    ASSUME RuntimeInv, NEW w \in Watcher, AssignAfterSignal(w)
    PROVE  RuntimeInv'
<1>0. /\ Typed /\ OneSession /\ Numbered /\ StopsOwned /\ DeafOnlyRobbed
      /\ PendingHeard /\ ListsPast /\ HeardIsFound /\ OneList
  BY DEF RuntimeInv
<1>1. /\ Typed' /\ hub[w].pc = "assign"
      /\ \A v \in Watcher :
           /\ watcher'[v].subs = watcher[v].subs /\ watcher'[v].open = watcher[v].open
           /\ watcher'[v].next = watcher[v].next /\ watcher'[v].lines = watcher[v].lines
           /\ v # w => watcher'[v].map = watcher[v].map /\ hub'[v] = hub[v]
      /\ watcher'[w].map = hub[w].list
      /\ hub'[w].pc = "compare" /\ hub'[w].before = hub[w].before
      /\ hub'[w].todo = hub[w].todo /\ hub'[w].exit = hub[w].exit
      /\ lost' = lost \cup ((watcher[w].map \ hub[w].list) \ hub[w].before)
      /\ UNCHANGED <<tmux, session, actor, actorOf, made, items, known, order, ml, emit, shown, overlap, robbed>>
  BY <1>0, AssignAfterSignalEffect DEF tmuxVars, registryVars, listVars
<1>a. \A v \in Watcher : v = w \/ hub'[v] = hub[v]
  BY <1>1
<1>b. hub[w].todo = {}
  BY <1>0, <1>1 DEF OneSession
<1>2. OneSession'
  BY <1>0, <1>1, <1>a, <1>b, OneSessionKept DEF OneSession
<1>3. Numbered'
  BY <1>0, <1>1, <1>a, NumberedKept DEF SameActors
<1>4. StopsOwned'
  BY <1>0, <1>1, <1>a, StopsKept DEF Subscribing
<1>5. DeafOnlyRobbed'
  BY <1>0, <1>1, <1>a, <1>b, DeafKept DEF KeepsHeard
<1>6. PendingHeard'
  BY <1>0, <1>1, <1>a, <1>b, PendingKept DEF KeepsHeard, Subscribing
<1>7. ListsPast'
  <2>1. \A v \in Watcher \ {w} : hub'[v] = hub[v] /\ watcher'[v].map = watcher[v].map
    BY <1>1
  <2>. QED
    BY <1>0, <1>1, <2>1 DEF ListsPast, Live
<1>8. HeardIsFound'
  <2>1. ASSUME NEW q \in Pane \ lost', session \in Watcher, q \in watcher[session].map,
               tmux[q] = "live"
        PROVE  q \in watcher'[session].map
    <3>1. CASE session # w
      BY <1>1, <2>1, <3>1
    <3>2. CASE session = w
      BY <1>0, <1>1, <2>1, <3>2 DEF ListsPast
    <3>. QED
      BY <3>1, <3>2
  <2>2. ASSUME NEW q \in Pane \ lost', session \in Watcher, tmux[q] = "gone", Finds(session, q)
        PROVE  Finds(session, q)' \/ BeingClosed(q)'
    <3>1. CASE session # w
      BY <1>1, <2>2, <3>1 DEF Finds, Live
    <3>2. CASE session = w
      BY <1>1, <2>2, <3>2 DEF Finds, Live
    <3>. QED
      BY <3>1, <3>2
  <2>3. \A q \in Pane : BeingClosed(q) => BeingClosed(q)'
    BY <1>a, <1>b DEF BeingClosed
  <2>. QED
    BY <1>0, <1>1, <2>1, <2>2, <2>3, FoundKept
<1>9. OneList'
  BY <1>0, <1>1, <1>a, OneListKept
<1>. QED
  BY <1>1, <1>2, <1>3, <1>4, <1>5, <1>6, <1>7, <1>8, <1>9 DEF RuntimeInv

\* What the signal finds is to be closed.
LEMMA CompareMapsKeeps ==
    ASSUME RuntimeInv, NEW w \in Watcher, CompareMaps(w)
    PROVE  RuntimeInv'
<1>0. /\ Typed /\ OneSession /\ Numbered /\ StopsOwned /\ DeafOnlyRobbed
      /\ PendingHeard /\ ListsPast /\ HeardIsFound /\ OneList
  BY DEF RuntimeInv
<1>1. /\ Typed' /\ hub[w].pc = "compare"
      /\ \A v \in Watcher \ {w} : hub'[v] = hub[v]
      /\ hub'[w].pc = "close" /\ hub'[w].exit = FALSE
      /\ hub'[w].todo = hub[w].before \ watcher[w].map
      /\ UNCHANGED <<tmux, session, watcher, actor, actorOf, made, items, known, order, ml, emit, shown, overlap, lost, robbed>>
  BY <1>0, CompareMapsEffect DEF tmuxVars, registryVars, listVars
<1>a. \A v \in Watcher : v = w \/ hub'[v] = hub[v]
  BY <1>1
<1>b. hub[w].todo = {}
  BY <1>0, <1>1 DEF OneSession
<1>2. OneSession'
  BY <1>0, <1>1, <1>a, <1>b, OneSessionKept DEF OneSession
<1>3. Numbered'
  BY <1>0, <1>1, <1>a, NumberedKept DEF SameActors
<1>4. StopsOwned'
  BY <1>0, <1>1, <1>a, StopsKept DEF Subscribing
<1>5. DeafOnlyRobbed'
  BY <1>0, <1>1, <1>a, <1>b, DeafKept DEF KeepsHeard
<1>6. PendingHeard'
  BY <1>0, <1>1, <1>a, <1>b, PendingKept DEF KeepsHeard, Subscribing
<1>7. ListsPast'
  BY <1>0, <1>1, ListsKept
<1>8. HeardIsFound'
  <2>1. ASSUME NEW q \in Pane \ lost', session \in Watcher, q \in watcher[session].map,
               tmux[q] = "live"
        PROVE  q \in watcher'[session].map
    BY <1>1, <2>1
  <2>2. ASSUME NEW q \in Pane \ lost', session \in Watcher, tmux[q] = "gone", Finds(session, q)
        PROVE  Finds(session, q)' \/ BeingClosed(q)'
    <3>1. CASE session # w
      BY <1>1, <2>2, <3>1 DEF Finds, Live
    <3>2. CASE session = w
      BY <1>1, <2>2, <3>2 DEF Finds, Live, BeingClosed
    <3>. QED
      BY <3>1, <3>2
  <2>3. \A q \in Pane : BeingClosed(q) => BeingClosed(q)'
    BY <1>a, <1>b DEF BeingClosed
  <2>. QED
    BY <1>0, <1>1, <2>1, <2>2, <2>3, FoundKept
<1>9. OneList'
  BY <1>0, <1>1, <1>a, OneListKept
<1>. QED
  BY <1>1, <1>2, <1>3, <1>4, <1>5, <1>6, <1>7, <1>8, <1>9 DEF RuntimeInv

\* What leaves the map is lost.
LEMMA AssignAfterOutputKeeps ==
    ASSUME RuntimeInv, NEW w \in Watcher, AssignAfterOutput(w)
    PROVE  RuntimeInv'
<1>0. /\ Typed /\ OneSession /\ Numbered /\ StopsOwned /\ DeafOnlyRobbed
      /\ PendingHeard /\ ListsPast /\ HeardIsFound /\ OneList
  BY DEF RuntimeInv
<1>1. /\ Typed' /\ hub[w].pc = "deliver"
      /\ \A v \in Watcher :
           /\ watcher'[v].subs = watcher[v].subs /\ watcher'[v].open = watcher[v].open
           /\ watcher'[v].next = watcher[v].next /\ watcher'[v].lines = watcher[v].lines
           /\ v # w => watcher'[v].map = watcher[v].map /\ hub'[v] = hub[v]
      /\ watcher'[w].map = hub[w].list
      /\ hub'[w].pc = "idle" /\ hub'[w].todo = {} /\ hub'[w].exit = FALSE
      /\ lost' = lost \cup (watcher[w].map \ hub[w].list)
      /\ UNCHANGED <<tmux, session, actor, actorOf, made, items, known, order, ml, emit, shown, overlap, robbed>>
  BY <1>0, AssignAfterOutputEffect DEF tmuxVars, registryVars, listVars
<1>a. \A v \in Watcher : v = w \/ hub'[v] = hub[v]
  BY <1>1
<1>b. hub[w].todo = {}
  BY <1>0, <1>1 DEF OneSession
<1>2. OneSession'
  BY <1>0, <1>1, <1>a, <1>b, OneSessionKept DEF OneSession
<1>3. Numbered'
  BY <1>0, <1>1, <1>a, NumberedKept DEF SameActors
<1>4. StopsOwned'
  BY <1>0, <1>1, <1>a, StopsKept DEF Subscribing
<1>5. DeafOnlyRobbed'
  BY <1>0, <1>1, <1>a, <1>b, DeafKept DEF KeepsHeard
<1>6. PendingHeard'
  BY <1>0, <1>1, <1>a, <1>b, PendingKept DEF KeepsHeard, Subscribing
<1>7. ListsPast'
  <2>1. \A v \in Watcher \ {w} : hub'[v] = hub[v] /\ watcher'[v].map = watcher[v].map
    BY <1>1
  <2>. QED
    BY <1>0, <1>1, <2>1 DEF ListsPast, Live
<1>8. HeardIsFound'
  <2>1. ASSUME NEW q \in Pane \ lost', session \in Watcher, q \in watcher[session].map,
               tmux[q] = "live"
        PROVE  q \in watcher'[session].map
    <3>1. CASE session # w
      BY <1>1, <2>1, <3>1
    <3>2. CASE session = w
      BY <1>0, <1>1, <2>1, <3>2 DEF ListsPast
    <3>. QED
      BY <3>1, <3>2
  <2>2. ASSUME NEW q \in Pane \ lost', session \in Watcher, tmux[q] = "gone", Finds(session, q)
        PROVE  Finds(session, q)' \/ BeingClosed(q)'
    <3>1. CASE session # w
      BY <1>1, <2>2, <3>1 DEF Finds, Live
    <3>2. CASE session = w
      BY <1>1, <2>2, <3>2 DEF Finds, Live
    <3>. QED
      BY <3>1, <3>2
  <2>3. \A q \in Pane : BeingClosed(q) => BeingClosed(q)'
    BY <1>a, <1>b DEF BeingClosed
  <2>. QED
    BY <1>0, <1>1, <2>1, <2>2, <2>3, FoundKept
<1>9. OneList'
  BY <1>0, <1>1, <1>a, OneListKept
<1>. QED
  BY <1>1, <1>2, <1>3, <1>4, <1>5, <1>6, <1>7, <1>8, <1>9 DEF RuntimeInv

\* A loop that is left has all its subscribers to close.
LEMMA LoopExitsKeeps ==
    ASSUME RuntimeInv, NEW w \in Watcher, LoopExits(w)
    PROVE  RuntimeInv'
<1>0. /\ Typed /\ OneSession /\ Numbered /\ StopsOwned /\ DeafOnlyRobbed
      /\ PendingHeard /\ ListsPast /\ HeardIsFound /\ OneList
  BY DEF RuntimeInv
<1>1. /\ Typed' /\ hub[w].pc = "idle" /\ ~watcher[w].open
      /\ \A v \in Watcher \ {w} : hub'[v] = hub[v]
      /\ hub'[w].pc = "close" /\ hub'[w].exit = TRUE /\ hub'[w].todo = Subscribed(w)
      /\ session' = IF session = w THEN 0 ELSE session
      /\ UNCHANGED <<tmux, watcher, actor, actorOf, made, items, known, order, ml, emit, shown, overlap, lost, robbed>>
  BY <1>0, LoopExitsEffect DEF tmuxVars, registryVars, listVars
<1>a. \A v \in Watcher : v = w \/ hub'[v] = hub[v]
  BY <1>1
<1>b. hub[w].todo = {}
  BY <1>0, <1>1 DEF OneSession
<1>2. OneSession'
  <2>1. \A v \in Watcher : v # 0
    BY Bounds
  <2>. QED
    BY <1>0, <1>1, <1>a, <1>b, <2>1 DEF OneSession
<1>3. Numbered'
  BY <1>0, <1>1, <1>a, NumberedKept DEF SameActors
<1>4. StopsOwned'
  BY <1>0, <1>1, <1>a, StopsKept DEF Subscribing
<1>5. DeafOnlyRobbed'
  <2>1. CASE session # w
    BY <1>0, <1>1, <1>b, <2>1, DeafKept DEF KeepsHeard
  <2>2. CASE session = w
    <3>1. ASSUME NEW q \in Pane, Hears(q) PROVE BeingClosed(q)'
      <4>1. [id |-> actor[<<q, actorOf[q]>>].stop.id, pane |-> q, number |-> actorOf[q]]
              \in watcher[w].subs
        BY <2>2, <3>1, Zenon DEF Hears, Heard
      <4>2. q \in Subscribed(w)
        BY <4>1 DEF Subscribed
      <4>3. q \in hub'[w].todo
        BY <1>1, <4>2, Zenon
      <4>. QED
        BY <4>3 DEF BeingClosed
    <3>2. \A q \in Pane : BeingClosed(q) => BeingClosed(q)'
      BY <1>a, <1>b DEF BeingClosed
    <3>. QED
      BY <1>0, <1>1, <3>1, <3>2 DEF DeafOnlyRobbed
  <2>. QED
    BY <2>1, <2>2
<1>6. PendingHeard'
  <2>1. CASE session # w
    BY <1>0, <1>1, <1>b, <2>1, PendingKept DEF KeepsHeard, Subscribing
  <2>2. CASE session = w
    <3>0. Subscribing => ml.pane \in Pane
      BY <1>0 DEF Numbered, Subscribing
    <3>1. Heard(ml.stop, ml.pane, ml.number) => BeingClosed(ml.pane)'
      BY <1>1, <2>2 DEF Heard, Subscribed, BeingClosed
    <3>2. BeingClosed(ml.pane) => BeingClosed(ml.pane)'
      BY <1>1, <1>a, <1>b DEF BeingClosed
    <3>. QED
      BY <1>0, <1>1, <3>1, <3>2 DEF PendingHeard, Subscribing
  <2>. QED
    BY <2>1, <2>2
<1>7. ListsPast'
  BY <1>0, <1>1, ListsKept
<1>8. HeardIsFound'
  <2>0. \A v \in Watcher : v # 0
    BY Bounds
  <2>1. ASSUME NEW q \in Pane, session' \in Watcher, Finds(session, q)
        PROVE  Finds(session, q)'
    BY <1>1, <2>0, <2>1 DEF Finds, Live
  <2>2. \A q \in Pane : BeingClosed(q) => BeingClosed(q)'
    BY <1>a, <1>b DEF BeingClosed
  <2>3. session' # 0 => session' = session
    BY <1>1
  <2>. QED
    BY <1>0, <1>1, <2>1, <2>2, <2>3, FoundKept
<1>9. OneList'
  BY <1>0, <1>1, <1>a, OneListKept
<1>. QED
  BY <1>1, <1>2, <1>3, <1>4, <1>5, <1>6, <1>7, <1>8, <1>9 DEF RuntimeInv

\* A loop that is done is not of the session.
LEMMA AllClosedKeeps ==
    ASSUME RuntimeInv, NEW w \in Watcher, AllClosed(w)
    PROVE  RuntimeInv'
<1>0. /\ Typed /\ OneSession /\ Numbered /\ StopsOwned /\ DeafOnlyRobbed
      /\ PendingHeard /\ ListsPast /\ HeardIsFound /\ OneList
  BY DEF RuntimeInv
<1>1. /\ Typed' /\ hub[w].pc = "close" /\ hub[w].todo = {}
      /\ \A v \in Watcher \ {w} : hub'[v] = hub[v] /\ watcher'[v] = watcher[v]
      /\ hub'[w].pc = (IF hub[w].exit THEN "done" ELSE "idle")
      /\ hub'[w].todo = {} /\ hub'[w].exit = FALSE
      /\ \/ hub[w].exit /\ watcher'[w] = NoWatcher
         \/ ~hub[w].exit /\ watcher' = watcher
      /\ UNCHANGED <<tmux, session, actor, actorOf, made, items, known, order, ml, emit, shown, overlap, lost, robbed>>
  BY <1>0, AllClosedEffect DEF tmuxVars, registryVars, listVars
<1>a. \A v \in Watcher : v = w \/ hub'[v] = hub[v]
  BY <1>1
<1>c. NoWatcher.subs = {} /\ NoWatcher.open = FALSE /\ NoWatcher.map = {}
  BY DEF NoWatcher
<1>d. session \in Watcher => watcher'[session] = watcher[session]
  BY <1>0, <1>1 DEF OneSession
<1>2. OneSession'
  BY <1>0, <1>1, <1>a, <1>c, OneSessionKept DEF OneSession
<1>3. Numbered'
  BY <1>0, <1>1, <1>a, NumberedKept DEF SameActors
<1>4. StopsOwned'
  BY <1>0, <1>1, <1>a, <1>c, StopsKept DEF Subscribing
<1>5. DeafOnlyRobbed'
  BY <1>0, <1>1, <1>a, <1>d, DeafKept DEF KeepsHeard
<1>6. PendingHeard'
  BY <1>0, <1>1, <1>a, <1>d, PendingKept DEF KeepsHeard, Subscribing
<1>7. ListsPast'
  BY <1>0, <1>1, <1>a, <1>c, ListsKept
<1>8. HeardIsFound'
  <2>1. ASSUME NEW q \in Pane, session \in Watcher, Finds(session, q)
        PROVE  Finds(session, q)'
    BY <1>1, <1>d, <2>1 DEF Finds, Live
  <2>2. \A q \in Pane : BeingClosed(q) => BeingClosed(q)'
    BY <1>1, <1>a DEF BeingClosed
  <2>. QED
    BY <1>0, <1>1, <1>c, <1>d, <2>1, <2>2, FoundKept
<1>9. OneList'
  BY <1>0, <1>1, <1>a, OneListKept
<1>. QED
  BY <1>1, <1>2, <1>3, <1>4, <1>5, <1>6, <1>7, <1>8, <1>9 DEF RuntimeInv

\* The actor is taken from the registry before it is ended.
LEMMA CloseRegisteredKeeps ==
    ASSUME RuntimeInv, NEW w \in Watcher, NEW p \in Pane, CloseRegistered(w, p)
    PROVE  RuntimeInv'
<1>0. /\ Typed /\ OneSession /\ Numbered /\ StopsOwned /\ DeafOnlyRobbed
      /\ PendingHeard /\ ListsPast /\ HeardIsFound /\ OneList
  BY DEF RuntimeInv
<1>1. /\ Typed' /\ hub[w].pc = "close" /\ p \in hub[w].todo /\ ~ml.locked
      /\ \A v \in Watcher \ {w} :
           /\ hub'[v].pc = hub[v].pc /\ hub'[v].before = hub[v].before
           /\ hub'[v].list = hub[v].list /\ hub'[v].todo = hub[v].todo
           /\ hub'[v].exit = hub[v].exit /\ hub'[v].pane = hub[v].pane
           /\ hub'[v].number = hub[v].number
      /\ hub'[w].pc = "end" /\ hub'[w].todo = hub[w].todo \ {p}
      /\ hub'[w].exit = hub[w].exit /\ hub'[w].pane = p /\ hub'[w].number = actorOf[p]
      /\ actorOf' = [actorOf EXCEPT ![p] = 0]
      /\ UNCHANGED <<tmux, session, watcher, actor, made, known, order, ml, overlap, lost, robbed>>
  BY <1>0, CloseRegisteredEffect DEF tmuxVars, registryVars, listVars
<1>a. \A v \in Watcher \ {w} :
        /\ hub'[v].pc = hub[v].pc /\ hub'[v].before = hub[v].before
        /\ hub'[v].list = hub[v].list /\ hub'[v].todo = hub[v].todo
        /\ hub'[v].exit = hub[v].exit
  BY <1>1
<1>c. \A q \in Pane \ {p} : BeingClosed(q) => BeingClosed(q)'
  BY <1>1 DEF BeingClosed
<1>d. actorOf'[p] = 0 /\ \A q \in Pane : actorOf'[q] # 0 => q # p /\ actorOf'[q] = actorOf[q]
  BY <1>0, <1>1 DEF Typed
<1>2. OneSession'
  BY <1>0, <1>1, <1>a, OneSessionKept DEF OneSession
<1>3. Numbered'
  <2>1. /\ \A q \in Pane : actorOf'[q] \in {0, actorOf[q]}
        /\ actorOf'[p] = 0 /\ actorOf[p] \in {0, made[p]} /\ made[p] \in 0..MaxActor
    BY <1>0, <1>1 DEF Typed, Numbered
  <2>2. /\ hub'[w].pane \in Pane /\ hub'[w].number <= made[hub'[w].pane]
        /\ hub'[w].number # 0 => actorOf'[hub'[w].pane] # hub'[w].number
    BY <1>1, <2>1, Bounds
  <2>3. ASSUME NEW v \in Watcher, v # w, hub'[v].pc = "end"
        PROVE  /\ hub'[v].pane \in Pane /\ hub'[v].number <= made[hub'[v].pane]
               /\ hub'[v].number # 0 => actorOf'[hub'[v].pane] # hub'[v].number
    <3>1. hub[v].pc = "end" /\ hub'[v].pane = hub[v].pane /\ hub'[v].number = hub[v].number
      BY <1>1, <2>3
    <3>. QED
      BY <1>0, <2>1, <3>1 DEF Numbered
  <2>4. ml' = ml /\ ml.locked = FALSE
    BY <1>0, <1>1 DEF Typed, MlTyped
  <2>5. /\ \A q \in Pane : actorOf'[q] \in {0, made[q]} /\ (made[q] # 0 => tmux[q] # "new")
        /\ \A a \in Actor : a[2] > made[a[1]] => actor[a].stop = NoStop
        /\ ml.pc # "idle" => ml.pane \in Pane /\ tmux[ml.pane] # "new"
        /\ ml.pc \in {"list", "assign", "add", "capture"} => ml.number \in 1..made[ml.pane]
    BY <1>0, <2>1 DEF Numbered
  <2>. QED
    BY <1>1, <2>2, <2>3, <2>4, <2>5 DEF Numbered
<1>4. StopsOwned'
  BY <1>0, <1>1, <1>a, StopsKept DEF Subscribing
<1>5. DeafOnlyRobbed'
  <2>1. \A q \in Pane : actorOf'[q] # 0 =>
          q # p /\ actorOf'[q] = actorOf[q] /\ (BeingClosed(q) => BeingClosed(q)')
    BY <1>c, <1>d
  <2>. QED
    BY <1>0, <1>1, <2>1 DEF DeafOnlyRobbed, Hears, Heard
<1>6. PendingHeard'
  <2>1. Subscribing => ml.number # 0 /\ ml.pane \in Pane
    BY <1>0 DEF Numbered, Subscribing
  <2>2. Subscribing /\ (ml.locked \/ actorOf'[ml.pane] = ml.number) =>
          ml.pane # p /\ actorOf[ml.pane] = ml.number
    BY <1>1, <1>d, <2>1
  <2>3. Subscribing /\ BeingClosed(ml.pane) /\ ml.pane # p => BeingClosed(ml.pane)'
    BY <1>1, <1>c, <2>1
  <2>. QED
    BY <1>0, <1>1, <2>2, <2>3 DEF PendingHeard, Heard, Subscribing
<1>7. ListsPast'
  BY <1>0, <1>1, <1>a, ListsKept
<1>8. HeardIsFound'
  <2>1. ASSUME NEW q \in Pane, session \in Watcher, Finds(session, q)
        PROVE  Finds(session, q)'
    BY <1>1, <1>a, <2>1 DEF Finds, Live
  <2>2. \A q \in Pane : actorOf'[q] # 0 => actorOf'[q] = actorOf[q] /\ (BeingClosed(q) => BeingClosed(q)')
    BY <1>c, <1>d
  <2>. QED
    BY <1>0, <1>1, <2>1, <2>2, FoundKept
<1>9. OneList'
  <2>1. emit'.pc = emit.pc
    BY <1>0 DEF CloseRegistered, Typed
  <2>2. \A v \in Watcher : hub'[v].pc = "send" => hub[v].pc = "send"
    BY <1>1, <1>a
  <2>. QED
    BY <1>0, <1>1, <2>1, <2>2 DEF OneList
<1>. QED
  BY <1>1, <1>2, <1>3, <1>4, <1>5, <1>6, <1>7, <1>8, <1>9 DEF RuntimeInv

\* What a stop takes: its own subscription, or in a later watcher the one with its number.
StopTakes(w) ==
    LET stop == actor[<<hub[w].pane, hub[w].number>>].stop
        left == {s \in watcher[session].subs : s.id # stop.id}
    IN /\ stop # NoStop /\ session \in Watcher
       /\ \A v \in Watcher :
            /\ watcher'[v].map = watcher[v].map
            /\ watcher'[v].next = watcher[v].next
            /\ watcher'[v].lines = watcher[v].lines
            /\ v # session => watcher'[v] = watcher[v]
       /\ watcher'[session].subs = left
       /\ watcher'[session].open = (watcher[session].open /\ left # {})
       /\ session' = IF left = {} THEN 0 ELSE session
       /\ robbed' = IF stop.watcher = session THEN robbed
                    ELSE robbed \cup {<<s.pane, s.number>> : s \in watcher[session].subs \ left}

\* The stop takes its own subscription, which no registered actor has, or robs others.
LEMMA EndActorKeeps ==
    ASSUME RuntimeInv, NEW w \in Watcher, EndActor(w)
    PROVE  RuntimeInv'
<1>0. /\ Typed /\ OneSession /\ Numbered /\ StopsOwned /\ DeafOnlyRobbed
      /\ PendingHeard /\ ListsPast /\ HeardIsFound /\ OneList
  BY DEF RuntimeInv
<1>1. /\ Typed' /\ hub[w].pc = "end"
      /\ \A v \in Watcher \ {w} : hub'[v] = hub[v]
      /\ hub'[w].pc = "copy" /\ hub'[w].todo = hub[w].todo /\ hub'[w].exit = hub[w].exit
      /\ \/ UNCHANGED <<session, watcher, actor, robbed>>
         \/ /\ hub[w].number # 0
            /\ \A a \in Actor : a # <<hub[w].pane, hub[w].number>> => actor'[a] = actor[a]
            /\ <<hub[w].pane, hub[w].number>> \in Actor =>
                 actor'[<<hub[w].pane, hub[w].number>>].stop = NoStop
            /\ UNCHANGED <<session, watcher, robbed>> \/ StopTakes(w)
      /\ UNCHANGED <<tmux, actorOf, made, known, ml, emit, shown, overlap, lost>>
  BY <1>0, EndActorEffect DEF StopTakes, tmuxVars, registryVars, listVars
<1>h. /\ hub[w].pc = "end" /\ hub'[w].pc = "copy" /\ hub'[w].todo = hub[w].todo
      /\ hub'[w].exit = hub[w].exit
      /\ UNCHANGED <<tmux, actorOf, made, known, ml, emit, shown, overlap, lost>>
  BY <1>1
<1>i. UNCHANGED <<session, watcher, robbed>> \/ StopTakes(w)
  BY <1>1
<1>a. \A v \in Watcher : v = w \/ hub'[v] = hub[v]
  BY <1>1
<1>b. \A a \in Actor : actor'[a].stop # NoStop => actor'[a].stop = actor[a].stop
  BY <1>1, SMTT(30)
<1>c. robbed \subseteq robbed'
  BY <1>i DEF StopTakes
<1>d. \A q \in Pane : BeingClosed(q) => BeingClosed(q)'
  BY <1>h, <1>a, SMTT(30) DEF BeingClosed
<1>f. session' # 0 => session' = session
  BY <1>i DEF StopTakes
<1>g. \A v \in Watcher :
        /\ watcher'[v].map = watcher[v].map /\ watcher'[v].next = watcher[v].next
        /\ watcher'[v].lines = watcher[v].lines /\ watcher'[v].subs \subseteq watcher[v].subs
        /\ watcher'[v].open => watcher[v].open
  <2>1. CASE UNCHANGED <<session, watcher, robbed>>
    BY <2>1
  <2>2. CASE StopTakes(w)
    <3> SUFFICES ASSUME NEW v \in Watcher
                 PROVE  /\ watcher'[v].map = watcher[v].map /\ watcher'[v].next = watcher[v].next
                        /\ watcher'[v].lines = watcher[v].lines
                        /\ watcher'[v].subs \subseteq watcher[v].subs
                        /\ watcher'[v].open => watcher[v].open
      OBVIOUS
    <3>1. CASE v = session
      BY <2>2, <3>1 DEF StopTakes
    <3>2. CASE v # session
      BY <2>2, <3>2 DEF StopTakes
    <3>. QED
      BY <3>1, <3>2
  <2>. QED
    BY <1>i, <2>1, <2>2
<1>e. ASSUME NEW q \in Pane, NEW n, NEW stop, stop.watcher \in Watcher,
             hub[w].number # 0 => ~(q = hub[w].pane /\ n = hub[w].number),
             session = stop.watcher,
             [id |-> stop.id, pane |-> q, number |-> n] \in watcher[session].subs
      PROVE  \/ /\ session' = stop.watcher
                /\ [id |-> stop.id, pane |-> q, number |-> n] \in watcher'[session'].subs
             \/ <<q, n>> \in robbed'
  <2> DEFINE s == [id |-> stop.id, pane |-> q, number |-> n]
             theirs == actor[<<hub[w].pane, hub[w].number>>].stop
  <2>1. CASE UNCHANGED <<session, watcher, robbed>>
    BY <1>e, <2>1, Zenon
  <2>2. CASE ~UNCHANGED <<session, watcher, robbed>> /\ s.id # theirs.id
    <3>1. s \in {r \in watcher[session].subs : r.id # theirs.id}
      <4> HIDE DEF theirs
      <4>. QED
        BY <1>e, <2>2, Zenon
    <3>2. watcher'[session].subs = {r \in watcher[session].subs : r.id # theirs.id}
          /\ session' = IF {r \in watcher[session].subs : r.id # theirs.id} = {} THEN 0
                        ELSE session
      <4>1. StopTakes(w)
        BY <1>i, <2>2
      <4>. QED
        BY <4>1, Zenon DEF StopTakes
    <3>. QED
      <4>1. session' = session
        BY <3>1, <3>2
      <4>. QED
        BY <1>e, <3>1, <3>2, <4>1, Zenon
  <2>3. CASE ~UNCHANGED <<session, watcher, robbed>> /\ s.id = theirs.id /\ theirs.watcher # session
    <3>1. s \in watcher[session].subs /\ s.id = theirs.id /\ s.pane = q /\ s.number = n
      BY <1>e, <2>3, ZenonT(60)
    <3>2. robbed' = robbed \cup {<<r.pane, r.number>> : r \in
             watcher[session].subs \ {r \in watcher[session].subs : r.id # theirs.id}}
      BY <1>i, <2>3, ZenonT(60) DEF StopTakes
    <3>. QED
      BY <3>1, <3>2
  <2>4. CASE ~UNCHANGED <<session, watcher, robbed>> /\ s.id = theirs.id /\ theirs.watcher = session
    <3>1. hub[w].number # 0 /\ theirs # NoStop
      BY <1>1, <2>4 DEF StopTakes
    <3>2. <<hub[w].pane, hub[w].number>> \in Actor
      <4>1. hub[w].number \in 0..MaxActor
        BY <1>0, HubFields DEF Typed
      <4>2. hub[w].pane \in Pane
        BY <1>0, <1>h DEF Numbered
      <4>. QED
        BY <3>1, <4>1, <4>2, Bounds
    <3>3. OwnedBy(theirs, hub[w].pane, hub[w].number)
      BY <1>0, <3>1, <3>2 DEF StopsOwned
    <3>. QED
      BY <1>e, <2>4, <3>1, <3>3 DEF OwnedBy
  <2>. QED
    BY <2>1, <2>2, <2>3, <2>4
<1>2. OneSession'
  <2>1. \A v \in Watcher : v # 0
    BY Bounds
  <2>2. \A v \in Watcher : watcher'[v].open => watcher[v].open /\ session' = session
    <3>1. CASE UNCHANGED <<session, watcher, robbed>>
      BY <1>0, <3>1 DEF OneSession
    <3>2. CASE StopTakes(w)
      <4> SUFFICES ASSUME NEW v \in Watcher, watcher'[v].open
                   PROVE  watcher[v].open /\ session' = session
        OBVIOUS
      <4>1. watcher[v].open
        BY <1>g
      <4>2. session = v
        BY <1>0, <4>1 DEF OneSession
      <4>3. watcher'[session].open => session' = session
        BY <3>2, Zenon DEF StopTakes
      <4>. QED
        BY <4>1, <4>2, <4>3
    <3>. QED
      BY <1>i, <3>1, <3>2
  <2>3. \A v \in Watcher : /\ hub'[v].exit = hub[v].exit /\ hub'[v].todo = hub[v].todo
                           /\ v # w => hub'[v].pc = hub[v].pc
    BY <1>h, <1>a
  <2>. QED
    <3> SUFFICES ASSUME NEW v \in Watcher
                 PROVE  /\ hub'[v].pc \in {"none", "done"} \/ hub'[v].exit => session' # v
                        /\ watcher'[v].open => session' = v
                        /\ hub'[v].todo # {} => hub'[v].pc \in {"close", "end", "copy", "send"}
      BY DEF OneSession
    <3>0. /\ hub[v].pc \in {"none", "done"} \/ hub[v].exit => session # v
          /\ watcher[v].open => session = v
          /\ hub[v].todo # {} => hub[v].pc \in {"close", "end", "copy", "send"}
      BY <1>0 DEF OneSession
    <3>1. hub'[v].pc \in {"none", "done"} \/ hub'[v].exit => session' # v
      <4>1. v = w => hub'[v].pc = "copy"
        BY <1>h
      <4>. QED
        BY <1>f, <2>1, <2>3, <3>0, <4>1
    <3>2. watcher'[v].open => session' = v
      BY <2>2, <3>0
    <3>3. hub'[v].todo # {} => hub'[v].pc \in {"close", "end", "copy", "send"}
      <4>1. v = w => hub'[v].pc = "copy"
        BY <1>h
      <4>. QED
        BY <2>3, <3>0, <4>1
    <3>. QED
      BY <3>1, <3>2, <3>3
<1>3. Numbered'
  BY <1>0, <1>h, <1>a, <1>b, NumberedKept DEF SameActors
<1>4. StopsOwned'
  BY <1>0, <1>h, <1>a, <1>b, <1>g, StopsKept DEF Subscribing
<1>5. DeafOnlyRobbed'
  <2> SUFFICES ASSUME NEW q \in Pane, actorOf[q] # 0, actor'[<<q, actorOf[q]>>].stop # NoStop
               PROVE  (Hears(q) \/ <<q, actorOf[q]>> \in robbed \/ BeingClosed(q))'
    BY <1>h DEF DeafOnlyRobbed
  <2>1. <<q, actorOf[q]>> \in Actor /\ actor'[<<q, actorOf[q]>>].stop = actor[<<q, actorOf[q]>>].stop
    BY <1>0, <1>b, Bounds DEF Typed
  <2>2. OwnedBy(actor[<<q, actorOf[q]>>].stop, q, actorOf[q])
    BY <1>0, <2>1 DEF StopsOwned
  <2>3. Hears(q) \/ <<q, actorOf[q]>> \in robbed \/ BeingClosed(q)
    BY <1>0, <2>1 DEF DeafOnlyRobbed
  <2>4. hub[w].number # 0 => ~(q = hub[w].pane /\ actorOf[q] = hub[w].number)
    BY <1>0, <1>h DEF Numbered
  <2> DEFINE stop == actor[<<q, actorOf[q]>>].stop
  <2>5. Hears(q) =>
          \/ /\ session' = stop.watcher
             /\ [id |-> stop.id, pane |-> q, number |-> actorOf[q]] \in watcher'[session'].subs
          \/ <<q, actorOf[q]>> \in robbed'
    <3>1. stop.watcher \in Watcher
      BY <2>2 DEF OwnedBy
    <3>2. Hears(q) => /\ session = stop.watcher
                      /\ [id |-> stop.id, pane |-> q, number |-> actorOf[q]] \in watcher[session].subs
      BY DEF Hears, Heard
    <3>. HIDE DEF stop
    <3>. QED
      BY <1>e, <2>4, <3>1, <3>2
  <2>. QED
    BY <1>h, <1>c, <1>d, <2>1, <2>3, <2>5 DEF Hears, Heard
<1>6. PendingHeard'
  <2> SUFFICES ASSUME Subscribing, ml.locked \/ actorOf[ml.pane] = ml.number
               PROVE  (\/ Heard(ml.stop, ml.pane, ml.number)
                       \/ <<ml.pane, ml.number>> \in robbed \/ BeingClosed(ml.pane))'
    BY <1>h DEF PendingHeard, Subscribing
  <2>1. ml.pane \in Pane /\ ml.number # 0 /\ OwnedBy(ml.stop, ml.pane, ml.number)
    BY <1>0 DEF Numbered, Subscribing, StopsOwned
  <2>2. hub[w].number # 0 => ~(ml.pane = hub[w].pane /\ ml.number = hub[w].number)
    BY <1>0, <1>h DEF Numbered
  <2>3. Heard(ml.stop, ml.pane, ml.number) =>
          Heard(ml.stop, ml.pane, ml.number)' \/ <<ml.pane, ml.number>> \in robbed'
    <3>1. Heard(ml.stop, ml.pane, ml.number) =>
            \/ /\ session' = ml.stop.watcher
               /\ [id |-> ml.stop.id, pane |-> ml.pane, number |-> ml.number]
                    \in watcher'[session'].subs
            \/ <<ml.pane, ml.number>> \in robbed'
      BY <1>e, <2>1, <2>2 DEF Heard, OwnedBy
    <3>. QED
      BY <1>h, <3>1 DEF Heard
  <2>4. Heard(ml.stop, ml.pane, ml.number) \/ <<ml.pane, ml.number>> \in robbed
        \/ BeingClosed(ml.pane)
    BY <1>0 DEF PendingHeard
  <2>. QED
    BY <1>h, <1>c, <1>d, <2>1, <2>3, <2>4
<1>7. ListsPast'
  BY <1>0, <1>h, <1>a, <1>g, ListsKept
<1>8. HeardIsFound'
  <2>1. ASSUME NEW q \in Pane, session' \in Watcher, Finds(session, q)
        PROVE  Finds(session, q)'
    <3>1. session' = session /\ Live' = Live
      BY <1>h, <2>1, <1>f, Bounds DEF Live
    <3>. QED
      BY <1>h, <1>a, <1>g, <2>1, <3>1 DEF Finds
  <2>2. \A q \in Pane : session' \in Watcher => watcher'[session].map = watcher[session].map
    BY <1>f, <1>g, Bounds
  <2>3. session' \in Watcher => watcher'[session'].subs \subseteq watcher[session'].subs
    BY <1>g
  <2>. QED
    BY <1>0, <1>h, <1>b, <1>d, <1>f, <2>1, <2>2, <2>3, FoundKept
<1>9. OneList'
  <2>1. \A v \in Watcher : hub'[v].pc = "send" => hub[v].pc = "send" /\ v # w
    BY <1>h, <1>a
  <2>. QED
    BY <1>0, <1>h, <2>1 DEF OneList
<1>. QED
  BY <1>1, <1>2, <1>3, <1>4, <1>5, <1>6, <1>7, <1>8, <1>9 DEF RuntimeInv

SubscribesIn(w) ==
    /\ session' = w
    /\ \A v \in Watcher \ {w} : watcher'[v] = watcher[v] /\ hub'[v] = hub[v]
    /\ ml'.stop = [watcher |-> w, id |-> watcher'[w].next]
    /\ [id |-> watcher'[w].next, pane |-> ml'.pane, number |-> ml'.number] \in watcher'[w].subs
    /\ \/ /\ session = w /\ hub' = hub
          /\ watcher'[w].next = watcher[w].next + 1
          /\ watcher'[w].subs = watcher[w].subs \cup
               {[id |-> watcher'[w].next, pane |-> ml'.pane, number |-> ml'.number]}
          /\ watcher'[w].map = watcher[w].map
          /\ watcher'[w].lines = watcher[w].lines
          /\ watcher'[w].open = watcher[w].open
       \/ /\ session = 0 /\ hub[w].pc = "none" /\ hub'[w] = HubIdle
          /\ watcher'[w].next = 1
          /\ watcher'[w].subs = {[id |-> watcher'[w].next, pane |-> ml'.pane, number |-> ml'.number]}
          /\ watcher'[w].map = Live

\* A subscription's number is new in its watcher, so it is nobody else's.
LEMMA SubscribesKeeps ==
    ASSUME Typed, Typed', OneSession, Numbered, StopsOwned, DeafOnlyRobbed, ListsPast, HeardIsFound,
           OneList, ml'.pc = "list", NEW w \in Watcher, SubscribesIn(w),
           UNCHANGED <<tmux, actor, actorOf, emit, shown, overlap, lost, robbed>>
    PROVE  /\ OneSession' /\ StopsOwned' /\ DeafOnlyRobbed' /\ PendingHeard'
           /\ ListsPast' /\ HeardIsFound' /\ OneList'
<1>0. /\ \A v \in Watcher : v # 0
      /\ HubIdle.pc = "idle" /\ HubIdle.todo = {} /\ HubIdle.exit = FALSE
  BY Bounds, HubIdleState
<1>1. \A v \in Watcher :
        /\ v = w /\ session = 0 => hub[v].pc = "none" /\ hub'[v] = HubIdle
        /\ v # w \/ session # 0 => hub'[v] = hub[v]
        /\ hub[v].todo \subseteq hub'[v].todo
  BY <1>0 DEF SubscribesIn, OneSession
<1>2. session # 0 => session = w
  BY <1>0 DEF SubscribesIn
<1> DEFINE id == watcher'[w].next
<1> DEFINE mine == [id |-> id, pane |-> ml'.pane, number |-> ml'.number]
<1>3. \A v \in Watcher : v # w => watcher'[v] = watcher[v]
  BY DEF SubscribesIn
<1>4. /\ session' = w /\ mine \in watcher'[w].subs /\ ml'.stop = [watcher |-> w, id |-> id]
      /\ session = w => /\ id = watcher[w].next + 1
                        /\ watcher'[w].subs = watcher[w].subs \cup {mine}
                        /\ watcher'[w].map = watcher[w].map
                        /\ watcher'[w].lines = watcher[w].lines
                        /\ watcher'[w].open = watcher[w].open
      /\ session = 0 => /\ id = 1 /\ watcher'[w].subs = {mine} /\ watcher'[w].map = Live
  BY <1>0 DEF SubscribesIn
<1>5. session = w \/ session = 0
  BY DEF SubscribesIn
<1>6. watcher[w].next \in Nat /\ watcher'[w].next \in Nat
      /\ watcher[w].subs \subseteq Subscription
  BY WatcherFields DEF Typed
<1>. HIDE DEF id
<1>7. /\ mine.id = id /\ mine.pane = ml'.pane /\ mine.number = ml'.number /\ id \in Nat
  BY <1>6 DEF id
<1>. HIDE DEF mine
<1>8. OneSession'
  <2>1. \A v \in Watcher : hub'[v].pc \in {"none", "done"} \/ hub'[v].exit => session' # v
    BY <1>0, <1>1, <1>4, <1>5 DEF OneSession
  <2>2. \A v \in Watcher : watcher'[v].open => session' = v
    BY <1>0, <1>3, <1>4, <1>5 DEF OneSession
  <2>3. \A v \in Watcher : hub'[v].todo # {} => hub'[v].pc \in {"close", "end", "copy", "send"}
    BY <1>0, <1>1, <1>5 DEF OneSession
  <2>. QED
    BY <2>1, <2>2, <2>3 DEF OneSession
<1>9. hub'[w].pc \notin {"none", "done"}
  BY <1>4, <1>8 DEF OneSession
<1>10. \A v \in Watcher : \A s \in watcher'[v].subs : s.id <= watcher'[v].next
  <2>1. ASSUME NEW s \in watcher'[w].subs PROVE s.id <= id
    <3>1. CASE s = mine
      BY <1>7, <3>1
    <3>2. CASE s # mine
      <4>1. session = w /\ s \in watcher[w].subs /\ s.id <= watcher[w].next /\ s.id \in Nat
        BY <1>4, <1>5, <1>6, <2>1, <3>2, SubFields DEF StopsOwned
      <4>. QED
        BY <1>4, <1>6, <4>1
    <3>. QED
      BY <3>1, <3>2
  <2>. QED
    BY <1>3, <2>1 DEF StopsOwned, id
<1>11. ASSUME NEW a \in Actor, actor[a].stop # NoStop
       PROVE  /\ (OwnedBy(actor[a].stop, a[1], a[2]))' /\ actor[a].stop.id \in Nat
              /\ actor[a].stop.watcher = w => session = w /\ actor[a].stop.id <= watcher[w].next
  <2> DEFINE stop == actor[a].stop
  <2>1. OwnedBy(stop, a[1], a[2]) /\ stop \in Stop /\ stop.id \in Nat
    BY <1>11 DEF StopsOwned, Typed, Stop
  <2>. HIDE DEF stop
  <2>2. CASE stop.watcher # w
    <3>1. watcher'[stop.watcher] = watcher[stop.watcher] /\ hub'[stop.watcher] = hub[stop.watcher]
      BY <1>1, <1>3, <2>1, <2>2 DEF OwnedBy
    <3>2. /\ stop.watcher \in Watcher /\ hub'[stop.watcher].pc # "none"
          /\ hub'[stop.watcher].pc # "done" => stop.id <= watcher'[stop.watcher].next
          /\ \A s \in watcher'[stop.watcher].subs :
               s.id = stop.id => s.pane = a[1] /\ s.number = a[2]
      BY <2>1, <3>1 DEF OwnedBy
    <3>3. actor'[a].stop = stop
      BY DEF stop
    <3>. QED
      BY <2>1, <2>2, <3>2, <3>3 DEF OwnedBy, stop
  <2>3. CASE stop.watcher = w
    <3>1. session = w /\ hub'[w] = hub[w] /\ stop.id <= watcher[w].next
      BY <1>0, <1>1, <1>5, <1>9, <2>1, <2>3 DEF OwnedBy
    <3>2. stop.id <= id /\ stop.id # id
      BY <1>4, <1>6, <2>1, <3>1
    <3>3. ASSUME NEW s \in watcher'[w].subs, s.id = stop.id
          PROVE  s.pane = a[1] /\ s.number = a[2]
      <4>1. s \in watcher[w].subs
        BY <1>4, <1>7, <3>1, <3>2, <3>3
      <4>. QED
        BY <2>1, <2>3, <3>3, <4>1 DEF OwnedBy
    <3>4. actor'[a].stop = stop
      BY DEF stop
    <3>. QED
      BY <1>9, <2>1, <2>3, <3>1, <3>2, <3>3, <3>4 DEF OwnedBy, stop, id
  <2>. QED
    BY <2>2, <2>3
<1>12. StopsOwned'
  <2>1. ASSUME NEW s \in watcher'[w].subs, s.id = id
        PROVE  s.pane = ml'.pane /\ s.number = ml'.number
    <3>1. CASE s = mine
      BY <1>7, <3>1
    <3>2. CASE s # mine
      <4>1. session = w /\ s \in watcher[w].subs /\ s.id <= watcher[w].next /\ s.id \in Nat
        BY <1>4, <1>5, <1>6, <2>1, <3>2, SubFields DEF StopsOwned
      <4>. QED
        BY <1>4, <1>6, <2>1, <4>1
    <3>. QED
      BY <3>1, <3>2
  <2>2. (OwnedBy(ml.stop, ml.pane, ml.number))'
    BY <1>4, <1>7, <1>9, <2>1 DEF OwnedBy, id
  <2>3. \A a \in Actor : actor'[a].stop # NoStop => (OwnedBy(actor[a].stop, a[1], a[2]))'
    BY <1>11
  <2>. QED
    BY <1>10, <2>2, <2>3 DEF StopsOwned
<1>13. \A q \in Pane : BeingClosed(q) => BeingClosed(q)'
  BY <1>1 DEF BeingClosed
<1>14. ASSUME NEW q \in Pane, actorOf[q] # 0, actor[<<q, actorOf[q]>>].stop # NoStop
       PROVE  Hears(q) <=> Hears(q)'
  <2> DEFINE stop == actor[<<q, actorOf[q]>>].stop
  <2>1. <<q, actorOf[q]>> \in Actor
    BY <1>14, Bounds DEF Typed
  <2>2. /\ stop.watcher = w => session = w /\ stop.id <= watcher[w].next
        /\ stop.id \in Nat /\ stop.watcher \in Watcher
    BY <1>11, <1>14, <2>1 DEF StopsOwned, OwnedBy
  <2>. HIDE DEF stop
  <2> DEFINE s == [id |-> stop.id, pane |-> q, number |-> actorOf[q]]
  <2>3. stop.watcher = w => s # mine
    BY <1>4, <1>6, <1>7, <2>2
  <2>4. Hears(q) <=> session = stop.watcher /\ s \in watcher[session].subs
    BY DEF Hears, Heard, s, stop
  <2>5. Hears(q)' <=> session' = stop.watcher /\ s \in watcher'[session'].subs
    BY DEF Hears, Heard, s, stop
  <2>. HIDE DEF s
  <2>6. CASE stop.watcher = w
    BY <1>4, <2>2, <2>3, <2>4, <2>5, <2>6
  <2>7. CASE stop.watcher # w
    BY <1>0, <1>4, <1>5, <2>2, <2>4, <2>5, <2>7
  <2>. QED
    BY <2>6, <2>7
<1>15. DeafOnlyRobbed'
  BY <1>13, <1>14 DEF DeafOnlyRobbed
<1>16. PendingHeard'
  <2>1. Heard(ml.stop, ml.pane, ml.number)'
    BY <1>4 DEF Heard, mine
  <2>. QED
    BY <2>1 DEF PendingHeard
<1>17. ListsPast'
  <2>1. \A v \in Watcher : \A p \in watcher'[v].map : tmux[p] # "new"
    BY <1>3, <1>4, <1>5 DEF ListsPast, Live
  <2>2. \A v \in Watcher : hub'[v].pc \in {"assign", "deliver"} => hub'[v] = hub[v]
    BY <1>0, <1>1, <1>5
  <2>. QED
    BY <2>1, <2>2 DEF ListsPast
<1>18. HeardIsFound'
  <2> SUFFICES ASSUME NEW q \in Pane \ lost, actorOf[q] # 0,
                      actor[<<q, actorOf[q]>>].stop # NoStop, Hears(q)'
               PROVE  (/\ tmux[q] = "live" => q \in watcher[session].map
                       /\ tmux[q] = "gone" => Finds(session, q) \/ BeingClosed(q))'
    BY DEF HeardIsFound
  <2>1. Hears(q) /\ session = w
    BY <1>0, <1>2, <1>5, <1>14, HearsInSession
  <2>2. /\ tmux[q] = "live" => q \in watcher[session].map
        /\ tmux[q] = "gone" => Finds(session, q) \/ BeingClosed(q)
    BY <2>1 DEF HeardIsFound
  <2>3. hub'[w] = hub[w] /\ session' = session
    BY <1>0, <1>1, <1>4, <2>1
  <2>4. Finds(session, q) => Finds(session, q)'
    BY <1>4, <2>1, <2>3 DEF Finds, Live
  <2>. QED
    BY <1>4, <1>13, <2>1, <2>2, <2>3, <2>4
<1>19. OneList'
  BY <1>0, <1>1, <1>5, OneListKept
<1>. QED
  BY <1>8, <1>12, <1>15, <1>16, <1>17, <1>18, <1>19

\* An actor without a stop subscribes.
LEMMA EnsureRealtimeKeeps ==
    ASSUME RuntimeInv, EnsureRealtime
    PROVE  RuntimeInv'
<1>0. /\ Typed /\ OneSession /\ Numbered /\ StopsOwned /\ DeafOnlyRobbed
      /\ PendingHeard /\ ListsPast /\ HeardIsFound /\ OneList
  BY DEF RuntimeInv
<1>1. /\ Typed' /\ ml.pc = "capture" /\ ml.pane \in Pane /\ ml'.number = ml.number
      /\ ml'.pane = ml.pane /\ ml'.pc = "list" /\ ml'.locked = FALSE
      /\ UNCHANGED <<tmux, actor, actorOf, made, emit, shown, overlap, lost, robbed>>
  BY <1>0, EnsureRealtimeEffect DEF registryVars, listVars
<1>2. PICK w \in Watcher : SubscribesIn(w)
  BY <1>0, EnsureRealtimeEffect DEF SubscribesIn
<1>3. /\ OneSession' /\ StopsOwned' /\ DeafOnlyRobbed' /\ PendingHeard'
      /\ ListsPast' /\ HeardIsFound' /\ OneList'
  BY <1>0, <1>1, <1>2, SubscribesKeeps
<1>4. Numbered'
  <2>1. \A v \in Watcher : hub'[v].pc = "end" => hub'[v] = hub[v]
    BY <1>2, HubIdleState DEF SubscribesIn
  <2>. QED
    BY <1>0, <1>1, <2>1, NumberedKept DEF SameActors, Numbered
<1>. QED
  BY <1>1, <1>3, <1>4 DEF RuntimeInv

\* A new actor has a new number, so no stop and no loop is about it.
LEMMA PaneCreatedKeeps ==
    ASSUME RuntimeInv, PaneCreated
    PROVE  RuntimeInv'
<1>0. /\ Typed /\ OneSession /\ Numbered /\ StopsOwned /\ DeafOnlyRobbed
      /\ PendingHeard /\ ListsPast /\ HeardIsFound /\ OneList
  BY DEF RuntimeInv
<1> DEFINE p == ml.pane
<1> DEFINE n == made[ml.pane] + 1
<1>1. /\ Typed' /\ ml.pc = "pane" /\ actorOf[p] = 0 /\ p \in Pane
      /\ made' = [made EXCEPT ![p] = n] /\ ml'.number = n /\ n \in 1..MaxActor /\ ml'.pane = p
      /\ UNCHANGED <<tmux, actor, emit, shown, overlap, lost, robbed>>
  BY <1>0, PaneCreatedEffect DEF listVars
<1>2. \/ /\ ml'.pc = "add" /\ ml'.locked = ml.locked /\ actorOf' = [actorOf EXCEPT ![p] = n]
         /\ UNCHANGED <<session, watcher, hub>>
      \/ /\ ml'.pc = "list" /\ ml'.locked = TRUE /\ UNCHANGED actorOf
         /\ \E w \in Watcher : SubscribesIn(w)
  BY <1>0, PaneCreatedEffect DEF SubscribesIn
<1>3. made[p] \in Nat /\ n = made[p] + 1 /\ tmux[p] # "new" /\ ~ml.locked
  BY <1>0, <1>1 DEF Typed, Numbered, Subscribing, MlTyped
<1>. HIDE DEF n, p
<1>4. /\ \A q \in Pane : q # p => made'[q] = made[q]
      /\ made'[p] = n /\ n > made[p] /\ n # 0
  BY <1>0, <1>1, <1>3 DEF Typed
<1>5. \A a \in Actor : a[2] > made'[a[1]] => actor'[a].stop = NoStop
  <2> SUFFICES ASSUME NEW a \in Actor, a[2] > made'[a[1]] PROVE actor[a].stop = NoStop
    BY <1>1
  <2>1. a[1] \in Pane /\ a[2] \in Nat /\ made[a[1]] \in Nat
    BY <1>0, Bounds DEF Typed
  <2>2. a[2] > made[a[1]]
    BY <1>1, <1>3, <1>4, <2>1
  <2>. QED
    BY <1>0, <2>2 DEF Numbered
<1>6. ASSUME NEW v \in Watcher, hub[v].pc = "end"
      PROVE  /\ hub[v].pane \in Pane /\ hub[v].number <= made'[hub[v].pane]
             /\ hub[v].pane = p => hub[v].number # n
  <2>1. hub[v].pane \in Pane /\ hub[v].number <= made[hub[v].pane] /\ hub[v].number \in Nat
    BY <1>0, <1>6, Bounds, HubFields DEF Numbered, Typed
  <2>. QED
    BY <1>1, <1>3, <1>4, <2>1
<1>7. CASE ml'.pc = "add"
  <2>1. /\ ml'.locked = ml.locked /\ actorOf' = [actorOf EXCEPT ![p] = n]
        /\ UNCHANGED <<session, watcher, hub>>
    BY <1>2, <1>7
  <2>2. /\ \A q \in Pane : q # p => actorOf'[q] = actorOf[q]
        /\ actorOf'[p] = n
    BY <1>0, <1>1, <2>1 DEF Typed
  <2>3. Numbered'
    <3>1. \A q \in Pane : actorOf'[q] \in {0, made'[q]} /\ (made'[q] # 0 => tmux'[q] # "new")
      BY <1>0, <1>1, <1>3, <1>4, <2>2 DEF Numbered
    <3>2. \A v \in Watcher : hub[v].pc = "end" => actorOf'[hub[v].pane] # hub[v].number \/ hub[v].number = 0
      BY <1>0, <1>6, <2>2 DEF Numbered
    <3>3. ~ml'.locked /\ ml'.number \in 1..made'[ml'.pane]
      BY <1>1, <1>3, <1>4, <2>1
    <3>. QED
      BY <1>1, <1>3, <1>5, <1>6, <1>7, <2>1, <3>1, <3>2, <3>3 DEF Numbered
  <2>4. actor[<<p, n>>].stop = NoStop
    <3>1. <<p, n>> \in Actor
      BY <1>1, Bounds DEF n
    <3>. QED
      BY <1>0, <1>3, <1>4, <3>1 DEF Numbered
  <2>5. ~Subscribing'
    BY <1>7 DEF Subscribing
  <2>6. OneSession' /\ StopsOwned' /\ ListsPast' /\ OneList' /\ PendingHeard'
    BY <1>0, <1>1, <1>7, <2>1, <2>5
       DEF OneSession, StopsOwned, OwnedBy, ListsPast, OneList, PendingHeard
  <2>7. \A q \in Pane : actorOf'[q] # 0 /\ actor'[<<q, actorOf'[q]>>].stop # NoStop =>
          q # p /\ actorOf'[q] = actorOf[q]
    BY <1>1, <2>2, <2>4
  <2>8. DeafOnlyRobbed'
    BY <1>0, <1>1, <2>1, <2>7 DEF DeafOnlyRobbed, Hears, Heard, BeingClosed
  <2>9. HeardIsFound'
    <3> SUFFICES ASSUME NEW q \in Pane \ lost, actorOf'[q] # 0,
                        actor'[<<q, actorOf'[q]>>].stop # NoStop, Hears(q)'
                 PROVE  (/\ tmux[q] = "live" => q \in watcher[session].map
                         /\ tmux[q] = "gone" => Finds(session, q) \/ BeingClosed(q))'
      BY <1>1 DEF HeardIsFound
    <3>1. actorOf'[q] = actorOf[q] /\ Hears(q)
      BY <1>1, <2>1, <2>7 DEF Hears, Heard
    <3>2. /\ tmux[q] = "live" => q \in watcher[session].map
          /\ tmux[q] = "gone" => Finds(session, q) \/ BeingClosed(q)
      BY <1>0, <1>1, <3>1 DEF HeardIsFound
    <3>. QED
      BY <1>1, <2>1, <3>2 DEF BeingClosed, Finds, Live
  <2>. QED
    BY <1>1, <2>3, <2>6, <2>8, <2>9 DEF RuntimeInv
<1>8. CASE ml'.pc = "list"
  <2>1. ml'.locked = TRUE /\ UNCHANGED actorOf /\ \E w \in Watcher : SubscribesIn(w)
    BY <1>2, <1>8
  <2>2. PICK w \in Watcher : SubscribesIn(w)
    BY <2>1
  <2>3. /\ OneSession' /\ StopsOwned' /\ DeafOnlyRobbed' /\ PendingHeard'
        /\ ListsPast' /\ HeardIsFound' /\ OneList'
    BY <1>0, <1>1, <1>8, <2>1, <2>2, SubscribesKeeps
  <2>4. Numbered'
    <3>1. \A v \in Watcher : hub'[v].pc = "end" => hub'[v] = hub[v] /\ hub[v].pc = "end"
      BY <2>2, HubIdleState DEF SubscribesIn
    <3>2. \A q \in Pane : actorOf'[q] \in {0, made'[q]} /\ (made'[q] # 0 => tmux'[q] # "new")
      BY <1>0, <1>1, <1>3, <1>4, <2>1 DEF Numbered
    <3>3. ml'.number \in 1..made'[ml'.pane] /\ ml'.number = made'[ml'.pane] /\ actorOf'[ml'.pane] = 0
      BY <1>1, <1>3, <1>4, <2>1
    <3>4. \A v \in Watcher : hub'[v].pc = "end" =>
            /\ hub'[v].pane \in Pane /\ hub'[v].number <= made'[hub'[v].pane]
            /\ hub'[v].number # 0 => actorOf'[hub'[v].pane] # hub'[v].number
            /\ ~(ml'.pane = hub'[v].pane /\ ml'.number = hub'[v].number)
      BY <1>0, <1>1, <1>6, <2>1, <3>1 DEF Numbered
    <3>. QED
      BY <1>1, <1>3, <1>5, <1>8, <3>2, <3>3, <3>4 DEF Numbered, Subscribing
  <2>. QED
    BY <1>1, <2>3, <2>4 DEF RuntimeInv
<1>. QED
  BY <1>2, <1>7, <1>8

\* The actor that has subscribed gets its stop; what leaves the map is lost.
LEMMA AssignPanesKeeps ==
    ASSUME RuntimeInv, AssignPanes
    PROVE  RuntimeInv'
<1>0. /\ Typed /\ OneSession /\ Numbered /\ StopsOwned /\ DeafOnlyRobbed
      /\ PendingHeard /\ ListsPast /\ HeardIsFound /\ OneList
  BY DEF RuntimeInv
<1> DEFINE w == ml.stop.watcher
<1> DEFINE m == ml.pane
<1> DEFINE a == <<ml.pane, ml.number>>
<1>1. ml.pc = "assign" /\ Subscribing
  BY DEF AssignPanes, Subscribing
<1>2. /\ OwnedBy(ml.stop, m, ml.number) /\ w \in Watcher /\ ml.number \in 1..made[m]
      /\ ml.stop \in Stop
  BY <1>0, <1>1 DEF StopsOwned, OwnedBy, Numbered, Subscribing, Typed, MlTyped
<1>3. /\ Typed' /\ a \in Actor /\ m \in Pane
      /\ \A v \in Watcher :
           /\ watcher'[v].subs = watcher[v].subs /\ watcher'[v].open = watcher[v].open
           /\ watcher'[v].next = watcher[v].next /\ watcher'[v].lines = watcher[v].lines
           /\ v # w => watcher'[v].map = watcher[v].map
      /\ \/ ml.list = {} /\ UNCHANGED <<watcher, lost>>
         \/ /\ ml.list # {} /\ watcher'[w].map = ml.list
            /\ lost' = lost \cup Swallowed(w, ml.list) \cup ({m} \ ml.list)
      /\ actor'[a].stop = ml.stop /\ \A b \in Actor \ {a} : actor'[b] = actor[b]
      /\ actorOf' = IF ml.locked THEN [actorOf EXCEPT ![m] = ml.number] ELSE actorOf
      /\ ml'.pc \in {"add", "evict"} /\ (ml'.pc = "add" => ml.locked) /\ ml'.locked = FALSE
      /\ ml'.pane = ml.pane /\ ml'.number = ml.number
      /\ UNCHANGED <<tmux, session, made, hub, emit, shown, overlap, robbed>>
  BY <1>0, <1>2, AssignPanesEffect DEF listVars
<1>4. ~Subscribing' /\ ml'.pc # "assign"
  BY <1>3 DEF Subscribing
<1>5. OneSession'
  BY <1>0, <1>3 DEF OneSession
<1>6. \A q \in Pane : actorOf'[q] # 0 =>
        \/ q = m /\ actorOf'[q] = ml.number /\ (ml.locked \/ actorOf[m] = ml.number)
        \/ actorOf'[q] = actorOf[q] /\ <<q, actorOf[q]>> \in Actor \ {a}
  <2> SUFFICES ASSUME NEW q \in Pane, actorOf'[q] # 0
               PROVE  \/ q = m /\ actorOf'[q] = ml.number /\ (ml.locked \/ actorOf[m] = ml.number)
                      \/ actorOf'[q] = actorOf[q] /\ <<q, actorOf[q]>> \in Actor \ {a}
    OBVIOUS
  <2>1. CASE q = m /\ ml.locked
    BY <1>0, <1>3, <2>1 DEF Typed
  <2>2. CASE ~(q = m /\ ml.locked)
    <3>1. actorOf'[q] = actorOf[q]
      BY <1>0, <1>3, <2>2 DEF Typed
    <3>2. <<q, actorOf[q]>> \in Actor
      BY <1>0, <3>1, Bounds DEF Typed
    <3>3. <<q, actorOf[q]>> = a => q = m /\ actorOf[q] = ml.number
      OBVIOUS
    <3>. QED
      BY <3>1, <3>2, <3>3
  <2>. QED
    BY <2>1, <2>2
<1>7. Numbered'
  <2>1. ml.locked => ml.number = made[m] /\ actorOf[m] = 0
    BY <1>0 DEF Numbered
  <2>2. \A q \in Pane : actorOf'[q] \in {0, made'[q]} /\ (made'[q] # 0 => tmux'[q] # "new")
    <3>1. \A q \in Pane : actorOf[q] \in {0, made[q]} /\ (made[q] # 0 => tmux[q] # "new")
      BY <1>0 DEF Numbered
    <3>2. ASSUME NEW q \in Pane, actorOf'[q] # actorOf[q]
          PROVE  ml.locked /\ q = m /\ actorOf'[q] = ml.number
      BY <1>0, <1>3, <3>2 DEF Typed
    <3>. QED
      BY <1>3, <2>1, <3>1, <3>2
  <2>3. \A b \in Actor : b[2] > made'[b[1]] => actor'[b].stop = NoStop
    <3>1. ~(a[2] > made[a[1]])
      BY <1>0, <1>2, <1>3 DEF Typed
    <3>. QED
      BY <1>0, <1>3, <3>1 DEF Numbered
  <2>4. /\ ml'.pane \in Pane /\ tmux'[ml'.pane] # "new" /\ ml'.number \in 1..made'[ml'.pane]
    BY <1>0, <1>1, <1>2, <1>3 DEF Numbered
  <2>5. ASSUME NEW v \in Watcher, hub[v].pc = "end"
        PROVE  /\ hub[v].pane \in Pane /\ hub[v].number <= made[hub[v].pane]
               /\ hub[v].number # 0 => actorOf'[hub[v].pane] # hub[v].number
    <3>1. /\ hub[v].pane \in Pane /\ hub[v].number <= made[hub[v].pane]
          /\ hub[v].number # 0 =>
               /\ actorOf[hub[v].pane] # hub[v].number
               /\ ~(ml.locked /\ m = hub[v].pane /\ ml.number = hub[v].number)
      BY <1>0, <2>5 DEF Numbered
    <3>2. \/ actorOf'[hub[v].pane] = actorOf[hub[v].pane]
          \/ ml.locked /\ hub[v].pane = m /\ actorOf'[hub[v].pane] = ml.number
      BY <1>0, <1>3, <3>1 DEF Typed
    <3>. QED
      BY <3>1, <3>2
  <2>. QED
    BY <1>3, <2>2, <2>3, <2>4, <2>5 DEF Numbered
<1>8. StopsOwned'
  <2>1. (OwnedBy(actor[a].stop, a[1], a[2]))'
    BY <1>2, <1>3 DEF OwnedBy
  <2>2. \A b \in Actor \ {a} : actor'[b].stop # NoStop => (OwnedBy(actor[b].stop, b[1], b[2]))'
    BY <1>0, <1>3 DEF StopsOwned, OwnedBy
  <2>3. \A v \in Watcher : \A s \in watcher'[v].subs : s.id <= watcher'[v].next
    BY <1>0, <1>3 DEF StopsOwned
  <2>4. ASSUME NEW b \in Actor, actor'[b].stop # NoStop
        PROVE  (OwnedBy(actor[b].stop, b[1], b[2]))'
    <3>1. CASE b = a
      BY <1>3, <2>1, <3>1
    <3>2. CASE b # a
      BY <2>2, <2>4, <3>2
    <3>. QED
      BY <3>1, <3>2
  <2>. QED
    BY <1>4, <2>3, <2>4 DEF StopsOwned
<1>9. PendingHeard'
  BY <1>4 DEF PendingHeard
<1>10. ListsPast'
  BY <1>0, <1>1, <1>3, <1>4 DEF ListsPast
<1>11. OneList'
  BY <1>0, <1>3, OneListKept
<1>12. ASSUME NEW q \in Pane, actorOf'[q] # 0, actorOf'[q] = actorOf[q],
              <<q, actorOf[q]>> \in Actor \ {a}
       PROVE  actor'[<<q, actorOf'[q]>>].stop = actor[<<q, actorOf[q]>>].stop
              /\ actor[<<q, actorOf[q]>>].stop \in Stop
  BY <1>0, <1>3, <1>12 DEF Typed
<1>13. DeafOnlyRobbed'
  <2> SUFFICES ASSUME NEW q \in Pane, actorOf'[q] # 0, actor'[<<q, actorOf'[q]>>].stop # NoStop
               PROVE  (Hears(q) \/ <<q, actorOf[q]>> \in robbed \/ BeingClosed(q))'
    BY DEF DeafOnlyRobbed
  <2>0. session \in Watcher => watcher'[session].subs = watcher[session].subs
    BY <1>3
  <2>1. CASE q = m /\ actorOf'[q] = ml.number /\ (ml.locked \/ actorOf[m] = ml.number)
    <3>1. Heard(ml.stop, m, ml.number) \/ a \in robbed \/ BeingClosed(m)
      BY <1>0, <1>1, <2>1 DEF PendingHeard
    <3>2. actor'[<<q, actorOf'[q]>>].stop = ml.stop
      BY <1>3, <2>1
    <3>. QED
      BY <1>2, <1>3, <2>0, <2>1, <3>1, <3>2 DEF Hears, Heard, BeingClosed
  <2>2. CASE actorOf'[q] = actorOf[q] /\ <<q, actorOf[q]>> \in Actor \ {a}
    <3>1. actor'[<<q, actorOf'[q]>>].stop = actor[<<q, actorOf[q]>>].stop
      BY <1>12, <2>2
    <3>2. Hears(q) \/ <<q, actorOf[q]>> \in robbed \/ BeingClosed(q)
      BY <1>0, <2>2, <3>1 DEF DeafOnlyRobbed
    <3>3. actor[<<q, actorOf[q]>>].stop.watcher \in Watcher
      BY <1>0, <2>2, <3>1 DEF StopsOwned, OwnedBy
    <3>4. Hears(q) => Hears(q)'
      BY <1>3, <2>0, <2>2, <3>1, <3>3 DEF Hears, Heard
    <3>. QED
      BY <1>3, <2>2, <3>2, <3>4 DEF BeingClosed
  <2>. QED
    BY <1>6, <2>1, <2>2
<1>14. HeardIsFound'
  <2> SUFFICES ASSUME NEW q \in Pane \ lost', actorOf'[q] # 0,
                      actor'[<<q, actorOf'[q]>>].stop # NoStop, Hears(q)'
               PROVE  (/\ tmux[q] = "live" => q \in watcher[session].map
                       /\ tmux[q] = "gone" => Finds(session, q) \/ BeingClosed(q))'
    BY DEF HeardIsFound
  <2>1. CASE q = m /\ actorOf'[q] = ml.number
    <3>1. session = w
      BY <1>3, <2>1 DEF Hears, Heard
    <3>2. CASE ml.list = {}
      <4>1. Live = {}
        BY <1>0, <1>1, <3>2 DEF ListsPast
      <4>. QED
        BY <1>3, <4>1 DEF Live, Finds
    <3>3. CASE ml.list # {}
      <4>1. q \in ml.list /\ watcher'[w].map = ml.list /\ q \in Live
        BY <1>3, <2>1, <3>3 DEF Swallowed
      <4>. QED
        BY <1>3, <3>1, <4>1 DEF Live
    <3>. QED
      BY <3>2, <3>3
  <2>2. CASE actorOf'[q] = actorOf[q] /\ <<q, actorOf[q]>> \in Actor \ {a}
    <3>1. actor'[<<q, actorOf'[q]>>].stop = actor[<<q, actorOf[q]>>].stop
      BY <1>12, <2>2
    <3>2. actor[<<q, actorOf[q]>>].stop.watcher \in Watcher
      BY <1>0, <2>2, <3>1 DEF StopsOwned, OwnedBy
    <3>3. session = actor[<<q, actorOf[q]>>].stop.watcher
      BY <1>3, <3>1 DEF Hears, Heard
    <3>4. Hears(q)
      BY <1>3, <2>2, <3>1, <3>2, <3>3 DEF Hears, Heard
    <3>5. q \notin lost
      BY <1>3
    <3>6. /\ tmux[q] = "live" => q \in watcher[session].map
          /\ tmux[q] = "gone" => Finds(session, q) \/ BeingClosed(q)
      BY <1>0, <2>2, <3>1, <3>4, <3>5 DEF HeardIsFound
    <3>7. CASE session # w \/ ml.list = {}
      <4>1. watcher'[session].map = watcher[session].map
        BY <1>3, <3>2, <3>3, <3>7
      <4>. QED
        BY <1>3, <3>2, <3>3, <3>6, <4>1 DEF BeingClosed, Finds, Live
    <3>8. CASE session = w /\ ml.list # {}
      <4>1. /\ watcher'[session].map = ml.list
            /\ q \in watcher[session].map => q \in ml.list
            /\ tmux[q] = "gone" => q \notin ml.list
        BY <1>3, <3>8 DEF Swallowed, Live
      <4>2. Finds(session, q) /\ tmux[q] = "gone" => Finds(session, q)'
        BY <1>3, <3>2, <3>3, <4>1 DEF Finds, Live
      <4>. QED
        BY <1>3, <3>6, <4>1, <4>2 DEF BeingClosed
    <3>. QED
      BY <3>7, <3>8
  <2>. QED
    BY <1>6, <2>1, <2>2
<1>. QED
  BY <1>3, <1>5, <1>7, <1>8, <1>9, <1>10, <1>11, <1>13, <1>14 DEF RuntimeInv

-------------------------------------------------------------------------------
(* The beginning, and all steps together.                                      *)

\* In the beginning every pane is registered, subscribed, in the map and shown.
LEMMA InitHasInv ==
    ASSUME Init
    PROVE  RuntimeInv
<1>1. PICK panes \in (SUBSET Pane) \ {{}} :
        \E id \in Bijection(panes, 1..Cardinality(panes)) :
         /\ tmux = [p \in Pane |-> IF p \in panes THEN "live" ELSE "new"]
         /\ session = 1
         /\ watcher = [w \in Watcher |-> IF w # 1 THEN NoWatcher ELSE
              [map |-> panes, subs |-> {[id |-> id[p], pane |-> p, number |-> 1] : p \in panes},
               next |-> Cardinality(panes), lines |-> <<>>, open |-> TRUE]]
         /\ hub = [w \in Watcher |-> IF w = 1 THEN HubIdle ELSE [HubIdle EXCEPT !.pc = "none"]]
         /\ actor = [a \in Actor |-> [subs |-> {}, stop |->
              IF a[1] \in panes /\ a[2] = 1 THEN [watcher |-> 1, id |-> id[a[1]]] ELSE NoStop]]
         /\ actorOf = [p \in Pane |-> IF p \in panes THEN 1 ELSE 0]
         /\ made = actorOf /\ known = {} /\ order = [c \in Conn |-> <<>>]
         /\ shown = TRUE /\ ml = MlIdle /\ emit = EmitIdle
         /\ lost = {} /\ robbed = {} /\ overlap = FALSE
  BY ZenonT(60) DEF Init
<1> DEFINE last == Cardinality(panes)
<1>2. PICK id \in Bijection(panes, 1..last) :
         /\ watcher = [w \in Watcher |-> IF w # 1 THEN NoWatcher ELSE
              [map |-> panes, subs |-> {[id |-> id[p], pane |-> p, number |-> 1] : p \in panes},
               next |-> last, lines |-> <<>>, open |-> TRUE]]
         /\ actor = [a \in Actor |-> [subs |-> {}, stop |->
              IF a[1] \in panes /\ a[2] = 1 THEN [watcher |-> 1, id |-> id[a[1]]] ELSE NoStop]]
  BY <1>1
<1>3. last \in Nat
  BY FS_Subset, FS_CardinalityType, RuntimePanesAssumption
<1>. HIDE DEF last
<1>4. /\ id \in [panes -> 1..last] /\ \A p, q \in panes : id[p] = id[q] => p = q
  BY DEF Bijection, Injection, IsInjective
<1>5. panes \subseteq Pane /\ panes # {} /\ Live = panes
  BY <1>1 DEF Live
<1> DEFINE subs == {[id |-> id[p], pane |-> p, number |-> 1] : p \in panes}
<1>6. subs \subseteq Subscription
  BY <1>3, <1>4, <1>5, Bounds DEF Subscription
<1>7. \A s \in subs : /\ s.pane \in panes /\ s.number = 1 /\ s.id = id[s.pane]
  OBVIOUS
<1>8. \A p \in panes : [id |-> id[p], pane |-> p, number |-> 1] \in subs
  OBVIOUS
<1>. HIDE DEF subs
<1> DEFINE first == [map |-> panes, subs |-> subs, next |-> last, lines |-> <<>>, open |-> TRUE]
<1>9. /\ watcher[1] = first /\ \A v \in Watcher \ {1} : watcher[v] = NoWatcher
      /\ watcher = [w \in Watcher |-> IF w # 1 THEN NoWatcher ELSE first]
  BY <1>2, Bounds DEF subs
<1>10. first \in WatcherState /\ NoWatcher \in WatcherState /\ NoWatcher.subs = {}
       /\ NoWatcher.open = FALSE /\ NoWatcher.map = {} /\ NoWatcher.lines = <<>>
  BY <1>3, <1>5, <1>6, NoWatcherState DEF WatcherState
<1>11. /\ first.map = panes /\ first.subs = subs /\ first.next = last /\ first.lines = <<>>
       /\ first.open = TRUE
  OBVIOUS
<1>. HIDE DEF first
<1> DEFINE none == [HubIdle EXCEPT !.pc = "none"]
<1>12. /\ none \in HubState /\ none.pc = "none" /\ none.todo = {} /\ none.exit = FALSE
  BY HubIdleState DEF HubState
<1>13. hub = [w \in Watcher |-> IF w = 1 THEN HubIdle ELSE none]
  BY <1>1
<1>. HIDE DEF none
<1>14. /\ hub \in [Watcher -> HubState] /\ 1 \in Watcher /\ hub[1].pc = "idle"
       /\ \A v \in Watcher : /\ v # 1 => hub[v].pc = "none"
                             /\ hub[v].todo = {} /\ hub[v].exit = FALSE
                             /\ hub[v].pc \in {"none", "idle"}
  BY <1>12, <1>13, HubIdleState, Bounds
<1>15. \A p \in Pane, n \in 1..MaxActor : <<p, n>> \in Actor
  BY Bounds
<1>16. ASSUME NEW p \in Pane, NEW n \in 1..MaxActor, actor[<<p, n>>].stop # NoStop
       PROVE  p \in panes /\ n = 1 /\ actor[<<p, n>>].stop = [watcher |-> 1, id |-> id[p]]
  <2>1. CASE p \in panes /\ n = 1
    BY <1>2, <1>15, <2>1
  <2>2. CASE ~(p \in panes /\ n = 1)
    <3>1. actor[<<p, n>>] = [subs |-> {}, stop |-> NoStop]
      BY <1>2, <1>15, <2>2
    <3>. QED
      BY <1>16, <3>1
  <2>. QED
    BY <2>1, <2>2
<1>17. actor \in [Actor -> [subs : SUBSET Conn, stop : Stop]]
  <2>1. NoStop \in Stop /\ \A p \in panes : [watcher |-> 1, id |-> id[p]] \in Stop
    BY <1>3, <1>4, Bounds DEF Stop, NoStop
  <2>. QED
    BY <1>2, <2>1
<1>18. ml.pc = "idle" /\ ml.locked = FALSE /\ MlTyped
  <2>1. PICK c \in Conn : c = CHOOSE d \in Conn : TRUE
    BY RuntimePanesAssumption
  <2>2. ml = [pc |-> "idle", conn |-> c, pane |-> NoPane, evicted |-> NoPane, number |-> 0,
              stop |-> NoStop, list |-> {}, locked |-> FALSE]
    BY <1>1, <2>1 DEF MlIdle
  <2>3. NoStop \in Stop
    BY Bounds DEF NoStop, Stop
  <2>. QED
    BY <2>2, <2>3, Bounds DEF MlTyped
<1>19. Typed
  <2>1. watcher \in [Watcher -> WatcherState]
    BY <1>9, <1>10
  <2>2. \A v \in Watcher : watcher[v].lines = <<>>
    BY <1>9, <1>10, <1>11
  <2>3. \A v \in Watcher : Len(watcher[v].lines) <= LineLimit
    BY <2>2, Bounds
  <2>4. tmux \in [Pane -> {"new", "live", "gone"}]
    BY <1>1
  <2>5. session \in 0..MaxWatcher
    BY <1>1, Bounds
  <2>6. known \subseteq Conn /\ shown \in BOOLEAN /\ overlap \in BOOLEAN
    BY <1>1
  <2>7. DOMAIN order = Conn
    BY <1>1
  <2>8. 0 \in 0..MaxActor /\ 1 \in 0..MaxActor
    BY Bounds
  <2>9. actorOf \in [Pane -> 0..MaxActor] /\ made \in [Pane -> 0..MaxActor]
    BY <1>1, <2>8
  <2>10. emit \in [pc : {"idle", "send"}, current : BOOLEAN]
    BY <1>1 DEF EmitIdle
  <2>. QED
    BY <1>14, <1>17, <1>18, <2>1, <2>3, <2>4, <2>5, <2>6, <2>7, <2>9, <2>10 DEF Typed
<1>20. OneSession
  BY <1>1, <1>9, <1>10, <1>14 DEF OneSession
<1>21. Numbered
  <2>1. \A p \in Pane : actorOf[p] = made[p] /\ made[p] = (IF p \in panes THEN 1 ELSE 0)
                        /\ tmux[p] = (IF p \in panes THEN "live" ELSE "new")
    BY <1>1
  <2>2. \A a \in Actor : a[2] > made[a[1]] => actor[a].stop = NoStop
    <3> SUFFICES ASSUME NEW p \in Pane, NEW n \in 1..MaxActor, n > made[p]
                 PROVE  actor[<<p, n>>].stop = NoStop
      BY Bounds
    <3>1. p \in panes => made[p] = 1
      BY <2>1
    <3>2. ~(p \in panes /\ n = 1)
      BY <3>1
    <3>. QED
      BY <1>16, <3>2
  <2>. QED
    BY <1>14, <1>18, <2>1, <2>2 DEF Numbered
<1>22. StopsOwned
  <2>1. ASSUME NEW p \in Pane, NEW n \in 1..MaxActor, actor[<<p, n>>].stop # NoStop
        PROVE  OwnedBy(actor[<<p, n>>].stop, p, n)
    <3>1. p \in panes /\ n = 1 /\ actor[<<p, n>>].stop = [watcher |-> 1, id |-> id[p]]
      BY <1>16, <2>1
    <3>2. id[p] <= watcher[1].next /\ \A s \in watcher[1].subs : s.id = id[p] => s.pane = p /\ s.number = n
      BY <1>3, <1>4, <1>7, <1>9, <1>11, <3>1
    <3>. QED
      BY <1>14, <3>1, <3>2 DEF OwnedBy
  <2>2. \A v \in Watcher : \A s \in watcher[v].subs : s.id <= watcher[v].next
    BY <1>3, <1>4, <1>7, <1>9, <1>10, <1>11
  <2>3. ~Subscribing
    BY <1>18 DEF Subscribing
  <2>4. \A a \in Actor : actor[a].stop # NoStop => OwnedBy(actor[a].stop, a[1], a[2])
    BY <2>1, Bounds
  <2>. QED
    BY <2>2, <2>3, <2>4 DEF StopsOwned
<1>23. DeafOnlyRobbed
  <2> SUFFICES ASSUME NEW p \in Pane, actorOf[p] # 0, actor[<<p, actorOf[p]>>].stop # NoStop
               PROVE  Hears(p)
    BY DEF DeafOnlyRobbed
  <2>1. actorOf[p] = 1 /\ p \in panes
    BY <1>1
  <2>2. actor[<<p, 1>>].stop = [watcher |-> 1, id |-> id[p]]
    BY <1>16, <2>1, Bounds
  <2>3. [id |-> id[p], pane |-> p, number |-> 1] \in watcher[1].subs
    BY <1>8, <1>9, <1>11, <2>1
  <2>. QED
    BY <1>1, <2>1, <2>2, <2>3 DEF Hears, Heard
<1>24. PendingHeard
  BY <1>18 DEF PendingHeard, Subscribing
<1>25. ListsPast
  BY <1>1, <1>9, <1>10, <1>11, <1>14, <1>18 DEF ListsPast
<1>26. HeardIsFound
  <2> SUFFICES ASSUME NEW p \in Pane PROVE (tmux[p] = "live" => p \in watcher[1].map) /\ tmux[p] # "gone"
    BY <1>1 DEF HeardIsFound
  <2>. QED
    BY <1>1, <1>9, <1>11
<1>27. OneList
  BY <1>1, <1>14 DEF OneList, EmitIdle
<1>. QED
  BY <1>19, <1>20, <1>21, <1>22, <1>23, <1>24, <1>25, <1>26, <1>27 DEF RuntimeInv

\* A step that changes nothing.
LEMMA StutterKeeps ==
    ASSUME RuntimeInv, UNCHANGED vars
    PROVE  RuntimeInv'
<1>1. UNCHANGED <<tmux, session, watcher, events, actor, actorOf, made, items, known, order, hub, ml,
                  emit, shown, overlap, lost, robbed>>
  BY DEF vars, tmuxVars, registryVars, listVars
<1>2. Typed' /\ OneSession' /\ Numbered' /\ StopsOwned' /\ ListsPast' /\ OneList'
  BY <1>1 DEF RuntimeInv, Typed, MlTyped, OneSession, Numbered, StopsOwned, OwnedBy, ListsPast, OneList,
              Subscribing, Live
<1>3. DeafOnlyRobbed' /\ PendingHeard' /\ HeardIsFound'
  BY <1>1 DEF RuntimeInv, DeafOnlyRobbed, PendingHeard, HeardIsFound, Hears, Heard, BeingClosed, Finds,
              Subscribing, Live
<1>. QED
  BY <1>2, <1>3 DEF RuntimeInv

\* Every step keeps the invariant.
LEMMA NextKeeps ==
    ASSUME RuntimeInv, [Next]_vars
    PROVE  RuntimeInv'
<1>1. ASSUME NEW p \in Pane, PaneOpens(p) \/ PaneExits(p) \/ Output(p) \/ CallHook(p)
      PROVE  RuntimeInv'
  BY <1>1, PaneOpensKeeps, PaneExitsKeeps, OutputKeeps, CallHookKeeps
<1>2. ASSUME NEW c \in Conn, NEW p \in Pane, SelectPane(c, p) PROVE RuntimeInv'
  BY <1>2, SelectPaneKeeps
<1>3. ASSUME MessageLoop PROVE RuntimeInv'
  BY <1>3, PaneFoundKeeps, PaneCreatedKeeps, ListPanesKeeps, AssignPanesKeeps, AddSubscriberKeeps,
     CaptureFailsKeeps, EnsureRealtimeKeeps, UnsubscribeEvictedKeeps DEF MessageLoop
<1>4. ASSUME NEW w \in Watcher, HubLoop(w) PROVE RuntimeInv'
  BY <1>4, TopologySignalKeeps, AssignAfterSignalKeeps, CompareMapsKeeps, UnknownOutputKeeps,
     AssignAfterOutputKeeps, LoopExitsKeeps, AllClosedKeeps, CloseUnregisteredKeeps,
     CloseRegisteredKeeps, EndActorKeeps, CopyListKeeps, SendListKeeps DEF HubLoop
<1>5. ASSUME NEW w \in Watcher, ClientExits(w) PROVE RuntimeInv'
  BY <1>5, ClientExitsKeeps
<1>6. ASSUME HookSends PROVE RuntimeInv'
  BY <1>6, HookSendsKeeps
<1>7. ASSUME UNCHANGED vars PROVE RuntimeInv'
  BY <1>7, StutterKeeps
<1>. QED
  BY <1>1, <1>2, <1>3, <1>4, <1>5, <1>6, <1>7 DEF Next

\* A registered pane that is gone and neither lost nor robbed is heard, so its end is found.
LEMMA AwaitedByInv ==
    ASSUME RuntimeInv
    PROVE  GoneAwaited
<1> SUFFICES ASSUME NEW p \in Pane, actorOf[p] # 0, tmux[p] = "gone",
                    actor[<<p, actorOf[p]>>].stop # NoStop, p \notin lost,
                    <<p, actorOf[p]>> \notin robbed, ~BeingClosed(p)
             PROVE  \E w \in Watcher : WillFind(w, p)
  BY DEF GoneAwaited, BeingClosed, WillFind
<1>1. Typed /\ OneSession /\ StopsOwned /\ DeafOnlyRobbed /\ HeardIsFound
  BY DEF RuntimeInv
<1>2. Hears(p)
  BY <1>1 DEF DeafOnlyRobbed
<1>3. session \in Watcher
  BY <1>1, <1>2, HearsInSession
<1>4. p \in Subscribed(session)
  BY <1>2 DEF Hears, Heard, Subscribed
<1>5. Finds(session, p)
  BY <1>1, <1>2 DEF HeardIsFound
<1>6. ~hub[session].exit
  BY <1>1, <1>3 DEF OneSession
<1>. QED
  BY <1>3, <1>4, <1>5, <1>6 DEF WillFind

\* When no list is on its way, the one that is shown is the current one.
LEMMA CurrentByInv ==
    ASSUME RuntimeInv
    PROVE  ListIsCurrent
<1>1. OneList /\ emit.pc \in {"idle", "send"}
  BY DEF RuntimeInv, Typed
<1>. QED
  BY <1>1 DEF ListIsCurrent, OneList

-------------------------------------------------------------------------------
(* What the connections' lists and the watchers' subscriptions are made of.    *)

\* A list that loses its pane at place i.
LEMMA RemoveOne ==
    ASSUME NEW o \in Seq(Pane), NEW i \in 1..Len(o)
    PROVE  LET r == RemoveAt(o, i)
           IN /\ r \in Seq(Pane) /\ Len(r) = Len(o) - 1
              /\ \A k \in 1..(Len(o) - 1) : r[k] = IF k < i THEN o[k] ELSE o[k + 1]
<1>. DEFINE a == SubSeq(o, 1, i - 1)
            b == SubSeq(o, i + 1, Len(o))
<1>1. a \in Seq(Pane) /\ Len(a) = i - 1 /\ \A k \in 1..(i - 1) : a[k] = o[k]
  <2>1. \A k \in 1..(i - 1) : o[k] \in Pane
    OBVIOUS
  <2>2. 1 \in Int /\ i - 1 \in Int /\ (i - 1) - 1 + 1 = i - 1
    OBVIOUS
  <2>3. /\ a \in Seq(Pane) /\ Len(a) = IF 1 <= i - 1 THEN (i - 1) - 1 + 1 ELSE 0
        /\ \A k \in 1..((i - 1) - 1 + 1) : a[k] = o[1 + k - 1]
    BY <2>1, <2>2, SubSeqProperties
  <2>. QED
    BY <2>3
<1>2. b \in Seq(Pane) /\ Len(b) = Len(o) - i /\ \A k \in 1..(Len(o) - i) : b[k] = o[i + k]
  <2>1. \A k \in (i + 1)..Len(o) : o[k] \in Pane
    OBVIOUS
  <2>2. i + 1 \in Int /\ Len(o) \in Int
    OBVIOUS
  <2>3. /\ b \in Seq(Pane) /\ Len(b) = IF i + 1 <= Len(o) THEN Len(o) - (i + 1) + 1 ELSE 0
        /\ \A k \in 1..(Len(o) - (i + 1) + 1) : b[k] = o[(i + 1) + k - 1]
    BY <2>1, <2>2, SubSeqProperties
  <2>. QED
    BY <2>3
<1>. HIDE DEF a, b
<1>3. RemoveAt(o, i) = a \o b
  BY DEF RemoveAt, a, b
<1>4. /\ a \o b \in Seq(Pane) /\ Len(a \o b) = Len(o) - 1
      /\ \A k \in 1..(Len(o) - 1) : (a \o b)[k] = IF k <= i - 1 THEN a[k] ELSE b[k - (i - 1)]
  <2>1. Len(a) + Len(b) = Len(o) - 1
    BY <1>1, <1>2
  <2>2. /\ a \o b \in Seq(Pane) /\ Len(a \o b) = Len(a) + Len(b)
        /\ \A k \in 1..(Len(a) + Len(b)) :
              (a \o b)[k] = IF k <= Len(a) THEN a[k] ELSE b[k - Len(a)]
    BY <1>1, <1>2, ConcatProperties
  <2>. QED
    BY <1>1, <2>1, <2>2
<1>5. \A k \in 1..(Len(o) - 1) : (a \o b)[k] = IF k < i THEN o[k] ELSE o[k + 1]
  <2>. SUFFICES ASSUME NEW k \in 1..(Len(o) - 1)
                PROVE  (a \o b)[k] = IF k < i THEN o[k] ELSE o[k + 1]
    OBVIOUS
  <2>1. CASE k < i
    <3>1. k <= i - 1 /\ k \in 1..(i - 1)
      BY <2>1
    <3>. QED
      BY <1>1, <1>4, <2>1, <3>1
  <2>2. CASE ~(k < i)
    <3>1. k - (i - 1) \in 1..(Len(o) - i) /\ i + (k - (i - 1)) = k + 1 /\ ~(k <= i - 1)
      BY <2>2
    <3>. QED
      BY <1>2, <1>4, <2>2, <3>1
  <2>. QED
    BY <2>1, <2>2
<1>. QED
  BY <1>3, <1>4, <1>5

\* The list a pane is taken from has it no more, and has the others once.
LEMMA RemoveFirstIs ==
    ASSUME NEW o \in Seq(Pane), IsInjective(o), NEW p \in Pane
    PROVE  LET r == RemoveFirst(o, p)
           IN /\ r \in Seq(Pane) /\ IsInjective(r) /\ Len(r) <= Len(o)
              /\ \A k \in DOMAIN r : r[k] # p
<1>1. CASE ~\E i \in 1..Len(o) : o[i] = p
  <2>1. RemoveFirst(o, p) = o
    BY <1>1 DEF RemoveFirst
  <2>. QED
    BY <1>1, <2>1
<1>2. CASE \E i \in 1..Len(o) : o[i] = p
  <2>1. PICK i \in 1..Len(o) : o[i] = p
    BY <1>2
  <2>2. {j \in 1..Len(o) : o[j] = p} = {i}
    BY <2>1 DEF IsInjective
  <2>3. Min({i}) = i
    BY DEF Min
  <2>4. SelectInSeq(o, LAMBDA v : v = p) = i
    BY <2>2, <2>3 DEF SelectInSeq
  <2>5. RemoveFirst(o, p) = RemoveAt(o, i)
    BY <1>2, <2>4 DEF RemoveFirst
  <2> DEFINE r == RemoveAt(o, i)
  <2>6. /\ r \in Seq(Pane) /\ Len(r) = Len(o) - 1
        /\ \A k \in 1..(Len(o) - 1) : r[k] = IF k < i THEN o[k] ELSE o[k + 1]
    BY RemoveOne
  <2>. HIDE DEF r
  <2>7. DOMAIN r = 1..(Len(o) - 1)
    BY <2>6
  <2>8. \A j, k \in 1..Len(o) : o[j] = o[k] => j = k
    BY DEF IsInjective
  <2>9. ASSUME NEW k \in 1..(Len(o) - 1) PROVE r[k] # p
    <3>1. k \in 1..Len(o) /\ k + 1 \in 1..Len(o) /\ (k < i => k # i) /\ (~(k < i) => k + 1 # i)
      OBVIOUS
    <3>. QED
      BY <2>1, <2>6, <2>8, <3>1
  <2>10. ASSUME NEW j \in 1..(Len(o) - 1), NEW k \in 1..(Len(o) - 1), r[j] = r[k] PROVE j = k
    <3> DEFINE x(m) == IF m < i THEN m ELSE m + 1
    <3>1. x(j) \in 1..Len(o) /\ x(k) \in 1..Len(o) /\ (x(j) = x(k) => j = k)
      OBVIOUS
    <3>2. r[j] = o[x(j)] /\ r[k] = o[x(k)]
      BY <2>6
    <3>. QED
      BY <2>8, <2>10, <3>1, <3>2
  <2>. QED
    BY <2>5, <2>6, <2>7, <2>9, <2>10 DEF IsInjective, r
<1>. QED
  BY <1>1, <1>2

\* The list after a pane was selected.
LEMMA WatchedIs ==
    ASSUME NEW o \in Seq(Pane), IsInjective(o), Len(o) <= Limit, NEW p \in Pane
    PROVE  LET s == Watched(o, p)
               t == IF OverLimit(s) THEN Tail(s) ELSE s
           IN t \in Seq(Pane) /\ IsInjective(t) /\ Len(t) <= Limit
<1> DEFINE r == RemoveFirst(o, p)
           s == Append(r, p)
<1>1. /\ r \in Seq(Pane) /\ IsInjective(r) /\ Len(r) <= Len(o)
      /\ \A k \in DOMAIN r : r[k] # p
  BY RemoveFirstIs
<1>2. Limit \in Nat /\ Limit # 0 /\ Len(o) \in Nat
  BY RuntimePanesAssumption
<1>. HIDE DEF r
<1>3. /\ s \in Seq(Pane) /\ Len(s) = Len(r) + 1 /\ Len(r) \in Nat /\ s[Len(r) + 1] = p
      /\ DOMAIN r = 1..Len(r) /\ DOMAIN s = 1..(Len(r) + 1)
      /\ \A k \in 1..Len(r) : s[k] = r[k]
  BY <1>1
<1>4. ASSUME NEW j \in 1..(Len(r) + 1), NEW k \in 1..(Len(r) + 1), s[j] = s[k] PROVE j = k
  <2>1. (j \in 1..Len(r) \/ j = Len(r) + 1) /\ (k \in 1..Len(r) \/ k = Len(r) + 1)
    BY <1>3
  <2>2. \A m, n \in 1..Len(r) : r[m] = r[n] => m = n
    BY <1>1, <1>3 DEF IsInjective
  <2>. QED
    BY <1>1, <1>3, <1>4, <2>1, <2>2
<1>. HIDE DEF s
<1>5. CASE Len(s) > Limit
  <2>1. /\ Tail(s) \in Seq(Pane) /\ Len(Tail(s)) = Len(r)
        /\ \A k \in 1..Len(r) : Tail(s)[k] = s[k + 1]
    BY <1>2, <1>3, HeadTailProperties
  <2>2. Len(Tail(s)) <= Limit /\ DOMAIN Tail(s) = 1..Len(r)
    BY <1>1, <1>2, <1>3, <2>1
  <2>3. ASSUME NEW j \in 1..Len(r), NEW k \in 1..Len(r), Tail(s)[j] = Tail(s)[k] PROVE j = k
    <3>1. j + 1 \in 1..(Len(r) + 1) /\ k + 1 \in 1..(Len(r) + 1)
      BY <1>3
    <3>2. s[j + 1] = s[k + 1]
      BY <2>1, <2>3
    <3>3. j + 1 = k + 1
      BY <1>4, <3>1, <3>2
    <3>. QED
      BY <3>3
  <2>4. IsInjective(Tail(s))
    BY <2>2, <2>3 DEF IsInjective
  <2>. QED
    BY <1>5, <2>1, <2>2, <2>4 DEF OverLimit, Watched, s, r
<1>6. CASE ~(Len(s) > Limit)
  <2>1. IsInjective(s) /\ Len(s) <= Limit
    BY <1>2, <1>3, <1>4, <1>6 DEF IsInjective
  <2>. QED
    BY <1>3, <1>6, <2>1 DEF OverLimit, Watched, s, r
<1>. QED
  BY <1>5, <1>6

\* Only a selection and the end of an actor change the connections' lists.
LEMMA WatchOrderKept ==
    ASSUME Typed, WatchOrderOK, [Next]_vars
    PROVE  WatchOrderOK'
<1>1. ASSUME order' = order PROVE WatchOrderOK'
  BY <1>1 DEF WatchOrderOK
<1>2. ASSUME NEW p \in Pane, PaneOpens(p) \/ PaneExits(p) \/ Output(p) \/ CallHook(p)
      PROVE  order' = order
  BY <1>2 DEF PaneOpens, PaneExits, Output, CallHook, registryVars
<1>3. ASSUME MessageLoop PROVE order' = order
  BY <1>3 DEF MessageLoop, PaneFound, PaneCreated, ListPanes, AssignPanes, AddSubscriber,
              CaptureFails, EnsureRealtime, UnsubscribeEvicted, registryVars
<1>4. ASSUME NEW w \in Watcher, HubLoop(w), ~EndActor(w) PROVE order' = order
  BY <1>4 DEF HubLoop, TopologySignal, AssignAfterSignal, CompareMaps, UnknownOutput,
              AssignAfterOutput, LoopExits, AllClosed, CloseUnregistered, CloseRegistered,
              CopyList, SendList, registryVars
<1>5. ASSUME NEW w \in Watcher, ClientExits(w) PROVE order' = order
  BY <1>5 DEF ClientExits, registryVars
<1>6. ASSUME HookSends \/ UNCHANGED vars PROVE order' = order
  BY <1>6 DEF HookSends, registryVars, vars
<1>7. ASSUME NEW c \in Conn, NEW p \in Pane, SelectPane(c, p) PROVE WatchOrderOK'
  <2> DEFINE s == Watched(order[c], p)
             t == IF OverLimit(s) THEN Tail(s) ELSE s
  <2>1. order' = [order EXCEPT ![c] = t]
    BY <1>7 DEF SelectPane
  <2>2. order[c] \in Seq(Pane) /\ IsInjective(order[c]) /\ Len(order[c]) <= Limit
    BY DEF WatchOrderOK
  <2>3. t \in Seq(Pane) /\ IsInjective(t) /\ Len(t) <= Limit
    BY <2>2, WatchedIs
  <2>. HIDE DEF t
  <2>4. \A d \in Conn : order'[d] = IF d = c THEN t ELSE order[d]
    BY <2>1 DEF Typed
  <2>5. ASSUME NEW d \in Conn
        PROVE  order'[d] \in Seq(Pane) /\ IsInjective(order'[d]) /\ Len(order'[d]) <= Limit
    <3>1. CASE d = c
      BY <2>3, <2>4, <3>1
    <3>2. CASE d # c
      BY <2>4, <3>2 DEF WatchOrderOK
    <3>. QED
      BY <3>1, <3>2
  <2>. QED
    BY <2>5 DEF WatchOrderOK
<1>8. ASSUME NEW w \in Watcher, EndActor(w) PROVE WatchOrderOK'
  <2>1. hub[w].pane \in Pane \cup {NoPane} /\ hub[w].conns \subseteq Conn
    BY HubFields DEF Typed
  <2>2. ASSUME NEW c \in Conn
        PROVE  order'[c] \in Seq(Pane) /\ IsInjective(order'[c]) /\ Len(order'[c]) <= Limit
    <3> DEFINE q == hub[w].pane
    <3>1. order'[c] = IF c \in hub[w].conns THEN RemoveFirst(order[c], q) ELSE order[c]
      BY <1>8 DEF EndActor, Unwatched
    <3>2. order[c] \in Seq(Pane) /\ IsInjective(order[c]) /\ Len(order[c]) <= Limit
      BY DEF WatchOrderOK
    <3>3. CASE c \notin hub[w].conns
      BY <3>1, <3>2, <3>3
    <3>4. CASE c \in hub[w].conns /\ q \in Pane
      <4>1. LET r == RemoveFirst(order[c], q)
            IN r \in Seq(Pane) /\ IsInjective(r) /\ Len(r) <= Len(order[c])
        BY <3>2, <3>4, RemoveFirstIs
      <4>2. Limit \in Nat /\ Len(order[c]) \in Nat
        BY <3>2, RuntimePanesAssumption
      <4>3. order'[c] = RemoveFirst(order[c], q)
        BY <3>1, <3>4
      <4>4. order'[c] \in Seq(Pane) /\ IsInjective(order'[c]) /\ Len(order'[c]) <= Len(order[c])
        BY <4>1, <4>3
      <4>. QED
        BY <3>2, <4>2, <4>4
    <3>5. CASE c \in hub[w].conns /\ q \notin Pane
      <4>1. ~\E i \in 1..Len(order[c]) : order[c][i] = q
        BY <3>2, <3>5
      <4>2. RemoveFirst(order[c], q) = order[c]
        BY <4>1 DEF RemoveFirst
      <4>. QED
        BY <3>1, <3>2, <4>2
    <3>. QED
      BY <3>3, <3>4, <3>5
  <2>. QED
    BY <2>2 DEF WatchOrderOK
<1>9. ASSUME NEW w \in Watcher, HubLoop(w) PROVE WatchOrderOK'
  BY <1>1, <1>4, <1>8, <1>9
<1>. QED
  BY <1>1, <1>2, <1>3, <1>5, <1>6, <1>7, <1>9 DEF Next

\* Subscriptions that stay, or are taken away.
LEMMA SubscriptionsFewer ==
    ASSUME SubscriptionsOK,
           \A v \in Watcher : watcher'[v].subs \subseteq watcher[v].subs
                              /\ watcher'[v].next = watcher[v].next
    PROVE  SubscriptionsOK'
  BY DEF SubscriptionsOK

\* A subscription gets the next number.
LEMMA SubscriptionsMore ==
    ASSUME Typed, SubscriptionsOK, NEW w \in Watcher, NEW p \in Pane, NEW n \in 1..MaxActor,
           \A v \in Watcher \ {w} : watcher'[v] = watcher[v],
           LET s == [id |-> watcher'[w].next, pane |-> p, number |-> n]
           IN \/ watcher'[w].next = watcher[w].next + 1
                 /\ watcher'[w].subs = watcher[w].subs \cup {s}
              \/ watcher'[w].next = 1 /\ watcher'[w].subs = {s}
    PROVE  SubscriptionsOK'
<1> DEFINE s == [id |-> watcher'[w].next, pane |-> p, number |-> n]
           Numbers(m) == [id : 1..m, pane : Pane, number : 1..MaxActor]
<1>1. ASSUME NEW v \in Watcher, v # w
      PROVE  /\ watcher'[v].subs \subseteq Numbers(watcher'[v].next)
             /\ \A x, y \in watcher'[v].subs : x.id = y.id => x = y
  BY <1>1 DEF SubscriptionsOK
<1>2. CASE watcher'[w].next = 1 /\ watcher'[w].subs = {s}
  <2>1. s \in Numbers(watcher'[w].next)
    BY <1>2
  <2>2. /\ watcher'[w].subs \subseteq Numbers(watcher'[w].next)
        /\ \A x, y \in watcher'[w].subs : x.id = y.id => x = y
    BY <1>2, <2>1
  <2>. QED
    BY <1>1, <2>2 DEF SubscriptionsOK
<1>3. CASE watcher'[w].next = watcher[w].next + 1 /\ watcher'[w].subs = watcher[w].subs \cup {s}
  <2>1. watcher[w].next \in Nat
    BY WatcherFields DEF Typed
  <2>2. /\ watcher[w].subs \subseteq Numbers(watcher[w].next)
        /\ \A x, y \in watcher[w].subs : x.id = y.id => x = y
    BY DEF SubscriptionsOK
  <2>3. \A x \in watcher[w].subs : x \in Numbers(watcher'[w].next) /\ x.id # watcher'[w].next
    BY <1>3, <2>1, <2>2
  <2>4. s \in Numbers(watcher'[w].next) /\ s.id = watcher'[w].next
    BY <1>3, <2>1
  <2>. HIDE DEF s, Numbers
  <2>5. watcher'[w].subs \subseteq Numbers(watcher'[w].next)
    BY <1>3, <2>3, <2>4
  <2>6. ASSUME NEW x \in watcher'[w].subs, NEW y \in watcher'[w].subs, x.id = y.id PROVE x = y
    <3>1. (x \in watcher[w].subs \/ x = s) /\ (y \in watcher[w].subs \/ y = s)
      BY <1>3
    <3>. QED
      BY <2>2, <2>3, <2>4, <2>6, <3>1
  <2>. QED
    BY <1>1, <2>5, <2>6 DEF SubscriptionsOK, Numbers
<1>. QED
  BY <1>2, <1>3

\* Every step keeps the numbers of the subscriptions apart.
LEMMA SubscriptionsKept ==
    ASSUME RuntimeInv, SubscriptionsOK, [Next]_vars
    PROVE  SubscriptionsOK'
<1>0. Typed /\ Numbered /\ StopsOwned
  BY DEF RuntimeInv
<1>1. ASSUME UNCHANGED watcher PROVE SubscriptionsOK'
  BY <1>1 DEF SubscriptionsOK
<1>2. ASSUME NEW p \in Pane, PaneOpens(p) \/ PaneExits(p) \/ Output(p) PROVE SubscriptionsOK'
  <2>1. \A v \in Watcher : watcher'[v].subs = watcher[v].subs /\ watcher'[v].next = watcher[v].next
    BY <1>0, <1>2, PaneOpensEffect, PaneExitsEffect, OutputEffect
  <2>. QED
    BY <2>1, SubscriptionsFewer
<1>3. ASSUME NEW p \in Pane, CallHook(p) PROVE UNCHANGED watcher
  BY <1>3 DEF CallHook, tmuxVars
<1>4. ASSUME NEW c \in Conn, NEW p \in Pane, SelectPane(c, p) PROVE UNCHANGED watcher
  BY <1>4 DEF SelectPane, tmuxVars
<1>5. ASSUME HookSends \/ UNCHANGED vars PROVE UNCHANGED watcher
  BY <1>5 DEF HookSends, tmuxVars, vars
<1>6. ASSUME NEW w \in Watcher, ClientExits(w) PROVE SubscriptionsOK'
  BY <1>0, <1>6, ClientExitsEffect, SubscriptionsFewer
<1>7. ASSUME PaneFound \/ ListPanes \/ AddSubscriber \/ CaptureFails \/ UnsubscribeEvicted
      PROVE  UNCHANGED watcher
  BY <1>7 DEF PaneFound, ListPanes, AddSubscriber, CaptureFails, UnsubscribeEvicted, tmuxVars
<1>8. ASSUME AssignPanes PROVE SubscriptionsOK'
  <2>1. ml.stop.watcher \in Watcher
    BY <1>0, <1>8 DEF StopsOwned, OwnedBy, Subscribing, AssignPanes
  <2>2. \A v \in Watcher : watcher'[v].subs = watcher[v].subs /\ watcher'[v].next = watcher[v].next
    BY <1>0, <1>8, <2>1, AssignPanesEffect
  <2>. QED
    BY <2>2, SubscriptionsFewer
<1>9. ASSUME PaneCreated PROVE SubscriptionsOK'
  <2>1. /\ ml'.pane \in Pane /\ ml'.number \in 1..MaxActor
        /\ \/ UNCHANGED watcher
           \/ \E w \in Watcher :
                /\ \A v \in Watcher \ {w} : watcher'[v] = watcher[v]
                /\ LET s == [id |-> watcher'[w].next, pane |-> ml'.pane, number |-> ml'.number]
                   IN \/ watcher'[w].next = watcher[w].next + 1
                         /\ watcher'[w].subs = watcher[w].subs \cup {s}
                      \/ watcher'[w].next = 1 /\ watcher'[w].subs = {s}
    BY <1>0, <1>9, PaneCreatedEffect
  <2>. QED
    BY <1>0, <1>1, <2>1, SubscriptionsMore
<1>10. ASSUME EnsureRealtime PROVE SubscriptionsOK'
  <2>1. /\ ml'.pane \in Pane
        /\ \E w \in Watcher :
             /\ \A v \in Watcher \ {w} : watcher'[v] = watcher[v]
             /\ LET s == [id |-> watcher'[w].next, pane |-> ml'.pane, number |-> ml'.number]
                IN \/ watcher'[w].next = watcher[w].next + 1
                      /\ watcher'[w].subs = watcher[w].subs \cup {s}
                   \/ watcher'[w].next = 1 /\ watcher'[w].subs = {s}
    BY <1>0, <1>10, EnsureRealtimeEffect
  <2>2. ml'.number \in 1..MaxActor
    <3>1. ml.pc = "capture" /\ ml'.number = ml.number /\ ml.pane \in Pane
      BY <1>0, <1>10, EnsureRealtimeEffect
    <3>2. ml.number \in 1..made[ml.pane] /\ made[ml.pane] \in 0..MaxActor
      BY <1>0, <3>1 DEF Numbered, Typed
    <3>. QED
      BY <3>1, <3>2, Bounds
  <2>. QED
    BY <1>0, <2>1, <2>2, SubscriptionsMore
<1>11. ASSUME NEW w \in Watcher, TopologySignal(w) \/ UnknownOutput(w) \/ AssignAfterSignal(w)
                                 \/ AssignAfterOutput(w)
       PROVE  SubscriptionsOK'
  <2>1. \A v \in Watcher : watcher'[v].subs = watcher[v].subs /\ watcher'[v].next = watcher[v].next
    BY <1>0, <1>11, TopologySignalEffect, UnknownOutputEffect, AssignAfterSignalEffect,
       AssignAfterOutputEffect
  <2>. QED
    BY <2>1, SubscriptionsFewer
<1>12. ASSUME NEW w \in Watcher, CompareMaps(w) \/ LoopExits(w) \/ CopyList(w) \/ SendList(w)
       PROVE  UNCHANGED watcher
  BY <1>12 DEF CompareMaps, LoopExits, CopyList, SendList, tmuxVars
<1>13. ASSUME NEW w \in Watcher, NEW p \in Pane, CloseUnregistered(w, p) \/ CloseRegistered(w, p)
       PROVE  UNCHANGED watcher
  BY <1>13 DEF CloseUnregistered, CloseRegistered, tmuxVars
<1>14. ASSUME NEW w \in Watcher, AllClosed(w) PROVE SubscriptionsOK'
  <2>1. \/ UNCHANGED watcher
        \/ watcher'[w] = NoWatcher /\ \A v \in Watcher \ {w} : watcher'[v] = watcher[v]
    BY <1>0, <1>14, AllClosedEffect
  <2>2. NoWatcher.subs = {}
    BY DEF NoWatcher
  <2>. QED
    BY <1>1, <2>1, <2>2 DEF SubscriptionsOK
<1>15. ASSUME NEW w \in Watcher, EndActor(w) PROVE SubscriptionsOK'
  <2>1. \/ UNCHANGED watcher
        \/ \E left \in SUBSET watcher[session].subs :
             /\ session \in Watcher /\ watcher'[session].subs = left
             /\ \A v \in Watcher : /\ watcher'[v].next = watcher[v].next
                                   /\ v # session => watcher'[v] = watcher[v]
    BY <1>0, <1>15, EndActorEffect
  <2>. QED
    BY <1>1, <2>1, SubscriptionsFewer
<1>16. ASSUME NEW w \in Watcher, HubLoop(w) PROVE SubscriptionsOK'
  BY <1>1, <1>11, <1>12, <1>13, <1>14, <1>15, <1>16 DEF HubLoop
<1>17. ASSUME MessageLoop PROVE SubscriptionsOK'
  BY <1>1, <1>7, <1>8, <1>9, <1>10, <1>17 DEF MessageLoop
<1>. QED
  BY <1>1, <1>2, <1>3, <1>4, <1>5, <1>6, <1>16, <1>17 DEF Next

\* What the history of the losses and the list of the panes name are panes and actors.
LEMMA NamesKept ==
    ASSUME RuntimeInv, items \subseteq Pane, lost \subseteq Pane, robbed \subseteq Actor, [Next]_vars
    PROVE  items' \subseteq Pane /\ lost' \subseteq Pane /\ robbed' \subseteq Actor
<1>0. Typed /\ Numbered /\ StopsOwned
  BY DEF RuntimeInv
<1>1. \A v \in Watcher : watcher[v].map \subseteq Pane /\ hub[v].list \subseteq Pane
  BY <1>0, WatcherFields, HubFields DEF Typed
<1>2. ASSUME NEW p \in Pane, PaneOpens(p) \/ Output(p) PROVE UNCHANGED <<items, lost, robbed>>
  BY <1>2 DEF PaneOpens, Output, registryVars
<1>3. ASSUME NEW p \in Pane, PaneExits(p)
      PROVE  UNCHANGED <<items, robbed>> /\ lost' \subseteq lost \cup {p}
  BY <1>3 DEF PaneExits, registryVars
<1>4. ASSUME NEW p \in Pane, CallHook(p)
      PROVE  UNCHANGED <<lost, robbed>> /\ items' = items \cup {p}
  BY <1>4 DEF CallHook
<1>5. ASSUME NEW c \in Conn, NEW p \in Pane, SelectPane(c, p) PROVE UNCHANGED <<items, lost, robbed>>
  BY <1>5 DEF SelectPane
<1>6. ASSUME HookSends \/ UNCHANGED vars PROVE UNCHANGED <<items, lost, robbed>>
  BY <1>6 DEF HookSends, registryVars, vars
<1>7. ASSUME NEW w \in Watcher, ClientExits(w) PROVE UNCHANGED <<items, lost, robbed>>
  BY <1>7 DEF ClientExits, registryVars
<1>8. ASSUME PaneFound \/ ListPanes \/ AddSubscriber \/ CaptureFails \/ EnsureRealtime
             \/ UnsubscribeEvicted
      PROVE  UNCHANGED <<items, lost, robbed>>
  BY <1>8 DEF PaneFound, ListPanes, AddSubscriber, CaptureFails, EnsureRealtime,
              UnsubscribeEvicted, registryVars
<1>9. ASSUME PaneCreated PROVE UNCHANGED <<lost, robbed>> /\ items' \subseteq Pane
  <2>1. ml.pane \in Pane
    BY <1>0, <1>9 DEF PaneCreated, Numbered
  <2>. QED
    BY <1>9, <2>1 DEF PaneCreated, Register
<1>10. ASSUME AssignPanes PROVE UNCHANGED robbed /\ items' \subseteq Pane /\ lost' \subseteq Pane
  <2>1. ml.pane \in Pane /\ ml.stop.watcher \in Watcher /\ ml.list \subseteq Pane
    BY <1>0, <1>10 DEF AssignPanes, Numbered, StopsOwned, OwnedBy, Subscribing, Typed, MlTyped
  <2>2. UNCHANGED robbed /\ items' \subseteq items \cup {ml.pane}
        /\ lost' \subseteq lost \cup Swallowed(ml.stop.watcher, ml.list) \cup {ml.pane}
    BY <1>10 DEF AssignPanes, Register
  <2>3. Swallowed(ml.stop.watcher, ml.list) \subseteq Pane
    BY <1>1, <2>1 DEF Swallowed
  <2>. QED
    BY <2>1, <2>2, <2>3
<1>11. ASSUME NEW w \in Watcher, TopologySignal(w) \/ UnknownOutput(w) \/ CompareMaps(w)
                                 \/ LoopExits(w) \/ AllClosed(w) \/ CopyList(w) \/ SendList(w)
       PROVE  UNCHANGED <<items, lost, robbed>>
  BY <1>11 DEF TopologySignal, UnknownOutput, CompareMaps, LoopExits, AllClosed, CopyList,
               SendList, registryVars
<1>12. ASSUME NEW w \in Watcher, AssignAfterSignal(w) \/ AssignAfterOutput(w)
       PROVE  UNCHANGED <<items, robbed>> /\ lost' \subseteq lost \cup watcher[w].map
  BY <1>12 DEF AssignAfterSignal, AssignAfterOutput, registryVars
<1>13. ASSUME NEW w \in Watcher, NEW p \in Pane, CloseUnregistered(w, p) \/ CloseRegistered(w, p)
       PROVE  UNCHANGED <<lost, robbed>> /\ items' \subseteq items
  BY <1>13 DEF CloseUnregistered, CloseRegistered, registryVars
<1>14. ASSUME NEW w \in Watcher, EndActor(w)
       PROVE  UNCHANGED <<items, lost>> /\ robbed' \subseteq Actor
  <2>1. UNCHANGED <<items, lost>>
    BY <1>14 DEF EndActor
  <2>2. \/ UNCHANGED robbed
        \/ \E taken \in SUBSET watcher[session].subs :
             /\ session \in Watcher
             /\ robbed' \in {robbed, robbed \cup {<<s.pane, s.number>> : s \in taken}}
    <3>1. CASE UNCHANGED robbed
      BY <3>1
    <3>2. CASE ~UNCHANGED robbed
      <4> DEFINE stop == actor[<<hub[w].pane, hub[w].number>>].stop
                 left == {s \in watcher[session].subs : s.id # stop.id}
                 taken == watcher[session].subs \ left
      <4>1. session \in Watcher
            /\ robbed' = IF stop.watcher = session THEN robbed
                         ELSE robbed \cup {<<s.pane, s.number>> : s \in taken}
        BY <1>0, <1>14, <3>2, EndActorEffect
      <4>2. taken \in SUBSET watcher[session].subs
        OBVIOUS
      <4>. HIDE DEF taken
      <4>. QED
        BY <4>1, <4>2
    <3>. QED
      BY <3>1, <3>2
  <2>3. ASSUME NEW taken \in SUBSET watcher[session].subs, session \in Watcher
        PROVE  {<<s.pane, s.number>> : s \in taken} \subseteq Actor
    <3>1. \A s \in taken : s.pane \in Pane /\ s.number \in 1..MaxActor
      BY <1>0, <2>3, WatcherFields, SubFields DEF Typed
    <3>. QED
      BY <3>1, Bounds
  <2>4. CASE UNCHANGED robbed
    BY <2>1, <2>4
  <2>5. ASSUME NEW taken \in SUBSET watcher[session].subs, session \in Watcher,
               robbed' \in {robbed, robbed \cup {<<s.pane, s.number>> : s \in taken}}
        PROVE  robbed' \subseteq Actor
    <3> DEFINE names == {<<s.pane, s.number>> : s \in taken}
    <3>1. names \subseteq Actor
      BY <2>3, <2>5
    <3>2. robbed' = robbed \/ robbed' = robbed \cup names
      BY <2>5
    <3>. HIDE DEF names
    <3>. QED
      BY <3>1, <3>2
  <2>. QED
    BY <2>1, <2>2, <2>4, <2>5
<1>15. ASSUME NEW w \in Watcher, HubLoop(w)
       PROVE  items' \subseteq Pane /\ lost' \subseteq Pane /\ robbed' \subseteq Actor
  BY <1>1, <1>11, <1>12, <1>13, <1>14, <1>15 DEF HubLoop
<1>16. ASSUME MessageLoop
       PROVE  items' \subseteq Pane /\ lost' \subseteq Pane /\ robbed' \subseteq Actor
  BY <1>8, <1>9, <1>10, <1>16 DEF MessageLoop
<1>. QED
  BY <1>2, <1>3, <1>4, <1>5, <1>6, <1>7, <1>15, <1>16 DEF Next

\* The initial state has them all.
LEMMA InitHasTypes ==
    ASSUME Init
    PROVE  /\ SubscriptionsOK /\ WatchOrderOK
           /\ items \subseteq Pane /\ lost \subseteq Pane /\ robbed \subseteq Actor
<1>1. PICK panes \in (SUBSET Pane) \ {{}} :
        /\ \E id \in Bijection(panes, 1..Cardinality(panes)) :
             watcher = [w \in Watcher |-> IF w # 1 THEN NoWatcher ELSE
              [map |-> panes, subs |-> {[id |-> id[p], pane |-> p, number |-> 1] : p \in panes},
               next |-> Cardinality(panes), lines |-> <<>>, open |-> TRUE]]
        /\ items = panes /\ order = [c \in Conn |-> <<>>]
        /\ lost = {} /\ robbed = {}
  BY ZenonT(60) DEF Init
<1>2. WatchOrderOK
  <2>1. <<>> \in Seq(Pane) /\ IsInjective(<<>>) /\ Len(<<>>) <= Limit
    BY RuntimePanesAssumption DEF IsInjective
  <2>. QED
    BY <1>1, <2>1 DEF WatchOrderOK
<1>3. SubscriptionsOK
  <2>0. PICK id \in Bijection(panes, 1..Cardinality(panes)) :
          watcher = [w \in Watcher |-> IF w # 1 THEN NoWatcher ELSE
            [map |-> panes, subs |-> {[id |-> id[p], pane |-> p, number |-> 1] : p \in panes},
             next |-> Cardinality(panes), lines |-> <<>>, open |-> TRUE]]
    BY <1>1
  <2> DEFINE subs == {[id |-> id[p], pane |-> p, number |-> 1] : p \in panes}
             n == Cardinality(panes)
  <2>1. \A p \in panes : id[p] \in 1..n
    BY DEF Bijection, Injection
  <2>2. \A p, q \in panes : id[p] = id[q] => p = q
    BY DEF Bijection, Injection, IsInjective
  <2>. HIDE DEF n
  <2>3. 1 \in 1..MaxActor
    BY Bounds
  <2>4. subs \subseteq [id : 1..n, pane : Pane, number : 1..MaxActor]
    BY <2>1, <2>3
  <2>5. \A s, t \in subs : s.id = t.id => s = t
    BY <2>2
  <2>. HIDE DEF subs
  <2>6. ASSUME NEW w \in Watcher, w = 1
        PROVE  watcher[w].subs = subs /\ watcher[w].next = n
    BY <2>0, <2>6 DEF subs, n
  <2>7. ASSUME NEW w \in Watcher, w # 1
        PROVE  watcher[w].subs = {}
    BY <2>0, <2>7 DEF NoWatcher
  <2>. QED
    BY <2>4, <2>5, <2>6, <2>7 DEF SubscriptionsOK
<1>. QED
  BY <1>1, <1>2, <1>3

\* All that the type invariant says of the rest is in the inductive invariant.
LEMMA TypesByInv ==
    ASSUME RuntimeInv, SubscriptionsOK, WatchOrderOK,
           items \subseteq Pane, lost \subseteq Pane, robbed \subseteq Actor
    PROVE  TypeOK
<1>1. Typed /\ Numbered
  BY DEF RuntimeInv
<1>2. \A w \in Watcher :
        /\ watcher[w].map \subseteq Pane
        /\ watcher[w].lines \in Seq(Pane \cup {"topology"}) /\ Len(watcher[w].lines) <= LineLimit
        /\ hub[w].pc \in {"none", "idle", "assign", "compare", "deliver", "close",
                          "end", "copy", "send", "done"}
        /\ hub[w].todo \subseteq Pane
  BY <1>1, WatcherFields, HubFields DEF Typed
<1>3. \A a \in Actor : actor[a].subs \subseteq Conn
                       /\ actor[a].stop \in [watcher : 0..MaxWatcher, id : Nat]
  BY <1>1 DEF Typed, Stop
<1>4. \A p \in Pane : actorOf[p] \in {0, made[p]}
  BY <1>1 DEF Numbered
<1>5. /\ tmux \in [Pane -> {"new", "live", "gone"}] /\ session \in 0..MaxWatcher
      /\ actorOf \in [Pane -> 0..MaxActor] /\ made \in [Pane -> 0..MaxActor]
      /\ shown \in BOOLEAN /\ known \subseteq Conn
      /\ ml.pc \in {"idle", "pane", "list", "assign", "add", "capture", "evict"}
  BY <1>1 DEF Typed, MlTyped
<1>. QED
  BY <1>2, <1>3, <1>4, <1>5 DEF TypeOK

-------------------------------------------------------------------------------
(* The theorems.                                                               *)

(* The inductive invariant holds in every state: who is subscribed where, which of*)
(* the maps and lists name what, and which copy of the list is the last one (the*)
(* registry, the hub's watchers and the actors' realtimeStop).                 *)
THEOREM RuntimeInvariant == Spec => []RuntimeInv
<1>1. Init => RuntimeInv
  BY InitHasInv
<1>2. RuntimeInv /\ [Next]_vars => RuntimeInv'
  BY NextKeeps
<1>. QED
  BY <1>1, <1>2, PTL DEF Spec

(* A pane that is gone will be given up, unless its signal was swallowed or dropped*)
(* or its subscription taken (handleTopologySignal, onSessionLoopExit).        *)
THEOREM GoneAreAwaited == Spec => []GoneAwaited
<1>1. RuntimeInv => GoneAwaited
  BY AwaitedByInv
<1>. QED
  BY <1>1, RuntimeInvariant, PTL

(* An actor that takes itself for subscribed hears its pane, unless another's stop*)
(* took its subscription or it is about to be ended (ensureRealtimeSubscribed).*)
THEOREM DeafAreRobbed == Spec => []DeafOnlyRobbed
<1>1. RuntimeInv => DeafOnlyRobbed
  BY DEF RuntimeInv
<1>. QED
  BY <1>1, RuntimeInvariant, PTL

(* Without two emissions under way together the browsers get the current list  *)
(* (emitTmuxStatus).                                                           *)
THEOREM ListsAreCurrent == Spec => []ListIsCurrent
<1>1. RuntimeInv => ListIsCurrent
  BY CurrentByInv
<1>. QED
  BY <1>1, RuntimeInvariant, PTL

(* The type invariant: in it that a connection's list has a pane once and keeps to*)
(* its limit (SelectAndWatch, DropWatch), and a watcher's numbers are given once*)
(* (Subscribe, nextID).                                                        *)
THEOREM RuntimeTyped == Spec => []TypeOK
<1> DEFINE Kept == /\ RuntimeInv /\ SubscriptionsOK /\ WatchOrderOK
                   /\ items \subseteq Pane /\ lost \subseteq Pane /\ robbed \subseteq Actor
<1>1. Init => Kept
  BY InitHasInv, InitHasTypes
<1>2. Kept /\ [Next]_vars => Kept'
  <2> SUFFICES ASSUME Kept, [Next]_vars PROVE Kept'
    OBVIOUS
  <2>1. RuntimeInv' /\ Typed
    BY NextKeeps DEF RuntimeInv
  <2>2. SubscriptionsOK' /\ WatchOrderOK'
    BY <2>1, SubscriptionsKept, WatchOrderKept
  <2>3. items' \subseteq Pane /\ lost' \subseteq Pane /\ robbed' \subseteq Actor
    BY NamesKept
  <2>. QED
    BY <2>1, <2>2, <2>3
<1>3. Kept => TypeOK
  BY TypesByInv
<1>. QED
  BY <1>1, <1>2, <1>3, PTL DEF Spec
===============================================================================
