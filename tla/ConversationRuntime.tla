-------------------------- MODULE ConversationRuntime --------------------------
(* The actor runtime behind task and project-manager conversations              *)
(* (cli/internal/localapi/conversation_runtime.go): one goroutine and one       *)
(* bounded channel per key, callers that block in Enqueue until there is room   *)
(* or their context ends, and Cancel, which reads the in-flight CancelFunc      *)
(* under the lock and calls it after the lock is released.                      *)
(*                                                                              *)
(* An event stands for one Enqueue call. The handler is any code that returns;  *)
(* TaskMessages puts the task handler in its place.                             *)
EXTENDS Naturals, Sequences

CONSTANTS
    Key,            \* conversation keys: task or session ids
    Event,          \* Enqueue calls
    Canceller,      \* goroutines that call Cancel
    QueueSize,      \* defaultConversationQueueSize (64)
    NoEvent         \* the nil CancelFunc

ASSUME RuntimeAssumption ==
    /\ QueueSize \in Nat \ {0}
    /\ NoEvent \notin Event

VARIABLES
    called,         \* events whose Enqueue call has been made
    actors,         \* keys of r.actors
    sendq,          \* callers blocked on the channel of every actor
    queue,          \* what the channel of every actor holds
    stage,          \* where the goroutine of every actor is in its range loop
    current,        \* the event it took last
    inflight,       \* a.inflight, named by the event whose context it cancels
    cancelled,      \* events whose context is cancelled
    calling,        \* the CancelFunc every Cancel call is about to call
    log             \* history: events accepted for every key, oldest first

runtimeVars == <<called, actors, sendq, queue, stage, current, inflight, cancelled,
                 calling, log>>

Stage == {"idle", "taken", "handling", "returned", "clearing"}

RuntimeInit ==
    /\ called = {}
    /\ actors = {}
    /\ sendq = [k \in Key |-> {}]
    /\ queue = [k \in Key |-> <<>>]
    /\ stage = [k \in Key |-> "idle"]
    /\ current = [k \in Key |-> NoEvent]
    /\ inflight = [k \in Key |-> NoEvent]
    /\ cancelled = {}
    /\ calling = [x \in Canceller |-> NoEvent]
    /\ log = [k \in Key |-> <<>>]

--------------------------------------------------------------------------------
(* Enqueue, in the goroutine of its caller.                                     *)

\* getOrCreateActor, then the caller is in the select.
EnqueueCall(k, e) ==
    /\ e \notin called
    /\ called' = called \union {e}
    /\ actors' = actors \union {k}
    /\ sendq' = [sendq EXCEPT ![k] = @ \union {e}]
    /\ UNCHANGED <<queue, stage, current, inflight, cancelled, calling, log>>

\* The channel has room for one of the callers.
EnqueueSend(k, e) ==
    /\ e \in sendq[k]
    /\ Len(queue[k]) < QueueSize
    /\ sendq' = [sendq EXCEPT ![k] = @ \ {e}]
    /\ queue' = [queue EXCEPT ![k] = Append(@, e)]
    /\ log' = [log EXCEPT ![k] = Append(@, e)]
    /\ UNCHANGED <<called, actors, stage, current, inflight, cancelled, calling>>

\* The caller's context ends first.
EnqueueGiveUp(k, e) ==
    /\ e \in sendq[k]
    /\ sendq' = [sendq EXCEPT ![k] = @ \ {e}]
    /\ UNCHANGED <<called, actors, queue, stage, current, inflight, cancelled, calling, log>>

--------------------------------------------------------------------------------
(* The goroutine of actor k.                                                    *)

\* Mutant: the goroutine takes the event that was sent last.
Take_Newest(k) ==
    /\ k \in actors
    /\ stage[k] = "idle" /\ queue[k] # <<>>
    /\ current' = [current EXCEPT ![k] = queue[k][Len(queue[k])]]
    /\ queue' = [queue EXCEPT ![k] = SubSeq(@, 1, Len(@) - 1)]
    /\ stage' = [stage EXCEPT ![k] = "taken"]
    /\ UNCHANGED <<called, actors, sendq, inflight, cancelled, calling, log>>

Take(k) ==
    /\ k \in actors
    /\ stage[k] = "idle" /\ queue[k] # <<>>
    /\ current' = [current EXCEPT ![k] = Head(queue[k])]
    /\ queue' = [queue EXCEPT ![k] = Tail(@)]
    /\ stage' = [stage EXCEPT ![k] = "taken"]
    /\ UNCHANGED <<called, actors, sendq, inflight, cancelled, calling, log>>

\* A new context, its CancelFunc stored under a.mu; the handler is called.
SetInflight(k) ==
    /\ stage[k] = "taken"
    /\ inflight' = [inflight EXCEPT ![k] = current[k]]
    /\ stage' = [stage EXCEPT ![k] = "handling"]
    /\ UNCHANGED <<called, actors, sendq, queue, current, cancelled, calling, log>>

HandlerReturn(k) ==
    /\ stage[k] = "handling"
    /\ stage' = [stage EXCEPT ![k] = "returned"]
    /\ UNCHANGED <<called, actors, sendq, queue, current, inflight, cancelled, calling, log>>

\* The goroutine calls the CancelFunc itself, then clears a.inflight.
CancelOwn(k) ==
    /\ stage[k] = "returned"
    /\ cancelled' = cancelled \union {current[k]}
    /\ stage' = [stage EXCEPT ![k] = "clearing"]
    /\ UNCHANGED <<called, actors, sendq, queue, current, inflight, calling, log>>

ClearInflight(k) ==
    /\ stage[k] = "clearing"
    /\ inflight' = [inflight EXCEPT ![k] = NoEvent]
    /\ stage' = [stage EXCEPT ![k] = "idle"]
    /\ UNCHANGED <<called, actors, sendq, queue, current, cancelled, calling, log>>

\* The steps of the goroutine outside the handler.
ActorStep(k) == Take(k) \/ SetInflight(k) \/ CancelOwn(k) \/ ClearInflight(k)

--------------------------------------------------------------------------------
(* Cancel(k), called by goroutine x.                                            *)

\* Mutant: what is cancelled is the event at the front of the channel.
CancelRead_Queued(x, k) ==
    /\ k \in actors
    /\ calling[x] = NoEvent
    /\ inflight[k] # NoEvent /\ queue[k] # <<>>
    /\ calling' = [calling EXCEPT ![x] = Head(queue[k])]
    /\ UNCHANGED <<called, actors, sendq, queue, stage, current, inflight, cancelled, log>>

\* There is an actor and it has a CancelFunc; otherwise Cancel does nothing.
CancelRead(x, k) ==
    /\ k \in actors
    /\ calling[x] = NoEvent
    /\ inflight[k] # NoEvent
    /\ calling' = [calling EXCEPT ![x] = inflight[k]]
    /\ UNCHANGED <<called, actors, sendq, queue, stage, current, inflight, cancelled, log>>

CancelCall(x) ==
    /\ calling[x] # NoEvent
    /\ cancelled' = cancelled \union {calling[x]}
    /\ calling' = [calling EXCEPT ![x] = NoEvent]
    /\ UNCHANGED <<called, actors, sendq, queue, stage, current, inflight, log>>

--------------------------------------------------------------------------------
RuntimeNext ==
    \/ \E k \in Key :
          \/ \E e \in Event : EnqueueCall(k, e) \/ EnqueueSend(k, e) \/ EnqueueGiveUp(k, e)
          \/ ActorStep(k) \/ HandlerReturn(k)
          \/ \E x \in Canceller : CancelRead(x, k)
    \/ \E x \in Canceller : CancelCall(x)

\* The goroutine of an actor is scheduled and handlers return; nothing obliges a
\* caller, whose context may end, or a goroutine that calls Cancel.
RuntimeFairness == \A k \in Key : WF_runtimeVars(ActorStep(k)) /\ WF_runtimeVars(HandlerReturn(k))

RuntimeSafe == RuntimeInit /\ [][RuntimeNext]_runtimeVars

RuntimeSpec == RuntimeSafe /\ RuntimeFairness

--------------------------------------------------------------------------------
\* Events of key k that have left the channel.
taken(k) == Len(log[k]) - Len(queue[k])

started  == [k \in Key |-> IF stage[k] = "taken" THEN taken(k) - 1 ELSE taken(k)]
finished == [k \in Key |-> IF stage[k] \in {"taken", "handling"} THEN taken(k) - 1
                                                                ELSE taken(k)]

Serial == INSTANCE ConversationSpec

\* The runtime keeps the promise of ConversationSpec: accepted events are handled
\* once each, one at a time, in the order of acceptance, although callers race for
\* the channel, and a Cancel that is late never reaches an event not yet begun.
ImplementsSerialSpec == Serial!SerialSpec

RuntimeTypeOK ==
    /\ called \subseteq Event /\ actors \subseteq Key
    /\ sendq \in [Key -> SUBSET Event]
    /\ queue \in [Key -> Seq(Event)] /\ \A k \in Key : Len(queue[k]) <= QueueSize
    /\ stage \in [Key -> Stage]
    /\ current \in [Key -> Event \union {NoEvent}]
    /\ inflight \in [Key -> Event \union {NoEvent}]
    /\ cancelled \subseteq Event
    /\ calling \in [Canceller -> Event \union {NoEvent}]
    /\ log \in [Key -> Seq(Event)]

\* What has been taken and what the channel holds make up what was accepted.
QueueIsRestOfLog ==
    \A k \in Key :
        /\ Len(queue[k]) <= Len(log[k])
        /\ \A i \in 1..Len(queue[k]) : queue[k][i] = log[k][taken(k) + i]

\* An actor outside its idle state works on the event it took last, and the
\* CancelFunc it has stored is that event's own.
CurrentIsLastTaken ==
    \A k \in Key :
        /\ stage[k] # "idle" => taken(k) > 0 /\ current[k] = log[k][taken(k)]
        /\ inflight[k] # NoEvent => stage[k] \in {"handling", "returned", "clearing"}
        /\ stage[k] \in {"handling", "returned", "clearing"} => inflight[k] = current[k]

\* Events whose handler has been called.
Begun == {e \in Event : \E k \in Key : \E i \in 1..started[k] : log[k][i] = e}

\* A cancellation, made or about to be made, is one of an event that has begun:
\* the window between reading inflight and calling it does not let a Cancel slip
\* to the next event of the conversation.
OnlyBegunCancelled ==
    /\ cancelled \subseteq Begun
    /\ \A x \in Canceller : calling[x] # NoEvent => calling[x] \in Begun

\* An Enqueue call is in one place: blocked on one channel, or accepted by it.
CallsArePlaced ==
    /\ \A k \in Key : sendq[k] \subseteq called
    /\ \A k \in Key : \A i \in 1..Len(log[k]) :
          log[k][i] \in called /\ \A j \in Key : log[k][i] \notin sendq[j]
    /\ \A k, j \in Key : k # j => sendq[k] \intersect sendq[j] = {}

\* No event is accepted twice.
AcceptedOnce ==
    \A k, j \in Key : \A i \in 1..Len(log[k]), h \in 1..Len(log[j]) :
        log[k][i] = log[j][h] => k = j /\ i = h

\* The strengthening of OnlyBegunCancelled that every step preserves.
RuntimeInv ==
    /\ RuntimeTypeOK
    /\ QueueIsRestOfLog
    /\ CurrentIsLastTaken
    /\ CallsArePlaced
    /\ AcceptedOnce
    /\ OnlyBegunCancelled

================================================================================
