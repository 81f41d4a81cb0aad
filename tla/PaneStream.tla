------------------------------ MODULE PaneStream ------------------------------
(* The output path of one pane: tmux -> realtime feed -> PaneActor -> the      *)
(* bounded outbound queue of every subscribed connection -> the browser        *)
(* (cli/cmd/shellman/runtime_pane_actor.go, runtime_conn_actor.go and the      *)
(* connection loop of runtime_registry_actor.go).                              *)
(*                                                                             *)
(* Four kinds of goroutine meet here: the websocket message loop, which runs   *)
(* Subscribe and Unsubscribe one message at a time; the pane's realtimeLoop;   *)
(* the goroutine that reports the pane closed; and one sender per connection.  *)
(* An action is one critical section of p.mu, one channel operation or one     *)
(* call into tmux, so everything that can interleave in the code interleaves.  *)
(*                                                                             *)
(* The terminal's text is abstracted to numbered output chunks: a capture that *)
(* sees chunks 1..n is the number n, and the append frame of chunk k carries k.*)
EXTENDS Naturals, Sequences, FiniteSets, SequencesExt

CONSTANTS
    Conn,           \* connections that may watch the pane
    Cap,            \* capacity of a connection's outbound channel (128)
    PendingLimit,   \* pendingAppendLimit (64)
    FeedCap,        \* capacity of the realtime channel (128)
    ResetFrames,    \* frames chunkTermData makes of one snapshot
    MaxOut,         \* bound: chunks tmux prints
    MaxSelects,     \* bound: tmux.select_pane messages
    MaxLoops,       \* bound: realtimeLoop goroutines the actor starts
    MaxCloses       \* bound: times the hub reports the pane closed (0 or 1)

ASSUME PaneStreamAssumption ==
    /\ IsFiniteSet(Conn)
    /\ Cap \in Nat \ {0} /\ PendingLimit \in Nat \ {0} /\ FeedCap \in Nat \ {0}
    /\ ResetFrames \in Nat \ {0}
    /\ MaxOut \in Nat /\ MaxSelects \in Nat /\ MaxLoops \in Nat \ {0}
    /\ MaxCloses \in {0, 1}

VARIABLES
    printed,        \* chunks the tmux pane has rendered so far
    alive,          \* the tmux pane still exists
    feed,           \* chunks in the realtime channel of every realtimeLoop
    loops,          \* realtimeLoop goroutines started so far
    active,         \* the hub still delivers to the newest of them (realtimeActive)
    registered,     \* the registry still maps the target to this actor
    subscribers,    \* p.subscribers: the connections with a channel
    resetPending,   \* p.resetPendingByConn
    pendingAppend,  \* p.pendingAppendByConn
    outbound,       \* the channel of every connection
    loop,           \* the message loop inside Subscribe
    rt,             \* every realtimeLoop goroutine inside broadcast
    closer,         \* the goroutine inside onPaneClosed; history: who watched as it
                    \* began and has neither gone nor lost a frame before a Subscribe
    call,           \* its and the message loop's enqueuePaneMessage in progress
    selects,        \* select_pane messages so far
    received,       \* history: what the browser got since its last reset frame,
                    \* as long as nothing was lost
    sawEnded,       \* history: the browser was told that the pane ended
    lossy,          \* history: a frame that still mattered was dropped
    raced,          \* history: an append frame passed while held ones were flushed
    outcome,        \* history: how the connection's last Subscribe came out
    broadcasted     \* history: chunks the realtimeLoop is done with

paneVars == <<subscribers, resetPending, pendingAppend>>
tmuxVars == <<printed, alive, feed, loops, active>>
histVars == <<received, sawEnded, broadcasted, raced>>
vars == <<printed, alive, feed, loops, active, registered, subscribers, resetPending,
          pendingAppend, outbound, loop, rt, closer, call, selects, received,
          sawEnded, lossy, raced, outcome, broadcasted>>

Reset(n)  == [kind |-> "reset", n |-> n]
Part(n)   == [kind |-> "part", n |-> n]      \* later frame of a long snapshot
Live(k)   == [kind |-> "append", n |-> k]
Ended     == [kind |-> "ended", n |-> 0]
Message   == [kind : {"reset", "part", "append", "ended"}, n : 0..MaxOut]

\* Continuation frames of a snapshot are sent in mode "append" too.
isAppendTermOutput(m) == m.kind \in {"part", "append"}

\* The reset frame of snapshot n followed by its continuation frames.
termOutputMessages(n) ==
    <<Reset(n)>> \o [i \in 1..(ResetFrames - 1) |-> Part(n)]

Loop == 1..MaxLoops
NoCall == [at |-> "none"]
Full(c) == Len(outbound[c]) >= Cap

Init ==
    /\ printed = 0 /\ alive = TRUE
    /\ feed = [l \in Loop |-> <<>>] /\ loops = 1 /\ active = TRUE
    /\ registered = TRUE
    /\ subscribers = {} /\ resetPending = {}
    /\ pendingAppend = [c \in Conn |-> <<>>]
    /\ outbound = [c \in Conn |-> <<>>]
    /\ loop = [pc |-> "idle"]
    /\ rt = [l \in Loop |-> [pc |-> "idle"]]
    /\ closer = [pc |-> "idle", todo |-> {}, watching |-> {}]
    /\ call = [p \in {"loop", "closer"} |-> NoCall]
    /\ selects = 0
    /\ received = [c \in Conn |-> <<>>]
    /\ sawEnded = [c \in Conn |-> FALSE]
    /\ lossy = [c \in Conn |-> FALSE]
    /\ raced = [c \in Conn |-> FALSE]
    /\ outcome = [c \in Conn |-> "none"]
    /\ broadcasted = {}

-------------------------------------------------------------------------------
(* tmux and the control-mode hub, as this actor sees them.                     *)

\* tmux renders a chunk and hands it to the control client; the hub drops it
\* when the actor's channel is full.
TmuxOutput ==
    /\ alive /\ printed < MaxOut
    /\ printed' = printed + 1
    /\ feed' = IF active /\ Len(feed[loops]) < FeedCap
               THEN [feed EXCEPT ![loops] = Append(@, printed + 1)] ELSE feed
    /\ UNCHANGED <<alive, loops, active, registered, paneVars, outbound, loop, rt, closer,
                   call, selects, histVars, lossy, outcome>>

TmuxExit ==
    /\ alive
    /\ alive' = FALSE
    /\ UNCHANGED <<printed, feed, loops, active, registered, paneVars, outbound, loop,
                   rt, closer, call, selects, histVars, lossy, outcome>>

-------------------------------------------------------------------------------
(* enqueuePaneMessage: every channel operation is a step of its own, because   *)
(* the sender and the other producers run between them.                        *)

\* The call of producer p is over; the producer goes on with its next frame.
Return(p) == call' = [call EXCEPT ![p] = NoCall]

\* First select: the frame fits, or it is an append frame and is dropped.
EnqueueTry(p) ==
    /\ call[p].at = "try"
    /\ LET c == call[p].conn
           m == call[p].msg
       IN  \/ /\ ~Full(c)
              /\ outbound' = [outbound EXCEPT ![c] = Append(@, m)]
              /\ Return(p)
              /\ UNCHANGED lossy
           \/ /\ Full(c) /\ isAppendTermOutput(m)
              /\ lossy' = [lossy EXCEPT ![c] = TRUE]
              /\ Return(p)
              /\ UNCHANGED outbound
           \/ /\ Full(c) /\ ~isAppendTermOutput(m)
              /\ call' = [call EXCEPT ![p].at = "pop"]
              /\ UNCHANGED <<outbound, lossy>>
    /\ UNCHANGED <<tmuxVars, registered, paneVars, loop, rt, closer, selects, histVars,
                   outcome>>

\* Second select: take the oldest frame out, if the sender has left one. An
\* append frame given up for a reset is superseded by it and is no loss.
EnqueuePop(p) ==
    /\ call[p].at = "pop"
    /\ LET c == call[p].conn
           q == outbound[c]
       IN  \/ /\ q = <<>>
              /\ call' = [call EXCEPT ![p].at = "put"]
              /\ UNCHANGED <<outbound, lossy>>
           \/ /\ q # <<>> /\ isAppendTermOutput(Head(q))
              /\ outbound' = [outbound EXCEPT ![c] = Tail(q)]
              /\ lossy' = [lossy EXCEPT ![c] = @ \/ call[p].msg.kind # "reset"]
              /\ call' = [call EXCEPT ![p].at = "put"]
           \/ /\ q # <<>> /\ ~isAppendTermOutput(Head(q))
              /\ outbound' = [outbound EXCEPT ![c] = Tail(q)]
              /\ call' = [call EXCEPT ![p].at = "putback", ![p].held = Head(q)]
              /\ lossy' = [lossy EXCEPT ![c] = TRUE]
    /\ UNCHANGED <<tmuxVars, registered, paneVars, loop, rt, closer, selects, histVars,
                   outcome>>

\* The frame taken out was not an append frame: it is sent again, which puts it
\* behind the frames that were queued after it, and the new frame is given up.
EnqueuePutBack(p) ==
    /\ call[p].at = "putback"
    /\ LET c == call[p].conn
       IN  /\ outbound' = IF Full(c) THEN outbound
                          ELSE [outbound EXCEPT ![c] = Append(@, call[p].held)]
           /\ lossy' = [lossy EXCEPT ![c] = TRUE]
    /\ Return(p)
    /\ UNCHANGED <<tmuxVars, registered, paneVars, loop, rt, closer, selects, histVars,
                   outcome>>

\* Third select: the freed place may be taken by now.
EnqueuePut(p) ==
    /\ call[p].at = "put"
    /\ LET c == call[p].conn
       IN  /\ outbound' = IF Full(c) THEN outbound
                          ELSE [outbound EXCEPT ![c] = Append(@, call[p].msg)]
           /\ lossy' = [lossy EXCEPT ![c] = @ \/ Full(c)]
    /\ Return(p)
    /\ UNCHANGED <<tmuxVars, registered, paneVars, loop, rt, closer, selects, histVars,
                   outcome>>

enqueuePaneMessage(p) ==
    EnqueueTry(p) \/ EnqueuePop(p) \/ EnqueuePutBack(p) \/ EnqueuePut(p)

\* The call a producer starts for message m to the channel of c.
Calling(c, m) == [at |-> "try", conn |-> c, msg |-> m, held |-> m]

-------------------------------------------------------------------------------
(* PaneActor.Subscribe, on the message loop.                                   *)

\* RegistryActor.Subscribe looks the actor up. A select that comes after the
\* registry has dropped this actor makes a new one and is outside this module.
SelectPane(c, gap) ==
    /\ loop.pc = "idle" /\ selects < MaxSelects /\ registered
    /\ selects' = selects + 1
    /\ loop' = [pc |-> "register", conn |-> c, gap |-> gap, missing |-> FALSE, todo |-> <<>>]
    /\ UNCHANGED <<tmuxVars, registered, paneVars, outbound, rt, closer, call, histVars,
                   lossy, outcome>>

\* Mutant: the connection is registered without being marked as waiting.
SubscribeRegister_NotHeld ==
    /\ loop.pc = "register"
    /\ LET c == loop.conn
       IN  /\ subscribers' = subscribers \union {c}
           /\ pendingAppend' = [pendingAppend EXCEPT ![c] = <<>>]
           /\ lossy' = [lossy EXCEPT ![c] = FALSE]
           /\ raced' = [raced EXCEPT ![c] = FALSE]
           /\ outcome' = [outcome EXCEPT ![c] = "busy"]
           /\ closer' = [closer EXCEPT !.watching = IF lossy[c] THEN @ \ {c} ELSE @]
    /\ loop' = [loop EXCEPT !.pc = "capture"]
    /\ UNCHANGED <<tmuxVars, registered, resetPending, outbound, rt, call, selects,
                   received, sawEnded, broadcasted>>

\* First critical section: from here on realtime output for c is held back.
SubscribeRegister ==
    /\ loop.pc = "register"
    /\ LET c == loop.conn
       IN  /\ subscribers' = subscribers \union {c}
           /\ resetPending' = resetPending \union {c}
           /\ pendingAppend' = [pendingAppend EXCEPT ![c] = <<>>]
           /\ lossy' = [lossy EXCEPT ![c] = FALSE]
           /\ raced' = [raced EXCEPT ![c] = FALSE]
           /\ outcome' = [outcome EXCEPT ![c] = "busy"]
           /\ closer' = [closer EXCEPT !.watching = IF lossy[c] THEN @ \ {c} ELSE @]
    /\ loop' = [loop EXCEPT !.pc = "capture"]
    /\ UNCHANGED <<tmuxVars, registered, outbound, rt, call, selects, received, sawEnded,
                   broadcasted>>

\* The tmux call, without the lock: a snapshot of what is printed by now, or an
\* error, which names a missing pane once tmux has lost it.
SubscribeCapture ==
    /\ loop.pc = "capture"
    /\ \/ /\ alive
          /\ loop' = [loop EXCEPT !.pc = "reset", !.todo = termOutputMessages(printed)]
       \/ loop' = [loop EXCEPT !.pc = "failed", !.missing = ~alive]
    /\ UNCHANGED <<tmuxVars, registered, paneVars, outbound, rt, closer, call, selects,
                   histVars, lossy, outcome>>

\* sendToConn for the next frame of loop.todo: nothing is sent to a connection
\* that has been unsubscribed meanwhile.
SubscribeSend ==
    /\ loop.pc \in {"reset", "pending", "ending"}
    /\ call["loop"] = NoCall
    /\ loop.todo # <<>>
    /\ call' = IF loop.conn \in subscribers
               THEN [call EXCEPT !["loop"] = Calling(loop.conn, Head(loop.todo))]
               ELSE call
    /\ loop' = [loop EXCEPT !.todo = Tail(@)]
    /\ UNCHANGED <<tmuxVars, registered, paneVars, outbound, rt, closer, selects,
                   histVars, lossy, outcome>>

\* clearResetPending: a critical section of its own, before the flush.
SubscribeClear ==
    /\ loop.pc = "reset" /\ loop.todo = <<>> /\ call["loop"] = NoCall
    /\ resetPending' = resetPending \ {loop.conn}
    /\ loop' = [loop EXCEPT !.pc = "flush"]
    /\ UNCHANGED <<tmuxVars, registered, subscribers, pendingAppend, outbound, rt, closer,
                   call, selects, histVars, lossy, outcome>>

\* flushPendingAppends takes the held frames, clearPendingAppends discards them.
SubscribeFlush ==
    /\ loop.pc = "flush"
    /\ pendingAppend' = [pendingAppend EXCEPT ![loop.conn] = <<>>]
    /\ loop' = [loop EXCEPT !.pc = "pending",
                            !.todo = IF loop.gap THEN <<>> ELSE pendingAppend[loop.conn]]
    /\ UNCHANGED <<tmuxVars, registered, subscribers, resetPending, outbound, rt, closer,
                   call, selects, histVars, lossy, outcome>>

\* The capture failed: realtime output is let through again and what was held
\* back stays behind; a missing pane is announced to the connection.
SubscribeFailed ==
    /\ loop.pc = "failed"
    /\ resetPending' = resetPending \ {loop.conn}
    /\ loop' = [loop EXCEPT !.pc = "ending",
                            !.todo = IF loop.missing THEN <<Ended>> ELSE <<>>]
    /\ UNCHANGED <<tmuxVars, registered, subscribers, pendingAppend, outbound, rt, closer,
                   call, selects, histVars, lossy, outcome>>

\* Subscribe ends with ensureRealtimeSubscribed: an actor that was closed
\* meanwhile starts a second realtimeLoop, unless the hub refuses.
SubscribeReturn ==
    /\ loop.pc = "pending" /\ loop.todo = <<>> /\ call["loop"] = NoCall
    /\ \/ ~active /\ loops < MaxLoops /\ active' = TRUE /\ loops' = loops + 1
       \/ UNCHANGED <<active, loops>>
    /\ outcome' = [outcome EXCEPT ![loop.conn] =
                      IF @ # "busy" THEN @ ELSE IF loop.gap THEN "gap" ELSE "ok"]
    /\ loop' = [pc |-> "idle"]
    /\ UNCHANGED <<printed, alive, feed, registered, paneVars, outbound, rt, closer, call,
                   selects, histVars, lossy>>

SubscribeReturnError ==
    /\ loop.pc = "ending" /\ loop.todo = <<>> /\ call["loop"] = NoCall
    /\ outcome' = [outcome EXCEPT ![loop.conn] = IF loop.missing THEN "missing" ELSE "failed"]
    /\ loop' = [pc |-> "idle"]
    /\ UNCHANGED <<tmuxVars, registered, paneVars, outbound, rt, closer, call, selects,
                   histVars, lossy>>

\* The critical section of Unsubscribe.
Unsubscribe(c) ==
    /\ subscribers' = subscribers \ {c}
    /\ resetPending' = resetPending \ {c}
    /\ pendingAppend' = [pendingAppend EXCEPT ![c] = <<>>]

\* The connection selects another pane and this one falls out of its watch list.
EvictWatch(c) ==
    /\ loop.pc = "idle" /\ c \in subscribers
    /\ Unsubscribe(c)
    /\ outcome' = [outcome EXCEPT ![c] = "evicted"]
    /\ closer' = [closer EXCEPT !.watching = @ \ {c}]
    /\ UNCHANGED <<tmuxVars, registered, outbound, loop, rt, call, selects, histVars,
                   lossy>>

SubscribeStep ==
    \/ SubscribeRegister \/ SubscribeCapture \/ SubscribeSend \/ SubscribeClear
    \/ SubscribeFlush \/ SubscribeFailed \/ SubscribeReturn \/ SubscribeReturnError

-------------------------------------------------------------------------------
(* realtimeLoop: broadcast of one chunk to a snapshot of the subscribers. A    *)
(* loop whose subscription was stopped still drains what its channel holds.    *)

RealtimeTake(l) ==
    /\ rt[l].pc = "idle" /\ feed[l] # <<>>
    /\ feed' = [feed EXCEPT ![l] = Tail(@)]
    /\ IF subscribers = {}
       THEN rt' = rt /\ broadcasted' = broadcasted \union {Head(feed[l])}
       ELSE /\ rt' = [rt EXCEPT ![l] = [pc |-> "each", k |-> Head(feed[l]),
                                        todo |-> subscribers]]
            /\ UNCHANGED broadcasted
    /\ UNCHANGED <<printed, alive, loops, active, registered, paneVars, outbound, loop,
                   closer, call, selects, received, sawEnded, lossy, raced, outcome>>

\* The loop is done with connection c, and with the chunk after the last one.
RealtimeNext(l, c) ==
    IF rt[l].todo = {c}
    THEN /\ rt' = [rt EXCEPT ![l] = [pc |-> "idle"]]
         /\ broadcasted' = broadcasted \union {rt[l].k}
    ELSE /\ rt' = [rt EXCEPT ![l] = [pc |-> "each", k |-> rt[l].k,
                                     todo |-> rt[l].todo \ {c}]]
         /\ UNCHANGED broadcasted

\* Mutant: no limit on the held frames.
RealtimeHold_Unbounded(l, c) ==
    /\ rt[l].pc = "each" /\ c \in rt[l].todo
    /\ c \in resetPending
    /\ pendingAppend' = [pendingAppend EXCEPT ![c] = Append(@, Live(rt[l].k))]
    /\ RealtimeNext(l, c)
    /\ UNCHANGED <<tmuxVars, registered, subscribers, resetPending, outbound, loop,
                   closer, call, selects, received, sawEnded, lossy, raced, outcome>>

\* Mutant: a frame that finds no room among the held ones is sent at once.
RealtimeHold_FullPasses(l, c) ==
    /\ rt[l].pc = "each" /\ c \in rt[l].todo
    /\ c \in resetPending
    /\ IF Len(pendingAppend[c]) < PendingLimit
       THEN /\ pendingAppend' = [pendingAppend EXCEPT ![c] = Append(@, Live(rt[l].k))]
            /\ RealtimeNext(l, c)
       ELSE /\ rt' = [rt EXCEPT ![l] = [pc |-> "send", k |-> rt[l].k, todo |-> rt[l].todo,
                                        conn |-> c]]
            /\ UNCHANGED <<pendingAppend, broadcasted>>
    /\ UNCHANGED <<tmuxVars, registered, subscribers, resetPending, outbound, loop,
                   closer, call, selects, received, sawEnded, lossy, raced, outcome>>

\* appendPending keeps the frame for a connection that waits for its reset
\* frame; the oldest held frame makes room.
RealtimeHold(l, c) ==
    /\ rt[l].pc = "each" /\ c \in rt[l].todo
    /\ c \in resetPending
    /\ LET q == pendingAppend[c]
           room == Len(q) < PendingLimit
       IN  /\ pendingAppend' = [pendingAppend EXCEPT
                                 ![c] = Append(IF room THEN q ELSE Tail(q), Live(rt[l].k))]
           /\ lossy' = [lossy EXCEPT ![c] = @ \/ ~room]
    /\ RealtimeNext(l, c)
    /\ UNCHANGED <<tmuxVars, registered, subscribers, resetPending, outbound, loop,
                   closer, call, selects, received, sawEnded, raced, outcome>>

\* appendPending declined; the channel send comes later, after the lock is free.
RealtimePass(l, c) ==
    /\ rt[l].pc = "each" /\ c \in rt[l].todo
    /\ c \notin resetPending
    /\ rt' = [rt EXCEPT ![l] = [pc |-> "send", k |-> rt[l].k, todo |-> rt[l].todo,
                                conn |-> c]]
    /\ UNCHANGED <<tmuxVars, registered, paneVars, outbound, loop, closer, call, selects,
                   histVars, lossy, outcome>>

\* enqueuePaneMessage of an append frame: it fits or it is dropped.
RealtimeSend(l) ==
    /\ rt[l].pc = "send"
    /\ LET c == rt[l].conn
       IN  /\ outbound' = IF Full(c) THEN outbound
                          ELSE [outbound EXCEPT ![c] = Append(@, Live(rt[l].k))]
           /\ lossy' = [lossy EXCEPT ![c] = @ \/ Full(c)]
           /\ raced' = [raced EXCEPT ![c] = @ \/ (/\ loop.pc \in {"flush", "pending"}
                                                 /\ loop.conn = c)]
           /\ RealtimeNext(l, c)
    /\ UNCHANGED <<tmuxVars, registered, paneVars, loop, closer, call, selects, received,
                   sawEnded, outcome>>

RealtimeStep(l) ==
    \/ RealtimeTake(l) \/ RealtimeSend(l)
    \/ \E c \in Conn : RealtimeHold(l, c) \/ RealtimePass(l, c)

-------------------------------------------------------------------------------
(* RegistryActor.onPaneClosed: the hub reports the pane closed, because tmux   *)
(* has lost it or because the control client of its session exited.            *)

ClosePane ==
    /\ closer.pc = "idle" /\ MaxCloses = 1
    /\ registered' = FALSE
    /\ closer' = [closer EXCEPT !.pc = "notify", !.watching = subscribers]
    /\ UNCHANGED <<tmuxVars, paneVars, outbound, loop, rt, call, selects, histVars, lossy,
                   outcome>>

\* Mutant: connections that wait for their reset frame are left out.
NotifyEnded_SkipWaiting ==
    /\ closer.pc = "notify"
    /\ closer' = [closer EXCEPT !.pc = "each", !.todo = subscribers \ resetPending]
    /\ UNCHANGED <<tmuxVars, registered, paneVars, outbound, loop, rt, call, selects,
                   histVars, lossy, outcome>>

\* NotifyEnded broadcasts to a snapshot of the subscribers.
NotifyEnded ==
    /\ closer.pc = "notify"
    /\ closer' = [closer EXCEPT !.pc = "each", !.todo = subscribers]
    /\ UNCHANGED <<tmuxVars, registered, paneVars, outbound, loop, rt, call, selects,
                   histVars, lossy, outcome>>

\* A pane.ended frame is never held back: appendPending takes append frames only.
NotifyEndedSend(c) ==
    /\ closer.pc = "each" /\ c \in closer.todo /\ call["closer"] = NoCall
    /\ call' = [call EXCEPT !["closer"] = Calling(c, Ended)]
    /\ closer' = [closer EXCEPT !.todo = @ \ {c}]
    /\ UNCHANGED <<tmuxVars, registered, paneVars, outbound, loop, rt, selects, histVars,
                   lossy, outcome>>

\* stopStatusEvalTimer and stopRealtime end NotifyEnded.
NotifyEndedReturn ==
    /\ closer.pc = "each" /\ closer.todo = {} /\ call["closer"] = NoCall
    /\ active' = FALSE
    /\ closer' = [closer EXCEPT !.pc = "unsub", !.todo = Conn]
    /\ UNCHANGED <<printed, alive, feed, loops, registered, paneVars, outbound, loop, rt, call,
                   selects, histVars, lossy, outcome>>

\* Every connection of the registry is unsubscribed from the dead actor.
CloseUnsubscribe(c) ==
    /\ closer.pc = "unsub" /\ c \in closer.todo
    /\ Unsubscribe(c)
    /\ outcome' = [outcome EXCEPT ![c] =
                      IF @ \in {"busy", "ok", "gap"} THEN "closed" ELSE @]
    /\ closer' = IF closer.todo = {c} THEN [pc |-> "done", todo |-> {}, watching |-> {}]
                 ELSE [closer EXCEPT !.todo = @ \ {c}]
    /\ UNCHANGED <<tmuxVars, registered, outbound, loop, rt, call, selects, histVars,
                   lossy>>

CloseStep ==
    \/ NotifyEnded \/ NotifyEndedReturn
    \/ \E c \in Conn : NotifyEndedSend(c) \/ CloseUnsubscribe(c)

-------------------------------------------------------------------------------
(* startConnLoopLocked: the sender goroutine of a connection.                  *)

ConnSend(c) ==
    /\ outbound[c] # <<>>
    /\ LET m == Head(outbound[c])
       IN  /\ received' = [received EXCEPT ![c] =
                              CASE m.kind = "reset" -> <<m>>
                                [] lossy[c]         -> <<>>
                                [] OTHER            -> Append(@, m)]
           /\ sawEnded' = [sawEnded EXCEPT ![c] = @ \/ m.kind = "ended"]
    /\ outbound' = [outbound EXCEPT ![c] = Tail(@)]
    /\ UNCHANGED <<tmuxVars, registered, paneVars, loop, rt, closer, call, selects, lossy,
                   raced, outcome, broadcasted>>

\* wsClient.Send fails: the frame is logged and lost, the loop goes on.
ConnSendFails(c) ==
    /\ outbound[c] # <<>>
    /\ outbound' = [outbound EXCEPT ![c] = Tail(@)]
    /\ lossy' = [lossy EXCEPT ![c] = TRUE]
    /\ UNCHANGED <<tmuxVars, registered, paneVars, loop, rt, closer, call, selects,
                   histVars, outcome>>

-------------------------------------------------------------------------------
Next ==
    \/ TmuxOutput \/ TmuxExit
    \/ \E c \in Conn, gap \in BOOLEAN : SelectPane(c, gap)
    \/ \E c \in Conn : EvictWatch(c)
    \/ SubscribeStep
    \/ \E l \in Loop : RealtimeStep(l)
    \/ ClosePane \/ CloseStep
    \/ \E p \in {"loop", "closer"} : enqueuePaneMessage(p)
    \/ \E c \in Conn : ConnSend(c) \/ ConnSendFails(c)

Spec == Init /\ [][Next]_vars

-------------------------------------------------------------------------------
TypeOK ==
    /\ printed \in 0..MaxOut /\ alive \in BOOLEAN /\ active \in BOOLEAN /\ loops \in Loop
    /\ registered \in BOOLEAN
    /\ \A l \in Loop : feed[l] \in Seq(1..MaxOut) /\ Len(feed[l]) <= FeedCap
    /\ subscribers \subseteq Conn /\ resetPending \subseteq subscribers
    /\ \A c \in Conn :
          /\ pendingAppend[c] \in Seq(Message) /\ Len(pendingAppend[c]) <= PendingLimit
          /\ outbound[c] \in Seq(Message) /\ Len(outbound[c]) <= Cap
    /\ loop.pc \in {"idle", "register", "capture", "reset", "flush", "pending",
                    "failed", "ending"}
    /\ \A l \in Loop : rt[l].pc \in {"idle", "each", "send"}
    /\ closer.pc \in {"idle", "notify", "each", "unsub", "done"}
    /\ selects \in 0..MaxSelects

\* What connection c has got or will get, from the last reset it was shown on.
Stream(c) == received[c] \o outbound[c]

\* Position of the newest reset frame of a stream, 0 if there is none.
LastReset(s) == LET resets == {i \in DOMAIN s : s[i].kind = "reset"}
                IN  IF resets = {} THEN 0 ELSE CHOOSE i \in resets : \A j \in resets : j <= i

\* Complete streams. Once Subscribe has returned, and as long as no frame was
\* dropped for lack of room, the connection has the newest snapshot in full and
\* exactly one append frame for every chunk that is newer than it and has been
\* broadcast: registering before the capture and holding frames back until the
\* reset frame is out loses nothing and sends nothing twice.
ExactlyOnceAfterReset ==
    \A c \in Conn : outcome[c] = "ok" /\ ~lossy[c] =>
        LET s == Stream(c)
            r == LastReset(s)
            After(m) == {i \in DOMAIN s : i > r /\ s[i] = m}
        IN  /\ r > 0
            /\ Cardinality(After(Part(s[r].n))) = ResetFrames - 1
            /\ \A k \in broadcasted : k > s[r].n => Cardinality(After(Live(k))) = 1

\* Ordered streams. Append frames follow the snapshot in the order tmux printed
\* them, unless a frame passed between clearResetPending and the end of
\* flushPendingAppends, or two realtimeLoops serve the actor.
InOrderOutsideFlush ==
    \A c \in Conn : outcome[c] = "ok" /\ ~lossy[c] /\ ~raced[c] /\ loops = 1 =>
        LET s == Stream(c)
        IN  \A i, j \in DOMAIN s :
                LastReset(s) < i /\ i < j /\ s[i].kind = "append" /\ s[j].kind = "append"
                    => s[i].n < s[j].n

\* A connection that watched the pane when it was closed has been told so once
\* NotifyEnded is over, unless it dropped the pane itself or a frame was lost:
\* unsubscribing comes last, and a Subscribe under way takes nothing back.
EndedReachesWatchers ==
    closer.pc = "unsub" =>
        \A c \in closer.watching :
            sawEnded[c] \/ lossy[c] \/ Ended \in Range(outbound[c])

-------------------------------------------------------------------------------
(* The inductive invariant.                                                    *)

\* How often m comes after the newest reset frame, and the chunks that do.
After(s, m) == {i \in DOMAIN s : i > LastReset(s) /\ s[i] = m}
Count(s, m) == Cardinality(After(s, m))
Lives(s) == {s[i].n : i \in {j \in DOMAIN s : j > LastReset(s) /\ s[j].kind = "append"}}
Increasing(s) ==
    \A i, j \in DOMAIN s :
        LastReset(s) < i /\ i < j /\ s[i].kind = "append" /\ s[j].kind = "append"
            => s[i].n < s[j].n
Below(A, B) == \A a \in A, b \in B : a < b

Outcome == {"none", "busy", "ok", "gap", "missing", "failed", "evicted", "closed"}
Registering == {"capture", "reset", "flush", "pending", "failed", "ending"}
Sending == {"reset", "pending", "ending"}

UpTo(S, n) == {q \in Seq(S) : Len(q) <= n}
LoopState == [pc : {"register"} \cup Registering, conn : Conn, gap : BOOLEAN,
              missing : BOOLEAN, todo : Seq(Message)]
RtEach == [pc : {"each"}, k : 1..MaxOut, todo : SUBSET Conn]
RtSend == [pc : {"send"}, k : 1..MaxOut, todo : SUBSET Conn, conn : Conn]
CallState == [at : {"try", "pop", "put", "putback"}, conn : Conn, msg : Message, held : Message]
StreamTyped ==
    /\ printed \in 0..MaxOut /\ loops \in Loop /\ selects \in 0..MaxSelects
    /\ alive \in BOOLEAN /\ active \in BOOLEAN /\ registered \in BOOLEAN
    /\ feed \in [Loop -> UpTo(1..MaxOut, FeedCap)]
    /\ subscribers \subseteq Conn /\ resetPending \subseteq subscribers
    /\ pendingAppend \in [Conn -> UpTo(Message, PendingLimit)]
    /\ outbound \in [Conn -> UpTo(Message, Cap)] /\ received \in [Conn -> Seq(Message)]
    /\ lossy \in [Conn -> BOOLEAN] /\ raced \in [Conn -> BOOLEAN]
    /\ sawEnded \in [Conn -> BOOLEAN] /\ outcome \in [Conn -> Outcome]
    /\ loop \in {[pc |-> "idle"]} \cup LoopState
    /\ rt \in [Loop -> {[pc |-> "idle"]} \cup RtEach \cup RtSend]
    /\ closer \in [pc : {"idle", "notify", "each", "unsub", "done"},
                   todo : SUBSET Conn, watching : SUBSET Conn]
    /\ call \in [{"loop", "closer"} -> {NoCall} \cup CallState]

\* A chunk is in one place: not printed, in a feed, in a realtimeLoop, or done with.
FeedNew(l) ==
    \A i \in DOMAIN feed[l] :
        /\ feed[l][i] <= printed /\ feed[l][i] \notin broadcasted
        /\ \A j \in DOMAIN feed[l] : i < j => feed[l][i] < feed[l][j]
RtNew(l) ==
    rt[l].pc # "idle" =>
        /\ rt[l].k <= printed /\ rt[l].k \notin broadcasted
        /\ \A i \in DOMAIN feed[l] : rt[l].k < feed[l][i]
        /\ rt[l].pc = "send" => rt[l].conn \in rt[l].todo
Apart(l, m) ==
    /\ \A i \in DOMAIN feed[l] : \A j \in DOMAIN feed[m] : feed[l][i] # feed[m][j]
    /\ rt[m].pc # "idle" => /\ \A i \in DOMAIN feed[l] : feed[l][i] # rt[m].k
                            /\ rt[l].pc # "idle" => rt[l].k # rt[m].k
ChunksOnce ==
    /\ broadcasted \subseteq 1..printed
    /\ \A l \in Loop : /\ FeedNew(l) /\ RtNew(l)
                       /\ l > loops => feed[l] = <<>> /\ rt[l].pc = "idle"
                       /\ \A m \in Loop \ {l} : Apart(l, m)

\* Where Subscribe is, and what it holds then.
Awaiting(c) == /\ loop.pc = "reset" /\ loop.conn = c
               /\ \/ loop.todo # <<>> /\ Head(loop.todo).kind = "reset"
                  \/ call["loop"] # NoCall /\ call["loop"].msg.kind = "reset"
HeldBack ==
    resetPending \subseteq (IF loop.pc \in {"capture", "reset", "failed"} THEN {loop.conn} ELSE {})
HeldFrames(c) ==
    \A i \in DOMAIN pendingAppend[c] :
        pendingAppend[c][i].kind = "append" /\ pendingAppend[c][i].n <= printed
OutcomeFits(c) ==
    /\ outcome[c] \in {"busy", "ok", "gap"} => c \in subscribers
    /\ outcome[c] = "busy" => loop.pc \in Registering /\ loop.conn = c
    /\ outcome[c] = "busy" /\ loop.pc \in {"capture", "reset"} => c \in resetPending
    /\ outcome[c] = "ok" \/ (outcome[c] = "busy" /\ loop.pc = "pending") => pendingAppend[c] = <<>>
LoopCalls ==
    /\ call["loop"] # NoCall => /\ loop.pc \in Sending /\ call["loop"].conn = loop.conn
                                /\ call["loop"].at = "putback" => lossy[loop.conn]
    /\ loop.pc = "flush" => loop.todo = <<>>
    /\ loop.pc = "reset" =>
          /\ \A i \in DOMAIN loop.todo :
                \/ loop.todo[i].kind = "part"
                \/ loop.todo[i].kind = "reset" /\ i = 1 /\ call["loop"] = NoCall
          /\ call["loop"] # NoCall => call["loop"].msg.kind \in {"reset", "part"}
    /\ loop.pc = "pending" =>
          /\ \A i \in DOMAIN loop.todo : loop.todo[i].kind = "append"
          /\ call["loop"] # NoCall => call["loop"].msg.kind = "append"
    /\ loop.pc = "ending" =>
          /\ \A i \in DOMAIN loop.todo : loop.todo[i].kind = "ended"
          /\ call["loop"] # NoCall => call["loop"].msg.kind = "ended"
LoopFooting ==
    /\ HeldBack /\ LoopCalls
    /\ loop.pc \in Registering => outcome[loop.conn] \in {"busy", "closed"}
    /\ \A c \in Conn : HeldFrames(c) /\ OutcomeFits(c)
    /\ call["closer"] # NoCall => call["closer"].msg = Ended

\* The realtimeLoops are done with chunk k as far as connection c is concerned.
Done(k, c) == \/ k \in broadcasted
              \/ \E l \in Loop : rt[l].pc # "idle" /\ rt[l].k = k /\ c \notin rt[l].todo

\* A connection of which something is claimed, now or once its Subscribe returns.
Sound(c) == /\ ~lossy[c]
            /\ \/ outcome[c] = "ok"
               \/ outcome[c] = "busy" /\ loop.pc \in {"reset", "flush", "pending"} /\ ~loop.gap

\* Its snapshot, and the frames m it has after it or will get.
Busy(c) == loop.pc \in {"reset", "pending"} /\ loop.conn = c
Snapshot(c) == IF ~Awaiting(c) THEN Stream(c)[LastReset(Stream(c))].n
               ELSE IF call["loop"] = NoCall THEN Head(loop.todo).n ELSE call["loop"].msg.n
Frames(c, m) ==
    (IF Awaiting(c) THEN 0
     ELSE Count(Stream(c), m)
            + (IF Busy(c) /\ call["loop"] # NoCall /\ call["loop"].msg = m THEN 1 ELSE 0))
      + (IF Busy(c) THEN Count(loop.todo, m) ELSE 0)
      + Count(pendingAppend[c], m)

\* What is claimed of it: the snapshot whole, and every newer chunk once or not yet.
Whole(c) ==
    /\ ~Awaiting(c) => LastReset(Stream(c)) > 0
    /\ Snapshot(c) <= printed
    /\ Frames(c, Part(Snapshot(c))) = ResetFrames - 1
    /\ \A k \in 1..MaxOut : k > Snapshot(c) => Frames(c, Live(k)) = IF Done(k, c) THEN 1 ELSE 0
    /\ Awaiting(c) => \A l \in Loop : rt[l].pc = "send" /\ rt[l].conn = c
                                        => rt[l].k <= Snapshot(c)
FramesWhole == \A c \in Conn : Sound(c) => Whole(c)

\* And in order, from the sender's end to the hub's.
Shown(c)  == IF Awaiting(c) THEN {} ELSE Lives(Stream(c))
Called(c) == IF Busy(c) /\ call["loop"] # NoCall /\ call["loop"].msg.kind = "append"
             THEN {call["loop"].msg.n} ELSE {}
Going(c)  == IF Busy(c) THEN Lives(loop.todo) ELSE {}
Held(c)   == Lives(pendingAppend[c])
Coming(c) == UNION {LET fed == {feed[l][i] : i \in DOMAIN feed[l]}
                    IN  IF rt[l].pc # "idle" /\ c \in rt[l].todo THEN fed \cup {rt[l].k} ELSE fed
                    : l \in Loop}
HeldInOrder(c) == Increasing(pendingAppend[c]) /\ Below(Held(c), Coming(c))
Ordered(c) ==
    /\ ~Awaiting(c) => Increasing(Stream(c))
    /\ Busy(c) => Increasing(loop.todo)
    /\ Below(Shown(c), Called(c)) /\ Below(Shown(c), Going(c)) /\ Below(Called(c), Going(c))
    /\ Below(Shown(c), Held(c))
    /\ Below(Shown(c) \cup Called(c) \cup Going(c), Coming(c))
PassedUnheld(c) ==
    \A l \in Loop : rt[l].pc = "send" /\ rt[l].conn = c /\ c \in resetPending
                      => pendingAppend[c] = <<>>
FramesOrdered ==
    loops = 1 => \A c \in Conn : /\ HeldInOrder(c) /\ PassedUnheld(c)
                                 /\ Sound(c) /\ ~raced[c] => Ordered(c)

\* Who watched the pane as it was closed is about to be told.
EndedTold ==
    /\ closer.pc = "idle" => closer.watching = {}
    /\ closer.pc = "notify" => closer.watching \subseteq subscribers
    /\ closer.pc \in {"each", "unsub"} =>
          \A c \in closer.watching :
              \/ sawEnded[c] \/ lossy[c] \/ Ended \in Range(outbound[c])
              \/ closer.pc = "each" /\ c \in closer.todo
              \/ closer.pc = "each" /\ call["closer"] # NoCall /\ call["closer"].conn = c

StreamInv == /\ StreamTyped /\ ChunksOnce /\ LoopFooting /\ FramesWhole /\ FramesOrdered
             /\ EndedTold

===============================================================================
