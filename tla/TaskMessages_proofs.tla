-------------------------- MODULE TaskMessages_proofs --------------------------
(* Proofs about TaskMessages for any tasks, relations between them, stop        *)
(* requests, runners and size of the queue: its inductive invariant and, from   *)
(* it, that no row is left running and that replies form a chain.               *)
EXTENDS TaskMessages, TLAPS, WellFoundedInduction

\* The bounds are numbers; turns are numbered from 1.
LEMMA Bounds ==
    /\ QueueSize \in Nat \ {0} /\ MaxTurns \in Nat /\ MaxStoreErrors \in Nat /\ MaxCrashes \in Nat
    /\ Turn \subseteq Nat \ {0} /\ NoTurn \notin Turn /\ NoTurn = 0
    /\ Related \subseteq Task \X Task /\ Runner \subseteq {"context", "plain"}
  BY TaskMessagesAssumption DEF Turn, NoTurn

\* A set of numbers that is bounded and not empty has a greatest member.
LEMMA Greatest ==
    ASSUME NEW n \in Nat, NEW S, S \subseteq 1..n, S # {}
    PROVE  \E i \in S : \A j \in S : j <= i
<1> DEFINE T == {n - i : i \in S}
<1>1. T \subseteq Nat /\ T # {}
  <2>1. \A i \in S : n - i \in Nat
    OBVIOUS
  <2>2. PICK i \in S : TRUE
    OBVIOUS
  <2>3. n - i \in T
    OBVIOUS
  <2>. QED
    BY <2>1, <2>3
<1>2. IsWellFoundedOn(OpToRel(<, Nat), Nat)
  BY NatLessThanWellFounded
<1>3. \E x \in T : \A y \in T : ~ (<<y, x>> \in OpToRel(<, Nat))
  BY <1>1, <1>2, WFMin
<1>4. PICK x \in T : \A y \in T : ~ (<<y, x>> \in OpToRel(<, Nat))
  BY <1>3
<1>5. \A y \in T : ~ (y < x)
  BY <1>1, <1>4 DEF OpToRel
<1>6. PICK i \in S : x = n - i
  OBVIOUS
<1>7. \A j \in S : j <= i
  <2>1. \A j \in S : n - j \in T
    OBVIOUS
  <2>. QED
    BY <1>5, <1>6, <2>1
<1>. QED
  BY <1>7

\* What a sequence holds after one more has come, and after the first has been taken.
LEMMA Appended ==
    ASSUME NEW S, NEW q \in Seq(S), NEW e \in S
    PROVE  /\ Append(q, e) \in Seq(S) /\ Len(q) \in Nat /\ Len(Append(q, e)) = Len(q) + 1
           /\ DOMAIN q = 1..Len(q) /\ DOMAIN Append(q, e) = 1..(Len(q) + 1)
           /\ \A i \in 1..Len(q) : Append(q, e)[i] = q[i]
           /\ Append(q, e)[Len(q) + 1] = e
           /\ \A i \in DOMAIN Append(q, e) :
                 \/ i \in DOMAIN q /\ Append(q, e)[i] = q[i]
                 \/ i = Len(q) + 1 /\ Append(q, e)[i] = e
  OBVIOUS

LEMMA Taken ==
    ASSUME NEW S, NEW q \in Seq(S), q # <<>>
    PROVE  /\ Head(q) = q[1] /\ 1 \in DOMAIN q /\ q[1] \in S
           /\ Tail(q) \in Seq(S) /\ Len(q) \in Nat /\ Len(Tail(q)) = Len(q) - 1
           /\ \A i \in DOMAIN Tail(q) :
                 i \in Nat /\ i + 1 \in DOMAIN q /\ i + 1 # 1 /\ Tail(q)[i] = q[i + 1]
  OBVIOUS

\* Rows are numbered from 1, the handler's and the stops' among them.
LEMMA RowsTyped ==
    ASSUME TypeOK
    PROVE  /\ \A t \in Task : /\ rows[t] \in Seq(Row) /\ Len(rows[t]) \in Nat
                              /\ DOMAIN rows[t] = 1..Len(rows[t])
                              /\ \A i \in DOMAIN rows[t] : rows[t][i] \in Row /\ i \in Nat
           /\ \A t \in Task : /\ queue[t] \in Seq(Turn) /\ Len(queue[t]) \in Nat
                              /\ DOMAIN queue[t] = 1..Len(queue[t])
                              /\ \A i \in DOMAIN queue[t] : queue[t][i] \in Turn
                              /\ sendq[t] \subseteq Turn /\ current[t] \in Turn \union {NoTurn}
           /\ called \subseteq Turn
           /\ \A t \in Task : /\ handler[t].pc \in HandlerPc /\ handler[t].row \in Nat
                              /\ handler[t].prev \in {NoTurn} \union Turn
                              /\ handler[t].tool \in {NoTurn} \union Turn
<1>1. rows \in [Task -> Seq(Row)] /\ Runtime!RuntimeTypeOK
  BY DEF TypeOK
<1>2. \A t \in Task : rows[t] \in Seq(Row)
  BY <1>1
<1>3. \A t \in Task : /\ queue[t] \in Seq(Turn) /\ sendq[t] \subseteq Turn
                      /\ current[t] \in Turn \union {NoTurn}
  BY <1>1 DEF Runtime!RuntimeTypeOK
<1>4. \A t \in Task : handler[t] \in [pc : HandlerPc, row : Nat, prev : {NoTurn} \union Turn,
                                      tool : {NoTurn} \union Turn,
                                      out : {"none"} \union ContextOutcome]
  BY DEF TypeOK
<1>. QED
  BY <1>1, <1>2, <1>3, <1>4 DEF Runtime!RuntimeTypeOK

\* Nothing has been posted.
LEMMA InvInit == Init => MessagesInv
<1> SUFFICES ASSUME Init PROVE MessagesInv
  OBVIOUS
<1>. USE Bounds DEF Init
<1>1. Runtime!RuntimeTypeOK
  BY DEF Runtime!RuntimeInit, Runtime!RuntimeTypeOK, Runtime!Stage
<1>2. TypeOK
  <2>1. NoHandler \in [pc : HandlerPc, row : Nat, prev : {NoTurn} \union Turn,
                       tool : {NoTurn} \union Turn, out : {"none"} \union ContextOutcome]
    BY DEF NoHandler, Handler, HandlerPc
  <2>2. NotStopping \in [pc : {"idle", "cancel", "write", "done"},
                         task : Task \union {"none"}, row : Nat, answered : BOOLEAN]
        /\ NotStopping.pc = "idle"
    BY DEF NotStopping
  <2>3. \A t \in Task : rows[t] = <<>> /\ runOf[t] = 0
    OBVIOUS
  <2>4. <<>> \in Seq(Row) /\ Len(<<>>) = 0
    OBVIOUS
  <2>5. /\ rows \in [Task -> Seq(Row)] /\ runOf \in [Task -> Nat]
        /\ \A t \in Task : runOf[t] \in 0..Len(rows[t])
    BY <2>3, <2>4
  <2>. QED
    BY <1>1, <2>1, <2>2, <2>5 DEF TypeOK
<1>3. /\ \A t \in Task : rows[t] = <<>> /\ queue[t] = <<>> /\ sendq[t] = {} /\ stage[t] = "idle"
      /\ \A t \in Task : handler[t].pc = "none"
  BY DEF Runtime!RuntimeInit, NoHandler, Handler
<1>4. TurnsInv
  BY <1>3 DEF TurnsInv, AwaitedHaveNoRow, AwaitedOnce, RowsOfOneTask, HandlesTaken, Awaits,
              Queued, Beginning
<1>5. RowsInv
  BY <1>3 DEF RowsInv, WorksOnNewestRow, AbandonedRunning, StopsReachNoAbandoned,
              FirstRowUntouched, PreviousIsNewest, RunningRowsOwned, RepliesChain, OnRow, At
<1>. QED
  BY <1>2, <1>4, <1>5 DEF MessagesInv

--------------------------------------------------------------------------------
(* Frames: what keeps the parts of the invariant.                               *)

\* Turns do not come back to a queue, nor start over, and rows keep their turns.
LEMMA TurnsFrame ==
    ASSUME TypeOK, AwaitedHaveNoRow, AwaitedOnce, RowsOfOneTask,
           called \subseteq called',
           \A t \in Task : sendq'[t] \subseteq sendq[t],
           \A t \in Task : queue'[t] = queue[t] \/ queue'[t] = <<>>,
           \A t \in Task : Beginning(t)' => Beginning(t) /\ current'[t] = current[t],
           \A t \in Task : /\ DOMAIN rows'[t] = DOMAIN rows[t]
                           /\ \A i \in DOMAIN rows[t] : rows'[t][i].turn = rows[t][i].turn
    PROVE  AwaitedHaveNoRow' /\ AwaitedOnce' /\ RowsOfOneTask'
<1>1. \A t \in Task, e \in Turn : Queued(t, e)' => Queued(t, e)
  BY DEF Queued
<1>2. \A t \in Task, e \in Turn : Awaits(t, e)' => Awaits(t, e)
  BY <1>1 DEF Awaits
<1>3. AwaitedHaveNoRow'
  BY <1>2 DEF AwaitedHaveNoRow
<1>4. AwaitedOnce'
  <2>1. \A t, u \in Task, e \in Turn : Awaits(t, e)' /\ Awaits(u, e)' => t = u
    BY <1>2 DEF AwaitedOnce
  <2>2. \A t \in Task : /\ \A i \in DOMAIN queue'[t] : queue'[t][i] \notin sendq'[t]
                        /\ \A i, j \in DOMAIN queue'[t] : queue'[t][i] = queue'[t][j] => i = j
    BY DEF AwaitedOnce
  <2>3. \A t \in Task : Beginning(t)' => ~Queued(t, current[t])'
    BY DEF AwaitedOnce, Queued
  <2>. QED
    BY <2>1, <2>2, <2>3 DEF AwaitedOnce, Queued
<1>5. RowsOfOneTask'
  BY DEF RowsOfOneTask
<1>. QED
  BY <1>3, <1>4, <1>5

\* The newest response before a row depends on the rows before it only.
LEMMA ContinuesKept ==
    ASSUME NEW rs, NEW qs, NEW j \in Nat, NEW p, \A i \in 1..(j - 1) : qs[i].resp = rs[i].resp
    PROVE  Continues(qs, j, p) <=> Continues(rs, j, p)
  BY DEF Continues

\* No row changes. Handlers stay on their rows or leave them settled or spoiled,
\* and a stop gets hold of no row but the newest of a task.
LEMMA RowsFrame ==
    ASSUME TypeOK, RowsInv, rows' = rows, runner' = runner, unsettled \subseteq unsettled',
           \A t \in Task : OnRow(t)' =>
              /\ OnRow(t) /\ current'[t] = current[t]
              /\ handler'[t].row = handler[t].row /\ handler'[t].prev = handler[t].prev
              /\ At(t, "unwind") => At(t, "unwind")',
           \A t \in Task : At(t, "again")' => At(t, "again"),
           \A t \in Task : At(t, "assistant")' =>
              Continues(rows[t], Len(rows[t]) + 1, handler'[t].prev),
           \A t \in Task : \A i \in DOMAIN rows[t] : Reachable(t, i)' =>
              Reachable(t, i) \/ (i = Len(rows[t]) /\ ~At(t, "again")'),
           \A t \in Task : OnRow(t) /\ ~At(t, "unwind") =>
              \/ OnRow(t)' /\ ~At(t, "unwind")'
              \/ rows[t][Len(rows[t])].status # "running"
              \/ rows[t][Len(rows[t])].turn \in unsettled'
    PROVE  RowsInv'
<1>. USE DEF RowsInv
<1>0. \A t \in Task : Len(rows[t]) \in Nat /\ DOMAIN rows[t] = 1..Len(rows[t])
  BY RowsTyped
<1>1. WorksOnNewestRow'
  BY DEF WorksOnNewestRow
<1>2. AbandonedRunning'
  BY DEF AbandonedRunning
<1>3. StopsReachNoAbandoned'
  <2> SUFFICES ASSUME NEW t \in Task, NEW i \in DOMAIN rows[t], Reachable(t, i)'
               PROVE  /\ \A j \in DOMAIN rows[t] : i < j => rows[t][i].turn # rows[t][j].turn
                      /\ ~(At(t, "again")' /\ i = Len(rows[t]))
    BY DEF StopsReachNoAbandoned, At, Reachable
  <2>1. CASE Reachable(t, i)
    BY <2>1 DEF StopsReachNoAbandoned
  <2>2. CASE i = Len(rows[t]) /\ ~At(t, "again")'
    BY <2>2, <1>0
  <2>. QED
    BY <2>1, <2>2
<1>4. FirstRowUntouched'
  <2> SUFFICES ASSUME NEW t \in Task, At(t, "again")'
               PROVE  runner = "plain" /\ rows[t][Len(rows[t])].status = "running"
    BY DEF FirstRowUntouched, At
  <2>. QED
    BY DEF FirstRowUntouched
<1>7. PreviousIsNewest'
  <2>1. \A t \in Task : OnRow(t)' /\ ~At(t, "unwind")' =>
            /\ rows[t][Len(rows[t])].prev = handler'[t].prev
            /\ rows[t][Len(rows[t])].resp = NoTurn
            /\ Continues(rows[t], Len(rows[t]), handler'[t].prev)
    BY DEF PreviousIsNewest
  <2>. QED
    BY <2>1 DEF PreviousIsNewest, At, OnRow
<1>8. RepliesChain'
  BY DEF RepliesChain
<1>9. RunningRowsOwned'
  <2> SUFFICES ASSUME NEW t \in Task, NEW i \in DOMAIN rows[t], rows[t][i].status = "running"
               PROVE  \/ rows[t][i].turn \in unsettled'
                      \/ /\ handler'[t].row = i
                         /\ handler'[t].pc \in {"again", "register", "run", "tool", "settle"}
                      \/ /\ runner = "plain"
                         /\ \E j \in DOMAIN rows[t] : j > i /\ rows[t][j].turn = rows[t][i].turn
    BY DEF RunningRowsOwned
  <2>1. CASE rows[t][i].turn \in unsettled
    BY <2>1
  <2>2. CASE /\ handler[t].row = i
             /\ handler[t].pc \in {"again", "register", "run", "tool", "settle"}
    <3>1. OnRow(t) /\ ~At(t, "unwind") /\ i = Len(rows[t])
      BY <2>2 DEF OnRow, At, WorksOnNewestRow
    <3>2. CASE OnRow(t)' /\ ~At(t, "unwind")'
      BY <2>2, <3>2 DEF OnRow, At
    <3>3. CASE rows[t][Len(rows[t])].turn \in unsettled'
      BY <3>1, <3>3
    <3>. QED
      BY <3>1, <3>2, <3>3
  <2>. QED
    BY <2>1, <2>2 DEF RunningRowsOwned
<1>. QED
  BY <1>1, <1>2, <1>3, <1>4, <1>7, <1>8, <1>9

--------------------------------------------------------------------------------
(* The queue's steps.                                                           *)

\* Every step of the queue keeps the types of its state.
LEMMA QueueTyped ==
    ASSUME TypeOK, HandlesTaken, NEW t \in Task, NEW e \in Turn,
           \/ Runtime!EnqueueCall(t, e) \/ Runtime!EnqueueSend(t, e)
           \/ Runtime!EnqueueGiveUp(t, e) \/ Runtime!Take(t) \/ Runtime!SetInflight(t)
           \/ Runtime!HandlerReturn(t) \/ Runtime!CancelOwn(t) \/ Runtime!ClearInflight(t)
    PROVE  Runtime!RuntimeTypeOK'
<1>. USE Bounds DEF Runtime!RuntimeTypeOK
<1>0. Runtime!RuntimeTypeOK
  BY DEF TypeOK
<1>1. CASE Runtime!EnqueueCall(t, e)
  BY <1>0, <1>1 DEF Runtime!EnqueueCall
<1>2. CASE Runtime!EnqueueSend(t, e)
  <2>1. queue[t] \in Seq(Turn) /\ log[t] \in Seq(Turn)
    BY <1>0
  <2>2. /\ Append(queue[t], e) \in Seq(Turn) /\ Append(log[t], e) \in Seq(Turn)
        /\ Len(Append(queue[t], e)) <= QueueSize
    BY <1>2, <2>1, Appended DEF Runtime!EnqueueSend
  <2>3. /\ queue' = [queue EXCEPT ![t] = Append(queue[t], e)]
        /\ log' = [log EXCEPT ![t] = Append(log[t], e)]
        /\ sendq' = [sendq EXCEPT ![t] = sendq[t] \ {e}]
        /\ UNCHANGED <<called, actors, stage, current, inflight, cancelled, calling>>
    BY <1>2, <1>0 DEF Runtime!EnqueueSend
  <2>4. queue' \in [Task -> Seq(Turn)] /\ log' \in [Task -> Seq(Turn)]
        /\ sendq' \in [Task -> SUBSET Turn]
    BY <1>0, <2>2, <2>3
  <2>5. \A u \in Task : Len(queue'[u]) <= QueueSize
    BY <1>0, <2>2, <2>3
  <2>. QED
    BY <1>0, <2>3, <2>4, <2>5
<1>3. CASE Runtime!EnqueueGiveUp(t, e)
  BY <1>0, <1>3 DEF Runtime!EnqueueGiveUp
<1>4. CASE Runtime!Take(t)
  <2>1. queue[t] \in Seq(Turn) /\ queue[t] # <<>> /\ Len(queue[t]) <= QueueSize
    BY <1>0, <1>4 DEF Runtime!Take
  <2>2. /\ Tail(queue[t]) \in Seq(Turn) /\ Head(queue[t]) \in Turn
        /\ Len(Tail(queue[t])) <= QueueSize
    BY <2>1, Taken
  <2>3. /\ queue' = [queue EXCEPT ![t] = Tail(queue[t])]
        /\ current' = [current EXCEPT ![t] = Head(queue[t])]
        /\ stage' = [stage EXCEPT ![t] = "taken"]
        /\ UNCHANGED <<called, actors, sendq, inflight, cancelled, calling, log>>
    BY <1>0, <1>4 DEF Runtime!Take
  <2>4. queue' \in [Task -> Seq(Turn)] /\ \A u \in Task : Len(queue'[u]) <= QueueSize
    BY <1>0, <2>2, <2>3
  <2>5. current' \in [Task -> Turn \union {NoTurn}] /\ stage' \in [Task -> Runtime!Stage]
    BY <1>0, <2>2, <2>3 DEF Runtime!Stage
  <2>. QED
    BY <1>0, <2>3, <2>4, <2>5
<1>5. CASE Runtime!SetInflight(t)
  BY <1>0, <1>5 DEF Runtime!SetInflight, Runtime!Stage
<1>6. CASE Runtime!HandlerReturn(t)
  BY <1>0, <1>6 DEF Runtime!HandlerReturn, Runtime!Stage
<1>7. CASE Runtime!CancelOwn(t)
  <2>1. stage' \in [Task -> Runtime!Stage]
    BY <1>0, <1>7 DEF Runtime!CancelOwn, Runtime!Stage
  <2>2. current[t] \in Turn
    BY <1>0, <1>7 DEF Runtime!CancelOwn, HandlesTaken
  <2>. QED
    BY <1>0, <1>7, <2>1, <2>2 DEF Runtime!CancelOwn
<1>8. CASE Runtime!ClearInflight(t)
  BY <1>0, <1>8 DEF Runtime!ClearInflight, Runtime!Stage
<1>. QED
  BY <1>1, <1>2, <1>3, <1>4, <1>5, <1>6, <1>7, <1>8

\* A message is posted under a number nobody has used.
LEMMA TurnsPosted ==
    ASSUME TypeOK, TurnsInv, NEW t \in Task, NEW e \in Turn, Runtime!EnqueueCall(t, e),
           rows' = rows, \A u \in Task : Beginning(u)' <=> Beginning(u),
           \A u \in Task : handler'[u].pc # "none" => handler[u].pc # "none"
    PROVE  TurnsInv'
<1>. USE DEF TurnsInv, Runtime!EnqueueCall
<1>1. /\ e \notin called /\ called' = called \union {e}
      /\ queue' = queue /\ current' = current /\ stage' = stage
      /\ sendq'[t] = sendq[t] \union {e} /\ \A u \in Task : u # t => sendq'[u] = sendq[u]
  BY DEF TypeOK, Runtime!RuntimeTypeOK
<1>2. \A u \in Task, f \in Turn :
          Queued(u, f)' <=> Queued(u, f) \/ (u = t /\ f = e)
  BY <1>1 DEF Queued
<1>3. \A u \in Task, f \in Turn :
          Awaits(u, f)' <=> Awaits(u, f) \/ (u = t /\ f = e)
  BY <1>1, <1>2 DEF Awaits
<1>4. \A u \in Task : ~Awaits(u, e)
  BY <1>1 DEF AwaitedHaveNoRow
<1>5. \A u \in Task : \A i \in DOMAIN rows[u] : rows[u][i].turn # e
  BY <1>1 DEF RowsOfOneTask
<1>6. AwaitedHaveNoRow'
  BY <1>1, <1>3, <1>5 DEF AwaitedHaveNoRow
<1>7. AwaitedOnce'
  <2>1. \A u, v \in Task, f \in Turn : Awaits(u, f)' /\ Awaits(v, f)' => u = v
    BY <1>3, <1>4 DEF AwaitedOnce
  <2>2. \A u \in Task : \A i \in DOMAIN queue[u] : queue[u][i] \in Turn /\ queue[u][i] # e
    BY <1>4, RowsTyped DEF Awaits, Queued
  <2>3. \A u \in Task : /\ \A i \in DOMAIN queue'[u] : queue'[u][i] \notin sendq'[u]
                        /\ \A i, j \in DOMAIN queue'[u] : queue'[u][i] = queue'[u][j] => i = j
    BY <1>1, <2>2 DEF AwaitedOnce
  <2>4. \A u \in Task : Beginning(u)' => ~Queued(u, current[u])'
    <3> SUFFICES ASSUME NEW u \in Task, Beginning(u) PROVE ~Queued(u, current[u])'
      OBVIOUS
    <3>1. current[u] \in called
      BY DEF HandlesTaken, Beginning
    <3>2. current[u] # e /\ ~Queued(u, current[u])
      BY <1>1, <3>1 DEF AwaitedOnce
    <3>. QED
      BY <1>1, <3>2 DEF Queued
  <2>. QED
    BY <2>1, <2>3, <2>4 DEF AwaitedOnce, Queued
<1>8. RowsOfOneTask'
  BY <1>1 DEF RowsOfOneTask
<1>9. HandlesTaken'
  BY <1>1 DEF HandlesTaken
<1>. QED
  BY <1>6, <1>7, <1>8, <1>9

\* A caller's message moves into the channel.
LEMMA TurnsSent ==
    ASSUME TypeOK, TurnsInv, NEW t \in Task, NEW e \in Turn, Runtime!EnqueueSend(t, e),
           rows' = rows, handler' = handler
    PROVE  TurnsInv'
<1>. USE DEF TurnsInv
<1>1. /\ e \in sendq[t] /\ called' = called /\ current' = current /\ stage' = stage
      /\ queue'[t] = Append(queue[t], e) /\ \A u \in Task : u # t => queue'[u] = queue[u]
      /\ sendq'[t] = sendq[t] \ {e} /\ \A u \in Task : u # t => sendq'[u] = sendq[u]
  BY DEF TypeOK, Runtime!RuntimeTypeOK, Runtime!EnqueueSend
<1>2. queue[t] \in Seq(Turn)
  BY RowsTyped
<1>3. /\ DOMAIN queue[t] = 1..Len(queue[t]) /\ Len(queue[t]) \in Nat
      /\ DOMAIN queue'[t] = 1..(Len(queue[t]) + 1)
      /\ \A i \in DOMAIN queue[t] : i \in DOMAIN queue'[t] /\ queue'[t][i] = queue[t][i]
      /\ queue'[t][Len(queue[t]) + 1] = e
      /\ \A i \in DOMAIN queue'[t] : \/ i \in DOMAIN queue[t] /\ queue'[t][i] = queue[t][i]
                                     \/ i = Len(queue[t]) + 1 /\ queue'[t][i] = e
  BY <1>1, <1>2, Appended
<1>4. \A u \in Task, f \in Turn : Queued(u, f)' <=> Queued(u, f)
  <2> SUFFICES ASSUME NEW u \in Task, NEW f \in Turn PROVE Queued(u, f)' <=> Queued(u, f)
    OBVIOUS
  <2>1. CASE u # t
    BY <1>1, <2>1 DEF Queued
  <2>2. CASE u = t
    <3>1. (\E i \in DOMAIN queue'[t] : queue'[t][i] = f)
             <=> f = e \/ \E i \in DOMAIN queue[t] : queue[t][i] = f
      <4>1. Len(queue[t]) + 1 \in DOMAIN queue'[t]
        BY <1>3
      <4>. QED
        BY <1>3, <4>1
    <3>. QED
      BY <1>1, <2>2, <3>1 DEF Queued
  <2>. QED
    BY <2>1, <2>2
<1>5. \A u \in Task, f \in Turn : Awaits(u, f)' <=> Awaits(u, f)
  BY <1>1, <1>4 DEF Awaits, Beginning
<1>6. AwaitedHaveNoRow'
  BY <1>1, <1>5 DEF AwaitedHaveNoRow
<1>7. AwaitedOnce'
  <2>1. \A u, v \in Task, f \in Turn : Awaits(u, f)' /\ Awaits(v, f)' => u = v
    BY <1>5 DEF AwaitedOnce
  <2>2. \A i \in DOMAIN queue[t] : queue[t][i] \notin sendq[t] /\ queue[t][i] # e
    BY <1>1 DEF AwaitedOnce
  <2>3. \A u \in Task : \A i \in DOMAIN queue'[u] : queue'[u][i] \notin sendq'[u]
    BY <1>1, <1>3, <2>2 DEF AwaitedOnce
  <2>4. \A u \in Task : \A i, j \in DOMAIN queue'[u] : queue'[u][i] = queue'[u][j] => i = j
    <3> SUFFICES ASSUME NEW u \in Task, NEW i \in DOMAIN queue'[u], NEW j \in DOMAIN queue'[u],
                        queue'[u][i] = queue'[u][j]
                 PROVE  i = j
      OBVIOUS
    <3>1. CASE u # t
      BY <1>1, <3>1 DEF AwaitedOnce
    <3>2. CASE u = t /\ i \in DOMAIN queue[t] /\ j \in DOMAIN queue[t]
      BY <1>3, <3>2 DEF AwaitedOnce
    <3>. QED
      BY <1>3, <2>2, <3>1, <3>2
  <2>5. \A u \in Task : Beginning(u)' => ~Queued(u, current[u])'
    <3> SUFFICES ASSUME NEW u \in Task, Beginning(u) PROVE ~Queued(u, current[u])'
      BY <1>1 DEF Beginning
    <3>1. current[u] \in Turn /\ ~Queued(u, current[u])
      BY RowsTyped DEF HandlesTaken, Beginning, AwaitedOnce
    <3>. QED
      BY <1>1, <1>4, <3>1 DEF Queued
  <2>. QED
    BY <2>1, <2>3, <2>4, <2>5 DEF AwaitedOnce, Queued
<1>8. RowsOfOneTask' /\ HandlesTaken'
  BY <1>1 DEF RowsOfOneTask, HandlesTaken
<1>. QED
  BY <1>6, <1>7, <1>8

\* The first turn of the channel is begun.
LEMMA TurnsTaken ==
    ASSUME TypeOK, TurnsInv, NEW t \in Task, Runtime!Take(t), rows' = rows, handler' = handler
    PROVE  TurnsInv'
<1>. USE DEF TurnsInv
<1>1. /\ queue[t] # <<>> /\ stage[t] = "idle"
      /\ called' = called /\ sendq' = sendq
      /\ current'[t] = Head(queue[t]) /\ \A u \in Task : u # t => current'[u] = current[u]
      /\ stage'[t] = "taken" /\ \A u \in Task : u # t => stage'[u] = stage[u]
      /\ queue'[t] = Tail(queue[t]) /\ \A u \in Task : u # t => queue'[u] = queue[u]
  BY DEF TypeOK, Runtime!RuntimeTypeOK, Runtime!Take
<1>2. queue[t] \in Seq(Turn)
  BY RowsTyped
<1>3. /\ Head(queue[t]) = queue[t][1] /\ 1 \in DOMAIN queue[t] /\ queue[t][1] \in Turn
      /\ \A i \in DOMAIN queue'[t] : /\ i \in Nat /\ i + 1 \in DOMAIN queue[t] /\ i + 1 # 1
                                     /\ queue'[t][i] = queue[t][i + 1]
  BY <1>1, <1>2, Taken
<1> DEFINE h == queue[t][1]
<1>4. handler[t].pc = "none"
  BY <1>1 DEF HandlesTaken
<1>5. /\ ~Beginning(t) /\ Beginning(t)' /\ \A u \in Task : u # t => (Beginning(u)' <=> Beginning(u))
  BY <1>1, <1>4 DEF Beginning
<1>6. h \notin sendq[t] /\ \A i \in DOMAIN queue'[t] : queue'[t][i] # h
  BY <1>3 DEF AwaitedOnce
<1>7. \A u \in Task, f \in Turn : Queued(u, f)' => Queued(u, f)
  <2> SUFFICES ASSUME NEW u \in Task, NEW f \in Turn, Queued(u, f)' PROVE Queued(u, f)
    OBVIOUS
  <2>1. CASE u # t
    BY <1>1, <2>1 DEF Queued
  <2>2. CASE u = t
    <3>1. f \in sendq[t] \/ \E i \in DOMAIN queue'[t] : queue'[t][i] = f
      BY <1>1, <2>2 DEF Queued
    <3>. QED
      BY <1>3, <2>2, <3>1 DEF Queued
  <2>. QED
    BY <2>1, <2>2
<1>8. Queued(t, h)
  BY <1>3 DEF Queued
<1>9. \A u \in Task, f \in Turn : Awaits(u, f)' => Awaits(u, f)
  BY <1>1, <1>3, <1>5, <1>7, <1>8 DEF Awaits
<1>10. AwaitedHaveNoRow'
  BY <1>1, <1>9 DEF AwaitedHaveNoRow
<1>11. AwaitedOnce'
  <2>1. \A u, v \in Task, f \in Turn : Awaits(u, f)' /\ Awaits(v, f)' => u = v
    BY <1>9 DEF AwaitedOnce
  <2>2. \A u \in Task : \A i \in DOMAIN queue'[u] : queue'[u][i] \notin sendq'[u]
    <3> SUFFICES ASSUME NEW u \in Task, NEW i \in DOMAIN queue'[u]
                 PROVE  queue'[u][i] \notin sendq[u]
      BY <1>1
    <3>1. CASE u # t
      BY <1>1, <3>1 DEF AwaitedOnce
    <3>2. CASE u = t
      <4>1. i + 1 \in DOMAIN queue[t] /\ queue'[t][i] = queue[t][i + 1]
        BY <1>3, <3>2
      <4>. QED
        BY <3>2, <4>1 DEF AwaitedOnce
    <3>. QED
      BY <3>1, <3>2
  <2>3. \A u \in Task : \A i, j \in DOMAIN queue'[u] : queue'[u][i] = queue'[u][j] => i = j
    <3> SUFFICES ASSUME NEW u \in Task, NEW i \in DOMAIN queue'[u], NEW j \in DOMAIN queue'[u],
                        queue'[u][i] = queue'[u][j]
                 PROVE  i = j
      OBVIOUS
    <3>1. CASE u # t
      BY <1>1, <3>1 DEF AwaitedOnce
    <3>2. CASE u = t
      <4>1. /\ i \in Nat /\ j \in Nat /\ i + 1 \in DOMAIN queue[t] /\ j + 1 \in DOMAIN queue[t]
            /\ queue[t][i + 1] = queue[t][j + 1]
        BY <1>3, <3>2
      <4>2. i + 1 = j + 1
        BY <4>1 DEF AwaitedOnce
      <4>. QED
        BY <4>1, <4>2
    <3>. QED
      BY <3>1, <3>2
  <2>4. \A u \in Task : Beginning(u)' => ~(\/ current'[u] \in sendq'[u]
                                           \/ \E i \in DOMAIN queue'[u] : queue'[u][i] = current'[u])
    <3> SUFFICES ASSUME NEW u \in Task, Beginning(u)'
                 PROVE  ~(\/ current'[u] \in sendq'[u]
                          \/ \E i \in DOMAIN queue'[u] : queue'[u][i] = current'[u])
      OBVIOUS
    <3>1. CASE u = t
      BY <1>1, <1>3, <1>6, <3>1
    <3>2. CASE u # t
      BY <1>1, <1>5, <3>2 DEF AwaitedOnce, Queued
    <3>. QED
      BY <3>1, <3>2
  <2>. QED
    BY <2>1, <2>2, <2>3, <2>4 DEF AwaitedOnce, Queued
<1>12. RowsOfOneTask'
  BY <1>1 DEF RowsOfOneTask
<1>13. HandlesTaken'
  <2>1. h \in called
    BY <1>3, <1>8 DEF AwaitedHaveNoRow, Awaits
  <2>. QED
    BY <1>1, <1>3, <1>4, <2>1 DEF HandlesTaken
<1>. QED
  BY <1>10, <1>11, <1>12, <1>13

--------------------------------------------------------------------------------
(* One lemma per action.                                                        *)

\* A step of the queue that the handlers do not see.
LEMMA QueueOnly ==
    ASSUME MessagesInv, Runtime!RuntimeTypeOK',
           UNCHANGED <<runner, rows, handler, runOf, stopVars, faultVars>>,
           \A u \in Task : OnRow(u) => current'[u] = current[u]
    PROVE  TypeOK' /\ RowsInv'
<1>. USE DEF MessagesInv, stopVars, faultVars
<1>1. TypeOK'
  BY DEF TypeOK
<1>2. \A u \in Task : /\ (OnRow(u)' <=> OnRow(u)) /\ (At(u, "unwind")' <=> At(u, "unwind"))
                      /\ (At(u, "again")' <=> At(u, "again"))
                      /\ (At(u, "assistant")' <=> At(u, "assistant"))
  BY DEF OnRow, At
<1>3. \A u \in Task : \A i \in DOMAIN rows[u] : Reachable(u, i)' => Reachable(u, i)
  BY DEF Reachable
<1>4. \A u \in Task : At(u, "assistant") => Continues(rows[u], Len(rows[u]) + 1, handler[u].prev)
  BY DEF RowsInv, PreviousIsNewest
<1>5. RowsInv'
  BY <1>2, <1>3, <1>4, RowsFrame
<1>. QED
  BY <1>1, <1>5

LEMMA InvUserPost ==
    ASSUME MessagesInv, NEW t \in Task, NEW e \in Turn, UserPost(t, e)
    PROVE  MessagesInv'
<1>. USE DEF MessagesInv
<1>1. /\ Runtime!EnqueueCall(t, e)
      /\ UNCHANGED <<runner, rows, handler, runOf, stopVars, faultVars>>
  BY DEF UserPost, Posted
<1>2. stage' = stage /\ current' = current
  BY <1>1 DEF Runtime!EnqueueCall
<1>3. Runtime!RuntimeTypeOK'
  BY <1>1, QueueTyped DEF TurnsInv
<1>4. TurnsInv'
  BY <1>1, <1>2, TurnsPosted DEF Beginning
<1>. QED
  BY <1>1, <1>2, <1>3, <1>4, QueueOnly

LEMMA InvEnqueueSend ==
    ASSUME MessagesInv, NEW t \in Task, NEW e \in Turn, EnqueueSend(t, e)
    PROVE  MessagesInv'
<1>. USE DEF MessagesInv
<1>1. /\ Runtime!EnqueueSend(t, e)
      /\ UNCHANGED <<runner, rows, handler, runOf, stopVars, faultVars>>
  BY DEF EnqueueSend
<1>2. current' = current
  BY <1>1 DEF Runtime!EnqueueSend
<1>3. Runtime!RuntimeTypeOK'
  BY <1>1, QueueTyped DEF TurnsInv
<1>4. TurnsInv'
  BY <1>1, TurnsSent
<1>. QED
  BY <1>1, <1>2, <1>3, <1>4, QueueOnly

LEMMA InvUserGivesUp ==
    ASSUME MessagesInv, NEW t \in Task, NEW e \in Turn, UserGivesUp(t, e)
    PROVE  MessagesInv'
<1>. USE DEF MessagesInv
<1>1. /\ Runtime!EnqueueGiveUp(t, e)
      /\ UNCHANGED <<runner, rows, handler, runOf, stopVars, faultVars>>
  BY DEF UserGivesUp
<1>2. /\ sendq' = [sendq EXCEPT ![t] = sendq[t] \ {e}] /\ queue' = queue /\ called' = called
      /\ current' = current /\ stage' = stage
  BY <1>1 DEF Runtime!EnqueueGiveUp
<1>3. Runtime!RuntimeTypeOK'
  BY <1>1, QueueTyped DEF TurnsInv
<1>4. \A u \in Task : sendq'[u] \subseteq sendq[u]
  BY <1>2 DEF TypeOK, Runtime!RuntimeTypeOK
<1>5. AwaitedHaveNoRow' /\ AwaitedOnce' /\ RowsOfOneTask'
  <2>1. \A u \in Task : Beginning(u)' => Beginning(u) /\ current'[u] = current[u]
    BY <1>1, <1>2 DEF Beginning
  <2>. QED
    BY <1>1, <1>2, <1>4, <2>1, TurnsFrame DEF TurnsInv
<1>6. HandlesTaken'
  BY <1>1, <1>2 DEF TurnsInv, HandlesTaken
<1>. QED
  BY <1>1, <1>2, <1>3, <1>5, <1>6, QueueOnly DEF TurnsInv

LEMMA InvTake ==
    ASSUME MessagesInv, NEW t \in Task, Take(t)
    PROVE  MessagesInv'
<1>. USE DEF MessagesInv
<1>1. /\ Runtime!Take(t)
      /\ UNCHANGED <<runner, rows, handler, runOf, stopVars, faultVars>>
  BY DEF Take
<1>2. stage[t] = "idle" /\ \A u \in Task : u # t => current'[u] = current[u]
  BY <1>1 DEF Runtime!Take, TypeOK, Runtime!RuntimeTypeOK
<1>3. Runtime!RuntimeTypeOK'
  <2>1. PICK e : e \in Turn
    BY <1>1, RowsTyped, Taken DEF Runtime!Take
  <2>. QED
    BY <1>1, <2>1, QueueTyped DEF TurnsInv
<1>4. TurnsInv'
  BY <1>1, TurnsTaken
<1>5. ~OnRow(t)
  BY <1>2 DEF TurnsInv, HandlesTaken, OnRow
<1>. QED
  BY <1>1, <1>2, <1>3, <1>4, <1>5, QueueOnly

\* The states of a handler.
HandlerState ==
    [pc : HandlerPc, row : Nat, prev : {NoTurn} \union Turn, tool : {NoTurn} \union Turn,
     out : {"none"} \union ContextOutcome]

\* A step of one handler keeps the others as they are.
LEMMA HandlerTyped ==
    ASSUME TypeOK, NEW t \in Task
    PROVE  /\ handler \in [Task -> HandlerState]
           /\ \A pc \in HandlerPc : GoTo(t, pc) =>
                 /\ handler' \in [Task -> HandlerState]
                 /\ handler'[t] = [handler[t] EXCEPT !.pc = pc] /\ handler'[t].pc = pc
                 /\ handler'[t].row = handler[t].row /\ handler'[t].prev = handler[t].prev
                 /\ \A u \in Task : u # t => handler'[u] = handler[u]
<1>1. handler \in [Task -> HandlerState]
  BY DEF TypeOK, HandlerState
<1>2. ASSUME NEW pc \in HandlerPc, GoTo(t, pc)
      PROVE  /\ handler' \in [Task -> HandlerState]
             /\ handler'[t] = [handler[t] EXCEPT !.pc = pc] /\ handler'[t].pc = pc
             /\ handler'[t].row = handler[t].row /\ handler'[t].prev = handler[t].prev
             /\ \A u \in Task : u # t => handler'[u] = handler[u]
  <2>1. handler' = [handler EXCEPT ![t] = [handler[t] EXCEPT !.pc = pc]]
    BY <1>2, <1>1 DEF GoTo
  <2>2. handler[t] \in HandlerState
    BY <1>1
  <2>3. [handler[t] EXCEPT !.pc = pc] \in HandlerState
    BY <2>2 DEF HandlerState
  <2>4. handler' \in [Task -> HandlerState]
    BY <1>1, <2>1, <2>3
  <2>5. handler'[t] = [handler[t] EXCEPT !.pc = pc]
    BY <1>1, <2>1
  <2>6. /\ handler'[t].pc = pc
        /\ handler'[t].row = handler[t].row /\ handler'[t].prev = handler[t].prev
    BY <2>2, <2>5 DEF HandlerState
  <2>. QED
    BY <1>1, <2>1, <2>4, <2>5, <2>6
<1>. QED
  BY <1>1, <1>2

\* The queue stays as it is, rows keep their turns and handlers do not start over.
LEMMA HandlerTurns ==
    ASSUME MessagesInv, UNCHANGED queueVars,
           \A u \in Task : /\ DOMAIN rows'[u] = DOMAIN rows[u]
                           /\ \A i \in DOMAIN rows[u] : rows'[u][i].turn = rows[u][i].turn,
           \A u \in Task :
              /\ handler'[u].pc \in {"read", "assistant"} => handler[u].pc \in {"read", "assistant"}
              /\ handler'[u].pc # "none" => handler[u].pc # "none"
    PROVE  TurnsInv'
<1>. USE DEF MessagesInv, TurnsInv, queueVars
<1>1. \A u \in Task : Beginning(u)' => Beginning(u) /\ current'[u] = current[u]
  BY DEF Beginning
<1>2. AwaitedHaveNoRow' /\ AwaitedOnce' /\ RowsOfOneTask'
  <2>1. /\ \A u \in Task : sendq'[u] \subseteq sendq[u]
        /\ \A u \in Task : queue'[u] = queue[u] \/ queue'[u] = <<>>
        /\ called \subseteq called'
    OBVIOUS
  <2>. QED
    BY <1>1, <2>1, TurnsFrame
<1>3. HandlesTaken'
  BY DEF HandlesTaken
<1>. QED
  BY <1>2, <1>3

LEMMA InvHandlerCalled ==
    ASSUME MessagesInv, NEW t \in Task, HandlerCalled(t)
    PROVE  MessagesInv'
<1>. USE DEF MessagesInv, stopVars, faultVars
<1>1. /\ Runtime!SetInflight(t)
      /\ UNCHANGED <<runner, rows, runOf, stopVars, faultVars>>
      /\ handler' = [handler EXCEPT ![t] = Handler("read", 0, NoTurn, NoTurn, "none")]
  BY DEF HandlerCalled
<1>2. /\ stage[t] = "taken" /\ stage' = [stage EXCEPT ![t] = "handling"]
      /\ UNCHANGED <<called, actors, sendq, queue, current, cancelled, calling, log>>
  BY <1>1 DEF Runtime!SetInflight
<1>3. stage'[t] = "handling" /\ \A u \in Task : u # t => stage'[u] = stage[u]
  BY <1>2 DEF TypeOK, Runtime!RuntimeTypeOK
<1>4. /\ handler' \in [Task -> HandlerState] /\ handler'[t].pc = "read"
      /\ \A u \in Task : u # t => handler'[u] = handler[u]
  <2>1. Handler("read", 0, NoTurn, NoTurn, "none") \in HandlerState
        /\ Handler("read", 0, NoTurn, NoTurn, "none").pc = "read"
    BY Bounds DEF Handler, HandlerState, HandlerPc
  <2>. QED
    BY <1>1, <2>1, HandlerTyped
<1>5. current[t] \in called /\ handler[t].pc = "none"
  BY <1>2 DEF TurnsInv, HandlesTaken
<1>6. Runtime!RuntimeTypeOK'
  BY <1>1, <1>5, RowsTyped, QueueTyped DEF TurnsInv
<1>7. TypeOK'
  BY <1>1, <1>4, <1>6 DEF TypeOK, HandlerState
<1>8. TurnsInv'
  <2>1. \A u \in Task : Beginning(u)' => Beginning(u) /\ current'[u] = current[u]
    BY <1>2, <1>3, <1>4 DEF Beginning
  <2>2. AwaitedHaveNoRow' /\ AwaitedOnce' /\ RowsOfOneTask'
    BY <1>1, <1>2, <2>1, TurnsFrame DEF TurnsInv
  <2>3. HandlesTaken'
    BY <1>2, <1>3, <1>4 DEF TurnsInv, HandlesTaken
  <2>. QED
    BY <2>2, <2>3 DEF TurnsInv
<1>9. RowsInv'
  <2>1. ~OnRow(t)' /\ ~At(t, "again")' /\ ~At(t, "assistant")' /\ ~OnRow(t)
    BY <1>4, <1>5 DEF OnRow, At
  <2>2. \A u \in Task : u # t =>
            /\ (OnRow(u)' <=> OnRow(u)) /\ (At(u, "unwind")' <=> At(u, "unwind"))
            /\ (At(u, "again")' <=> At(u, "again")) /\ (At(u, "assistant")' <=> At(u, "assistant"))
    BY <1>4 DEF OnRow, At
  <2>3. \A u \in Task : \A i \in DOMAIN rows[u] : Reachable(u, i)' => Reachable(u, i)
    BY <1>1 DEF Reachable
  <2>4. \A u \in Task : At(u, "assistant") => Continues(rows[u], Len(rows[u]) + 1, handler[u].prev)
    BY DEF RowsInv, PreviousIsNewest
  <2>. QED
    BY <1>1, <1>2, <1>4, <2>1, <2>2, <2>3, <2>4, RowsFrame
<1>. QED
  BY <1>7, <1>8, <1>9

LEMMA InvHandlerReturned ==
    ASSUME MessagesInv, NEW t \in Task, HandlerReturned(t)
    PROVE  MessagesInv'
<1>. USE DEF MessagesInv, stopVars, faultVars
<1>1. /\ Runtime!HandlerReturn(t) /\ handler[t].pc = "return"
      /\ UNCHANGED <<runner, rows, runOf, stopVars, faultVars>>
      /\ handler' = [handler EXCEPT ![t] = NoHandler]
  BY DEF HandlerReturned
<1>2. /\ stage[t] = "handling" /\ stage' = [stage EXCEPT ![t] = "returned"]
      /\ UNCHANGED <<called, actors, sendq, queue, current, inflight, cancelled, calling, log>>
  BY <1>1 DEF Runtime!HandlerReturn
<1>3. stage'[t] = "returned" /\ \A u \in Task : u # t => stage'[u] = stage[u]
  BY <1>2 DEF TypeOK, Runtime!RuntimeTypeOK
<1>4. /\ handler' \in [Task -> HandlerState] /\ handler'[t].pc = "none"
      /\ \A u \in Task : u # t => handler'[u] = handler[u]
  <2>1. NoHandler \in HandlerState /\ NoHandler.pc = "none"
    BY Bounds DEF NoHandler, Handler, HandlerState, HandlerPc
  <2>. QED
    BY <1>1, <2>1, HandlerTyped
<1>5. current[t] \in called
  BY <1>2 DEF TurnsInv, HandlesTaken
<1>6. Runtime!RuntimeTypeOK'
  BY <1>1, <1>5, RowsTyped, QueueTyped DEF TurnsInv
<1>7. TypeOK'
  BY <1>1, <1>4, <1>6 DEF TypeOK, HandlerState
<1>8. TurnsInv'
  <2>1. \A u \in Task : Beginning(u)' => Beginning(u) /\ current'[u] = current[u]
    BY <1>2, <1>3, <1>4 DEF Beginning
  <2>2. AwaitedHaveNoRow' /\ AwaitedOnce' /\ RowsOfOneTask'
    BY <1>1, <1>2, <2>1, TurnsFrame DEF TurnsInv
  <2>3. HandlesTaken'
    BY <1>2, <1>3, <1>4 DEF TurnsInv, HandlesTaken
  <2>. QED
    BY <2>2, <2>3 DEF TurnsInv
<1>9. RowsInv'
  <2>1. ~OnRow(t)' /\ ~At(t, "again")' /\ ~At(t, "assistant")' /\ ~OnRow(t)
    BY <1>1, <1>4 DEF OnRow, At
  <2>2. \A u \in Task : u # t =>
            /\ (OnRow(u)' <=> OnRow(u)) /\ (At(u, "unwind")' <=> At(u, "unwind"))
            /\ (At(u, "again")' <=> At(u, "again")) /\ (At(u, "assistant")' <=> At(u, "assistant"))
    BY <1>4 DEF OnRow, At
  <2>3. \A u \in Task : \A i \in DOMAIN rows[u] : Reachable(u, i)' => Reachable(u, i)
    BY <1>1 DEF Reachable
  <2>4. \A u \in Task : At(u, "assistant") => Continues(rows[u], Len(rows[u]) + 1, handler[u].prev)
    BY DEF RowsInv, PreviousIsNewest
  <2>. QED
    BY <1>1, <1>2, <1>4, <2>1, <2>2, <2>3, <2>4, RowsFrame
<1>. QED
  BY <1>7, <1>8, <1>9

LEMMA InvRoundEnds ==
    ASSUME MessagesInv, NEW t \in Task, RoundEnds(t)
    PROVE  MessagesInv'
<1>. USE DEF MessagesInv
<1>1. /\ Runtime!CancelOwn(t) \/ Runtime!ClearInflight(t)
      /\ UNCHANGED <<runner, rows, handler, runOf, stopVars, faultVars>>
  BY DEF RoundEnds
<1>2. /\ stage[t] \in {"returned", "clearing"} /\ stage'[t] \in {"clearing", "idle"}
      /\ \A u \in Task : u # t => stage'[u] = stage[u]
      /\ UNCHANGED <<called, sendq, queue, current>>
  BY <1>1 DEF Runtime!CancelOwn, Runtime!ClearInflight, TypeOK, Runtime!RuntimeTypeOK
<1>3. current[t] \in called /\ handler[t].pc = "none"
  BY <1>2 DEF TurnsInv, HandlesTaken
<1>4. Runtime!RuntimeTypeOK'
  BY <1>1, <1>3, RowsTyped, QueueTyped DEF TurnsInv
<1>5. TurnsInv'
  <2>1. \A u \in Task : Beginning(u)' => Beginning(u) /\ current'[u] = current[u]
    BY <1>1, <1>2 DEF Beginning
  <2>2. AwaitedHaveNoRow' /\ AwaitedOnce' /\ RowsOfOneTask'
    BY <1>1, <1>2, <2>1, TurnsFrame DEF TurnsInv
  <2>3. HandlesTaken'
    BY <1>1, <1>2, <1>3 DEF TurnsInv, HandlesTaken
  <2>. QED
    BY <2>2, <2>3 DEF TurnsInv
<1>. QED
  BY <1>1, <1>2, <1>4, <1>5, QueueOnly

\* While a handler runs, it has a turn.
LEMMA HandlerHasTurn ==
    ASSUME MessagesInv, NEW t \in Task, handler[t].pc # "none"
    PROVE  current[t] \in called /\ current[t] \in Turn
  BY RowsTyped DEF MessagesInv, TurnsInv, HandlesTaken

\* A handler that gives up has no row, or one of a turn that is spoiled.
LEMMA InvReturnsEarly ==
    ASSUME MessagesInv, NEW t \in Task, ReturnsEarly(t),
           handler[t].pc \in {"read", "assistant", "again"},
           UNCHANGED <<queueVars, runner, runOf, stopVars>>
    PROVE  MessagesInv'
<1>. USE DEF MessagesInv, stopVars
<1>1. /\ GoTo(t, "return") /\ UNCHANGED <<crashes, rows>>
      /\ unsettled' = unsettled \union {current[t]}
      /\ storeErrors < MaxStoreErrors /\ storeErrors' = storeErrors + 1
  BY DEF ReturnsEarly, StoreFails
<1>2. /\ handler' \in [Task -> HandlerState] /\ handler'[t].pc = "return"
      /\ \A u \in Task : u # t => handler'[u] = handler[u]
  BY <1>1, HandlerTyped DEF HandlerPc
<1>3. current[t] \in Turn
  BY HandlerHasTurn
<1>4. TypeOK'
  <2>1. Runtime!RuntimeTypeOK'
    BY DEF TypeOK, Runtime!RuntimeTypeOK, queueVars
  <2>2. storeErrors' \in 0..MaxStoreErrors
    BY <1>1, Bounds DEF TypeOK
  <2>3. unsettled' \subseteq Turn
    BY <1>1, <1>3 DEF TypeOK
  <2>. QED
    BY <1>1, <1>2, <2>1, <2>2, <2>3 DEF TypeOK, HandlerState
<1>5. TurnsInv'
  BY <1>1, <1>2, HandlerTurns
<1>6. RowsInv'
  <2>1. ~OnRow(t)' /\ ~At(t, "again")' /\ ~At(t, "assistant")'
    BY <1>2 DEF OnRow, At
  <2>2. \A u \in Task : u # t =>
            /\ (OnRow(u)' <=> OnRow(u)) /\ (At(u, "unwind")' <=> At(u, "unwind"))
            /\ (At(u, "again")' <=> At(u, "again")) /\ (At(u, "assistant")' <=> At(u, "assistant"))
    BY <1>2 DEF OnRow, At
  <2>3. \A u \in Task : \A i \in DOMAIN rows[u] : Reachable(u, i)' => Reachable(u, i)
    BY DEF Reachable
  <2>4. \A u \in Task : At(u, "assistant") => Continues(rows[u], Len(rows[u]) + 1, handler[u].prev)
    BY DEF RowsInv, PreviousIsNewest
  <2>5. OnRow(t) => rows[t][Len(rows[t])].turn \in unsettled'
    BY <1>1 DEF RowsInv, WorksOnNewestRow
  <2>6. current' = current
    BY DEF queueVars
  <2>. QED
    BY <1>1, <1>2, <2>1, <2>2, <2>3, <2>4, <2>5, <2>6, RowsFrame
<1>. QED
  BY <1>4, <1>5, <1>6

\* What the handler reads is the newest response of its task.
LEMMA LatestIsNewest ==
    ASSUME TypeOK, NEW t \in Task
    PROVE  /\ LatestResponse(t) \in Turn \union {NoTurn}
           /\ Continues(rows[t], Len(rows[t]) + 1, LatestResponse(t))
<1> DEFINE answered == {i \in DOMAIN rows[t] : rows[t][i].resp # NoTurn}
           newest == CHOOSE i \in answered : \A j \in answered : j <= i
<1>1. /\ Len(rows[t]) \in Nat /\ DOMAIN rows[t] = 1..Len(rows[t])
      /\ \A i \in DOMAIN rows[t] : rows[t][i] \in Row
  BY RowsTyped
<1>2. answered = {i \in 1..((Len(rows[t]) + 1) - 1) : rows[t][i].resp # NoTurn}
  BY <1>1
<1>3. CASE answered = {}
  BY <1>2, <1>3 DEF LatestResponse, Continues
<1>4. CASE answered # {}
  <2>1. \E i \in answered : \A j \in answered : j <= i
    <3>1. answered \subseteq 1..Len(rows[t])
      BY <1>1
    <3>. QED
      BY <1>1, <1>4, <3>1, Greatest
  <2>2. newest \in answered /\ \A j \in answered : j <= newest
    BY <2>1
  <2>3. LatestResponse(t) = rows[t][newest].resp
    BY <1>4 DEF LatestResponse
  <2>4. rows[t][newest].resp \in Turn \union {NoTurn}
    BY <1>1, <2>2 DEF Row
  <2>5. Continues(rows[t], Len(rows[t]) + 1, LatestResponse(t))
    <3> HIDE DEF newest, answered
    <3>. QED
      BY <1>2, <1>4, <2>2, <2>3 DEF Continues
  <2>. QED
    BY <2>3, <2>4, <2>5
<1>. QED
  BY <1>3, <1>4

LEMMA InvReadPrevious ==
    ASSUME MessagesInv, NEW t \in Task, ReadPrevious(t)
    PROVE  MessagesInv'
<1>. USE DEF MessagesInv, stopVars
<1>1. At(t, "read") /\ UNCHANGED <<queueVars, runner, runOf, stopVars>>
  BY DEF ReadPrevious
<1>2. CASE ReturnsEarly(t)
  BY <1>1, <1>2, InvReturnsEarly DEF At
<1>3. CASE /\ handler' = [handler EXCEPT ![t].pc = "assistant", ![t].prev = LatestResponse(t)]
           /\ UNCHANGED <<rows, faultVars>>
  <2>1. /\ handler' \in [Task -> HandlerState] /\ handler'[t].pc = "assistant"
        /\ handler'[t].prev = LatestResponse(t)
        /\ \A u \in Task : u # t => handler'[u] = handler[u]
    <3>1. handler \in [Task -> HandlerState]
      BY DEF TypeOK, HandlerState
    <3>2. handler' = [handler EXCEPT ![t] = [[handler[t] EXCEPT !.pc = "assistant"]
                                                EXCEPT !.prev = LatestResponse(t)]]
      BY <1>3, <3>1 DEF HandlerState
    <3>3. handler[t] \in HandlerState
      BY <3>1
    <3>4. LatestResponse(t) \in Turn \union {NoTurn}
      BY LatestIsNewest
    <3>5. [[handler[t] EXCEPT !.pc = "assistant"] EXCEPT !.prev = LatestResponse(t)] \in HandlerState
      BY <3>3, <3>4 DEF HandlerState, HandlerPc
    <3>6. handler'[t] = [[handler[t] EXCEPT !.pc = "assistant"] EXCEPT !.prev = LatestResponse(t)]
      BY <3>1, <3>2
    <3>7. handler'[t].pc = "assistant" /\ handler'[t].prev = LatestResponse(t)
      BY <3>3, <3>6 DEF HandlerState
    <3>. QED
      BY <3>1, <3>2, <3>5, <3>7
  <2>2. TypeOK'
    <3>1. Runtime!RuntimeTypeOK'
      BY <1>1 DEF TypeOK, Runtime!RuntimeTypeOK, queueVars
    <3>. QED
      BY <1>1, <1>3, <2>1, <3>1 DEF TypeOK, HandlerState, faultVars
  <2>3. TurnsInv'
    BY <1>1, <1>3, <2>1, HandlerTurns DEF At
  <2>4. RowsInv'
    <3>1. ~OnRow(t)' /\ ~At(t, "again")' /\ ~OnRow(t)
      BY <1>1, <2>1 DEF OnRow, At
    <3>2. \A u \in Task : u # t =>
              /\ (OnRow(u)' <=> OnRow(u)) /\ (At(u, "unwind")' <=> At(u, "unwind"))
              /\ (At(u, "again")' <=> At(u, "again"))
              /\ (At(u, "assistant")' <=> At(u, "assistant"))
      BY <2>1 DEF OnRow, At
    <3>3. \A u \in Task : \A i \in DOMAIN rows[u] : Reachable(u, i)' => Reachable(u, i)
      BY <1>1 DEF Reachable
    <3>4. \A u \in Task : At(u, "assistant")' => Continues(rows[u], Len(rows[u]) + 1, handler'[u].prev)
      <4>1. \A u \in Task : At(u, "assistant") => Continues(rows[u], Len(rows[u]) + 1, handler[u].prev)
        BY DEF RowsInv, PreviousIsNewest
      <4>. QED
        BY <2>1, <3>2, <4>1, LatestIsNewest
    <3>5. current' = current /\ rows' = rows /\ unsettled' = unsettled
      BY <1>1, <1>3 DEF queueVars, faultVars
    <3>. QED
      BY <1>1, <2>1, <3>1, <3>2, <3>3, <3>4, <3>5, RowsFrame
  <2>. QED
    BY <2>2, <2>3, <2>4
<1>. QED
  BY <1>2, <1>3 DEF ReadPrevious

\* A stop may reach the row from now on; it is the newest, and no fallback follows.
LEMMA InvRegister ==
    ASSUME MessagesInv, NEW t \in Task, Register(t)
    PROVE  MessagesInv'
<1>. USE DEF MessagesInv, stopVars
<1>1. /\ At(t, "register") /\ GoTo(t, "run") /\ runOf' = [runOf EXCEPT ![t] = handler[t].row]
      /\ UNCHANGED <<queueVars, runner, rows, stopVars, faultVars>>
  BY DEF Register
<1>2. /\ handler' \in [Task -> HandlerState] /\ handler'[t].pc = "run"
      /\ handler'[t].row = handler[t].row /\ handler'[t].prev = handler[t].prev
      /\ \A u \in Task : u # t => handler'[u] = handler[u]
  BY <1>1, HandlerTyped DEF HandlerPc
<1>3. handler[t].row = Len(rows[t]) /\ Len(rows[t]) \in Nat
  BY <1>1, RowsTyped DEF RowsInv, WorksOnNewestRow, OnRow, At
<1>4. /\ runOf' \in [Task -> Nat] /\ runOf'[t] = Len(rows[t])
      /\ \A u \in Task : u # t => runOf'[u] = runOf[u]
  BY <1>1, <1>3 DEF TypeOK
<1>5. TypeOK'
  <2>1. Runtime!RuntimeTypeOK'
    BY <1>1 DEF TypeOK, Runtime!RuntimeTypeOK, queueVars
  <2>2. \A u \in Task : runOf'[u] \in 0..Len(rows'[u])
    BY <1>1, <1>3, <1>4 DEF TypeOK
  <2>. QED
    BY <1>1, <1>2, <1>4, <2>1, <2>2 DEF TypeOK, HandlerState, faultVars
<1>6. TurnsInv'
  BY <1>1, <1>2, HandlerTurns DEF At
<1>7. RowsInv'
  <2>1. OnRow(t)' /\ OnRow(t) /\ ~At(t, "again")' /\ ~At(t, "assistant")'
        /\ ~At(t, "unwind") /\ ~At(t, "unwind")'
    BY <1>1, <1>2 DEF OnRow, At
  <2>2. \A u \in Task : u # t =>
            /\ (OnRow(u)' <=> OnRow(u)) /\ (At(u, "unwind")' <=> At(u, "unwind"))
            /\ (At(u, "again")' <=> At(u, "again")) /\ (At(u, "assistant")' <=> At(u, "assistant"))
    BY <1>2 DEF OnRow, At
  <2>3. \A u \in Task : \A i \in DOMAIN rows[u] : Reachable(u, i)' =>
            Reachable(u, i) \/ (u = t /\ i = Len(rows[t]))
    BY <1>1, <1>4 DEF Reachable
  <2>4. \A u \in Task : At(u, "assistant") => Continues(rows[u], Len(rows[u]) + 1, handler[u].prev)
    BY DEF RowsInv, PreviousIsNewest
  <2>5. current' = current /\ rows' = rows /\ unsettled' = unsettled
    BY <1>1 DEF queueVars, faultVars
  <2>. QED
    BY <1>1, <1>2, <2>1, <2>2, <2>3, <2>4, <2>5, RowsFrame
<1>. QED
  BY <1>5, <1>6, <1>7

\* A handler that goes on with its row from one step to another.
LEMMA HandlerGoesOn ==
    ASSUME MessagesInv, NEW t \in Task,
           handler[t].pc \in {"run", "tool"}, handler'[t].pc \in {"run", "tool", "settle"},
           handler' \in [Task -> HandlerState],
           handler'[t].row = handler[t].row, handler'[t].prev = handler[t].prev,
           \A u \in Task : u # t => handler'[u] = handler[u],
           UNCHANGED <<current, runner, rows, runOf, stopVars, faultVars>>,
           Runtime!RuntimeTypeOK'
    PROVE  TypeOK' /\ RowsInv'
<1>. USE DEF MessagesInv, stopVars, faultVars
<1>1. TypeOK'
  BY DEF TypeOK, HandlerState
<1>2. OnRow(t)' /\ OnRow(t) /\ ~At(t, "again")' /\ ~At(t, "assistant")'
      /\ ~At(t, "unwind") /\ ~At(t, "unwind")'
  BY DEF OnRow, At
<1>3. \A u \in Task : u # t =>
          /\ (OnRow(u)' <=> OnRow(u)) /\ (At(u, "unwind")' <=> At(u, "unwind"))
          /\ (At(u, "again")' <=> At(u, "again")) /\ (At(u, "assistant")' <=> At(u, "assistant"))
  BY DEF OnRow, At
<1>4. \A u \in Task : \A i \in DOMAIN rows[u] : Reachable(u, i)' => Reachable(u, i)
  BY DEF Reachable
<1>5. \A u \in Task : At(u, "assistant") => Continues(rows[u], Len(rows[u]) + 1, handler[u].prev)
  BY DEF RowsInv, PreviousIsNewest
<1>6. RowsInv'
  BY <1>2, <1>3, <1>4, <1>5, RowsFrame
<1>. QED
  BY <1>1, <1>6

\* A handler that changes two of its fields.
LEMMA HandlerMoves ==
    ASSUME TypeOK, NEW t \in Task, NEW pc \in HandlerPc
    PROVE  /\ \A e \in {NoTurn} \union Turn :
                 handler' = [handler EXCEPT ![t].pc = pc, ![t].tool = e] =>
                    /\ handler' \in [Task -> HandlerState] /\ handler'[t].pc = pc
                    /\ handler'[t].row = handler[t].row /\ handler'[t].prev = handler[t].prev
                    /\ \A u \in Task : u # t => handler'[u] = handler[u]
           /\ \A out \in ContextOutcome :
                 handler' = [handler EXCEPT ![t].pc = pc, ![t].out = out] =>
                    /\ handler' \in [Task -> HandlerState] /\ handler'[t].pc = pc
                    /\ handler'[t].row = handler[t].row /\ handler'[t].prev = handler[t].prev
                    /\ \A u \in Task : u # t => handler'[u] = handler[u]
           /\ \A n \in Nat :
                 handler' = [handler EXCEPT ![t].pc = pc, ![t].row = n] =>
                    /\ handler' \in [Task -> HandlerState] /\ handler'[t].pc = pc
                    /\ handler'[t].row = n /\ handler'[t].prev = handler[t].prev
                    /\ \A u \in Task : u # t => handler'[u] = handler[u]
<1>1. handler \in [Task -> HandlerState] /\ handler[t] \in HandlerState
  BY DEF TypeOK, HandlerState
<1>2. ASSUME NEW e \in {NoTurn} \union Turn,
             handler' = [handler EXCEPT ![t].pc = pc, ![t].tool = e]
      PROVE  /\ handler' \in [Task -> HandlerState] /\ handler'[t].pc = pc
             /\ handler'[t].row = handler[t].row /\ handler'[t].prev = handler[t].prev
             /\ \A u \in Task : u # t => handler'[u] = handler[u]
  <2> DEFINE h == [[handler[t] EXCEPT !.pc = pc] EXCEPT !.tool = e]
  <2>1. handler' = [handler EXCEPT ![t] = h]
    BY <1>1, <1>2 DEF HandlerState
  <2>2. h \in HandlerState /\ h.pc = pc /\ h.row = handler[t].row /\ h.prev = handler[t].prev
    BY <1>1 DEF HandlerState
  <2> HIDE DEF h
  <2>. QED
    BY <1>1, <2>1, <2>2
<1>3. ASSUME NEW out \in ContextOutcome,
             handler' = [handler EXCEPT ![t].pc = pc, ![t].out = out]
      PROVE  /\ handler' \in [Task -> HandlerState] /\ handler'[t].pc = pc
             /\ handler'[t].row = handler[t].row /\ handler'[t].prev = handler[t].prev
             /\ \A u \in Task : u # t => handler'[u] = handler[u]
  <2> DEFINE h == [[handler[t] EXCEPT !.pc = pc] EXCEPT !.out = out]
  <2>1. handler' = [handler EXCEPT ![t] = h]
    BY <1>1, <1>3 DEF HandlerState
  <2>2. h \in HandlerState /\ h.pc = pc /\ h.row = handler[t].row /\ h.prev = handler[t].prev
    BY <1>1 DEF HandlerState
  <2> HIDE DEF h
  <2>. QED
    BY <1>1, <2>1, <2>2
<1>4. ASSUME NEW n \in Nat, handler' = [handler EXCEPT ![t].pc = pc, ![t].row = n]
      PROVE  /\ handler' \in [Task -> HandlerState] /\ handler'[t].pc = pc
             /\ handler'[t].row = n /\ handler'[t].prev = handler[t].prev
             /\ \A u \in Task : u # t => handler'[u] = handler[u]
  <2> DEFINE h == [[handler[t] EXCEPT !.pc = pc] EXCEPT !.row = n]
  <2>1. handler' = [handler EXCEPT ![t] = h]
    BY <1>1, <1>4 DEF HandlerState
  <2>2. h \in HandlerState /\ h.pc = pc /\ h.row = n /\ h.prev = handler[t].prev
    BY <1>1 DEF HandlerState
  <2> HIDE DEF h
  <2>. QED
    BY <1>1, <2>1, <2>2
<1>. QED
  BY <1>2, <1>3, <1>4

LEMMA InvToolPost ==
    ASSUME MessagesInv, NEW t \in Task, NEW u \in Task, NEW e \in Turn, ToolPost(t, u, e)
    PROVE  MessagesInv'
<1>. USE DEF MessagesInv
<1>1. /\ At(t, "run") /\ Runtime!EnqueueCall(u, e)
      /\ handler' = [handler EXCEPT ![t].pc = "tool", ![t].tool = e]
      /\ UNCHANGED <<runner, rows, runOf, stopVars, faultVars>>
  BY DEF ToolPost, Posted
<1>2. /\ handler' \in [Task -> HandlerState] /\ handler'[t].pc = "tool"
      /\ handler'[t].row = handler[t].row /\ handler'[t].prev = handler[t].prev
      /\ \A v \in Task : v # t => handler'[v] = handler[v]
  <2>1. "tool" \in HandlerPc /\ e \in {NoTurn} \union Turn
    BY DEF HandlerPc
  <2>. QED
    BY <1>1, <2>1, HandlerMoves
<1>3. stage' = stage /\ current' = current
  BY <1>1 DEF Runtime!EnqueueCall
<1>4. Runtime!RuntimeTypeOK'
  BY <1>1, QueueTyped DEF TurnsInv
<1>5. TurnsInv'
  <2>1. \A v \in Task : (Beginning(v)' <=> Beginning(v))
                        /\ (handler'[v].pc # "none" => handler[v].pc # "none")
    BY <1>1, <1>2, <1>3 DEF Beginning, At
  <2>. QED
    BY <1>1, <2>1, TurnsPosted
<1>. QED
  BY <1>1, <1>2, <1>3, <1>4, <1>5, HandlerGoesOn DEF At

LEMMA InvToolDone ==
    ASSUME MessagesInv, NEW t \in Task, ToolDone(t)
    PROVE  MessagesInv'
<1>. USE DEF MessagesInv
<1>1. /\ At(t, "tool") /\ handler' = [handler EXCEPT ![t].pc = "run", ![t].tool = NoTurn]
      /\ UNCHANGED <<queueVars, runner, rows, runOf, stopVars, faultVars>>
  BY DEF ToolDone
<1>2. /\ handler' \in [Task -> HandlerState] /\ handler'[t].pc = "run"
      /\ handler'[t].row = handler[t].row /\ handler'[t].prev = handler[t].prev
      /\ \A v \in Task : v # t => handler'[v] = handler[v]
  <2>1. "run" \in HandlerPc /\ NoTurn \in {NoTurn} \union Turn
    BY DEF HandlerPc
  <2>. QED
    BY <1>1, <2>1, HandlerMoves
<1>3. Runtime!RuntimeTypeOK' /\ current' = current
  BY <1>1 DEF TypeOK, Runtime!RuntimeTypeOK, queueVars
<1>4. TurnsInv'
  BY <1>1, <1>2, HandlerTurns DEF At
<1>. QED
  BY <1>1, <1>2, <1>3, <1>4, HandlerGoesOn DEF At

LEMMA InvRunnerReturns ==
    ASSUME MessagesInv, NEW t \in Task, NEW out \in Outcome, RunnerReturns(t, out)
    PROVE  MessagesInv'
<1>. USE DEF MessagesInv
<1>1. /\ At(t, "run") /\ handler' = [handler EXCEPT ![t].pc = "settle", ![t].out = out]
      /\ UNCHANGED <<queueVars, runner, rows, runOf, stopVars, faultVars>>
  BY DEF RunnerReturns
<1>2. /\ handler' \in [Task -> HandlerState] /\ handler'[t].pc = "settle"
      /\ handler'[t].row = handler[t].row /\ handler'[t].prev = handler[t].prev
      /\ \A v \in Task : v # t => handler'[v] = handler[v]
  <2>1. "settle" \in HandlerPc /\ out \in ContextOutcome
    BY DEF HandlerPc, Outcome, PlainOutcome
  <2>. QED
    BY <1>1, <2>1, HandlerMoves
<1>3. Runtime!RuntimeTypeOK' /\ current' = current
  BY <1>1 DEF TypeOK, Runtime!RuntimeTypeOK, queueVars
<1>4. TurnsInv'
  BY <1>1, <1>2, HandlerTurns DEF At
<1>. QED
  BY <1>1, <1>2, <1>3, <1>4, HandlerGoesOn DEF At

LEMMA InvUnwind ==
    ASSUME MessagesInv, NEW t \in Task, Unwind(t)
    PROVE  MessagesInv'
<1>. USE DEF MessagesInv, stopVars
<1>1. /\ At(t, "unwind") /\ GoTo(t, "return") /\ runOf' = [runOf EXCEPT ![t] = 0]
      /\ UNCHANGED <<queueVars, runner, rows, stopVars, faultVars>>
  BY DEF Unwind
<1>2. /\ handler' \in [Task -> HandlerState] /\ handler'[t].pc = "return"
      /\ \A u \in Task : u # t => handler'[u] = handler[u]
  BY <1>1, HandlerTyped DEF HandlerPc
<1>3. /\ runOf' \in [Task -> Nat] /\ runOf'[t] = 0
      /\ \A u \in Task : u # t => runOf'[u] = runOf[u]
  BY <1>1 DEF TypeOK
<1>4. TypeOK'
  <2>1. Runtime!RuntimeTypeOK'
    BY <1>1 DEF TypeOK, Runtime!RuntimeTypeOK, queueVars
  <2>2. \A u \in Task : runOf'[u] \in 0..Len(rows'[u])
    BY <1>1, <1>3, RowsTyped DEF TypeOK
  <2>. QED
    BY <1>1, <1>2, <1>3, <2>1, <2>2 DEF TypeOK, HandlerState, faultVars
<1>5. TurnsInv'
  BY <1>1, <1>2, HandlerTurns DEF At
<1>6. RowsInv'
  <2>1. ~OnRow(t)' /\ ~At(t, "again")' /\ ~At(t, "assistant")' /\ At(t, "unwind")
    BY <1>1, <1>2 DEF OnRow, At
  <2>2. \A u \in Task : u # t =>
            /\ (OnRow(u)' <=> OnRow(u)) /\ (At(u, "unwind")' <=> At(u, "unwind"))
            /\ (At(u, "again")' <=> At(u, "again")) /\ (At(u, "assistant")' <=> At(u, "assistant"))
    BY <1>2 DEF OnRow, At
  <2>3. \A u \in Task : \A i \in DOMAIN rows[u] : Reachable(u, i)' => Reachable(u, i)
    BY <1>1, <1>3, RowsTyped DEF Reachable
  <2>4. \A u \in Task : At(u, "assistant") => Continues(rows[u], Len(rows[u]) + 1, handler[u].prev)
    BY DEF RowsInv, PreviousIsNewest
  <2>5. current' = current /\ rows' = rows /\ unsettled' = unsettled
    BY <1>1 DEF queueVars, faultVars
  <2>. QED
    BY <1>1, <1>2, <2>1, <2>2, <2>3, <2>4, <2>5, RowsFrame
<1>. QED
  BY <1>4, <1>5, <1>6

\* A write of a row leaves all other rows, and the turn it is of, as they were.
LEMMA Written ==
    ASSUME TypeOK, NEW t \in Task, NEW i \in DOMAIN rows[t],
           NEW text \in {"none", "partial", "reply"},
           NEW status \in {"running", "completed", "error", "canceled"},
           NEW resp \in {NoTurn} \union Turn, Write(t, i, text, status, resp)
    PROVE  /\ rows' \in [Task -> Seq(Row)]
           /\ \A u \in Task : DOMAIN rows'[u] = DOMAIN rows[u] /\ Len(rows'[u]) = Len(rows[u])
           /\ \A u \in Task : \A j \in DOMAIN rows[u] :
                 /\ rows'[u][j].turn = rows[u][j].turn /\ rows'[u][j].prev = rows[u][j].prev
                 /\ u # t \/ j # i => rows'[u][j] = rows[u][j]
           /\ rows'[t][i].status = status
           /\ resp = NoTurn => rows'[t][i].resp = rows[t][i].resp
<1> DEFINE new == Updated(rows[t][i], text, status, resp)
           seq == [rows[t] EXCEPT ![i] = new]
<1>1. rows \in [Task -> Seq(Row)] /\ rows[t] \in Seq(Row) /\ rows[t][i] \in Row
  BY RowsTyped DEF TypeOK
<1>2. /\ new \in Row /\ new.turn = rows[t][i].turn /\ new.prev = rows[t][i].prev
      /\ new.status = status /\ (resp = NoTurn => new.resp = rows[t][i].resp)
  BY <1>1 DEF Updated, Row
<1>3. rows' = [rows EXCEPT ![t] = seq]
  BY <1>1 DEF Write
<1> HIDE DEF new
<1>4. /\ seq \in Seq(Row) /\ DOMAIN seq = DOMAIN rows[t] /\ Len(seq) = Len(rows[t])
      /\ seq[i] = new /\ \A j \in DOMAIN rows[t] : j # i => seq[j] = rows[t][j]
  BY <1>1, <1>2
<1> HIDE DEF seq
<1>5. rows'[t] = seq /\ \A u \in Task : u # t => rows'[u] = rows[u]
  BY <1>1, <1>3
<1>6. rows' \in [Task -> Seq(Row)]
  BY <1>1, <1>3, <1>4
<1>7. \A u \in Task : DOMAIN rows'[u] = DOMAIN rows[u] /\ Len(rows'[u]) = Len(rows[u])
  BY <1>4, <1>5
<1>8. \A u \in Task : \A j \in DOMAIN rows[u] :
          /\ rows'[u][j].turn = rows[u][j].turn /\ rows'[u][j].prev = rows[u][j].prev
          /\ u # t \/ j # i => rows'[u][j] = rows[u][j]
  BY <1>2, <1>4, <1>5
<1>. QED
  BY <1>2, <1>4, <1>5, <1>6, <1>7, <1>8

\* One row is written, one that no other of its turn follows. It gets a response
\* id only as the newest of its task, by the handler that is done with it, and is
\* left running only by the handler that goes on with it.
LEMMA WriteFrame ==
    ASSUME MessagesInv, NEW t \in Task, NEW i \in DOMAIN rows[t],
           \A u \in Task : DOMAIN rows'[u] = DOMAIN rows[u] /\ Len(rows'[u]) = Len(rows[u]),
           \A u \in Task : \A j \in DOMAIN rows[u] :
              /\ rows'[u][j].turn = rows[u][j].turn /\ rows'[u][j].prev = rows[u][j].prev
              /\ u # t \/ j # i => rows'[u][j] = rows[u][j],
           current' = current, runner' = runner, unsettled' = unsettled,
           \A u \in Task : OnRow(u)' =>
              /\ OnRow(u)
              /\ handler'[u].row = handler[u].row /\ handler'[u].prev = handler[u].prev
              /\ At(u, "unwind") => At(u, "unwind")',
           \A u \in Task : At(u, "again")' => At(u, "again"),
           \A u \in Task : At(u, "assistant")' =>
              At(u, "assistant") /\ handler'[u].prev = handler[u].prev,
           \A u \in Task : \A j \in DOMAIN rows[u] : Reachable(u, j)' => Reachable(u, j),
           \A j \in DOMAIN rows[t] : i < j => rows[t][i].turn # rows[t][j].turn,
           ~(At(t, "again") /\ i = Len(rows[t])),
           \/ rows'[t][i].resp = rows[t][i].resp
           \/ i = Len(rows[t]) /\ At(t, "settle") /\ At(t, "unwind")',
           \A u \in Task : OnRow(u) /\ ~At(u, "unwind") =>
              \/ OnRow(u)' /\ ~At(u, "unwind")'
              \/ u = t /\ i = Len(rows[t]) /\ rows'[t][i].status # "running",
           rows'[t][i].status = "running" =>
              At(t, "run") /\ At(t, "run")' /\ i = Len(rows[t])
    PROVE  RowsInv'
<1>. USE DEF RowsInv, MessagesInv
<1>0. /\ \A u \in Task : Len(rows[u]) \in Nat /\ DOMAIN rows[u] = 1..Len(rows[u])
      /\ \A u \in Task : OnRow(u) => Len(rows[u]) \in DOMAIN rows[u]
  BY RowsTyped DEF WorksOnNewestRow
<1>1. WorksOnNewestRow'
  <2> SUFFICES ASSUME NEW u \in Task, OnRow(u)'
               PROVE  /\ Len(rows[u]) > 0 /\ handler[u].row = Len(rows[u])
                      /\ rows'[u][Len(rows[u])].turn = current[u]
    BY DEF WorksOnNewestRow
  <2>. QED
    BY <1>0 DEF WorksOnNewestRow
<1>2. AbandonedRunning'
  BY DEF AbandonedRunning
<1>3. StopsReachNoAbandoned'
  <2> SUFFICES ASSUME NEW u \in Task, NEW j \in DOMAIN rows[u], Reachable(u, j)'
               PROVE  /\ \A k \in DOMAIN rows[u] : j < k => rows'[u][j].turn # rows'[u][k].turn
                      /\ ~(At(u, "again")' /\ j = Len(rows[u]))
    BY DEF StopsReachNoAbandoned, Reachable, At
  <2>. QED
    BY DEF StopsReachNoAbandoned
<1>4. FirstRowUntouched'
  <2> SUFFICES ASSUME NEW u \in Task, At(u, "again")'
               PROVE  runner = "plain" /\ rows'[u][Len(rows[u])].status = "running"
    BY DEF FirstRowUntouched, At
  <2>1. At(u, "again") /\ OnRow(u)
    BY DEF At, OnRow
  <2>2. rows'[u][Len(rows[u])] = rows[u][Len(rows[u])]
    BY <1>0, <2>1
  <2>. QED
    BY <2>1, <2>2 DEF FirstRowUntouched
<1>5. \A u \in Task, j \in Nat :
          u # t \/ j <= Len(rows[t]) \/ rows'[t][i].resp = rows[t][i].resp =>
              (j - 1 <= Len(rows[u]) =>
                  \A k \in 1..(j - 1) : rows'[u][k].resp = rows[u][k].resp)
  <2> SUFFICES ASSUME NEW u \in Task, NEW j \in Nat, NEW k \in 1..(j - 1),
                      u # t \/ j <= Len(rows[t]) \/ rows'[t][i].resp = rows[t][i].resp,
                      j - 1 <= Len(rows[u])
               PROVE  rows'[u][k].resp = rows[u][k].resp
    OBVIOUS
  <2>1. k \in DOMAIN rows[u]
    BY <1>0
  <2>2. CASE u # t \/ k # i
    BY <2>1, <2>2
  <2>3. CASE u = t /\ k = i
    BY <1>0, <2>1, <2>3
  <2>. QED
    BY <2>2, <2>3
<1>6. PreviousIsNewest'
  <2> SUFFICES ASSUME NEW u \in Task
               PROVE  /\ At(u, "assistant")' =>
                            Continues(rows'[u], Len(rows[u]) + 1, handler'[u].prev)
                      /\ OnRow(u)' /\ ~At(u, "unwind")' =>
                            /\ rows'[u][Len(rows[u])].prev = handler'[u].prev
                            /\ rows'[u][Len(rows[u])].resp = NoTurn
                            /\ Continues(rows'[u], Len(rows[u]), handler'[u].prev)
    BY DEF PreviousIsNewest, At, OnRow
  <2>1. ASSUME At(u, "assistant")'
        PROVE  Continues(rows'[u], Len(rows[u]) + 1, handler'[u].prev)
    <3>1. /\ handler'[u].prev = handler[u].prev
          /\ Continues(rows[u], Len(rows[u]) + 1, handler[u].prev)
      BY <2>1 DEF PreviousIsNewest
    <3>2. u # t \/ rows'[t][i].resp = rows[t][i].resp
      BY <2>1 DEF At
    <3>3. Len(rows[u]) + 1 \in Nat /\ (Len(rows[u]) + 1) - 1 <= Len(rows[u])
      BY <1>0
    <3>4. \A k \in 1..((Len(rows[u]) + 1) - 1) : rows'[u][k].resp = rows[u][k].resp
      BY <1>5, <3>2, <3>3
    <3>. QED
      BY <3>1, <3>3, <3>4, ContinuesKept
  <2>2. ASSUME OnRow(u)', ~At(u, "unwind")'
        PROVE  /\ rows'[u][Len(rows[u])].prev = handler'[u].prev
               /\ rows'[u][Len(rows[u])].resp = NoTurn
               /\ Continues(rows'[u], Len(rows[u]), handler'[u].prev)
    <3>1. /\ OnRow(u) /\ ~At(u, "unwind") /\ Len(rows[u]) \in DOMAIN rows[u]
          /\ handler'[u].prev = handler[u].prev
      BY <1>0, <2>2
    <3>2. /\ rows[u][Len(rows[u])].prev = handler[u].prev
          /\ rows[u][Len(rows[u])].resp = NoTurn
          /\ Continues(rows[u], Len(rows[u]), handler[u].prev)
      BY <3>1 DEF PreviousIsNewest
    <3>3. rows'[u][Len(rows[u])].resp = rows[u][Len(rows[u])].resp
      BY <2>2, <3>1
    <3>4. \A k \in 1..(Len(rows[u]) - 1) : rows'[u][k].resp = rows[u][k].resp
      BY <1>0, <1>5
    <3>5. Continues(rows'[u], Len(rows[u]), handler[u].prev)
      BY <1>0, <3>2, <3>4, ContinuesKept
    <3>. QED
      BY <3>1, <3>2, <3>3, <3>5
  <2>. QED
    BY <2>1, <2>2
<1>9. RepliesChain'
  <2> SUFFICES ASSUME NEW u \in Task, NEW j \in DOMAIN rows[u], rows'[u][j].resp # NoTurn
               PROVE  Continues(rows'[u], j, rows[u][j].prev)
    BY DEF RepliesChain
  <2>1. \A k \in 1..(j - 1) : rows'[u][k].resp = rows[u][k].resp
    BY <1>0, <1>5
  <2>2. Continues(rows[u], j, rows[u][j].prev)
    <3>1. CASE u # t \/ j # i \/ rows'[t][i].resp = rows[t][i].resp
      BY <3>1 DEF RepliesChain
    <3>2. CASE /\ u = t /\ j = i /\ i = Len(rows[t]) /\ At(t, "settle")
      BY <3>2 DEF PreviousIsNewest, OnRow, At
    <3>. QED
      BY <3>1, <3>2
  <2>3. j \in Nat
    BY <1>0
  <2> DEFINE p == rows[u][j].prev
  <2>4. Continues(rows'[u], j, p) <=> Continues(rows[u], j, p)
    <3> HIDE DEF p
    <3>. QED
      BY <2>1, <2>3, ContinuesKept
  <2>. QED
    BY <2>2, <2>4
<1>10. RunningRowsOwned'
  <2> SUFFICES ASSUME NEW u \in Task, NEW j \in DOMAIN rows[u], rows'[u][j].status = "running"
               PROVE  \/ rows[u][j].turn \in unsettled
                      \/ /\ handler'[u].row = j
                         /\ handler'[u].pc \in {"again", "register", "run", "tool", "settle"}
                      \/ /\ runner = "plain"
                         /\ \E k \in DOMAIN rows[u] : k > j /\ rows[u][k].turn = rows[u][j].turn
    BY DEF RunningRowsOwned
  <2>1. CASE u = t /\ j = i
    <3>1. At(t, "run") /\ At(t, "run")' /\ i = Len(rows[t])
      BY <2>1
    <3>2. OnRow(t)' /\ OnRow(t) /\ handler[t].row = Len(rows[t])
      BY <3>1 DEF OnRow, At, WorksOnNewestRow
    <3>. QED
      BY <2>1, <3>1, <3>2 DEF At
  <2>2. CASE u # t \/ j # i
    <3>1. rows[u][j].status = "running"
      BY <2>2
    <3>2. CASE /\ handler[u].row = j
               /\ handler[u].pc \in {"again", "register", "run", "tool", "settle"}
      <4>1. OnRow(u) /\ ~At(u, "unwind") /\ j = Len(rows[u])
        BY <3>2 DEF OnRow, At, WorksOnNewestRow
      <4>2. OnRow(u)' /\ ~At(u, "unwind")'
        BY <2>2, <4>1
      <4>. QED
        BY <3>2, <4>2 DEF OnRow, At
    <3>. QED
      BY <3>1, <3>2 DEF RunningRowsOwned
  <2>. QED
    BY <2>1, <2>2
<1>. QED
  BY <1>1, <1>2, <1>3, <1>4, <1>6, <1>9, <1>10

\* What the agent has streamed is written to the row its handler works on.
LEMMA InvDelta ==
    ASSUME MessagesInv, NEW t \in Task, Delta(t)
    PROVE  MessagesInv'
<1>. USE DEF MessagesInv
<1>1. /\ At(t, "run") /\ Write(t, handler[t].row, "partial", "running", NoTurn)
      /\ UNCHANGED <<queueVars, runner, handler, runOf, stopVars, faultVars>>
  BY DEF Delta
<1> DEFINE i == handler[t].row
<1>2. /\ i \in DOMAIN rows[t] /\ i = Len(rows[t]) /\ OnRow(t)
      /\ \A j \in DOMAIN rows[t] : ~(i < j)
  BY <1>1, RowsTyped DEF RowsInv, WorksOnNewestRow, OnRow, At
<1>3. /\ rows' \in [Task -> Seq(Row)]
      /\ \A u \in Task : DOMAIN rows'[u] = DOMAIN rows[u] /\ Len(rows'[u]) = Len(rows[u])
      /\ \A u \in Task : \A j \in DOMAIN rows[u] :
            /\ rows'[u][j].turn = rows[u][j].turn /\ rows'[u][j].prev = rows[u][j].prev
            /\ u # t \/ j # i => rows'[u][j] = rows[u][j]
      /\ rows'[t][i].resp = rows[t][i].resp
  BY <1>1, <1>2, Written
<1> HIDE DEF i
<1>4. Runtime!RuntimeTypeOK'
  BY <1>1 DEF TypeOK, Runtime!RuntimeTypeOK, queueVars
<1>5. TypeOK'
  BY <1>1, <1>3, <1>4 DEF TypeOK, stopVars, faultVars
<1>6. TurnsInv'
  BY <1>1, <1>3, HandlerTurns
<1>7. RowsInv'
  <2>1. /\ \A u \in Task : /\ (OnRow(u)' <=> OnRow(u)) /\ (At(u, "unwind")' <=> At(u, "unwind"))
                           /\ (At(u, "again")' <=> At(u, "again")) /\ (At(u, "run")' <=> At(u, "run"))
                           /\ (At(u, "assistant")' <=> At(u, "assistant"))
        /\ ~At(t, "again")
    BY <1>1 DEF OnRow, At
  <2>2. \A u \in Task : \A j \in DOMAIN rows[u] : Reachable(u, j)' => Reachable(u, j)
    BY <1>1 DEF Reachable, stopVars
  <2>3. current' = current /\ runner' = runner /\ unsettled' = unsettled /\ handler' = handler
    BY <1>1 DEF queueVars, faultVars
  <2>. QED
    BY <1>1, <1>2, <1>3, <2>1, <2>2, <2>3, WriteFrame
<1>. QED
  BY <1>5, <1>6, <1>7

\* The write that settles a row, with the id of a reply that has one.
LEMMA InvSettle ==
    ASSUME MessagesInv, NEW t \in Task, Settle(t)
    PROVE  MessagesInv'
<1>. USE DEF MessagesInv
<1>1. /\ At(t, "settle") /\ GoTo(t, "unwind")
      /\ UNCHANGED <<queueVars, runner, runOf, stopVars, crashes>>
  BY DEF Settle
<1>2. /\ handler' \in [Task -> HandlerState] /\ handler'[t].pc = "unwind"
      /\ handler'[t].row = handler[t].row /\ handler'[t].prev = handler[t].prev
      /\ \A u \in Task : u # t => handler'[u] = handler[u]
  BY <1>1, HandlerTyped DEF HandlerPc
<1>3. current[t] \in Turn
  BY <1>1, HandlerHasTurn DEF At
<1>4. Runtime!RuntimeTypeOK' /\ current' = current
  BY <1>1 DEF TypeOK, Runtime!RuntimeTypeOK, queueVars
<1>5. /\ OnRow(t)' /\ OnRow(t) /\ ~At(t, "again")' /\ ~At(t, "again") /\ ~At(t, "assistant")'
      /\ ~At(t, "unwind") /\ At(t, "unwind")' /\ ~At(t, "run")'
      /\ \A u \in Task : u # t =>
            /\ (OnRow(u)' <=> OnRow(u)) /\ (At(u, "unwind")' <=> At(u, "unwind"))
            /\ (At(u, "again")' <=> At(u, "again")) /\ (At(u, "assistant")' <=> At(u, "assistant"))
  BY <1>1, <1>2 DEF OnRow, At
<1>6. \A u \in Task : \A j \in DOMAIN rows[u] : Reachable(u, j)' => Reachable(u, j)
  BY <1>1 DEF Reachable, stopVars
<1>7. CASE /\ StoreFails /\ UNCHANGED rows
           /\ unsettled' = unsettled \union {current[t]}
  <2>1. TypeOK'
    <3>1. storeErrors' \in 0..MaxStoreErrors
      BY <1>7, Bounds DEF TypeOK, StoreFails
    <3>2. unsettled' \subseteq Turn
      BY <1>3, <1>7 DEF TypeOK
    <3>. QED
      BY <1>1, <1>2, <1>4, <1>7, <3>1, <3>2 DEF TypeOK, HandlerState, stopVars
  <2>2. TurnsInv'
    BY <1>1, <1>2, <1>7, HandlerTurns DEF At
  <2>3. RowsInv'
    <3>1. \A u \in Task : At(u, "assistant") => Continues(rows[u], Len(rows[u]) + 1, handler[u].prev)
      BY DEF RowsInv, PreviousIsNewest
    <3>2. rows[t][Len(rows[t])].turn \in unsettled'
      BY <1>5, <1>7 DEF RowsInv, WorksOnNewestRow
    <3>3. /\ \A u \in Task : OnRow(u)' =>
                /\ OnRow(u) /\ current'[u] = current[u]
                /\ handler'[u].row = handler[u].row /\ handler'[u].prev = handler[u].prev
                /\ At(u, "unwind") => At(u, "unwind")'
          /\ \A u \in Task : At(u, "again")' => At(u, "again")
          /\ \A u \in Task : At(u, "assistant")' =>
                Continues(rows[u], Len(rows[u]) + 1, handler'[u].prev)
          /\ \A u \in Task : OnRow(u) /\ ~At(u, "unwind") =>
                \/ OnRow(u)' /\ ~At(u, "unwind")'
                \/ rows[u][Len(rows[u])].turn \in unsettled'
      BY <1>2, <1>4, <1>5, <3>1, <3>2
    <3>4. rows' = rows /\ runner' = runner /\ unsettled \subseteq unsettled'
      BY <1>1, <1>7
    <3>. QED
      BY <1>6, <3>3, <3>4, RowsFrame
  <2>. QED
    BY <2>1, <2>2, <2>3
<1>8. CASE SettleWrite(t) /\ UNCHANGED <<storeErrors, unsettled>>
  <2> DEFINE i == handler[t].row
  <2>1. /\ i \in DOMAIN rows[t] /\ i = Len(rows[t]) /\ \A j \in DOMAIN rows[t] : ~(i < j)
    BY <1>5, RowsTyped DEF RowsInv, WorksOnNewestRow
  <2>2. \E text \in {"none", "partial", "reply"}, status \in {"completed", "error", "canceled"},
           resp \in {NoTurn} \union Turn : Write(t, i, text, status, resp)
    <3>1. CASE handler[t].out = "canceled"
      BY <1>8, <3>1 DEF SettleWrite, MarkCanceled
    <3>2. CASE handler[t].out = "error"
      BY <1>8, <3>2 DEF SettleWrite, MarkFailed
    <3>3. CASE handler[t].out \notin {"canceled", "error"}
      BY <1>3, <1>8, <3>3 DEF SettleWrite
    <3>. QED
      BY <3>1, <3>2, <3>3
  <2>3. PICK text \in {"none", "partial", "reply"}, status \in {"completed", "error", "canceled"},
             resp \in {NoTurn} \union Turn : Write(t, i, text, status, resp)
    BY <2>2
  <2>4. /\ rows' \in [Task -> Seq(Row)]
        /\ \A u \in Task : DOMAIN rows'[u] = DOMAIN rows[u] /\ Len(rows'[u]) = Len(rows[u])
        /\ \A u \in Task : \A j \in DOMAIN rows[u] :
              /\ rows'[u][j].turn = rows[u][j].turn /\ rows'[u][j].prev = rows[u][j].prev
              /\ u # t \/ j # i => rows'[u][j] = rows[u][j]
        /\ rows'[t][i].status # "running"
    BY <2>1, <2>3, Written
  <2> HIDE DEF i
  <2>5. TypeOK'
    BY <1>1, <1>2, <1>4, <1>8, <2>4 DEF TypeOK, HandlerState, stopVars
  <2>6. TurnsInv'
    BY <1>1, <1>2, <2>4, HandlerTurns DEF At
  <2>7. RowsInv'
    <3>1. /\ \A u \in Task : OnRow(u)' =>
                /\ OnRow(u)
                /\ handler'[u].row = handler[u].row /\ handler'[u].prev = handler[u].prev
                /\ At(u, "unwind") => At(u, "unwind")'
          /\ \A u \in Task : At(u, "again")' => At(u, "again")
          /\ \A u \in Task : At(u, "assistant")' =>
                At(u, "assistant") /\ handler'[u].prev = handler[u].prev
          /\ \A u \in Task : OnRow(u) /\ ~At(u, "unwind") =>
                \/ OnRow(u)' /\ ~At(u, "unwind")'
                \/ u = t /\ i = Len(rows[t]) /\ rows'[t][i].status # "running"
      BY <1>2, <1>5, <2>1, <2>4
    <3>2. current' = current /\ runner' = runner /\ unsettled' = unsettled
      BY <1>1, <1>4, <1>8
    <3>. QED
      BY <1>1, <1>5, <1>6, <2>1, <2>4, <3>1, <3>2, WriteFrame
  <2>. QED
    BY <2>5, <2>6, <2>7
<1>. QED
  BY <1>7, <1>8 DEF Settle

\* A step of a stop request that reaches no more rows than before.
LEMMA StopOnly ==
    ASSUME MessagesInv, TypeOK', UNCHANGED <<queueVars, runner, rows, handler, unsettled>>,
           \A u \in Task : \A j \in DOMAIN rows[u] : Reachable(u, j)' => Reachable(u, j)
    PROVE  MessagesInv'
<1>. USE DEF MessagesInv
<1>1. TurnsInv'
  BY HandlerTurns
<1>2. \A u \in Task : /\ (OnRow(u)' <=> OnRow(u)) /\ (At(u, "unwind")' <=> At(u, "unwind"))
                      /\ (At(u, "again")' <=> At(u, "again"))
                      /\ (At(u, "assistant")' <=> At(u, "assistant"))
  BY DEF OnRow, At
<1>3. \A u \in Task : At(u, "assistant") => Continues(rows[u], Len(rows[u]) + 1, handler[u].prev)
  BY DEF RowsInv, PreviousIsNewest
<1>4. current' = current
  BY DEF queueVars
<1>5. RowsInv'
  BY <1>2, <1>3, <1>4, RowsFrame
<1>. QED
  BY <1>1, <1>5

\* The states of a stop request.
StopState ==
    [pc : {"idle", "cancel", "write", "done"}, task : Task \union {"none"}, row : Nat,
     answered : BOOLEAN]

LEMMA InvStopTake ==
    ASSUME MessagesInv, NEW x \in Stopper, NEW t \in Task, StopTake(x, t)
    PROVE  MessagesInv'
<1>. USE DEF MessagesInv
<1>1. /\ stopper' = [stopper EXCEPT ![x] =
                        IF runOf[t] = 0 THEN [NotStopping EXCEPT !.pc = "done"]
                        ELSE [pc |-> "cancel", task |-> t, row |-> runOf[t], answered |-> FALSE]]
      /\ runOf' = [runOf EXCEPT ![t] = 0]
      /\ UNCHANGED <<queueVars, runner, rows, handler, stopped, faultVars>>
  BY DEF StopTake
<1>2. stopper \in [Stopper -> StopState] /\ runOf \in [Task -> Nat] /\ runOf[t] \in 0..Len(rows[t])
  BY DEF TypeOK, StopState
<1>3. /\ stopper' \in [Stopper -> StopState] /\ \A y \in Stopper : y # x => stopper'[y] = stopper[y]
      /\ \/ stopper'[x].pc = "done"
         \/ runOf[t] # 0 /\ stopper'[x].pc = "cancel" /\ stopper'[x].task = t
                         /\ stopper'[x].row = runOf[t]
  <2>1. [NotStopping EXCEPT !.pc = "done"] \in StopState
        /\ [NotStopping EXCEPT !.pc = "done"].pc = "done"
    BY DEF NotStopping, StopState
  <2>2. [pc |-> "cancel", task |-> t, row |-> runOf[t], answered |-> FALSE] \in StopState
    BY <1>2 DEF StopState
  <2>3. CASE runOf[t] = 0
    BY <1>1, <1>2, <2>1, <2>3
  <2>4. CASE runOf[t] # 0
    BY <1>1, <1>2, <2>2, <2>4
  <2>. QED
    BY <2>3, <2>4
<1>4. /\ runOf' \in [Task -> Nat] /\ runOf'[t] = 0
      /\ \A u \in Task : u # t => runOf'[u] = runOf[u]
  BY <1>1, <1>2
<1>5. TypeOK'
  <2>1. Runtime!RuntimeTypeOK'
    BY <1>1 DEF TypeOK, Runtime!RuntimeTypeOK, queueVars
  <2>2. \A u \in Task : runOf'[u] \in 0..Len(rows'[u])
    BY <1>1, <1>4, RowsTyped DEF TypeOK
  <2>3. \A y \in Stopper : stopper'[y].pc \in {"cancel", "write"} =>
            stopper'[y].task \in Task /\ stopper'[y].row \in DOMAIN rows'[stopper'[y].task]
    <3> SUFFICES ASSUME NEW y \in Stopper, stopper'[y].pc \in {"cancel", "write"}
                 PROVE  stopper'[y].task \in Task /\ stopper'[y].row \in DOMAIN rows[stopper'[y].task]
      BY <1>1
    <3>1. CASE y # x
      BY <1>3, <3>1 DEF TypeOK
    <3>2. CASE y = x
      BY <1>2, <1>3, <3>2, RowsTyped
    <3>. QED
      BY <3>1, <3>2
  <2>. QED
    BY <1>1, <1>3, <1>4, <2>1, <2>2, <2>3 DEF TypeOK, StopState, faultVars
<1>6. \A u \in Task : \A j \in DOMAIN rows[u] : Reachable(u, j)' => Reachable(u, j)
  <2> SUFFICES ASSUME NEW u \in Task, NEW j \in DOMAIN rows[u], Reachable(u, j)'
               PROVE  Reachable(u, j)
    OBVIOUS
  <2>1. CASE runOf'[u] = j
    BY <1>4, <2>1, RowsTyped DEF Reachable
  <2>2. CASE \E y \in Stopper : stopper'[y].pc \in {"cancel", "write"} /\ stopper'[y].task = u
                                /\ stopper'[y].row = j
    BY <1>3, <2>2 DEF Reachable
  <2>. QED
    BY <2>1, <2>2 DEF Reachable
<1>. QED
  BY <1>1, <1>5, <1>6, StopOnly DEF faultVars

\* A stop request that changes its place only.
LEMMA StopMoves ==
    ASSUME TypeOK, NEW x \in Stopper, NEW pc \in {"write", "done"}
    PROVE  /\ stopper' = [stopper EXCEPT ![x].pc = pc] =>
                 /\ stopper' \in [Stopper -> StopState] /\ stopper'[x].pc = pc
                 /\ stopper'[x].task = stopper[x].task /\ stopper'[x].row = stopper[x].row
                 /\ \A y \in Stopper : y # x => stopper'[y] = stopper[y]
           /\ stopper' = [stopper EXCEPT ![x].pc = pc, ![x].answered = TRUE] =>
                 /\ stopper' \in [Stopper -> StopState] /\ stopper'[x].pc = pc
                 /\ \A y \in Stopper : y # x => stopper'[y] = stopper[y]
<1>1. stopper \in [Stopper -> StopState] /\ stopper[x] \in StopState
  BY DEF TypeOK, StopState
<1>2. ASSUME stopper' = [stopper EXCEPT ![x].pc = pc]
      PROVE  /\ stopper' \in [Stopper -> StopState] /\ stopper'[x].pc = pc
             /\ stopper'[x].task = stopper[x].task /\ stopper'[x].row = stopper[x].row
             /\ \A y \in Stopper : y # x => stopper'[y] = stopper[y]
  <2> DEFINE h == [stopper[x] EXCEPT !.pc = pc]
  <2>1. stopper' = [stopper EXCEPT ![x] = h]
    BY <1>1, <1>2
  <2>2. h \in StopState /\ h.pc = pc /\ h.task = stopper[x].task /\ h.row = stopper[x].row
    BY <1>1 DEF StopState
  <2> HIDE DEF h
  <2>. QED
    BY <1>1, <2>1, <2>2
<1>3. ASSUME stopper' = [stopper EXCEPT ![x].pc = pc, ![x].answered = TRUE]
      PROVE  /\ stopper' \in [Stopper -> StopState] /\ stopper'[x].pc = pc
             /\ \A y \in Stopper : y # x => stopper'[y] = stopper[y]
  <2> DEFINE h == [[stopper[x] EXCEPT !.pc = pc] EXCEPT !.answered = TRUE]
  <2>1. stopper' = [stopper EXCEPT ![x] = h]
    BY <1>1, <1>3 DEF StopState
  <2>2. h \in StopState /\ h.pc = pc
    BY <1>1 DEF StopState
  <2> HIDE DEF h
  <2>. QED
    BY <1>1, <2>1, <2>2
<1>. QED
  BY <1>2, <1>3

LEMMA InvStopCancel ==
    ASSUME MessagesInv, NEW x \in Stopper, StopCancel(x)
    PROVE  MessagesInv'
<1>. USE DEF MessagesInv
<1>1. /\ stopper[x].pc = "cancel" /\ stopper' = [stopper EXCEPT ![x].pc = "write"]
      /\ stopped' = stopped \union {rows[stopper[x].task][stopper[x].row].turn}
      /\ UNCHANGED <<queueVars, runner, rows, handler, runOf, faultVars>>
  BY DEF StopCancel
<1>2. /\ stopper' \in [Stopper -> StopState] /\ stopper'[x].pc = "write"
      /\ stopper'[x].task = stopper[x].task /\ stopper'[x].row = stopper[x].row
      /\ \A y \in Stopper : y # x => stopper'[y] = stopper[y]
  BY <1>1, StopMoves
<1>3. stopper[x].task \in Task /\ stopper[x].row \in DOMAIN rows[stopper[x].task]
  BY <1>1 DEF TypeOK
<1>4. rows[stopper[x].task][stopper[x].row].turn \in Turn
  BY <1>3, RowsTyped DEF Row
<1>5. TypeOK'
  <2>1. Runtime!RuntimeTypeOK'
    BY <1>1 DEF TypeOK, Runtime!RuntimeTypeOK, queueVars
  <2>2. stopped' \subseteq Turn
    BY <1>1, <1>4 DEF TypeOK
  <2>3. \A y \in Stopper : stopper'[y].pc \in {"cancel", "write"} =>
            stopper'[y].task \in Task /\ stopper'[y].row \in DOMAIN rows'[stopper'[y].task]
    BY <1>1, <1>2, <1>3 DEF TypeOK
  <2>. QED
    BY <1>1, <1>2, <2>1, <2>2, <2>3 DEF TypeOK, StopState, faultVars
<1>6. \A u \in Task : \A j \in DOMAIN rows[u] : Reachable(u, j)' => Reachable(u, j)
  BY <1>1, <1>2 DEF Reachable
<1>. QED
  BY <1>1, <1>5, <1>6, StopOnly DEF faultVars

LEMMA InvStopWrite ==
    ASSUME MessagesInv, NEW x \in Stopper, StopWrite(x)
    PROVE  MessagesInv'
<1>. USE DEF MessagesInv
<1>1. /\ stopper[x].pc = "write"
      /\ UNCHANGED <<queueVars, runner, handler, runOf, stopped, crashes, unsettled>>
  BY DEF StopWrite
<1> DEFINE t == stopper[x].task
           i == stopper[x].row
<1>2. t \in Task /\ i \in DOMAIN rows[t] /\ Reachable(t, i)
  BY <1>1 DEF TypeOK, Reachable
<1>3. Runtime!RuntimeTypeOK' /\ current' = current
  BY <1>1 DEF TypeOK, Runtime!RuntimeTypeOK, queueVars
<1>4. ASSUME \A y \in Stopper : y # x => stopper'[y] = stopper[y], stopper'[x].pc = "done"
      PROVE  \A u \in Task : \A j \in DOMAIN rows[u] : Reachable(u, j)' => Reachable(u, j)
  BY <1>1, <1>4 DEF Reachable
<1>5. CASE StoreFails /\ stopper' = [stopper EXCEPT ![x].pc = "done"] /\ UNCHANGED rows
  <2>1. /\ stopper' \in [Stopper -> StopState] /\ stopper'[x].pc = "done"
        /\ \A y \in Stopper : y # x => stopper'[y] = stopper[y]
    BY <1>5, StopMoves
  <2>2. storeErrors' \in 0..MaxStoreErrors
    BY <1>5, Bounds DEF TypeOK, StoreFails
  <2>3. \A y \in Stopper : stopper'[y].pc \in {"cancel", "write"} =>
            stopper'[y].task \in Task /\ stopper'[y].row \in DOMAIN rows'[stopper'[y].task]
    BY <1>5, <2>1 DEF TypeOK
  <2>4. TypeOK'
    BY <1>1, <1>3, <1>5, <2>1, <2>2, <2>3 DEF TypeOK, StopState
  <2>. QED
    BY <1>1, <1>4, <1>5, <2>1, <2>4, StopOnly
<1>6. CASE /\ Write(t, i, "none", "canceled", NoTurn)
           /\ stopper' = [stopper EXCEPT ![x].pc = "done", ![x].answered = TRUE]
           /\ StoreWorks
  <2>1. /\ stopper' \in [Stopper -> StopState] /\ stopper'[x].pc = "done"
        /\ \A y \in Stopper : y # x => stopper'[y] = stopper[y]
    BY <1>6, StopMoves
  <2>2. /\ rows' \in [Task -> Seq(Row)]
        /\ \A u \in Task : DOMAIN rows'[u] = DOMAIN rows[u] /\ Len(rows'[u]) = Len(rows[u])
        /\ \A u \in Task : \A j \in DOMAIN rows[u] :
              /\ rows'[u][j].turn = rows[u][j].turn /\ rows'[u][j].prev = rows[u][j].prev
              /\ u # t \/ j # i => rows'[u][j] = rows[u][j]
        /\ rows'[t][i].status = "canceled" /\ rows'[t][i].resp = rows[t][i].resp
    BY <1>2, <1>6, Written
  <2> HIDE DEF t, i
  <2>3. \A y \in Stopper : stopper'[y].pc \in {"cancel", "write"} =>
            stopper'[y].task \in Task /\ stopper'[y].row \in DOMAIN rows'[stopper'[y].task]
    <3> SUFFICES ASSUME NEW y \in Stopper, stopper'[y].pc \in {"cancel", "write"}
                 PROVE  /\ stopper'[y].task \in Task
                        /\ stopper'[y].row \in DOMAIN rows'[stopper'[y].task]
      OBVIOUS
    <3>1. y # x /\ stopper'[y] = stopper[y]
      BY <2>1
    <3>2. stopper[y].task \in Task /\ stopper[y].row \in DOMAIN rows[stopper[y].task]
      BY <3>1 DEF TypeOK
    <3>. QED
      BY <2>2, <3>1, <3>2
  <2>4. TypeOK'
    BY <1>1, <1>3, <1>6, <2>1, <2>2, <2>3 DEF TypeOK, StopState, StoreWorks
  <2>5. TurnsInv'
    BY <1>1, <2>2, HandlerTurns
  <2>6. RowsInv'
    <3>1. \A u \in Task : /\ (OnRow(u)' <=> OnRow(u)) /\ (At(u, "unwind")' <=> At(u, "unwind"))
                          /\ (At(u, "again")' <=> At(u, "again"))
                          /\ (At(u, "assistant")' <=> At(u, "assistant"))
      BY <1>1 DEF OnRow, At
    <3>2. \A u \in Task : \A j \in DOMAIN rows[u] : Reachable(u, j)' => Reachable(u, j)
      BY <1>4, <2>1
    <3>3. /\ \A j \in DOMAIN rows[t] : i < j => rows[t][i].turn # rows[t][j].turn
          /\ ~(At(t, "again") /\ i = Len(rows[t]))
      BY <1>2 DEF RowsInv, StopsReachNoAbandoned
    <3>. QED
      BY <1>1, <1>2, <1>3, <2>2, <3>1, <3>2, <3>3, WriteFrame
  <2>. QED
    BY <2>4, <2>5, <2>6
<1>. QED
  BY <1>5, <1>6 DEF StopWrite

\* A row without a response id leaves the newest response as it was.
LEMMA ContinuesPast ==
    ASSUME NEW rs, NEW j \in Nat, j > 0, NEW p, rs[j].resp = NoTurn, Continues(rs, j, p)
    PROVE  Continues(rs, j + 1, p)
<1>1. {i \in 1..((j + 1) - 1) : rs[i].resp # NoTurn} = {i \in 1..(j - 1) : rs[i].resp # NoTurn}
  OBVIOUS
<1>. QED
  BY <1>1 DEF Continues

\* A turn gets its first row, or the second of the fallback to a plain runner.
LEMMA InvInserts ==
    ASSUME MessagesInv, NEW t \in Task, NEW next \in {"again", "register"}, InsertsRow(t, next),
           At(t, "assistant") \/ At(t, "again"),
           next = "again" => runner = "plain" /\ At(t, "assistant"),
           UNCHANGED <<queueVars, runner, runOf, stopVars>>
    PROVE  MessagesInv'
<1>. USE DEF MessagesInv
<1> DEFINE n == Len(rows[t])
           e == current[t]
           new == NewRow(t)
<1>1. /\ rows' = [rows EXCEPT ![t] = Append(rows[t], new)]
      /\ handler' = [handler EXCEPT ![t].pc = next, ![t].row = n + 1]
      /\ UNCHANGED faultVars
  BY DEF InsertsRow, TypeOK
<1>2. e \in called /\ e \in Turn
  BY HandlerHasTurn DEF At
<1>3. /\ new \in Row /\ new.turn = e /\ new.status = "running" /\ new.resp = NoTurn
      /\ new.prev = handler[t].prev
  BY <1>2, RowsTyped DEF NewRow, Row
<1>4. n \in Nat /\ rows[t] \in Seq(Row) /\ DOMAIN rows[t] = 1..n
  BY RowsTyped
<1> HIDE DEF new
<1>5. /\ rows' \in [Task -> Seq(Row)] /\ \A u \in Task : u # t => rows'[u] = rows[u]
      /\ Len(rows'[t]) = n + 1 /\ DOMAIN rows'[t] = 1..(n + 1) /\ rows'[t][n + 1] = new
      /\ \A j \in 1..n : j \in DOMAIN rows[t] /\ rows'[t][j] = rows[t][j]
      /\ \A j \in DOMAIN rows'[t] : j \in 1..n \/ j = n + 1
  <2>1. /\ Append(rows[t], new) \in Seq(Row) /\ Len(Append(rows[t], new)) = n + 1
        /\ DOMAIN Append(rows[t], new) = 1..(n + 1)
        /\ \A j \in 1..n : Append(rows[t], new)[j] = rows[t][j]
        /\ Append(rows[t], new)[n + 1] = new
    BY <1>3, <1>4, Appended
  <2>2. rows \in [Task -> Seq(Row)]
    BY DEF TypeOK
  <2>. QED
    BY <1>1, <1>4, <2>1, <2>2
<1>6. /\ handler' \in [Task -> HandlerState] /\ handler'[t].pc = next
      /\ handler'[t].row = n + 1 /\ handler'[t].prev = handler[t].prev
      /\ \A u \in Task : u # t => handler'[u] = handler[u]
  <2>1. next \in HandlerPc /\ n + 1 \in Nat
    BY <1>4 DEF HandlerPc
  <2>. QED
    BY <1>1, <2>1, HandlerMoves
<1>7. At(t, "again") =>
          /\ n \in DOMAIN rows[t] /\ rows[t][n].turn = e
          /\ runner = "plain" /\ rows[t][n].status = "running" /\ rows[t][n].resp = NoTurn
          /\ Continues(rows[t], n, handler[t].prev)
  BY <1>4 DEF RowsInv, WorksOnNewestRow, FirstRowUntouched, PreviousIsNewest, OnRow, At
<1>8. At(t, "assistant") => /\ Beginning(t) /\ Awaits(t, e)
                            /\ Continues(rows[t], n + 1, handler[t].prev)
  BY DEF Beginning, Awaits, At, RowsInv, PreviousIsNewest
<1>9. /\ OnRow(t)' /\ ~At(t, "assistant")' /\ ~At(t, "unwind")'
      /\ (At(t, "again")' => runner = "plain" /\ At(t, "assistant"))
      /\ \A u \in Task : u # t =>
            /\ (OnRow(u)' <=> OnRow(u)) /\ (At(u, "unwind")' <=> At(u, "unwind"))
            /\ (At(u, "again")' <=> At(u, "again")) /\ (At(u, "assistant")' <=> At(u, "assistant"))
  BY <1>6 DEF OnRow, At
<1>10. /\ stage[t] = "handling" /\ called' = called /\ sendq' = sendq /\ queue' = queue
       /\ stage' = stage /\ current' = current /\ unsettled' = unsettled
  BY <1>1 DEF TurnsInv, HandlesTaken, At, queueVars, faultVars
<1>11. TypeOK'
  <2>1. Runtime!RuntimeTypeOK'
    BY DEF TypeOK, Runtime!RuntimeTypeOK, queueVars
  <2>2. \A u \in Task : runOf'[u] \in 0..Len(rows'[u])
    <3> SUFFICES ASSUME NEW u \in Task PROVE runOf[u] \in 0..Len(rows'[u])
      OBVIOUS
    <3>1. runOf[u] \in 0..Len(rows[u])
      BY DEF TypeOK
    <3>. QED
      BY <1>4, <1>5, <3>1
  <2>3. \A x \in Stopper : stopper'[x].pc \in {"cancel", "write"} =>
            stopper'[x].task \in Task /\ stopper'[x].row \in DOMAIN rows'[stopper'[x].task]
    <3> SUFFICES ASSUME NEW x \in Stopper, stopper[x].pc \in {"cancel", "write"}
                 PROVE  stopper[x].task \in Task /\ stopper[x].row \in DOMAIN rows'[stopper[x].task]
      BY DEF stopVars
    <3>1. stopper[x].task \in Task /\ stopper[x].row \in DOMAIN rows[stopper[x].task]
      BY DEF TypeOK
    <3>. QED
      BY <1>4, <1>5, <3>1
  <2>. QED
    BY <1>1, <1>5, <1>6, <2>1, <2>2, <2>3 DEF TypeOK, HandlerState, stopVars, faultVars
<1>12. \A u \in Task : u # t => \A j \in DOMAIN rows[u] : rows[u][j].turn # e
  BY <1>2, <1>7, <1>8 DEF TurnsInv, AwaitedHaveNoRow, RowsOfOneTask
<1>13. At(t, "assistant") => \A j \in DOMAIN rows[t] : rows[t][j].turn # e
  BY <1>2, <1>8 DEF TurnsInv, AwaitedHaveNoRow
<1>14. ~Beginning(t)' /\ \A u \in Task : u # t => (Beginning(u)' <=> Beginning(u))
  BY <1>6, <1>10 DEF Beginning
<1>15. \A u \in Task : \A f \in Turn : Awaits(u, f)' => Awaits(u, f) /\ f # e
  <2> SUFFICES ASSUME NEW u \in Task, NEW f \in Turn, Awaits(u, f)'
               PROVE  Awaits(u, f) /\ f # e
    OBVIOUS
  <2>1. Awaits(u, f)
    BY <1>10, <1>14 DEF Awaits, Queued
  <2>2. CASE At(t, "again")
    BY <1>2, <1>7, <2>1, <2>2 DEF TurnsInv, AwaitedHaveNoRow
  <2>3. CASE At(t, "assistant")
    <3>1. u = t => Queued(t, f)
      BY <1>10, <1>14 DEF Awaits, Queued
    <3>2. ~Queued(t, e)
      BY <1>8, <2>3 DEF TurnsInv, AwaitedOnce
    <3>3. u # t => f # e
      BY <1>2, <1>8, <2>1, <2>3 DEF TurnsInv, AwaitedOnce
    <3>. QED
      BY <2>1, <3>1, <3>2, <3>3
  <2>. QED
    BY <2>1, <2>2, <2>3
<1>16. TurnsInv'
  <2>1. AwaitedHaveNoRow'
    <3> SUFFICES ASSUME NEW u \in Task, NEW f \in Turn, Awaits(u, f)',
                        NEW v \in Task, NEW j \in DOMAIN rows'[v]
                 PROVE  f \in called /\ rows'[v][j].turn # f
      BY <1>10, <1>15 DEF TurnsInv, AwaitedHaveNoRow
    <3>1. /\ f \in called /\ f # e
          /\ \A k \in DOMAIN rows[v] : rows[v][k].turn # f
      BY <1>15 DEF TurnsInv, AwaitedHaveNoRow
    <3>. QED
      BY <1>3, <1>5, <3>1
  <2>2. AwaitedOnce'
    <3>1. \A u, v \in Task, f \in Turn : Awaits(u, f)' /\ Awaits(v, f)' => u = v
      BY <1>15 DEF TurnsInv, AwaitedOnce
    <3>2. \A u \in Task : Beginning(u)' => ~Queued(u, current[u])'
      BY <1>10, <1>14 DEF TurnsInv, AwaitedOnce, Queued
    <3>. QED
      BY <1>10, <3>1, <3>2 DEF TurnsInv, AwaitedOnce, Queued
  <2>3. RowsOfOneTask'
    <3>1. \A u \in Task : \A j \in DOMAIN rows'[u] :
              \/ j \in DOMAIN rows[u] /\ rows'[u][j].turn = rows[u][j].turn
              \/ u = t /\ rows'[u][j].turn = e
      BY <1>3, <1>5
    <3>2. /\ \A u \in Task : \A j \in DOMAIN rows[u] : rows[u][j].turn \in called
          /\ \A u, v \in Task : \A j \in DOMAIN rows[u], k \in DOMAIN rows[v] :
                rows[u][j].turn = rows[v][k].turn => u = v
      BY DEF TurnsInv, RowsOfOneTask
    <3>3. \A u \in Task : \A j \in DOMAIN rows'[u] : rows'[u][j].turn \in called
      BY <1>2, <3>1, <3>2
    <3>4. \A u, v \in Task : \A j \in DOMAIN rows'[u], k \in DOMAIN rows'[v] :
              rows'[u][j].turn = rows'[v][k].turn => u = v
      <4> SUFFICES ASSUME NEW u \in Task, NEW v \in Task, NEW j \in DOMAIN rows'[u],
                          NEW k \in DOMAIN rows'[v], rows'[u][j].turn = rows'[v][k].turn, u # v
                   PROVE  FALSE
        OBVIOUS
      <4>1. CASE u = t \/ v = t
        BY <1>12, <3>1, <3>2, <4>1
      <4>2. CASE u # t /\ v # t
        BY <3>1, <3>2, <4>2
      <4>. QED
        BY <4>1, <4>2
    <3>. QED
      BY <1>10, <3>3, <3>4 DEF RowsOfOneTask
  <2>4. HandlesTaken'
    BY <1>6, <1>10 DEF TurnsInv, HandlesTaken
  <2>. QED
    BY <2>1, <2>2, <2>3, <2>4 DEF TurnsInv
<1>17. WorksOnNewestRow'
  BY <1>3, <1>4, <1>5, <1>6, <1>9, <1>10 DEF RowsInv, WorksOnNewestRow
<1>18. AbandonedRunning'
  <2> SUFFICES ASSUME NEW u \in Task, NEW i \in DOMAIN rows'[u], NEW j \in DOMAIN rows'[u], i < j,
                      rows'[u][i].turn = rows'[u][j].turn
               PROVE  rows'[u][i].status = "running"
    BY DEF AbandonedRunning
  <2>1. CASE u # t \/ j \in 1..n
    BY <1>4, <1>5, <2>1 DEF RowsInv, AbandonedRunning
  <2>2. CASE u = t /\ j = n + 1
    <3>1. i \in 1..n /\ i \in DOMAIN rows[t] /\ rows'[t][i] = rows[t][i] /\ rows[t][i].turn = e
      BY <1>3, <1>4, <1>5, <2>2
    <3>2. At(t, "again")
      BY <1>13, <3>1
    <3>3. i = n \/ i < n
      BY <1>4, <3>1
    <3>. QED
      BY <1>7, <2>2, <3>1, <3>2, <3>3 DEF RowsInv, AbandonedRunning
  <2>. QED
    BY <1>5, <2>1, <2>2
<1>19. StopsReachNoAbandoned'
  <2> SUFFICES ASSUME NEW u \in Task, NEW j \in DOMAIN rows'[u], Reachable(u, j)'
               PROVE  /\ \A k \in DOMAIN rows'[u] : j < k => rows'[u][j].turn # rows'[u][k].turn
                      /\ ~(At(u, "again")' /\ j = Len(rows'[u]))
    BY DEF StopsReachNoAbandoned, Reachable, At
  <2>1. Reachable(u, j)
    BY DEF Reachable, stopVars
  <2>2. j \in DOMAIN rows[u]
    <3>1. runOf[u] \in 0..Len(rows[u]) /\ DOMAIN rows[u] = 1..Len(rows[u]) /\ Len(rows[u]) \in Nat
      BY RowsTyped DEF TypeOK
    <3>2. CASE runOf[u] = j
      <4>1. j # 0
        BY <1>4, <1>5, <3>1
      <4>. QED
        BY <3>1, <3>2, <4>1
    <3>3. CASE runOf[u] # j
      BY <2>1, <3>3 DEF Reachable, TypeOK
    <3>. QED
      BY <3>2, <3>3
  <2>3. /\ \A k \in DOMAIN rows[u] : j < k => rows[u][j].turn # rows[u][k].turn
        /\ ~(At(u, "again") /\ j = Len(rows[u]))
    BY <2>1, <2>2 DEF RowsInv, StopsReachNoAbandoned
  <2>4. CASE u # t
    BY <1>5, <1>9, <2>3, <2>4
  <2>5. CASE u = t
    <3>1. rows[t][j].turn # e
      <4>1. CASE At(t, "assistant")
        BY <1>13, <2>2, <2>5, <4>1
      <4>2. CASE At(t, "again")
        <5>1. j # n /\ j \in 1..n
          BY <1>4, <2>2, <2>3, <2>5, <4>2
        <5>. QED
          BY <1>4, <1>7, <2>3, <2>5, <4>2, <5>1
      <4>. QED
        BY <4>1, <4>2
    <3>2. j \in 1..n
      BY <1>4, <2>2, <2>5
    <3>3. \A k \in DOMAIN rows'[t] : j < k => rows'[t][j].turn # rows'[t][k].turn
      BY <1>3, <1>5, <2>3, <2>5, <3>1, <3>2
    <3>. QED
      BY <1>4, <1>5, <2>5, <3>2, <3>3
  <2>. QED
    BY <2>4, <2>5
<1>20. FirstRowUntouched'
  BY <1>3, <1>5, <1>9 DEF RowsInv, FirstRowUntouched
<1>21. PreviousIsNewest'
  <2>1. Continues(rows[t], n + 1, handler[t].prev)
    <3>1. At(t, "again") => n \in Nat /\ n > 0
      BY <1>4, <1>7
    <3>. QED
      BY <1>7, <1>8, <3>1, ContinuesPast
  <2>2. Continues(rows'[t], n + 1, handler[t].prev)
    <3>1. n + 1 \in Nat /\ \A k \in 1..((n + 1) - 1) : rows'[t][k].resp = rows[t][k].resp
      BY <1>4, <1>5
    <3>. QED
      BY <2>1, <3>1, ContinuesKept
  <2>3. /\ rows'[t][Len(rows'[t])].prev = handler'[t].prev
        /\ rows'[t][Len(rows'[t])].resp = NoTurn
        /\ Continues(rows'[t], Len(rows'[t]), handler'[t].prev)
    BY <1>3, <1>5, <1>6, <2>2
  <2>. QED
    BY <1>5, <1>6, <1>9, <2>3 DEF RowsInv, PreviousIsNewest
<1>22. RepliesChain'
  <2> SUFFICES ASSUME NEW u \in Task, NEW j \in DOMAIN rows'[u], rows'[u][j].resp # NoTurn
               PROVE  Continues(rows'[u], j, rows'[u][j].prev)
    BY DEF RepliesChain
  <2>1. CASE u # t
    BY <1>5, <2>1 DEF RowsInv, RepliesChain
  <2>2. CASE u = t
    <3>1. j \in 1..n /\ rows'[t][j] = rows[t][j]
      BY <1>3, <1>5, <2>2
    <3>2. Continues(rows[t], j, rows[t][j].prev)
      BY <1>4, <2>2, <3>1 DEF RowsInv, RepliesChain
    <3>3. j \in Nat /\ \A k \in 1..(j - 1) : rows'[t][k].resp = rows[t][k].resp
      BY <1>4, <1>5, <3>1
    <3> DEFINE p == rows[t][j].prev
    <3>4. Continues(rows'[t], j, p) <=> Continues(rows[t], j, p)
      <4> HIDE DEF p
      <4>. QED
        BY <3>3, ContinuesKept
    <3>. QED
      BY <2>2, <3>1, <3>2, <3>4
  <2>. QED
    BY <2>1, <2>2
<1>23. RunningRowsOwned'
  <2> SUFFICES ASSUME NEW u \in Task, NEW j \in DOMAIN rows'[u], rows'[u][j].status = "running"
               PROVE  \/ rows'[u][j].turn \in unsettled
                      \/ /\ handler'[u].row = j
                         /\ handler'[u].pc \in {"again", "register", "run", "tool", "settle"}
                      \/ /\ runner = "plain"
                         /\ \E k \in DOMAIN rows'[u] : k > j /\ rows'[u][k].turn = rows'[u][j].turn
    BY <1>10 DEF RunningRowsOwned
  <2>1. CASE u # t
    <3>1. rows'[u] = rows[u] /\ handler'[u] = handler[u]
      BY <1>5, <1>6, <2>1
    <3>2. rows[u][j].status = "running" /\ j \in DOMAIN rows[u]
      BY <3>1
    <3>. QED
      BY <3>1, <3>2 DEF RowsInv, RunningRowsOwned
  <2>2. CASE u = t /\ j = n + 1
    BY <1>6, <2>2
  <2>3. CASE u = t /\ j \in 1..n
    <3>1. rows'[t][j] = rows[t][j] /\ j \in DOMAIN rows[t]
      BY <1>5, <2>3
    <3>2. CASE rows[t][j].turn \in unsettled
      BY <2>3, <3>1, <3>2
    <3>3. CASE /\ handler[t].row = j
               /\ handler[t].pc \in {"again", "register", "run", "tool", "settle"}
      <4>1. At(t, "again") /\ j = n
        BY <3>3 DEF RowsInv, WorksOnNewestRow, OnRow, At
      <4>2. n + 1 \in DOMAIN rows'[t] /\ n + 1 > n /\ rows'[t][n + 1].turn = e
        BY <1>3, <1>4, <1>5
      <4>. QED
        BY <1>7, <2>3, <3>1, <4>1, <4>2
    <3>4. CASE /\ runner = "plain"
               /\ \E k \in DOMAIN rows[t] : k > j /\ rows[t][k].turn = rows[t][j].turn
      <4>1. PICK k \in DOMAIN rows[t] : k > j /\ rows[t][k].turn = rows[t][j].turn
        BY <3>4
      <4>2. k \in DOMAIN rows'[t] /\ rows'[t][k] = rows[t][k]
        BY <1>4, <1>5
      <4>. QED
        BY <2>3, <3>1, <3>4, <4>1, <4>2
    <3>. QED
      BY <2>3, <3>1, <3>2, <3>3, <3>4 DEF RowsInv, RunningRowsOwned
  <2>. QED
    BY <1>5, <2>1, <2>2, <2>3
<1>. QED
  BY <1>11, <1>16, <1>17, <1>18, <1>19, <1>20, <1>21, <1>22, <1>23 DEF RowsInv

LEMMA InvInsertAssistantRow ==
    ASSUME MessagesInv, NEW t \in Task, InsertAssistantRow(t)
    PROVE  MessagesInv'
<1>1. At(t, "assistant") /\ UNCHANGED <<queueVars, runner, runOf, stopVars>>
  BY DEF InsertAssistantRow
<1>2. CASE ReturnsEarly(t)
  BY <1>1, <1>2, InvReturnsEarly DEF At
<1>3. CASE InsertsRow(t, IF runner = "plain" THEN "again" ELSE "register")
  <2>1. CASE runner = "plain"
    <3>1. InsertsRow(t, "again")
      BY <1>3, <2>1
    <3>. QED
      BY <1>1, <2>1, <3>1, InvInserts
  <2>2. CASE runner # "plain"
    <3>1. InsertsRow(t, "register")
      BY <1>3, <2>2
    <3>. QED
      BY <1>1, <3>1, InvInserts
  <2>. QED
    BY <2>1, <2>2
<1>. QED
  BY <1>2, <1>3 DEF InsertAssistantRow

LEMMA InvInsertRowsAgain ==
    ASSUME MessagesInv, NEW t \in Task, InsertRowsAgain(t)
    PROVE  MessagesInv'
<1>1. At(t, "again") /\ UNCHANGED <<queueVars, runner, runOf, stopVars>>
  BY DEF InsertRowsAgain
<1>2. CASE ReturnsEarly(t)
  BY <1>1, <1>2, InvReturnsEarly DEF At
<1>3. CASE InsertsRow(t, "register")
  BY <1>1, <1>3, InvInserts
<1>. QED
  BY <1>2, <1>3 DEF InsertRowsAgain

\* A crash spoils the turns none of whose rows has been settled. The row of a
\* running handler is such a row, and so are the rows of its turn before it.
LEMMA InvCrash ==
    ASSUME MessagesInv, Crash
    PROVE  MessagesInv'
<1>. USE DEF MessagesInv
<1>1. /\ crashes < MaxCrashes /\ crashes' = crashes + 1
      /\ unsettled' = unsettled \union {e \in called :
                        \A t \in Task : \A i \in DOMAIN rows[t] :
                            rows[t][i].turn = e => rows[t][i].status = "running"}
      /\ UNCHANGED <<called, calling, runner, rows, storeErrors>>
      /\ actors' = {} /\ cancelled' = {} /\ stopped' = {}
      /\ runOf' = [t \in Task |-> 0] /\ handler' = [t \in Task |-> NoHandler]
  BY DEF Crash
<1>2. \A t \in Task : /\ sendq'[t] = {} /\ queue'[t] = <<>> /\ stage'[t] = "idle"
                      /\ handler'[t].pc = "none" /\ runOf'[t] = 0
  BY DEF Crash, NoHandler, Handler
<1>3. stopper' \in [Stopper -> StopState] /\ \A x \in Stopper : stopper'[x].pc \in {"idle", "done"}
  <2>1. NotStopping \in StopState /\ NotStopping.pc = "idle"
    BY DEF NotStopping, StopState
  <2>2. \A x \in Stopper : stopper[x] \in StopState
    BY DEF TypeOK, StopState
  <2>3. \A x \in Stopper : [stopper[x] EXCEPT !.pc = "done"] \in StopState
                           /\ [stopper[x] EXCEPT !.pc = "done"].pc = "done"
    BY <2>2 DEF StopState
  <2>4. stopper' = [x \in Stopper |-> IF stopper[x].pc = "idle" THEN NotStopping
                                      ELSE [stopper[x] EXCEPT !.pc = "done"]]
    BY DEF Crash
  <2>. QED
    BY <2>1, <2>3, <2>4
<1>4. TypeOK'
  <2>1. Runtime!RuntimeTypeOK'
    <3>1. /\ Runtime!RuntimeTypeOK /\ Len(<<>>) = 0 /\ <<>> \in Seq(Turn)
      BY DEF TypeOK
    <3>2. /\ sendq' \in [Task -> SUBSET Turn] /\ queue' \in [Task -> Seq(Turn)]
          /\ log' \in [Task -> Seq(Turn)] /\ stage' \in [Task -> Runtime!Stage]
          /\ current' \in [Task -> Turn \union {NoTurn}]
          /\ inflight' \in [Task -> Turn \union {NoTurn}]
      BY <3>1 DEF Crash, Runtime!Stage
    <3>. QED
      BY <1>1, <1>2, <3>1, <3>2, Bounds DEF Runtime!RuntimeTypeOK
  <2>2. NoHandler \in HandlerState
    BY Bounds DEF NoHandler, Handler, HandlerState, HandlerPc
  <2>3. \A t \in Task : runOf'[t] \in 0..Len(rows'[t])
    BY <1>1, <1>2, RowsTyped
  <2>4. crashes' \in 0..MaxCrashes
    BY <1>1, Bounds DEF TypeOK
  <2>5. unsettled' \subseteq Turn
    BY <1>1, RowsTyped DEF TypeOK
  <2>. QED
    BY <1>1, <1>3, <2>1, <2>2, <2>3, <2>4, <2>5 DEF TypeOK, HandlerState, StopState
<1>5. TurnsInv'
  <2>1. \A t \in Task : ~Beginning(t)'
    BY <1>2 DEF Beginning
  <2>2. AwaitedHaveNoRow' /\ AwaitedOnce' /\ RowsOfOneTask'
    BY <1>1, <1>2, <2>1, TurnsFrame DEF TurnsInv
  <2>3. HandlesTaken'
    BY <1>2 DEF HandlesTaken
  <2>. QED
    BY <2>2, <2>3 DEF TurnsInv
<1>6. RowsInv'
  <2>1. \A t \in Task : ~OnRow(t)' /\ ~At(t, "again")' /\ ~At(t, "assistant")'
    BY <1>2 DEF OnRow, At
  <2>2. \A t \in Task : \A i \in DOMAIN rows[t] : ~Reachable(t, i)'
    BY <1>2, <1>3, RowsTyped DEF Reachable
  <2>3. ASSUME NEW t \in Task, OnRow(t), rows[t][Len(rows[t])].status = "running"
        PROVE  rows[t][Len(rows[t])].turn \in unsettled'
    <3> DEFINE n == Len(rows[t])
    <3>1. n \in DOMAIN rows[t] /\ DOMAIN rows[t] = 1..n /\ n \in Nat
      BY <2>3, RowsTyped DEF RowsInv, WorksOnNewestRow
    <3>2. rows[t][n].turn \in called
      BY <3>1 DEF TurnsInv, RowsOfOneTask
    <3>3. ASSUME NEW u \in Task, NEW i \in DOMAIN rows[u], rows[u][i].turn = rows[t][n].turn
          PROVE  rows[u][i].status = "running"
      <4>1. u = t
        BY <3>1, <3>3 DEF TurnsInv, RowsOfOneTask
      <4>2. i = n \/ i < n
        BY <3>1, <4>1
      <4>. QED
        BY <2>3, <3>1, <3>3, <4>1, <4>2 DEF RowsInv, AbandonedRunning
    <3>. QED
      BY <1>1, <3>2, <3>3
  <2>4. rows' = rows /\ runner' = runner /\ unsettled \subseteq unsettled'
    BY <1>1
  <2>. QED
    BY <2>1, <2>2, <2>3, <2>4, RowsFrame
<1>. QED
  BY <1>4, <1>5, <1>6

\* Every step keeps the invariant.
LEMMA InvStep == MessagesInv /\ [Next]_vars => MessagesInv'
<1> SUFFICES ASSUME MessagesInv, [Next]_vars PROVE MessagesInv'
  OBVIOUS
<1>1. ASSUME NEW t \in Task, NEW e \in Turn, UserPost(t, e) \/ EnqueueSend(t, e) \/ UserGivesUp(t, e)
      PROVE  MessagesInv'
  BY <1>1, InvUserPost, InvEnqueueSend, InvUserGivesUp
<1>2. ASSUME NEW t \in Task, ActorStep(t)
      PROVE  MessagesInv'
  BY <1>2, InvTake, InvHandlerCalled, InvRoundEnds DEF ActorStep
<1>3. ASSUME NEW t \in Task, HandlerStep(t)
      PROVE  MessagesInv'
  BY <1>3, InvReadPrevious, InvInsertAssistantRow, InvInsertRowsAgain, InvRegister, InvSettle,
     InvUnwind, InvHandlerReturned DEF HandlerStep
<1>4. ASSUME NEW t \in Task, RunnerStep(t) \/ Delta(t)
      PROVE  MessagesInv'
  BY <1>4, InvToolDone, InvRunnerReturns, InvDelta DEF RunnerStep
<1>5. ASSUME NEW t \in Task, NEW u \in Task, NEW e \in Turn, ToolPost(t, u, e)
      PROVE  MessagesInv'
  BY <1>5, InvToolPost
<1>6. ASSUME NEW x \in Stopper, StopStep(x) \/ \E t \in Task : StopTake(x, t)
      PROVE  MessagesInv'
  BY <1>6, InvStopTake, InvStopCancel, InvStopWrite DEF StopStep
<1>7. CASE Crash
  BY <1>7, InvCrash
<1>8. CASE UNCHANGED vars
  <2>1. /\ UNCHANGED <<queueVars, runner, rows, handler, unsettled>>
        /\ UNCHANGED <<runOf, stopped, stopper, storeErrors, crashes>>
    BY <1>8 DEF vars, stopVars, faultVars
  <2>2. TypeOK'
    BY <2>1 DEF MessagesInv, TypeOK, Runtime!RuntimeTypeOK, queueVars
  <2>3. \A u \in Task : \A j \in DOMAIN rows[u] : Reachable(u, j)' => Reachable(u, j)
    BY <2>1 DEF Reachable
  <2>. QED
    BY <2>1, <2>2, <2>3, StopOnly
<1>. QED
  BY <1>1, <1>2, <1>3, <1>4, <1>5, <1>6, <1>7, <1>8 DEF Next

--------------------------------------------------------------------------------
(* What holds of every behaviour.                                               *)

\* The inductive invariant, of which the theorems below are parts.
THEOREM MessagesInvariant == Spec => []MessagesInv
<1>1. Init => MessagesInv
  BY InvInit
<1>2. MessagesInv /\ [Next]_vars => MessagesInv'
  BY InvStep
<1>. QED
  BY <1>1, <1>2, PTL DEF Spec

\* Every variable keeps its type: a stop holds the id of a row there is, and no
\* step of the queue runs past its bound.
THEOREM MessagesTyped == Spec => []TypeOK
<1>1. MessagesInv => TypeOK
  BY DEF MessagesInv
<1>. QED
  BY <1>1, MessagesInvariant, PTL

\* A row that says "running" has its handler on it, or a store error, a crash or
\* the fallback to a plain runner accounts for it: neither a stop nor a late write
\* of the stream leaves a row running (runTaskAgentLoopEventHybrid,
\* handleStopTaskMessage).
THEOREM NoRowLeftRunning == Spec => []RunningRowsOwned
<1>1. MessagesInv => RunningRowsOwned
  BY DEF MessagesInv, RowsInv
<1>. QED
  BY <1>1, MessagesInvariant, PTL

\* Each reply continues the newest reply before it, although the id it continues
\* is read before its row is written (GetLatestTaskAssistantResponseID).
THEOREM RepliesFormChain == Spec => []RepliesChain
<1>1. MessagesInv => RepliesChain
  BY DEF MessagesInv, RowsInv
<1>. QED
  BY <1>1, MessagesInvariant, PTL

================================================================================
