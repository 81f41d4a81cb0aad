---------------------------- MODULE Actors_proofs ----------------------------
(* Proofs about actors that serve a queue: ConversationRuntime, for every     *)
(* set of keys, events and cancellers and every queue size (its inductive     *)
(* invariant, and that its safety part implements that of ConversationSpec),  *)
(* and TaskState, for every set of tasks and panes and every bound (its       *)
(* inductive invariant and the properties in it).                             *)
EXTENDS ConversationRuntime, TaskState, SequenceTheorems, WellFoundedInduction, TLAPS

--------------------------------------------------------------------------------
(* ConversationRuntime: what holds of one key, and every step.                *)

\* What holds of a single key, as one fact for the provers.
LEMMA InvOfKey ==
    ASSUME RuntimeInv, NEW k \in Key
    PROVE  /\ queue[k] \in Seq(Event) /\ log[k] \in Seq(Event)
           /\ Len(queue[k]) \in Nat /\ Len(log[k]) \in Nat
           /\ Len(queue[k]) <= Len(log[k])
           /\ taken(k) \in Nat /\ taken(k) <= Len(log[k])
           /\ Len(log[k]) = taken(k) + Len(queue[k])
           /\ started[k] \in Nat /\ finished[k] \in Nat
           /\ started[k] <= taken(k) /\ finished[k] <= started[k]
           /\ stage[k] = "taken" => taken(k) > 0 /\ started[k] = taken(k) - 1
                                                  /\ finished[k] = taken(k) - 1
           /\ stage[k] = "handling" => taken(k) > 0 /\ started[k] = taken(k)
                                                     /\ finished[k] = taken(k) - 1
           /\ stage[k] \in {"idle", "returned", "clearing"} =>
                  started[k] = taken(k) /\ finished[k] = taken(k)
<1>1. queue[k] \in Seq(Event) /\ log[k] \in Seq(Event) /\ stage[k] \in Stage
  BY DEF RuntimeInv, RuntimeTypeOK
<1>2. Len(queue[k]) \in Nat /\ Len(log[k]) \in Nat
  BY <1>1
<1>3. Len(queue[k]) <= Len(log[k])
  BY DEF RuntimeInv, QueueIsRestOfLog
<1>4. taken(k) \in Nat /\ taken(k) <= Len(log[k]) /\ Len(log[k]) = taken(k) + Len(queue[k])
  <2>1. \A m, n \in Nat : m <= n => n - m \in Nat /\ n - m <= n /\ n = (n - m) + m
    OBVIOUS
  <2>. QED
    BY <1>2, <1>3, <2>1 DEF taken
<1>5. stage[k] # "idle" => taken(k) > 0
  BY DEF RuntimeInv, CurrentIsLastTaken
<1>6. /\ started[k] = IF stage[k] = "taken" THEN taken(k) - 1 ELSE taken(k)
      /\ finished[k] = IF stage[k] \in {"taken", "handling"} THEN taken(k) - 1 ELSE taken(k)
  BY DEF started, finished
<1>. QED
  BY <1>1, <1>2, <1>3, <1>4, <1>5, <1>6 DEF Stage

\* Unless the log, the channels or the stages change, nothing more has begun.
LEMMA BegunFrame ==
    ASSUME log' = log, queue' = queue, stage' = stage
    PROVE  started' = started /\ finished' = finished /\ Begun' = Begun
<1>1. started' = started /\ finished' = finished
  BY DEF started, finished, taken
<1>. QED
  BY <1>1 DEF Begun

\* A step that accepts nothing cannot make an event be accepted twice.
LEMMA AcceptedOnceFrame ==
    ASSUME AcceptedOnce, log' = log
    PROVE  AcceptedOnce'
  BY DEF AcceptedOnce

\* The invariant holds before the first call.
LEMMA InvInit == RuntimeInit => RuntimeInv
<1> SUFFICES ASSUME RuntimeInit PROVE RuntimeInv
  OBVIOUS
<1>0. \A k \in Key : queue[k] = <<>> /\ log[k] = <<>> /\ Len(queue[k]) = 0 /\ Len(log[k]) = 0
  BY DEF RuntimeInit
<1>1. RuntimeTypeOK
  BY <1>0, RuntimeAssumption DEF RuntimeInit, RuntimeTypeOK, Stage
<1>2. QueueIsRestOfLog
  <2> SUFFICES ASSUME NEW k \in Key
               PROVE  Len(queue[k]) <= Len(log[k]) /\ 1..Len(queue[k]) = {}
    BY DEF QueueIsRestOfLog
  <2>. QED
    BY <1>0
<1>3. CurrentIsLastTaken
  BY DEF RuntimeInit, CurrentIsLastTaken
<1>4. CallsArePlaced
  BY <1>0 DEF RuntimeInit, CallsArePlaced
<1>5. AcceptedOnce
  BY <1>0 DEF AcceptedOnce
<1>6. OnlyBegunCancelled
  BY DEF RuntimeInit, OnlyBegunCancelled
<1>. QED
  BY <1>1, <1>2, <1>3, <1>4, <1>5, <1>6 DEF RuntimeInv

--------------------------------------------------------------------------------
(* One lemma per action.                                                        *)

\* Entering Enqueue (getOrCreateActor, then the select) preserves the invariant: the
\* event is nowhere else yet.
LEMMA InvEnqueueCall ==
    ASSUME RuntimeInv, NEW k \in Key, NEW e \in Event, EnqueueCall(k, e)
    PROVE  RuntimeInv'
<1>. USE DEF EnqueueCall
<1>1. RuntimeTypeOK'
  BY DEF RuntimeInv, RuntimeTypeOK
<1>2. QueueIsRestOfLog'
  BY DEF RuntimeInv, QueueIsRestOfLog, taken
<1>3. CurrentIsLastTaken'
  BY DEF RuntimeInv, CurrentIsLastTaken, taken
<1>4. CallsArePlaced'
  <2>1. \A j \in Key : e \notin sendq[j] /\ \A i \in 1..Len(log[j]) : log[j][i] # e
    BY DEF RuntimeInv, CallsArePlaced
  <2>2. sendq \in [Key -> SUBSET Event]
    BY DEF RuntimeInv, RuntimeTypeOK
  <2>3. \A j \in Key : sendq'[j] = IF j = k THEN sendq[j] \union {e} ELSE sendq[j]
    BY <2>2
  <2>. QED
    BY <2>1, <2>3 DEF RuntimeInv, CallsArePlaced
<1>5. AcceptedOnce'
  BY AcceptedOnceFrame DEF RuntimeInv
<1>6. OnlyBegunCancelled'
  BY BegunFrame DEF RuntimeInv, OnlyBegunCancelled
<1>. QED
  BY <1>1, <1>2, <1>3, <1>4, <1>5, <1>6 DEF RuntimeInv

\* An Enqueue whose context ends preserves the invariant: it leaves one sender less.
LEMMA InvEnqueueGiveUp ==
    ASSUME RuntimeInv, NEW k \in Key, NEW e \in Event, EnqueueGiveUp(k, e)
    PROVE  RuntimeInv'
<1>. USE DEF EnqueueGiveUp
<1>1. RuntimeTypeOK'
  BY DEF RuntimeInv, RuntimeTypeOK
<1>2. QueueIsRestOfLog'
  BY DEF RuntimeInv, QueueIsRestOfLog, taken
<1>3. CurrentIsLastTaken'
  BY DEF RuntimeInv, CurrentIsLastTaken, taken
<1>4. CallsArePlaced'
  <2>1. sendq \in [Key -> SUBSET Event]
    BY DEF RuntimeInv, RuntimeTypeOK
  <2>2. \A j \in Key : sendq'[j] \subseteq sendq[j]
    BY <2>1
  <2>. QED
    BY <2>2 DEF RuntimeInv, CallsArePlaced
<1>5. AcceptedOnce'
  BY AcceptedOnceFrame DEF RuntimeInv
<1>6. OnlyBegunCancelled'
  BY BegunFrame DEF RuntimeInv, OnlyBegunCancelled
<1>. QED
  BY <1>1, <1>2, <1>3, <1>4, <1>5, <1>6 DEF RuntimeInv

\* Acceptance lengthens the log and the channel by the same event.
LEMMA EnqueueSendFacts ==
    ASSUME RuntimeInv, NEW k \in Key, NEW e \in Event, EnqueueSend(k, e)
    PROVE  /\ queue'[k] = Append(queue[k], e) /\ log'[k] = Append(log[k], e)
           /\ Len(queue'[k]) = Len(queue[k]) + 1 /\ Len(log'[k]) = Len(log[k]) + 1
           /\ \A i \in 1..Len(queue[k]) : queue'[k][i] = queue[k][i]
           /\ \A i \in 1..Len(log[k]) : log'[k][i] = log[k][i]
           /\ queue'[k][Len(queue[k]) + 1] = e /\ log'[k][Len(log[k]) + 1] = e
           /\ \A j \in Key \ {k} : queue'[j] = queue[j] /\ log'[j] = log[j]
           /\ \A j \in Key : taken(j)' = taken(j)
           /\ started' = started /\ finished' = finished
<1>1. queue \in [Key -> Seq(Event)] /\ log \in [Key -> Seq(Event)]
  BY DEF RuntimeInv, RuntimeTypeOK
<1>2. queue[k] \in Seq(Event) /\ log[k] \in Seq(Event)
  BY <1>1
<1>3. queue'[k] = Append(queue[k], e) /\ log'[k] = Append(log[k], e)
  BY <1>1 DEF EnqueueSend
<1>4. Len(queue'[k]) = Len(queue[k]) + 1 /\ Len(log'[k]) = Len(log[k]) + 1
  BY <1>2, <1>3
<1>5. \A j \in Key \ {k} : queue'[j] = queue[j] /\ log'[j] = log[j]
  BY <1>1 DEF EnqueueSend
<1>6. \A j \in Key : taken(j)' = taken(j)
  <2>1. taken(k)' = taken(k)
    BY <1>2, <1>4 DEF taken
  <2>. QED
    BY <2>1, <1>5 DEF taken
<1>7. stage' = stage
  BY DEF EnqueueSend
<1>8. started' = started /\ finished' = finished
  BY <1>6, <1>7 DEF started, finished
<1>9. /\ \A i \in 1..Len(queue[k]) : queue'[k][i] = queue[k][i]
      /\ \A i \in 1..Len(log[k]) : log'[k][i] = log[k][i]
      /\ queue'[k][Len(queue[k]) + 1] = e /\ log'[k][Len(log[k]) + 1] = e
  BY <1>2, <1>3
<1>. QED
  BY <1>3, <1>4, <1>5, <1>6, <1>8, <1>9

\* A send into the channel preserves the invariant: the event was in no log before.
LEMMA InvEnqueueSend ==
    ASSUME RuntimeInv, NEW k \in Key, NEW e \in Event, EnqueueSend(k, e)
    PROVE  RuntimeInv'
<1>0. \A j \in Key :
         /\ queue[j] \in Seq(Event) /\ log[j] \in Seq(Event)
         /\ Len(queue[j]) \in Nat /\ Len(log[j]) \in Nat
         /\ taken(j) \in Nat /\ taken(j) <= Len(log[j])
  BY InvOfKey
<1>n. Len(queue'[k]) = Len(queue[k]) + 1 /\ Len(log'[k]) = Len(log[k]) + 1
  BY EnqueueSendFacts
<1>q. /\ \A i \in 1..Len(queue[k]) : queue'[k][i] = queue[k][i]
      /\ queue'[k][Len(queue[k]) + 1] = e
  BY EnqueueSendFacts
<1>l. /\ \A i \in 1..Len(log[k]) : log'[k][i] = log[k][i]
      /\ log'[k][Len(log[k]) + 1] = e
  BY EnqueueSendFacts
<1>j. \A j \in Key : j # k => queue'[j] = queue[j] /\ log'[j] = log[j]
  BY EnqueueSendFacts
<1>t. \A j \in Key : taken(j)' = taken(j)
  BY EnqueueSendFacts
<1>c. started' = started /\ finished' = finished
  BY EnqueueSendFacts
<1>k. Len(queue[k]) \in Nat /\ Len(log[k]) \in Nat /\ taken(k) \in Nat
      /\ Len(log[k]) = taken(k) + Len(queue[k])
  BY InvOfKey
\* Every position of a log is an old one or the one just added.
<1>p. \A j \in Key : \A i \in 1..Len(log'[j]) :
         \/ i \in 1..Len(log[j]) /\ log'[j][i] = log[j][i]
         \/ j = k /\ i = Len(log[k]) + 1 /\ log'[j][i] = e
  <2>1. \A i \in 1..Len(log'[k]) : i \in 1..Len(log[k]) \/ i = Len(log[k]) + 1
    BY <1>k, <1>n
  <2>. QED
    BY <2>1, <1>l, <1>j
\* Every position of a log stays.
<1>o. \A j \in Key : \A i \in 1..Len(log[j]) : log'[j][i] = log[j][i]
  BY <1>l, <1>j
<1>e. /\ e \in called
      /\ \A j \in Key : \A i \in 1..Len(log[j]) : log[j][i] # e
  BY DEF RuntimeInv, CallsArePlaced, EnqueueSend
<1>s. \A j \in Key : sendq'[j] = IF j = k THEN sendq[j] \ {e} ELSE sendq[j]
  BY DEF RuntimeInv, RuntimeTypeOK, EnqueueSend
<1>1. RuntimeTypeOK'
  <2>1. queue' \in [Key -> Seq(Event)] /\ log' \in [Key -> Seq(Event)]
    BY DEF RuntimeInv, RuntimeTypeOK, EnqueueSend
  <2>2. \A j \in Key : Len(queue'[j]) <= QueueSize
    BY <1>k, <1>n, <1>j, RuntimeAssumption DEF RuntimeInv, RuntimeTypeOK, EnqueueSend
  <2>. QED
    BY <2>1, <2>2 DEF RuntimeInv, RuntimeTypeOK, EnqueueSend
<1>2. QueueIsRestOfLog'
  <2>1. ASSUME NEW i \in 1..Len(queue'[k])
        PROVE  queue'[k][i] = log'[k][taken(k) + i]
    <3>1. CASE i = Len(queue[k]) + 1
      <4>1. taken(k) + i = Len(log[k]) + 1
        BY <3>1, <1>k
      <4>. QED
        BY <3>1, <4>1, <1>q, <1>l
    <3>2. CASE i \in 1..Len(queue[k])
      <4>1. taken(k) + i \in 1..Len(log[k])
        BY <3>2, <1>k
      <4>2. queue[k][i] = log[k][taken(k) + i]
        BY <3>2 DEF RuntimeInv, QueueIsRestOfLog
      <4>. QED
        BY <3>2, <4>1, <4>2, <1>q, <1>l
    <3>. QED
      BY <3>1, <3>2, <1>k, <1>n
  <2>2. Len(queue'[k]) <= Len(log'[k])
    BY <1>k, <1>n
  <2>3. ASSUME NEW j \in Key, j # k
        PROVE  /\ Len(queue'[j]) <= Len(log'[j])
               /\ \A i \in 1..Len(queue'[j]) : queue'[j][i] = log'[j][taken(j) + i]
    BY <2>3, <1>j DEF RuntimeInv, QueueIsRestOfLog
  <2>. QED
    BY <2>1, <2>2, <2>3, <1>t DEF QueueIsRestOfLog
<1>3. CurrentIsLastTaken'
  <2>1. \A j \in Key : taken(j) > 0 => log'[j][taken(j)] = log[j][taken(j)]
    <3>1. \A j \in Key : taken(j) > 0 => taken(j) \in 1..Len(log[j])
      BY <1>0
    <3>. QED
      BY <3>1, <1>o
  <2>. QED
    BY <2>1, <1>t DEF RuntimeInv, CurrentIsLastTaken, EnqueueSend
<1>4. CallsArePlaced'
  <2>1. ASSUME NEW j \in Key, NEW i \in 1..Len(log'[j])
        PROVE  log'[j][i] \in called /\ \A h \in Key : log'[j][i] \notin sendq'[h]
    <3>1. CASE log'[j][i] = e
      <4>1. \A h \in Key : e \notin sendq'[h]
        <5>1. e \in sendq[k] /\ \A h \in Key : h # k => e \notin sendq[h]
          BY DEF RuntimeInv, CallsArePlaced, EnqueueSend
        <5>. QED
          BY <5>1, <1>s
      <4>. QED
        BY <3>1, <4>1, <1>e
    <3>2. CASE i \in 1..Len(log[j]) /\ log'[j][i] = log[j][i]
      BY <3>2, <1>s DEF RuntimeInv, CallsArePlaced
    <3>. QED
      BY <3>1, <3>2, <1>p
  <2>2. \A j \in Key : sendq'[j] \subseteq sendq[j]
    BY <1>s
  <2>3. called' = called
    BY DEF EnqueueSend
  <2>. QED
    BY <2>1, <2>2, <2>3 DEF RuntimeInv, CallsArePlaced
<1>5. AcceptedOnce'
  <2>1. SUFFICES ASSUME NEW j \in Key, NEW h \in Key,
                        NEW i \in 1..Len(log'[j]), NEW l \in 1..Len(log'[h]),
                        log'[j][i] = log'[h][l]
                 PROVE  j = h /\ i = l
    BY DEF AcceptedOnce
  <2>. QED
    BY <2>1, <1>p, <1>e, SMTT(30) DEF RuntimeInv, AcceptedOnce
<1>6. OnlyBegunCancelled'
  <2>1. Begun \subseteq Begun'
    <3>1. \A j \in Key : \A i \in 1..started[j] : i \in 1..Len(log[j])
      <4>1. \A j \in Key : started[j] \in Nat /\ started[j] <= taken(j)
        BY InvOfKey
      <4>. QED
        BY <4>1, <1>0
    <3>. QED
      BY <3>1, <1>o, <1>c DEF Begun
  <2>. QED
    BY <2>1 DEF RuntimeInv, OnlyBegunCancelled, EnqueueSend
<1>. QED
  BY <1>1, <1>2, <1>3, <1>4, <1>5, <1>6 DEF RuntimeInv

\* Taking shortens the channel by its head, which is the next event of the log,
\* and nothing begins or ends by it.
LEMMA TakeFacts ==
    ASSUME RuntimeInv, NEW k \in Key, Take(k)
    PROVE  /\ queue[k] \in Seq(Event) /\ Len(queue[k]) > 0
           /\ queue'[k] \in Seq(Event) /\ Len(queue'[k]) = Len(queue[k]) - 1
           /\ \A i \in 1..Len(queue'[k]) : queue'[k][i] = queue[k][i + 1]
           /\ \A j \in Key : j # k => queue'[j] = queue[j] /\ taken(j)' = taken(j)
           /\ taken(k)' = taken(k) + 1
           /\ current'[k] = log[k][taken(k) + 1] /\ current'[k] \in Event
           /\ started' = started /\ finished' = finished /\ Begun' = Begun
<1>0. /\ queue \in [Key -> Seq(Event)] /\ queue[k] \in Seq(Event)
      /\ current \in [Key -> Event \union {NoEvent}] /\ stage \in [Key -> Stage]
  BY DEF RuntimeInv, RuntimeTypeOK
<1>1. queue[k] # <<>> /\ stage[k] = "idle" /\ log' = log
  BY DEF Take
<1>2. Len(queue[k]) \in Nat /\ Len(queue[k]) > 0 /\ Head(queue[k]) = queue[k][1]
      /\ Tail(queue[k]) \in Seq(Event) /\ Len(Tail(queue[k])) = Len(queue[k]) - 1
      /\ Head(queue[k]) \in Event
  BY <1>0, <1>1
<1>3. queue'[k] = Tail(queue[k]) /\ current'[k] = Head(queue[k]) /\ stage'[k] = "taken"
  BY <1>0 DEF Take
<1>4. \A i \in 1..Len(queue'[k]) : queue'[k][i] = queue[k][i + 1]
  BY <1>0, <1>1, <1>2, <1>3
<1>5. \A j \in Key : j # k => queue'[j] = queue[j] /\ stage'[j] = stage[j]
  BY <1>0 DEF Take
<1>6. \A j \in Key : j # k => taken(j)' = taken(j)
  BY <1>1, <1>5 DEF taken
<1>7. Len(log[k]) \in Nat /\ taken(k) \in Nat
  BY InvOfKey
<1>8. taken(k)' = taken(k) + 1
  <2>1. \A m, n \in Nat : m - (n - 1) = (m - n) + 1
    OBVIOUS
  <2>2. Len(log'[k]) = Len(log[k]) /\ Len(queue'[k]) = Len(queue[k]) - 1
    BY <1>1, <1>2, <1>3
  <2>. QED
    BY <1>2, <1>7, <2>1, <2>2 DEF taken
<1>9. current'[k] = log[k][taken(k) + 1]
  <2>1. queue[k][1] = log[k][taken(k) + 1]
    BY <1>2 DEF RuntimeInv, QueueIsRestOfLog
  <2>. QED
    BY <2>1, <1>2, <1>3
<1>10. started' = started /\ finished' = finished
  <2>1. ASSUME NEW j \in Key
        PROVE  /\ (IF stage[j] = "taken" THEN taken(j) - 1 ELSE taken(j))'
                    = IF stage[j] = "taken" THEN taken(j) - 1 ELSE taken(j)
               /\ (IF stage[j] \in {"taken", "handling"} THEN taken(j) - 1 ELSE taken(j))'
                    = IF stage[j] \in {"taken", "handling"} THEN taken(j) - 1 ELSE taken(j)
    BY <1>1, <1>3, <1>5, <1>6, <1>7, <1>8
  <2>. QED
    BY <2>1 DEF started, finished
<1>11. Begun' = Begun
  BY <1>1, <1>10 DEF Begun
<1>. QED
  BY <1>0, <1>2, <1>3, <1>4, <1>5, <1>6, <1>8, <1>9, <1>10, <1>11

\* Receiving from the channel preserves the invariant: what is left is still the rest
\* of the log.
LEMMA InvTake ==
    ASSUME RuntimeInv, NEW k \in Key, Take(k)
    PROVE  RuntimeInv'
<1>0. /\ Len(queue[k]) \in Nat /\ Len(log[k]) \in Nat /\ taken(k) \in Nat
      /\ Len(log[k]) = taken(k) + Len(queue[k])
  BY InvOfKey
<1>q. /\ Len(queue[k]) > 0 /\ Len(queue'[k]) = Len(queue[k]) - 1
      /\ \A i \in 1..Len(queue'[k]) : queue'[k][i] = queue[k][i + 1]
  BY TakeFacts
<1>j. \A j \in Key : j # k => queue'[j] = queue[j] /\ taken(j)' = taken(j)
  BY TakeFacts
<1>t. taken(k)' = taken(k) + 1
  BY TakeFacts
<1>c. current'[k] = log[k][taken(k) + 1] /\ current'[k] \in Event
  BY TakeFacts
<1>b. Begun' = Begun
  BY TakeFacts
<1>s. \A j \in Key : IF j = k THEN stage[j] = "idle" /\ stage'[j] = "taken"
                              ELSE stage'[j] = stage[j] /\ current'[j] = current[j]
  BY DEF RuntimeInv, RuntimeTypeOK, Take
<1>l. log' = log /\ inflight' = inflight
  BY DEF Take
<1>1. RuntimeTypeOK'
  <2>1. queue' \in [Key -> Seq(Event)] /\ current' \in [Key -> Event \union {NoEvent}]
        /\ stage' \in [Key -> Stage]
    <3>1. queue'[k] \in Seq(Event)
      BY TakeFacts
    <3>. QED
      BY <3>1, <1>c DEF RuntimeInv, RuntimeTypeOK, Take, Stage
  <2>2. Len(queue'[k]) <= QueueSize
    <3>1. Len(queue[k]) <= QueueSize
      BY DEF RuntimeInv, RuntimeTypeOK
    <3>2. \A m \in Nat : m <= QueueSize => m - 1 <= QueueSize
      BY RuntimeAssumption
    <3>. QED
      BY <1>0, <1>q, <3>1, <3>2
  <2>. QED
    BY <2>1, <2>2, <1>j DEF RuntimeInv, RuntimeTypeOK, Take
<1>2. QueueIsRestOfLog'
  <2>1. ASSUME NEW i \in 1..Len(queue'[k])
        PROVE  queue'[k][i] = log[k][taken(k) + 1 + i]
    <3>1. i + 1 \in 1..Len(queue[k]) /\ taken(k) + (i + 1) = taken(k) + 1 + i
      BY <1>0, <1>q
    <3>2. queue[k][i + 1] = log[k][taken(k) + (i + 1)]
      BY <3>1 DEF RuntimeInv, QueueIsRestOfLog
    <3>. QED
      BY <3>1, <3>2, <1>q
  <2>2. Len(queue'[k]) <= Len(log[k])
    BY <1>0, <1>q
  <2>3. ASSUME NEW j \in Key, j # k
        PROVE  /\ Len(queue'[j]) <= Len(log[j])
               /\ \A i \in 1..Len(queue'[j]) : queue'[j][i] = log[j][taken(j) + i]
    BY <2>3, <1>j DEF RuntimeInv, QueueIsRestOfLog
  <2>. QED
    BY <2>1, <2>2, <2>3, <1>t, <1>j, <1>l DEF QueueIsRestOfLog
<1>3. CurrentIsLastTaken'
  BY <1>0, <1>s, <1>t, <1>j, <1>c, <1>l DEF RuntimeInv, CurrentIsLastTaken
<1>4. CallsArePlaced'
  BY DEF RuntimeInv, CallsArePlaced, Take
<1>5. AcceptedOnce'
  BY <1>l, AcceptedOnceFrame DEF RuntimeInv
<1>6. OnlyBegunCancelled'
  BY <1>b DEF RuntimeInv, OnlyBegunCancelled, Take
<1>. QED
  BY <1>1, <1>2, <1>3, <1>4, <1>5, <1>6 DEF RuntimeInv

\* Steps that leave the channels and the log alone.
LEMMA QuietFrame ==
    ASSUME RuntimeInv, UNCHANGED <<called, actors, sendq, queue, current, log>>
    PROVE  /\ QueueIsRestOfLog' /\ CallsArePlaced' /\ AcceptedOnce'
           /\ \A j \in Key : taken(j)' = taken(j)
<1>1. \A j \in Key : taken(j)' = taken(j)
  BY DEF taken
<1>2. QueueIsRestOfLog'
  BY DEF RuntimeInv, QueueIsRestOfLog, taken
<1>3. CallsArePlaced'
  BY DEF RuntimeInv, CallsArePlaced
<1>4. AcceptedOnce'
  BY AcceptedOnceFrame DEF RuntimeInv
<1>. QED
  BY <1>1, <1>2, <1>3, <1>4

\* Calling the handler begins the event taken last.
LEMMA SetInflightFacts ==
    ASSUME RuntimeInv, NEW k \in Key, SetInflight(k)
    PROVE  /\ started' = [started EXCEPT ![k] = @ + 1] /\ finished' = finished
           /\ started[k] = finished[k] /\ started[k] < Len(log[k])
           /\ Begun \subseteq Begun'
<1>0. /\ taken(k) \in Nat /\ taken(k) > 0 /\ taken(k) <= Len(log[k]) /\ Len(log[k]) \in Nat
      /\ started[k] = taken(k) - 1 /\ finished[k] = taken(k) - 1
  BY InvOfKey DEF SetInflight
<1>1. \A j \in Key : taken(j)' = taken(j)
  BY DEF taken, SetInflight
<1>2. \A j \in Key : stage'[j] = IF j = k THEN "handling" ELSE stage[j]
  BY DEF SetInflight, RuntimeInv, RuntimeTypeOK
<1>3. stage[k] = "taken"
  BY DEF SetInflight
<1>4. started' = [started EXCEPT ![k] = @ + 1]
  <2>1. started'[k] = started[k] + 1
    <3>1. started'[k] = taken(k)'
      BY <1>2 DEF started
    <3>. QED
      BY <3>1, <1>0, <1>1
  <2>2. \A j \in Key : j # k => started'[j] = started[j]
    BY <1>1, <1>2 DEF started
  <2>3. started' = [j \in Key |-> started'[j]] /\ DOMAIN started = Key
    BY DEF started
  <2>4. [started EXCEPT ![k] = @ + 1]
          = [j \in Key |-> IF j = k THEN started[k] + 1 ELSE started[j]]
    BY <2>3
  <2>. QED
    BY <2>1, <2>2, <2>3, <2>4
<1>5. finished' = finished
  BY <1>1, <1>2, <1>3 DEF finished
<1>6. Begun \subseteq Begun'
  <2>1. \A j \in Key : \A i \in 1..started[j] : i \in 1..started'[j]
    <3>1. \A j \in Key : started[j] \in Nat
      BY InvOfKey
    <3>. QED
      BY <3>1, <1>4
  <2>. QED
    BY <2>1 DEF Begun, SetInflight
<1>. QED
  BY <1>0, <1>4, <1>5, <1>6

\* Storing the CancelFunc and calling the handler preserves the invariant: the
\* stored CancelFunc is the one of the event that begins.
LEMMA InvSetInflight ==
    ASSUME RuntimeInv, NEW k \in Key, SetInflight(k)
    PROVE  RuntimeInv'
<1>0. UNCHANGED <<called, actors, sendq, queue, current, log, cancelled, calling>>
  BY DEF SetInflight
<1>1. RuntimeTypeOK'
  BY DEF RuntimeInv, RuntimeTypeOK, SetInflight, Stage
<1>2. QueueIsRestOfLog' /\ CallsArePlaced' /\ AcceptedOnce'
  BY <1>0, QuietFrame
<1>3. CurrentIsLastTaken'
  <2>1. \A j \in Key : taken(j)' = taken(j)
    BY <1>0, QuietFrame
  <2>. QED
    BY <2>1 DEF RuntimeInv, RuntimeTypeOK, CurrentIsLastTaken, SetInflight
<1>4. OnlyBegunCancelled'
  BY <1>0, SetInflightFacts DEF RuntimeInv, OnlyBegunCancelled
<1>. QED
  BY <1>1, <1>2, <1>3, <1>4 DEF RuntimeInv

\* The return of the handler finishes the event taken last and moves nothing else.
LEMMA HandlerReturnFacts ==
    ASSUME RuntimeInv, NEW k \in Key, HandlerReturn(k)
    PROVE  /\ started' = started /\ finished' = [finished EXCEPT ![k] = @ + 1]
           /\ finished[k] < started[k] /\ Begun' = Begun
<1>0. /\ taken(k) \in Nat /\ started[k] = taken(k) /\ finished[k] = taken(k) - 1
  BY InvOfKey DEF HandlerReturn
<1>1. \A j \in Key : taken(j)' = taken(j)
  BY DEF taken, HandlerReturn
<1>2. \A j \in Key : stage'[j] = IF j = k THEN "returned" ELSE stage[j]
  BY DEF HandlerReturn, RuntimeInv, RuntimeTypeOK
<1>3. stage[k] = "handling"
  BY DEF HandlerReturn
<1>4. finished' = [finished EXCEPT ![k] = @ + 1]
  <2>1. finished'[k] = finished[k] + 1
    <3>1. finished'[k] = taken(k)'
      BY <1>2 DEF finished
    <3>. QED
      BY <3>1, <1>0, <1>1
  <2>2. \A j \in Key : j # k => finished'[j] = finished[j]
    BY <1>1, <1>2 DEF finished
  <2>3. finished' = [j \in Key |-> finished'[j]] /\ DOMAIN finished = Key
    BY DEF finished
  <2>4. [finished EXCEPT ![k] = @ + 1]
          = [j \in Key |-> IF j = k THEN finished[k] + 1 ELSE finished[j]]
    BY <2>3
  <2>. QED
    BY <2>1, <2>2, <2>3, <2>4
<1>5. started' = started
  BY <1>1, <1>2, <1>3 DEF started
<1>6. Begun' = Begun
  BY <1>5 DEF Begun, HandlerReturn
<1>. QED
  BY <1>0, <1>4, <1>5, <1>6

\* The return of the handler preserves the invariant: it has begun what it had before.
LEMMA InvHandlerReturn ==
    ASSUME RuntimeInv, NEW k \in Key, HandlerReturn(k)
    PROVE  RuntimeInv'
<1>0. UNCHANGED <<called, actors, sendq, queue, current, log, inflight, cancelled, calling>>
  BY DEF HandlerReturn
<1>1. RuntimeTypeOK'
  BY DEF RuntimeInv, RuntimeTypeOK, HandlerReturn, Stage
<1>2. QueueIsRestOfLog' /\ CallsArePlaced' /\ AcceptedOnce'
  BY <1>0, QuietFrame
<1>3. CurrentIsLastTaken'
  <2>1. \A j \in Key : taken(j)' = taken(j)
    BY <1>0, QuietFrame
  <2>. QED
    BY <2>1 DEF RuntimeInv, RuntimeTypeOK, CurrentIsLastTaken, HandlerReturn
<1>4. OnlyBegunCancelled'
  BY <1>0, HandlerReturnFacts DEF RuntimeInv, OnlyBegunCancelled
<1>. QED
  BY <1>1, <1>2, <1>3, <1>4 DEF RuntimeInv

\* The end of an actor's round and a Cancel move no counter; what they cancel has
\* begun.
LEMMA CancelOwnFacts ==
    ASSUME RuntimeInv, NEW k \in Key, CancelOwn(k)
    PROVE  /\ started' = started /\ finished' = finished /\ Begun' = Begun
           /\ started[k] \in 1..started[k] /\ log[k][started[k]] = current[k]
           /\ current[k] \in Begun
<1>0. /\ taken(k) \in Nat /\ taken(k) > 0 /\ taken(k) <= Len(log[k])
      /\ started[k] = taken(k) /\ log[k] \in Seq(Event) /\ Len(log[k]) \in Nat
  <2>1. stage[k] = "returned"
    BY DEF CancelOwn
  <2>2. taken(k) > 0
    BY <2>1 DEF RuntimeInv, CurrentIsLastTaken
  <2>. QED
    BY <2>1, <2>2, InvOfKey
<1>1. current[k] = log[k][taken(k)]
  BY DEF CancelOwn, RuntimeInv, CurrentIsLastTaken
<1>2. log[k][taken(k)] \in Event
  BY <1>0
<1>3. started' = started /\ finished' = finished
  <2>1. \A j \in Key : taken(j)' = taken(j)
    BY DEF CancelOwn, taken
  <2>2. \A j \in Key : stage'[j] = IF j = k THEN "clearing" ELSE stage[j]
    BY DEF CancelOwn, RuntimeInv, RuntimeTypeOK
  <2>3. stage[k] = "returned"
    BY DEF CancelOwn
  <2>. QED
    BY <2>1, <2>2, <2>3 DEF started, finished
<1>4. Begun' = Begun
  BY <1>3 DEF Begun, CancelOwn
<1>5. current[k] \in Begun
  BY <1>0, <1>1, <1>2 DEF Begun
<1>. QED
  BY <1>0, <1>1, <1>3, <1>4, <1>5

\* The goroutine's own call of the CancelFunc preserves the invariant.
LEMMA InvCancelOwn ==
    ASSUME RuntimeInv, NEW k \in Key, CancelOwn(k)
    PROVE  RuntimeInv'
<1>0. UNCHANGED <<called, actors, sendq, queue, current, log, inflight, calling>>
  BY DEF CancelOwn
<1>f. Begun' = Begun /\ current[k] \in Begun
  BY CancelOwnFacts
<1>1. RuntimeTypeOK'
  BY <1>f DEF RuntimeInv, RuntimeTypeOK, CancelOwn, Stage, Begun
<1>2. QueueIsRestOfLog' /\ CallsArePlaced' /\ AcceptedOnce'
  BY <1>0, QuietFrame
<1>3. CurrentIsLastTaken'
  <2>1. \A j \in Key : taken(j)' = taken(j)
    BY <1>0, QuietFrame
  <2>. QED
    BY <2>1 DEF RuntimeInv, RuntimeTypeOK, CurrentIsLastTaken, CancelOwn
<1>4. OnlyBegunCancelled'
  BY <1>f DEF RuntimeInv, OnlyBegunCancelled, CancelOwn
<1>. QED
  BY <1>1, <1>2, <1>3, <1>4 DEF RuntimeInv

\* Clearing inflight neither begins nor finishes an event.
LEMMA ClearInflightFacts ==
    ASSUME RuntimeInv, NEW k \in Key, ClearInflight(k)
    PROVE  started' = started /\ finished' = finished /\ Begun' = Begun
<1>1. \A j \in Key : taken(j)' = taken(j)
  BY DEF ClearInflight, taken
<1>2. \A j \in Key : stage'[j] = IF j = k THEN "idle" ELSE stage[j]
  BY DEF ClearInflight, RuntimeInv, RuntimeTypeOK
<1>3. stage[k] = "clearing"
  BY DEF ClearInflight
<1>4. started' = started /\ finished' = finished
  BY <1>1, <1>2, <1>3 DEF started, finished
<1>. QED
  BY <1>4 DEF Begun, ClearInflight

\* Clearing inflight preserves the invariant: an idle actor has no CancelFunc.
LEMMA InvClearInflight ==
    ASSUME RuntimeInv, NEW k \in Key, ClearInflight(k)
    PROVE  RuntimeInv'
<1>0. UNCHANGED <<called, actors, sendq, queue, current, log, cancelled, calling>>
  BY DEF ClearInflight
<1>1. RuntimeTypeOK'
  BY DEF RuntimeInv, RuntimeTypeOK, ClearInflight, Stage
<1>2. QueueIsRestOfLog' /\ CallsArePlaced' /\ AcceptedOnce'
  BY <1>0, QuietFrame
<1>3. CurrentIsLastTaken'
  <2>1. \A j \in Key : taken(j)' = taken(j)
    BY <1>0, QuietFrame
  <2>. QED
    BY <2>1 DEF RuntimeInv, RuntimeTypeOK, CurrentIsLastTaken, ClearInflight
<1>4. OnlyBegunCancelled'
  BY <1>0, ClearInflightFacts DEF RuntimeInv, OnlyBegunCancelled
<1>. QED
  BY <1>1, <1>2, <1>3, <1>4 DEF RuntimeInv

\* What Cancel reads is the CancelFunc of the event being handled.
LEMMA InvCancelRead ==
    ASSUME RuntimeInv, NEW k \in Key, NEW x \in Canceller, CancelRead(x, k)
    PROVE  RuntimeInv'
<1>0. UNCHANGED <<called, actors, sendq, queue, stage, current, log, inflight, cancelled>>
  BY DEF CancelRead
<1>1. RuntimeTypeOK'
  BY DEF RuntimeInv, RuntimeTypeOK, CancelRead
<1>2. QueueIsRestOfLog' /\ CallsArePlaced' /\ AcceptedOnce'
  BY <1>0, QuietFrame
<1>3. CurrentIsLastTaken'
  BY <1>0, QuietFrame DEF RuntimeInv, CurrentIsLastTaken
<1>4. inflight[k] \in Begun
  <2>1. /\ stage[k] \in {"handling", "returned", "clearing"}
        /\ inflight[k] = log[k][taken(k)] /\ taken(k) > 0
    BY DEF CancelRead, RuntimeInv, CurrentIsLastTaken
  <2>2. taken(k) \in Nat /\ started[k] = taken(k) /\ taken(k) <= Len(log[k])
        /\ log[k] \in Seq(Event) /\ Len(log[k]) \in Nat
    BY <2>1, InvOfKey
  <2>3. log[k][taken(k)] \in Event
    BY <2>1, <2>2
  <2>. QED
    BY <2>1, <2>2, <2>3 DEF Begun
<1>5. OnlyBegunCancelled'
  <2>1. Begun' = Begun
    BY <1>0, BegunFrame
  <2>. QED
    BY <1>4, <2>1 DEF RuntimeInv, RuntimeTypeOK, OnlyBegunCancelled, CancelRead
<1>. QED
  BY <1>1, <1>2, <1>3, <1>5 DEF RuntimeInv

\* The late call of a CancelFunc that Cancel has read preserves the invariant: what
\* had begun when it was read has still begun.
LEMMA InvCancelCall ==
    ASSUME RuntimeInv, NEW x \in Canceller, CancelCall(x)
    PROVE  RuntimeInv'
<1>0. UNCHANGED <<called, actors, sendq, queue, stage, current, log, inflight>>
  BY DEF CancelCall
<1>1. RuntimeTypeOK'
  BY DEF RuntimeInv, RuntimeTypeOK, CancelCall
<1>2. QueueIsRestOfLog' /\ CallsArePlaced' /\ AcceptedOnce'
  BY <1>0, QuietFrame
<1>3. CurrentIsLastTaken'
  BY <1>0, QuietFrame DEF RuntimeInv, CurrentIsLastTaken
<1>4. OnlyBegunCancelled'
  <2>1. Begun' = Begun
    BY <1>0, BegunFrame
  <2>. QED
    BY <2>1 DEF RuntimeInv, RuntimeTypeOK, OnlyBegunCancelled, CancelCall
<1>. QED
  BY <1>1, <1>2, <1>3, <1>4 DEF RuntimeInv

\* A stuttering step preserves the invariant.
LEMMA InvStutter == RuntimeInv /\ UNCHANGED runtimeVars => RuntimeInv'
<1> SUFFICES ASSUME RuntimeInv, UNCHANGED runtimeVars PROVE RuntimeInv'
  OBVIOUS
<1>1. RuntimeTypeOK'
  BY DEF RuntimeInv, RuntimeTypeOK, runtimeVars
<1>2. QueueIsRestOfLog' /\ CallsArePlaced' /\ AcceptedOnce'
  BY QuietFrame DEF runtimeVars
<1>3. CurrentIsLastTaken'
  BY QuietFrame DEF RuntimeInv, CurrentIsLastTaken, runtimeVars
<1>4. OnlyBegunCancelled'
  BY BegunFrame DEF RuntimeInv, OnlyBegunCancelled, runtimeVars
<1>. QED
  BY <1>1, <1>2, <1>3, <1>4 DEF RuntimeInv

\* Every step of the runtime preserves the invariant.
LEMMA InvStep == RuntimeInv /\ [RuntimeNext]_runtimeVars => RuntimeInv'
<1> SUFFICES ASSUME RuntimeInv, RuntimeNext PROVE RuntimeInv'
  BY InvStutter
<1>1. ASSUME NEW k \in Key, NEW e \in Event,
             EnqueueCall(k, e) \/ EnqueueSend(k, e) \/ EnqueueGiveUp(k, e)
      PROVE  RuntimeInv'
  BY <1>1, InvEnqueueCall, InvEnqueueSend, InvEnqueueGiveUp
<1>2. ASSUME NEW k \in Key, ActorStep(k) \/ HandlerReturn(k)
      PROVE  RuntimeInv'
  BY <1>2, InvTake, InvSetInflight, InvHandlerReturn, InvCancelOwn, InvClearInflight
     DEF ActorStep
<1>3. ASSUME NEW k \in Key, NEW x \in Canceller, CancelRead(x, k)
      PROVE  RuntimeInv'
  BY <1>3, InvCancelRead
<1>4. ASSUME NEW x \in Canceller, CancelCall(x)
      PROVE  RuntimeInv'
  BY <1>4, InvCancelCall
<1>. QED
  BY <1>1, <1>2, <1>3, <1>4 DEF RuntimeNext

--------------------------------------------------------------------------------
\* RuntimeInv is an inductive invariant: whatever the interleaving of callers,
\* actors and cancellers, what a channel holds is the unhandled rest of the log.
THEOREM RuntimeInvariant == RuntimeSafe => []RuntimeInv
<1>1. RuntimeInit => RuntimeInv
  BY InvInit
<1>2. RuntimeInv /\ [RuntimeNext]_runtimeVars => RuntimeInv'
  BY InvStep
<1>. QED
  BY <1>1, <1>2, PTL DEF RuntimeSafe

\* The runtime's variables keep their types and no channel exceeds its capacity.
THEOREM RuntimeTypeCorrect == RuntimeSafe => []RuntimeTypeOK
<1>1. RuntimeInv => RuntimeTypeOK
  BY DEF RuntimeInv
<1>. QED
  BY <1>1, RuntimeInvariant, PTL

\* A Cancel, however late it calls the CancelFunc it has read, only ever cancels
\* an event whose handler has been called.
THEOREM CancelHitsBegunOnly == RuntimeSafe => []OnlyBegunCancelled
<1>1. RuntimeInv => OnlyBegunCancelled
  BY DEF RuntimeInv
<1>. QED
  BY <1>1, RuntimeInvariant, PTL

--------------------------------------------------------------------------------
(* Refinement: every step is a step of ConversationSpec or leaves it alone.     *)

\* The runtime starts in a state in which ConversationSpec starts.
LEMMA InitRefines == RuntimeInit => Serial!SpecInit
<1> SUFFICES ASSUME RuntimeInit PROVE Serial!SpecInit
  OBVIOUS
<1>1. \A k \in Key : taken(k) = 0
  <2>1. \A k \in Key : Len(log[k]) = 0 /\ Len(queue[k]) = 0
    BY DEF RuntimeInit
  <2>2. 0 - 0 = 0
    OBVIOUS
  <2>3. ASSUME NEW k \in Key PROVE taken(k) = 0 - 0
    BY <2>1 DEF taken
  <2>. QED
    BY <2>2, <2>3
<1>. QED
  BY <1>1 DEF RuntimeInit, Serial!SpecInit, started, finished

\* Every step of the runtime is one of ConversationSpec or changes none of its variables.
LEMMA StepRefines ==
    RuntimeInv /\ [RuntimeNext]_runtimeVars => [Serial!SpecNext]_(Serial!specVars)
<1> SUFFICES ASSUME RuntimeInv, [RuntimeNext]_runtimeVars
             PROVE  Serial!SpecNext \/ UNCHANGED Serial!specVars
  OBVIOUS
<1>1. ASSUME UNCHANGED <<log, queue, stage, cancelled>>
      PROVE  UNCHANGED Serial!specVars
  BY <1>1, BegunFrame DEF Serial!specVars
<1>2. ASSUME NEW k \in Key, NEW e \in Event, EnqueueCall(k, e) \/ EnqueueGiveUp(k, e)
      PROVE  UNCHANGED Serial!specVars
  BY <1>1, <1>2 DEF EnqueueCall, EnqueueGiveUp
<1>3. ASSUME NEW k \in Key, NEW e \in Event, EnqueueSend(k, e)
      PROVE  Serial!SpecNext
  <2>1. started' = started /\ finished' = finished
    BY <1>3, EnqueueSendFacts
  <2>2. \A j \in Key : \A i \in 1..Len(log[j]) : log[j][i] # e
    BY <1>3 DEF RuntimeInv, CallsArePlaced, EnqueueSend
  <2>3. Serial!Accept(k, e)
    BY <1>3, <2>1, <2>2 DEF Serial!Accept, EnqueueSend
  <2>. QED
    BY <2>3 DEF Serial!SpecNext
<1>4. ASSUME NEW k \in Key, Take(k)
      PROVE  UNCHANGED Serial!specVars
  BY <1>4, TakeFacts DEF Serial!specVars, Take
<1>5. ASSUME NEW k \in Key, SetInflight(k)
      PROVE  Serial!SpecNext
  <2>1. Serial!Start(k)
    BY <1>5, SetInflightFacts DEF Serial!Start, SetInflight
  <2>. QED
    BY <2>1 DEF Serial!SpecNext
<1>6. ASSUME NEW k \in Key, HandlerReturn(k)
      PROVE  Serial!SpecNext
  <2>1. Serial!Finish(k)
    BY <1>6, HandlerReturnFacts DEF Serial!Finish, HandlerReturn
  <2>. QED
    BY <2>1 DEF Serial!SpecNext
<1>7. ASSUME NEW k \in Key, CancelOwn(k)
      PROVE  Serial!SpecNext
  <2>1. Serial!Stop(k, started[k])
    BY <1>7, CancelOwnFacts DEF Serial!Stop, CancelOwn
  <2>2. started[k] \in 1..started[k]
    BY <1>7, CancelOwnFacts
  <2>. QED
    BY <2>1, <2>2 DEF Serial!SpecNext
<1>8. ASSUME NEW k \in Key, ClearInflight(k)
      PROVE  UNCHANGED Serial!specVars
  BY <1>8, ClearInflightFacts DEF Serial!specVars, ClearInflight
<1>9. ASSUME NEW k \in Key, NEW x \in Canceller, CancelRead(x, k)
      PROVE  UNCHANGED Serial!specVars
  BY <1>1, <1>9 DEF CancelRead
<1>10. ASSUME NEW x \in Canceller, CancelCall(x)
       PROVE  Serial!SpecNext
  <2>1. calling[x] \in Begun
    BY <1>10 DEF RuntimeInv, OnlyBegunCancelled, CancelCall
  <2>2. PICK k \in Key : \E i \in 1..started[k] : log[k][i] = calling[x]
    BY <2>1 DEF Begun
  <2>i. PICK i \in 1..started[k] : log[k][i] = calling[x]
    BY <2>2
  <2>3. started' = started /\ finished' = finished
    BY <1>10, BegunFrame DEF CancelCall
  <2>4. Serial!Stop(k, i)
    BY <1>10, <2>i, <2>3 DEF Serial!Stop, CancelCall
  <2>. QED
    BY <2>4 DEF Serial!SpecNext
<1>11. ASSUME UNCHANGED runtimeVars
       PROVE  UNCHANGED Serial!specVars
  BY <1>1, <1>11 DEF runtimeVars
<1>. QED
  BY <1>2, <1>3, <1>4, <1>5, <1>6, <1>7, <1>8, <1>9, <1>10, <1>11
     DEF RuntimeNext, ActorStep

\* The safety part of the runtime implements that of ConversationSpec: accepted
\* events are handled once each, one at a time, in the order of acceptance.
THEOREM RuntimeImplementsSerial == RuntimeSafe => Serial!SpecSafe
<1>1. RuntimeInit => Serial!SpecInit
  BY InitRefines
<1>2. RuntimeInv /\ [RuntimeNext]_runtimeVars => [Serial!SpecNext]_(Serial!specVars)
  BY StepRefines
<1>. QED
  BY <1>1, <1>2, RuntimeInvariant, PTL DEF RuntimeSafe, Serial!SpecSafe

--------------------------------------------------------------------------------
(* TaskState: queues of reports.                                                *)

\* A set of numbers that is bounded and not empty has a greatest member, and MaxOf
\* chooses it.
LEMMA MaxOfIs ==
    ASSUME NEW n \in Nat, NEW S, S \subseteq 0..n, S # {}
    PROVE  MaxOf(S) \in S /\ \A m \in S : m <= MaxOf(S)
<1> DEFINE T == {n - i : i \in S}
<1>1. T \subseteq Nat /\ T # {}
  <2>1. \A i \in S : n - i \in Nat
    OBVIOUS
  <2>2. PICK i \in S : TRUE
    OBVIOUS
  <2>3. n - i \in T
    OBVIOUS
  <2>. QED
    BY <2>1, <2>3
<1>2. PICK x \in T : \A y \in T : ~ (<<y, x>> \in OpToRel(<, Nat))
  BY <1>1, NatLessThanWellFounded, WFMin
<1>3. \A y \in T : ~ (y < x)
  BY <1>1, <1>2 DEF OpToRel
<1>4. PICK i \in S : x = n - i
  OBVIOUS
<1>5. \A j \in S : j <= i
  <2>1. \A j \in S : n - j \in T
    OBVIOUS
  <2>. QED
    BY <1>3, <1>4, <2>1, SMTT(30)
<1>. QED
  BY <1>5 DEF MaxOf

\* It is the only one.
LEMMA MaxOfUnique ==
    ASSUME NEW n \in Nat, NEW S, S \subseteq 0..n, NEW k \in S, \A m \in S : m <= k
    PROVE  MaxOf(S) = k
<1>1. MaxOf(S) \in S /\ \A m \in S : m <= MaxOf(S)
  BY MaxOfIs
<1>2. MaxOf(S) \in 0..n /\ k \in 0..n /\ k <= MaxOf(S) /\ MaxOf(S) <= k
  BY <1>1
<1>. QED
  BY ONLY <1>2, n \in Nat

--------------------------------------------------------------------------------
(* Queues of reports.                                                           *)

\* The last report of a pane in a queue.
LEMMA LastReportIs ==
    ASSUME NEW s \in Seq(Report), NEW p, Of(s, p) # {}
    PROVE  /\ MaxOf(Of(s, p)) \in Of(s, p)
           /\ \A k \in Of(s, p) : k <= MaxOf(Of(s, p))
           /\ LastReport(s, p) \in Report /\ LastReport(s, p).pane = p
<1>1. Of(s, p) \subseteq 0..Len(s)
  BY DEF Of
<1>2. MaxOf(Of(s, p)) \in Of(s, p) /\ \A k \in Of(s, p) : k <= MaxOf(Of(s, p))
  BY <1>1, MaxOfIs
<1>. QED
  BY <1>2 DEF LastReport, Of

\* It is what stands at the greatest place.
LEMMA LastReportAt ==
    ASSUME NEW s \in Seq(Report), NEW p, NEW k \in Of(s, p), \A i \in Of(s, p) : i <= k
    PROVE  LastReport(s, p) = s[k]
<1>1. Of(s, p) \subseteq 0..Len(s)
  BY DEF Of
<1>2. MaxOf(Of(s, p)) = k
  BY <1>1, MaxOfUnique
<1>. QED
  BY <1>2 DEF LastReport

\* The empty queue has no reports.
LEMMA NoReports ==
    ASSUME NEW p
    PROVE  Of(<< >>, p) = {} /\ Times(<< >>, p) = {} /\ Sorted(<< >>, p)
  BY DEF Of, Times, Sorted

\* A queue with one report more, of another pane.
LEMMA AppendOther ==
    ASSUME NEW s \in Seq(Report), NEW r \in Report, NEW p, r.pane # p
    PROVE  /\ Of(Append(s, r), p) = Of(s, p)
           /\ Of(s, p) # {} => LastReport(Append(s, r), p) = LastReport(s, p)
           /\ Times(Append(s, r), p) = Times(s, p)
           /\ Sorted(s, p) => Sorted(Append(s, r), p)
<1>1. /\ Append(s, r) \in Seq(Report) /\ Len(Append(s, r)) = Len(s) + 1
      /\ \A k \in 1..Len(s) : Append(s, r)[k] = s[k]
      /\ Append(s, r)[Len(s) + 1] = r
  BY AppendProperties
<1>2. Of(Append(s, r), p) = Of(s, p) /\ Of(s, p) \subseteq 1..Len(s)
  BY <1>1 DEF Of
<1>3. Of(s, p) # {} => LastReport(Append(s, r), p) = LastReport(s, p)
  BY <1>1, <1>2, LastReportIs DEF LastReport
<1>4. Times(Append(s, r), p) = Times(s, p)
  BY <1>1, <1>2 DEF Times
<1>. QED
  BY <1>1, <1>2, <1>3, <1>4 DEF Sorted

\* And of the pane itself.
LEMMA AppendOwn ==
    ASSUME NEW s \in Seq(Report), NEW r \in Report
    PROVE  LET p == r.pane IN
           /\ Of(Append(s, r), p) # {}
           /\ LastReport(Append(s, r), p) = r
           /\ Times(Append(s, r), p) = Times(s, p) \cup {r.at}
           /\ Sorted(s, p) /\ NotAfter(Times(s, p), {r.at}) => Sorted(Append(s, r), p)
<1>. DEFINE p == r.pane
            t == Append(s, r)
<1>1. /\ t \in Seq(Report) /\ Len(t) = Len(s) + 1 /\ Len(s) \in Nat
      /\ \A k \in 1..Len(s) : t[k] = s[k]
      /\ t[Len(s) + 1] = r
  BY AppendProperties
<1>. HIDE DEF t
<1>2. Of(t, p) = Of(s, p) \cup {Len(s) + 1} /\ Of(s, p) \subseteq 1..Len(s)
  BY <1>1 DEF Of
<1>3. LastReport(t, p) = r
  BY <1>1, <1>2, LastReportAt
<1>4. Times(t, p) = Times(s, p) \cup {r.at}
  BY <1>1, <1>2 DEF Times
<1>5. ASSUME Sorted(s, p), NotAfter(Times(s, p), {r.at}) PROVE Sorted(t, p)
  <2>1. \A i \in Of(s, p) : s[i].at <= r.at
    BY <1>5 DEF NotAfter, Times
  <2>. QED
    BY <1>1, <1>2, <1>5, <2>1 DEF Sorted
<1>. QED
  BY <1>2, <1>3, <1>4, <1>5 DEF t

\* A queue whose first report is taken.
LEMMA TailOf ==
    ASSUME NEW s \in Seq(Report), s # << >>, NEW p
    PROVE  /\ Head(s) \in Report /\ Tail(s) \in Seq(Report)
           /\ Head(s).pane = p => Of(s, p) # {}
           /\ Of(Tail(s), p) # {}
                => Of(s, p) # {} /\ LastReport(Tail(s), p) = LastReport(s, p)
           /\ Of(Tail(s), p) = {} /\ Of(s, p) # {}
                => Head(s).pane = p /\ LastReport(s, p) = Head(s)
           /\ Times(Tail(s), p) \subseteq Times(s, p)
           /\ Head(s).pane = p => Head(s).at \in Times(s, p)
           /\ Sorted(s, p) => Sorted(Tail(s), p)
           /\ Sorted(s, p) /\ Head(s).pane = p => NotAfter({Head(s).at}, Times(Tail(s), p))
<1>. DEFINE t == Tail(s)
<1>1. /\ Head(s) = s[1] /\ s[1] \in Report /\ t \in Seq(Report) /\ Len(s) = Len(t) + 1
      /\ Len(t) \in Nat /\ \A k \in 1..Len(t) : t[k] = s[k + 1]
  BY HeadTailProperties
<1>. HIDE DEF t
<1>2. \A k \in Of(t, p) : k \in 1..Len(t) /\ k + 1 \in Of(s, p)
  BY <1>1 DEF Of
<1>3. \A k \in Of(s, p) : (k = 1 /\ s[1].pane = p) \/ k - 1 \in Of(t, p)
  BY <1>1 DEF Of
<1>4. s[1].pane = p => 1 \in Of(s, p)
  BY <1>1 DEF Of
<1>5. ASSUME Of(t, p) # {} PROVE Of(s, p) # {} /\ LastReport(t, p) = LastReport(s, p)
  <2>. DEFINE m == MaxOf(Of(t, p))
  <2>1. m \in Of(t, p) /\ \A k \in Of(t, p) : k <= m
    BY <1>1, <1>5, LastReportIs
  <2>2. m + 1 \in Of(s, p) /\ m \in 1..Len(t)
    BY <1>2, <2>1
  <2>3. \A k \in Of(s, p) : k <= m + 1
    <3>1. \A k \in Of(s, p) : k \in Nat
      BY DEF Of
    <3>. QED
      BY <1>2, <1>3, <2>1, <2>2, <3>1
  <2>4. LastReport(s, p) = s[m + 1]
    BY <2>2, <2>3, LastReportAt
  <2>. QED
    BY <1>1, <2>2, <2>4 DEF LastReport
<1>6. ASSUME Of(t, p) = {}, Of(s, p) # {}
      PROVE  s[1].pane = p /\ LastReport(s, p) = s[1]
  <2>1. Of(s, p) = {1} /\ s[1].pane = p
    BY <1>3, <1>4, <1>6
  <2>. QED
    BY <2>1, LastReportAt
<1>7. Times(t, p) \subseteq Times(s, p)
  <2>1. \A k \in Of(t, p) : k + 1 \in Of(s, p) /\ t[k] = s[k + 1]
    BY <1>1, <1>2
  <2>. QED
    BY <2>1 DEF Times
<1>8. s[1].pane = p => s[1].at \in Times(s, p)
  BY <1>4 DEF Times
<1>9. ASSUME Sorted(s, p) PROVE Sorted(t, p)
  <2>. SUFFICES ASSUME NEW i \in Of(t, p), NEW k \in Of(t, p), i < k PROVE t[i].at <= t[k].at
    BY DEF Sorted
  <2>1. i + 1 \in Of(s, p) /\ k + 1 \in Of(s, p) /\ i + 1 < k + 1
    BY <1>2
  <2>. QED
    BY <1>1, <1>2, <1>9, <2>1 DEF Sorted
<1>10. ASSUME Sorted(s, p), s[1].pane = p PROVE NotAfter({s[1].at}, Times(t, p))
  <2>. SUFFICES ASSUME NEW k \in Of(t, p) PROVE s[1].at <= t[k].at
    BY DEF NotAfter, Times
  <2>1. k + 1 \in Of(s, p) /\ 1 < k + 1 /\ 1 \in Of(s, p)
    BY <1>2, <1>4, <1>10
  <2>. QED
    BY <1>1, <1>2, <1>10, <2>1 DEF Sorted
<1>. QED
  BY <1>1, <1>4, <1>5, <1>6, <1>7, <1>8, <1>9, <1>10 DEF t

\* A queue that loses its report at place i.
LEMMA RemoveOne ==
    ASSUME NEW s \in Seq(Report), NEW i \in 1..Len(s)
    PROVE  /\ RemoveAt(s, i) \in Seq(Report) /\ Len(RemoveAt(s, i)) = Len(s) - 1
           /\ \A k \in DOMAIN RemoveAt(s, i) : \E m \in DOMAIN s : RemoveAt(s, i)[k] = s[m]
           /\ i = 1 => RemoveAt(s, i) = Tail(s)
<1>. DEFINE a == SubSeq(s, 1, i - 1)
            b == SubSeq(s, i + 1, Len(s))
<1>1. /\ a \in Seq(Report) /\ Len(a) = i - 1 /\ \A k \in 1..(i - 1) : a[k] = s[k]
  <2>1. \A k \in 1..(i - 1) : s[k] \in Report
    OBVIOUS
  <2>2. 1 \in Int /\ i - 1 \in Int /\ (i - 1) - 1 + 1 = i - 1
    OBVIOUS
  <2>3. /\ a \in Seq(Report) /\ Len(a) = IF 1 <= i - 1 THEN (i - 1) - 1 + 1 ELSE 0
        /\ \A k \in 1..((i - 1) - 1 + 1) : a[k] = s[1 + k - 1]
    BY <2>1, <2>2, SubSeqProperties
  <2>. QED
    BY <2>3
<1>2. /\ b \in Seq(Report) /\ Len(b) = Len(s) - i /\ \A k \in 1..(Len(s) - i) : b[k] = s[i + k]
  <2>1. \A k \in (i + 1)..Len(s) : s[k] \in Report
    OBVIOUS
  <2>2. i + 1 \in Int /\ Len(s) \in Int
    OBVIOUS
  <2>3. /\ b \in Seq(Report) /\ Len(b) = IF i + 1 <= Len(s) THEN Len(s) - (i + 1) + 1 ELSE 0
        /\ \A k \in 1..(Len(s) - (i + 1) + 1) : b[k] = s[(i + 1) + k - 1]
    BY <2>1, <2>2, SubSeqProperties
  <2>. QED
    BY <2>3
<1>. HIDE DEF a, b
<1>3. RemoveAt(s, i) = a \o b
  BY DEF RemoveAt, a, b
<1>4. /\ a \o b \in Seq(Report) /\ Len(a \o b) = Len(s) - 1
      /\ \A k \in 1..(Len(s) - 1) : (a \o b)[k] = IF k <= i - 1 THEN a[k] ELSE b[k - (i - 1)]
  <2>1. Len(a) + Len(b) = Len(s) - 1
    BY <1>1, <1>2
  <2>2. /\ a \o b \in Seq(Report) /\ Len(a \o b) = Len(a) + Len(b)
        /\ \A k \in 1..(Len(a) + Len(b)) :
              (a \o b)[k] = IF k <= Len(a) THEN a[k] ELSE b[k - Len(a)]
    BY <1>1, <1>2, ConcatProperties
  <2>. QED
    BY <1>1, <2>1, <2>2
<1>5. \A k \in 1..(Len(s) - 1) :
         /\ k <= i - 1 => (a \o b)[k] = s[k]
         /\ ~(k <= i - 1) => (a \o b)[k] = s[k + 1]
  <2>. SUFFICES ASSUME NEW k \in 1..(Len(s) - 1)
                PROVE  /\ k <= i - 1 => (a \o b)[k] = s[k]
                       /\ ~(k <= i - 1) => (a \o b)[k] = s[k + 1]
    OBVIOUS
  <2>1. CASE k <= i - 1
    BY <1>1, <1>4, <2>1
  <2>2. CASE ~(k <= i - 1)
    <3>1. k - (i - 1) \in 1..(Len(s) - i) /\ i + (k - (i - 1)) = k + 1
      BY <2>2
    <3>. QED
      BY <1>2, <1>4, <2>2, <3>1
  <2>. QED
    BY <2>1, <2>2
<1>6. \A k \in DOMAIN (a \o b) : \E m \in DOMAIN s : (a \o b)[k] = s[m]
  <2>1. DOMAIN (a \o b) = 1..(Len(s) - 1) /\ DOMAIN s = 1..Len(s)
    BY <1>4
  <2>2. ASSUME NEW k \in 1..(Len(s) - 1) PROVE \E m \in 1..Len(s) : (a \o b)[k] = s[m]
    <3>1. k \in 1..Len(s) /\ k + 1 \in 1..Len(s)
      OBVIOUS
    <3>. QED
      BY <1>5, <3>1
  <2>. QED
    BY <2>1, <2>2
<1>7. ASSUME i = 1 PROVE a \o b = Tail(s)
  <2>1. s # << >>
    OBVIOUS
  <2>2. Tail(s) \in Seq(Report) /\ Len(Tail(s)) = Len(s) - 1
        /\ \A k \in 1..(Len(s) - 1) : Tail(s)[k] = s[k + 1]
    BY <2>1, HeadTailProperties
  <2>3. \A k \in 1..(Len(s) - 1) : (a \o b)[k] = s[k + 1]
    <3>1. \A k \in 1..(Len(s) - 1) : ~(k <= i - 1)
      BY <1>7
    <3>. QED
      BY <1>5, <3>1
  <2>4. Len(a \o b) = Len(Tail(s)) /\ \A k \in 1..Len(a \o b) : (a \o b)[k] = Tail(s)[k]
    BY <1>4, <2>2, <2>3
  <2>. QED
    BY <1>4, <2>2, <2>4, SeqEqual
<1>. QED
  BY <1>3, <1>4, <1>6, <1>7

--------------------------------------------------------------------------------
(* Batches.                                                                     *)

\* The last report of a pane in a batch.
LEMMA LastAmongIs ==
    ASSUME NEW b \in Seq(Entry), NEW p, OfPane(b, p) # {}
    PROVE  /\ MaxOf(OfPane(b, p)) \in OfPane(b, p)
           /\ \A k \in OfPane(b, p) : k <= MaxOf(OfPane(b, p))
           /\ LastAmong(b, OfPane(b, p)) \in Report /\ LastAmong(b, OfPane(b, p)).pane = p
           /\ LastAmong(b, OfPane(b, p)).at \in BatchTimes(b, p)
<1>1. OfPane(b, p) \subseteq 0..Len(b)
  BY DEF OfPane
<1>2. MaxOf(OfPane(b, p)) \in OfPane(b, p) /\ \A k \in OfPane(b, p) : k <= MaxOf(OfPane(b, p))
  BY <1>1, MaxOfIs
<1>3. LastAmong(b, OfPane(b, p)) = b[MaxOf(OfPane(b, p))].report
  BY DEF LastAmong
<1>4. \A k \in OfPane(b, p) : b[k] \in Entry /\ b[k].report.pane = p
  BY DEF OfPane
<1>. QED
  BY <1>2, <1>3, <1>4 DEF BatchTimes, Entry

\* The last report of a task in a batch.
LEMMA LastOfTask ==
    ASSUME NEW b \in Seq(Entry), NEW t, OfTask(b, t) # {}
    PROVE  LastAmong(b, OfTask(b, t)) \in Report
<1>1. OfTask(b, t) \subseteq 0..Len(b)
  BY DEF OfTask
<1>2. MaxOf(OfTask(b, t)) \in OfTask(b, t)
  BY <1>1, MaxOfIs
<1>3. b[MaxOf(OfTask(b, t))] \in Entry
  BY <1>2 DEF OfTask
<1>. QED
  BY <1>3 DEF LastAmong, Entry

\* The empty batch has nothing of anybody.
LEMMA EmptyBatch ==
    ASSUME NEW p
    PROVE  OfPane(<< >>, p) = {} /\ BatchTimes(<< >>, p) = {} /\ SortedBatch(<< >>, p)
  BY DEF OfPane, BatchTimes, SortedBatch

\* A batch with one report more, of another pane.
LEMMA BatchOther ==
    ASSUME NEW b \in Seq(Entry), NEW e \in Entry, NEW p, e.report.pane # p
    PROVE  /\ OfPane(Append(b, e), p) = OfPane(b, p)
           /\ OfPane(b, p) # {} => LastAmong(Append(b, e), OfPane(Append(b, e), p))
                                     = LastAmong(b, OfPane(b, p))
           /\ BatchTimes(Append(b, e), p) = BatchTimes(b, p)
           /\ SortedBatch(b, p) => SortedBatch(Append(b, e), p)
<1>. DEFINE c == Append(b, e)
<1>1. /\ c \in Seq(Entry) /\ Len(c) = Len(b) + 1
      /\ \A k \in 1..Len(b) : c[k] = b[k]
      /\ c[Len(b) + 1] = e
  BY AppendProperties
<1>. HIDE DEF c
<1>2. OfPane(c, p) = OfPane(b, p) /\ OfPane(b, p) \subseteq 1..Len(b)
  BY <1>1 DEF OfPane
<1>3. OfPane(b, p) # {} => LastAmong(c, OfPane(c, p)) = LastAmong(b, OfPane(b, p))
  BY <1>1, <1>2, LastAmongIs DEF LastAmong
<1>4. BatchTimes(c, p) = BatchTimes(b, p)
  BY <1>1, <1>2 DEF BatchTimes
<1>5. SortedBatch(b, p) => SortedBatch(c, p)
  BY <1>1, <1>2 DEF SortedBatch
<1>. QED
  BY <1>2, <1>3, <1>4, <1>5 DEF c

\* And of the pane itself.
LEMMA BatchOwn ==
    ASSUME NEW b \in Seq(Entry), NEW e \in Entry
    PROVE  LET p == e.report.pane IN
           /\ OfPane(Append(b, e), p) # {}
           /\ LastAmong(Append(b, e), OfPane(Append(b, e), p)) = e.report
           /\ BatchTimes(Append(b, e), p) = BatchTimes(b, p) \cup {e.report.at}
           /\ SortedBatch(b, p) /\ NotAfter(BatchTimes(b, p), {e.report.at})
                => SortedBatch(Append(b, e), p)
<1>. DEFINE p == e.report.pane
            c == Append(b, e)
<1>1. /\ c \in Seq(Entry) /\ Len(c) = Len(b) + 1 /\ Len(b) \in Nat
      /\ \A k \in 1..Len(b) : c[k] = b[k]
      /\ c[Len(b) + 1] = e
  BY AppendProperties
<1>. HIDE DEF c
<1>2. OfPane(c, p) = OfPane(b, p) \cup {Len(b) + 1} /\ OfPane(b, p) \subseteq 1..Len(b)
  BY <1>1 DEF OfPane
<1>3. LastAmong(c, OfPane(c, p)) = e.report
  <2>1. OfPane(c, p) \subseteq 0..Len(c)
    BY DEF OfPane
  <2>2. MaxOf(OfPane(c, p)) = Len(b) + 1
    BY <1>1, <1>2, <2>1, MaxOfUnique
  <2>. QED
    BY <1>1, <2>2 DEF LastAmong
<1>4. BatchTimes(c, p) = BatchTimes(b, p) \cup {e.report.at}
  BY <1>1, <1>2 DEF BatchTimes
<1>5. ASSUME SortedBatch(b, p), NotAfter(BatchTimes(b, p), {e.report.at})
      PROVE  SortedBatch(c, p)
  <2>1. \A i \in OfPane(b, p) : b[i].report.at <= e.report.at
    BY <1>5 DEF NotAfter, BatchTimes
  <2>. QED
    BY <1>1, <1>2, <1>5, <2>1 DEF SortedBatch
<1>. QED
  BY <1>2, <1>3, <1>4, <1>5 DEF c

\* In a batch in order, the last report of a pane has the latest time.
LEMMA LastIsLatest ==
    ASSUME NEW b \in Seq(Entry), NEW p, OfPane(b, p) # {}, SortedBatch(b, p)
    PROVE  NotAfter(BatchTimes(b, p), {LastAmong(b, OfPane(b, p)).at})
<1>1. /\ MaxOf(OfPane(b, p)) \in OfPane(b, p)
      /\ \A k \in OfPane(b, p) : k <= MaxOf(OfPane(b, p))
  BY LastAmongIs
<1>2. \A k \in OfPane(b, p) : k \in 1..Len(b) /\ b[k].report.at \in Nat
  <2>1. \A k \in OfPane(b, p) : k \in 1..Len(b) /\ b[k] \in Entry
    BY DEF OfPane
  <2>. QED
    BY <2>1 DEF Entry, Report
<1>3. \A k \in OfPane(b, p) : b[k].report.at <= b[MaxOf(OfPane(b, p))].report.at
  BY <1>1, <1>2 DEF SortedBatch
<1>. QED
  BY <1>3 DEF NotAfter, BatchTimes, LastAmong

--------------------------------------------------------------------------------
(* What the invariant says of one pane.                                         *)

\* What is known of pane p is stored or on its way.
PaneKnown(p, latest, queued, todo, batch, stored, cross, gone) ==
    /\ Of(queued, p) # {} => LastReport(queued, p) = latest
    /\ Of(queued, p) = {} /\ Of(todo, p) # {} => LastReport(todo, p) = latest
    /\ p \in cross \/ \A j, k \in Projects :
                         OfPane(batch[j], p) # {} /\ OfPane(batch[k], p) # {} => j = k
    /\ \/ latest.shown = None \/ p \in gone \cup cross
       \/ Of(queued, p) # {} \/ Of(todo, p) # {}
       \/ /\ \A j \in Projects : OfPane(batch[j], p) # {}
                => LastAmong(batch[j], OfPane(batch[j], p)) = latest
          /\ (\A j \in Projects : OfPane(batch[j], p) = {}) => stored = latest

\* So says the invariant.
LEMMA KnownPanes ==
    KnownIsLast /\ KnownIsStored
      <=> \A p \in Pane : PaneKnown(p, paneLatest[p], reportQueue, tick.todo, tick.batch,
                                    paneRow[p], crossed, lost)
<1>1. ASSUME NEW p \in Pane, KnownIsLast, KnownIsStored
      PROVE  PaneKnown(p, paneLatest[p], reportQueue, tick.todo, tick.batch, paneRow[p],
                       crossed, lost)
  <2>1. /\ Of(reportQueue, p) # {} => LastReport(reportQueue, p) = paneLatest[p]
        /\ Of(reportQueue, p) = {} /\ Of(tick.todo, p) # {}
              => LastReport(tick.todo, p) = paneLatest[p]
        /\ p \in crossed \/ \A j, k \in Batched(p) : j = k
    BY <1>1 DEF KnownIsLast
  <2>2. ASSUME paneLatest[p].shown # None, p \notin lost \cup crossed,
               Of(reportQueue, p) = {}, Of(tick.todo, p) = {}
        PROVE  /\ \A j \in Projects : OfPane(tick.batch[j], p) # {}
                    => LastAmong(tick.batch[j], OfPane(tick.batch[j], p)) = paneLatest[p]
               /\ (\A j \in Projects : OfPane(tick.batch[j], p) = {}) => paneRow[p] = paneLatest[p]
    <3>1. LatestOf(p) = {paneLatest[p]}
      BY <1>1, <2>2 DEF KnownIsStored
    <3>2. CASE Batched(p) # {}
      <4>1. LatestOf(p) = {LastAmong(tick.batch[j], OfPane(tick.batch[j], p)) : j \in Batched(p)}
        BY <2>2, <3>2 DEF LatestOf
      <4>2. \A j \in Batched(p) : LastAmong(tick.batch[j], OfPane(tick.batch[j], p)) = paneLatest[p]
        BY <3>1, <4>1
      <4>. QED
        BY <3>2, <4>2 DEF Batched
    <3>3. CASE Batched(p) = {}
      <4>1. LatestOf(p) = {paneRow[p]}
        BY <2>2, <3>3 DEF LatestOf
      <4>. QED
        BY <3>1, <3>3, <4>1 DEF Batched
    <3>. QED
      BY <3>2, <3>3
  <2>. QED
    BY <2>1, <2>2 DEF PaneKnown, Batched
<1>2. ASSUME NEW p \in Pane,
             PaneKnown(p, paneLatest[p], reportQueue, tick.todo, tick.batch, paneRow[p],
                       crossed, lost)
      PROVE  /\ paneLatest[p].shown = None \/ p \in lost \cup crossed
                    \/ LatestOf(p) = {paneLatest[p]}
             /\ Of(reportQueue, p) # {} => LastReport(reportQueue, p) = paneLatest[p]
             /\ Of(reportQueue, p) = {} /\ Of(tick.todo, p) # {}
                   => LastReport(tick.todo, p) = paneLatest[p]
             /\ p \in crossed \/ \A j, k \in Batched(p) : j = k
  BY <1>2 DEF PaneKnown, LatestOf, Batched
<1>. QED
  BY <1>1, <1>2 DEF KnownIsLast, KnownIsStored

\* The times of pane p are in order; a is its actor.
PaneInOrder(p, a, flight, queued, todo, batch, stored, cross) ==
    LET kept == {stored.at} \cup UNION {BatchTimes(batch[j], p) : j \in Projects}
    IN  /\ NotAfter(kept, Times(todo, p))
        /\ NotAfter(kept \cup Times(todo, p), Times(queued, p))
        /\ NotAfter(kept \cup Times(todo, p) \cup Times(queued, p), Times(flight, p))
        /\ NotAfter(kept \cup Times(todo, p) \cup Times(queued, p) \cup Times(flight, p),
                    {NextTime(a)})
        /\ Sorted(todo, p) /\ Sorted(queued, p) /\ Sorted(flight, p)
        /\ \A j \in Projects :
              /\ SortedBatch(batch[j], p)
              /\ p \notin cross \/ todo # << >>
                    => NotAfter({stored.at}, BatchTimes(batch[j], p))

\* None of them is in the future.
PanePassed(p, a, flight, queued, todo, batch, stored, time) ==
    /\ a.seeded <= a.active /\ a.active <= time
    /\ NotAfter({stored.at} \cup (UNION {BatchTimes(batch[j], p) : j \in Projects})
                  \cup Times(todo, p) \cup Times(queued, p) \cup Times(flight, p), {time})

\* So says the invariant.
LEMMA OrderedPanes ==
    /\ TimesInOrder
         <=> \A p \in Pane : \/ p \in overtaken \/ actor[p].seeded = 0
                             \/ PaneInOrder(p, actor[p], inFlight[p], reportQueue, tick.todo,
                                            tick.batch, paneRow[p], crossed)
    /\ TimesPassed
         <=> /\ \A t \in Task : row[t].mod <= now
             /\ \A p \in Pane : PanePassed(p, actor[p], inFlight[p], reportQueue, tick.todo,
                                           tick.batch, paneRow[p], now)
<1>1. ASSUME NEW p \in Pane
      PROVE  PaneInOrder(p, actor[p], inFlight[p], reportQueue, tick.todo, tick.batch,
                         paneRow[p], crossed)
             <=> /\ NotAfter(StoredTimes(p), Times(tick.todo, p))
                 /\ NotAfter(StoredTimes(p) \cup Times(tick.todo, p), Times(reportQueue, p))
                 /\ NotAfter(StoredTimes(p) \cup Times(tick.todo, p) \cup Times(reportQueue, p),
                             Times(inFlight[p], p))
                 /\ NotAfter(StoredTimes(p) \cup Times(tick.todo, p) \cup Times(reportQueue, p)
                                \cup Times(inFlight[p], p), {NextTime(actor[p])})
                 /\ Sorted(tick.todo, p) /\ Sorted(reportQueue, p) /\ Sorted(inFlight[p], p)
                 /\ \A j \in Projects :
                       /\ SortedBatch(tick.batch[j], p)
                       /\ p \notin crossed \/ tick.todo # << >>
                             => NotAfter({paneRow[p].at}, BatchTimes(tick.batch[j], p))
  BY DEF PaneInOrder, StoredTimes
<1>2. ASSUME NEW p \in Pane
      PROVE  PanePassed(p, actor[p], inFlight[p], reportQueue, tick.todo, tick.batch,
                        paneRow[p], now)
             <=> /\ actor[p].seeded <= actor[p].active /\ actor[p].active <= now
                 /\ NotAfter(StoredTimes(p) \cup Times(tick.todo, p) \cup Times(reportQueue, p)
                                \cup Times(inFlight[p], p), {now})
  <2>. DEFINE kept == {paneRow[p].at} \cup (UNION {BatchTimes(tick.batch[j], p) : j \in Projects})
              all  == kept \cup Times(tick.todo, p) \cup Times(reportQueue, p)
                          \cup Times(inFlight[p], p)
  <2>1. StoredTimes(p) = kept
    BY DEF StoredTimes
  <2>2. PanePassed(p, actor[p], inFlight[p], reportQueue, tick.todo, tick.batch, paneRow[p], now)
        <=> actor[p].seeded <= actor[p].active /\ actor[p].active <= now /\ NotAfter(all, {now})
    BY Zenon DEF PanePassed
  <2>. QED
    BY <2>1, <2>2, Zenon
<1>. QED
  BY <1>1, <1>2 DEF TimesInOrder, TimesPassed

\* The invariant after a step.
LEMMA InvAfter ==
    ASSUME TypeOK', TurnInStep',
           \A p \in Pane : PaneKnown(p, paneLatest'[p], reportQueue', tick'.todo, tick'.batch,
                                     paneRow'[p], crossed', lost'),
           TreeComing', \A t \in Task : row'[t].mod <= now',
           \A p \in Pane : PanePassed(p, actor'[p], inFlight'[p], reportQueue', tick'.todo,
                                      tick'.batch, paneRow'[p], now'),
           \A p \in Pane : \/ p \in overtaken' \/ actor'[p].seeded = 0
                           \/ PaneInOrder(p, actor'[p], inFlight'[p], reportQueue', tick'.todo,
                                          tick'.batch, paneRow'[p], crossed')
    PROVE  StateInv'
<1>1. (KnownIsLast /\ KnownIsStored
         <=> \A p \in Pane : PaneKnown(p, paneLatest[p], reportQueue, tick.todo, tick.batch,
                                       paneRow[p], crossed, lost))'
  BY KnownPanes, PTL
<1>2. (TimesInOrder
         <=> \A p \in Pane : \/ p \in overtaken \/ actor[p].seeded = 0
                             \/ PaneInOrder(p, actor[p], inFlight[p], reportQueue, tick.todo,
                                            tick.batch, paneRow[p], crossed))'
  BY OrderedPanes, PTL
<1>3. (TimesPassed
         <=> /\ \A t \in Task : row[t].mod <= now
             /\ \A p \in Pane : PanePassed(p, actor[p], inFlight[p], reportQueue, tick.todo,
                                           tick.batch, paneRow[p], now))'
  BY OrderedPanes, PTL
<1>4. KnownIsLast' /\ KnownIsStored'
  BY <1>1
<1>5. TimesInOrder'
  BY <1>2
<1>6. TimesPassed'
  BY <1>3
<1>. QED
  BY <1>4, <1>5, <1>6 DEF StateInv

\* And before it.
LEMMA InvBefore ==
    ASSUME StateInv
    PROVE  /\ TypeOK /\ TurnInStep /\ TreeComing
           /\ \A p \in Pane : PaneKnown(p, paneLatest[p], reportQueue, tick.todo, tick.batch,
                                        paneRow[p], crossed, lost)
           /\ \A t \in Task : row[t].mod <= now
           /\ \A p \in Pane : PanePassed(p, actor[p], inFlight[p], reportQueue, tick.todo,
                                         tick.batch, paneRow[p], now)
           /\ \A p \in Pane : \/ p \in overtaken \/ actor[p].seeded = 0
                              \/ PaneInOrder(p, actor[p], inFlight[p], reportQueue, tick.todo,
                                             tick.batch, paneRow[p], crossed)
  BY KnownPanes, OrderedPanes DEF StateInv

\* What the constants say.
LEMMA Constants ==
    /\ MaxTime \in Nat /\ MaxTime >= 1 /\ MaxReports \in Nat /\ MaxEdits \in Nat
    /\ MaxFaults \in Nat /\ MaxInFlight \in Nat /\ MaxInFlight >= 1
    /\ Project \in Seq(Projects) /\ Project # << >> /\ Project[1] \in Projects
    /\ \A t \in Task : Home[t] \in Projects
    /\ None \notin Shown /\ None \notin Seconds /\ None \notin Projects /\ None \notin Task
    /\ Blank \in Shown /\ Blank \notin Command /\ Command \subseteq Shown
<1>1. /\ {MaxReports, MaxEdits, MaxFaults} \subseteq Nat
      /\ {MaxTime, MaxInFlight} \subseteq Nat \ {0}
      /\ Project \in Seq(Range(Project)) /\ Project # << >>
      /\ Home \in [Task -> Range(Project)] /\ Blank \notin Command
      /\ None \notin Range(Project) \cup Task \cup Command \cup {Blank} \cup Nat
  BY TaskStateAssumption
<1>2. MaxTime \in Nat /\ MaxTime >= 1 /\ MaxInFlight \in Nat /\ MaxInFlight >= 1
  BY <1>1
<1>3. Project[1] \in Projects
  BY <1>1 DEF Projects
<1>. QED
  BY <1>1, <1>2, <1>3 DEF Projects, Shown, Seconds

--------------------------------------------------------------------------------
(* Types.                                                                       *)

\* A delta is a function from tasks to rows.
LEMMA DeltaIs ==
    ASSUME NEW d
    PROVE  d \in UNION {[S -> Row] : S \in SUBSET Task}
             <=> DOMAIN d \subseteq Task /\ d \in [DOMAIN d -> Row]
  OBVIOUS

\* A turn, by its fields.
LEMMA TurnIs ==
    ASSUME TypeOK
    PROVE  /\ tick \in Turn
           /\ tick.pc \in {"idle", "projects", "match", "list"} /\ tick.projects \in Seq(Projects)
           /\ tick.todo \in Seq(Report) /\ tick.batch \in [Projects -> Seq(Entry)]
           /\ tick.mod \in Seconds /\ DOMAIN tick.delta \subseteq Task
           /\ tick.delta \in [DOMAIN tick.delta -> Row]
<1>1. tick \in Turn
  BY DEF TypeOK
<1>2. tick.delta \in UNION {[S -> Row] : S \in SUBSET Task}
  BY <1>1 DEF Turn
<1>. QED
  BY <1>1, <1>2, DeltaIs DEF Turn

\* Rows: none, and what is listed of one.
LEMMA Rows ==
    /\ NoRow \in Row /\ NoRow.mod = 0 /\ NoRow.archived = FALSE /\ ListedAs(NoRow) = NoRow
    /\ \A r \in Row : ListedAs(r) \in Row
  BY Constants DEF NoRow, Row, ListedAs, Seconds

\* A turn that has not begun.
LEMMA IdleIs ==
    /\ Idle \in Turn /\ Idle.pc = "idle" /\ Idle.projects = << >> /\ Idle.todo = << >>
    /\ \A j \in Projects : Idle.batch[j] = << >>
    /\ Idle.batch = [j \in Projects |-> << >>]
    /\ Idle.mod = 0 /\ Idle.delta = NoDelta /\ DOMAIN NoDelta = {}
<1>1. NoDelta \in UNION {[S -> Row] : S \in SUBSET Task} /\ DOMAIN NoDelta = {}
  <2>1. DOMAIN NoDelta = {} /\ NoDelta \in [{} -> Row]
    BY DEF NoDelta
  <2>. QED
    BY <2>1, DeltaIs
<1>2. 0 \in Seconds
  BY Constants DEF Seconds
<1>3. [j \in Projects |-> << >>] \in [Projects -> Seq(Entry)]
  OBVIOUS
<1>4. << >> \in Seq(Projects) /\ << >> \in Seq(Report)
  OBVIOUS
<1>5. /\ Idle.pc = "idle" /\ Idle.projects = << >> /\ Idle.todo = << >>
      /\ Idle.batch = [j \in Projects |-> << >>] /\ Idle.mod = 0 /\ Idle.delta = NoDelta
  BY DEF Idle
<1>6. Idle \in Turn
  BY <1>1, <1>2, <1>3, <1>4 DEF Idle, Turn
<1>. QED
  BY <1>1, <1>5, <1>6

\* The bounds that are used up.
LEMMA Spending ==
    ASSUME TypeOK
    PROVE  /\ Fault => spent' \in [reports : 0..MaxReports, edits : 0..MaxEdits,
                  faults : 0..MaxFaults]
           /\ Edit => spent' \in [reports : 0..MaxReports, edits : 0..MaxEdits,
                  faults : 0..MaxFaults]
           /\ UNCHANGED spent
                => spent' \in [reports : 0..MaxReports, edits : 0..MaxEdits, faults : 0..MaxFaults]
<1>1. spent \in [reports : 0..MaxReports, edits : 0..MaxEdits, faults : 0..MaxFaults]
  BY DEF TypeOK
<1>2. ASSUME Fault PROVE spent' \in [reports : 0..MaxReports, edits : 0..MaxEdits,
                 faults : 0..MaxFaults]
  BY <1>1, <1>2, Constants, SMTT(30) DEF Fault
<1>3. ASSUME Edit PROVE spent' \in [reports : 0..MaxReports, edits : 0..MaxEdits,
                 faults : 0..MaxFaults]
  BY <1>1, <1>3, Constants, SMTT(30) DEF Edit
<1>. QED
  BY <1>1, <1>2, <1>3

\* Times of what is typed are numbers.
LEMMA TimesTyped ==
    ASSUME TypeOK, NEW p \in Pane
    PROVE  /\ paneRow[p].at \in Seconds /\ paneLatest[p].shown \in Shown \cup {None}
           /\ now \in Seconds /\ Seconds \subseteq Nat
           /\ \A s \in Seq(Report) : Times(s, p) \subseteq Seconds
           /\ \A b \in Seq(Entry) : BatchTimes(b, p) \subseteq Seconds
           /\ actor[p] \in Actor /\ actor[p].active \in Seconds /\ actor[p].seeded \in Seconds
           /\ inFlight[p] \in Seq(Report) /\ reportQueue \in Seq(Report)
<1>1. Seconds \subseteq Nat /\ 0 \in Seconds /\ 1..MaxTime \subseteq Seconds
  BY Constants DEF Seconds
<1>2. \A r \in Report : r.at \in Seconds /\ r.shown \in Shown
  BY <1>1 DEF Report
<1>3. NoReport(p).at = 0 /\ NoReport(p).shown = None
  BY DEF NoReport
<1>4. paneRow[p] \in Report \cup {NoReport(p)} /\ paneLatest[p] \in Report \cup {NoReport(p)}
  BY DEF TypeOK
<1>5. paneRow[p].at \in Seconds /\ paneLatest[p].shown \in Shown \cup {None}
  BY <1>1, <1>2, <1>3, <1>4
<1>6. ASSUME NEW s \in Seq(Report) PROVE Times(s, p) \subseteq Seconds
  <2>1. \A k \in Of(s, p) : s[k] \in Report
    BY DEF Of
  <2>. QED
    BY <1>2, <2>1 DEF Times
<1>7. ASSUME NEW b \in Seq(Entry) PROVE BatchTimes(b, p) \subseteq Seconds
  <2>1. \A k \in OfPane(b, p) : b[k] \in Entry
    BY DEF OfPane
  <2>. QED
    BY <1>2, <2>1 DEF BatchTimes, Entry
<1>8. actor[p] \in Actor /\ actor[p].active \in Seconds /\ actor[p].seeded \in Seconds
  BY DEF TypeOK, Actor
<1>9. now \in Seconds /\ inFlight[p] \in Seq(Report) /\ reportQueue \in Seq(Report)
  BY <1>1 DEF TypeOK
<1>. QED
  BY <1>1, <1>5, <1>6, <1>7, <1>8, <1>9

--------------------------------------------------------------------------------
(* What a step leaves alone.                                                    *)

\* The panes, when no report moves.
LEMMA PanesStay ==
    ASSUME StateInv, now' \in Seconds, now <= now',
           UNCHANGED <<paneLatest, reportQueue, paneRow, crossed, lost, actor, inFlight,
               overtaken>>,
           tick'.todo = tick.todo, tick'.batch = tick.batch
    PROVE  /\ \A p \in Pane : PaneKnown(p, paneLatest'[p], reportQueue', tick'.todo, tick'.batch,
                                        paneRow'[p], crossed', lost')
           /\ \A p \in Pane : PanePassed(p, actor'[p], inFlight'[p], reportQueue', tick'.todo,
                                         tick'.batch, paneRow'[p], now')
           /\ \A p \in Pane : \/ p \in overtaken' \/ actor'[p].seeded = 0
                              \/ PaneInOrder(p, actor'[p], inFlight'[p], reportQueue', tick'.todo,
                                             tick'.batch, paneRow'[p], crossed')
<1>1. ASSUME NEW p \in Pane
      PROVE  PanePassed(p, actor[p], inFlight[p], reportQueue, tick.todo, tick.batch,
                        paneRow[p], now')
  <2>. DEFINE all == {paneRow[p].at} \cup (UNION {BatchTimes(tick.batch[j], p) : j \in Projects})
                       \cup Times(tick.todo, p) \cup Times(reportQueue, p)
                       \cup Times(inFlight[p], p)
  <2>1. TypeOK /\ PanePassed(p, actor[p], inFlight[p], reportQueue, tick.todo, tick.batch,
                             paneRow[p], now)
    BY InvBefore
  <2>2. all \subseteq Nat
    BY <2>1, TurnIs, TimesTyped
  <2>3. /\ now \in Nat /\ now' \in Nat /\ actor[p].active \in Nat /\ actor[p].active <= now
        /\ actor[p].seeded <= actor[p].active /\ NotAfter(all, {now})
    BY <2>1, TimesTyped DEF PanePassed
  <2>. HIDE DEF all
  <2>4. actor[p].active <= now' /\ NotAfter(all, {now'})
    BY <2>2, <2>3 DEF NotAfter
  <2>. QED
    BY <2>3, <2>4 DEF PanePassed, all
<1>. QED
  BY <1>1, InvBefore

\* The tasks, when none changes and no message comes.
LEMMA TreeStays ==
    ASSUME StateInv, UNCHANGED <<row, projectCache, seen, silent, unsent>>,
           tick'.delta = tick.delta
    PROVE  TreeComing'
<1>1. TreeComing
  BY DEF StateInv
<1>2. \A t \in Task : /\ Coming(t)' = Coming(t) /\ Unknown(t)' = Unknown(t)
                      /\ Ahead(t)' = Ahead(t) /\ Listed(t)' = Listed(t)
  BY DEF Coming, Unknown, Ahead, Listed
<1>. QED
  BY <1>1, <1>2 DEF TreeComing

\* The types of all that is not the turn's.
LEMMA TypesStay ==
    ASSUME TypeOK, tick' \in Turn, UNCHANGED <<paneVars, paneLatest, reportQueue,
               storeVars, seen, histVars>>,
           now' \in 1..MaxTime, triggered' \in BOOLEAN, projectCache' \in [Projects -> Cache],
           spent' \in [reports : 0..MaxReports, edits : 0..MaxEdits, faults : 0..MaxFaults]
    PROVE  TypeOK'
  BY DEF TypeOK, paneVars, storeVars, histVars

--------------------------------------------------------------------------------
(* Steps that move no report.                                                   *)

\* A step that touches neither reports nor tasks.
LEMMA QuietStep ==
    ASSUME StateInv, now' \in 1..MaxTime, now <= now', tick' \in Turn,
           UNCHANGED <<paneVars, paneLatest, reportQueue, storeVars, seen, histVars, projectCache>>,
           triggered' \in BOOLEAN,
           spent' \in [reports : 0..MaxReports, edits : 0..MaxEdits, faults : 0..MaxFaults],
           tick'.todo = tick.todo, tick'.batch = tick.batch, tick'.delta = tick.delta,
           TurnInStep'
    PROVE  StateInv'
<1>1. TypeOK
  BY DEF StateInv
<1>2. projectCache \in [Projects -> Cache]
  BY <1>1 DEF TypeOK
<1>3. TypeOK'
  BY <1>1, <1>2, TypesStay
<1>4. now' \in Seconds
  BY Constants DEF Seconds
<1>5. /\ UNCHANGED <<paneLatest, reportQueue, paneRow, crossed, lost, actor, inFlight, overtaken>>
      /\ UNCHANGED <<row, projectCache, seen, silent, unsent>>
  BY DEF paneVars, storeVars, histVars
<1>6. TreeComing'
  BY <1>5, TreeStays
<1>7. \A t \in Task : row'[t].mod <= now'
  <2>1. \A t \in Task : row[t].mod <= now /\ row[t].mod \in Nat
    BY <1>1, InvBefore, Constants, SMTT(30) DEF TypeOK, Row, Seconds
  <2>2. now \in Nat /\ now' \in Nat
    BY <1>1, <1>4, TimesTyped, Constants DEF TypeOK, Seconds
  <2>. QED
    BY <1>5, <2>1, <2>2
<1>. QED
  BY <1>3, <1>4, <1>5, <1>6, <1>7, PanesStay, InvAfter

\* The wake-up.
LEMMA TriggerKeeps ==
    ASSUME StateInv, NEW p \in Pane, Trigger(p)
    PROVE  StateInv'
<1>1. TypeOK /\ TurnInStep
  BY DEF StateInv
<1>2. /\ appended' = appended \ {p} /\ triggered' = TRUE
      /\ UNCHANGED <<now, actor, inFlight, paneLatest, reportQueue, tick, projectCache,
                     storeVars, seen, spent, histVars>>
  BY DEF Trigger
<1>3. TypeOK'
  BY <1>1, <1>2 DEF TypeOK, storeVars, histVars
<1>4. TurnInStep'
  BY <1>1, <1>2 DEF TurnInStep
<1>5. /\ UNCHANGED <<paneLatest, reportQueue, paneRow, crossed, lost, actor, inFlight, overtaken>>
      /\ UNCHANGED <<row, projectCache, seen, silent, unsent>>
      /\ now' = now /\ tick' = tick
  BY <1>2 DEF storeVars, histVars
<1>6. TreeComing'
  BY <1>5, TreeStays
<1>7. now \in 1..MaxTime /\ now \in Seconds /\ now <= now
  BY <1>1, Constants DEF TypeOK, Seconds
<1>. QED
  BY <1>3, <1>4, <1>5, <1>6, <1>7, InvBefore, PanesStay, InvAfter

\* A turn begins.
LEMMA RunLoopKeeps ==
    ASSUME StateInv, RunLoop
    PROVE  StateInv'
<1>. DEFINE n == [Idle EXCEPT !.pc = "projects"]
<1>1. TypeOK /\ TurnInStep
  BY DEF StateInv
<1>2. /\ tick.pc = "idle" /\ triggered' = FALSE /\ tick' = n
      /\ UNCHANGED <<now, paneVars, paneLatest, reportQueue, projectCache, storeVars, seen,
                     spent, histVars>>
  BY DEF RunLoop
<1>3. /\ n \in Turn /\ n.pc = "projects" /\ n.projects = << >> /\ n.todo = << >>
      /\ n.batch = [j \in Projects |-> << >>] /\ n.delta = NoDelta
  BY IdleIs DEF Turn
<1>. HIDE DEF n
<1>4. tick.todo = << >> /\ tick.delta = NoDelta /\ \A j \in Projects : tick.batch[j] = << >>
  BY <1>1, <1>2 DEF TurnInStep
<1>5. tick.batch = n.batch
  BY <1>1, <1>3, <1>4, TurnIs
<1>6. TurnInStep'
  BY <1>2, <1>3 DEF TurnInStep
<1>7. now \in 1..MaxTime /\ now <= now /\ now \in Nat
  BY <1>1, Constants DEF TypeOK
<1>. QED
  BY <1>1, <1>2, <1>3, <1>4, <1>5, <1>6, <1>7, Spending, QuietStep

\* A second passes.
LEMMA SecondKeeps ==
    ASSUME StateInv, Second
    PROVE  StateInv'
<1>1. TypeOK /\ TurnInStep
  BY DEF StateInv
<1>2. /\ now < MaxTime /\ now' = now + 1
      /\ UNCHANGED <<paneVars, queueVars, tick, projectCache, storeVars, seen, spent, histVars>>
  BY DEF Second
<1>3. now' \in 1..MaxTime /\ now <= now'
  BY <1>1, <1>2, Constants DEF TypeOK
<1>4. TurnInStep'
  BY <1>1, <1>2 DEF TurnInStep
<1>5. triggered \in BOOLEAN
  BY <1>1 DEF TypeOK
<1>. QED
  BY <1>1, <1>2, <1>3, <1>4, <1>5, Spending, TurnIs, QuietStep DEF queueVars

\* The turn looks whether a project has changed.
LEMMA ReadMaxKeeps ==
    ASSUME StateInv, ReadMax
    PROVE  StateInv'
<1>1. TypeOK /\ TurnInStep
  BY DEF StateInv
<1>2. /\ Flushed /\ tick.projects # << >>
      /\ UNCHANGED <<now, paneVars, queueVars, projectCache, storeVars, seen, histVars>>
      /\ NextProject \/ tick' = [tick EXCEPT !.pc = "list", !.mod = Newest(Head(tick.projects))]
      /\ Fault \/ Unspent
  BY DEF ReadMax
<1>3. now \in 1..MaxTime /\ now <= now /\ now \in Nat /\ triggered \in BOOLEAN
  BY <1>1, Constants DEF TypeOK
<1>4. spent' \in [reports : 0..MaxReports, edits : 0..MaxEdits, faults : 0..MaxFaults]
  BY <1>1, <1>2, Spending DEF Unspent
<1>5. Newest(Head(tick.projects)) \in Seconds
  <2>. DEFINE j == Head(tick.projects)
              mods == {row[t].mod : t \in TasksOf(j)}
  <2>1. CASE \E t \in TasksOf(j) : Exists(t)
    <3>1. mods \subseteq 0..MaxTime /\ mods # {}
      BY <1>1, <2>1 DEF TypeOK, Row, Seconds, TasksOf
    <3>2. MaxOf(mods) \in mods /\ \A m \in mods : m <= MaxOf(mods)
      BY <3>1, Constants, MaxOfIs
    <3>3. Newest(j) \in mods
      BY <2>1, <3>2 DEF Newest
    <3>. QED
      BY <3>1, <3>3 DEF Seconds
  <2>2. CASE ~ \E t \in TasksOf(j) : Exists(t)
    BY <2>2, Constants DEF Newest, Seconds
  <2>. QED
    BY <2>1, <2>2
<1>6. tick.pc = "match" /\ tick.todo = << >> /\ \A j \in Projects : tick.batch[j] = << >>
  BY <1>2 DEF Flushed
<1>7. /\ tick' \in Turn /\ TurnInStep' /\ tick'.todo = tick.todo
      /\ tick'.batch = tick.batch /\ tick'.delta = tick.delta
  <2>1. CASE NextProject
    <3>1. Tail(tick.projects) \in Seq(Projects)
      BY <1>1, <1>2, TurnIs, HeadTailProperties
    <3>2. tick' = [tick EXCEPT !.pc = "match", !.projects = Tail(tick.projects)]
      BY <2>1 DEF NextProject
    <3>. QED
      BY <1>1, <1>6, <3>1, <3>2, TurnIs DEF Turn, TurnInStep
  <2>2. CASE tick' = [tick EXCEPT !.pc = "list", !.mod = Newest(Head(tick.projects))]
    BY <1>1, <1>2, <1>5, <1>6, <2>2, TurnIs DEF Turn, TurnInStep
  <2>. QED
    BY <1>2, <2>1, <2>2
<1>. QED
  BY <1>2, <1>3, <1>4, <1>7, QuietStep DEF queueVars

\* A binding changes.
LEMMA SavePanesKeeps ==
    ASSUME StateInv, NEW t \in Task, NEW p \in Pane \cup {NoPane}, SavePanes(t, p)
    PROVE  StateInv'
<1>1. TypeOK /\ TurnInStep
  BY DEF StateInv
<1>2. /\ Edit /\ bound' = [bound EXCEPT ![t] = p]
      /\ UNCHANGED <<now, paneVars, queueVars, tick, projectCache, row, paneRow, seen, histVars>>
  BY DEF SavePanes
<1>3. TypeOK'
  BY <1>1, <1>2, Spending DEF TypeOK, paneVars, queueVars, histVars
<1>4. TurnInStep'
  BY <1>1, <1>2 DEF TurnInStep
<1>5. /\ UNCHANGED <<paneLatest, reportQueue, paneRow, crossed, lost, actor, inFlight, overtaken>>
      /\ UNCHANGED <<row, projectCache, seen, silent, unsent>>
      /\ now' = now /\ tick' = tick
  BY <1>2 DEF paneVars, queueVars, histVars
<1>6. TreeComing'
  BY <1>5, TreeStays
<1>7. now \in 1..MaxTime /\ now \in Seconds /\ now <= now
  BY <1>1, Constants DEF TypeOK, Seconds
<1>. QED
  BY <1>3, <1>4, <1>5, <1>6, <1>7, InvBefore, PanesStay, InvAfter

--------------------------------------------------------------------------------
(* A pane actor makes a report.                                                 *)

\* Times of pane p, all numbers.
LEMMA TimesAreNumbers ==
    ASSUME TypeOK, NEW p \in Pane
    PROVE  /\ {paneRow[p].at} \cup
                 (UNION {BatchTimes(tick.batch[j], p) : j \in Projects}) \subseteq Nat
           /\ Times(tick.todo, p) \subseteq Nat /\ Times(reportQueue, p) \subseteq Nat
           /\ Times(inFlight[p], p) \subseteq Nat
           /\ now \in Nat /\ now >= 1 /\ actor[p].active \in Nat /\ actor[p].seeded \in Nat
           /\ NextTime(actor[p]) \in Nat
<1>1. tick.batch \in [Projects -> Seq(Entry)] /\ tick.todo \in Seq(Report)
  BY TurnIs
<1>2. /\ paneRow[p].at \in Nat /\ now \in Nat /\ actor[p].active \in Nat /\ actor[p].seeded \in Nat
      /\ \A s \in Seq(Report) : Times(s, p) \subseteq Nat
      /\ \A b \in Seq(Entry) : BatchTimes(b, p) \subseteq Nat
      /\ inFlight[p] \in Seq(Report) /\ reportQueue \in Seq(Report)
  BY TimesTyped
<1>3. now >= 1
  BY DEF TypeOK
<1>4. NextTime(actor[p]) \in Nat
  BY <1>2 DEF NextTime
<1>. QED
  BY <1>1, <1>2, <1>3, <1>4

\* Of a pane in order, the next report is made: r by actor a, which b is after it.
LEMMA OneMoreInFlight ==
    ASSUME TypeOK, NEW p \in Pane, NEW r \in Report, r.pane = p, NEW b \in Actor,
           PaneInOrder(p, actor[p], inFlight[p], reportQueue, tick.todo, tick.batch,
                       paneRow[p], crossed),
           NextTime(actor[p]) <= r.at, r.at <= NextTime(b)
    PROVE  PaneInOrder(p, b, Append(inFlight[p], r), reportQueue, tick.todo, tick.batch,
                       paneRow[p], crossed)
<1>. DEFINE kept == {paneRow[p].at} \cup (UNION {BatchTimes(tick.batch[j], p) : j \in Projects})
            td == Times(tick.todo, p)
            qu == Times(reportQueue, p)
            fl == Times(inFlight[p], p)
            f2 == Append(inFlight[p], r)
<1>1. /\ kept \subseteq Nat /\ td \subseteq Nat /\ qu \subseteq Nat /\ fl \subseteq Nat
      /\ NextTime(actor[p]) \in Nat
  BY TimesAreNumbers
<1>2. r.at \in Nat /\ NextTime(b) \in Nat
  BY Constants DEF Report, Actor, NextTime, Seconds
<1>3. /\ NotAfter(kept, td) /\ NotAfter(kept \cup td, qu)
      /\ NotAfter(kept \cup td \cup qu, fl)
      /\ NotAfter(kept \cup td \cup qu \cup fl, {NextTime(actor[p])})
      /\ Sorted(tick.todo, p) /\ Sorted(reportQueue, p) /\ Sorted(inFlight[p], p)
      /\ \A j \in Projects :
            /\ SortedBatch(tick.batch[j], p)
            /\ p \notin crossed \/ tick.todo # << >>
                  => NotAfter({paneRow[p].at}, BatchTimes(tick.batch[j], p))
  BY DEF PaneInOrder
<1>4. inFlight[p] \in Seq(Report)
  BY TimesTyped
<1>5. /\ Times(f2, p) = fl \cup {r.at}
      /\ Sorted(inFlight[p], p) /\ NotAfter(Times(inFlight[p], p), {r.at}) => Sorted(f2, p)
  BY <1>4, AppendOwn
<1>. HIDE DEF kept, td, qu, fl, f2
<1>6. NotAfter(kept \cup td \cup qu \cup fl, {r.at})
  BY <1>1, <1>2, <1>3 DEF NotAfter
<1>7. NotAfter(kept \cup td \cup qu, fl \cup {r.at}) /\ NotAfter(fl, {r.at})
  BY <1>3, <1>6 DEF NotAfter
<1>8. NotAfter(kept \cup td \cup qu \cup (fl \cup {r.at}), {NextTime(b)})
  BY <1>1, <1>2, <1>6 DEF NotAfter
<1>9. Sorted(f2, p)
  BY <1>3, <1>5, <1>7 DEF fl
<1>. QED
  BY <1>3, <1>5, <1>7, <1>8, <1>9 DEF PaneInOrder, kept, td, qu, fl, f2

\* reportTaskState, by an actor that has just changed to a.
LEMMA ReportKeeps ==
    ASSUME StateInv, NEW p \in Pane, NEW a \in Actor, ReportTaskState(p, a),
           a.seeded = actor[p].seeded, a.reported = actor[p].reported,
           actor[p].active <= a.active, a.active <= now,
           UNCHANGED <<now, appended, queueVars, tick, projectCache, storeVars, seen, histVars>>
    PROVE  StateInv'
<1>. DEFINE r == [pane |-> p, shown |-> a.snap, at |-> ReportAt(a)]
<1>1. TypeOK /\ TurnInStep
  BY DEF StateInv
<1>2. /\ UNCHANGED <<now, appended, paneLatest, reportQueue, triggered, tick, projectCache,
                     row, bound, paneRow, seen, lost, crossed, overtaken, silent, unsent>>
  BY DEF queueVars, storeVars, histVars
<1>3. /\ PanePassed(p, actor[p], inFlight[p], reportQueue, tick.todo, tick.batch, paneRow[p], now)
      /\ p \in overtaken \/ actor[p].seeded = 0
         \/ PaneInOrder(p, actor[p], inFlight[p], reportQueue, tick.todo, tick.batch, paneRow[p],
                        crossed)
  BY InvBefore
<1>4. /\ now \in Nat /\ now >= 1 /\ now <= MaxTime /\ actor[p].active \in Nat
      /\ actor[p].seeded \in Nat /\ actor[p].seeded <= actor[p].active
      /\ NextTime(actor[p]) \in Nat
  BY <1>1, <1>3, TimesAreNumbers DEF PanePassed, TypeOK
<1>5. /\ a.active \in Nat /\ a.seeded \in Nat /\ a.seeded <= a.active /\ a.reported \in BOOLEAN
      /\ a.snap \in Shown
  BY <1>4, Constants, SMTT(30) DEF Actor, Seconds
<1>6. /\ actor \in [Pane -> Actor] /\ inFlight \in [Pane -> Seq(Report)]
      /\ Len(inFlight[p]) <= MaxInFlight /\ \A i \in DOMAIN inFlight[p] : inFlight[p][i].pane = p
  BY <1>1 DEF TypeOK
<1>7. TurnInStep' /\ TreeComing'
  BY <1>1, <1>2, TreeStays DEF TurnInStep
<1>8. \A t \in Task : row'[t].mod <= now'
  BY <1>2, InvBefore
<1>9. CASE Throttled(a)
  <2>1. actor' = [actor EXCEPT ![p] = a] /\ UNCHANGED <<inFlight, spent>>
    BY <1>9 DEF ReportTaskState
  <2>2. TypeOK'
    BY <1>1, <1>2, <2>1, <1>6 DEF TypeOK
  <2>3. PanePassed(p, a, inFlight[p], reportQueue, tick.todo, tick.batch, paneRow[p], now)
    BY <1>3, <1>5 DEF PanePassed
  <2>4. ASSUME PaneInOrder(p, actor[p], inFlight[p], reportQueue, tick.todo, tick.batch,
                           paneRow[p], crossed)
        PROVE  PaneInOrder(p, a, inFlight[p], reportQueue, tick.todo, tick.batch, paneRow[p],
                           crossed)
    <3>. DEFINE all == {paneRow[p].at} \cup (UNION {BatchTimes(tick.batch[j], p) : j \in Projects})
                         \cup Times(tick.todo, p) \cup Times(reportQueue, p)
                         \cup Times(inFlight[p], p)
    <3>1. all \subseteq Nat
      BY <1>1, TimesAreNumbers
    <3>2. NotAfter(all, {NextTime(actor[p])})
      BY <2>4 DEF PaneInOrder
    <3>3. NextTime(a) \in Nat /\ NextTime(actor[p]) <= NextTime(a)
      BY <1>4, <1>5 DEF NextTime
    <3>. HIDE DEF all
    <3>4. NotAfter(all, {NextTime(a)})
      BY <1>4, <3>1, <3>2, <3>3 DEF NotAfter
    <3>. QED
      BY <2>4, <3>4 DEF PaneInOrder, all
  <2>5. \A q \in Pane : PaneKnown(q, paneLatest'[q], reportQueue', tick'.todo, tick'.batch,
                                  paneRow'[q], crossed', lost')
    BY <1>2, InvBefore
  <2>6. ASSUME NEW q \in Pane
        PROVE  /\ PanePassed(q, actor'[q], inFlight'[q], reportQueue', tick'.todo, tick'.batch,
                             paneRow'[q], now')
               /\ \/ q \in overtaken' \/ actor'[q].seeded = 0
                  \/ PaneInOrder(q, actor'[q], inFlight'[q], reportQueue', tick'.todo,
                                 tick'.batch, paneRow'[q], crossed')
    <3>1. CASE q = p
      <4>1. actor'[p] = a
        BY <1>6, <2>1
      <4>. QED
        BY <1>2, <1>3, <2>1, <2>3, <2>4, <3>1, <4>1
    <3>2. CASE q # p
      <4>1. actor'[q] = actor[q]
        BY <1>6, <2>1, <3>2
      <4>. QED
        BY <1>2, <2>1, <4>1, InvBefore
    <3>. QED
      BY <3>1, <3>2
  <2>. QED
    BY <1>7, <1>8, <2>2, <2>5, <2>6, InvAfter
<1>10. CASE ~Throttled(a)
  <2>1. /\ spent.reports < MaxReports /\ Len(inFlight[p]) < MaxInFlight
        /\ spent' = [spent EXCEPT !.reports = @ + 1]
        /\ inFlight' = [inFlight EXCEPT ![p] = Append(@, r)]
        /\ actor' = [actor EXCEPT ![p] = Reported(a)]
    BY <1>10 DEF ReportTaskState
  <2>2. /\ ReportAt(a) \in 1..MaxTime /\ ReportAt(a) \in Nat /\ ReportAt(a) <= now
        /\ actor[p].seeded # 0 => NextTime(actor[p]) <= ReportAt(a) /\ ReportAt(a) <= a.active
    <3>1. CASE ~a.reported /\ a.seeded # 0
      BY <1>4, <1>5, <3>1, Constants DEF ReportAt, NextTime
    <3>2. CASE ~(~a.reported /\ a.seeded # 0) /\ a.active # 0
      <4>1. ReportAt(a) = a.active
        BY <3>2 DEF ReportAt
      <4>2. actor[p].seeded # 0 => a.reported /\ NextTime(actor[p]) = actor[p].active
        BY <1>5, <3>2 DEF NextTime
      <4>. QED
        BY <1>4, <1>5, <3>2, <4>1, <4>2, Constants
    <3>3. CASE ~(~a.reported /\ a.seeded # 0) /\ a.active = 0
      <4>1. ReportAt(a) = now
        BY <3>3 DEF ReportAt
      <4>2. a.seeded = 0
        BY <1>5, <3>3
      <4>. QED
        BY <1>4, <4>1, <4>2, Constants
    <3>. QED
      BY <3>1, <3>2, <3>3
  <2>3. /\ Reported(a) \in Actor /\ Reported(a).active = a.active /\ Reported(a).seeded = a.seeded
        /\ NextTime(Reported(a)) = a.active
    <3>1. now \in Seconds
      BY <1>1, TimesTyped
    <3>. QED
      BY <3>1 DEF Reported, Actor, NextTime
  <2>4. r \in Report /\ r.pane = p /\ r.at = ReportAt(a)
    BY <1>5, <2>2 DEF Report
  <2>. HIDE DEF r
  <2>5. /\ Append(inFlight[p], r) \in Seq(Report)
        /\ Len(Append(inFlight[p], r)) = Len(inFlight[p]) + 1
        /\ \A i \in DOMAIN Append(inFlight[p], r) : Append(inFlight[p], r)[i].pane = p
    <3>1. inFlight[p] \in Seq(Report)
      BY <1>6
    <3>2. /\ Append(inFlight[p], r) \in Seq(Report)
          /\ Len(Append(inFlight[p], r)) = Len(inFlight[p]) + 1
          /\ \A i \in 1..Len(inFlight[p]) : Append(inFlight[p], r)[i] = inFlight[p][i]
          /\ Append(inFlight[p], r)[Len(inFlight[p]) + 1] = r
      BY <2>4, <3>1, AppendProperties
    <3>3. Len(inFlight[p]) \in Nat /\ DOMAIN inFlight[p] = 1..Len(inFlight[p])
      BY <3>1
    <3>. QED
      BY <1>6, <2>4, <3>2, <3>3
  <2>6. actor'[p] = Reported(a) /\ inFlight'[p] = Append(inFlight[p], r)
    BY <1>6, <2>1
  <2>7. \A q \in Pane \ {p} : actor'[q] = actor[q] /\ inFlight'[q] = inFlight[q]
    BY <1>6, <2>1
  <2>8. TypeOK'
    <3>1. spent' \in [reports : 0..MaxReports, edits : 0..MaxEdits, faults : 0..MaxFaults]
      <4>1. spent \in [reports : 0..MaxReports, edits : 0..MaxEdits, faults : 0..MaxFaults]
        BY <1>1 DEF TypeOK
      <4>2. spent.reports + 1 \in 0..MaxReports
        BY <2>1, <4>1, Constants
      <4>. QED
        BY <2>1, <4>1, <4>2
    <3>2. actor' \in [Pane -> Actor] /\ inFlight' \in [Pane -> Seq(Report)]
      BY <1>6, <2>1, <2>3, <2>5
    <3>3. Len(inFlight'[p]) <= MaxInFlight
      BY <1>6, <2>1, <2>5, <2>6, Constants
    <3>4. \A q \in Pane : /\ Len(inFlight'[q]) <= MaxInFlight
                          /\ \A i \in DOMAIN inFlight'[q] : inFlight'[q][i].pane = q
      <4>1. ASSUME NEW q \in Pane \ {p}
            PROVE  /\ Len(inFlight'[q]) <= MaxInFlight
                   /\ \A i \in DOMAIN inFlight'[q] : inFlight'[q][i].pane = q
        BY <1>1, <2>7 DEF TypeOK
      <4>. QED
        BY <2>5, <2>6, <3>3, <4>1
    <3>. QED
      BY <1>1, <1>2, <3>1, <3>2, <3>4 DEF TypeOK
  <2>9. PanePassed(p, Reported(a), Append(inFlight[p], r), reportQueue, tick.todo, tick.batch,
                   paneRow[p], now)
    <3>1. Times(Append(inFlight[p], r), p) = Times(inFlight[p], p) \cup {r.at}
      BY <1>6, <2>4, AppendOwn
    <3>. DEFINE rest == {paneRow[p].at} \cup (UNION {BatchTimes(tick.batch[j], p) : j \in Projects})
                         \cup Times(tick.todo, p) \cup Times(reportQueue, p)
    <3>2. NotAfter(rest \cup Times(inFlight[p], p), {now})
      BY <1>3 DEF PanePassed
    <3>3. NotAfter(rest \cup (Times(inFlight[p], p) \cup {r.at}), {now})
      <4>. HIDE DEF rest
      <4>. QED
        BY <2>2, <2>4, <3>2 DEF NotAfter
    <3>. QED
      BY <1>5, <2>3, <3>1, <3>3 DEF PanePassed
  <2>10. ASSUME PaneInOrder(p, actor[p], inFlight[p], reportQueue, tick.todo, tick.batch,
                            paneRow[p], crossed), actor[p].seeded # 0
         PROVE  PaneInOrder(p, Reported(a), Append(inFlight[p], r), reportQueue, tick.todo,
                            tick.batch, paneRow[p], crossed)
    BY <1>1, <2>2, <2>3, <2>4, <2>10, OneMoreInFlight
  <2>11. \A q \in Pane : PaneKnown(q, paneLatest'[q], reportQueue', tick'.todo, tick'.batch,
                                   paneRow'[q], crossed', lost')
    BY <1>2, InvBefore
  <2>12. ASSUME NEW q \in Pane
         PROVE  /\ PanePassed(q, actor'[q], inFlight'[q], reportQueue', tick'.todo, tick'.batch,
                              paneRow'[q], now')
                /\ \/ q \in overtaken' \/ actor'[q].seeded = 0
                   \/ PaneInOrder(q, actor'[q], inFlight'[q], reportQueue', tick'.todo,
                                  tick'.batch, paneRow'[q], crossed')
    <3>1. CASE q = p
      BY <1>2, <1>3, <2>3, <2>6, <2>9, <2>10, <3>1
    <3>2. CASE q # p
      BY <1>2, <2>7, <3>2, InvBefore
    <3>. QED
      BY <3>1, <3>2
  <2>. QED
    BY <1>7, <1>8, <2>8, <2>11, <2>12, InvAfter
<1>. QED
  BY <1>9, <1>10

\* The actor is created.
LEMMA StartKeeps ==
    ASSUME StateInv, NEW p \in Pane, Start(p)
    PROVE  StateInv'
<1>. DEFINE a == [actor[p] EXCEPT !.started = TRUE]
<1>1. TypeOK
  BY DEF StateInv
<1>2. actor[p] \in Actor
  BY <1>1, TimesTyped
<1>3. /\ a \in Actor /\ a.seeded = actor[p].seeded /\ a.reported = actor[p].reported
      /\ a.active = actor[p].active
  BY <1>2 DEF Actor
<1>4. ReportTaskState(p, a)
  BY DEF Start
<1>5. UNCHANGED <<now, appended, queueVars, tick, projectCache, storeVars, seen, histVars>>
  BY DEF Start
<1>6. actor[p].active <= actor[p].active /\ actor[p].active <= now
  <2>1. PanePassed(p, actor[p], inFlight[p], reportQueue, tick.todo, tick.batch, paneRow[p], now)
    BY InvBefore
  <2>2. actor[p].active \in Nat
    BY <1>1, TimesAreNumbers
  <2>. QED
    BY <2>1, <2>2 DEF PanePassed
<1>. HIDE DEF a
<1>. QED
  BY <1>3, <1>4, <1>5, <1>6, ReportKeeps

\* A pane has been evaluated.
LEMMA OnSnapshotUpdatedKeeps ==
    ASSUME StateInv, NEW p \in Pane, NEW shown \in Command, OnSnapshotUpdated(p, shown)
    PROVE  StateInv'
<1>1. PICK active \in Activity(actor[p], shown) :
         ReportTaskState(p, [actor[p] EXCEPT !.snap = shown, !.active = active, !.sampled = TRUE])
  BY DEF OnSnapshotUpdated
<1>. DEFINE a == [actor[p] EXCEPT !.snap = shown, !.active = active, !.sampled = TRUE]
<1>2. TypeOK
  BY DEF StateInv
<1>3. actor[p] \in Actor /\ shown \in Shown
  BY <1>2, TimesTyped, Constants
<1>4. /\ actor[p].active <= now /\ actor[p].active \in Nat /\ now \in Nat /\ now >= 1
      /\ now \in Seconds /\ actor[p].active \in Seconds /\ 0 \in Seconds /\ 1 \in Seconds
  <2>1. PanePassed(p, actor[p], inFlight[p], reportQueue, tick.todo, tick.batch, paneRow[p], now)
    BY InvBefore
  <2>2. actor[p].active <= now
    BY <2>1 DEF PanePassed
  <2>3. 0 \in Seconds /\ 1 \in Seconds
    BY Constants DEF Seconds
  <2>. QED
    BY <1>2, <2>2, <2>3, TimesAreNumbers, TimesTyped
<1>5. active \in Seconds /\ actor[p].active <= active /\ active <= now
  BY <1>4 DEF Activity
<1>6. /\ a \in Actor /\ a.seeded = actor[p].seeded /\ a.reported = actor[p].reported
      /\ a.active = active
  BY <1>3, <1>5 DEF Actor
<1>7. ReportTaskState(p, a)
  BY <1>1
<1>8. UNCHANGED <<now, appended, queueVars, tick, projectCache, storeVars, seen, histVars>>
  BY DEF OnSnapshotUpdated
<1>. HIDE DEF a
<1>. QED
  BY <1>5, <1>6, <1>7, <1>8, ReportKeeps

--------------------------------------------------------------------------------
(* A report reaches the queue, and the turn takes the queue.                    *)

\* The oldest report of a pane in order leaves for the queue or is dropped.
LEMMA OneLessInFlight ==
    ASSUME TypeOK, NEW p \in Pane, inFlight[p] # << >>,
           PaneInOrder(p, actor[p], inFlight[p], reportQueue, tick.todo, tick.batch,
                       paneRow[p], crossed)
    PROVE  /\ PaneInOrder(p, actor[p], Tail(inFlight[p]), reportQueue, tick.todo, tick.batch,
                          paneRow[p], crossed)
           /\ PaneInOrder(p, actor[p], Tail(inFlight[p]), Append(reportQueue, Head(inFlight[p])),
                          tick.todo, tick.batch, paneRow[p], crossed)
<1>. DEFINE kept == {paneRow[p].at} \cup (UNION {BatchTimes(tick.batch[j], p) : j \in Projects})
            td == Times(tick.todo, p)
            qu == Times(reportQueue, p)
            fl == Times(inFlight[p], p)
            rest == Times(Tail(inFlight[p]), p)
            r == Head(inFlight[p])
            q2 == Append(reportQueue, r)
<1>1. kept \subseteq Nat /\ td \subseteq Nat /\ qu \subseteq Nat /\ fl \subseteq Nat
  BY TimesAreNumbers
<1>2. /\ NotAfter(kept, td) /\ NotAfter(kept \cup td, qu)
      /\ NotAfter(kept \cup td \cup qu, fl)
      /\ NotAfter(kept \cup td \cup qu \cup fl, {NextTime(actor[p])})
      /\ Sorted(tick.todo, p) /\ Sorted(reportQueue, p) /\ Sorted(inFlight[p], p)
      /\ \A j \in Projects :
            /\ SortedBatch(tick.batch[j], p)
            /\ p \notin crossed \/ tick.todo # << >>
                  => NotAfter({paneRow[p].at}, BatchTimes(tick.batch[j], p))
  BY DEF PaneInOrder
<1>3. inFlight[p] \in Seq(Report) /\ reportQueue \in Seq(Report)
  BY TimesTyped
<1>4. r.pane = p
  BY <1>3, HeadTailProperties DEF TypeOK
<1>5. /\ r \in Report /\ rest \subseteq fl /\ r.at \in fl /\ Sorted(Tail(inFlight[p]), p)
      /\ NotAfter({r.at}, rest)
  BY <1>2, <1>3, <1>4, TailOf
<1>6. /\ Times(q2, p) = qu \cup {r.at}
      /\ NotAfter(qu, {r.at}) => Sorted(q2, p)
  BY <1>2, <1>3, <1>4, <1>5, AppendOwn
<1>. HIDE DEF kept, td, qu, fl, rest, r, q2
<1>7. /\ NotAfter(kept \cup td \cup qu, rest)
      /\ NotAfter(kept \cup td \cup qu \cup rest, {NextTime(actor[p])})
  BY <1>2, <1>5 DEF NotAfter
<1>8. NotAfter(qu, {r.at}) /\ NotAfter(kept \cup td, qu \cup {r.at})
  BY <1>2, <1>5 DEF NotAfter
<1>9. NotAfter(kept \cup td \cup (qu \cup {r.at}), rest)
  BY <1>5, <1>7 DEF NotAfter
<1>10. NotAfter(kept \cup td \cup (qu \cup {r.at}) \cup rest, {NextTime(actor[p])})
  BY <1>2, <1>5, <1>7 DEF NotAfter
<1>11. PaneInOrder(p, actor[p], Tail(inFlight[p]), reportQueue, tick.todo, tick.batch,
                   paneRow[p], crossed)
  BY <1>2, <1>5, <1>7 DEF PaneInOrder, kept, td, qu, rest
<1>12. PaneInOrder(p, actor[p], Tail(inFlight[p]), q2, tick.todo, tick.batch, paneRow[p], crossed)
  BY <1>2, <1>5, <1>6, <1>8, <1>9, <1>10 DEF PaneInOrder, kept, td, rest
<1>. QED
  BY <1>11, <1>12 DEF q2, r

\* The sink takes up a report.
LEMMA OnPaneReportKeeps ==
    ASSUME StateInv, NEW p \in Pane, NEW i \in 1..MaxInFlight, OnPaneReport(p, i)
    PROVE  StateInv'
<1>. DEFINE r == inFlight[p][i]
            f2 == RemoveAt(inFlight[p], i)
<1>1. TypeOK /\ TurnInStep
  BY DEF StateInv
<1>2. /\ i \in DOMAIN inFlight[p]
      /\ inFlight' = [inFlight EXCEPT ![p] = f2]
      /\ Enqueue(r)
      /\ overtaken' = IF i > 1 THEN overtaken \cup {p} ELSE overtaken
      /\ UNCHANGED <<now, actor, triggered, tick, projectCache, storeVars, seen, spent,
                     crossed, silent, unsent>>
  BY DEF OnPaneReport
<1>3. /\ inFlight \in [Pane -> Seq(Report)] /\ inFlight[p] \in Seq(Report)
      /\ i \in 1..Len(inFlight[p]) /\ Len(inFlight[p]) \in Nat
      /\ Len(inFlight[p]) <= MaxInFlight /\ \A k \in DOMAIN inFlight[p] : inFlight[p][k].pane = p
      /\ reportQueue \in Seq(Report)
  BY <1>1, <1>2 DEF TypeOK
<1>4. r \in Report /\ r.pane = p /\ r.at \in Times(inFlight[p], p)
  BY <1>2, <1>3 DEF Times, Of
<1>5. /\ f2 \in Seq(Report) /\ Len(f2) = Len(inFlight[p]) - 1
      /\ \A k \in DOMAIN f2 : \E m \in DOMAIN inFlight[p] : f2[k] = inFlight[p][m]
      /\ i = 1 => f2 = Tail(inFlight[p])
  BY <1>3, RemoveOne
<1>6. i = 1 => r = Head(inFlight[p])
  BY <1>3, HeadTailProperties
<1>. HIDE DEF r, f2
<1>7. Times(f2, p) \subseteq Times(inFlight[p], p)
  BY <1>3, <1>5 DEF Times, Of
<1>8. /\ UNCHANGED <<now, actor, triggered, tick, projectCache, row, bound, paneRow, seen, spent,
                     crossed, silent, unsent>>
      /\ inFlight'[p] = f2 /\ \A q \in Pane \ {p} : inFlight'[q] = inFlight[q]
  BY <1>2, <1>3 DEF storeVars
<1>9. \/ /\ UNCHANGED <<appended, paneLatest, reportQueue, lost>>
      \/ /\ paneLatest' = [paneLatest EXCEPT ![p] = r]
         /\ reportQueue' = Append(reportQueue, r)
         /\ appended' = appended \cup {p} /\ lost' = lost \ {p}
  BY <1>2, <1>4 DEF Enqueue
<1>10. TypeOK'
  <2>1. inFlight' \in [Pane -> Seq(Report)]
    BY <1>2, <1>3, <1>5
  <2>2. \A q \in Pane : /\ Len(inFlight'[q]) <= MaxInFlight
                        /\ \A k \in DOMAIN inFlight'[q] : inFlight'[q][k].pane = q
    <3>1. Len(f2) <= MaxInFlight /\ \A k \in DOMAIN f2 : f2[k].pane = p
      BY <1>3, <1>5, Constants
    <3>2. ASSUME NEW q \in Pane \ {p}
          PROVE  /\ Len(inFlight'[q]) <= MaxInFlight
                 /\ \A k \in DOMAIN inFlight'[q] : inFlight'[q][k].pane = q
      BY <1>1, <1>8 DEF TypeOK
    <3>. QED
      BY <1>8, <3>1, <3>2
  <2>3. /\ \A q \in Pane : paneLatest'[q] \in Report \cup {NoReport(q)}
        /\ paneLatest' \in [Pane -> Report \cup {NoReport(q) : q \in Pane}]
        /\ reportQueue' \in Seq(Report) /\ appended' \subseteq Pane /\ lost' \subseteq Pane
    <3>1. CASE UNCHANGED <<appended, paneLatest, reportQueue, lost>>
      BY <1>1, <3>1 DEF TypeOK
    <3>2. CASE /\ paneLatest' = [paneLatest EXCEPT ![p] = r]
               /\ reportQueue' = Append(reportQueue, r)
               /\ appended' = appended \cup {p} /\ lost' = lost \ {p}
      <4>1. reportQueue' \in Seq(Report)
        BY <1>3, <1>4, <3>2, AppendProperties
      <4>2. appended \subseteq Pane /\ lost \subseteq Pane
            /\ \A q \in Pane : paneLatest[q] \in Report \cup {NoReport(q)}
        BY <1>1 DEF TypeOK
      <4>4. paneLatest' \in [Pane -> Report \cup {NoReport(q) : q \in Pane}]
        <5>1. paneLatest \in [Pane -> Report \cup {NoReport(u) : u \in Pane}]
          BY <1>1 DEF TypeOK
        <5>. QED
          BY <1>4, <3>2, <5>1
      <4>3. ASSUME NEW q \in Pane PROVE paneLatest'[q] \in Report \cup {NoReport(q)}
        <5>1. paneLatest \in [Pane -> Report \cup {NoReport(u) : u \in Pane}]
          BY <1>1 DEF TypeOK
        <5>2. paneLatest'[q] = IF q = p THEN r ELSE paneLatest[q]
          BY <3>2, <5>1
        <5>. QED
          BY <1>4, <4>2, <5>2
      <4>. QED
        BY <3>2, <4>1, <4>2, <4>3, <4>4
    <3>. QED
      BY <1>9, <3>1, <3>2
  <2>4. overtaken' \subseteq Pane
    BY <1>1, <1>2 DEF TypeOK
  <2>. QED
    BY <1>1, <1>8, <2>1, <2>2, <2>3, <2>4 DEF TypeOK
<1>11. TurnInStep' /\ TreeComing' /\ \A t \in Task : row'[t].mod <= now'
  BY <1>1, <1>8, TreeStays, InvBefore DEF TurnInStep
<1>12. ASSUME NEW q \in Pane \ {p}
       PROVE  /\ PaneKnown(q, paneLatest'[q], reportQueue', tick'.todo, tick'.batch,
                           paneRow'[q], crossed', lost')
              /\ PanePassed(q, actor'[q], inFlight'[q], reportQueue', tick'.todo, tick'.batch,
                            paneRow'[q], now')
              /\ \/ q \in overtaken' \/ actor'[q].seeded = 0
                 \/ PaneInOrder(q, actor'[q], inFlight'[q], reportQueue', tick'.todo,
                                tick'.batch, paneRow'[q], crossed')
  <2>1. /\ Of(reportQueue', q) = Of(reportQueue, q)
        /\ Of(reportQueue, q) # {} => LastReport(reportQueue', q) = LastReport(reportQueue, q)
        /\ Times(reportQueue', q) = Times(reportQueue, q)
        /\ Sorted(reportQueue, q) => Sorted(reportQueue', q)
    <3>1. CASE reportQueue' = reportQueue
      BY <3>1
    <3>2. CASE reportQueue' = Append(reportQueue, r)
      BY <1>3, <1>4, <3>2, AppendOther
    <3>. QED
      BY <1>9, <3>1, <3>2
  <2>2. paneLatest'[q] = paneLatest[q] /\ (q \in lost' <=> q \in lost)
        /\ (q \in overtaken' <=> q \in overtaken)
    <3>1. paneLatest'[q] = paneLatest[q]
      <4>1. paneLatest \in [Pane -> Report \cup {NoReport(u) : u \in Pane}]
        BY <1>1 DEF TypeOK
      <4>. QED
        BY <1>9, <4>1
    <3>2. (q \in lost' <=> q \in lost) /\ (q \in overtaken' <=> q \in overtaken)
      BY <1>2, <1>9
    <3>. QED
      BY <3>1, <3>2
  <2>3. /\ PaneKnown(q, paneLatest[q], reportQueue, tick.todo, tick.batch, paneRow[q],
                     crossed, lost)
        /\ PanePassed(q, actor[q], inFlight[q], reportQueue, tick.todo, tick.batch, paneRow[q],
                      now)
        /\ q \in overtaken \/ actor[q].seeded = 0
           \/ PaneInOrder(q, actor[q], inFlight[q], reportQueue, tick.todo, tick.batch,
                          paneRow[q], crossed)
    BY InvBefore
  <2>4. PaneKnown(q, paneLatest'[q], reportQueue', tick'.todo, tick'.batch, paneRow'[q],
                  crossed', lost')
    BY <1>8, <2>1, <2>2, <2>3 DEF PaneKnown
  <2>5. PanePassed(q, actor'[q], inFlight'[q], reportQueue', tick'.todo, tick'.batch,
                   paneRow'[q], now')
    BY <1>8, <2>1, <2>3 DEF PanePassed
  <2>6. ASSUME PaneInOrder(q, actor[q], inFlight[q], reportQueue, tick.todo, tick.batch,
                           paneRow[q], crossed)
        PROVE  PaneInOrder(q, actor'[q], inFlight'[q], reportQueue', tick'.todo, tick'.batch,
                           paneRow'[q], crossed')
    BY <1>8, <2>1, <2>6 DEF PaneInOrder
  <2>. QED
    BY <1>8, <2>2, <2>3, <2>4, <2>5, <2>6
<1>13. PaneKnown(p, paneLatest'[p], reportQueue', tick'.todo, tick'.batch, paneRow'[p],
                 crossed', lost')
  <2>1. PaneKnown(p, paneLatest[p], reportQueue, tick.todo, tick.batch, paneRow[p], crossed, lost)
    BY InvBefore
  <2>2. CASE UNCHANGED <<appended, paneLatest, reportQueue, lost>>
    BY <1>8, <2>1, <2>2
  <2>3. CASE /\ paneLatest' = [paneLatest EXCEPT ![p] = r]
             /\ reportQueue' = Append(reportQueue, r)
             /\ appended' = appended \cup {p} /\ lost' = lost \ {p}
    <3>1. Of(reportQueue', p) # {} /\ LastReport(reportQueue', p) = r
      BY <1>3, <1>4, <2>3, AppendOwn
    <3>2. paneLatest'[p] = r
      <4>1. paneLatest \in [Pane -> Report \cup {NoReport(q) : q \in Pane}]
        BY <1>1 DEF TypeOK
      <4>. QED
        BY <2>3, <4>1
    <3>. QED
      BY <1>8, <2>1, <3>1, <3>2 DEF PaneKnown
  <2>. QED
    BY <1>9, <2>2, <2>3
<1>14. PanePassed(p, actor'[p], inFlight'[p], reportQueue', tick'.todo, tick'.batch,
                  paneRow'[p], now')
  <2>1. PanePassed(p, actor[p], inFlight[p], reportQueue, tick.todo, tick.batch, paneRow[p], now)
    BY InvBefore
  <2>2. Times(reportQueue', p) \subseteq Times(reportQueue, p) \cup Times(inFlight[p], p)
    <3>1. CASE reportQueue' = reportQueue
      BY <3>1
    <3>2. CASE reportQueue' = Append(reportQueue, r)
      <4>1. Times(Append(reportQueue, r), p) = Times(reportQueue, p) \cup {r.at}
        BY <1>3, <1>4, AppendOwn
      <4>. QED
        BY <1>4, <3>2, <4>1
    <3>. QED
      BY <1>9, <3>1, <3>2
  <2>. DEFINE kept == {paneRow[p].at} \cup (UNION {BatchTimes(tick.batch[j], p) : j \in Projects})
                        \cup Times(tick.todo, p)
  <2>3. NotAfter(kept \cup Times(reportQueue, p) \cup Times(inFlight[p], p), {now})
    BY <2>1 DEF PanePassed
  <2>4. NotAfter(kept \cup Times(reportQueue', p) \cup Times(f2, p), {now})
    <3>. HIDE DEF kept
    <3>. QED
      BY <1>7, <2>2, <2>3 DEF NotAfter
  <2>. QED
    BY <1>8, <2>1, <2>4 DEF PanePassed
<1>15. \/ p \in overtaken' \/ actor'[p].seeded = 0
       \/ PaneInOrder(p, actor'[p], inFlight'[p], reportQueue', tick'.todo, tick'.batch,
                      paneRow'[p], crossed')
  <2>1. CASE i > 1
    BY <1>2, <2>1
  <2>2. CASE ~(i > 1)
    <3>1. i = 1 /\ overtaken' = overtaken /\ inFlight[p] # << >>
      BY <1>2, <1>3, <2>2
    <3>2. ASSUME PaneInOrder(p, actor[p], inFlight[p], reportQueue, tick.todo, tick.batch,
                             paneRow[p], crossed)
          PROVE  PaneInOrder(p, actor[p], f2, reportQueue', tick.todo, tick.batch, paneRow[p],
                             crossed)
      BY <1>1, <1>5, <1>6, <1>9, <3>1, <3>2, OneLessInFlight
    <3>. QED
      BY <1>8, <3>1, <3>2, InvBefore
  <2>. QED
    BY <2>1, <2>2
<1>. QED
  BY <1>10, <1>11, <1>12, <1>13, <1>14, <1>15, InvAfter

\* The panes, when the turn takes the queue or drops it.
LEMMA QueueTaken ==
    ASSUME StateInv, tick.pc = "projects", NEW p \in Pane, NEW todo, NEW gone,
           \/ todo = reportQueue /\ gone = lost
           \/ todo = << >> /\ gone = lost \cup PanesOf(reportQueue)
    PROVE  /\ PaneKnown(p, paneLatest[p], << >>, todo, tick.batch, paneRow[p], crossed, gone)
           /\ PanePassed(p, actor[p], inFlight[p], << >>, todo, tick.batch, paneRow[p], now)
           /\ \/ p \in overtaken \/ actor[p].seeded = 0
              \/ PaneInOrder(p, actor[p], inFlight[p], << >>, todo, tick.batch, paneRow[p],
                             crossed)
<1>1. TypeOK /\ TurnInStep
  BY DEF StateInv
<1>2. /\ PaneKnown(p, paneLatest[p], reportQueue, tick.todo, tick.batch, paneRow[p], crossed, lost)
      /\ PanePassed(p, actor[p], inFlight[p], reportQueue, tick.todo, tick.batch, paneRow[p], now)
      /\ p \in overtaken \/ actor[p].seeded = 0
         \/ PaneInOrder(p, actor[p], inFlight[p], reportQueue, tick.todo, tick.batch, paneRow[p],
                        crossed)
  BY InvBefore
<1>3. tick.todo = << >> /\ \A j \in Projects : tick.batch[j] = << >>
  BY <1>1 DEF TurnInStep
<1>4. /\ Of(<< >>, p) = {} /\ Times(<< >>, p) = {} /\ Sorted(<< >>, p)
      /\ \A j \in Projects : OfPane(tick.batch[j], p) = {} /\ BatchTimes(tick.batch[j], p) = {}
  BY <1>3, NoReports, EmptyBatch
<1>5. PaneKnown(p, paneLatest[p], << >>, todo, tick.batch, paneRow[p], crossed, gone)
  <2>1. CASE todo = reportQueue /\ gone = lost
    BY <1>2, <1>3, <1>4, <2>1 DEF PaneKnown
  <2>2. CASE todo = << >> /\ gone = lost \cup PanesOf(reportQueue)
    <3>1. Of(reportQueue, p) # {} => p \in gone
      <4>1. ASSUME NEW k \in Of(reportQueue, p) PROVE p \in PanesOf(reportQueue)
        <5>1. reportQueue[k] \in Range(reportQueue) /\ reportQueue[k].pane = p
          BY DEF Of, Range
        <5>. QED
          BY <5>1 DEF PanesOf
      <4>. QED
        BY <2>2, <4>1
    <3>. QED
      BY <1>2, <1>3, <1>4, <2>2, <3>1 DEF PaneKnown
  <2>. QED
    BY <2>1, <2>2
<1>6. Times(todo, p) \subseteq Times(reportQueue, p)
  BY <1>4
<1>. DEFINE kept == {paneRow[p].at} \cup (UNION {BatchTimes(tick.batch[j], p) : j \in Projects})
            qu == Times(reportQueue, p)
            td == Times(todo, p)
            fl == Times(inFlight[p], p)
<1>7. PanePassed(p, actor[p], inFlight[p], << >>, todo, tick.batch, paneRow[p], now)
  <2>1. NotAfter(kept \cup Times(tick.todo, p) \cup qu \cup fl, {now})
    BY <1>2 DEF PanePassed
  <2>2. NotAfter(kept \cup td \cup Times(<< >>, p) \cup fl, {now})
    <3>. HIDE DEF kept, qu, td, fl
    <3>1. td \subseteq qu
      BY <1>6 DEF td, qu
    <3>. QED
      BY <1>4, <2>1, <3>1 DEF NotAfter
  <2>. QED
    BY <1>2, <2>2 DEF PanePassed
<1>8. ASSUME PaneInOrder(p, actor[p], inFlight[p], reportQueue, tick.todo, tick.batch,
                         paneRow[p], crossed)
      PROVE  PaneInOrder(p, actor[p], inFlight[p], << >>, todo, tick.batch, paneRow[p], crossed)
  <2>1. /\ NotAfter(kept \cup Times(tick.todo, p), qu)
        /\ NotAfter(kept \cup Times(tick.todo, p) \cup qu, fl)
        /\ NotAfter(kept \cup Times(tick.todo, p) \cup qu \cup fl, {NextTime(actor[p])})
        /\ Sorted(tick.todo, p) /\ Sorted(reportQueue, p) /\ Sorted(inFlight[p], p)
        /\ \A j \in Projects : SortedBatch(tick.batch[j], p)
    BY <1>8 DEF PaneInOrder
  <2>2. Sorted(todo, p)
    BY <1>4, <2>1
  <2>3. /\ NotAfter(kept, td) /\ NotAfter(kept \cup td, Times(<< >>, p))
        /\ NotAfter(kept \cup td \cup Times(<< >>, p), fl)
        /\ NotAfter(kept \cup td \cup Times(<< >>, p) \cup fl, {NextTime(actor[p])})
    <3>1. td \subseteq qu
      BY <1>6
    <3>. HIDE DEF kept, qu, td, fl
    <3>. QED
      BY <1>4, <2>1, <3>1 DEF NotAfter
  <2>4. \A j \in Projects : NotAfter({paneRow[p].at}, BatchTimes(tick.batch[j], p))
    BY <1>4 DEF NotAfter
  <2>. QED
    BY <1>4, <2>1, <2>2, <2>3, <2>4 DEF PaneInOrder
<1>. QED
  BY <1>2, <1>5, <1>7, <1>8

\* The turn asks for the projects and takes the queue.
LEMMA LoadProjectsKeeps ==
    ASSUME StateInv, LoadProjects
    PROVE  StateInv'
<1>1. TypeOK /\ TurnInStep
  BY DEF StateInv
<1>2. /\ tick.pc = "projects"
      /\ \/ TakeReports(Project) /\ Unspent
         \/ TakeReports(<< >>) /\ Fault
      /\ UNCHANGED <<now, paneVars, paneLatest, triggered, projectCache, storeVars, seen,
                     crossed, overtaken, silent, unsent>>
  BY DEF LoadProjects
<1>3. /\ tick.todo = << >> /\ tick.projects = << >> /\ tick.delta = NoDelta
      /\ \A j \in Projects : tick.batch[j] = << >>
  BY <1>1, <1>2 DEF TurnInStep
<1>4. UNCHANGED <<now, actor, inFlight, appended, paneLatest, triggered, projectCache, row, bound,
                  paneRow, seen, crossed, overtaken, silent, unsent>>
  BY <1>2 DEF paneVars, storeVars
<1>5. spent' \in [reports : 0..MaxReports, edits : 0..MaxEdits, faults : 0..MaxFaults]
  BY <1>1, <1>2, Spending DEF Unspent
<1>6. /\ reportQueue' = << >> /\ tick' \in Turn /\ TurnInStep'
      /\ tick'.batch = tick.batch /\ tick'.delta = tick.delta /\ lost' \subseteq Pane
      /\ \/ tick'.todo = reportQueue /\ lost' = lost
         \/ tick'.todo = << >> /\ lost' = lost \cup PanesOf(reportQueue)
  <2>1. CASE TakeReports(Project)
    <3>1. /\ reportQueue' = << >> /\ lost' = lost
          /\ tick' = [tick EXCEPT !.pc = "match", !.projects = Project, !.todo = reportQueue]
      BY <2>1, Constants DEF TakeReports
    <3>2. reportQueue \in Seq(Report) /\ lost \subseteq Pane
      BY <1>1 DEF TypeOK
    <3>. QED
      BY <1>1, <3>1, <3>2, TurnIs, Constants DEF Turn, TurnInStep
  <2>2. CASE TakeReports(<< >>)
    <3>1. /\ reportQueue' = << >> /\ tick' = Idle /\ lost' = lost \cup PanesOf(reportQueue)
      BY <2>2 DEF TakeReports
    <3>2. lost' \subseteq Pane
      <4>1. lost \subseteq Pane /\ reportQueue \in Seq(Report)
        BY <1>1 DEF TypeOK
      <4>2. \A r \in Range(reportQueue) : r \in Report
        BY <4>1 DEF Range
      <4>. QED
        BY <3>1, <4>1, <4>2 DEF PanesOf, Report
    <3>3. Idle.batch = tick.batch
      BY <1>1, <1>3, IdleIs, TurnIs
    <3>. QED
      BY <1>3, <3>1, <3>2, <3>3, IdleIs DEF TurnInStep
  <2>. QED
    BY <1>2, <2>1, <2>2
<1>7. TypeOK'
  BY <1>1, <1>4, <1>5, <1>6 DEF TypeOK
<1>8. TreeComing' /\ \A t \in Task : row'[t].mod <= now'
  BY <1>4, <1>6, TreeStays, InvBefore
<1>9. \A p \in Pane :
         /\ PaneKnown(p, paneLatest'[p], reportQueue', tick'.todo, tick'.batch, paneRow'[p],
                      crossed', lost')
         /\ PanePassed(p, actor'[p], inFlight'[p], reportQueue', tick'.todo, tick'.batch,
                       paneRow'[p], now')
         /\ \/ p \in overtaken' \/ actor'[p].seeded = 0
            \/ PaneInOrder(p, actor'[p], inFlight'[p], reportQueue', tick'.todo, tick'.batch,
                           paneRow'[p], crossed')
  BY <1>2, <1>4, <1>6, QueueTaken
<1>. QED
  BY <1>6, <1>7, <1>8, <1>9, InvAfter

--------------------------------------------------------------------------------
(* The turn matches a report with a repository.                                 *)

\* A report is in the list of its pane.
LEMMA PanesOfIs ==
    ASSUME NEW s \in Seq(Report), NEW p
    PROVE  p \in PanesOf(s) <=> Of(s, p) # {}
<1>1. ASSUME p \in PanesOf(s) PROVE Of(s, p) # {}
  <2>1. PICK r \in Range(s) : r.pane = p
    BY <1>1 DEF PanesOf
  <2>2. PICK k \in DOMAIN s : r = s[k]
    BY <2>1 DEF Range
  <2>3. k \in Of(s, p)
    BY <2>1, <2>2 DEF Of
  <2>. QED
    BY <2>3
<1>2. ASSUME Of(s, p) # {} PROVE p \in PanesOf(s)
  <2>1. PICK k \in DOMAIN s : s[k].pane = p
    BY <1>2 DEF Of
  <2>2. s[k] \in Range(s)
    BY <2>1 DEF Range
  <2>. QED
    BY <2>1, <2>2 DEF PanesOf
<1>. QED
  BY <1>1, <1>2

\* Pane p, when the first report of the turn goes to batch of repository j.
LEMMA OneMatched ==
    ASSUME StateInv, tick.todo # << >>, NEW p \in Pane, NEW j \in Projects, NEW e \in Entry,
           e.report = Head(tick.todo), NEW cross, NEW batch,
           batch[j] = Append(tick.batch[j], e),
           \A k \in Projects \ {j} : batch[k] = tick.batch[k],
           p # e.report.pane => (p \in cross <=> p \in crossed),
           p = e.report.pane =>
               (p \in cross <=> \E k \in Projects \ {j} : OfPane(tick.batch[k], p) # {})
    PROVE  /\ PaneKnown(p, paneLatest[p], reportQueue, Tail(tick.todo), batch, paneRow[p], cross,
                        lost)
           /\ PanePassed(p, actor[p], inFlight[p], reportQueue, Tail(tick.todo), batch,
                         paneRow[p], now)
           /\ \/ p \in overtaken \/ actor[p].seeded = 0
              \/ PaneInOrder(p, actor[p], inFlight[p], reportQueue, Tail(tick.todo), batch,
                             paneRow[p], cross)
<1>. DEFINE todo == tick.todo
            r == e.report
            rest == Tail(todo)
<1>1. TypeOK /\ TurnInStep
  BY DEF StateInv
<1>2. /\ PaneKnown(p, paneLatest[p], reportQueue, todo, tick.batch, paneRow[p], crossed, lost)
      /\ PanePassed(p, actor[p], inFlight[p], reportQueue, todo, tick.batch, paneRow[p], now)
      /\ p \in overtaken \/ actor[p].seeded = 0
         \/ PaneInOrder(p, actor[p], inFlight[p], reportQueue, todo, tick.batch, paneRow[p],
                        crossed)
  BY InvBefore
<1>3. /\ todo \in Seq(Report) /\ tick.batch \in [Projects -> Seq(Entry)]
      /\ tick.batch[j] \in Seq(Entry)
  BY <1>1, TurnIs
<1>4. /\ Of(rest, p) # {} => Of(todo, p) # {} /\ LastReport(rest, p) = LastReport(todo, p)
      /\ Of(rest, p) = {} /\ Of(todo, p) # {} => r.pane = p /\ LastReport(todo, p) = r
      /\ r.pane = p => Of(todo, p) # {} /\ r.at \in Times(todo, p)
      /\ Times(rest, p) \subseteq Times(todo, p)
      /\ Sorted(todo, p) => Sorted(rest, p)
      /\ Sorted(todo, p) /\ r.pane = p => NotAfter({r.at}, Times(rest, p))
  <2>1. todo # << >> /\ r = Head(todo)
    OBVIOUS
  <2>. HIDE DEF todo, r
  <2>. QED
    BY <1>3, <2>1, TailOf
<1>5. ASSUME r.pane # p
      PROVE  /\ OfPane(batch[j], p) = OfPane(tick.batch[j], p)
             /\ OfPane(tick.batch[j], p) # {}
                  => LastAmong(batch[j], OfPane(batch[j], p))
                       = LastAmong(tick.batch[j], OfPane(tick.batch[j], p))
             /\ BatchTimes(batch[j], p) = BatchTimes(tick.batch[j], p)
             /\ SortedBatch(tick.batch[j], p) => SortedBatch(batch[j], p)
  BY <1>3, <1>5, BatchOther
<1>6. ASSUME r.pane = p
      PROVE  /\ OfPane(batch[j], p) # {}
             /\ LastAmong(batch[j], OfPane(batch[j], p)) = r
             /\ BatchTimes(batch[j], p) = BatchTimes(tick.batch[j], p) \cup {r.at}
             /\ SortedBatch(tick.batch[j], p) /\ NotAfter(BatchTimes(tick.batch[j], p), {r.at})
                  => SortedBatch(batch[j], p)
  BY <1>3, <1>6, BatchOwn
<1>. HIDE DEF todo, r, rest
<1>7. PaneKnown(p, paneLatest[p], reportQueue, rest, batch, paneRow[p], cross, lost)
  <2>1. CASE r.pane = p
    <3>1. p \in cross \/ \A k \in Projects \ {j} : OfPane(batch[k], p) = {}
      BY <2>1 DEF r
    <3>2. p \in cross \/ \A k, l \in Projects :
                            OfPane(batch[k], p) # {} /\ OfPane(batch[l], p) # {} => k = l
      BY <3>1
    <3>3. Of(reportQueue, p) = {} /\ Of(rest, p) = {} => r = paneLatest[p]
      BY <1>2, <1>4, <2>1 DEF PaneKnown
    <3>4. \/ p \in cross \/ Of(reportQueue, p) # {} \/ Of(rest, p) # {}
          \/ /\ \A k \in Projects : OfPane(batch[k], p) # {}
                   => LastAmong(batch[k], OfPane(batch[k], p)) = paneLatest[p]
             /\ (\A k \in Projects : OfPane(batch[k], p) = {}) => paneRow[p] = paneLatest[p]
      BY <1>6, <2>1, <3>1, <3>3
    <3>. QED
      BY <1>2, <1>4, <3>2, <3>4 DEF PaneKnown
  <2>2. CASE r.pane # p
    <3>1. p \in cross <=> p \in crossed
      BY <2>2 DEF r
    <3>2. \A k \in Projects : OfPane(batch[k], p) = OfPane(tick.batch[k], p)
                              /\ (OfPane(batch[k], p) # {}
                                    => LastAmong(batch[k], OfPane(batch[k], p))
                                         = LastAmong(tick.batch[k], OfPane(tick.batch[k], p)))
      BY <1>5, <2>2
    <3>3. Of(rest, p) # {} <=> Of(todo, p) # {}
      BY <1>4, <2>2
    <3>. QED
      BY <1>2, <1>4, <3>1, <3>2, <3>3 DEF PaneKnown
  <2>. QED
    BY <2>1, <2>2
<1>. DEFINE kept == {paneRow[p].at} \cup (UNION {BatchTimes(tick.batch[k], p) : k \in Projects})
            ke2 == {paneRow[p].at} \cup (UNION {BatchTimes(batch[k], p) : k \in Projects})
            td == Times(todo, p)
            t2 == Times(rest, p)
            qu == Times(reportQueue, p)
            fl == Times(inFlight[p], p)
<1>8. \A k \in Projects : BatchTimes(batch[k], p) = BatchTimes(tick.batch[k], p)
                          \/ /\ k = j /\ r.pane = p
                             /\ BatchTimes(batch[k], p) = BatchTimes(tick.batch[k], p) \cup {r.at}
  <2>1. ASSUME NEW k \in Projects, k # j
        PROVE  BatchTimes(batch[k], p) = BatchTimes(tick.batch[k], p)
    BY <2>1
  <2>. QED
    BY <1>5, <1>6, <2>1
<1>9. \A n \in ke2 : n \in kept \/ (n = r.at /\ r.pane = p)
  <2>1. ASSUME NEW k \in Projects, NEW n \in BatchTimes(batch[k], p)
        PROVE  n \in kept \/ (n = r.at /\ r.pane = p)
    BY <1>8
  <2>2. paneRow[p].at \in kept
    OBVIOUS
  <2>3. ke2 = {paneRow[p].at} \cup (UNION {BatchTimes(batch[k], p) : k \in Projects})
    OBVIOUS
  <2>. HIDE DEF kept
  <2>. QED
    BY <2>1, <2>2, <2>3
<1>10. \A k \in Projects : BatchTimes(tick.batch[k], p) \subseteq kept
  OBVIOUS
<1>11. t2 \subseteq td /\ (r.pane = p => r.at \in td)
  BY <1>4
<1>12. PanePassed(p, actor[p], inFlight[p], reportQueue, rest, batch, paneRow[p], now)
  <2>1. NotAfter(kept \cup td \cup qu \cup fl, {now})
    BY <1>2 DEF PanePassed
  <2>2. NotAfter(ke2 \cup t2 \cup qu \cup fl, {now})
    <3>. HIDE DEF kept, ke2, td, t2, qu, fl
    <3>1. ke2 \cup t2 \cup qu \cup fl \subseteq kept \cup td \cup qu \cup fl
      BY <1>9, <1>11
    <3>. QED
      BY <2>1, <3>1 DEF NotAfter
  <2>. QED
    BY <1>2, <2>2 DEF PanePassed
<1>13. ASSUME PaneInOrder(p, actor[p], inFlight[p], reportQueue, todo, tick.batch, paneRow[p],
                          crossed)
       PROVE  PaneInOrder(p, actor[p], inFlight[p], reportQueue, rest, batch, paneRow[p], cross)
  <2>1. /\ NotAfter(kept, td) /\ NotAfter(kept \cup td, qu)
        /\ NotAfter(kept \cup td \cup qu, fl)
        /\ NotAfter(kept \cup td \cup qu \cup fl, {NextTime(actor[p])})
        /\ Sorted(todo, p) /\ Sorted(reportQueue, p) /\ Sorted(inFlight[p], p)
        /\ \A k \in Projects : SortedBatch(tick.batch[k], p)
    BY <1>13 DEF PaneInOrder
  <2>2. \A k \in Projects : NotAfter({paneRow[p].at}, BatchTimes(tick.batch[k], p))
    BY <1>13 DEF PaneInOrder, todo
  <2>3. Sorted(rest, p) /\ (r.pane = p => NotAfter({r.at}, t2))
    BY <1>4, <2>1
  <2>4. ASSUME NEW k \in Projects
        PROVE  /\ SortedBatch(batch[k], p)
               /\ NotAfter({paneRow[p].at}, BatchTimes(batch[k], p))
    <3>1. CASE k = j /\ r.pane = p
      <4>1. NotAfter(BatchTimes(tick.batch[j], p), {r.at})
        <5>. HIDE DEF kept, td
        <5>. QED
          BY <1>10, <1>11, <2>1, <3>1 DEF NotAfter
      <4>2. SortedBatch(batch[k], p)
        BY <1>6, <2>1, <3>1, <4>1
      <4>3. NotAfter({paneRow[p].at}, {r.at})
        <5>1. paneRow[p].at \in kept
          OBVIOUS
        <5>. HIDE DEF kept, td
        <5>. QED
          BY <1>11, <2>1, <3>1, <5>1 DEF NotAfter
      <4>4. NotAfter({paneRow[p].at}, BatchTimes(batch[k], p))
        BY <1>6, <2>2, <3>1, <4>3 DEF NotAfter
      <4>. QED
        BY <4>2, <4>4
    <3>2. CASE k # j
      BY <2>1, <2>2, <3>2
    <3>3. CASE r.pane # p /\ k = j
      BY <1>5, <2>1, <2>2, <3>3
    <3>. QED
      BY <3>1, <3>2, <3>3
  <2>5. /\ NotAfter(ke2, t2) /\ NotAfter(ke2 \cup t2, qu)
        /\ NotAfter(ke2 \cup t2 \cup qu, fl)
        /\ NotAfter(ke2 \cup t2 \cup qu \cup fl, {NextTime(actor[p])})
    <3>. HIDE DEF kept, ke2, td, t2, qu, fl
    <3>1. ke2 \cup t2 \subseteq kept \cup td
      BY <1>9, <1>11
    <3>2. NotAfter(ke2, t2)
      BY <1>9, <1>11, <2>1, <2>3 DEF NotAfter
    <3>. QED
      BY <2>1, <3>1, <3>2 DEF NotAfter
  <2>. QED
    BY <2>1, <2>3, <2>4, <2>5 DEF PaneInOrder
<1>. QED
  BY <1>2, <1>7, <1>12, <1>13 DEF todo, rest

\* The turn matches a report.
LEMMA MatchReportKeeps ==
    ASSUME StateInv, MatchReport
    PROVE  StateInv'
<1>. DEFINE r == Head(tick.todo)
<1>1. TypeOK /\ TurnInStep
  BY DEF StateInv
<1>2. PICK readable \in SUBSET Projects :
         \E n \in Matched(r, readable) : AddToBatch(r, n) /\ (Unspent \/ Fault)
  <2>1. \/ \E m \in Matched(r, Projects) : AddToBatch(r, m) /\ Unspent
        \/ \E j \in Projects : \E m \in Matched(r, Projects \ {j}) : AddToBatch(r, m) /\ Fault
    BY DEF MatchReport
  <2>. HIDE DEF r
  <2>2. Projects \in SUBSET Projects /\ \A j \in Projects : Projects \ {j} \in SUBSET Projects
    OBVIOUS
  <2>3. ASSUME NEW j \in Projects, NEW m \in Matched(r, Projects \ {j}), AddToBatch(r, m), Fault
        PROVE  \E readable \in SUBSET Projects : \E n \in Matched(r, readable) :
                  AddToBatch(r, n) /\ (Unspent \/ Fault)
    BY <2>2, <2>3, Zenon
  <2>4. ASSUME NEW m \in Matched(r, Projects), AddToBatch(r, m), Unspent
        PROVE  \E readable \in SUBSET Projects : \E n \in Matched(r, readable) :
                  AddToBatch(r, n) /\ (Unspent \/ Fault)
    BY <2>2, <2>4, Zenon
  <2>. QED
    BY <2>1, <2>3, <2>4, Zenon
<1>22. PICK m \in Matched(r, readable) : AddToBatch(r, m) /\ (Unspent \/ Fault)
  BY <1>2
<1>3. /\ tick.pc = "match" /\ tick.todo # << >>
      /\ UNCHANGED <<now, paneVars, queueVars, projectCache, storeVars, seen, lost, overtaken,
                     silent, unsent>>
  BY DEF MatchReport
<1>4. UNCHANGED <<now, actor, inFlight, appended, paneLatest, reportQueue, triggered,
                  projectCache, row, bound, paneRow, seen, lost, overtaken, silent, unsent>>
  BY <1>3 DEF paneVars, queueVars, storeVars
<1>5. m.repo \in Projects /\ m.task \in Task \cup {None}
  <2>1. \/ m = [repo |-> Project[1], task |-> None]
        \/ \E t \in Task : m = [repo |-> Home[t], task |-> t]
    BY DEF Matched, Owners
  <2>. QED
    BY <2>1, Constants
<1>6. tick.todo \in Seq(Report) /\ tick.batch \in [Projects -> Seq(Entry)]
  BY <1>1, TurnIs
<1>7. r \in Report /\ Tail(tick.todo) \in Seq(Report)
  BY <1>3, <1>6, HeadTailProperties
<1>. DEFINE e == [report |-> r, task |-> m.task]
            batch == [tick.batch EXCEPT ![m.repo] = Append(@, e)]
<1>8. e \in Entry /\ e.report = Head(tick.todo)
  BY <1>5, <1>7 DEF Entry
<1>9. /\ batch \in [Projects -> Seq(Entry)] /\ batch[m.repo] = Append(tick.batch[m.repo], e)
      /\ \A k \in Projects \ {m.repo} : batch[k] = tick.batch[k]
  <2>1. Append(tick.batch[m.repo], e) \in Seq(Entry)
    BY <1>5, <1>6, <1>8, AppendProperties
  <2>. QED
    BY <1>5, <1>6, <2>1
<1>10. /\ tick' = [tick EXCEPT !.todo = Tail(tick.todo), !.batch = batch]
       /\ crossed' = IF \E j \in Projects \ {m.repo} : \E k \in DOMAIN tick.batch[j] :
                            tick.batch[j][k].report.pane = r.pane
                     THEN crossed \cup {r.pane} ELSE crossed \ {r.pane}
  BY <1>1, <1>22, TurnIs DEF AddToBatch, Turn
<1>11. /\ crossed' = IF \E j \in Projects \ {m.repo} : OfPane(tick.batch[j], r.pane) # {}
                     THEN crossed \cup {r.pane} ELSE crossed \ {r.pane}
  BY <1>10 DEF OfPane
<1>. HIDE DEF batch, e, r
<1>12. /\ tick' \in Turn /\ tick'.pc = "match" /\ tick'.todo = Tail(tick.todo)
       /\ tick'.batch = batch /\ tick'.delta = tick.delta /\ tick'.projects = tick.projects
  <2>1. tick \in Turn
    BY <1>1, TurnIs
  <2>. QED
    BY <1>3, <1>7, <1>9, <1>10, <2>1 DEF Turn
<1>13. spent' \in [reports : 0..MaxReports, edits : 0..MaxEdits, faults : 0..MaxFaults]
  BY <1>1, <1>22, Spending DEF Unspent
<1>14. crossed' \subseteq Pane
  BY <1>1, <1>7, <1>11 DEF TypeOK, Report
<1>15. TypeOK'
  BY <1>1, <1>4, <1>12, <1>13, <1>14 DEF TypeOK
<1>16. TurnInStep' /\ TreeComing' /\ \A t \in Task : row'[t].mod <= now'
  BY <1>4, <1>12, TreeStays, InvBefore DEF TurnInStep
<1>17. ASSUME NEW p \in Pane
       PROVE  /\ PaneKnown(p, paneLatest'[p], reportQueue', tick'.todo, tick'.batch, paneRow'[p],
                           crossed', lost')
              /\ PanePassed(p, actor'[p], inFlight'[p], reportQueue', tick'.todo, tick'.batch,
                            paneRow'[p], now')
              /\ \/ p \in overtaken' \/ actor'[p].seeded = 0
                 \/ PaneInOrder(p, actor'[p], inFlight'[p], reportQueue', tick'.todo,
                                tick'.batch, paneRow'[p], crossed')
  <2>1. /\ p # e.report.pane => (p \in crossed' <=> p \in crossed)
        /\ p = e.report.pane =>
              (p \in crossed' <=> \E k \in Projects \ {m.repo} : OfPane(tick.batch[k], p) # {})
    BY <1>8, <1>11 DEF r
  <2>2. /\ PaneKnown(p, paneLatest[p], reportQueue, Tail(tick.todo), batch, paneRow[p], crossed',
                     lost)
        /\ PanePassed(p, actor[p], inFlight[p], reportQueue, Tail(tick.todo), batch, paneRow[p],
                      now)
        /\ \/ p \in overtaken \/ actor[p].seeded = 0
           \/ PaneInOrder(p, actor[p], inFlight[p], reportQueue, Tail(tick.todo), batch,
                          paneRow[p], crossed')
    BY <1>3, <1>5, <1>8, <1>9, <2>1, OneMatched
  <2>. QED
    BY <1>4, <1>12, <2>2
<1>. QED
  BY <1>15, <1>16, <1>17, InvAfter

--------------------------------------------------------------------------------
(* The turn writes a batch.                                                     *)

\* The row a batch leaves of a pane.
LEMMA RowLeft ==
    ASSUME TypeOK, NEW p \in Pane, NEW b \in Seq(Entry)
    PROVE  /\ OfPane(b, p) = {} => PaneRowOf(b, p) = paneRow[p]
           /\ OfPane(b, p) # {} => /\ PaneRowOf(b, p) = LastAmong(b, OfPane(b, p))
                                   /\ PaneRowOf(b, p).at \in BatchTimes(b, p)
           /\ PaneRowOf(b, p) \in Report \cup {NoReport(p)}
<1>1. paneRow[p] \in Report \cup {NoReport(p)}
  BY DEF TypeOK
<1>. QED
  BY <1>1, LastAmongIs DEF PaneRowOf

\* Pane p, when the batch of j is gone: its row is left, or it has failed.
LEMMA OneStored ==
    ASSUME StateInv, tick.pc = "match", tick.todo = << >>, NEW p \in Pane, NEW j \in Projects,
           NEW batch, batch[j] = << >>, \A k \in Projects \ {j} : batch[k] = tick.batch[k],
           NEW stored, NEW gone,
           \/ stored = PaneRowOf(tick.batch[j], p) /\ gone = lost
           \/ /\ stored = paneRow[p] /\ lost \subseteq gone
              /\ OfPane(tick.batch[j], p) # {} /\ Of(reportQueue, p) = {} => p \in gone
    PROVE  /\ PaneKnown(p, paneLatest[p], reportQueue, tick.todo, batch, stored, crossed, gone)
           /\ PanePassed(p, actor[p], inFlight[p], reportQueue, tick.todo, batch, stored, now)
           /\ \/ p \in overtaken \/ actor[p].seeded = 0
              \/ PaneInOrder(p, actor[p], inFlight[p], reportQueue, tick.todo, batch, stored,
                             crossed)
<1>1. TypeOK
  BY DEF StateInv
<1>2. /\ PaneKnown(p, paneLatest[p], reportQueue, tick.todo, tick.batch, paneRow[p], crossed, lost)
      /\ PanePassed(p, actor[p], inFlight[p], reportQueue, tick.todo, tick.batch, paneRow[p], now)
      /\ p \in overtaken \/ actor[p].seeded = 0
         \/ PaneInOrder(p, actor[p], inFlight[p], reportQueue, tick.todo, tick.batch, paneRow[p],
                        crossed)
  BY InvBefore
<1>. DEFINE mine == tick.batch[j]
<1>3. mine \in Seq(Entry)
  BY <1>1, TurnIs
<1>4. /\ OfPane(batch[j], p) = {} /\ BatchTimes(batch[j], p) = {} /\ SortedBatch(batch[j], p)
      /\ Of(tick.todo, p) = {}
  BY EmptyBatch, NoReports
<1>5. /\ OfPane(mine, p) = {} => PaneRowOf(mine, p) = paneRow[p]
      /\ OfPane(mine, p) # {} => /\ PaneRowOf(mine, p) = LastAmong(mine, OfPane(mine, p))
                                 /\ PaneRowOf(mine, p).at \in BatchTimes(mine, p)
  BY <1>1, <1>3, RowLeft
<1>6. \A k \in Projects : \/ OfPane(batch[k], p) = {} /\ BatchTimes(batch[k], p) = {}
                          \/ k # j /\ batch[k] = tick.batch[k]
  BY <1>4
<1>7. p \in crossed \/ \A k, l \in Projects :
         OfPane(tick.batch[k], p) # {} /\ OfPane(tick.batch[l], p) # {} => k = l
  BY <1>2 DEF PaneKnown
<1>8. PaneKnown(p, paneLatest[p], reportQueue, tick.todo, batch, stored, crossed, gone)
  <2>1. CASE stored = PaneRowOf(mine, p) /\ gone = lost
    <3>1. CASE OfPane(mine, p) = {}
      <4>1. \A k \in Projects : /\ OfPane(batch[k], p) # {} => batch[k] = tick.batch[k]
                                /\ OfPane(batch[k], p) = {} => OfPane(tick.batch[k], p) = {}
        BY <1>6, <3>1
      <4>2. stored = paneRow[p]
        BY <1>5, <2>1, <3>1
      <4>. QED
        BY <1>2, <2>1, <4>1, <4>2 DEF PaneKnown
    <3>2. CASE OfPane(mine, p) # {}
      <4>1. p \in crossed \/ \A k \in Projects : OfPane(batch[k], p) = {}
        BY <1>6, <1>7, <3>2
      <4>2. stored = LastAmong(mine, OfPane(mine, p))
        BY <1>5, <2>1, <3>2
      <4>3. \/ paneLatest[p].shown = None \/ p \in gone \cup crossed
            \/ Of(reportQueue, p) # {} \/ stored = paneLatest[p]
        BY <1>2, <1>4, <2>1, <3>2, <4>2 DEF PaneKnown
      <4>. QED
        BY <1>2, <1>4, <4>1, <4>3 DEF PaneKnown
    <3>. QED
      BY <3>1, <3>2
  <2>2. CASE /\ stored = paneRow[p] /\ lost \subseteq gone
             /\ OfPane(mine, p) # {} /\ Of(reportQueue, p) = {} => p \in gone
    <3>1. CASE OfPane(mine, p) = {}
      <4>1. \A k \in Projects : /\ OfPane(batch[k], p) # {} => batch[k] = tick.batch[k]
                                /\ OfPane(batch[k], p) = {} => OfPane(tick.batch[k], p) = {}
        BY <1>6, <3>1
      <4>. QED
        BY <1>2, <2>2, <4>1 DEF PaneKnown
    <3>2. CASE OfPane(mine, p) # {}
      <4>1. p \in gone \/ Of(reportQueue, p) # {}
        BY <2>2, <3>2
      <4>2. p \in crossed \/ \A k, l \in Projects :
               OfPane(batch[k], p) # {} /\ OfPane(batch[l], p) # {} => k = l
        BY <1>6, <1>7
      <4>. QED
        BY <1>2, <1>4, <4>1, <4>2 DEF PaneKnown
    <3>. QED
      BY <3>1, <3>2
  <2>. QED
    BY <2>1, <2>2
<1>. DEFINE kept == {paneRow[p].at} \cup (UNION {BatchTimes(tick.batch[k], p) : k \in Projects})
            ke2 == {stored.at} \cup (UNION {BatchTimes(batch[k], p) : k \in Projects})
            td == Times(tick.todo, p)
            qu == Times(reportQueue, p)
            fl == Times(inFlight[p], p)
<1>9. ke2 \subseteq kept
  <2>1. stored.at \in kept
    <3>1. stored = paneRow[p] \/ stored.at \in BatchTimes(tick.batch[j], p)
      BY <1>5
    <3>2. BatchTimes(tick.batch[j], p) \subseteq kept
      OBVIOUS
    <3>. HIDE DEF mine
    <3>. QED
      BY <3>1, <3>2
  <2>2. \A k \in Projects : BatchTimes(batch[k], p) \subseteq kept
    BY <1>6
  <2>3. \A n \in ke2 : n = stored.at \/ \E k \in Projects : n \in BatchTimes(batch[k], p)
    OBVIOUS
  <2>. HIDE DEF kept, ke2
  <2>. QED
    BY <2>1, <2>2, <2>3
<1>10. PanePassed(p, actor[p], inFlight[p], reportQueue, tick.todo, batch, stored, now)
  <2>1. NotAfter(kept \cup td \cup qu \cup fl, {now})
    BY <1>2 DEF PanePassed
  <2>2. NotAfter(ke2 \cup td \cup qu \cup fl, {now})
    <3>. HIDE DEF kept, ke2, td, qu, fl
    <3>. QED
      BY <1>9, <2>1 DEF NotAfter
  <2>. QED
    BY <1>2, <2>2 DEF PanePassed
<1>11. ASSUME PaneInOrder(p, actor[p], inFlight[p], reportQueue, tick.todo, tick.batch,
                          paneRow[p], crossed)
       PROVE  PaneInOrder(p, actor[p], inFlight[p], reportQueue, tick.todo, batch, stored,
                          crossed)
  <2>1. /\ NotAfter(kept, td) /\ NotAfter(kept \cup td, qu)
        /\ NotAfter(kept \cup td \cup qu, fl)
        /\ NotAfter(kept \cup td \cup qu \cup fl, {NextTime(actor[p])})
        /\ Sorted(tick.todo, p) /\ Sorted(reportQueue, p) /\ Sorted(inFlight[p], p)
        /\ \A k \in Projects : SortedBatch(tick.batch[k], p)
        /\ p \notin crossed
              => \A k \in Projects : NotAfter({paneRow[p].at}, BatchTimes(tick.batch[k], p))
    BY <1>11 DEF PaneInOrder
  <2>2. /\ NotAfter(ke2, td) /\ NotAfter(ke2 \cup td, qu)
        /\ NotAfter(ke2 \cup td \cup qu, fl)
        /\ NotAfter(ke2 \cup td \cup qu \cup fl, {NextTime(actor[p])})
    <3>. HIDE DEF kept, ke2, td, qu, fl
    <3>. QED
      BY <1>9, <2>1 DEF NotAfter
  <2>3. \A k \in Projects : SortedBatch(batch[k], p)
    <3>1. ASSUME NEW k \in Projects, k # j PROVE SortedBatch(batch[k], p)
      BY <2>1, <3>1
    <3>. QED
      BY <1>4, <3>1
  <2>4. ASSUME p \notin crossed, NEW k \in Projects
        PROVE  NotAfter({stored.at}, BatchTimes(batch[k], p))
    <3>1. CASE BatchTimes(batch[k], p) = {}
      BY <3>1 DEF NotAfter
    <3>2. CASE BatchTimes(batch[k], p) # {}
      <4>1. k # j /\ batch[k] = tick.batch[k] /\ OfPane(batch[k], p) # {}
        BY <1>6, <3>2 DEF BatchTimes
      <4>2. OfPane(mine, p) = {}
        BY <1>7, <2>4, <4>1
      <4>3. stored = paneRow[p]
        BY <1>5, <4>2
      <4>. QED
        BY <2>1, <2>4, <4>1, <4>3
    <3>. QED
      BY <3>1, <3>2
  <2>. QED
    BY <2>1, <2>2, <2>3, <2>4 DEF PaneInOrder
<1>. QED
  BY <1>2, <1>8, <1>10, <1>11

\* The row a batch leaves of a task.
LEMMA TaskRowLeft ==
    ASSUME TypeOK, NEW t \in Task, NEW b \in Seq(Entry)
    PROVE  TaskRowOf(b, t) \in Row /\ TaskRowOf(b, t).mod = row[t].mod
<1>1. row[t] \in Row
  BY DEF TypeOK
<1>. DEFINE r == LastAmong(b, OfTask(b, t))
<1>2. CASE Exists(t) /\ OfTask(b, t) # {} /\ r.shown \in Command
  <2>1. TaskRowOf(b, t) = [row[t] EXCEPT !.command = r.shown]
    BY <1>2 DEF TaskRowOf
  <2>2. r.shown \in Shown
    BY <1>2, Constants
  <2>. HIDE DEF r
  <2>. QED
    BY <1>1, <2>1, <2>2 DEF Row
<1>3. CASE ~(Exists(t) /\ OfTask(b, t) # {} /\ r.shown \in Command)
  BY <1>1, <1>3 DEF TaskRowOf
<1>. QED
  BY <1>2, <1>3

\* The turn writes the batch of a repository.
LEMMA StoreBatchKeeps ==
    ASSUME StateInv, NEW j \in Projects, StoreBatch(j)
    PROVE  StateInv'
<1>. DEFINE b == tick.batch[j]
            batch == [tick.batch EXCEPT ![j] = << >>]
<1>1. TypeOK /\ TurnInStep /\ TreeComing
  BY DEF StateInv
<1>2. /\ tick.pc = "match" /\ tick.todo = << >> /\ b # << >>
      /\ \/ BatchUpsertRuntime(j) /\ Unspent
         \/ /\ Fault /\ UNCHANGED <<storeVars, silent>>
            /\ lost' = lost \cup ({e.report.pane : e \in Range(b)} \ PanesOf(reportQueue))
      /\ UNCHANGED <<now, paneVars, queueVars, projectCache, seen, crossed, overtaken, unsent>>
      /\ tick' = [tick EXCEPT !.batch = batch]
  BY <1>1, TurnIs DEF StoreBatch, Turn
<1>3. UNCHANGED <<now, actor, inFlight, appended, paneLatest, reportQueue, triggered,
                  projectCache, seen, crossed, overtaken, unsent>>
  BY <1>2 DEF paneVars, queueVars
<1>4. tick \in Turn /\ tick.batch \in [Projects -> Seq(Entry)] /\ b \in Seq(Entry)
  BY <1>1, TurnIs
<1>5. /\ batch \in [Projects -> Seq(Entry)] /\ batch[j] = << >>
      /\ \A k \in Projects \ {j} : batch[k] = tick.batch[k]
  BY <1>4
<1>. HIDE DEF batch
<1>6. /\ tick' \in Turn /\ tick'.pc = "match" /\ tick'.todo = tick.todo /\ tick'.batch = batch
      /\ tick'.delta = tick.delta
  BY <1>2, <1>4, <1>5 DEF Turn
<1>7. spent' \in [reports : 0..MaxReports, edits : 0..MaxEdits, faults : 0..MaxFaults]
  BY <1>1, <1>2, Spending DEF Unspent
<1>8. \/ /\ BatchUpsertRuntime(j) /\ lost' = lost /\ bound' = bound
         /\ paneRow' = [p \in Pane |-> PaneRowOf(b, p)]
         /\ row' = [t \in Task |-> TaskRowOf(b, t)]
         /\ silent' = silent \cup {t \in Task : row'[t] # row[t]}
      \/ /\ UNCHANGED <<row, bound, paneRow, silent>>
         /\ lost' = lost \cup ({e.report.pane : e \in Range(b)} \ PanesOf(reportQueue))
  BY <1>2 DEF BatchUpsertRuntime, storeVars
<1>. DEFINE failed == UNCHANGED <<row, bound, paneRow, silent>>
                      /\ lost' = lost \cup ({e.report.pane : e \in Range(b)} \ PanesOf(reportQueue))
            stored == /\ lost' = lost /\ bound' = bound
                      /\ paneRow' = [p \in Pane |-> PaneRowOf(b, p)]
                      /\ row' = [t \in Task |-> TaskRowOf(b, t)]
                      /\ silent' = silent \cup {t \in Task : row'[t] # row[t]}
<1>9. failed \/ stored
  BY <1>8
<1>10. /\ row' \in [Task -> Row] /\ \A t \in Task : row'[t].mod = row[t].mod
       /\ \A t \in Task : row'[t] = row[t] \/ t \in silent'
       /\ silent \subseteq silent' /\ silent' \subseteq Task
  <2>1. row \in [Task -> Row] /\ silent \subseteq Task
    BY <1>1 DEF TypeOK
  <2>2. CASE failed
    BY <2>1, <2>2
  <2>3. CASE stored
    <3>1. \A t \in Task : TaskRowOf(b, t) \in Row /\ TaskRowOf(b, t).mod = row[t].mod
      BY <1>1, <1>4, TaskRowLeft
    <3>. HIDE DEF b
    <3>. QED
      BY <2>1, <2>3, <3>1
  <2>. QED
    BY <1>9, <2>2, <2>3
<1>11. /\ paneRow' \in [Pane -> Report \cup {NoReport(p) : p \in Pane}] /\ bound' = bound
       /\ \A p \in Pane : paneRow'[p] \in Report \cup {NoReport(p)}
  <2>1. /\ paneRow \in [Pane -> Report \cup {NoReport(p) : p \in Pane}]
        /\ \A p \in Pane : paneRow[p] \in Report \cup {NoReport(p)}
    BY <1>1 DEF TypeOK
  <2>2. CASE failed
    BY <2>1, <2>2
  <2>3. CASE stored
    <3>1. \A p \in Pane : PaneRowOf(b, p) \in Report \cup {NoReport(p)}
      BY <1>1, <1>4, RowLeft
    <3>. HIDE DEF b
    <3>. QED
      BY <2>3, <3>1
  <2>. QED
    BY <1>9, <2>2, <2>3
<1>12. lost' \subseteq Pane
  <2>1. lost \subseteq Pane
    BY <1>1 DEF TypeOK
  <2>2. \A e \in Range(b) : e \in Entry
    BY <1>4 DEF Range
  <2>3. {e.report.pane : e \in Range(b)} \subseteq Pane
    <3>. HIDE DEF b
    <3>. QED
      BY <2>2 DEF Entry, Report
  <2>. HIDE DEF b
  <2>. QED
    BY <1>9, <2>1, <2>3
<1>13. TypeOK'
  <2>. HIDE DEF b, failed, stored
  <2>. QED
    BY <1>1, <1>3, <1>6, <1>7, <1>10, <1>11, <1>12 DEF TypeOK
<1>14. TurnInStep'
  BY <1>6 DEF TurnInStep
<1>15. \A t \in Task : row'[t].mod <= now'
  BY <1>3, <1>10, InvBefore
<1>16. TreeComing'
  <2>1. ASSUME NEW t \in Task
        PROVE  /\ Coming(t)' = Listed(t)' \/ Unknown(t)' \/ Ahead(t)'
               /\ Coming(t)' = Listed(t)' \/ Unknown(t)'
                     \/ projectCache'[Home[t]].rows[t] # Listed(t)'
    <3>1. CASE t \in silent'
      BY <3>1 DEF Unknown
    <3>2. CASE t \notin silent'
      <4>1. row'[t] = row[t] /\ t \notin silent
        BY <1>10, <3>2
      <4>2. /\ Coming(t)' = Coming(t) /\ Listed(t)' = Listed(t) /\ Ahead(t)' = Ahead(t)
            /\ Unknown(t)' = Unknown(t)
        BY <1>3, <1>6, <3>2, <4>1 DEF Coming, Listed, Ahead, Unknown
      <4>. QED
        BY <1>1, <1>3, <4>2 DEF TreeComing
    <3>. QED
      BY <3>1, <3>2
  <2>. QED
    BY <1>1, <1>3, <2>1 DEF TreeComing
<1>17. ASSUME NEW p \in Pane
       PROVE  /\ PaneKnown(p, paneLatest'[p], reportQueue', tick'.todo, tick'.batch, paneRow'[p],
                           crossed', lost')
              /\ PanePassed(p, actor'[p], inFlight'[p], reportQueue', tick'.todo, tick'.batch,
                            paneRow'[p], now')
              /\ \/ p \in overtaken' \/ actor'[p].seeded = 0
                 \/ PaneInOrder(p, actor'[p], inFlight'[p], reportQueue', tick'.todo,
                                tick'.batch, paneRow'[p], crossed')
  <2>1. \/ paneRow'[p] = PaneRowOf(b, p) /\ lost' = lost
        \/ /\ paneRow'[p] = paneRow[p] /\ lost \subseteq lost'
           /\ OfPane(b, p) # {} /\ Of(reportQueue, p) = {} => p \in lost'
    <3>1. CASE stored
      BY <3>1
    <3>2. CASE failed
      <4>1. ASSUME OfPane(b, p) # {}, Of(reportQueue, p) = {} PROVE p \in lost'
        <5>1. reportQueue \in Seq(Report)
          BY <1>1, TimesTyped
        <5>2. p \notin PanesOf(reportQueue)
          BY <4>1, <5>1, PanesOfIs
        <5>3. PICK k \in DOMAIN b : b[k].report.pane = p
          BY <4>1 DEF OfPane
        <5>4. b[k] \in Range(b)
          BY <5>3 DEF Range
        <5>. HIDE DEF b
        <5>. QED
          BY <3>2, <5>2, <5>3, <5>4
      <4>. QED
        BY <3>2, <4>1
    <3>. QED
      BY <1>9, <3>1, <3>2
  <2>. HIDE DEF failed, stored
  <2>2. /\ PaneKnown(p, paneLatest[p], reportQueue, tick.todo, batch, paneRow'[p], crossed, lost')
        /\ PanePassed(p, actor[p], inFlight[p], reportQueue, tick.todo, batch, paneRow'[p], now)
        /\ \/ p \in overtaken \/ actor[p].seeded = 0
           \/ PaneInOrder(p, actor[p], inFlight[p], reportQueue, tick.todo, batch, paneRow'[p],
                          crossed)
    BY <1>2, <1>5, <2>1, OneStored
  <2>. QED
    BY <1>3, <1>6, <2>2
<1>. QED
  BY <1>13, <1>14, <1>15, <1>16, <1>17, InvAfter

--------------------------------------------------------------------------------
(* The turn lists the tasks of a project.                                       *)

\* What a list of tasks is compared with, and what is found.
LEMMA DeltaOf ==
    ASSUME NEW old \in [Task -> {r \in Row : ~r.archived}],
           NEW new \in [Task -> {r \in Row : ~r.archived}]
    PROVE  /\ DOMAIN TaskDelta(old, new) \subseteq Task
           /\ \A t \in DOMAIN TaskDelta(old, new) :
                 TaskDelta(old, new)[t] = new[t] /\ old[t] # new[t]
           /\ \A t \in Task \ DOMAIN TaskDelta(old, new) : old[t] = new[t]
<1>. DEFINE found == {u \in Task : \/ Added(old[u], new[u]) \/ Removed(old[u], new[u])
                                   \/ Updated(old[u], new[u]) \/ Reparented(old[u], new[u])}
<1>1. TaskDelta(old, new) = [t \in found |-> new[t]]
  BY DEF TaskDelta
<1>2. ASSUME NEW t \in found PROVE old[t] # new[t]
  BY <1>2 DEF Added, Removed, Updated, Reparented
<1>3. ASSUME NEW t \in Task \ found PROVE old[t] = new[t]
  <2>1. CASE old[t] = NoRow \/ new[t] = NoRow
    BY <1>3, <2>1 DEF Added, Removed
  <2>2. CASE old[t] # NoRow /\ new[t] # NoRow
    <3>1. Content(old[t]) = Content(new[t]) /\ old[t].parent = new[t].parent
      BY <1>3, <2>2 DEF Updated, Reparented
    <3>2. old[t].command = new[t].command /\ old[t].mod = new[t].mod
      BY <3>1 DEF Content
    <3>3. old[t] \in Row /\ new[t] \in Row /\ ~old[t].archived /\ ~new[t].archived
      OBVIOUS
    <3>4. old[t].archived = new[t].archived
      BY <3>3 DEF Row
    <3>. HIDE DEF found
    <3>. QED
      BY <3>1, <3>2, <3>3, <3>4 DEF Row
  <2>. QED
    BY <2>1, <2>2
<1>. HIDE DEF found
<1>4. found \subseteq Task
  BY DEF found
<1>. QED
  BY <1>1, <1>2, <1>3, <1>4

\* Rows that are listed are not archived.
LEMMA ListedRows ==
    /\ NoRow \in {r \in Row : ~r.archived}
    /\ \A r \in Row : ListedAs(r) \in {s \in Row : ~s.archived}
<1>1. NoRow \in Row /\ NoRow.archived = FALSE
  BY Rows
<1>. QED
  BY <1>1 DEF ListedAs

\* The turn lists the tasks.
LEMMA ListTasksKeeps ==
    ASSUME StateInv, ListTasks
    PROVE  StateInv'
<1>. DEFINE j     == Head(tick.projects)
            rows  == [t \in Task |-> IF Home[t] = j THEN Listed(t) ELSE NoRow]
            old   == projectCache[j].rows
            delta == TaskDelta(old, rows)
            both  == [t \in DOMAIN delta \cup DOMAIN tick.delta |->
                         IF t \in DOMAIN delta THEN delta[t] ELSE tick.delta[t]]
<1>1. TypeOK /\ TurnInStep /\ TreeComing
  BY DEF StateInv
<1>2. /\ tick.pc = "list"
      /\ \/ /\ projectCache' = [projectCache EXCEPT ![j] = [mod |-> tick.mod, rows |-> rows]]
            /\ tick' = [tick EXCEPT !.pc = "match", !.projects = Tail(@), !.mod = 0, !.delta = both]
            /\ silent' = silent \ DOMAIN delta
            /\ Unspent
         \/ NextProject /\ Fault /\ UNCHANGED <<projectCache, silent>>
      /\ UNCHANGED <<now, paneVars, queueVars, storeVars, seen, lost, crossed, overtaken, unsent>>
  BY <1>1, TurnIs DEF ListTasks, Turn
<1>3. /\ tick.todo = << >> /\ tick.projects # << >> /\ \A k \in Projects : tick.batch[k] = << >>
  BY <1>1, <1>2 DEF TurnInStep
<1>4. /\ tick \in Turn /\ tick.mod \in Seconds /\ tick.projects \in Seq(Projects)
      /\ DOMAIN tick.delta \subseteq Task /\ tick.delta \in [DOMAIN tick.delta -> Row]
  BY <1>1, TurnIs
<1>5. j \in Projects /\ Tail(tick.projects) \in Seq(Projects)
  BY <1>3, <1>4, HeadTailProperties
<1>6. /\ projectCache \in [Projects -> Cache] /\ old \in [Task -> {r \in Row : ~r.archived}]
      /\ row \in [Task -> Row] /\ seen \in [Task -> Row]
  BY <1>1, <1>5 DEF TypeOK, Cache
<1>7. rows \in [Task -> {r \in Row : ~r.archived}]
  <2>1. \A t \in Task : Listed(t) \in {r \in Row : ~r.archived}
    BY <1>6, ListedRows DEF Listed
  <2>. HIDE DEF j
  <2>. QED
    BY <2>1, ListedRows
<1>8. \A t \in Task : rows[t] = IF Home[t] = j THEN Listed(t) ELSE NoRow
  OBVIOUS
<1>. HIDE DEF rows, old
<1>9. /\ DOMAIN delta \subseteq Task
      /\ \A t \in DOMAIN delta : delta[t] = rows[t] /\ old[t] # rows[t]
      /\ \A t \in Task \ DOMAIN delta : old[t] = rows[t]
  BY <1>6, <1>7, DeltaOf
<1>. HIDE DEF delta
<1>10. \A t \in Task \ TasksOf(j) : old[t] = NoRow
  BY <1>1, <1>5 DEF TreeComing, old
<1>11. \A t \in DOMAIN delta : Home[t] = j /\ delta[t] = Listed(t)
  BY <1>8, <1>9, <1>10 DEF TasksOf
<1>12. /\ DOMAIN both = DOMAIN delta \cup DOMAIN tick.delta
       /\ both \in [DOMAIN both -> Row] /\ DOMAIN both \subseteq Task
       /\ \A t \in DOMAIN delta : both[t] = delta[t]
       /\ \A t \in DOMAIN tick.delta \ DOMAIN delta : both[t] = tick.delta[t]
  <2>1. \A t \in DOMAIN delta : delta[t] \in Row
    BY <1>7, <1>9
  <2>. QED
    BY <1>4, <1>9, <2>1
<1>. HIDE DEF both, j
<1>13. UNCHANGED <<now, actor, inFlight, appended, paneLatest, reportQueue, triggered, row, bound,
                   paneRow, seen, lost, crossed, overtaken, unsent>>
  BY <1>2 DEF paneVars, queueVars, storeVars
<1>14. spent' \in [reports : 0..MaxReports, edits : 0..MaxEdits, faults : 0..MaxFaults]
  BY <1>1, <1>2, Spending DEF Unspent
<1>15. now \in Seconds /\ now <= now
  BY <1>1, TimesTyped, Constants DEF TypeOK, Seconds
<1>16. /\ tick' \in Turn /\ tick'.pc = "match" /\ tick'.todo = tick.todo /\ tick'.batch = tick.batch
       /\ TypeOK' /\ TreeComing'
  <2>1. CASE NextProject /\ Fault /\ UNCHANGED <<projectCache, silent>>
    <3>1. tick' = [tick EXCEPT !.pc = "match", !.projects = Tail(tick.projects)]
      BY <2>1 DEF NextProject
    <3>2. /\ tick' \in Turn /\ tick'.pc = "match" /\ tick'.todo = tick.todo
          /\ tick'.batch = tick.batch /\ tick'.delta = tick.delta
      BY <1>4, <1>5, <3>1 DEF Turn
    <3>3. TypeOK'
      BY <1>1, <1>13, <1>14, <2>1, <3>2 DEF TypeOK
    <3>. QED
      BY <1>13, <2>1, <3>2, <3>3, TreeStays
  <2>2. CASE /\ projectCache' = [projectCache EXCEPT ![j] = [mod |-> tick.mod, rows |-> rows]]
             /\ tick' = [tick EXCEPT !.pc = "match", !.projects = Tail(@), !.mod = 0,
                    !.delta = both]
             /\ silent' = silent \ DOMAIN delta
    <3>1. both \in UNION {[S -> Row] : S \in SUBSET Task} /\ 0 \in Seconds
      BY <1>12, DeltaIs, Constants, SMTT(30) DEF Seconds
    <3>2. /\ tick' \in Turn /\ tick'.pc = "match" /\ tick'.todo = tick.todo
          /\ tick'.batch = tick.batch /\ tick'.delta = both
      BY <1>4, <1>5, <2>2, <3>1 DEF Turn
    <3>3. /\ projectCache' \in [Projects -> Cache]
          /\ projectCache'[j] = [mod |-> tick.mod, rows |-> rows]
          /\ projectCache'[j].rows = rows
          /\ \A k \in Projects \ {j} : projectCache'[k] = projectCache[k]
      <4>1. [mod |-> tick.mod, rows |-> rows] \in Cache
        BY <1>4, <1>7 DEF Cache
      <4>. QED
        BY <1>5, <1>6, <2>2, <4>1
    <3>4. TypeOK'
      <4>1. silent' \subseteq Task
        BY <1>1, <2>2 DEF TypeOK
      <4>. QED
        BY <1>1, <1>13, <1>14, <3>2, <3>3, <4>1 DEF TypeOK
    <3>5. ASSUME NEW t \in Task
          PROVE  /\ Coming(t)' = Listed(t)' \/ Unknown(t)' \/ Ahead(t)'
                 /\ Coming(t)' = Listed(t)' \/ Unknown(t)'
                       \/ projectCache'[Home[t]].rows[t] # Listed(t)'
      <4>1. Listed(t)' = Listed(t)
        BY <1>13 DEF Listed
      <4>2. CASE t \in DOMAIN delta
        <5>1. Coming(t)' = both[t]
          BY <1>12, <3>2, <4>2 DEF Coming
        <5>. QED
          BY <1>11, <1>12, <4>1, <4>2, <5>1
      <4>3. CASE t \notin DOMAIN delta
        <5>1. Coming(t)' = Coming(t)
          BY <1>12, <1>13, <3>2, <4>3 DEF Coming
        <5>2. Unknown(t)' <=> Unknown(t)
          BY <1>12, <1>13, <2>2, <3>2, <4>3 DEF Unknown
        <5>3. CASE Home[t] = j
          <6>1. projectCache[Home[t]].rows[t] = Listed(t)
            BY <1>8, <1>9, <4>3, <5>3 DEF old
          <6>2. Coming(t) = Listed(t) \/ Unknown(t)
            BY <1>1, <6>1 DEF TreeComing
          <6>. QED
            BY <4>1, <5>1, <5>2, <6>2
        <5>4. CASE Home[t] # j
          <6>1. projectCache'[Home[t]] = projectCache[Home[t]]
            BY <3>3, <5>4, Constants
          <6>2. Ahead(t)' <=> Ahead(t)
            BY <1>13, <6>1 DEF Ahead
          <6>. QED
            BY <1>1, <4>1, <5>1, <5>2, <6>1, <6>2 DEF TreeComing
        <5>. QED
          BY <5>3, <5>4
      <4>. QED
        BY <4>2, <4>3
    <3>6. ASSUME NEW k \in Projects, NEW t \in Task \ TasksOf(k)
          PROVE  projectCache'[k].rows[t] = NoRow
      <4>1. CASE k = j
        BY <1>8, <3>3, <4>1 DEF TasksOf
      <4>2. CASE k # j
        BY <1>1, <3>3, <4>2 DEF TreeComing
      <4>. QED
        BY <4>1, <4>2
    <3>7. TreeComing'
      BY <3>5, <3>6 DEF TreeComing, TasksOf
    <3>. QED
      BY <3>2, <3>4, <3>7
  <2>. QED
    BY <1>2, <2>1, <2>2
<1>17. TurnInStep'
  BY <1>16 DEF TurnInStep
<1>18. \A t \in Task : row'[t].mod <= now'
  BY <1>13, InvBefore
<1>. QED
  BY <1>13, <1>15, <1>16, <1>17, <1>18, PanesStay, InvAfter

--------------------------------------------------------------------------------
(* The message of a turn.                                                       *)

\* The turn ends.
LEMMA EmitKeeps ==
    ASSUME StateInv, Emit
    PROVE  StateInv'
<1>1. TypeOK /\ TurnInStep /\ TreeComing
  BY DEF StateInv
<1>2. /\ Flushed /\ tick' = Idle
      /\ IF tick.delta = NoDelta THEN UNCHANGED <<seen, unsent, spent>>
         ELSE EmitTmuxStatusDelta(tick.delta)
      /\ UNCHANGED <<now, paneVars, queueVars, projectCache, storeVars, lost, crossed, overtaken,
                     silent>>
  BY DEF Emit
<1>3. UNCHANGED <<now, actor, inFlight, appended, paneLatest, reportQueue, triggered, row, bound,
                  projectCache, paneRow, lost, crossed, overtaken, silent>>
  BY <1>2 DEF paneVars, queueVars, storeVars
<1>4. /\ tick.todo = << >> /\ \A k \in Projects : tick.batch[k] = << >>
  BY <1>2 DEF Flushed
<1>5. /\ tick' \in Turn /\ tick'.pc = "idle" /\ tick'.projects = << >> /\ tick'.todo = tick.todo
      /\ tick'.batch = tick.batch /\ tick'.delta = NoDelta /\ DOMAIN tick'.delta = {}
  BY <1>1, <1>2, <1>4, IdleIs, TurnIs
<1>6. DOMAIN tick.delta \subseteq Task /\ tick.delta \in [DOMAIN tick.delta -> Row]
  BY <1>1, TurnIs
<1>7. seen \in [Task -> Row] /\ unsent \subseteq Task
  BY <1>1 DEF TypeOK
<1>8. /\ spent' \in [reports : 0..MaxReports, edits : 0..MaxEdits, faults : 0..MaxFaults]
      /\ seen' \in [Task -> Row] /\ unsent' \subseteq Task
      /\ \A t \in Task : (seen'[t] = Coming(t) \/ t \in unsent')
                         /\ (t \in unsent \ DOMAIN tick.delta => t \in unsent')
  <2>1. CASE tick.delta = NoDelta
    BY <1>1, <1>2, <1>7, <2>1, Spending, IdleIs DEF Coming
  <2>2. CASE tick.delta # NoDelta /\ seen' = [t \in Task |-> IF t \in DOMAIN tick.delta
                                                THEN tick.delta[t] ELSE seen[t]]
             /\ unsent' = unsent \ DOMAIN tick.delta /\ Unspent
    BY <1>1, <1>6, <1>7, <2>2, Spending DEF Coming, Unspent
  <2>3. CASE tick.delta # NoDelta /\ unsent' = unsent \cup DOMAIN tick.delta
             /\ Fault /\ UNCHANGED seen
    BY <1>1, <1>6, <1>7, <2>3, Spending DEF Coming
  <2>. QED
    BY <1>2, <2>1, <2>2, <2>3 DEF EmitTmuxStatusDelta
<1>9. TypeOK'
  BY <1>1, <1>3, <1>5, <1>8 DEF TypeOK
<1>10. TurnInStep'
  BY <1>4, <1>5 DEF TurnInStep
<1>11. ASSUME NEW t \in Task
       PROVE  /\ Coming(t)' = Listed(t)' \/ Unknown(t)' \/ Ahead(t)'
              /\ Coming(t)' = Listed(t)' \/ Unknown(t)'
                    \/ projectCache'[Home[t]].rows[t] # Listed(t)'
  <2>1. CASE t \in unsent'
    BY <1>5, <2>1 DEF Unknown
  <2>2. CASE t \notin unsent'
    <3>1. Coming(t)' = seen'[t] /\ seen'[t] = Coming(t) /\ Listed(t)' = Listed(t)
      BY <1>3, <1>5, <1>8, <2>2 DEF Coming, Listed
    <3>2. Unknown(t) => Unknown(t)'
      BY <1>3, <1>8, <2>2 DEF Unknown
    <3>3. Ahead(t)' <=> Ahead(t)
      BY <1>3 DEF Ahead
    <3>. QED
      BY <1>1, <1>3, <3>1, <3>2, <3>3 DEF TreeComing
  <2>. QED
    BY <2>1, <2>2
<1>12. TreeComing'
  BY <1>1, <1>3, <1>11 DEF TreeComing
<1>13. \A t \in Task : row'[t].mod <= now'
  BY <1>3, InvBefore
<1>14. now \in Seconds /\ now <= now
  BY <1>1, Constants DEF TypeOK, Seconds
<1>15. overtaken' = overtaken
  BY <1>3
<1>. QED
  BY <1>3, <1>5, <1>9, <1>10, <1>12, <1>13, <1>14, PanesStay, InvAfter

\* A browser loads the tasks.
LEMMA LoadTreeKeeps ==
    ASSUME StateInv, LoadTree
    PROVE  StateInv'
<1>1. TypeOK /\ TurnInStep /\ TreeComing
  BY DEF StateInv
<1>2. /\ seen' = [t \in Task |-> Listed(t)] /\ unsent' = {}
      /\ UNCHANGED <<now, paneVars, queueVars, tick, projectCache, storeVars, spent, lost, crossed,
                     overtaken, silent>>
  BY DEF LoadTree
<1>3. UNCHANGED <<now, actor, inFlight, appended, paneLatest, reportQueue, triggered, row, bound,
                  tick, projectCache, paneRow, spent, lost, crossed, overtaken, silent>>
  BY <1>2 DEF paneVars, queueVars, storeVars
<1>4. seen' \in [Task -> Row] /\ \A t \in Task : seen'[t] = Listed(t)
  BY <1>1, <1>2, Rows DEF TypeOK, Listed
<1>5. TypeOK'
  BY <1>1, <1>2, <1>3, <1>4 DEF TypeOK
<1>6. TurnInStep'
  BY <1>1, <1>3 DEF TurnInStep
<1>7. ASSUME NEW t \in Task
      PROVE  /\ Coming(t)' = Listed(t)' \/ Unknown(t)' \/ Ahead(t)'
             /\ Coming(t)' = Listed(t)' \/ Unknown(t)'
                   \/ projectCache'[Home[t]].rows[t] # Listed(t)'
  <2>1. Listed(t)' = Listed(t)
    BY <1>3 DEF Listed
  <2>2. CASE t \notin DOMAIN tick.delta
    <3>1. Coming(t)' = seen'[t]
      BY <1>3, <2>2 DEF Coming
    <3>. QED
      BY <1>4, <2>1, <3>1
  <2>3. CASE t \in DOMAIN tick.delta
    <3>1. Coming(t)' = Coming(t)
      BY <1>3, <2>3 DEF Coming
    <3>2. Unknown(t) => Unknown(t)'
      BY <1>3, <2>3 DEF Unknown
    <3>3. Ahead(t)' <=> Ahead(t)
      BY <1>3 DEF Ahead
    <3>. QED
      BY <1>1, <1>3, <2>1, <3>1, <3>2, <3>3 DEF TreeComing
  <2>. QED
    BY <2>2, <2>3
<1>8. TreeComing'
  BY <1>1, <1>3, <1>7 DEF TreeComing
<1>9. \A t \in Task : row'[t].mod <= now'
  BY <1>3, InvBefore
<1>10. now \in Seconds /\ now <= now
  BY <1>1, Constants DEF TypeOK, Seconds
<1>. QED
  BY <1>3, <1>5, <1>6, <1>8, <1>9, <1>10, PanesStay, InvAfter

--------------------------------------------------------------------------------
(* Requests change the tasks.                                                   *)

\* A row is written.
LEMMA ChangeRowKeeps ==
    ASSUME StateInv, NEW t \in Task, NEW new \in Row, new.mod <= now, ChangeRow(t, new)
    PROVE  StateInv'
<1>1. TypeOK /\ TurnInStep /\ TreeComing
  BY DEF StateInv
<1>2. /\ Edit /\ row' = [row EXCEPT ![t] = new]
      /\ silent' = IF Unnoticed(t, new) THEN silent \cup {t} ELSE silent
      /\ UNCHANGED <<now, paneVars, queueVars, tick, projectCache, bound, paneRow, seen, lost,
                     crossed, overtaken, unsent>>
  BY DEF ChangeRow
<1>3. UNCHANGED <<now, actor, inFlight, appended, paneLatest, reportQueue, triggered, bound, tick,
                  projectCache, paneRow, seen, lost, crossed, overtaken, unsent>>
  BY <1>2 DEF paneVars, queueVars
<1>4. row \in [Task -> Row] /\ row' \in [Task -> Row] /\ row'[t] = new
      /\ \A u \in Task \ {t} : row'[u] = row[u]
  BY <1>1, <1>2 DEF TypeOK
<1>5. silent' \subseteq Task
  BY <1>1, <1>2 DEF TypeOK
<1>6. TypeOK'
  BY <1>1, <1>2, <1>3, <1>4, <1>5, Spending DEF TypeOK
<1>7. TurnInStep'
  BY <1>1, <1>3 DEF TurnInStep
<1>8. \A u \in Task : row'[u].mod <= now'
  BY <1>3, <1>4, InvBefore
<1>9. ASSUME NEW u \in Task
      PROVE  /\ Coming(u)' = Listed(u)' \/ Unknown(u)' \/ Ahead(u)'
             /\ Coming(u)' = Listed(u)' \/ Unknown(u)'
                   \/ projectCache'[Home[u]].rows[u] # Listed(u)'
  <2>1. Coming(u)' = Coming(u) /\ (Unknown(u) => Unknown(u)')
    BY <1>2, <1>3 DEF Coming, Unknown
  <2>2. CASE u # t
    <3>1. Listed(u)' = Listed(u) /\ (Ahead(u)' <=> Ahead(u))
      BY <1>3, <1>4, <2>2 DEF Listed, Ahead
    <3>. QED
      BY <1>1, <1>3, <2>1, <3>1 DEF TreeComing
  <2>3. CASE u = t /\ Unnoticed(t, new)
    BY <1>2, <2>3 DEF Unknown
  <2>4. CASE u = t /\ ~Unnoticed(t, new)
    <3>1. /\ projectCache[Home[t]].mod = None \/ ~(new.mod <= projectCache[Home[t]].mod)
          /\ ListedAs(new) # projectCache[Home[t]].rows[t]
      BY <2>4 DEF Unnoticed
    <3>2. Listed(u)' = ListedAs(new)
      BY <1>4, <2>4 DEF Listed
    <3>3. Ahead(u)'
      <4>1. /\ new.mod \in Nat
            /\ projectCache[Home[t]].mod \in Nat \/ projectCache[Home[t]].mod = None
        <5>1. projectCache[Home[t]] \in Cache
          BY <1>1, Constants DEF TypeOK
        <5>2. new.mod \in Nat /\ Seconds \subseteq Nat
          BY Constants DEF Row, Seconds
        <5>. QED
          BY <5>1, <5>2 DEF Cache
      <4>. QED
        BY <1>3, <1>4, <2>4, <3>1, <4>1 DEF Ahead
    <3>. QED
      BY <1>3, <2>4, <3>1, <3>2, <3>3
  <2>. QED
    BY <2>2, <2>3, <2>4
<1>10. TreeComing'
  BY <1>1, <1>3, <1>9 DEF TreeComing
<1>11. now \in Seconds /\ now <= now
  BY <1>1, Constants DEF TypeOK, Seconds
<1>. QED
  BY <1>3, <1>6, <1>7, <1>8, <1>10, <1>11, PanesStay, InvAfter

\* The times a statement may have.
LEMMA StampIs ==
    ASSUME TypeOK
    PROVE  /\ \A m \in Stamp : m \in Seconds /\ m <= now
           /\ \A t \in Task : row[t] \in Row
           /\ now \in Nat
<1>1. now \in 1..MaxTime /\ \A t \in Task : row[t] \in Row
  BY DEF TypeOK
<1>. QED
  BY <1>1, Constants DEF Stamp, Seconds

\* A task is created.
LEMMA InsertTaskKeeps ==
    ASSUME StateInv, NEW t \in Task, InsertTask(t)
    PROVE  StateInv'
<1>1. TypeOK
  BY DEF StateInv
<1>2. PICK m \in Stamp : ChangeRow(t, [NoRow EXCEPT !.mod = m])
  BY DEF InsertTask
<1>3. m \in Seconds /\ m <= now
  BY <1>1, StampIs
<1>4. [NoRow EXCEPT !.mod = m] \in Row /\ [NoRow EXCEPT !.mod = m].mod = m
  BY <1>3, Rows DEF Row
<1>. QED
  BY <1>2, <1>3, <1>4, ChangeRowKeeps

\* A task is changed or archived.
LEMMA UpsertTaskMetaKeeps ==
    ASSUME StateInv, NEW t \in Task, UpsertTaskMeta(t)
    PROVE  StateInv'
<1>1. TypeOK
  BY DEF StateInv
<1>2. PICK m \in Stamp, new \in {[row[t] EXCEPT !.parent = 1 - @],
                                 [row[t] EXCEPT !.archived = TRUE]} :
         ChangeRow(t, [new EXCEPT !.mod = m])
  BY DEF UpsertTaskMeta
<1>3. m \in Seconds /\ m <= now /\ row[t] \in Row
  BY <1>1, StampIs
<1>4. new \in Row
  <2>1. CASE new = [row[t] EXCEPT !.parent = 1 - @]
    <3>1. row[t].parent \in {0, 1} /\ 1 - row[t].parent \in {0, 1}
      BY <1>3 DEF Row
    <3>. QED
      BY <1>3, <2>1, <3>1 DEF Row
  <2>2. CASE new = [row[t] EXCEPT !.archived = TRUE]
    BY <1>3, <2>2 DEF Row
  <2>. QED
    BY <2>1, <2>2
<1>5. [new EXCEPT !.mod = m] \in Row /\ [new EXCEPT !.mod = m].mod = m
  BY <1>3, <1>4 DEF Row
<1>. QED
  BY <1>2, <1>3, <1>5, ChangeRowKeeps

\* A task is deleted.
LEMMA DeleteTaskKeeps ==
    ASSUME StateInv, NEW t \in Task, DeleteTask(t)
    PROVE  StateInv'
<1>1. TypeOK /\ ChangeRow(t, NoRow)
  BY DEF StateInv, DeleteTask
<1>2. now \in Nat
  BY <1>1, StampIs
<1>3. NoRow \in Row /\ NoRow.mod <= now
  BY <1>2, Rows
<1>. QED
  BY <1>1, <1>3, ChangeRowKeeps

--------------------------------------------------------------------------------
(* The program starts.                                                          *)

\* What a pane is seeded with is not before what is stored of it, if it is anything.
LEMMA BaselineIs ==
    ASSUME now \in 1..MaxTime, NEW p \in Pane, paneRow[p].at \in 0..now,
           \A t \in Task : row[t].mod \in 0..now
    PROVE  /\ Baseline(p) \in 0..now
           /\ Baseline(p) # 0 => paneRow[p].at <= Baseline(p)
<1>. DEFINE bases == {BaseOf(t, p) : t \in {u \in Task : bound[u] = p}}
<1>1. now \in Nat /\ 0 \in 0..now
  BY Constants
<1>2. ASSUME NEW t \in Task
      PROVE  BaseOf(t, p) \in 0..now /\ paneRow[p].at <= BaseOf(t, p)
  <2>1. LastModifiedIndex(t) \in 0..now
    BY <1>1 DEF LastModifiedIndex
  <2>2. {LastModifiedIndex(t), paneRow[p].at} \subseteq 0..now
    BY <2>1
  <2>3. /\ MaxOf({LastModifiedIndex(t), paneRow[p].at}) \in {LastModifiedIndex(t), paneRow[p].at}
        /\ paneRow[p].at <= MaxOf({LastModifiedIndex(t), paneRow[p].at})
    BY <1>1, <2>2, MaxOfIs
  <2>. QED
    BY <2>2, <2>3 DEF BaseOf
<1>3. CASE bases = {}
  BY <1>1, <1>3 DEF Baseline, MergePaneBaseline
<1>4. CASE bases # {}
  <2>1. bases \subseteq 0..now
    BY <1>2
  <2>2. MaxOf(bases) \in bases
    BY <1>1, <1>4, <2>1, MaxOfIs
  <2>3. Baseline(p) = MaxOf(bases)
    BY <1>4 DEF Baseline, MergePaneBaseline
  <2>. QED
    BY <1>2, <2>2, <2>3
<1>. QED
  BY <1>3, <1>4

\* A pane of which nothing has been reported since the start.
LEMMA FreshPane ==
    ASSUME now \in 1..MaxTime, NEW p \in Pane, paneRow[p].at \in 0..now,
           \A t \in Task : row[t].mod \in 0..now, NEW batch, \A j \in Projects : batch[j] = << >>
    PROVE  /\ NewActor(p) \in Actor
           /\ PaneKnown(p, NoReport(p), << >>, << >>, batch, paneRow[p], {}, {})
           /\ PanePassed(p, NewActor(p), << >>, << >>, << >>, batch, paneRow[p], now)
           /\ \/ NewActor(p).seeded = 0
              \/ PaneInOrder(p, NewActor(p), << >>, << >>, << >>, batch, paneRow[p], {})
<1>1. /\ Baseline(p) \in 0..now
      /\ Baseline(p) # 0 => paneRow[p].at <= Baseline(p)
  BY BaselineIs
<1>2. /\ NewActor(p).seeded = Baseline(p) /\ NewActor(p).active = Baseline(p)
      /\ NextTime(NewActor(p)) = Baseline(p)
  BY DEF NewActor, NextTime
<1>3. NewActor(p) \in Actor
  <2>1. Baseline(p) \in Seconds /\ 0 \in Seconds /\ Blank \in Shown
    BY <1>1, Constants DEF Seconds
  <2>. QED
    BY <2>1 DEF NewActor, Actor
<1>4. NoReport(p).shown = None
  BY DEF NoReport
<1>5. /\ \A j \in Projects : /\ OfPane(batch[j], p) = {} /\ BatchTimes(batch[j], p) = {}
                             /\ SortedBatch(batch[j], p)
      /\ Of(<< >>, p) = {} /\ Times(<< >>, p) = {} /\ Sorted(<< >>, p)
  BY EmptyBatch, NoReports
<1>. DEFINE kept == {paneRow[p].at} \cup (UNION {BatchTimes(batch[j], p) : j \in Projects})
            none == Times(<< >>, p)
<1>6. kept = {paneRow[p].at} /\ none = {}
  BY <1>5
<1>7. PaneKnown(p, NoReport(p), << >>, << >>, batch, paneRow[p], {}, {})
  BY <1>4, <1>5 DEF PaneKnown
<1>8. PanePassed(p, NewActor(p), << >>, << >>, << >>, batch, paneRow[p], now)
  <2>1. NotAfter(kept \cup none \cup none \cup none, {now})
    <3>. HIDE DEF kept, none
    <3>. QED
      BY <1>6 DEF NotAfter
  <2>2. NewActor(p).seeded <= NewActor(p).active /\ NewActor(p).active <= now
    BY <1>1, <1>2
  <2>. QED
    BY <2>1, <2>2 DEF PanePassed
<1>9. ASSUME Baseline(p) # 0
      PROVE  PaneInOrder(p, NewActor(p), << >>, << >>, << >>, batch, paneRow[p], {})
  <2>1. /\ NotAfter(kept, none) /\ NotAfter(kept \cup none, none)
        /\ NotAfter(kept \cup none \cup none, none)
        /\ NotAfter(kept \cup none \cup none \cup none, {NextTime(NewActor(p))})
    <3>. HIDE DEF kept, none
    <3>. QED
      BY <1>1, <1>2, <1>6, <1>9 DEF NotAfter
  <2>2. \A j \in Projects : NotAfter({paneRow[p].at}, BatchTimes(batch[j], p))
    BY <1>5 DEF NotAfter
  <2>. QED
    BY <1>5, <2>1, <2>2 DEF PaneInOrder
<1>. QED
  BY <1>2, <1>3, <1>7, <1>8, <1>9

\* Nothing cached and everything shown.
LEMMA FreshTree ==
    ASSUME TypeOK, tick = Idle, projectCache = [j \in Projects |-> NoCache],
           seen = [t \in Task |-> Listed(t)]
    PROVE  TreeComing /\ TurnInStep
<1>1. \A t \in Task : Coming(t) = Listed(t)
  BY IdleIs DEF Coming
<1>2. \A j \in Projects : \A t \in Task : projectCache[j].rows[t] = NoRow
  BY DEF NoCache
<1>. QED
  BY <1>1, <1>2, IdleIs DEF TreeComing, TurnInStep, TasksOf

\* Its cache.
LEMMA NoCacheIs == NoCache \in Cache
  BY ListedRows DEF NoCache, Cache

\* The program starts again.
LEMMA RestartKeeps ==
    ASSUME StateInv, Restart
    PROVE  StateInv'
<1>1. TypeOK
  BY DEF StateInv
<1>2. /\ Fault /\ UNCHANGED <<now, row, bound, paneRow>>
      /\ actor' = [p \in Pane |-> NewActor(p)]
      /\ inFlight' = [p \in Pane |-> << >>] /\ appended' = {}
      /\ paneLatest' = [p \in Pane |-> NoReport(p)]
      /\ reportQueue' = << >> /\ triggered' = FALSE /\ tick' = Idle
      /\ projectCache' = [j \in Projects |-> NoCache]
      /\ seen' = [t \in Task |-> Listed(t)]
      /\ lost' = {} /\ crossed' = {} /\ overtaken' = {} /\ silent' = {} /\ unsent' = {}
  BY DEF Restart, storeVars
<1>3. /\ now \in 1..MaxTime /\ now \in Nat
      /\ \A t \in Task : row[t] \in Row /\ row[t].mod \in 0..now
  <2>1. now \in 1..MaxTime /\ \A t \in Task : row[t] \in Row
    BY <1>1 DEF TypeOK
  <2>2. \A t \in Task : row[t].mod <= now /\ row[t].mod \in Nat
    BY <2>1, InvBefore, Constants DEF Row, Seconds
  <2>. QED
    BY <2>1, <2>2, Constants
<1>4. ASSUME NEW p \in Pane PROVE paneRow[p].at \in 0..now
  <2>1. PanePassed(p, actor[p], inFlight[p], reportQueue, tick.todo, tick.batch, paneRow[p], now)
    BY InvBefore
  <2>2. paneRow[p].at <= now
    BY <2>1 DEF PanePassed, NotAfter
  <2>. QED
    BY <1>1, <1>3, <2>2, TimesTyped
<1>5. \A j \in Projects : Idle.batch[j] = << >>
  BY IdleIs
<1>6. ASSUME NEW p \in Pane
      PROVE  /\ NewActor(p) \in Actor
             /\ PaneKnown(p, NoReport(p), << >>, << >>, Idle.batch, paneRow[p], {}, {})
             /\ PanePassed(p, NewActor(p), << >>, << >>, << >>, Idle.batch, paneRow[p], now)
             /\ \/ NewActor(p).seeded = 0
                \/ PaneInOrder(p, NewActor(p), << >>, << >>, << >>, Idle.batch, paneRow[p], {})
  BY <1>3, <1>4, <1>5, FreshPane
<1>7. TypeOK'
  <2>1. /\ actor' \in [Pane -> Actor] /\ inFlight' \in [Pane -> Seq(Report)]
        /\ \A p \in Pane : inFlight'[p] = << >> /\ paneLatest'[p] = NoReport(p)
        /\ paneLatest' \in [Pane -> Report \cup {NoReport(p) : p \in Pane}]
    BY <1>2, <1>6
  <2>2. \A p \in Pane : /\ Len(inFlight'[p]) <= MaxInFlight
                        /\ \A i \in DOMAIN inFlight'[p] : inFlight'[p][i].pane = p
    <3>1. \A p \in Pane : Len(inFlight'[p]) = 0 /\ DOMAIN inFlight'[p] = {}
      BY <2>1
    <3>. QED
      BY <3>1, Constants
  <2>3. seen' \in [Task -> Row]
    BY <1>2, <1>3, Rows DEF Listed
  <2>4. reportQueue' \in Seq(Report) /\ triggered' \in BOOLEAN /\ tick' \in Turn
        /\ projectCache' \in [Projects -> Cache]
    <3>1. Idle \in Turn /\ << >> \in Seq(Report)
      BY IdleIs
    <3>2. projectCache' \in [Projects -> Cache]
      BY <1>2, NoCacheIs
    <3>. QED
      BY <1>2, <3>1, <3>2
  <2>. QED
    BY <1>1, <1>2, <2>1, <2>2, <2>3, <2>4, Spending DEF TypeOK
<1>8. tick' = Idle /\ projectCache' = [j \in Projects |-> NoCache]
      /\ seen' = [t \in Task |-> Listed(t)']
  BY <1>2 DEF Listed
<1>9. TreeComing' /\ TurnInStep'
  <2>1. (TypeOK /\ tick = Idle /\ projectCache = [j \in Projects |-> NoCache]
           /\ seen = [t \in Task |-> Listed(t)]
         => TreeComing /\ TurnInStep)'
    BY FreshTree, PTL
  <2>. QED
    BY <1>7, <1>8, <2>1
<1>10. \A t \in Task : row'[t].mod <= now'
  BY <1>2, <1>3
<1>11. Idle.todo = << >>
  BY IdleIs
<1>. QED
  BY <1>2, <1>6, <1>7, <1>9, <1>10, <1>11, InvAfter

--------------------------------------------------------------------------------
(* The invariant.                                                               *)

\* It holds when the program starts for the first time.
LEMMA InvStarts == Init => StateInv
<1> SUFFICES ASSUME Init PROVE StateInv
  OBVIOUS
<1>1. /\ now = 1
      /\ paneRow = [p \in Pane |-> NoReport(p)]
      /\ actor = [p \in Pane |-> NewActor(p)]
      /\ inFlight = [p \in Pane |-> << >>] /\ appended = {}
      /\ paneLatest = [p \in Pane |-> NoReport(p)]
      /\ reportQueue = << >> /\ triggered = FALSE
      /\ tick = Idle
      /\ projectCache = [j \in Projects |-> NoCache]
      /\ seen = [t \in Task |-> Listed(t)]
      /\ spent = [reports |-> 0, edits |-> 0, faults |-> 0]
      /\ lost = {} /\ crossed = {} /\ overtaken = {} /\ silent = {} /\ unsent = {}
      /\ bound \in [Task -> Pane \cup {NoPane}]
  BY DEF Init
<1>2. row \in [Task -> Row] /\ \A t \in Task : row[t].mod \in 0..1
  <2>1. PICK S \in SUBSET Task \ {{}} :
           row = [t \in Task |-> IF t \in S THEN [NoRow EXCEPT !.mod = 1] ELSE NoRow]
    BY DEF Init
  <2>2. 1 \in Seconds /\ [NoRow EXCEPT !.mod = 1] \in Row /\ [NoRow EXCEPT !.mod = 1].mod = 1
    <3>1. 1 \in Seconds
      BY Constants DEF Seconds
    <3>. QED
      BY <3>1, Rows DEF Row
  <2>. QED
    BY <2>1, <2>2, Rows
<1>3. now \in 1..MaxTime /\ now = 1
  BY <1>1, Constants
<1>4. \A p \in Pane : paneRow[p].at \in 0..now /\ paneRow[p] = NoReport(p)
  BY <1>1 DEF NoReport
<1>5. Idle.todo = << >> /\ \A j \in Projects : Idle.batch[j] = << >>
  BY IdleIs
<1>6. ASSUME NEW p \in Pane
      PROVE  /\ NewActor(p) \in Actor
             /\ PaneKnown(p, NoReport(p), << >>, << >>, Idle.batch, paneRow[p], {}, {})
             /\ PanePassed(p, NewActor(p), << >>, << >>, << >>, Idle.batch, paneRow[p], now)
             /\ \/ NewActor(p).seeded = 0
                \/ PaneInOrder(p, NewActor(p), << >>, << >>, << >>, Idle.batch, paneRow[p], {})
  BY <1>2, <1>3, <1>4, <1>5, FreshPane
<1>7. TypeOK
  <2>1. /\ actor \in [Pane -> Actor] /\ inFlight \in [Pane -> Seq(Report)]
        /\ \A p \in Pane : inFlight[p] = << >> /\ paneLatest[p] = NoReport(p)
        /\ {paneLatest, paneRow} \subseteq [Pane -> Report \cup {NoReport(p) : p \in Pane}]
    BY <1>1, <1>6
  <2>2. \A p \in Pane : /\ Len(inFlight[p]) <= MaxInFlight
                        /\ \A i \in DOMAIN inFlight[p] : inFlight[p][i].pane = p
    <3>1. \A p \in Pane : Len(inFlight[p]) = 0 /\ DOMAIN inFlight[p] = {}
      BY <2>1
    <3>. QED
      BY <3>1, Constants
  <2>3. seen \in [Task -> Row]
    BY <1>1, <1>2, Rows DEF Listed
  <2>4. reportQueue \in Seq(Report) /\ triggered \in BOOLEAN /\ tick \in Turn
        /\ projectCache \in [Projects -> Cache]
    <3>1. Idle \in Turn /\ << >> \in Seq(Report)
      BY IdleIs
    <3>2. projectCache \in [Projects -> Cache]
      BY <1>1, NoCacheIs
    <3>. QED
      BY <1>1, <3>1, <3>2
  <2>5. spent \in [reports : 0..MaxReports, edits : 0..MaxEdits, faults : 0..MaxFaults]
    BY <1>1, Constants
  <2>. QED
    BY <1>1, <1>2, <1>3, <1>4, <2>1, <2>2, <2>3, <2>4, <2>5 DEF TypeOK
<1>8. TreeComing /\ TurnInStep
  BY <1>1, <1>7, FreshTree
<1>9. KnownIsLast /\ KnownIsStored
  <2>1. \A p \in Pane : PaneKnown(p, paneLatest[p], reportQueue, tick.todo, tick.batch,
                                  paneRow[p], crossed, lost)
    BY <1>1, <1>5, <1>6
  <2>. QED
    BY <2>1, KnownPanes
<1>10. TimesInOrder
  <2>1. \A p \in Pane : \/ p \in overtaken \/ actor[p].seeded = 0
                        \/ PaneInOrder(p, actor[p], inFlight[p], reportQueue, tick.todo,
                                       tick.batch, paneRow[p], crossed)
    BY <1>1, <1>5, <1>6
  <2>. QED
    BY <2>1, OrderedPanes
<1>11. TimesPassed
  <2>1. /\ \A t \in Task : row[t].mod <= now
        /\ \A p \in Pane : PanePassed(p, actor[p], inFlight[p], reportQueue, tick.todo,
                                      tick.batch, paneRow[p], now)
    BY <1>1, <1>2, <1>5, <1>6
  <2>. QED
    BY <2>1, OrderedPanes
<1>. QED
  BY <1>7, <1>8, <1>9, <1>10, <1>11 DEF StateInv

\* A step that changes nothing.
LEMMA StutterKeeps ==
    ASSUME StateInv, UNCHANGED vars
    PROVE  StateInv'
<1>1. TypeOK /\ TurnInStep /\ tick' = tick
  BY DEF StateInv, vars
<1>2. UNCHANGED <<now, paneVars, queueVars, tick, projectCache, storeVars, seen, spent, histVars>>
  BY DEF vars
<1>3. now \in 1..MaxTime /\ now <= now /\ triggered \in BOOLEAN
  BY <1>1, Constants DEF TypeOK
<1>4. TurnInStep'
  BY <1>1 DEF TurnInStep
<1>. QED
  BY <1>1, <1>2, <1>3, <1>4, Spending, TurnIs, QuietStep DEF queueVars

\* Every step preserves it.
LEMMA StepKeeps == StateInv /\ [Next]_vars => StateInv'
<1> SUFFICES ASSUME StateInv, [Next]_vars PROVE StateInv'
  OBVIOUS
<1>1. CASE TickStep
  BY <1>1, RunLoopKeeps, LoadProjectsKeeps, MatchReportKeeps, ReadMaxKeeps, ListTasksKeeps,
     EmitKeeps, StoreBatchKeeps DEF TickStep
<1>2. ASSUME NEW p \in Pane,
             \/ Start(p) \/ Trigger(p)
             \/ \E shown \in Command : OnSnapshotUpdated(p, shown)
             \/ \E i \in 1..MaxInFlight : OnPaneReport(p, i)
      PROVE  StateInv'
  BY <1>2, StartKeeps, TriggerKeeps, OnSnapshotUpdatedKeeps, OnPaneReportKeeps
<1>3. ASSUME NEW t \in Task,
             \/ InsertTask(t) \/ UpsertTaskMeta(t) \/ DeleteTask(t)
             \/ \E p \in Pane \cup {NoPane} : SavePanes(t, p)
      PROVE  StateInv'
  BY <1>3, InsertTaskKeeps, UpsertTaskMetaKeeps, DeleteTaskKeeps, SavePanesKeeps
<1>4. CASE LoadTree \/ Restart \/ Second
  BY <1>4, LoadTreeKeeps, RestartKeeps, SecondKeeps
<1>5. CASE UNCHANGED vars
  BY <1>5, StutterKeeps
<1>. QED
  BY <1>1, <1>2, <1>3, <1>4, <1>5 DEF Next

\* Every state satisfies the inductive invariant: the types, where a turn stands, what is
\* known of a pane, what browsers will show, and the order of times.
THEOREM StateInvariant == Spec => []StateInv
  BY InvStarts, StepKeeps, PTL DEF Spec

\* Every variable holds what the program can put there, whatever the panes, the tasks and
\* the bounds.
THEOREM StateTyped == Spec => []TypeOK
<1>1. StateInv => TypeOK
  BY DEF StateInv
<1>. QED
  BY <1>1, StateInvariant, PTL

\* What the sink takes for known of a pane is stored or will be, unless a call has failed
\* or two reports of one turn have gone to two repositories (OnPaneReport,
\* flushDirtyRuntime).
THEOREM KnownStored == Spec => []KnownIsStored
<1>1. StateInv => KnownIsStored
  BY DEF StateInv
<1>. QED
  BY <1>1, StateInvariant, PTL

--------------------------------------------------------------------------------
(* What browsers show.                                                          *)

\* The newest time of a project is that of no task or not before that of any.
LEMMA NewestIs ==
    ASSUME TypeOK, NEW j
    PROVE  /\ Newest(j) \in Seconds
           /\ \A t \in TasksOf(j) : Exists(t) => row[t].mod <= Newest(j)
<1>. DEFINE mods == {row[t].mod : t \in TasksOf(j)}
<1>1. CASE \E t \in TasksOf(j) : Exists(t)
  <2>1. mods \subseteq 0..MaxTime /\ mods # {}
    BY <1>1 DEF TypeOK, Row, Seconds, TasksOf
  <2>2. MaxOf(mods) \in mods /\ \A m \in mods : m <= MaxOf(mods)
    BY <2>1, Constants, MaxOfIs
  <2>3. Newest(j) \in mods /\ \A t \in TasksOf(j) : row[t].mod <= Newest(j)
    BY <1>1, <2>2 DEF Newest
  <2>. QED
    BY <2>1, <2>3 DEF Seconds
<1>2. CASE ~ \E t \in TasksOf(j) : Exists(t)
  BY <1>2, Constants DEF Newest, Seconds
<1>. QED
  BY <1>1, <1>2

\* A task ahead of the cache makes its project look changed.
LEMMA AheadIsNoticed ==
    ASSUME TypeOK, NEW t \in Task, Ahead(t)
    PROVE  projectCache[Home[t]].mod # Newest(Home[t])
<1>1. Newest(Home[t]) \in Seconds /\ (Exists(t) => row[t].mod <= Newest(Home[t]))
  BY NewestIs DEF TasksOf
<1>2. projectCache[Home[t]] \in Cache /\ row[t] \in Row /\ Seconds \subseteq Nat
  BY Constants DEF TypeOK, Seconds
<1>3. CASE projectCache[Home[t]].mod = None
  BY <1>1, <1>3, Constants
<1>4. CASE projectCache[Home[t]].mod # None
  <2>1. projectCache[Home[t]].mod \in Nat /\ row[t].mod \in Nat
    BY <1>2, <1>4 DEF Cache, Row
  <2>2. row[t].mod > projectCache[Home[t]].mod
    BY <1>4 DEF Ahead
  <2>3. Exists(t)
    BY <2>1, <2>2, Rows DEF Exists
  <2>. QED
    BY <1>1, <1>2, <2>1, <2>2, <2>3
<1>. QED
  BY <1>3, <1>4

\* Between two turns a browser shows every task as it is stored, or the next turn finds its
\* project changed, unless the change was made behind the cached time or its message was
\* lost (diffProjectsTree, diffTaskRows).
THEOREM TreeShown == Spec => []TreeShownOrNoticed
<1>1. ASSUME StateInv PROVE TreeShownOrNoticed
  <2> SUFFICES ASSUME tick.pc = "idle", NEW t \in Task
               PROVE  seen[t] = Listed(t) \/ t \in silent \cup unsent
                      \/ projectCache[Home[t]].mod # Newest(Home[t])
    BY DEF TreeShownOrNoticed
  <2>1. TypeOK /\ TurnInStep /\ TreeComing
    BY <1>1 DEF StateInv
  <2>2. DOMAIN tick.delta = {}
    BY <2>1, IdleIs DEF TurnInStep
  <2>3. seen[t] = Listed(t) \/ t \in silent \cup unsent \/ Ahead(t)
    BY <2>1, <2>2 DEF TreeComing, Coming, Unknown
  <2>. QED
    BY <2>1, <2>3, AheadIsNoticed
<1>. QED
  BY <1>1, StateInvariant, PTL

--------------------------------------------------------------------------------
(* What is stored of a pane.                                                    *)

\* Only a batch changes the row of a pane.
LEMMA RowsStay ==
    ASSUME [Next]_vars, \A j \in Projects : ~StoreBatch(j), ~Restart
    PROVE  paneRow' = paneRow
<1>1. CASE RunLoop \/ LoadProjects \/ MatchReport \/ ReadMax \/ ListTasks \/ Emit
  BY <1>1 DEF RunLoop, LoadProjects, MatchReport, ReadMax, ListTasks, Emit, storeVars
<1>2. ASSUME NEW p \in Pane,
             \/ Start(p) \/ Trigger(p)
             \/ \E shown \in Command : OnSnapshotUpdated(p, shown)
             \/ \E i \in 1..MaxInFlight : OnPaneReport(p, i)
      PROVE  paneRow' = paneRow
  BY <1>2 DEF Start, Trigger, OnSnapshotUpdated, OnPaneReport, storeVars
<1>3. ASSUME NEW t \in Task,
             \/ InsertTask(t) \/ UpsertTaskMeta(t) \/ DeleteTask(t)
             \/ \E p \in Pane \cup {NoPane} : SavePanes(t, p)
      PROVE  paneRow' = paneRow
  BY <1>3 DEF InsertTask, UpsertTaskMeta, DeleteTask, SavePanes, ChangeRow
<1>4. CASE LoadTree \/ Second \/ UNCHANGED vars
  BY <1>4 DEF LoadTree, Second, storeVars, vars
<1>. QED
  BY <1>1, <1>2, <1>3, <1>4 DEF Next, TickStep

\* The stored time of a pane's last activity never goes back, over restarts too, but when
\* reports are stored out of order or nothing was known of the pane at the start
\* (reportTaskState, loadPaneRuntimeBaselineFromDB).
THEOREM NotBackdated == Spec => ActivityNotBackdated
<1>1. ASSUME StateInv, [Next]_vars
      PROVE  [\A p \in Pane : \/ paneRow'[p].at >= paneRow[p].at
                              \/ p \in crossed \cup overtaken \/ actor[p].seeded = 0]_vars
  <2> SUFFICES ASSUME NEW p \in Pane, p \notin crossed \cup overtaken, actor[p].seeded # 0
               PROVE  paneRow'[p].at >= paneRow[p].at
    OBVIOUS
  <2>1. TypeOK
    BY <1>1 DEF StateInv
  <2>2. paneRow[p].at \in Nat
    BY <2>1, TimesTyped
  <2>3. CASE paneRow' = paneRow
    BY <2>2, <2>3
  <2>4. ASSUME NEW j \in Projects, BatchUpsertRuntime(j) PROVE paneRow'[p].at >= paneRow[p].at
    <3>. DEFINE b == tick.batch[j]
    <3>1. paneRow'[p] = PaneRowOf(b, p)
      BY <2>4 DEF BatchUpsertRuntime
    <3>2. b \in Seq(Entry)
      BY <2>1, TurnIs
    <3>3. CASE OfPane(b, p) = {}
      BY <2>2, <3>1, <3>3 DEF PaneRowOf
    <3>4. CASE OfPane(b, p) # {}
      <4>1. PaneRowOf(b, p).at \in BatchTimes(b, p)
        BY <2>1, <3>2, <3>4, RowLeft
      <4>2. PaneInOrder(p, actor[p], inFlight[p], reportQueue, tick.todo, tick.batch, paneRow[p],
                        crossed)
        BY <1>1, InvBefore
      <4>3. NotAfter({paneRow[p].at}, BatchTimes(b, p))
        BY <4>2 DEF PaneInOrder
      <4>4. paneRow[p].at <= PaneRowOf(b, p).at
        BY <4>1, <4>3 DEF NotAfter
      <4>5. PaneRowOf(b, p).at \in Nat
        BY <2>1, <3>2, <4>1, TimesTyped
      <4>. QED
        BY <2>2, <3>1, <4>4, <4>5
    <3>. QED
      BY <3>3, <3>4
  <2>5. ASSUME NEW j \in Projects, StoreBatch(j) PROVE paneRow' = paneRow \/ BatchUpsertRuntime(j)
    BY <2>5 DEF StoreBatch, storeVars
  <2>6. Restart => paneRow' = paneRow
    BY DEF Restart, storeVars
  <2>. QED
    BY <1>1, <2>3, <2>4, <2>5, <2>6, RowsStay
<1>. QED
  BY <1>1, StateInvariant, PTL DEF Spec, ActivityNotBackdated

================================================================================
