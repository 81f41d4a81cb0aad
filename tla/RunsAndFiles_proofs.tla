------------------------- MODULE RunsAndFiles_proofs -------------------------
(* Proofs about the runs and the files of tasks: TaskRuns, for every set of   *)
(* runs and goroutines and every bound (its inductive invariant and the       *)
(* properties in it), and TaskFiles, for every set of requests and paths and  *)
(* every bound (its inductive invariant, the properties in it, and that no    *)
(* step loses a line without its being named).                                *)
EXTENDS TaskRuns, TaskFiles, FiniteSetTheorems, SequenceTheorems, TLAPS

--------------------------------------------------------------------------------
(* TaskRuns.                                                                  *)

\* The invariant holds once the task has been created.
LEMMA RunsInvInit == RunsInit => RunsInv
<1> SUFFICES ASSUME RunsInit PROVE RunsInv
  OBVIOUS
<1>. USE TaskRunsAssumption
<1>0. /\ 0 \in 0..MaxSecond /\ 0 \in 0..MaxServer /\ 1 \in Server
      /\ 0 \in 0..MaxStoreErrors /\ 0 \in 0..MaxRestarts
  BY DEF Server
<1>1. \A c \in Call : call[c] = [kind |-> "none", pc |-> "idle", second |-> 0,
                                run |-> NoRun, old |-> 0]
  BY DEF RunsInit, IdleCall, Doing
<1>2. \A r \in Run : /\ boundTo[r] = 1 /\ run[r] \in {"none", "running"}
                     /\ binding[r] \in {"none", "live"}
                     /\ binding[r] # "none" => run[r] # "none"
  BY DEF RunsInit
<1>3. RunsTypeOK
  <2>1. call \in [Call -> CallState]
    BY <1>0 DEF RunsInit, IdleCall, Doing, CallState, Kind, PC
  <2>2. /\ run \in [Run -> {"none", "running", "completed", "needs_rebind"}]
        /\ binding \in [Run -> {"none", "live", "stale"}]
    BY DEF RunsInit
  <2>3. boundTo \in [Run -> Server] /\ turns \in [Second -> Nat]
    BY <1>0 DEF RunsInit
  <2>. QED
    BY <1>0, <2>1, <2>2, <2>3 DEF RunsInit, RunsTypeOK
<1>4. CallsKeepFooting
  BY <1>1 DEF CallsKeepFooting
<1>5. MarkBehindNone /\ OneTurnPerSecond /\ AcceptedSecondsAccounted
  BY <1>1 DEF RunsInit, MarkBehindNone, Owes, OneTurnPerSecond, AcceptedSecondsAccounted
<1>6. BindingsOfRuns
  BY <1>2 DEF BindingsOfRuns
<1>7. StaleRunsParked /\ ReboundRunsKept
  BY <1>2 DEF StaleRunsParked, ReboundRunsKept
<1>. QED
  BY <1>3, <1>4, <1>5, <1>6, <1>7 DEF RunsInv

\* A step that changes neither the marks nor who owes a turn keeps what is said
\* of both.
LEMMA OwedFrame ==
    ASSUME RunsInv, UNCHANGED <<observed, marked, turns, lost>>,
           \A d \in Call, s \in Second : Owes(d, s)' <=> Owes(d, s)
    PROVE  MarkBehindNone' /\ OneTurnPerSecond' /\ AcceptedSecondsAccounted'
<1>1. marked \subseteq Second
  BY DEF RunsInv, RunsTypeOK
<1>2. MarkBehindNone'
  BY DEF RunsInv, MarkBehindNone
<1>3. OneTurnPerSecond'
  BY DEF RunsInv, OneTurnPerSecond
<1>4. AcceptedSecondsAccounted'
  BY <1>1 DEF RunsInv, AcceptedSecondsAccounted
<1>. QED
  BY <1>2, <1>3, <1>4

--------------------------------------------------------------------------------
(* One lemma per action.                                                        *)

\* A new run has no binding yet, so nothing is said of it.
LEMMA InvCreateRun ==
    ASSUME RunsInv, NEW r \in Run, CreateRun(r)
    PROVE  RunsInv'
<1>. USE DEF CreateRun, CallAt, storeVars, envVars, histVars
<1>5. RunsTypeOK'
  BY TaskRunsAssumption DEF RunsInv, RunsTypeOK, Second, Server
<1>6. CallsKeepFooting'
  BY DEF RunsInv, RunsTypeOK, CallsKeepFooting, BindingsOfRuns
<1>8. \A d \in Call, s1 \in Second : Owes(d, s1)' <=> Owes(d, s1)
  BY DEF RunsInv, CallsKeepFooting, Owes, Second
<1>9. MarkBehindNone' /\ OneTurnPerSecond' /\ AcceptedSecondsAccounted'
  BY <1>8, OwedFrame
<1>10. BindingsOfRuns'
  BY DEF RunsInv, RunsTypeOK, BindingsOfRuns, CallsKeepFooting, Server
<1>11. StaleRunsParked'
  BY DEF RunsInv, RunsTypeOK, StaleRunsParked, CallsKeepFooting, BindingsOfRuns
<1>12. ReboundRunsKept'
  BY DEF RunsInv, RunsTypeOK, ReboundRunsKept, HalfBound, CallsKeepFooting
<1>. QED
  BY <1>5, <1>6, <1>9, <1>10, <1>11, <1>12 DEF RunsInv

\* A request that has found its run holds nothing yet.
LEMMA InvBindPane ==
    ASSUME RunsInv, NEW c \in Call, NEW r \in Run, BindPane(c, r)
    PROVE  RunsInv'
<1>. USE DEF BindPane, CallAt, storeVars, envVars, histVars
<1>1. call \in [Call -> CallState] /\ call[c] \in CallState
  BY DEF RunsInv, RunsTypeOK
<1>2. call' \in [Call -> CallState]
  BY <1>1, TaskRunsAssumption DEF RunsInv, RunsTypeOK, Starts, GoTo, Ends, IdleCall, Doing,
     CallState, Kind, PC, Server, Second
<1>3. \A d \in Call : d # c => call'[d] = call[d]
  BY <1>1 DEF Starts, GoTo, Ends
<1>4. /\ call'[c].pc = "bind" /\ call'[c].kind = "bind"
      /\ call'[c].second = 0 /\ call'[c].run = r
      /\ call[c].pc = "idle"
  BY <1>1 DEF Starts, GoTo, Ends, IdleCall, Doing, CallState
<1>5. RunsTypeOK'
  BY <1>2, TaskRunsAssumption DEF RunsInv, RunsTypeOK, Second, Server
<1>6. CallsKeepFooting'
  BY <1>3, <1>4, <1>1 DEF RunsInv, RunsTypeOK, CallsKeepFooting, BindingsOfRuns
<1>8. \A d \in Call, s1 \in Second : Owes(d, s1)' <=> Owes(d, s1)
  BY <1>3, <1>4 DEF RunsInv, CallsKeepFooting, Owes, Second
<1>9. MarkBehindNone' /\ OneTurnPerSecond' /\ AcceptedSecondsAccounted'
  BY <1>8, OwedFrame
<1>10. BindingsOfRuns'
  BY DEF RunsInv, RunsTypeOK, BindingsOfRuns, CallsKeepFooting, Server
<1>11. StaleRunsParked'
  BY DEF RunsInv, RunsTypeOK, StaleRunsParked, CallsKeepFooting, BindingsOfRuns
<1>12. ReboundRunsKept'
  BY <1>3, <1>4 DEF RunsInv, RunsTypeOK, ReboundRunsKept, HalfBound, CallsKeepFooting
<1>. QED
  BY <1>5, <1>6, <1>9, <1>10, <1>11, <1>12 DEF RunsInv

\* The binding that is written is to the present server, and the run is half bound.
LEMMA InvUpsertRunBinding ==
    ASSUME RunsInv, NEW c \in Call, UpsertRunBinding(c)
    PROVE  RunsInv'
<1>. USE DEF UpsertRunBinding, CallAt, storeVars, envVars, histVars
<1>1. call \in [Call -> CallState] /\ call[c] \in CallState
  BY DEF RunsInv, RunsTypeOK
<1>2. call' \in [Call -> CallState]
  BY <1>1, TaskRunsAssumption DEF RunsInv, RunsTypeOK, Starts, GoTo, Ends, IdleCall, Doing,
     CallState, Kind, PC, Server, Second
<1>3. \A d \in Call : d # c => call'[d] = call[d]
  BY <1>1 DEF Starts, GoTo, Ends
<1>4. /\ call'[c].pc = "running" /\ call'[c].kind = call[c].kind
      /\ call'[c].second = call[c].second /\ call'[c].run = call[c].run
  BY <1>1 DEF Starts, GoTo, Ends, IdleCall, Doing, CallState
<1>5. RunsTypeOK'
  BY <1>2, TaskRunsAssumption DEF RunsInv, RunsTypeOK, Second, Server
<1>6. CallsKeepFooting'
  BY <1>3, <1>4, <1>1 DEF RunsInv, RunsTypeOK, CallsKeepFooting, BindingsOfRuns
<1>8. \A d \in Call, s1 \in Second : Owes(d, s1)' <=> Owes(d, s1)
  BY <1>3, <1>4 DEF RunsInv, CallsKeepFooting, Owes, Second
<1>9. MarkBehindNone' /\ OneTurnPerSecond' /\ AcceptedSecondsAccounted'
  BY <1>8, OwedFrame
<1>10. BindingsOfRuns'
  BY DEF RunsInv, RunsTypeOK, BindingsOfRuns, CallsKeepFooting, Server
<1>11. StaleRunsParked'
  BY DEF RunsInv, RunsTypeOK, StaleRunsParked, CallsKeepFooting, BindingsOfRuns
<1>12. ReboundRunsKept'
  BY <1>3, <1>4 DEF RunsInv, RunsTypeOK, ReboundRunsKept, HalfBound, CallsKeepFooting
<1>. QED
  BY <1>5, <1>6, <1>9, <1>10, <1>11, <1>12 DEF RunsInv

\* The run that is set to running has the live binding written before.
LEMMA InvSetRunning ==
    ASSUME RunsInv, NEW c \in Call, SetRunning(c)
    PROVE  RunsInv'
<1>. USE DEF SetRunning, CallAt, storeVars, envVars, histVars
<1>1. call \in [Call -> CallState] /\ call[c] \in CallState
  BY DEF RunsInv, RunsTypeOK
<1>2. call' \in [Call -> CallState]
  BY <1>1, TaskRunsAssumption DEF RunsInv, RunsTypeOK, Starts, GoTo, Ends, IdleCall, Doing,
     CallState, Kind, PC, Server, Second
<1>3. \A d \in Call : d # c => call'[d] = call[d]
  BY <1>1 DEF Starts, GoTo, Ends
<1>4. /\ call'[c].pc = "idle" /\ call'[c].kind = "none"
      /\ call'[c].second = 0 /\ call'[c].run = NoRun
  BY <1>1 DEF Starts, GoTo, Ends, IdleCall, Doing, CallState
<1>5. RunsTypeOK'
  BY <1>2, TaskRunsAssumption DEF RunsInv, RunsTypeOK, Second, Server
<1>6. CallsKeepFooting'
  BY <1>3, <1>4, <1>1 DEF RunsInv, RunsTypeOK, CallsKeepFooting, BindingsOfRuns
<1>8. \A d \in Call, s1 \in Second : Owes(d, s1)' <=> Owes(d, s1)
  BY <1>3, <1>4 DEF RunsInv, CallsKeepFooting, Owes, Second
<1>9. MarkBehindNone' /\ OneTurnPerSecond' /\ AcceptedSecondsAccounted'
  BY <1>8, OwedFrame
<1>10. BindingsOfRuns'
  BY DEF RunsInv, RunsTypeOK, BindingsOfRuns, CallsKeepFooting, Server
<1>11. StaleRunsParked'
  BY DEF RunsInv, RunsTypeOK, StaleRunsParked, CallsKeepFooting, BindingsOfRuns
<1>12. ReboundRunsKept'
  BY <1>3, <1>4 DEF RunsInv, RunsTypeOK, ReboundRunsKept, HalfBound, CallsKeepFooting
<1>. QED
  BY <1>5, <1>6, <1>9, <1>10, <1>11, <1>12 DEF RunsInv

\* A resume owes no second.
LEMMA InvResume ==
    ASSUME RunsInv, NEW c \in Call, NEW r \in Run, Resume(c, r)
    PROVE  RunsInv'
<1>. USE DEF Resume, CallAt, storeVars, envVars, histVars
<1>1. call \in [Call -> CallState] /\ call[c] \in CallState
  BY DEF RunsInv, RunsTypeOK
<1>2. call' \in [Call -> CallState]
  BY <1>1, TaskRunsAssumption DEF RunsInv, RunsTypeOK, Starts, GoTo, Ends, IdleCall, Doing,
     CallState, Kind, PC, Server, Second
<1>3. \A d \in Call : d # c => call'[d] = call[d]
  BY <1>1 DEF Starts, GoTo, Ends
<1>4. /\ call'[c].pc = "check" /\ call'[c].kind = "resume"
      /\ call'[c].second = 0 /\ call'[c].run = r
      /\ call[c].pc = "idle"
  BY <1>1 DEF Starts, GoTo, Ends, IdleCall, Doing, CallState
<1>5. RunsTypeOK'
  BY <1>2, TaskRunsAssumption DEF RunsInv, RunsTypeOK, Second, Server
<1>6. CallsKeepFooting'
  BY <1>3, <1>4, <1>1 DEF RunsInv, RunsTypeOK, CallsKeepFooting, BindingsOfRuns
<1>8. \A d \in Call, s1 \in Second : Owes(d, s1)' <=> Owes(d, s1)
  BY <1>3, <1>4 DEF RunsInv, CallsKeepFooting, Owes, Second
<1>9. MarkBehindNone' /\ OneTurnPerSecond' /\ AcceptedSecondsAccounted'
  BY <1>8, OwedFrame
<1>10. BindingsOfRuns'
  BY DEF RunsInv, RunsTypeOK, BindingsOfRuns, CallsKeepFooting, Server
<1>11. StaleRunsParked'
  BY DEF RunsInv, RunsTypeOK, StaleRunsParked, CallsKeepFooting, BindingsOfRuns
<1>12. ReboundRunsKept'
  BY <1>3, <1>4 DEF RunsInv, RunsTypeOK, ReboundRunsKept, HalfBound, CallsKeepFooting
<1>. QED
  BY <1>5, <1>6, <1>9, <1>10, <1>11, <1>12 DEF RunsInv

\* A binding is written off only when it is not to the present server.
LEMMA InvCheckBinding ==
    ASSUME RunsInv, NEW c \in Call, CheckBinding(c)
    PROVE  RunsInv'
<1>. USE DEF CheckBinding, CallAt, storeVars, envVars, histVars
<1>1. call \in [Call -> CallState] /\ call[c] \in CallState
  BY DEF RunsInv, RunsTypeOK
<1>2. call' \in [Call -> CallState]
  <2>1. call[c].run \in Run /\ boundTo[call[c].run] \in 0..MaxServer
    BY <1>1 DEF RunsInv, RunsTypeOK, CallsKeepFooting, Server
  <2>2. IdleCall \in CallState
    BY TaskRunsAssumption DEF IdleCall, Doing, CallState, Kind, PC
  <2>3. [call[c] EXCEPT !.pc = "complete"] \in CallState
    BY <1>1 DEF CallState, PC
  <2>4. \A n \in 0..MaxServer : [call[c] EXCEPT !.pc = "stale", !.old = n] \in CallState
    BY <1>1 DEF CallState, PC
  <2>5. CASE binding[call[c].run] = "live" /\ boundTo[call[c].run] # server
    <3>1. call' = [call EXCEPT ![c] = [call[c] EXCEPT !.pc = "stale",
                                                      !.old = boundTo[call[c].run]]]
      BY <1>1, <2>5
    <3>. QED
      BY <1>1, <2>1, <2>4, <3>1
  <2>6. CASE ~(binding[call[c].run] = "live" /\ boundTo[call[c].run] # server)
    BY <1>1, <2>2, <2>3, <2>6 DEF GoTo, Ends
  <2>. QED
    BY <2>5, <2>6
<1>3. \A d \in Call : d # c => call'[d] = call[d]
  BY <1>1 DEF Starts, GoTo, Ends
<1>4. \/ /\ boundTo[call[c].run] # server
         /\ call'[c].pc = "stale" /\ call'[c].kind = call[c].kind
         /\ call'[c].second = call[c].second /\ call'[c].run = call[c].run
         /\ call'[c].old = boundTo[call[c].run]
      \/ /\ call[c].kind = "resume"
         /\ call'[c].pc = "idle" /\ call'[c].kind = "none"
         /\ call'[c].second = 0 /\ call'[c].run = NoRun
      \/ /\ call'[c].pc = "complete" /\ call'[c].kind = call[c].kind
         /\ call'[c].second = call[c].second /\ call'[c].run = call[c].run
  BY <1>1 DEF Starts, GoTo, Ends, IdleCall, Doing, CallState
<1>5. RunsTypeOK'
  BY <1>2, TaskRunsAssumption DEF RunsInv, RunsTypeOK, Second, Server
<1>6. CallsKeepFooting'
  BY <1>3, <1>4, <1>1 DEF RunsInv, RunsTypeOK, CallsKeepFooting, BindingsOfRuns
<1>8. \A d \in Call, s1 \in Second : Owes(d, s1)' <=> Owes(d, s1)
  BY <1>3, <1>4 DEF RunsInv, CallsKeepFooting, Owes, Second
<1>9. MarkBehindNone' /\ OneTurnPerSecond' /\ AcceptedSecondsAccounted'
  BY <1>8, OwedFrame
<1>10. BindingsOfRuns'
  BY DEF RunsInv, RunsTypeOK, BindingsOfRuns, CallsKeepFooting, Server
<1>11. StaleRunsParked'
  BY DEF RunsInv, RunsTypeOK, StaleRunsParked, CallsKeepFooting, BindingsOfRuns
<1>12. ReboundRunsKept'
  BY <1>3, <1>4 DEF RunsInv, RunsTypeOK, ReboundRunsKept, HalfBound, CallsKeepFooting
<1>. QED
  BY <1>5, <1>6, <1>9, <1>10, <1>11, <1>12 DEF RunsInv

\* The transaction parks exactly the runs whose bindings it makes stale.
LEMMA InvMarkBindingsStaleByServer ==
    ASSUME RunsInv, NEW c \in Call, MarkBindingsStaleByServer(c)
    PROVE  RunsInv'
<1>. USE DEF MarkBindingsStaleByServer, CallAt, storeVars, envVars, histVars
<1>1. call \in [Call -> CallState] /\ call[c] \in CallState
  BY DEF RunsInv, RunsTypeOK
<1>2. call' \in [Call -> CallState]
  BY <1>1, TaskRunsAssumption DEF RunsInv, RunsTypeOK, Starts, GoTo, Ends, IdleCall, Doing,
     CallState, Kind, PC, Server, Second
<1>3. \A d \in Call : d # c => call'[d] = call[d]
  BY <1>1 DEF Starts, GoTo, Ends
<1>4. /\ call'[c].pc = "rebind" /\ call'[c].kind = call[c].kind
      /\ call'[c].second = call[c].second /\ call'[c].run = call[c].run
  BY <1>1 DEF Starts, GoTo, Ends, IdleCall, Doing, CallState
<1>5. RunsTypeOK'
  BY <1>2, TaskRunsAssumption DEF RunsInv, RunsTypeOK, Second, Server
<1>6. CallsKeepFooting'
  BY <1>3, <1>4, <1>1 DEF RunsInv, RunsTypeOK, CallsKeepFooting, BindingsOfRuns
<1>8. \A d \in Call, s1 \in Second : Owes(d, s1)' <=> Owes(d, s1)
  BY <1>3, <1>4 DEF RunsInv, CallsKeepFooting, Owes, Second
<1>9. MarkBehindNone' /\ OneTurnPerSecond' /\ AcceptedSecondsAccounted'
  BY <1>8, OwedFrame
<1>10. BindingsOfRuns'
  BY DEF RunsInv, RunsTypeOK, BindingsOfRuns, CallsKeepFooting, Server
<1>11. StaleRunsParked'
  BY DEF RunsInv, RunsTypeOK, StaleRunsParked, CallsKeepFooting, BindingsOfRuns
<1>12. ReboundRunsKept'
  BY <1>3, <1>4 DEF RunsInv, RunsTypeOK, ReboundRunsKept, HalfBound, CallsKeepFooting
<1>. QED
  BY <1>5, <1>6, <1>9, <1>10, <1>11, <1>12 DEF RunsInv

\* The late write parks a run that was bound again, which is then torn.
LEMMA InvSetNeedsRebind ==
    ASSUME RunsInv, NEW c \in Call, SetNeedsRebind(c)
    PROVE  RunsInv'
<1>. USE DEF SetNeedsRebind, CallAt, storeVars, envVars, histVars
<1>1. call \in [Call -> CallState] /\ call[c] \in CallState
  BY DEF RunsInv, RunsTypeOK
<1>2. call' \in [Call -> CallState]
  BY <1>1, TaskRunsAssumption DEF RunsInv, RunsTypeOK, Starts, GoTo, Ends, IdleCall, Doing,
     CallState, Kind, PC, Server, Second
<1>3. \A d \in Call : d # c => call'[d] = call[d]
  BY <1>1 DEF Starts, GoTo, Ends
<1>4. /\ call'[c].pc = "idle" /\ call'[c].kind = "none"
      /\ call'[c].second = 0 /\ call'[c].run = NoRun
  BY <1>1 DEF Starts, GoTo, Ends, IdleCall, Doing, CallState
<1>5. RunsTypeOK'
  <2>1. call[c].run \in Run /\ call[c].second \in 0..MaxSecond
    BY <1>1 DEF RunsInv, CallsKeepFooting, CallState
  <2>2. lost' \subseteq Second /\ torn' \subseteq Run
    <3>1. {call[c].second} \ {0} \subseteq Second
      BY <2>1, TaskRunsAssumption DEF Second
    <3>2. torn' \subseteq Run
      BY <2>1 DEF RunsInv, RunsTypeOK
    <3>. QED
      BY <3>1, <3>2 DEF RunsInv, RunsTypeOK
  <2>3. run' \in [Run -> {"none", "running", "completed", "needs_rebind"}]
    BY DEF RunsInv, RunsTypeOK
  <2>. QED
    BY <1>2, <2>2, <2>3 DEF RunsInv, RunsTypeOK
<1>6. CallsKeepFooting'
  BY <1>3, <1>4, <1>1 DEF RunsInv, RunsTypeOK, CallsKeepFooting, BindingsOfRuns
<1>7. MarkBehindNone'
  BY <1>3, <1>4 DEF RunsInv, RunsTypeOK, CallsKeepFooting, MarkBehindNone, Owes, Second
<1>8. OneTurnPerSecond' /\ AcceptedSecondsAccounted'
  BY <1>3, <1>4 DEF RunsInv, RunsTypeOK, OneTurnPerSecond, AcceptedSecondsAccounted,
     MarkBehindNone, Owes, Second
<1>9. MarkBehindNone' /\ OneTurnPerSecond' /\ AcceptedSecondsAccounted'
  BY <1>7, <1>8
<1>10. BindingsOfRuns'
  BY DEF RunsInv, RunsTypeOK, BindingsOfRuns, CallsKeepFooting, Server
<1>11. StaleRunsParked'
  BY DEF RunsInv, RunsTypeOK, StaleRunsParked, CallsKeepFooting, BindingsOfRuns
<1>12. ReboundRunsKept'
  BY <1>3, <1>4 DEF RunsInv, RunsTypeOK, ReboundRunsKept, HalfBound, CallsKeepFooting
<1>. QED
  BY <1>5, <1>6, <1>9, <1>10, <1>11, <1>12 DEF RunsInv

\* A trigger owes nothing before the mark.
LEMMA InvPaneReady ==
    ASSUME RunsInv, NEW c \in Call, NEW s \in Second, PaneReady(c, s)
    PROVE  RunsInv'
<1>. USE DEF PaneReady, CallAt, storeVars, envVars, histVars
<1>1. call \in [Call -> CallState] /\ call[c] \in CallState
  BY DEF RunsInv, RunsTypeOK
<1>2. call' \in [Call -> CallState]
  <2>1. Doing("trigger", "mark", s, NoRun, 0) \in CallState
    BY TaskRunsAssumption DEF Doing, CallState, Kind, PC, Second
  <2>. QED
    BY <1>1, <2>1 DEF Starts
<1>3. \A d \in Call : d # c => call'[d] = call[d]
  BY <1>1 DEF Starts, GoTo, Ends
<1>4. /\ call'[c].pc = "mark" /\ call'[c].kind = "trigger"
      /\ call'[c].second = s /\ call'[c].run = NoRun
      /\ call[c].pc = "idle"
  BY <1>1 DEF Starts, GoTo, Ends, IdleCall, Doing, CallState
<1>5. RunsTypeOK'
  BY <1>2, TaskRunsAssumption DEF RunsInv, RunsTypeOK, Second, Server
<1>6. CallsKeepFooting'
  BY <1>3, <1>4, <1>1 DEF RunsInv, RunsTypeOK, CallsKeepFooting, BindingsOfRuns
<1>8. \A d \in Call, s1 \in Second : Owes(d, s1)' <=> Owes(d, s1)
  BY <1>3, <1>4 DEF RunsInv, CallsKeepFooting, Owes, Second
<1>9. MarkBehindNone' /\ OneTurnPerSecond' /\ AcceptedSecondsAccounted'
  BY <1>8, OwedFrame
<1>10. BindingsOfRuns'
  BY DEF RunsInv, RunsTypeOK, BindingsOfRuns, CallsKeepFooting, Server
<1>11. StaleRunsParked'
  BY DEF RunsInv, RunsTypeOK, StaleRunsParked, CallsKeepFooting, BindingsOfRuns
<1>12. ReboundRunsKept'
  BY <1>3, <1>4 DEF RunsInv, RunsTypeOK, ReboundRunsKept, HalfBound, CallsKeepFooting
<1>. QED
  BY <1>5, <1>6, <1>9, <1>10, <1>11, <1>12 DEF RunsInv

\* The fallback owes no second.
LEMMA InvFallbackFires ==
    ASSUME RunsInv, NEW c \in Call, FallbackFires(c)
    PROVE  RunsInv'
<1>. USE DEF FallbackFires, CallAt, storeVars, envVars, histVars
<1>1. call \in [Call -> CallState] /\ call[c] \in CallState
  BY DEF RunsInv, RunsTypeOK
<1>2. call' \in [Call -> CallState]
  <2>1. Doing("fallback", "find", 0, NoRun, 0) \in CallState
    BY TaskRunsAssumption DEF Doing, CallState, Kind, PC
  <2>. QED
    BY <1>1, <2>1 DEF Starts
<1>3. \A d \in Call : d # c => call'[d] = call[d]
  BY <1>1 DEF Starts, GoTo, Ends
<1>4. \/ /\ CallAt(c, "idle")
         /\ call'[c].pc = "find" /\ call'[c].kind = "fallback"
         /\ call'[c].second = 0 /\ call'[c].run = NoRun
      \/ call'[c] = call[c]
  BY <1>1 DEF Starts, GoTo, Ends, IdleCall, Doing, CallState
<1>5. RunsTypeOK'
  BY <1>2, TaskRunsAssumption DEF RunsInv, RunsTypeOK, Second, Server
<1>6. CallsKeepFooting'
  BY <1>3, <1>4, <1>1 DEF RunsInv, RunsTypeOK, CallsKeepFooting, BindingsOfRuns
<1>8. \A d \in Call, s1 \in Second : Owes(d, s1)' <=> Owes(d, s1)
  BY <1>3, <1>4 DEF RunsInv, CallsKeepFooting, Owes, Second
<1>9. MarkBehindNone' /\ OneTurnPerSecond' /\ AcceptedSecondsAccounted'
  BY <1>8, OwedFrame
<1>10. BindingsOfRuns'
  BY DEF RunsInv, RunsTypeOK, BindingsOfRuns, CallsKeepFooting, Server
<1>11. StaleRunsParked'
  BY DEF RunsInv, RunsTypeOK, StaleRunsParked, CallsKeepFooting, BindingsOfRuns
<1>12. ReboundRunsKept'
  BY <1>3, <1>4 DEF RunsInv, RunsTypeOK, ReboundRunsKept, HalfBound, CallsKeepFooting
<1>. QED
  BY <1>5, <1>6, <1>9, <1>10, <1>11, <1>12 DEF RunsInv

\* The mark moves on, so nobody else can owe, or have posted, the second it accepts.
LEMMA InvTryMark ==
    ASSUME RunsInv, NEW c \in Call, TryMark(c)
    PROVE  RunsInv'
<1>. USE DEF TryMark, CallAt, storeVars, envVars, histVars
<1>1. call \in [Call -> CallState] /\ call[c] \in CallState
  BY DEF RunsInv, RunsTypeOK
<1>2. call' \in [Call -> CallState]
  <2>1. IdleCall \in CallState /\ [call[c] EXCEPT !.pc = "find"] \in CallState
    BY <1>1, TaskRunsAssumption DEF IdleCall, Doing, CallState, Kind, PC
  <2>. QED
    BY <1>1, <2>1 DEF GoTo, Ends
<1>3. \A d \in Call : d # c => call'[d] = call[d]
  BY <1>1 DEF Starts, GoTo, Ends
<1>4. \/ /\ observed < call[c].second
         /\ call'[c].pc = "find" /\ call'[c].kind = call[c].kind
         /\ call'[c].second = call[c].second /\ call'[c].run = call[c].run
      \/ /\ ~(observed < call[c].second)
         /\ call'[c].pc = "idle" /\ call'[c].kind = "none"
         /\ call'[c].second = 0 /\ call'[c].run = NoRun
  BY <1>1 DEF Starts, GoTo, Ends, IdleCall, Doing, CallState
<1>5. RunsTypeOK'
  <2>1. call[c].second \in Second
    BY DEF RunsInv, CallsKeepFooting
  <2>2. observed' \in 0..MaxSecond /\ marked' \subseteq Second
    <3>1. call[c].second \in 0..MaxSecond
      BY <1>1 DEF CallState
    <3>. QED
      BY <2>1, <3>1 DEF RunsInv, RunsTypeOK
  <2>. QED
    BY <1>2, <2>2 DEF RunsInv, RunsTypeOK
<1>6. CallsKeepFooting'
  BY <1>3, <1>4, <1>1 DEF RunsInv, RunsTypeOK, CallsKeepFooting, BindingsOfRuns
<1>7. MarkBehindNone'
  <2>1. /\ call[c].second \in Second /\ observed \in Nat /\ marked \subseteq Second
        /\ \A s \in Second : s \in Nat
    BY TaskRunsAssumption DEF RunsInv, RunsTypeOK, CallsKeepFooting, Second
  <2>2. CASE ~(observed < call[c].second)
    <3>1. \A d \in Call, s \in Second : Owes(d, s)' <=> Owes(d, s)
      BY <1>3, <1>4, <2>2 DEF Owes
    <3>. QED
      BY <2>2, <3>1 DEF RunsInv, MarkBehindNone
  <2>3. CASE observed < call[c].second
    <3>1. /\ observed' = call[c].second /\ marked' = marked \union {call[c].second}
          /\ UNCHANGED turns
      BY <2>3
    <3>2. call[c].second \notin marked /\ \A s \in marked : s <= observed'
      BY <2>1, <2>3, <3>1 DEF RunsInv, MarkBehindNone
    <3>3. turns[call[c].second] = 0 /\ \A d \in Call : ~Owes(d, call[c].second)
      BY <2>1, <3>2 DEF RunsInv, MarkBehindNone
    <3>4. \A d \in Call, s \in Second :
              Owes(d, s)' <=> Owes(d, s) \/ (d = c /\ s = call[c].second)
      BY <1>3, <1>4, <2>3 DEF Owes
    <3>5. \A s \in marked' : s <= observed'
      BY <2>1, <3>1, <3>2
    <3>6. \A s \in Second : turns'[s] # 0 => s \in marked'
      BY <3>1 DEF RunsInv, MarkBehindNone
    <3>7. ASSUME NEW d \in Call, NEW s \in Second, Owes(d, s)'
          PROVE  s \in marked' /\ turns'[s] = 0 /\ \A b \in Call : Owes(b, s)' => b = d
      BY <3>1, <3>3, <3>4, <3>7 DEF RunsInv, MarkBehindNone
    <3>. QED
      BY <3>5, <3>6, <3>7 DEF MarkBehindNone
  <2>. QED
    BY <2>2, <2>3
<1>8. OneTurnPerSecond' /\ AcceptedSecondsAccounted'
  <2>1. OneTurnPerSecond'
    BY DEF RunsInv, OneTurnPerSecond
  <2>2. \A d \in Call, s \in Second : Owes(d, s) => Owes(d, s)'
    BY <1>3, <1>4 DEF Owes
  <2>3. call[c].second \in Second /\ marked \subseteq Second
    BY DEF RunsInv, RunsTypeOK, CallsKeepFooting
  <2>4. \A s \in marked : turns'[s] = 1 \/ s \in lost' \/ \E d \in Call : Owes(d, s)'
    BY <2>2, <2>3 DEF RunsInv, AcceptedSecondsAccounted
  <2>5. marked' = marked \/ (marked' = marked \union {call[c].second} /\ Owes(c, call[c].second)')
    BY <1>4 DEF Owes
  <2>6. AcceptedSecondsAccounted'
    <3>1. ASSUME NEW s \in marked'
          PROVE  turns'[s] = 1 \/ s \in lost' \/ \E d \in Call : Owes(d, s)'
      <4>1. s \in marked \/ (s = call[c].second /\ Owes(c, call[c].second)')
        BY <2>5, <3>1
      <4>2. CASE s \in marked
        BY <2>4, <4>2
      <4>3. CASE s = call[c].second /\ Owes(c, call[c].second)'
        <5>1. Owes(c, s)'
          BY <1>4, <4>3 DEF Owes
        <5>. QED
          BY <5>1
      <4>. QED
        BY <4>1, <4>2, <4>3
    <3>. QED
      BY <3>1 DEF AcceptedSecondsAccounted
  <2>. QED
    BY <2>1, <2>6
<1>9. MarkBehindNone' /\ OneTurnPerSecond' /\ AcceptedSecondsAccounted'
  BY <1>7, <1>8
<1>10. BindingsOfRuns'
  BY DEF RunsInv, RunsTypeOK, BindingsOfRuns, CallsKeepFooting, Server
<1>11. StaleRunsParked'
  BY DEF RunsInv, RunsTypeOK, StaleRunsParked, CallsKeepFooting, BindingsOfRuns
<1>12. ReboundRunsKept'
  BY <1>3, <1>4 DEF RunsInv, RunsTypeOK, ReboundRunsKept, HalfBound, CallsKeepFooting
<1>. QED
  BY <1>5, <1>6, <1>9, <1>10, <1>11, <1>12 DEF RunsInv

\* The run that is found exists.
LEMMA InvFindRun ==
    ASSUME RunsInv, NEW c \in Call, FindRun(c)
    PROVE  RunsInv'
<1>. USE DEF FindRun, LiveRunning, CallAt, storeVars, envVars, histVars
<1>1. call \in [Call -> CallState] /\ call[c] \in CallState
  BY DEF RunsInv, RunsTypeOK
<1>2. call' \in [Call -> CallState]
  <2>1. [call[c] EXCEPT !.pc = "task"] \in CallState
    BY <1>1 DEF CallState, PC
  <2>2. \A r \in Run : [call[c] EXCEPT !.pc = "check", !.run = r] \in CallState
    BY <1>1 DEF CallState, PC
  <2>. QED
    BY <1>1, <2>1, <2>2 DEF GoTo
<1>3. \A d \in Call : d # c => call'[d] = call[d]
  BY <1>1 DEF Starts, GoTo, Ends
<1>4. \/ /\ call'[c].pc = "task" /\ call'[c].kind = call[c].kind
         /\ call'[c].second = call[c].second /\ call'[c].run = call[c].run
      \/ \E r \in Run : /\ run[r] = "running"
                       /\ call'[c].pc = "check" /\ call'[c].kind = call[c].kind
                       /\ call'[c].second = call[c].second /\ call'[c].run = r
  BY <1>1 DEF Starts, GoTo, Ends, IdleCall, Doing, CallState
<1>5. RunsTypeOK'
  BY <1>2, TaskRunsAssumption DEF RunsInv, RunsTypeOK, Second, Server
<1>6. CallsKeepFooting'
  BY <1>3, <1>4, <1>1 DEF RunsInv, RunsTypeOK, CallsKeepFooting, BindingsOfRuns
<1>8. \A d \in Call, s1 \in Second : Owes(d, s1)' <=> Owes(d, s1)
  BY <1>3, <1>4 DEF RunsInv, CallsKeepFooting, Owes, Second
<1>9. MarkBehindNone' /\ OneTurnPerSecond' /\ AcceptedSecondsAccounted'
  BY <1>8, OwedFrame
<1>10. BindingsOfRuns'
  BY DEF RunsInv, RunsTypeOK, BindingsOfRuns, CallsKeepFooting, Server
<1>11. StaleRunsParked'
  BY DEF RunsInv, RunsTypeOK, StaleRunsParked, CallsKeepFooting, BindingsOfRuns
<1>12. ReboundRunsKept'
  BY <1>3, <1>4 DEF RunsInv, RunsTypeOK, ReboundRunsKept, HalfBound, CallsKeepFooting
<1>. QED
  BY <1>5, <1>6, <1>9, <1>10, <1>11, <1>12 DEF RunsInv

\* A completed run is neither running nor parked.
LEMMA InvMarkRunCompleted ==
    ASSUME RunsInv, NEW c \in Call, MarkRunCompleted(c)
    PROVE  RunsInv'
<1>. USE DEF MarkRunCompleted, CallAt, storeVars, envVars, histVars
<1>1. call \in [Call -> CallState] /\ call[c] \in CallState
  BY DEF RunsInv, RunsTypeOK
<1>2. call' \in [Call -> CallState]
  BY <1>1, TaskRunsAssumption DEF RunsInv, RunsTypeOK, Starts, GoTo, Ends, IdleCall, Doing,
     CallState, Kind, PC, Server, Second
<1>3. \A d \in Call : d # c => call'[d] = call[d]
  BY <1>1 DEF Starts, GoTo, Ends
<1>4. /\ call'[c].pc = "task" /\ call'[c].kind = call[c].kind
      /\ call'[c].second = call[c].second /\ call'[c].run = call[c].run
  BY <1>1 DEF Starts, GoTo, Ends, IdleCall, Doing, CallState
<1>5. RunsTypeOK'
  BY <1>2, TaskRunsAssumption DEF RunsInv, RunsTypeOK, Second, Server
<1>6. CallsKeepFooting'
  BY <1>3, <1>4, <1>1 DEF RunsInv, RunsTypeOK, CallsKeepFooting, BindingsOfRuns
<1>8. \A d \in Call, s1 \in Second : Owes(d, s1)' <=> Owes(d, s1)
  BY <1>3, <1>4 DEF RunsInv, CallsKeepFooting, Owes, Second
<1>9. MarkBehindNone' /\ OneTurnPerSecond' /\ AcceptedSecondsAccounted'
  BY <1>8, OwedFrame
<1>10. BindingsOfRuns'
  BY DEF RunsInv, RunsTypeOK, BindingsOfRuns, CallsKeepFooting, Server
<1>11. StaleRunsParked'
  BY DEF RunsInv, RunsTypeOK, StaleRunsParked, CallsKeepFooting, BindingsOfRuns
<1>12. ReboundRunsKept'
  BY <1>3, <1>4 DEF RunsInv, RunsTypeOK, ReboundRunsKept, HalfBound, CallsKeepFooting
<1>. QED
  BY <1>5, <1>6, <1>9, <1>10, <1>11, <1>12 DEF RunsInv

\* The task's status is told by no part of the invariant.
LEMMA InvCompleteTask ==
    ASSUME RunsInv, NEW c \in Call, CompleteTask(c)
    PROVE  RunsInv'
<1>. USE DEF CompleteTask, CallAt, storeVars, envVars, histVars
<1>1. call \in [Call -> CallState] /\ call[c] \in CallState
  BY DEF RunsInv, RunsTypeOK
<1>2. call' \in [Call -> CallState]
  BY <1>1, TaskRunsAssumption DEF RunsInv, RunsTypeOK, Starts, GoTo, Ends, IdleCall, Doing,
     CallState, Kind, PC, Server, Second
<1>3. \A d \in Call : d # c => call'[d] = call[d]
  BY <1>1 DEF Starts, GoTo, Ends
<1>4. /\ call'[c].pc \in {"post", "outbox"} /\ call'[c].kind = call[c].kind
      /\ call'[c].second = call[c].second /\ call'[c].run = call[c].run
  BY <1>1 DEF Starts, GoTo, Ends, IdleCall, Doing, CallState
<1>5. RunsTypeOK'
  BY <1>2, TaskRunsAssumption DEF RunsInv, RunsTypeOK, Second, Server
<1>6. CallsKeepFooting'
  BY <1>3, <1>4, <1>1 DEF RunsInv, RunsTypeOK, CallsKeepFooting, BindingsOfRuns
<1>8. \A d \in Call, s1 \in Second : Owes(d, s1)' <=> Owes(d, s1)
  BY <1>3, <1>4 DEF RunsInv, CallsKeepFooting, Owes, Second
<1>9. MarkBehindNone' /\ OneTurnPerSecond' /\ AcceptedSecondsAccounted'
  BY <1>8, OwedFrame
<1>10. BindingsOfRuns'
  BY DEF RunsInv, RunsTypeOK, BindingsOfRuns, CallsKeepFooting, Server
<1>11. StaleRunsParked'
  BY DEF RunsInv, RunsTypeOK, StaleRunsParked, CallsKeepFooting, BindingsOfRuns
<1>12. ReboundRunsKept'
  BY <1>3, <1>4 DEF RunsInv, RunsTypeOK, ReboundRunsKept, HalfBound, CallsKeepFooting
<1>. QED
  BY <1>5, <1>6, <1>9, <1>10, <1>11, <1>12 DEF RunsInv

\* The outbox is written by the one that owes the turn.
LEMMA InvEnqueueRunAction ==
    ASSUME RunsInv, NEW c \in Call, EnqueueRunAction(c)
    PROVE  RunsInv'
<1>. USE DEF EnqueueRunAction, CallAt, storeVars, envVars, histVars
<1>1. call \in [Call -> CallState] /\ call[c] \in CallState
  BY DEF RunsInv, RunsTypeOK
<1>2. call' \in [Call -> CallState]
  BY <1>1, TaskRunsAssumption DEF RunsInv, RunsTypeOK, Starts, GoTo, Ends, IdleCall, Doing,
     CallState, Kind, PC, Server, Second
<1>3. \A d \in Call : d # c => call'[d] = call[d]
  BY <1>1 DEF Starts, GoTo, Ends
<1>4. /\ call'[c].pc = "post" /\ call'[c].kind = call[c].kind
      /\ call'[c].second = call[c].second /\ call'[c].run = call[c].run
  BY <1>1 DEF Starts, GoTo, Ends, IdleCall, Doing, CallState
<1>5. RunsTypeOK'
  BY <1>2, TaskRunsAssumption DEF RunsInv, RunsTypeOK, Second, Server
<1>6. CallsKeepFooting'
  BY <1>3, <1>4, <1>1 DEF RunsInv, RunsTypeOK, CallsKeepFooting, BindingsOfRuns
<1>8. \A d \in Call, s1 \in Second : Owes(d, s1)' <=> Owes(d, s1)
  BY <1>3, <1>4 DEF RunsInv, CallsKeepFooting, Owes, Second
<1>9. MarkBehindNone' /\ OneTurnPerSecond' /\ AcceptedSecondsAccounted'
  BY <1>8, OwedFrame
<1>10. BindingsOfRuns'
  BY DEF RunsInv, RunsTypeOK, BindingsOfRuns, CallsKeepFooting, Server
<1>11. StaleRunsParked'
  BY DEF RunsInv, RunsTypeOK, StaleRunsParked, CallsKeepFooting, BindingsOfRuns
<1>12. ReboundRunsKept'
  BY <1>3, <1>4 DEF RunsInv, RunsTypeOK, ReboundRunsKept, HalfBound, CallsKeepFooting
<1>. QED
  BY <1>5, <1>6, <1>9, <1>10, <1>11, <1>12 DEF RunsInv

\* The turn is posted by the only call that owes it.
LEMMA InvPostTurn ==
    ASSUME RunsInv, NEW c \in Call, PostTurn(c)
    PROVE  RunsInv'
<1>. USE DEF PostTurn, CallAt, storeVars, envVars, histVars
<1>1. call \in [Call -> CallState] /\ call[c] \in CallState
  BY DEF RunsInv, RunsTypeOK
<1>2. call' \in [Call -> CallState]
  BY <1>1, TaskRunsAssumption DEF RunsInv, RunsTypeOK, Starts, GoTo, Ends, IdleCall, Doing,
     CallState, Kind, PC, Server, Second
<1>3. \A d \in Call : d # c => call'[d] = call[d]
  BY <1>1 DEF Starts, GoTo, Ends
<1>4. /\ call'[c].pc = "idle" /\ call'[c].kind = "none"
      /\ call'[c].second = 0 /\ call'[c].run = NoRun
  BY <1>1 DEF Starts, GoTo, Ends, IdleCall, Doing, CallState
<1>5. RunsTypeOK'
  BY <1>2, TaskRunsAssumption DEF RunsInv, RunsTypeOK, Second, Server
<1>6. CallsKeepFooting'
  BY <1>3, <1>4, <1>1 DEF RunsInv, RunsTypeOK, CallsKeepFooting, BindingsOfRuns
<1>7. MarkBehindNone'
  <2>1. \A d \in Call, s \in Second : Owes(d, s)' => d # c /\ Owes(d, s)
    BY <1>3, <1>4 DEF Owes
  <2>2. \A d \in Call, s \in Second : d # c /\ Owes(d, s) => s # call[c].second
    <3>1. SUFFICES ASSUME NEW d \in Call, d # c, call[c].second \in Second,
                          Owes(d, call[c].second)
                   PROVE  FALSE
      OBVIOUS
    <3>2. Owes(c, call[c].second)
      BY DEF Owes
    <3>. QED
      BY <3>1, <3>2 DEF RunsInv, MarkBehindNone
  <2>3. \A s \in Second : s # call[c].second => turns'[s] = turns[s]
    OBVIOUS
  <2>4. \A s \in Second : turns'[s] # 0 => s \in marked
    <3>1. SUFFICES ASSUME NEW s \in Second, turns'[s] # 0, s = call[c].second
                   PROVE  s \in marked
      BY <2>3 DEF RunsInv, MarkBehindNone
    <3>2. Owes(c, s)
      BY <3>1 DEF Owes
    <3>. QED
      BY <3>2 DEF RunsInv, MarkBehindNone
  <2>5. ASSUME NEW d \in Call, NEW s \in Second, Owes(d, s)'
        PROVE  s \in marked /\ turns'[s] = 0 /\ \A e \in Call : Owes(e, s)' => e = d
    BY <2>1, <2>2, <2>3, <2>5 DEF RunsInv, MarkBehindNone
  <2>. QED
    BY <2>4, <2>5 DEF RunsInv, MarkBehindNone
<1>8. OneTurnPerSecond' /\ AcceptedSecondsAccounted'
  <2>1. \A s \in Second : s # call[c].second => turns'[s] = turns[s]
    OBVIOUS
  <2>2. ASSUME call[c].second \in Second PROVE turns'[call[c].second] = 1
    <3>1. Owes(c, call[c].second)
      BY <2>2 DEF Owes
    <3>2. turns[call[c].second] = 0
      BY <2>2, <3>1 DEF RunsInv, MarkBehindNone
    <3>3. turns'[call[c].second] = turns[call[c].second] + 1
      BY <2>2
    <3>. QED
      BY <3>2, <3>3
  <2>3. OneTurnPerSecond'
    <3>1. SUFFICES ASSUME NEW s \in Second PROVE turns'[s] <= 1
      BY DEF OneTurnPerSecond
    <3>2. CASE s = call[c].second
      BY <2>2, <3>2, 1 <= 1
    <3>3. CASE s # call[c].second
      BY <2>1, <3>3 DEF RunsInv, OneTurnPerSecond
    <3>. QED
      BY <3>2, <3>3
  <2>4. AcceptedSecondsAccounted'
    <3>1. SUFFICES ASSUME NEW s \in marked
                   PROVE  turns'[s] = 1 \/ s \in lost \/ \E d \in Call : Owes(d, s)'
      BY DEF AcceptedSecondsAccounted
    <3>2. s \in Second
      BY DEF RunsInv, RunsTypeOK
    <3>3. CASE s = call[c].second
      BY <2>2, <3>2, <3>3
    <3>4. CASE s # call[c].second
      <4>1. turns[s] = 1 \/ s \in lost \/ \E d \in Call : Owes(d, s)
        BY DEF RunsInv, AcceptedSecondsAccounted
      <4>2. \A d \in Call : Owes(d, s) => d # c /\ Owes(d, s)'
        BY <1>3, <3>4 DEF Owes
      <4>. QED
        BY <2>1, <3>2, <3>4, <4>1, <4>2
    <3>. QED
      BY <3>3, <3>4
  <2>. QED
    BY <2>3, <2>4
<1>9. MarkBehindNone' /\ OneTurnPerSecond' /\ AcceptedSecondsAccounted'
  BY <1>7, <1>8
<1>10. BindingsOfRuns'
  BY DEF RunsInv, RunsTypeOK, BindingsOfRuns, CallsKeepFooting, Server
<1>11. StaleRunsParked'
  BY DEF RunsInv, RunsTypeOK, StaleRunsParked, CallsKeepFooting, BindingsOfRuns
<1>12. ReboundRunsKept'
  BY <1>3, <1>4 DEF RunsInv, RunsTypeOK, ReboundRunsKept, HalfBound, CallsKeepFooting
<1>. QED
  BY <1>5, <1>6, <1>9, <1>10, <1>11, <1>12 DEF RunsInv

\* A call that fails gives up its second and leaves its run torn.
LEMMA InvStoreError ==
    ASSUME RunsInv, NEW c \in Call, StoreError(c)
    PROVE  RunsInv'
<1>. USE DEF StoreError, CallAt, storeVars, envVars, histVars
<1>1. call \in [Call -> CallState] /\ call[c] \in CallState
  BY DEF RunsInv, RunsTypeOK
<1>2. call' \in [Call -> CallState]
  BY <1>1, TaskRunsAssumption DEF RunsInv, RunsTypeOK, Starts, GoTo, Ends, IdleCall, Doing,
     CallState, Kind, PC, Server, Second
<1>3. \A d \in Call : d # c => call'[d] = call[d]
  BY <1>1 DEF Starts, GoTo, Ends
<1>4. /\ call'[c].pc = "idle" /\ call'[c].kind = "none"
      /\ call'[c].second = 0 /\ call'[c].run = NoRun
  BY <1>1 DEF Starts, GoTo, Ends, IdleCall, Doing, CallState
<1>5. RunsTypeOK'
  <2>1. storeErrors' \in 0..MaxStoreErrors
    BY TaskRunsAssumption DEF RunsInv, RunsTypeOK
  <2>2. lost' \subseteq Second /\ torn' \subseteq Run
    BY DEF RunsInv, RunsTypeOK, CutShort
  <2>. QED
    BY <1>2, <2>1, <2>2 DEF RunsInv, RunsTypeOK
<1>6. CallsKeepFooting'
  BY <1>3, <1>4, <1>1 DEF RunsInv, RunsTypeOK, CallsKeepFooting, BindingsOfRuns
<1>7. MarkBehindNone'
  BY <1>3, <1>4 DEF RunsInv, RunsTypeOK, CallsKeepFooting, MarkBehindNone, Owes, Second
<1>8. OneTurnPerSecond' /\ AcceptedSecondsAccounted'
  <2>1. OneTurnPerSecond'
    BY DEF RunsInv, OneTurnPerSecond
  <2>2. SUFFICES ASSUME NEW s \in marked
                 PROVE  turns[s] = 1 \/ s \in lost' \/ \E d \in Call : Owes(d, s)'
    BY <2>1 DEF AcceptedSecondsAccounted
  <2>3. s \in Second
    BY DEF RunsInv, RunsTypeOK
  <2>4. CASE turns[s] = 1 \/ s \in lost
    BY <2>4 DEF CutShort
  <2>5. CASE Owes(c, s)
    BY <2>3, <2>5 DEF CutShort
  <2>6. ASSUME NEW d \in Call, d # c, Owes(d, s) PROVE Owes(d, s)'
    BY <1>3, <2>6 DEF Owes
  <2>. QED
    BY <2>4, <2>5, <2>6 DEF RunsInv, AcceptedSecondsAccounted
<1>9. MarkBehindNone' /\ OneTurnPerSecond' /\ AcceptedSecondsAccounted'
  BY <1>7, <1>8
<1>10. BindingsOfRuns'
  BY DEF RunsInv, RunsTypeOK, BindingsOfRuns, CallsKeepFooting, Server
<1>11. StaleRunsParked'
  BY DEF RunsInv, RunsTypeOK, StaleRunsParked, CallsKeepFooting, BindingsOfRuns
<1>12. ReboundRunsKept'
  <2>1. SUFFICES ASSUME NEW r \in Run, binding[r] = "live", run[r] = "needs_rebind"
                 PROVE  r \in torn' \/ \E d \in Call : HalfBound(d, r)'
    BY DEF ReboundRunsKept
  <2>2. CASE r \in torn \/ HalfBound(c, r)
    BY <2>2 DEF CutShort
  <2>3. ASSUME NEW d \in Call, d # c, HalfBound(d, r) PROVE HalfBound(d, r)'
    BY <1>3, <2>3 DEF HalfBound
  <2>. QED
    BY <2>1, <2>2, <2>3 DEF RunsInv, ReboundRunsKept
<1>. QED
  BY <1>5, <1>6, <1>9, <1>10, <1>11, <1>12 DEF RunsInv

\* What the user sets the task to is told by no part of the invariant.
LEMMA InvSetTaskStatus ==
    ASSUME RunsInv, NEW status \in {"running", "completed"}, SetTaskStatus(status)
    PROVE  RunsInv'
<1>. USE DEF SetTaskStatus, envVars, histVars
<1>1. RunsTypeOK'
  BY DEF RunsInv, RunsTypeOK
<1>2. \A d \in Call, s \in Second : Owes(d, s)' <=> Owes(d, s)
  BY DEF Owes
<1>3. MarkBehindNone' /\ OneTurnPerSecond' /\ AcceptedSecondsAccounted'
  BY <1>2, OwedFrame
<1>4. CallsKeepFooting' /\ BindingsOfRuns'
  BY DEF RunsInv, CallsKeepFooting, BindingsOfRuns
<1>5. StaleRunsParked'
  BY DEF RunsInv, StaleRunsParked
<1>6. ReboundRunsKept'
  BY DEF RunsInv, ReboundRunsKept, HalfBound, CallAt
<1>. QED
  BY <1>1, <1>3, <1>4, <1>5, <1>6 DEF RunsInv

\* A restart cuts short whatever is on its way: who owed a turn has lost it, and
\* what was half bound is torn.
LEMMA InvRestart ==
    ASSUME RunsInv, NEW id \in Server, Restart(id)
    PROVE  RunsInv'
<1>. USE DEF Restart, storeVars
<1>1. /\ call' = [c \in Call |-> IdleCall] /\ IdleCall \in CallState
      /\ IdleCall.pc = "idle" /\ IdleCall.second = 0
  BY TaskRunsAssumption DEF IdleCall, Doing, CallState, Kind, PC
<1>2. \A c \in Call : call'[c].pc = "idle" /\ call'[c].second = 0
  BY <1>1
<1>3. RunsTypeOK'
  <2>1. call' \in [Call -> CallState]
    BY <1>1
  <2>2. lost' \subseteq Second /\ torn' \subseteq Run
    BY DEF RunsInv, RunsTypeOK, CutShort
  <2>3. restarts' \in 0..MaxRestarts /\ server' \in Server /\ fallback' \in BOOLEAN
    <3>1. restarts < MaxRestarts /\ restarts' = restarts + 1
      OBVIOUS
    <3>2. restarts \in 0..MaxRestarts
      BY DEF RunsInv, RunsTypeOK
    <3>3. restarts' \in 0..MaxRestarts
      BY <3>1, <3>2, TaskRunsAssumption
    <3>. QED
      BY <3>3
  <2>. QED
    BY <2>1, <2>2, <2>3 DEF RunsInv, RunsTypeOK
<1>4. CallsKeepFooting'
  BY <1>2 DEF CallsKeepFooting
<1>5. \A c \in Call, s \in Second : ~Owes(c, s)'
  BY <1>2 DEF Owes
<1>6. MarkBehindNone' /\ OneTurnPerSecond'
  BY <1>5 DEF RunsInv, MarkBehindNone, OneTurnPerSecond
<1>7. AcceptedSecondsAccounted'
  <2>1. SUFFICES ASSUME NEW s \in marked PROVE turns[s] = 1 \/ s \in lost'
    BY DEF AcceptedSecondsAccounted
  <2>2. s \in Second
    BY DEF RunsInv, RunsTypeOK
  <2>3. turns[s] = 1 \/ s \in lost \/ \E c \in Call : Owes(c, s)
    BY DEF RunsInv, AcceptedSecondsAccounted
  <2>. QED
    BY <2>2, <2>3 DEF CutShort
<1>8. BindingsOfRuns'
  BY DEF RunsInv, BindingsOfRuns
<1>9. StaleRunsParked'
  BY DEF RunsInv, StaleRunsParked
<1>10. ReboundRunsKept'
  <2>1. SUFFICES ASSUME NEW r \in Run, binding[r] = "live", run[r] = "needs_rebind"
                 PROVE  r \in torn'
    BY DEF ReboundRunsKept
  <2>2. r \in torn \/ \E c \in Call : HalfBound(c, r)
    BY <2>1 DEF RunsInv, ReboundRunsKept
  <2>. QED
    BY <2>2 DEF CutShort
<1>. QED
  BY <1>3, <1>4, <1>6, <1>7, <1>8, <1>9, <1>10 DEF RunsInv

\* A step that changes no variable keeps the invariant.
LEMMA InvStutter == ASSUME RunsInv, UNCHANGED runsVars PROVE RunsInv'
<1>. USE DEF runsVars, storeVars, envVars, histVars
<1>1. RunsTypeOK' /\ CallsKeepFooting' /\ BindingsOfRuns'
  BY DEF RunsInv, RunsTypeOK, CallsKeepFooting, BindingsOfRuns
<1>2. MarkBehindNone' /\ OneTurnPerSecond' /\ AcceptedSecondsAccounted'
  BY OwedFrame DEF Owes
<1>3. StaleRunsParked' /\ ReboundRunsKept'
  BY DEF RunsInv, StaleRunsParked, ReboundRunsKept, HalfBound, CallAt
<1>. QED
  BY <1>1, <1>2, <1>3 DEF RunsInv

--------------------------------------------------------------------------------
(* The theorems.                                                                *)

\* Every step preserves the invariant.
LEMMA RunsInvStep == ASSUME RunsInv, [RunsNext]_runsVars PROVE RunsInv'
<1>1. ASSUME NEW c \in Call, NEW r \in Run, CreateRun(r) \/ BindPane(c, r) \/ Resume(c, r)
      PROVE  RunsInv'
  BY <1>1, InvCreateRun, InvBindPane, InvResume
<1>2. ASSUME NEW c \in Call, UpsertRunBinding(c) \/ SetRunning(c) \/ CheckBinding(c)
                             \/ MarkBindingsStaleByServer(c) \/ SetNeedsRebind(c)
      PROVE  RunsInv'
  BY <1>2, InvUpsertRunBinding, InvSetRunning, InvCheckBinding,
     InvMarkBindingsStaleByServer, InvSetNeedsRebind
<1>3. ASSUME NEW c \in Call, FallbackFires(c) \/ TryMark(c) \/ FindRun(c)
                             \/ MarkRunCompleted(c) \/ CompleteTask(c)
                             \/ EnqueueRunAction(c) \/ PostTurn(c) \/ StoreError(c)
      PROVE  RunsInv'
  BY <1>3, InvFallbackFires, InvTryMark, InvFindRun, InvMarkRunCompleted,
     InvCompleteTask, InvEnqueueRunAction, InvPostTurn, InvStoreError
<1>4. ASSUME NEW c \in Call, NEW s \in Second, PaneReady(c, s) PROVE RunsInv'
  BY <1>4, InvPaneReady
<1>5. ASSUME NEW status \in {"running", "completed"}, SetTaskStatus(status) PROVE RunsInv'
  BY <1>5, InvSetTaskStatus
<1>6. ASSUME NEW id \in Server, Restart(id) PROVE RunsInv'
  BY <1>6, InvRestart
<1>7. CASE UNCHANGED runsVars
  BY <1>7, InvStutter
<1>. QED
  BY <1>1, <1>2, <1>3, <1>4, <1>5, <1>6, <1>7 DEF RunsNext

\* The invariant of the runs, their bindings and the calls that work on them.
THEOREM RunsInvariant == RunsSpec => []RunsInv
<1>1. RunsInit => RunsInv
  BY RunsInvInit
<1>2. RunsInv /\ [RunsNext]_runsVars => RunsInv'
  BY RunsInvStep
<1>. QED
  BY <1>1, <1>2, PTL DEF RunsSpec

\* Every variable keeps its type.
THEOREM RunsTypeCorrect == RunsSpec => []RunsTypeOK
<1>1. RunsInv => RunsTypeOK
  BY DEF RunsInv
<1>. QED
  BY <1>1, RunsInvariant, PTL

\* One activity of a pane makes the pane actor's triggers post at most one turn,
\* for any number of goroutines and of restarts.
THEOREM PostsOneTurnPerSecond == RunsSpec => []OneTurnPerSecond
<1>1. RunsInv => OneTurnPerSecond
  BY DEF RunsInv
<1>. QED
  BY <1>1, RunsInvariant, PTL

\* A trigger that was accepted has posted its turn, is on its way to, or was cut
\* short by an error, a restart or a server that is gone.
THEOREM AcceptedSecondsKept == RunsSpec => []AcceptedSecondsAccounted
<1>1. RunsInv => AcceptedSecondsAccounted
  BY DEF RunsInv
<1>. QED
  BY <1>1, RunsInvariant, PTL

\* No run is running on a stale binding.
THEOREM StaleParked == RunsSpec => []StaleRunsParked
<1>1. RunsInv => StaleRunsParked
  BY DEF RunsInv
<1>. QED
  BY <1>1, RunsInvariant, PTL

\* A run with a live binding is parked only by what overtakes the request that
\* binds it.
THEOREM ReboundKept == RunsSpec => []ReboundRunsKept
<1>1. RunsInv => ReboundRunsKept
  BY DEF RunsInv
<1>. QED
  BY <1>1, RunsInvariant, PTL

--------------------------------------------------------------------------------
(* TaskFiles: names and paths.                                                  *)

(* Proofs about TaskFiles for every set of requests and paths and every bound:  *)
(* its inductive invariant, the properties in it, and that no step loses a line *)
(* without its being named.                                                     *)

\* A path is a sequence of names, and so is everything above it.
LEMMA PathSeq ==
    ASSUME NEW p \in Path
    PROVE  p \in Seq(STRING) /\ Len(p) \in Nat /\ Len(p) >= 1
<1>1. p \in Seq(STRING) /\ p # << >>
  BY TaskFilesAssumption
<1>. QED
  BY <1>1

\* Prefixes, element by element.
LEMMA PrefixByElement ==
    ASSUME NEW s \in Seq(STRING), NEW t \in Seq(STRING)
    PROVE  IsPrefix(s, t) <=> Len(s) <= Len(t) /\ \A i \in 1..Len(s) : s[i] = t[i]
<1>1. Len(s) \in Nat /\ Len(t) \in Nat
  OBVIOUS
<1>2. SubSeq(s, 1, Len(s)) = s
  OBVIOUS
<1>3. ASSUME Len(s) <= Len(t)
      PROVE  /\ SubSeq(t, 1, Len(s)) \in Seq(STRING) /\ Len(SubSeq(t, 1, Len(s))) = Len(s)
             /\ \A i \in 1..Len(s) : SubSeq(t, 1, Len(s))[i] = t[i]
  BY <1>1, <1>3
<1>4. ASSUME Len(s) <= Len(t), \A i \in 1..Len(s) : s[i] = t[i]
      PROVE  s = SubSeq(t, 1, Len(s))
  <2>. DEFINE u == SubSeq(t, 1, Len(s))
  <2>1. u \in Seq(STRING) /\ Len(u) = Len(s) /\ \A i \in 1..Len(s) : s[i] = u[i]
    BY <1>3, <1>4
  <2>. HIDE DEF u
  <2>2. s = u
    BY <2>1, SeqEqual
  <2>. QED
    BY <2>2 DEF u
<1>5. ASSUME Len(s) <= Len(t), s = SubSeq(t, 1, Len(s))
      PROVE  \A i \in 1..Len(s) : s[i] = t[i]
  BY <1>3, <1>5
<1>. QED
  BY <1>2, <1>4, <1>5 DEF IsPrefix

\* Of two paths above a third, one is above the other.
LEMMA PrefixOrder ==
    ASSUME NEW p \in Path, NEW q \in Path, NEW t \in Path
    PROVE  /\ IsPrefix(p, p)
           /\ IsPrefix(p, q) /\ IsPrefix(q, t) => IsPrefix(p, t)
           /\ IsPrefix(p, q) /\ IsPrefix(q, p) => p = q
           /\ IsPrefix(p, t) /\ IsPrefix(q, t) => IsPrefix(p, q) \/ IsPrefix(q, p)
<1>1. \A u \in {p, q, t} : u \in Seq(STRING) /\ Len(u) \in Nat
  BY PathSeq
<1>2. \A u, v \in {p, q, t} :
         IsPrefix(u, v) <=> Len(u) <= Len(v) /\ \A i \in 1..Len(u) : u[i] = v[i]
  BY <1>1, PrefixByElement
<1>3. IsPrefix(p, q) /\ IsPrefix(q, p) => p = q
  <2>1. SUFFICES ASSUME IsPrefix(p, q), IsPrefix(q, p) PROVE p = q
    OBVIOUS
  <2>2. Len(p) = Len(q) /\ \A i \in 1..Len(p) : p[i] = q[i]
    BY <1>1, <1>2, <2>1
  <2>. QED
    BY <1>1, <2>2, SeqEqual
<1>4. IsPrefix(p, t) /\ IsPrefix(q, t) => IsPrefix(p, q) \/ IsPrefix(q, p)
  BY <1>1, <1>2
<1>. QED
  BY <1>1, <1>2, <1>3, <1>4

\* The same for strict prefixes.
LEMMA StrictPrefixOrder ==
    ASSUME NEW p \in Path, NEW q \in Path, NEW t \in Path
    PROVE  /\ ~IsStrictPrefix(p, p)
           /\ IsStrictPrefix(p, q) => IsPrefix(p, q) /\ ~IsPrefix(q, p)
           /\ IsPrefix(p, q) /\ IsStrictPrefix(q, t) => IsStrictPrefix(p, t)
           /\ IsStrictPrefix(p, q) /\ IsPrefix(q, t) => IsStrictPrefix(p, t)
  BY PrefixOrder DEF IsStrictPrefix

--------------------------------------------------------------------------------
(* Names under a directory that moves.                                          *)

\* m is what q, below from, is called once from is called to.
NewName(from, to, q, m) ==
    /\ m \in Seq(STRING)
    /\ Len(m) = Len(to) + (Len(q) - Len(from))
    /\ \A i \in 1..Len(to) : m[i] = to[i]
    /\ \A i \in (Len(from) + 1)..Len(q) : m[i - Len(from) + Len(to)] = q[i]

\* That is the name something gets when it moves with what it is in.
LEMMA MovedName ==
    ASSUME NEW from \in Path, NEW to \in Path, NEW q \in Path, IsPrefix(from, q)
    PROVE  NewName(from, to, q, Moved(from, to, q))
<1>1. /\ from \in Seq(STRING) /\ to \in Seq(STRING) /\ q \in Seq(STRING)
      /\ Len(from) \in Nat /\ Len(to) \in Nat /\ Len(q) \in Nat
  BY PathSeq
<1>2. Len(from) <= Len(q)
  BY DEF IsPrefix
<1>. DEFINE tail == SubSeq(q, Len(from) + 1, Len(q))
<1>3. /\ tail \in Seq(STRING)
      /\ Len(tail) = Len(q) - Len(from)
      /\ \A i \in 1..(Len(q) - Len(from)) : tail[i] = q[Len(from) + i]
  BY <1>1, <1>2, SubSeqProperties
<1>. HIDE DEF tail
<1>4. /\ to \o tail \in Seq(STRING)
      /\ Len(to \o tail) = Len(to) + Len(tail)
      /\ \A i \in 1..(Len(to) + Len(tail)) :
            (to \o tail)[i] = IF i <= Len(to) THEN to[i] ELSE tail[i - Len(to)]
  BY <1>1, <1>3, ConcatProperties
<1>. DEFINE m == to \o tail
<1>5. /\ m \in Seq(STRING) /\ Len(m) = Len(to) + (Len(q) - Len(from))
      /\ \A i \in 1..Len(to) : m[i] = to[i]
  BY <1>1, <1>2, <1>3, <1>4
<1>6. ASSUME NEW i \in (Len(from) + 1)..Len(q)
      PROVE  m[i - Len(from) + Len(to)] = q[i]
  <2>1. i - Len(from) \in 1..(Len(q) - Len(from))
    BY <1>1, <1>2
  <2>2. tail[i - Len(from)] = q[i]
    BY <1>1, <1>3, <2>1
  <2>3. m[i - Len(from) + Len(to)] = tail[i - Len(from)]
    BY <1>1, <1>2, <1>3, <1>4, <2>1
  <2>. QED
    BY <2>2, <2>3
<1>7. m = Moved(from, to, q)
  BY DEF m, tail, Moved
<1>. HIDE DEF m
<1>. QED
  BY <1>5, <1>6, <1>7 DEF NewName

\* It is below the new name of the directory.
LEMMA MovedIsBelow ==
    ASSUME NEW from \in Path, NEW to \in Path, NEW q \in Path, IsPrefix(from, q)
    PROVE  IsPrefix(to, Moved(from, to, q))
<1>1. /\ from \in Seq(STRING) /\ to \in Seq(STRING) /\ q \in Seq(STRING)
      /\ Len(from) \in Nat /\ Len(to) \in Nat /\ Len(q) \in Nat
  BY PathSeq
<1>2. Len(from) <= Len(q)
  BY DEF IsPrefix
<1>. DEFINE m == Moved(from, to, q)
<1>3. NewName(from, to, q, m)
  BY MovedName
<1>. HIDE DEF m
<1>4. IsPrefix(to, m)
  BY <1>1, <1>2, <1>3, PrefixByElement DEF NewName
<1>. QED
  BY <1>4 DEF m

\* Two names do not become one.
LEMMA MovedApart ==
    ASSUME NEW from \in Path, NEW to \in Path, NEW q \in Path, NEW p \in Path,
           IsPrefix(from, q), IsPrefix(from, p),
           Moved(from, to, q) = Moved(from, to, p)
    PROVE  q = p
<1>1. /\ from \in Seq(STRING) /\ to \in Seq(STRING) /\ q \in Seq(STRING) /\ p \in Seq(STRING)
      /\ Len(from) \in Nat /\ Len(to) \in Nat /\ Len(q) \in Nat /\ Len(p) \in Nat
  BY PathSeq
<1>2. Len(from) <= Len(q) /\ Len(from) <= Len(p)
  BY DEF IsPrefix
<1>. DEFINE m == Moved(from, to, q)
<1>m. NewName(from, to, q, m) /\ NewName(from, to, p, m)
  BY MovedName
<1>. HIDE DEF m
<1>3. Len(q) = Len(p)
  BY <1>1, <1>2, <1>m DEF NewName
<1>4. ASSUME NEW i \in 1..Len(q) PROVE q[i] = p[i]
  <2>1. CASE i <= Len(from)
    BY <1>1, <2>1, PrefixByElement
  <2>2. CASE i > Len(from)
    <3>1. i \in (Len(from) + 1)..Len(q) /\ i \in (Len(from) + 1)..Len(p)
      BY <1>1, <1>3, <2>2
    <3>. QED
      BY <1>m, <3>1 DEF NewName
  <2>. QED
    BY <1>1, <2>1, <2>2
<1>. QED
  BY <1>1, <1>3, <1>4, SeqEqual

\* What is above something moved, below the directory's new name, moved too.
LEMMA MovedAncestor ==
    ASSUME NEW from \in Path, NEW to \in Path, NEW q \in Path, IsPrefix(from, q),
           NEW a \in Path, IsPrefix(to, a), Moved(from, to, q) \in Path,
           IsStrictPrefix(a, Moved(from, to, q))
    PROVE  \E b \in Path : IsPrefix(from, b) /\ IsStrictPrefix(b, q) /\ Moved(from, to, b) = a
<1>. DEFINE m == Moved(from, to, q)
            n == Len(from) + (Len(a) - Len(to))
            b == SubSeq(q, 1, n)
<1>1. /\ from \in Seq(STRING) /\ to \in Seq(STRING) /\ q \in Seq(STRING) /\ a \in Seq(STRING)
      /\ Len(from) \in Nat /\ Len(to) \in Nat /\ Len(q) \in Nat /\ Len(a) \in Nat
      /\ Len(from) >= 1
      /\ m \in Seq(STRING) /\ Len(m) \in Nat
  BY PathSeq
<1>2. Len(from) <= Len(q) /\ Len(to) <= Len(a)
  BY DEF IsPrefix
<1>3. /\ Len(m) = Len(to) + (Len(q) - Len(from))
      /\ \A i \in 1..Len(to) : m[i] = to[i]
      /\ \A i \in (Len(from) + 1)..Len(q) : m[i - Len(from) + Len(to)] = q[i]
  <2>1. NewName(from, to, q, Moved(from, to, q))
    BY MovedName
  <2>. QED
    BY <2>1 DEF NewName
<1>. HIDE DEF m
<1>4. IsPrefix(a, m) /\ a # m
  BY DEF m, IsStrictPrefix
<1>5. Len(a) <= Len(m) /\ \A i \in 1..Len(a) : a[i] = m[i]
  BY <1>1, <1>4, PrefixByElement
<1>6. Len(a) < Len(m)
  <2>1. Len(a) # Len(m)
    BY <1>1, <1>4, <1>5, SeqEqual
  <2>. QED
    BY <1>1, <1>5, <2>1
<1>7. n \in Nat /\ n >= Len(from) /\ n < Len(q) /\ n >= 1
  BY <1>1, <1>2, <1>3, <1>6
<1>. HIDE DEF n
<1>8. b \in Path
  BY <1>1, <1>7, TaskFilesAssumption
<1>9. b \in Seq(STRING) /\ Len(b) = n /\ \A i \in 1..n : b[i] = q[i]
  BY <1>1, <1>7, SubSeqProperties
<1>. HIDE DEF b
<1>10. IsPrefix(from, b)
  <2>1. \A i \in 1..Len(from) : from[i] = q[i]
    BY <1>1, PrefixByElement
  <2>2. ASSUME NEW i \in 1..Len(from) PROVE from[i] = b[i]
    <3>1. i \in 1..n
      BY <1>1, <1>7
    <3>. QED
      BY <1>9, <2>1, <3>1
  <2>. QED
    BY <1>1, <1>7, <1>9, <2>2, PrefixByElement
<1>11. IsStrictPrefix(b, q)
  <2>1. IsPrefix(b, q)
    <3>1. Len(b) <= Len(q) /\ \A i \in 1..Len(b) : b[i] = q[i]
      BY <1>1, <1>7, <1>9
    <3>. QED
      BY <1>1, <1>9, <3>1, PrefixByElement
  <2>2. b # q
    BY <1>1, <1>7, <1>9
  <2>. QED
    BY <2>1, <2>2 DEF IsStrictPrefix
<1>12. Moved(from, to, b) = a
  <2>. DEFINE c == Moved(from, to, b)
  <2>1. /\ c \in Seq(STRING) /\ Len(c) = Len(to) + (Len(b) - Len(from))
        /\ \A i \in 1..Len(to) : c[i] = to[i]
        /\ \A i \in (Len(from) + 1)..Len(b) : c[i - Len(from) + Len(to)] = b[i]
    <3>1. NewName(from, to, b, Moved(from, to, b))
      BY <1>8, <1>10, MovedName
    <3>. QED
      BY <3>1 DEF NewName
  <2>. HIDE DEF c
  <2>2. Len(c) = Len(a)
    BY <1>1, <1>9, <2>1 DEF n
  <2>3. ASSUME NEW i \in 1..Len(a) PROVE c[i] = a[i]
    <3>1. CASE i <= Len(to)
      BY <1>1, <1>3, <1>5, <2>1, <3>1
    <3>2. CASE i > Len(to)
      <4>. DEFINE j == i - Len(to) + Len(from)
      <4>1. j \in (Len(from) + 1)..Len(b) /\ j \in (Len(from) + 1)..Len(q) /\ j \in 1..n
        BY <1>1, <1>2, <1>3, <1>6, <1>7, <1>9, <3>2 DEF n
      <4>2. j - Len(from) + Len(to) = i
        BY <1>1
      <4>. HIDE DEF j
      <4>3. c[i] = b[j] /\ m[i] = q[j] /\ b[j] = q[j]
        BY <1>3, <1>9, <2>1, <4>1, <4>2
      <4>. QED
        BY <1>5, <4>3
    <3>. QED
      BY <1>1, <3>1, <3>2
  <2>4. c = a
    BY <1>1, <2>1, <2>2, <2>3, SeqEqual
  <2>. QED
    BY <2>4 DEF c
<1>. QED
  BY <1>8, <1>10, <1>11, <1>12

--------------------------------------------------------------------------------
(* Entries of the tree.                                                         *)

\* An entry is nothing, a directory or a file, and its kind tells which.
LEMMA EntryKinds ==
    ASSUME NEW e \in Entry
    PROVE  /\ e.kind \in {"none", "dir", "file"}
           /\ e.kind = "none" <=> e = None
           /\ e.kind = "dir" <=> e = Dir
           /\ e.kind = "file" => e.ino \in Line /\ e.mtime \in Line /\ e.text \subseteq Line
  BY DEF Entry, None, Dir, Lines

\* Nothing and a directory are entries, and not the same.
LEMMA EmptyKinds ==
    /\ None # Dir /\ None \in Entry /\ Dir \in Entry
    /\ None.kind = "none" /\ Dir.kind = "dir"
  BY DEF Entry, None, Dir

\* So it is for what the tree holds at a path.
LEMMA TreeKinds ==
    ASSUME TypeOK, NEW p \in Path
    PROVE  /\ fs[p] \in Entry
           /\ IsFile(p) <=> fs[p] \notin {None, Dir}
           /\ Exists(p) <=> fs[p] # None
           /\ fs[p] = Dir <=> Exists(p) /\ ~IsFile(p)
           /\ IsFile(p) => /\ fs[p].ino \in Line /\ fs[p].mtime \in Line
                           /\ fs[p].text \subseteq Line /\ Text(p) = fs[p].text
           /\ ~IsFile(p) => Text(p) = {}
           /\ Text(p) \subseteq Line
<1>1. fs[p] \in Entry
  BY DEF TypeOK
<1>. QED
  BY <1>1, EntryKinds, EmptyKinds DEF IsFile, Exists, Text

\* A file as the handlers write it.
LEMMA FileEntry ==
    ASSUME NEW ino \in Line, NEW mtime \in Line, NEW text \in Lines
    PROVE  /\ File(ino, mtime, text) \in Entry
           /\ File(ino, mtime, text).kind = "file"
           /\ File(ino, mtime, text).ino = ino
           /\ File(ino, mtime, text).mtime = mtime
           /\ File(ino, mtime, text).text = text
  BY DEF File, Entry

\* What lies below a path and above it.
LEMMA Around ==
    ASSUME NEW p \in Path, NEW q \in Path
    PROVE  /\ q \in Below(p) <=> IsPrefix(p, q)
           /\ q \in Ancestors(p) <=> IsStrictPrefix(q, p)
           /\ p \in Below(p) /\ p \notin Ancestors(p)
           /\ q \in Ancestors(p) => q # p /\ p \in Below(q) /\ q \notin Below(p)
           /\ q \in Below(p) /\ q # p => p \in Ancestors(q)
  BY PrefixOrder, StrictPrefixOrder DEF Below, Ancestors, IsStrictPrefix

\* Of three paths.
LEMMA AroundThree ==
    ASSUME NEW p \in Path, NEW q \in Path, NEW t \in Path
    PROVE  /\ q \in Ancestors(p) /\ p \in Ancestors(t) => q \in Ancestors(t)
           /\ q \in Ancestors(p) /\ t \in Below(p) => q \in Ancestors(t)
           /\ q \in Below(p) /\ q \in Ancestors(t) => t \in Below(p)
           /\ q \in Below(p) /\ t \in Below(q) => t \in Below(p)
           /\ q \in Ancestors(p) /\ t \in Ancestors(p) =>
                  t \in Below(q) \/ q \in Ancestors(t) \/ t \in Ancestors(q)
           /\ q \in Ancestors(p) /\ p \in Below(t) => q \in Below(t) \/ q \in Ancestors(t)
  BY PrefixOrder, StrictPrefixOrder DEF Below, Ancestors, IsStrictPrefix

--------------------------------------------------------------------------------
(* What the calls on the tree make of one of good shape.                        *)

\* What exists in tree is below directories.
Shaped(tree) ==
    /\ tree \in [Path -> Entry]
    /\ \A p \in Path : tree[p] # None => \A q \in Ancestors(p) : tree[q] = Dir

\* That is what the invariant says of the working tree, before a step and after.
LEMMA ShapedTree ==
    /\ TypeOK /\ TreeShape => Shaped(fs)
    /\ Shaped(fs') => TreeShape' /\ fs' \in [Path -> Entry]
<1>1. ASSUME TypeOK, TreeShape PROVE Shaped(fs)
  <2>1. fs \in [Path -> Entry]
    BY <1>1 DEF TypeOK
  <2>2. \A p \in Path : Exists(p) <=> fs[p] # None
    BY <1>1, TreeKinds
  <2>. QED
    BY <1>1, <2>1, <2>2 DEF Shaped, TreeShape, InDirs
<1>2. ASSUME Shaped(fs') PROVE TreeShape'
  <2>1. \A p \in Path : fs'[p].kind # "none" => fs'[p] # None
    BY <1>2, EntryKinds DEF Shaped
  <2>. QED
    BY <1>2, <2>1 DEF Shaped, TreeShape, InDirs, Exists
<1>. QED
  BY <1>1, <1>2 DEF Shaped

\* Removing a subtree leaves a tree of good shape.
LEMMA RemoveShaped ==
    ASSUME NEW tree, Shaped(tree), NEW p \in Path
    PROVE  Shaped(RemoveAll(tree, p))
<1>. DEFINE new == RemoveAll(tree, p)
<1>1. /\ new \in [Path -> Entry]
      /\ \A q \in Path : new[q] = IF q \in Below(p) THEN None ELSE tree[q]
  BY EmptyKinds DEF RemoveAll, Shaped
<1>. HIDE DEF new
<1>2. ASSUME NEW q \in Path, new[q] # None, NEW a \in Path, a \in Ancestors(q)
      PROVE  new[a] = Dir
  <2>1. q \notin Below(p) /\ tree[q] # None
    BY <1>1, <1>2
  <2>2. tree[a] = Dir
    BY <1>2, <2>1 DEF Shaped
  <2>3. a \notin Below(p)
    BY <1>2, <2>1, AroundThree
  <2>. QED
    BY <1>1, <2>2, <2>3
<1>3. Shaped(new)
  BY <1>1, <1>2 DEF Shaped, Ancestors
<1>. QED
  BY <1>3 DEF new

\* So does making the directories above a path, and no file is touched.
LEMMA MkdirShaped ==
    ASSUME NEW tree, Shaped(tree), NEW p \in Path,
           \A q \in Ancestors(p) : tree[q].kind # "file"
    PROVE  /\ Shaped(MkdirAll(tree, p))
           /\ \A q \in Path : MkdirAll(tree, p)[q] # tree[q]
                  => tree[q] = None /\ MkdirAll(tree, p)[q] = Dir
<1>. DEFINE new == MkdirAll(tree, p)
<1>1. /\ new \in [Path -> Entry]
      /\ \A q \in Path : new[q] = IF q \in Ancestors(p) THEN Dir ELSE tree[q]
  BY EmptyKinds DEF MkdirAll, Shaped
<1>. HIDE DEF new
<1>2. ASSUME NEW q \in Path, new[q] # None, NEW a \in Path, a \in Ancestors(q)
      PROVE  new[a] = Dir
  <2>1. CASE q \in Ancestors(p)
    BY <1>1, <1>2, <2>1, AroundThree
  <2>2. CASE q \notin Ancestors(p)
    BY <1>1, <1>2, <2>2 DEF Shaped
  <2>. QED
    BY <2>1, <2>2
<1>3. Shaped(new)
  BY <1>1, <1>2 DEF Shaped, Ancestors
<1>4. ASSUME NEW q \in Path, new[q] # tree[q] PROVE tree[q] = None /\ new[q] = Dir
  <2>1. q \in Ancestors(p) /\ new[q] = Dir /\ tree[q].kind # "file" /\ tree[q] \in Entry
    BY <1>1, <1>4 DEF Shaped
  <2>. QED
    BY <1>4, <2>1, EntryKinds
<1>. QED
  BY <1>3, <1>4 DEF new

\* What a rename does, name by name: below the new name is what was below the
\* old one, below the old one nothing, and the rest stays.
LEMMA RenamedNames ==
    ASSUME NEW tree, Shaped(tree), NEW from \in Path, NEW to \in Path, from # to,
           CanRename(tree, from, to)
    PROVE  /\ Renamed(tree, from, to) \in [Path -> Entry]
           /\ \A p \in Path : p \notin Below(to) /\ p \notin Below(from)
                  => Renamed(tree, from, to)[p] = tree[p]
           /\ \A p \in Path : p \notin Below(to) /\ p \in Below(from)
                  => Renamed(tree, from, to)[p] = None
           /\ \A q \in Below(from) : Moved(from, to, q) \in Path
                  => /\ Renamed(tree, from, to)[Moved(from, to, q)] = tree[q]
                     /\ Moved(from, to, q) \in Below(to)
           /\ \A p \in Below(to) :
                  \/ Renamed(tree, from, to)[p] = None
                  \/ \E q \in Below(from) : Moved(from, to, q) = p
<1>. DEFINE new == Renamed(tree, from, to)
            source(p) == {q \in Below(from) : Moved(from, to, q) = p}
<1>1. \A p \in Path : new[p] = IF p \in Below(to)
                               THEN IF source(p) = {} THEN None
                                    ELSE tree[CHOOSE q \in source(p) : TRUE]
                               ELSE IF p \in Below(from) THEN None ELSE tree[p]
  BY DEF Renamed
<1>2. new = [p \in Path |-> new[p]]
  BY DEF Renamed
<1>. HIDE DEF new
<1>3. \A q \in Below(from) : q \in Path /\ IsPrefix(from, q)
  BY DEF Below
<1>4. ASSUME NEW q \in Below(from), Moved(from, to, q) \in Path
      PROVE  new[Moved(from, to, q)] = tree[q] /\ Moved(from, to, q) \in Below(to)
  <2>. DEFINE p == Moved(from, to, q)
  <2>1. p \in Below(to)
    BY <1>3, <1>4, MovedIsBelow DEF Below
  <2>2. q \in source(p)
    OBVIOUS
  <2>3. \A s \in source(p) : s = q
    BY <1>3, MovedApart
  <2>. HIDE DEF source
  <2>4. (CHOOSE s \in source(p) : TRUE) = q
    BY <2>2, <2>3
  <2>5. source(p) # {} /\ p \in Path
    BY <1>4, <2>2
  <2>. HIDE DEF p
  <2>6. new[p] = tree[q]
    BY <1>1, <2>1, <2>4, <2>5
  <2>. QED
    BY <2>1, <2>6 DEF p
<1>5. \A p \in Below(to) : new[p] = None \/ \E q \in Below(from) : Moved(from, to, q) = p
  BY <1>1 DEF Below
<1>6. \A p \in Path : p \notin Below(to) =>
          /\ p \notin Below(from) => new[p] = tree[p]
          /\ p \in Below(from) => new[p] = None
  <2>. HIDE DEF source
  <2>. QED
    BY <1>1
<1>7. ASSUME NEW p \in Path PROVE new[p] \in Entry
  <2>1. tree \in [Path -> Entry]
    BY DEF Shaped
  <2>2. CASE p \notin Below(to)
    BY <1>6, <2>1, <2>2, EmptyKinds
  <2>3. CASE p \in Below(to)
    <3>1. CASE new[p] = None
      BY <3>1, EmptyKinds
    <3>2. CASE \E q \in Below(from) : Moved(from, to, q) = p
      BY <1>3, <1>4, <2>1, <3>2
    <3>. QED
      BY <1>5, <2>3, <3>1, <3>2
  <2>. QED
    BY <2>2, <2>3
<1>8. new \in [Path -> Entry]
  BY <1>2, <1>7
<1>9. /\ new \in [Path -> Entry]
      /\ \A p \in Path : p \notin Below(to) /\ p \notin Below(from) => new[p] = tree[p]
      /\ \A p \in Path : p \notin Below(to) /\ p \in Below(from) => new[p] = None
      /\ \A q \in Below(from) : Moved(from, to, q) \in Path
            => new[Moved(from, to, q)] = tree[q] /\ Moved(from, to, q) \in Below(to)
      /\ \A p \in Below(to) : new[p] = None \/ \E q \in Below(from) : Moved(from, to, q) = p
  BY <1>4, <1>5, <1>6, <1>8
<1>. HIDE DEF source
<1>. QED
  BY <1>9 DEF new

\* A rename leaves a tree of good shape.
LEMMA RenameShaped ==
    ASSUME NEW tree, Shaped(tree), NEW from \in Path, NEW to \in Path, from # to,
           CanRename(tree, from, to)
    PROVE  Shaped(Renamed(tree, from, to))
<1>. DEFINE new == Renamed(tree, from, to)
<1>1. /\ new \in [Path -> Entry]
      /\ \A p \in Path : p \notin Below(to) /\ p \notin Below(from) => new[p] = tree[p]
      /\ \A p \in Path : p \notin Below(to) /\ p \in Below(from) => new[p] = None
      /\ \A q \in Below(from) : Moved(from, to, q) \in Path
            => new[Moved(from, to, q)] = tree[q] /\ Moved(from, to, q) \in Below(to)
      /\ \A p \in Below(to) : new[p] = None \/ \E q \in Below(from) : Moved(from, to, q) = p
  BY RenamedNames
<1>. HIDE DEF new
<1>2. \A q \in Ancestors(to) : tree[q] = Dir
  BY DEF CanRename
<1>3. ~IsStrictPrefix(from, to)
  BY DEF CanRename
<1>4. ASSUME NEW p \in Path, new[p] # None, NEW a \in Path, a \in Ancestors(p)
      PROVE  new[a] = Dir
  <2>1. CASE p \in Below(to)
    <3>1. PICK q \in Below(from) : Moved(from, to, q) = p
      BY <1>1, <1>4, <2>1
    <3>2. q \in Path /\ IsPrefix(from, q)
      BY <3>1 DEF Below
    <3>3. tree[q] # None
      BY <1>1, <1>4, <3>1
    <3>4. CASE a \in Below(to)
      <4>1. IsPrefix(to, a) /\ IsStrictPrefix(a, Moved(from, to, q)) /\ Moved(from, to, q) \in Path
        BY <1>4, <3>1, <3>4 DEF Below, Ancestors
      <4>2. PICK b \in Path : IsPrefix(from, b) /\ IsStrictPrefix(b, q) /\ Moved(from, to, b) = a
        BY <3>2, <4>1, MovedAncestor
      <4>3. b \in Below(from) /\ b \in Ancestors(q)
        BY <4>2 DEF Below, Ancestors
      <4>4. tree[b] = Dir
        BY <3>2, <3>3, <4>3 DEF Shaped
      <4>. QED
        BY <1>1, <4>2, <4>3, <4>4
    <3>5. CASE a \notin Below(to)
      <4>1. a \in Ancestors(to)
        BY <1>4, <2>1, <3>5, AroundThree
      <4>2. a \notin Below(from)
        <5>1. SUFFICES ASSUME a \in Below(from) PROVE FALSE
          OBVIOUS
        <5>2. from \in Ancestors(to)
          BY <4>1, <5>1, StrictPrefixOrder DEF Ancestors, Below
        <5>. QED
          BY <1>3, <5>2 DEF Ancestors
      <4>. QED
        BY <1>1, <1>2, <3>5, <4>1, <4>2
    <3>. QED
      BY <3>4, <3>5
  <2>2. CASE p \notin Below(to)
    <3>1. p \notin Below(from) /\ tree[p] # None
      BY <1>1, <1>4, <2>2
    <3>2. a \notin Below(to) /\ a \notin Below(from)
      BY <1>4, <2>2, <3>1, AroundThree
    <3>3. tree[a] = Dir
      BY <1>4, <3>1 DEF Shaped
    <3>. QED
      BY <1>1, <3>2, <3>3
  <2>. QED
    BY <2>1, <2>2
<1>5. Shaped(new)
  BY <1>1, <1>4 DEF Shaped, Ancestors
<1>. QED
  BY <1>5 DEF new

\* What a rename takes away: only what its target held.  Every other file keeps
\* its content and its inode under one name.
LEMMA RenameKeeps ==
    ASSUME NEW tree, Shaped(tree), NEW from \in Path, NEW to \in Path, from # to,
           CanRename(tree, from, to)
    PROVE  /\ \A p \in Path : tree[p].kind = "file" /\ p # to
                  => \E q \in Path : Renamed(tree, from, to)[q] = tree[p]
           /\ \A p \in Path : Renamed(tree, from, to)[p].kind = "file"
                  => \E q \in Path : /\ tree[q] = Renamed(tree, from, to)[p]
                                     /\ IF p \in Below(to)
                                        THEN q \in Below(from) /\ p = Moved(from, to, q)
                                        ELSE q = p /\ p \notin Below(from)
<1>. DEFINE new == Renamed(tree, from, to)
<1>1. /\ new \in [Path -> Entry]
      /\ \A p \in Path : p \notin Below(to) /\ p \notin Below(from) => new[p] = tree[p]
      /\ \A p \in Path : p \notin Below(to) /\ p \in Below(from) => new[p] = None
      /\ \A q \in Below(from) : Moved(from, to, q) \in Path
            => new[Moved(from, to, q)] = tree[q] /\ Moved(from, to, q) \in Below(to)
      /\ \A p \in Below(to) : new[p] = None \/ \E q \in Below(from) : Moved(from, to, q) = p
  BY RenamedNames
<1>. HIDE DEF new
<1>2. /\ \A q \in Below(from) : tree[q] # None => Moved(from, to, q) \in Path
      /\ tree[to] # Dir
  BY DEF CanRename
<1>3. \A p \in Path : p \in Below(from) => p \in Path
  BY DEF Below
<1>4. ASSUME NEW p \in Path, tree[p].kind = "file", p # to
      PROVE  \E q \in Path : new[q] = tree[p]
  <2>1. tree[p] # None
    BY <1>4, EmptyKinds DEF Shaped
  <2>2. CASE p \in Below(from)
    BY <1>1, <1>2, <2>1, <2>2
  <2>3. CASE p \notin Below(from)
    <3>1. p \notin Below(to)
      <4>1. SUFFICES ASSUME p \in Below(to) PROVE FALSE
        OBVIOUS
      <4>2. to \in Ancestors(p)
        BY <1>4, <4>1, Around
      <4>. QED
        BY <1>2, <2>1, <4>2 DEF Shaped
    <3>. QED
      BY <1>1, <2>3, <3>1
  <2>. QED
    BY <2>2, <2>3
<1>5. ASSUME NEW p \in Path, new[p].kind = "file"
      PROVE  \E q \in Path : /\ tree[q] = new[p]
                             /\ IF p \in Below(to) THEN q \in Below(from) /\ p = Moved(from, to, q)
                                ELSE q = p /\ p \notin Below(from)
  <2>1. new[p] # None
    BY <1>5, EmptyKinds
  <2>2. CASE p \in Below(to)
    <3>1. PICK q \in Below(from) : Moved(from, to, q) = p
      BY <1>1, <2>1, <2>2
    <3>2. q \in Path /\ new[p] = tree[q]
      BY <1>1, <3>1 DEF Below
    <3>. QED
      BY <2>2, <3>1, <3>2
  <2>3. CASE p \notin Below(to)
    BY <1>1, <2>1, <2>3
  <2>. QED
    BY <2>2, <2>3
<1>. QED
  BY <1>4, <1>5 DEF new

--------------------------------------------------------------------------------
(* What the program holds.                                                      *)

\* The lines of the tree are those of its files.
LEMMA TreeLines ==
    /\ \A x : x \in LinesOf(Tree) <=> \E p \in Path : x \in Text(p)
    /\ \A x : x \in LinesOf(Tree)' <=> \E p \in Path : x \in Text(p)'
<1>. DEFINE files(f) == {q \in Path : f[q].kind = "file"}
            tree(f)  == {<<p, f[p].text>> : p \in files(f)}
<1>1. ASSUME NEW f, NEW x
      PROVE  x \in LinesOf(tree(f)) <=> \E p \in files(f) : x \in f[p].text
  <2>1. x \in LinesOf(tree(f)) <=> \E t \in tree(f) : x \in t[2]
    BY DEF LinesOf
  <2>2. ASSUME NEW t \in tree(f), x \in t[2] PROVE \E p \in files(f) : x \in f[p].text
    <3>1. PICK p \in files(f) : t = <<p, f[p].text>>
      OBVIOUS
    <3>. QED
      BY <2>2, <3>1
  <2>3. ASSUME NEW p \in files(f), x \in f[p].text PROVE \E t \in tree(f) : x \in t[2]
    <3>1. <<p, f[p].text>> \in tree(f) /\ <<p, f[p].text>>[2] = f[p].text
      OBVIOUS
    <3>. HIDE DEF tree
    <3>. QED
      BY <2>3, <3>1
  <2>. QED
    BY <2>1, <2>2, <2>3
<1>2. tree(fs) = Tree /\ tree(fs') = Tree'
  BY DEF Tree, IsFile
<1>3. /\ \A x : x \in LinesOf(Tree) <=> \E p \in files(fs) : x \in fs[p].text
      /\ \A x : x \in LinesOf(Tree') <=> \E p \in files(fs') : x \in fs'[p].text
  BY <1>1, <1>2
<1>4. LinesOf(Tree)' = LinesOf(Tree')
  BY DEF LinesOf
<1>. QED
  BY <1>3, <1>4 DEF Text, IsFile

\* What is held is in a file, gone or about to be written back.
LEMMA HeldLines ==
    /\ \A x : x \in Held <=> \/ \E p \in Path : x \in Text(p)
                             \/ x \in gone
                             \/ \E r \in Request : x \in Unwritten(r)
    /\ \A x : x \in Held' <=> \/ \E p \in Path : x \in Text(p)'
                              \/ x \in gone'
                              \/ \E r \in Request : x \in Unwritten(r)'
<1>1. /\ \A x : x \in InFlight <=> \E r \in Request : x \in Unwritten(r)
      /\ \A x : x \in InFlight' <=> \E r \in Request : x \in Unwritten(r)'
  BY DEF InFlight
<1>. QED
  BY <1>1, TreeLines DEF Held

\* Nothing leaves when the texts, the lines gone and the writes under way are
\* still accounted for.
LEMMA HeldGrows ==
    ASSUME \A p \in Path : Text(p) \subseteq Held',
           \A r \in Request : Unwritten(r) \subseteq Held',
           gone \subseteq gone'
    PROVE  Held \subseteq Held'
  BY HeldLines

\* The same when no file changes.
LEMMA HeldStays ==
    ASSUME fs' = fs, \A r \in Request : Unwritten(r) \subseteq Unwritten(r)' \cup gone',
           gone \subseteq gone'
    PROVE  Held \subseteq Held'
<1>1. \A p \in Path : Text(p)' = Text(p)
  BY DEF Text, IsFile
<1>. QED
  BY <1>1, HeldLines

--------------------------------------------------------------------------------
(* Handlers.                                                                    *)

\* What the invariant says of one handler, of request r in state q.
HandlerGood(r, q, held) ==
    /\ q \in Handler
    /\ q.pc # "done" => q.answer = "none"
    /\ q.pc \in {"read", "check", "open", "write", "reread", "tell", "remove"}
                \cup {"stat", "ensure", "transfer"} => q.path \in Path
    /\ q.pc \in {"stat", "ensure", "transfer"} => q.op \in Transfer
    /\ q.op \in Transfer /\ q.pc # "done" => q.to \in Path
    /\ q.pc \in {"read", "tell"} => q.op \in Save \cup {"get"}
    /\ q.pc \in {"check", "reread"} => q.op \in Save
    /\ q.pc = "remove" => q.op = "delete"
    /\ q.pc = "open" => q.op \in Save \cup {"copy"}
    /\ q.pc = "write" => q.ino \in Line
    /\ q.checked = {}
    /\ q.op = "content" /\ q.pc \in {"read", "check"} => q.rev.text \cup {r} \subseteq q.text
    /\ q.pc = "check" /\ q.ino # "found" => q.data = {}
    /\ q.op \in Save /\ q.pc = "open" => q.data \cup {r} \subseteq q.next
    /\ q.op \in Save /\ q.pc = "write" => r \in q.next
    /\ q.op \in Save /\ q.pc \in {"reread", "tell"} => r \in held
    /\ q.op \in Save /\ q.answer = "ok" => r \in held

\* It says so of all of them.
LEMMA GoodHandlers ==
    ASSUME FilesInv, NEW r \in Request
    PROVE  HandlerGood(r, req[r], Held)
<1>1. req[r] \in Handler
  BY DEF FilesInv, TypeOK
<1>2. req[r].op \in Save /\ req[r].answer = "ok" => r \in Held
  BY DEF FilesInv, EditsKept, Kept
<1>. QED
  BY <1>1, <1>2 DEF FilesInv, HandlersInStep, SavesWriteBack, HandlerGood

\* Only the handler of r moves.
OnlyHandler(r) == req' = [o \in Request |-> IF o = r THEN req'[r] ELSE req[o]]

\* A handler that answers forgets all but what it was asked.
LEMMA AnswerEffect ==
    ASSUME TypeOK, NEW r \in Request, NEW a, Answer(r, a)
    PROVE  /\ OnlyHandler(r)
           /\ req'[r].pc = "done" /\ req'[r].answer = a /\ req'[r].op = req[r].op
           /\ req'[r].checked = {} /\ req'[r].data = {}
           /\ a \in {"ok", "conflict", "refused", "failed", "clean"} => req'[r] \in Handler
           /\ Unwritten(r)' = {}
<1>1. req \in [Request -> Handler]
  BY DEF TypeOK
<1>. DEFINE q == [Idle EXCEPT !.pc = "done", !.answer = a, !.op = req[r].op]
<1>2. req' = [req EXCEPT ![r] = q]
  BY DEF Answer
<1>3. /\ q.pc = "done" /\ q.answer = a /\ q.op = req[r].op /\ q.checked = {} /\ q.data = {}
      /\ a \in {"ok", "conflict", "refused", "failed", "clean"} => q \in Handler
  <2>1. req[r].op \in Op
    BY <1>1 DEF Handler
  <2>. QED
    BY <2>1 DEF Idle, Handler, Pc, NoRev, RevState, Stamp, Lines
<1>. HIDE DEF q
<1>4. OnlyHandler(r) /\ req'[r] = q
  BY <1>1, <1>2 DEF OnlyHandler
<1>5. Unwritten(r)' = {}
  BY <1>3, <1>4 DEF Unwritten
<1>. QED
  BY <1>3, <1>4, <1>5

\* A handler that goes on.
LEMMA ToEffect ==
    ASSUME TypeOK, NEW r \in Request, NEW pc \in Pc, To(r, pc)
    PROVE  /\ OnlyHandler(r)
           /\ req'[r] \in Handler
           /\ req'[r] = [req[r] EXCEPT !.pc = pc]
           /\ req'[r].pc = pc
<1>1. req \in [Request -> Handler]
  BY DEF TypeOK
<1>. DEFINE q == [req[r] EXCEPT !.pc = pc]
<1>2. req' = [req EXCEPT ![r] = q]
  BY DEF To
<1>3. q \in Handler /\ q.pc = pc
  BY <1>1 DEF Handler
<1>. HIDE DEF q
<1>4. OnlyHandler(r) /\ req'[r] = q
  BY <1>1, <1>2 DEF OnlyHandler
<1>. QED
  BY <1>3, <1>4 DEF q

\* The others stay as they are, and what a save is about to write is not theirs.
LEMMA OthersStay ==
    ASSUME FilesInv, NEW r \in Request, OnlyHandler(r),
           Held \subseteq Held', HandlerGood(r, req'[r], Held')
    PROVE  /\ req' \in [Request -> Handler]
           /\ \A o \in Request : HandlerGood(o, req'[o], Held')
<1>1. req \in [Request -> Handler]
  BY DEF FilesInv, TypeOK
<1>2. \A o \in Request : o # r => req'[o] = req[o]
  BY DEF OnlyHandler
<1>3. ASSUME NEW o \in Request, o # r PROVE HandlerGood(o, req'[o], Held')
  <2>1. HandlerGood(o, req[o], Held)
    BY GoodHandlers
  <2>. QED
    BY <1>2, <1>3, <2>1 DEF HandlerGood
<1>4. \A o \in Request : HandlerGood(o, req'[o], Held')
  BY <1>3
<1>5. \A o \in Request : req'[o] \in Handler
  BY <1>4 DEF HandlerGood
<1>6. req' = [o \in Request |-> req'[o]]
  BY DEF OnlyHandler
<1>. QED
  BY <1>4, <1>5, <1>6

\* Nobody else's write is disturbed.
LEMMA OthersUnwritten ==
    ASSUME NEW r \in Request, OnlyHandler(r)
    PROVE  \A o \in Request \ {r} : Unwritten(o)' = Unwritten(o)
  BY DEF OnlyHandler, Unwritten

--------------------------------------------------------------------------------
(* What a step has to show.                                                     *)

\* Files that keep their inodes keep them apart, as no handler goes back.
LEMMA InodesFrame ==
    ASSUME FilesInv,
           \A p \in Path : IsFile(p)' => IsFile(p) /\ fs'[p].ino = fs[p].ino,
           \A r \in Request : req[r].pc \in {"write", "reread", "tell", "done"}
                                 => req'[r].pc \in {"write", "reread", "tell", "done"}
    PROVE  InodesOnce'
<1>1. InodesOnce
  BY DEF FilesInv
<1>2. \A p, q \in Path : IsFile(p)' /\ IsFile(q)' /\ fs'[p].ino = fs'[q].ino => p = q
  BY <1>1 DEF InodesOnce
<1>3. ASSUME NEW p \in Path, NEW r \in Request, IsFile(p)', fs'[p].ino = r
      PROVE  req'[r].pc \in {"write", "reread", "tell", "done"}
  <2>1. IsFile(p) /\ fs[p].ino = r
    BY <1>3
  <2>2. req[r].pc \in {"write", "reread", "tell", "done"}
    BY <1>1, <2>1 DEF InodesOnce
  <2>. QED
    BY <2>2
<1>. QED
  BY <1>2, <1>3 DEF InodesOnce

\* An inode with one name has at most one file open.
LEMMA OneOpened ==
    InodesOnce => \A ino \in Line : Cardinality(Opened(ino)) <= 1
<1>. SUFFICES ASSUME InodesOnce, NEW ino \in Line PROVE Cardinality(Opened(ino)) <= 1
  OBVIOUS
<1>1. \A p, q \in Opened(ino) : p = q
  BY DEF InodesOnce, Opened
<1>2. CASE Opened(ino) = {}
  BY <1>2, FS_EmptySet
<1>3. CASE Opened(ino) # {}
  <2>1. PICK p : p \in Opened(ino)
    BY <1>3
  <2>2. Opened(ino) = {p}
    BY <1>1, <2>1
  <2>3. Cardinality({p}) = 1
    BY FS_Singleton
  <2>. QED
    BY <2>2, <2>3
<1>. QED
  BY <1>2, <1>3

\* Everything but what commits say, from the parts.
LEMMA StepKeeps ==
    ASSUME FilesInv, Shaped(fs'), InodesOnce', Held \subseteq Held',
           req' \in [Request -> Handler],
           \A r \in Request : HandlerGood(r, req'[r], Held'),
           seen' \subseteq [path : Path, rev : RevState, text : Lines],
           \A s \in seen' : s.rev.text \subseteq s.text,
           staged' \subseteq Path \X Lines, head' \subseteq Path \X Lines,
           edited' \in BOOLEAN, edited' => edited \/ Outside \in Held',
           transfers' \in 0..MaxTransfers, faults' \in 0..MaxFaults,
           gone' \in Lines, committed' \in Lines, passed' \in Lines
    PROVE  TypeOK' /\ TreeShape' /\ InodesOnce' /\ HandlersInStep' /\ SavesWriteBack' /\ EditsKept'
<1>1. \A r \in Request : req'[r].pc = "write" => req'[r].ino \in Line
  BY DEF HandlerGood
<1>2. (\A ino \in Line : Cardinality(Opened(ino)) <= 1)'
  BY OneOpened, PTL
<1>3. TypeOK'
  BY <1>1, <1>2, ShapedTree DEF TypeOK
<1>4. TreeShape'
  BY ShapedTree
<1>5. HandlersInStep'
  BY DEF HandlersInStep, HandlerGood
<1>6. SavesWriteBack'
  BY DEF SavesWriteBack, HandlerGood
<1>7. EditsKept'
  <2>1. \A r \in Request : req'[r].op \in Save /\ req'[r].answer = "ok" => r \in Held'
    BY DEF HandlerGood
  <2>2. /\ LinesOf({<<p, {p[Len(p)]}>> : p \in InitialFile}) \subseteq Held
        /\ edited => Outside \in Held
    BY DEF FilesInv, EditsKept, Kept
  <2>3. Kept' = LinesOf({<<p, {p[Len(p)]}>> : p \in InitialFile})
                \cup (IF edited' THEN {Outside} ELSE {})
                \cup {r \in Request : req'[r].op \in Save /\ req'[r].answer = "ok"}
    BY DEF Kept, LinesOf
  <2>. QED
    BY <2>1, <2>2, <2>3 DEF EditsKept
<1>. QED
  BY <1>3, <1>4, <1>5, <1>6, <1>7

\* What commits say stays, when the index and the commits do.
LEMMA CommitsStay ==
    ASSUME FilesInv, Held \subseteq Held', gone \subseteq gone', passed \subseteq passed',
           staged' = staged, committed \subseteq committed',
           \A r \in Request : \/ req'[r] = req[r]
                              \/ /\ ~(req'[r].op = "commit" /\ req'[r].pc = "commit")
                                 /\ \/ req'[r].data = {} \/ req'[r].op # "commit"
                                    \/ req'[r].answer \notin {"ok", "clean"}
    PROVE  AddedHeld' /\ CommitHasAdded'
<1>1. AddedHeld /\ CommitHasAdded
  BY DEF FilesInv
<1>2. AddedHeld'
  BY <1>1 DEF AddedHeld, At, LinesOf
<1>3. CommitHasAdded'
  BY <1>1 DEF CommitHasAdded
<1>. QED
  BY <1>2, <1>3

\* What tabs may have been told.
SeenGood(told) ==
    /\ told \subseteq [path : Path, rev : RevState, text : Lines]
    /\ \A s \in told : s.rev.text \subseteq s.text

\* A tab is told one more thing.
LEMMA ToldGood ==
    ASSUME FilesInv, NEW p \in Path, NEW rev \in RevState, NEW text \in Lines,
           rev.text \subseteq text, Told(p, rev, text)
    PROVE  SeenGood(seen')
<1>1. SeenGood(seen)
  BY DEF FilesInv, TypeOK, SavesWriteBack, SeenGood
<1>. QED
  BY <1>1 DEF SeenGood, Told

\* A step of one handler that is no commit's.
LEMMA HandlerStep ==
    ASSUME FilesInv, NEW r \in Request, OnlyHandler(r), HandlerGood(r, req'[r], Held'),
           Held \subseteq Held', Shaped(fs'), InodesOnce', SeenGood(seen'),
           gone \subseteq gone', gone' \in Lines,
           transfers' \in 0..MaxTransfers, faults' \in 0..MaxFaults, UNCHANGED others,
           ~(req'[r].op = "commit" /\ req'[r].pc = "commit"),
           \/ req'[r].data = {} \/ req'[r].op # "commit"
           \/ req'[r].answer \notin {"ok", "clean"}
    PROVE  FilesInv' /\ Held \subseteq Held'
<1>1. /\ req' \in [Request -> Handler]
      /\ \A o \in Request : HandlerGood(o, req'[o], Held')
  BY OthersStay
<1>2. /\ staged' = staged /\ head' = head /\ edited' = edited
      /\ committed' = committed /\ passed' = passed
  BY DEF others
<1>3. /\ staged \subseteq Path \X Lines /\ head \subseteq Path \X Lines
      /\ edited \in BOOLEAN /\ committed \in Lines /\ passed \in Lines
  BY DEF FilesInv, TypeOK
<1>4. TypeOK' /\ TreeShape' /\ InodesOnce' /\ HandlersInStep' /\ SavesWriteBack' /\ EditsKept'
  BY <1>1, <1>2, <1>3, StepKeeps DEF SeenGood
<1>5. \A o \in Request : o # r => req'[o] = req[o]
  BY DEF OnlyHandler
<1>6. AddedHeld' /\ CommitHasAdded'
  BY <1>2, <1>5, CommitsStay
<1>. QED
  BY <1>4, <1>6 DEF FilesInv

\* One that touches no file either.
LEMMA QuietStep ==
    ASSUME FilesInv, NEW r \in Request, OnlyHandler(r), HandlerGood(r, req'[r], Held),
           fs' = fs, SeenGood(seen'), Unwritten(r) \subseteq Unwritten(r)' \cup gone',
           gone \subseteq gone', gone' \in Lines,
           transfers' \in 0..MaxTransfers, faults' \in 0..MaxFaults, UNCHANGED others,
           req[r].pc \in {"write", "reread", "tell", "done"}
               => req'[r].pc \in {"write", "reread", "tell", "done"},
           ~(req'[r].op = "commit" /\ req'[r].pc = "commit"),
           \/ req'[r].data = {} \/ req'[r].op # "commit"
           \/ req'[r].answer \notin {"ok", "clean"}
    PROVE  FilesInv' /\ Held \subseteq Held'
<1>1. Held \subseteq Held'
  BY OthersUnwritten, HeldStays
<1>2. HandlerGood(r, req'[r], Held')
  BY <1>1 DEF HandlerGood
<1>3. Shaped(fs')
  BY ShapedTree DEF FilesInv
<1>4. \A o \in Request : o # r => req'[o] = req[o]
  BY DEF OnlyHandler
<1>5. InodesOnce'
  BY <1>4, InodesFrame DEF IsFile
<1>. QED
  BY <1>1, <1>2, <1>3, <1>5, HandlerStep

\* What the invariant says apart from handlers.
LEMMA Typed ==
    ASSUME FilesInv
    PROVE  /\ TypeOK /\ SeenGood(seen) /\ Shaped(fs)
           /\ gone \in Lines /\ committed \in Lines /\ passed \in Lines
           /\ transfers \in 0..MaxTransfers /\ faults \in 0..MaxFaults
  BY ShapedTree DEF FilesInv, TypeOK, SavesWriteBack, SeenGood

\* What a handler may answer.
Answers == {"ok", "conflict", "refused", "failed", "clean"}

\* A handler that answers is as it should be.
LEMMA AnswerGood ==
    ASSUME FilesInv, NEW r \in Request, NEW a \in Answers, Answer(r, a), NEW held,
           req[r].op \in Save /\ a = "ok" => r \in held
    PROVE  /\ OnlyHandler(r) /\ HandlerGood(r, req'[r], held)
           /\ req'[r].pc = "done" /\ req'[r].data = {} /\ req'[r].op = req[r].op
           /\ Unwritten(r)' = {}
<1>1. /\ OnlyHandler(r)
      /\ req'[r].pc = "done" /\ req'[r].answer = a /\ req'[r].op = req[r].op
      /\ req'[r].checked = {} /\ req'[r].data = {} /\ req'[r] \in Handler
      /\ Unwritten(r)' = {}
  BY Typed, AnswerEffect DEF Answers
<1>. QED
  BY <1>1 DEF HandlerGood

\* A step that only answers.
LEMMA AnswerStep ==
    ASSUME FilesInv, NEW r \in Request, NEW a \in Answers, Answer(r, a),
               Unwritten(r) \subseteq gone',
           req[r].op \in Save /\ a = "ok" => r \in Held,
           fs' = fs, SeenGood(seen'), gone \subseteq gone', gone' \in Lines,
           transfers' \in 0..MaxTransfers, faults' \in 0..MaxFaults, UNCHANGED others
    PROVE  FilesInv' /\ Held \subseteq Held'
<1>1. /\ OnlyHandler(r) /\ HandlerGood(r, req'[r], Held)
      /\ req'[r].pc = "done" /\ req'[r].data = {}
  BY AnswerGood
<1>. QED
  BY <1>1, QuietStep

\* A handler writes nothing back unless it is at the write.
LEMMA NothingUnwritten ==
    ASSUME NEW r \in Request, req[r].pc # "write" \/ req[r].op \notin Save
    PROVE  Unwritten(r) = {}
  BY DEF Unwritten

--------------------------------------------------------------------------------
(* Requests arrive.                                                             *)

\* A request that begins is in step.
LEMMA BeginKeeps ==
    ASSUME FilesInv, NEW r \in Request, NEW q, Begin(r, q), HandlerGood(r, q, Held),
           transfers' \in 0..MaxTransfers, q.data = {},
           q.pc # "commit"
    PROVE  FilesInv' /\ Held \subseteq Held'
<1>1. /\ req[r].pc = "idle" /\ req' = [req EXCEPT ![r] = q]
      /\ fs' = fs /\ seen' = seen /\ faults' = faults /\ gone' = gone /\ UNCHANGED others
  BY DEF Begin
<1>2. req \in [Request -> Handler]
  BY Typed DEF TypeOK
<1>3. OnlyHandler(r) /\ req'[r] = q
  BY <1>1, <1>2 DEF OnlyHandler
<1>4. Unwritten(r) = {}
  BY <1>1, NothingUnwritten
<1>. QED
  BY <1>1, <1>3, <1>4, Typed, QuietStep

\* What a handler starts from.
LEMMA IdleIs ==
    /\ Idle.pc = "idle" /\ Idle.op = "none" /\ Idle.path = << >> /\ Idle.to = << >>
    /\ Idle.flag = FALSE /\ Idle.rev = NoRev /\ Idle.text = {} /\ Idle.data = {}
    /\ Idle.next = {} /\ Idle.checked = {} /\ Idle.ino = "0" /\ Idle.answer = "none"
    /\ Idle \in Handler /\ NoRev \in RevState /\ NoRev.text = {}
  BY DEF Idle, Handler, NoRev, RevState, Pc, Op, Stamp, Lines

\* Whatever a tab asks, the invariant survives its asking.
LEMMA StartKeeps ==
    ASSUME FilesInv, NEW r \in Request, Start(r)
    PROVE  FilesInv' /\ Held \subseteq Held'
<1>0. /\ SeenGood(seen) /\ transfers \in 0..MaxTransfers
      /\ MaxTransfers \in Nat /\ r \in Line
  BY Typed, TaskFilesAssumption DEF Line
<1>1. ASSUME NEW p \in Path, StartGet(r, p) PROVE FilesInv' /\ Held \subseteq Held'
  <2>. DEFINE q == [Idle EXCEPT !.op = "get", !.pc = "read", !.path = p]
  <2>1. Begin(r, q) /\ transfers' = transfers
    BY <1>1 DEF StartGet
  <2>2. HandlerGood(r, q, Held) /\ q.data = {} /\ q.pc # "commit"
    BY DEF Idle, HandlerGood, Handler, NoRev, RevState, Pc, Op, Stamp, Lines, Save, Transfer
  <2>. HIDE DEF q
  <2>. QED
    BY <1>0, <2>1, <2>2, BeginKeeps
<1>2. ASSUME NEW p \in Path, StartDelete(r, p) PROVE FilesInv' /\ Held \subseteq Held'
  <2>. DEFINE q == [Idle EXCEPT !.op = "delete", !.pc = "remove", !.path = p]
  <2>1. Begin(r, q) /\ transfers' = transfers
    BY <1>2 DEF StartDelete
  <2>2. HandlerGood(r, q, Held) /\ q.data = {} /\ q.pc # "commit"
    BY DEF Idle, HandlerGood, Handler, NoRev, RevState, Pc, Op, Stamp, Lines, Save, Transfer
  <2>. HIDE DEF q
  <2>. QED
    BY <1>0, <2>1, <2>2, BeginKeeps
<1>3. ASSUME StartCommit(r) PROVE FilesInv' /\ Held \subseteq Held'
  <2>. DEFINE q == [Idle EXCEPT !.op = "commit", !.pc = "status"]
  <2>1. Begin(r, q) /\ transfers' = transfers
    BY <1>3 DEF StartCommit
  <2>2. HandlerGood(r, q, Held) /\ q.data = {} /\ q.pc # "commit"
    BY DEF Idle, HandlerGood, Handler, NoRev, RevState, Pc, Op, Stamp, Lines, Save, Transfer
  <2>. HIDE DEF q
  <2>. QED
    BY <1>0, <2>1, <2>2, BeginKeeps
<1>4. ASSUME NEW op \in Transfer, NEW p \in Path, NEW t \in Path, NEW o \in BOOLEAN,
             StartTransfer(r, op, p, t, o)
      PROVE  FilesInv' /\ Held \subseteq Held'
  <2>. DEFINE q == [Idle EXCEPT !.op = op, !.pc = "stat", !.path = p, !.to = t, !.flag = o]
  <2>1. Begin(r, q) /\ transfers' = transfers + 1 /\ transfers < MaxTransfers
    BY <1>4 DEF StartTransfer
  <2>2. HandlerGood(r, q, Held) /\ q.data = {} /\ q.pc # "commit"
    BY DEF Idle, HandlerGood, Handler, NoRev, RevState, Pc, Op, Stamp, Lines, Save, Transfer
  <2>3. transfers' \in 0..MaxTransfers
    BY <1>0, <2>1
  <2>. HIDE DEF q
  <2>. QED
    BY <2>1, <2>2, <2>3, BeginKeeps
<1>. DEFINE known == seen \cup {[path |-> p, rev |-> NoRev, text |-> {}] : p \in Path}
<1>5. ASSUME NEW s \in known
      PROVE  /\ s.path \in Path /\ s.rev \in RevState /\ s.text \in Lines
             /\ s.rev.text \subseteq s.text
  <2>1. CASE s \in seen
    BY <1>0, <2>1 DEF SeenGood
  <2>2. CASE s \notin seen
    <3>1. PICK p \in Path : s = [path |-> p, rev |-> NoRev, text |-> {}]
      BY <1>5, <2>2
    <3>. QED
      BY <3>1, IdleIs DEF Lines
  <2>. QED
    BY <2>1, <2>2
<1>. HIDE DEF known
<1>6. ASSUME NEW s \in known, NEW c \in BOOLEAN, StartContent(r, s, c)
      PROVE  FilesInv' /\ Held \subseteq Held'
  <2>. DEFINE q == [Idle EXCEPT !.op = "content", !.pc = "read", !.path = s.path,
                                !.flag = c, !.rev = s.rev, !.text = s.text \cup {r}]
  <2>1. Begin(r, q) /\ transfers' = transfers
    BY <1>6 DEF StartContent
  <2>2. s.text \cup {r} \in Lines /\ s.rev.text \cup {r} \subseteq s.text \cup {r}
    BY <1>0, <1>5 DEF Lines
  <2>3. HandlerGood(r, q, Held) /\ q.data = {} /\ q.pc # "commit"
    BY <1>5, <2>2 DEF Idle, HandlerGood, Handler, Pc, Op, Lines, Save, Transfer
  <2>. HIDE DEF q
  <2>. QED
    BY <1>0, <2>1, <2>3, BeginKeeps
<1>7. ASSUME NEW s \in known, NEW t \in seen, NEW c \in BOOLEAN, StartPatch(r, s, t, c)
      PROVE  FilesInv' /\ Held \subseteq Held'
  <2>. DEFINE q == [Idle EXCEPT !.op = "patch", !.pc = "read", !.path = s.path,
                                !.flag = c, !.rev = s.rev, !.text = t.text]
  <2>1. Begin(r, q) /\ transfers' = transfers
    BY <1>7 DEF StartPatch
  <2>2. t.text \in Lines
    BY <1>0 DEF SeenGood
  <2>3. HandlerGood(r, q, Held) /\ q.data = {} /\ q.pc # "commit"
    BY <1>5, <2>2 DEF Idle, HandlerGood, Handler, Pc, Op, Lines, Save, Transfer
  <2>. HIDE DEF q
  <2>. QED
    BY <1>0, <2>1, <2>3, BeginKeeps
<1>8. "copy" \in Transfer /\ "move" \in Transfer /\ "rename" \in Transfer
  BY DEF Transfer
<1>9. CASE \E s \in known, c \in BOOLEAN :
               StartContent(r, s, c) \/ \E t \in seen : StartPatch(r, s, t, c)
  BY <1>6, <1>7, <1>9
<1>10. CASE \E p, t \in Path, o \in BOOLEAN :
               StartTransfer(r, "copy", p, t, o) \/ StartTransfer(r, "move", p, t, o)
                  \/ StartRename(r, p, t, o)
  BY <1>4, <1>8, <1>10 DEF StartRename
<1>. QED
  BY <1>1, <1>2, <1>3, <1>9, <1>10 DEF Start, known

--------------------------------------------------------------------------------
(* The handlers, one step after the other.                                   *)

\* Values handlers take from the tree.
LEMMA RevisionTyped ==
    ASSUME FilesInv, NEW p \in Path, NEW data \in Lines
    PROVE  Revision(p, data) \in RevState /\ Revision(p, data).text = data
<1>1. Mtime(p) \in Stamp
  BY Typed, TreeKinds DEF Mtime, Stamp
<1>. QED
  BY <1>1 DEF Revision, RevState

\* Reading: a get is told the text there is, a save takes it up with what it will
\* compare.
LEMMA ReadFileKeeps ==
    ASSUME FilesInv, NEW r \in Request, ReadFile(r)
    PROVE  FilesInv' /\ Held \subseteq Held'
<1>. DEFINE p == req[r].path
            creates == req[r].op \in Save /\ req[r].pc = "read" /\ req[r].flag
<1>1. /\ req[r].pc \in {"read", "reread"}
      /\ fs' = fs /\ seen' = seen /\ transfers' = transfers /\ faults' = faults
      /\ gone' = gone /\ UNCHANGED others
  BY DEF ReadFile
<1>2. HandlerGood(r, req[r], Held) /\ req[r] \in Handler
  BY GoodHandlers DEF HandlerGood
<1>3. p \in Path /\ req[r].op \in Save \cup {"get"}
  BY <1>1, <1>2 DEF HandlerGood
<1>4. Unwritten(r) = {}
  BY <1>1, NothingUnwritten
<1>5. Text(p) \in Lines /\ (~IsFile(p) => Text(p) = {})
  BY <1>3, Typed, TreeKinds DEF Lines
<1>6. CASE IsFile(p) \/ (~Exists(p) /\ creates)
  <2>. DEFINE q == [req[r] EXCEPT !.data = Text(p), !.next = Text(p),
                                  !.ino = IF IsFile(p) THEN "found" ELSE "missing",
                                  !.pc = IF @ = "reread" \/ req[r].op = "get"
                                         THEN "tell" ELSE "check"]
  <2>1. req' = [req EXCEPT ![r] = q]
    BY <1>6 DEF ReadFile
  <2>2. req \in [Request -> Handler]
    BY Typed DEF TypeOK
  <2>3. q \in Handler
    <3>. DEFINE ino == IF IsFile(p) THEN "found" ELSE "missing"
                pc  == IF req[r].pc = "reread" \/ req[r].op = "get" THEN "tell" ELSE "check"
    <3>1. ino \in {"found", "missing"} /\ pc \in Pc
      BY DEF Pc
    <3>2. q = [req[r] EXCEPT !.data = Text(p), !.next = Text(p), !.ino = ino, !.pc = pc]
      BY <1>2 DEF Handler
    <3>. HIDE DEF q, ino, pc
    <3>. QED
      BY <1>2, <1>5, <3>1, <3>2 DEF Handler
  <2>4. /\ q.data = Text(p) /\ q.op = req[r].op /\ q.path = p /\ q.checked = req[r].checked
        /\ q.ino = (IF IsFile(p) THEN "found" ELSE "missing")
        /\ q.pc = (IF req[r].pc = "reread" \/ req[r].op = "get" THEN "tell" ELSE "check")
        /\ q.answer = req[r].answer /\ q.rev = req[r].rev /\ q.text = req[r].text
    BY <1>2 DEF Handler
  <2>. HIDE DEF q
  <2>5. OnlyHandler(r) /\ req'[r] = q
    BY <2>1, <2>2 DEF OnlyHandler
  <2>6. HandlerGood(r, q, Held)
    BY <1>1, <1>2, <1>3, <1>5, <2>3, <2>4 DEF HandlerGood, Save, Transfer
  <2>7. q.pc \in {"tell", "check"} /\ q.op # "commit"
    BY <1>3, <2>4 DEF Save
  <2>8. req[r].pc = "reread" => q.pc = "tell"
    BY <2>4
  <2>. QED
    BY <1>1, <1>4, <2>5, <2>6, <2>7, <2>8, Typed, QuietStep
<1>7. CASE ~(IsFile(p) \/ (~Exists(p) /\ creates))
  <2>1. \E a \in Answers \ {"ok"} : Answer(r, a)
    BY <1>7 DEF ReadFile, Answers
  <2>. QED
    BY <1>1, <1>4, <2>1, Typed, AnswerStep
<1>. QED
  BY <1>6, <1>7

\* Telling the revision: what the tab knows of the text is not more than it.
LEMMA TellRevisionKeeps ==
    ASSUME FilesInv, NEW r \in Request, TellRevision(r)
    PROVE  FilesInv' /\ Held \subseteq Held'
<1>1. /\ req[r].pc = "tell" /\ Answer(r, "ok")
      /\ Told(req[r].path, Revision(req[r].path, req[r].data), req[r].data)
      /\ fs' = fs /\ transfers' = transfers /\ faults' = faults
      /\ gone' = gone /\ UNCHANGED others
  BY DEF TellRevision
<1>2. HandlerGood(r, req[r], Held)
  BY GoodHandlers
<1>3. req[r].path \in Path /\ req[r].data \in Lines /\ (req[r].op \in Save => r \in Held)
  BY <1>1, <1>2 DEF HandlerGood, Handler
<1>4. SeenGood(seen')
  BY <1>1, <1>3, RevisionTyped, ToldGood
<1>5. Unwritten(r) = {} /\ "ok" \in Answers
  BY <1>1, NothingUnwritten DEF Answers
<1>. QED
  BY <1>1, <1>3, <1>4, <1>5, Typed, AnswerStep

\* Looking at the source touches nothing.
LEMMA StatSourceKeeps ==
    ASSUME FilesInv, NEW r \in Request, StatSource(r)
    PROVE  FilesInv' /\ Held \subseteq Held'
<1>1. /\ req[r].pc = "stat"
      /\ fs' = fs /\ seen' = seen /\ transfers' = transfers /\ faults' = faults
      /\ gone' = gone /\ UNCHANGED others
      /\ Answer(r, "refused") \/ Answer(r, "ok") \/ To(r, "ensure")
  BY DEF StatSource
<1>2. HandlerGood(r, req[r], Held)
  BY GoodHandlers
<1>3. Unwritten(r) = {} /\ {"ok", "refused"} \subseteq Answers
  BY <1>1, NothingUnwritten DEF Answers
<1>4. req[r].op \in Transfer /\ req[r].op \notin Save /\ req[r].op # "commit"
  BY <1>1, <1>2 DEF HandlerGood, Transfer, Save
<1>5. CASE Answer(r, "refused") \/ Answer(r, "ok")
  BY <1>1, <1>3, <1>4, <1>5, Typed, AnswerStep
<1>6. CASE To(r, "ensure")
  <2>1. "ensure" \in Pc
    BY DEF Pc
  <2>2. /\ OnlyHandler(r) /\ req'[r] \in Handler /\ req'[r].pc = "ensure"
        /\ req'[r] = [req[r] EXCEPT !.pc = "ensure"]
    BY <1>6, <2>1, Typed, ToEffect
  <2>3. /\ req'[r].op = req[r].op /\ req'[r].answer = req[r].answer
        /\ req'[r].path = req[r].path /\ req'[r].to = req[r].to
        /\ req'[r].checked = req[r].checked
    BY <1>2, <2>2 DEF HandlerGood, Handler
  <2>4. HandlerGood(r, req'[r], Held)
    BY <1>1, <1>2, <1>4, <2>2, <2>3 DEF HandlerGood, Transfer, Save
  <2>. QED
    BY <1>1, <1>3, <1>4, <2>2, <2>3, <2>4, Typed, QuietStep
<1>. QED
  BY <1>1, <1>5, <1>6

\* Nor does asking git for the status.
LEMMA GitStatusKeeps ==
    ASSUME FilesInv, NEW r \in Request, GitStatus(r)
    PROVE  FilesInv' /\ Held \subseteq Held'
<1>1. /\ req[r].pc = "status" /\ req[r].op = "commit"
      /\ fs' = fs /\ seen' = seen /\ transfers' = transfers /\ faults' = faults
      /\ gone' = gone /\ UNCHANGED others
      /\ Answer(r, "clean") \/ To(r, "add")
  BY DEF GitStatus, At
<1>2. HandlerGood(r, req[r], Held)
  BY GoodHandlers
<1>3. Unwritten(r) = {} /\ "clean" \in Answers /\ "add" \in Pc
  BY <1>1, NothingUnwritten DEF Answers, Pc
<1>4. req[r].answer = "none"
  BY <1>1, <1>2 DEF HandlerGood
<1>5. CASE Answer(r, "clean")
  BY <1>1, <1>3, <1>5, Typed, AnswerStep
<1>6. CASE To(r, "add")
  <2>2. /\ OnlyHandler(r) /\ req'[r] \in Handler /\ req'[r].pc = "add"
        /\ req'[r] = [req[r] EXCEPT !.pc = "add"]
    BY <1>6, <1>3, Typed, ToEffect
  <2>3. /\ req'[r].op = req[r].op /\ req'[r].answer = req[r].answer
        /\ req'[r].checked = req[r].checked
    BY <1>2, <2>2 DEF HandlerGood, Handler
  <2>4. HandlerGood(r, req'[r], Held)
    BY <1>1, <1>2, <1>4, <2>2, <2>3 DEF HandlerGood, Transfer, Save
  <2>. QED
    BY <1>1, <1>3, <1>4, <2>2, <2>3, <2>4, Typed, QuietStep
<1>. QED
  BY <1>1, <1>5, <1>6

\* A git that fails leaves the tree and the commits alone.
LEMMA GitFailsKeeps ==
    ASSUME FilesInv, NEW r \in Request, GitFails(r)
    PROVE  FilesInv' /\ Held \subseteq Held'
<1>1. /\ req[r].op = "commit" /\ Answer(r, "failed")
      /\ fs' = fs /\ seen' = seen /\ transfers' = transfers /\ faults' = faults
      /\ gone' = gone /\ UNCHANGED others
  BY DEF GitFails
<1>2. Unwritten(r) = {} /\ "failed" \in Answers
  BY <1>1, NothingUnwritten DEF Answers, Save
<1>. QED
  BY <1>1, <1>2, Typed, AnswerStep

\* A write that fails loses what was to be written, and says so.
LEMMA WriteFailsKeeps ==
    ASSUME FilesInv, NEW r \in Request, WriteFails(r)
    PROVE  FilesInv' /\ Held \subseteq Held'
<1>1. /\ faults < MaxFaults /\ faults' = faults + 1 /\ Answer(r, "failed")
      /\ gone' = gone \cup Unwritten(r)
      /\ fs' = fs /\ seen' = seen /\ transfers' = transfers /\ UNCHANGED others
  BY DEF WriteFails, Lose
<1>2. Unwritten(r) \subseteq Line
  <2>1. req[r].next \in Lines
    BY GoodHandlers DEF HandlerGood, Handler
  <2>. QED
    BY <2>1 DEF Unwritten, Lines
<1>3. gone' \in Lines /\ "failed" \in Answers
  BY <1>1, <1>2, Typed DEF Lines, Answers
<1>4. faults' \in 0..MaxFaults
  BY <1>1, Typed, TaskFilesAssumption
<1>. QED
  BY <1>1, <1>3, <1>4, Typed, AnswerStep

\* A path that is no directory, below directories, may hold a file.
LEMMA WriteShaped ==
    ASSUME NEW tree, Shaped(tree), NEW p \in Path, tree[p] # Dir,
           \A a \in Ancestors(p) : tree[a] = Dir, NEW e \in Entry,
           NEW new \in [Path -> Entry],
           new[p] = e, \A q \in Path : q # p => new[q] = tree[q]
    PROVE  Shaped(new)
<1>1. \A q \in Path : new[q] = IF q = p THEN e ELSE tree[q]
  OBVIOUS
<1>2. ASSUME NEW q \in Path, new[q] # None, NEW a \in Path, a \in Ancestors(q)
      PROVE  new[a] = Dir
  <2>1. CASE q = p
    BY <1>1, <1>2, <2>1, Around
  <2>2. CASE q # p
    <3>1. tree[q] # None
      BY <1>1, <1>2, <2>2
    <3>2. tree[a] = Dir
      BY <1>2, <3>1 DEF Shaped
    <3>3. a # p
      BY <3>2
    <3>. QED
      BY <1>1, <3>2, <3>3
  <2>. QED
    BY <2>1, <2>2
<1>3. Shaped(new)
  BY <1>1, <1>2 DEF Shaped, Ancestors
<1>. QED
  BY <1>3

\* Making directories where no file is in the way touches no file.
LEMMA MkdirKeepsFiles ==
    ASSUME FilesInv, NEW p \in Path, CanMkdir(p)
    PROVE  /\ Shaped(MkdirAll(fs, p))
           /\ \A q \in Path : MkdirAll(fs, p)[q].kind = "file" <=> IsFile(q)
           /\ \A q \in Path : IsFile(q) => MkdirAll(fs, p)[q] = fs[q]
<1>. DEFINE new == MkdirAll(fs, p)
<1>1. Shaped(fs) /\ TypeOK
  BY Typed
<1>2. \A q \in Ancestors(p) : fs[q].kind # "file"
  BY DEF CanMkdir, IsFile
<1>3. Shaped(new) /\ \A q \in Path : new[q] # fs[q] => fs[q] = None /\ new[q] = Dir
  BY <1>1, <1>2, MkdirShaped
<1>. HIDE DEF new
<1>4. \A q \in Path : new[q].kind = "file" <=> IsFile(q)
  BY <1>1, <1>3, EmptyKinds DEF IsFile
<1>5. \A q \in Path : IsFile(q) => new[q] = fs[q]
  BY <1>1, <1>3, EmptyKinds DEF IsFile
<1>. QED
  BY <1>3, <1>4, <1>5 DEF new

\* So a step that makes directories keeps every text and every inode.
LEMMA MkdirStep ==
    ASSUME FilesInv, NEW p \in Path, CanMkdir(p), fs' = MkdirAll(fs, p)
    PROVE  /\ Shaped(fs')
           /\ \A q \in Path : Text(q)' = Text(q)
           /\ \A q \in Path : IsFile(q)' => IsFile(q) /\ fs'[q].ino = fs[q].ino
<1>1. /\ Shaped(fs')
      /\ \A q \in Path : fs'[q].kind = "file" <=> IsFile(q)
      /\ \A q \in Path : IsFile(q) => fs'[q] = fs[q]
  BY MkdirKeepsFiles
<1>. QED
  BY <1>1 DEF Text, IsFile

\* The check: past it a save will write all that was read, and its own line.
LEMMA CheckRevisionKeeps ==
    ASSUME FilesInv, NEW r \in Request, CheckRevision(r)
    PROVE  FilesInv' /\ Held \subseteq Held'
<1>. DEFINE p   == req[r].path
            rev == IF req[r].ino = "found" THEN Revision(p, req[r].data) ELSE NoRev
<1>1. /\ req[r].op \in Save /\ req[r].pc = "check"
      /\ transfers' = transfers /\ faults' = faults
      /\ gone' = gone /\ UNCHANGED others
  BY DEF CheckRevision
<1>2. HandlerGood(r, req[r], Held) /\ req[r] \in Handler
  BY GoodHandlers DEF HandlerGood
<1>3. /\ p \in Path /\ req[r].data \in Lines
      /\ req[r].ino # "found" => req[r].data = {}
  BY <1>1, <1>2 DEF HandlerGood, Handler
<1>4. rev \in RevState /\ rev.text = req[r].data
  BY <1>3, RevisionTyped, IdleIs
<1>5. Unwritten(r) = {} /\ {"conflict", "refused", "failed"} \subseteq Answers
  BY <1>1, NothingUnwritten DEF Answers
<1>6. CASE ~RevisionEquals(rev, req[r].rev)
  <2>1. Told(p, rev, req[r].data) /\ Answer(r, "conflict") /\ fs' = fs
    BY <1>6 DEF CheckRevision
  <2>2. SeenGood(seen')
    BY <1>3, <1>4, <2>1, ToldGood
  <2>. QED
    BY <1>1, <1>5, <2>1, <2>2, Typed, AnswerStep
<1>7. CASE RevisionEquals(rev, req[r].rev)
  <2>1. seen' = seen
    BY <1>7 DEF CheckRevision
  <2>2. CASE (Answer(r, "refused") \/ Answer(r, "failed")) /\ fs' = fs
    BY <1>1, <1>5, <2>1, <2>2, Typed, AnswerStep
  <2>3. CASE /\ CanMkdir(p) /\ fs' = MkdirAll(fs, p)
             /\ req' = [req EXCEPT ![r].pc = "open", ![r].next = Applied(r)]
    <3>. DEFINE q == [req[r] EXCEPT !.pc = "open", !.next = Applied(r)]
    <3>1. req[r].data \subseteq req[r].rev.text
      BY <1>4, <1>7 DEF RevisionEquals
    <3>2. Applied(r) \in Lines /\ req[r].data \cup {r} \subseteq Applied(r)
      <4>1. req[r].text \in Lines /\ r \in Line
        BY <1>2 DEF Handler, Line
      <4>2. CASE req[r].op = "content"
        <5>1. req[r].rev.text \cup {r} \subseteq req[r].text
          BY <1>1, <1>2, <4>2 DEF HandlerGood
        <5>. QED
          BY <3>1, <4>1, <4>2, <5>1 DEF Applied
      <4>3. CASE req[r].op # "content"
        BY <1>3, <4>1, <4>3 DEF Applied, Lines
      <4>. QED
        BY <4>2, <4>3
    <3>3. req \in [Request -> Handler]
      BY Typed DEF TypeOK
    <3>4. q \in Handler
      BY <1>2, <3>2 DEF Handler, Pc
    <3>5. /\ q.pc = "open" /\ q.next = Applied(r) /\ q.data = req[r].data /\ q.op = req[r].op
          /\ q.path = p /\ q.checked = req[r].checked /\ q.answer = req[r].answer
      BY <1>2 DEF Handler
    <3>6. req' = [req EXCEPT ![r] = q]
      BY <2>3, <3>3
    <3>. HIDE DEF q
    <3>7. OnlyHandler(r) /\ req'[r] = q
      BY <3>3, <3>6 DEF OnlyHandler
    <3>8. /\ Shaped(fs')
          /\ \A t \in Path : Text(t)' = Text(t)
          /\ \A t \in Path : IsFile(t)' => IsFile(t) /\ fs'[t].ino = fs[t].ino
      BY <1>3, <2>3, MkdirStep
    <3>9. Held \subseteq Held'
      BY <1>1, <1>5, <3>7, <3>8, OthersUnwritten, HeldLines
    <3>10. \A o \in Request : req[o].pc \in {"write", "reread", "tell", "done"}
                                 => req'[o].pc \in {"write", "reread", "tell", "done"}
      BY <1>1, <3>7 DEF OnlyHandler
    <3>11. InodesOnce'
      BY <3>8, <3>10, InodesFrame
    <3>12. HandlerGood(r, q, Held')
      BY <1>1, <1>2, <1>3, <3>2, <3>4, <3>5 DEF HandlerGood, Save, Transfer
    <3>13. q.op # "commit"
      BY <1>1, <3>5 DEF Save
    <3>. QED
      BY <1>1, <2>1, <3>5, <3>7, <3>8, <3>9, <3>11, <3>12, <3>13, Typed, HandlerStep
  <2>4. \/ (Answer(r, "refused") \/ Answer(r, "failed")) /\ fs' = fs
        \/ /\ CanMkdir(p) /\ fs' = MkdirAll(fs, p)
           /\ req' = [req EXCEPT ![r].pc = "open", ![r].next = Applied(r)]
    BY <1>7 DEF CheckRevision
  <2>. QED
    BY <2>2, <2>3, <2>4
<1>. QED
  BY <1>6, <1>7

\* A copy makes the directories and takes the text it will write.
LEMMA CopySourceKeeps ==
    ASSUME FilesInv, NEW r \in Request, CopySource(r)
    PROVE  FilesInv' /\ Held \subseteq Held'
<1>. DEFINE q == req[r]
<1>1. /\ q.op = "copy" /\ q.pc = "transfer"
      /\ seen' = seen /\ transfers' = transfers /\ faults' = faults
      /\ gone' = gone /\ UNCHANGED others
  BY DEF CopySource, At
<1>2. HandlerGood(r, q, Held) /\ q \in Handler
  BY GoodHandlers DEF HandlerGood
<1>3. q.path \in Path /\ q.to \in Path /\ q.op \notin Save
  BY <1>1, <1>2 DEF HandlerGood, Transfer, Save
<1>4. Unwritten(r) = {} /\ "failed" \in Answers
  BY <1>1, NothingUnwritten DEF Answers
<1>5. CASE ~CanMkdir(q.to)
  <2>1. Answer(r, "failed") /\ fs' = fs
    BY <1>5 DEF CopySource
  <2>. QED
    BY <1>1, <1>4, <2>1, Typed, AnswerStep
<1>6. CASE CanMkdir(q.to)
  <2>1. fs' = MkdirAll(fs, q.to)
    BY <1>6 DEF CopySource
  <2>2. /\ Shaped(fs')
        /\ \A t \in Path : Text(t)' = Text(t)
        /\ \A t \in Path : IsFile(t)' => IsFile(t) /\ fs'[t].ino = fs[t].ino
    BY <1>3, <1>6, <2>1, MkdirStep
  <2>3. /\ OnlyHandler(r) /\ req'[r].pc \in {"open", "done"} /\ req'[r].op = "copy"
        /\ \A held : HandlerGood(r, req'[r], held)
    <3>1. CASE IsFile(q.path)
      <4>. DEFINE n == [q EXCEPT !.pc = "open", !.next = Text(q.path)]
      <4>1. req' = [req EXCEPT ![r].pc = "open", ![r].next = Text(q.path)]
        BY <1>6, <3>1 DEF CopySource
      <4>2. req \in [Request -> Handler]
        BY Typed DEF TypeOK
      <4>3. Text(q.path) \in Lines
        BY <1>3, Typed, TreeKinds DEF Lines
      <4>4. n \in Handler
        BY <1>2, <4>3 DEF Handler, Pc
      <4>5. /\ n.pc = "open" /\ n.op = q.op /\ n.path = q.path /\ n.to = q.to
            /\ n.checked = q.checked /\ n.answer = q.answer
        BY <1>2 DEF Handler
      <4>6. req' = [req EXCEPT ![r] = n]
        BY <4>1, <4>2
      <4>. HIDE DEF n
      <4>7. OnlyHandler(r) /\ req'[r] = n
        BY <4>2, <4>6 DEF OnlyHandler
      <4>8. \A held : HandlerGood(r, n, held)
        BY <1>1, <1>2, <1>3, <4>4, <4>5 DEF HandlerGood, Save, Transfer
      <4>. QED
        BY <1>1, <4>5, <4>7, <4>8
    <3>2. CASE ~IsFile(q.path)
      <4>1. Answer(r, "failed")
        BY <1>6, <3>2 DEF CopySource
      <4>2. \A held : /\ OnlyHandler(r) /\ HandlerGood(r, req'[r], held)
                      /\ req'[r].pc = "done" /\ req'[r].op = req[r].op
        BY <1>4, <4>1, AnswerGood
      <4>. QED
        BY <1>1, <4>2
    <3>. QED
      BY <3>1, <3>2
  <2>4. Held \subseteq Held'
    BY <1>1, <1>4, <2>2, <2>3, OthersUnwritten, HeldLines
  <2>5. \A o \in Request : req[o].pc \in {"write", "reread", "tell", "done"}
                               => req'[o].pc \in {"write", "reread", "tell", "done"}
    BY <1>1, <2>3 DEF OnlyHandler
  <2>6. InodesOnce'
    BY <2>2, <2>5, InodesFrame
  <2>. QED
    BY <1>1, <2>2, <2>3, <2>4, <2>6, Typed, HandlerStep
<1>. QED
  BY <1>5, <1>6

\* The first half of a write: what is cut is held by the handler now, or named as
\* lost.
LEMMA OpenTruncateKeeps ==
    ASSUME FilesInv, NEW r \in Request, OpenTruncate(r)
    PROVE  FilesInv' /\ Held \subseteq Held'
<1>. DEFINE p   == Destination(r)
            ino == IF IsFile(p) THEN fs[p].ino ELSE r
            kept == IF req[r].op = "copy" THEN req[r].checked ELSE req[r].data
<1>1. /\ req[r].pc = "open"
      /\ seen' = seen /\ transfers' = transfers /\ faults' = faults /\ UNCHANGED others
  BY DEF OpenTruncate
<1>2. HandlerGood(r, req[r], Held) /\ req[r] \in Handler
  BY GoodHandlers DEF HandlerGood
<1>3. /\ p \in Path /\ req[r].op \in Save \cup {"copy"} /\ req[r].op # "commit"
      /\ req[r].answer = "none" /\ req[r].path \in Path
  BY <1>1, <1>2 DEF HandlerGood, Destination, Transfer, Save
<1>4. Unwritten(r) = {} /\ "failed" \in Answers
  BY <1>1, NothingUnwritten DEF Answers
<1>5. CASE fs[p] = Dir \/ ~InDirs(p)
  <2>1. Answer(r, "failed") /\ fs' = fs /\ gone' = gone
    BY <1>5 DEF OpenTruncate
  <2>. QED
    BY <1>1, <1>4, <2>1, Typed, AnswerStep
<1>6. CASE ~(fs[p] = Dir \/ ~InDirs(p))
  <2>1. /\ fs' = [fs EXCEPT ![p] = File(ino, r, {})]
        /\ req' = [req EXCEPT ![r].pc = "write", ![r].ino = ino]
        /\ gone' = gone \cup (Text(p) \ kept)
    BY <1>6 DEF OpenTruncate, Lose
  <2>2. ino \in Line /\ r \in Line
    BY <1>3, Typed, TreeKinds DEF Line
  <2>3. /\ Text(p) \in Lines /\ (~IsFile(p) => Text(p) = {})
    BY <1>3, Typed, TreeKinds DEF Lines
  <2>4. /\ File(ino, r, {}) \in Entry /\ File(ino, r, {}).kind = "file"
        /\ File(ino, r, {}).ino = ino
    BY <2>2, FileEntry DEF Lines
  <2>5. \A a \in Ancestors(p) : fs[a] = Dir
    BY <1>6 DEF InDirs
  <2>6. /\ Shaped(fs')
        /\ \A q \in Path : fs'[q] = IF q = p THEN File(ino, r, {}) ELSE fs[q]
    <3>. DEFINE e == File(ino, r, {})
    <3>1. Shaped(fs) /\ fs[p] # Dir /\ e \in Entry /\ e.kind = "file"
          /\ fs' = [fs EXCEPT ![p] = e]
      BY <1>6, <2>1, <2>4, Typed
    <3>. HIDE DEF e, p
    <3>2. fs' \in [Path -> Entry] /\ fs'[p] = e /\ \A q \in Path : q # p => fs'[q] = fs[q]
      BY <1>3, <3>1 DEF Shaped
    <3>3. Shaped(fs')
      BY <1>3, <2>5, <3>1, <3>2, WriteShaped
    <3>. QED
      BY <3>2, <3>3 DEF e
  <2>. DEFINE n == [req[r] EXCEPT !.pc = "write", !.ino = ino]
  <2>7. req \in [Request -> Handler]
    BY Typed DEF TypeOK
  <2>8. req' = [req EXCEPT ![r] = n]
    BY <2>1, <2>7
  <2>. HIDE DEF ino
  <2>9. /\ n \in Handler /\ n.pc = "write" /\ n.ino = ino /\ n.op = req[r].op
        /\ n.next = req[r].next /\ n.data = req[r].data /\ n.path = req[r].path
        /\ n.to = req[r].to /\ n.checked = req[r].checked /\ n.answer = req[r].answer
    BY <1>2, <2>2 DEF Handler, Pc
  <2>. HIDE DEF n
  <2>10. OnlyHandler(r) /\ req'[r] = n
    BY <2>7, <2>8 DEF OnlyHandler
  <2>11. kept \subseteq Unwritten(r)'
    <3>1. CASE req[r].op = "copy"
      BY <1>2, <3>1 DEF HandlerGood
    <3>2. CASE req[r].op # "copy"
      <4>1. req[r].op \in Save /\ req[r].data \subseteq req[r].next
        BY <1>1, <1>2, <1>3, <3>2 DEF HandlerGood
      <4>. QED
        BY <2>9, <2>10, <3>2, <4>1 DEF Unwritten
    <3>. QED
      BY <3>1, <3>2
  <2>. HIDE DEF kept
  <2>12. Held \subseteq Held'
    <3>1. \A q \in Path : q # p => Text(q)' = Text(q)
      BY <2>6 DEF Text, IsFile
    <3>2. \A x \in Text(p) : x \in gone' \/ x \in Unwritten(r)'
      BY <2>1, <2>11
    <3>. QED
      BY <1>4, <2>1, <2>10, <3>1, <3>2, OthersUnwritten, HeldLines
  <2>13. HandlerGood(r, n, Held')
    <3>1. req[r].op \in Save => r \in n.next
      BY <1>1, <1>2, <2>9 DEF HandlerGood
    <3>. QED
      BY <1>1, <1>2, <1>3, <2>2, <2>9, <3>1 DEF HandlerGood, Save, Transfer
  <2>14. InodesOnce'
    <3>1. InodesOnce
      BY DEF FilesInv
    <3>2. \A q \in Path : IsFile(q) => fs[q].ino # r
      BY <1>1, <3>1 DEF InodesOnce
    <3>3. \A q \in Path : /\ q # p => (IsFile(q)' <=> IsFile(q)) /\ fs'[q] = fs[q]
                          /\ q = p => IsFile(q)' /\ fs'[q].ino = ino
      BY <2>4, <2>6 DEF IsFile
    <3>4. ASSUME NEW q \in Path, IsFile(q)', q # p PROVE fs'[q].ino # ino
      <4>1. IsFile(q) /\ fs'[q].ino = fs[q].ino
        BY <3>3, <3>4
      <4>2. CASE IsFile(p)
        BY <1>3, <3>1, <3>4, <4>1, <4>2 DEF InodesOnce, ino
      <4>3. CASE ~IsFile(p)
        BY <3>2, <4>1, <4>3 DEF ino
      <4>. QED
        BY <4>2, <4>3
    <3>5. ASSUME NEW q \in Path, NEW t \in Path, IsFile(q)', IsFile(t)', fs'[q].ino = fs'[t].ino
          PROVE  q = t
      <4>1. CASE q = p \/ t = p
        BY <3>3, <3>4, <3>5, <4>1
      <4>2. CASE q # p /\ t # p
        BY <3>1, <3>3, <3>5, <4>2 DEF InodesOnce
      <4>. QED
        BY <4>1, <4>2
    <3>6. ASSUME NEW q \in Path, NEW o \in Request, IsFile(q)', fs'[q].ino = o
          PROVE  req'[o].pc \in {"write", "reread", "tell", "done"}
      <4>1. CASE o = r
        BY <2>9, <2>10, <4>1
      <4>2. CASE o # r
        <5>1. req'[o] = req[o]
          BY <2>10, <4>2 DEF OnlyHandler
        <5>2. CASE q # p
          BY <3>1, <3>3, <3>6, <5>1, <5>2 DEF InodesOnce
        <5>3. CASE q = p
          <6>1. ino = o
            BY <3>3, <3>6, <5>3
          <6>2. IsFile(p) /\ fs[p].ino = o
            BY <4>2, <6>1 DEF ino
          <6>. QED
            BY <1>3, <3>1, <5>1, <6>2 DEF InodesOnce
        <5>. QED
          BY <5>2, <5>3
      <4>. QED
        BY <4>1, <4>2
    <3>. QED
      BY <3>5, <3>6 DEF InodesOnce
  <2>15. gone' \in Lines
    BY <2>1, <2>3, Typed DEF Lines
  <2>16. gone \subseteq gone' /\ n.pc # "commit" /\ n.op # "commit"
    BY <1>3, <2>1, <2>9
  <2>. QED
    BY <1>1, <2>6, <2>10, <2>12, <2>13, <2>14, <2>15, <2>16, Typed, HandlerStep
<1>. QED
  BY <1>5, <1>6

\* The second half: the lines are in the file that was opened, or named as lost.
LEMMA WriteTextKeeps ==
    ASSUME FilesInv, NEW r \in Request, WriteText(r)
    PROVE  FilesInv' /\ Held \subseteq Held'
<1>. DEFINE ps == Opened(req[r].ino)
            next == req[r].next
            goes == IF req[r].op \in Save THEN To(r, "reread") ELSE Answer(r, "ok")
<1>1. /\ req[r].pc = "write" /\ goes
      /\ seen' = seen /\ transfers' = transfers /\ faults' = faults /\ UNCHANGED others
  BY DEF WriteText
<1>2. HandlerGood(r, req[r], Held) /\ req[r] \in Handler
  BY GoodHandlers DEF HandlerGood
<1>3. /\ next \in Lines /\ r \in Line /\ req[r].path \in Path /\ req[r].answer = "none"
      /\ req[r].op \in Save => r \in next
      /\ Unwritten(r) = IF req[r].op \in Save THEN next ELSE {}
  BY <1>1, <1>2 DEF HandlerGood, Handler, Line, Unwritten
<1>4. /\ OnlyHandler(r) /\ req'[r] \in Handler /\ req'[r].pc \in {"reread", "done"}
      /\ req'[r].op = req[r].op /\ req'[r].checked = {}
      /\ req'[r].pc = "reread" => /\ req[r].op \in Save /\ req'[r].path = req[r].path
                                  /\ req'[r].to = req[r].to /\ req'[r].answer = "none"
      /\ req'[r].pc = "done" => req[r].op \notin Save /\ req'[r].data = {}
  <2>1. CASE req[r].op \in Save
    <3>1. To(r, "reread") /\ "reread" \in Pc
      BY <1>1, <2>1 DEF Pc
    <3>2. /\ OnlyHandler(r) /\ req'[r] \in Handler /\ req'[r].pc = "reread"
          /\ req'[r] = [req[r] EXCEPT !.pc = "reread"]
      BY <3>1, Typed, ToEffect
    <3>. QED
      BY <1>2, <1>3, <2>1, <3>2 DEF HandlerGood, Handler
  <2>2. CASE req[r].op \notin Save
    <3>1. Answer(r, "ok")
      BY <1>1, <2>2
    <3>. QED
      BY <2>2, <3>1, Typed, AnswerEffect
  <2>. QED
    BY <2>1, <2>2
<1>. HIDE DEF goes, ps
\* What has to be shown of the tree.
<1>5. ASSUME Shaped(fs'), gone \subseteq gone', gone' \in Lines,
             \A q \in Path : IsFile(q)' => IsFile(q) /\ fs'[q].ino = fs[q].ino,
             \A q \in Path : Text(q) \subseteq Text(q)' \cup gone',
             req[r].op \in Save => \A x \in next : x \in gone' \/ \E q \in Path : x \in Text(q)'
      PROVE  FilesInv' /\ Held \subseteq Held'
  <2>1. Held \subseteq Held'
    BY <1>3, <1>4, <1>5, OthersUnwritten, HeldLines
  <2>2. req[r].op \in Save => r \in Held'
    BY <1>3, <1>5, HeldLines
  <2>3. HandlerGood(r, req'[r], Held')
    BY <1>3, <1>4, <2>2 DEF HandlerGood, Save, Transfer
  <2>4. \A o \in Request : req[o].pc \in {"write", "reread", "tell", "done"}
                               => req'[o].pc \in {"write", "reread", "tell", "done"}
    BY <1>4 DEF OnlyHandler
  <2>5. InodesOnce'
    BY <1>5, <2>4, InodesFrame
  <2>6. req'[r].pc # "commit" /\ (req'[r].data = {} \/ req'[r].op # "commit")
    BY <1>4 DEF Save
  <2>. QED
    BY <1>1, <1>4, <1>5, <2>1, <2>3, <2>5, <2>6, Typed, HandlerStep
<1>6. CASE /\ ps = {} /\ fs' = fs
           /\ gone' = gone \cup (IF req[r].op \in Save THEN next ELSE {})
  <2>1. Shaped(fs') /\ gone' \in Lines /\ gone \subseteq gone'
    BY <1>3, <1>6, Typed DEF Lines
  <2>2. /\ \A q \in Path : IsFile(q)' => IsFile(q) /\ fs'[q].ino = fs[q].ino
        /\ \A q \in Path : Text(q) \subseteq Text(q)' \cup gone'
    BY <1>6 DEF IsFile, Text
  <2>. QED
    BY <1>5, <1>6, <2>1, <2>2
<1>7. ASSUME NEW p \in ps, NEW tail \in SUBSET Line, tail \subseteq Text(p) \ next,
             fs' = [fs EXCEPT ![p] = File(fs[p].ino, r, next \cup tail)],
             gone' = gone \cup (Text(p) \ (next \cup tail))
      PROVE  FilesInv' /\ Held \subseteq Held'
  <2>. DEFINE text == next \cup tail
              e    == File(fs[p].ino, r, text)
  <2>1. p \in Path /\ IsFile(p)
    BY <1>7 DEF ps, Opened
  <2>2. /\ fs[p].ino \in Line /\ fs[p] # Dir /\ fs[p] # None /\ Text(p) \subseteq Line
        /\ text \in Lines
    BY <1>3, <2>1, Typed, TreeKinds DEF Lines
  <2>. HIDE DEF text
  <2>3. e \in Entry /\ e.kind = "file" /\ e.ino = fs[p].ino /\ e.text = text
    BY <1>3, <2>2, FileEntry
  <2>4. \A a \in Ancestors(p) : fs[a] = Dir
    BY <2>1, <2>2, Typed DEF Shaped
  <2>5. Shaped(fs') /\ \A q \in Path : fs'[q] = IF q = p THEN e ELSE fs[q]
    <3>1. fs' = [fs EXCEPT ![p] = e] /\ Shaped(fs)
      BY <1>7, Typed DEF text
    <3>. HIDE DEF e
    <3>2. fs' \in [Path -> Entry] /\ fs'[p] = e /\ \A q \in Path : q # p => fs'[q] = fs[q]
      BY <2>1, <2>3, <3>1 DEF Shaped
    <3>3. Shaped(fs')
      BY <2>1, <2>2, <2>3, <2>4, <3>1, <3>2, WriteShaped
    <3>. QED
      BY <3>2, <3>3
  <2>6. \A q \in Path : IsFile(q)' => IsFile(q) /\ fs'[q].ino = fs[q].ino
    BY <2>1, <2>3, <2>5 DEF IsFile
  <2>7. Text(p)' = text /\ \A q \in Path : q # p => Text(q)' = Text(q)
    BY <2>1, <2>3, <2>5 DEF Text, IsFile
  <2>8. /\ \A q \in Path : Text(q) \subseteq Text(q)' \cup gone'
        /\ \A x \in next : \E q \in Path : x \in Text(q)'
        /\ gone \subseteq gone' /\ gone' \in Lines
    BY <1>7, <2>1, <2>2, <2>7, Typed DEF Lines, text
  <2>. QED
    BY <1>5, <2>5, <2>6, <2>8
<1>. QED
  BY <1>6, <1>7 DEF WriteText, Lose, ps

\* What is removed is gone, and the rest is as it was.
LEMMA RemoveStep ==
    ASSUME FilesInv, NEW p \in Path, fs' = RemoveAll(fs, p), gone' = gone \cup TextBelow(p)
    PROVE  /\ Shaped(fs') /\ gone' \in Lines
           /\ \A q \in Path : IsFile(q)' => IsFile(q) /\ fs'[q].ino = fs[q].ino
           /\ \A q \in Path : Text(q) \subseteq Text(q)' \cup gone'
<1>1. Shaped(fs')
  BY Typed, RemoveShaped
<1>2. \A q \in Path : fs'[q] = IF q \in Below(p) THEN None ELSE fs[q]
  BY DEF RemoveAll
<1>3. \A q \in Path : IsFile(q)' => IsFile(q) /\ fs'[q].ino = fs[q].ino
  BY <1>2, EmptyKinds DEF IsFile
<1>4. \A q \in Path : q \notin Below(p) => Text(q)' = Text(q)
  BY <1>2 DEF Text, IsFile
<1>5. \A q \in Path : q \in Below(p) => Text(q) \subseteq TextBelow(p)
  BY DEF TextBelow
<1>6. TextBelow(p) \subseteq Line
  <2>1. \A q \in Below(p) : Text(q) \subseteq Line
    BY Typed, TreeKinds DEF Below
  <2>. QED
    BY <2>1 DEF TextBelow
<1>. QED
  BY <1>1, <1>3, <1>4, <1>5, <1>6, Typed DEF Lines

\* Where nothing is, nothing is below.
LEMMA NothingBelow ==
    ASSUME FilesInv, NEW p \in Path, ~Exists(p)
    PROVE  TextBelow(p) = {}
<1>1. ASSUME NEW q \in Below(p) PROVE Text(q) = {}
  <2>1. q \in Path
    BY DEF Below
  <2>2. SUFFICES ASSUME IsFile(q) PROVE FALSE
    BY DEF Text
  <2>3. q # p
    BY <2>2 DEF IsFile, Exists
  <2>4. p \in Ancestors(q)
    BY <2>1, <2>3, Around
  <2>5. fs[q] # None
    BY <2>1, <2>2, Typed, TreeKinds
  <2>6. fs[p] = Dir
    BY <2>1, <2>4, <2>5, Typed DEF Shaped
  <2>. QED
    BY <2>6, Typed, TreeKinds
<1>. QED
  BY <1>1 DEF TextBelow

\* A delete names all it takes.
LEMMA DeleteKeeps ==
    ASSUME FilesInv, NEW r \in Request, Delete(r)
    PROVE  FilesInv' /\ Held \subseteq Held'
<1>. DEFINE p == req[r].path
<1>1. /\ req[r].pc = "remove"
      /\ seen' = seen /\ transfers' = transfers /\ faults' = faults /\ UNCHANGED others
  BY DEF Delete
<1>2. HandlerGood(r, req[r], Held)
  BY GoodHandlers
<1>3. p \in Path /\ req[r].op = "delete" /\ req[r].op \notin Save
  BY <1>1, <1>2 DEF HandlerGood, Save
<1>4. Unwritten(r) = {} /\ {"ok", "refused"} \subseteq Answers
  BY <1>1, NothingUnwritten DEF Answers
<1>5. CASE Exists(p)
  <2>1. fs' = RemoveAll(fs, p) /\ gone' = gone \cup TextBelow(p) /\ Answer(r, "ok")
    BY <1>5 DEF Delete, Lose
  <2>2. /\ Shaped(fs') /\ gone' \in Lines /\ gone \subseteq gone'
        /\ \A q \in Path : IsFile(q)' => IsFile(q) /\ fs'[q].ino = fs[q].ino
        /\ \A q \in Path : Text(q) \subseteq Text(q)' \cup gone'
    BY <1>3, <2>1, RemoveStep
  <2>3. /\ OnlyHandler(r) /\ HandlerGood(r, req'[r], Held')
        /\ req'[r].pc = "done" /\ req'[r].data = {}
    BY <1>3, <1>4, <2>1, AnswerGood
  <2>4. Held \subseteq Held'
    BY <1>4, <2>2, <2>3, OthersUnwritten, HeldLines
  <2>5. \A o \in Request : req[o].pc \in {"write", "reread", "tell", "done"}
                               => req'[o].pc \in {"write", "reread", "tell", "done"}
    BY <2>3 DEF OnlyHandler
  <2>6. InodesOnce'
    BY <2>2, <2>5, InodesFrame
  <2>. QED
    BY <1>1, <2>2, <2>3, <2>4, <2>6, Typed, HandlerStep
<1>6. CASE ~Exists(p)
  <2>1. Answer(r, "refused") /\ fs' = fs /\ gone' = gone
    BY <1>6 DEF Delete
  <2>. QED
    BY <1>1, <1>4, <2>1, Typed, AnswerStep
<1>. QED
  BY <1>5, <1>6

\* So does an overwrite; a target found free holds nothing.
LEMMA EnsureTargetKeeps ==
    ASSUME FilesInv, NEW r \in Request, EnsureTarget(r)
    PROVE  FilesInv' /\ Held \subseteq Held'
<1>. DEFINE q == req[r]
<1>1. /\ q.pc = "ensure"
      /\ seen' = seen /\ transfers' = transfers /\ faults' = faults /\ UNCHANGED others
  BY DEF EnsureTarget
<1>2. HandlerGood(r, q, Held) /\ q \in Handler
  BY GoodHandlers DEF HandlerGood
<1>3. /\ q.path \in Path /\ q.to \in Path /\ q.op \in Transfer /\ q.op \notin Save
      /\ q.op # "commit" /\ q.answer = "none"
  BY <1>1, <1>2 DEF HandlerGood, Transfer, Save
<1>4. Unwritten(r) = {} /\ "conflict" \in Answers /\ "transfer" \in Pc
  BY <1>1, NothingUnwritten DEF Answers, Pc
<1>5. CASE TargetTaken(q.to, q.flag)
  <2>1. Answer(r, "conflict") /\ fs' = fs /\ gone' = gone
    BY <1>5 DEF EnsureTarget
  <2>. QED
    BY <1>1, <1>4, <2>1, Typed, AnswerStep
<1>6. CASE ~TargetTaken(q.to, q.flag) /\ q.flag
  <2>1. fs' = RemoveAll(fs, q.to) /\ gone' = gone \cup TextBelow(q.to) /\ To(r, "transfer")
    BY <1>6 DEF EnsureTarget, Lose
  <2>2. /\ Shaped(fs') /\ gone' \in Lines /\ gone \subseteq gone'
        /\ \A t \in Path : IsFile(t)' => IsFile(t) /\ fs'[t].ino = fs[t].ino
        /\ \A t \in Path : Text(t) \subseteq Text(t)' \cup gone'
    BY <1>3, <2>1, RemoveStep
  <2>3. /\ OnlyHandler(r) /\ req'[r] \in Handler /\ req'[r].pc = "transfer"
        /\ req'[r] = [q EXCEPT !.pc = "transfer"]
    BY <1>4, <2>1, Typed, ToEffect
  <2>4. /\ req'[r].op = q.op /\ req'[r].path = q.path /\ req'[r].to = q.to
        /\ req'[r].checked = {} /\ req'[r].answer = "none"
    BY <1>2, <1>3, <2>3 DEF HandlerGood, Handler
  <2>5. HandlerGood(r, req'[r], Held')
    BY <1>3, <2>3, <2>4 DEF HandlerGood
  <2>6. Held \subseteq Held'
    BY <1>4, <2>2, <2>3, OthersUnwritten, HeldLines
  <2>7. \A o \in Request : req[o].pc \in {"write", "reread", "tell", "done"}
                               => req'[o].pc \in {"write", "reread", "tell", "done"}
    BY <1>1, <2>3 DEF OnlyHandler
  <2>8. InodesOnce'
    BY <2>2, <2>7, InodesFrame
  <2>. QED
    BY <1>1, <1>3, <2>2, <2>3, <2>4, <2>5, <2>6, <2>8, Typed, HandlerStep
<1>7. CASE ~TargetTaken(q.to, q.flag) /\ ~q.flag
  <2>1. /\ req' = [req EXCEPT ![r].pc = "transfer", ![r].checked = TextBelow(q.to)]
        /\ fs' = fs /\ gone' = gone
    BY <1>7 DEF EnsureTarget
  <2>2. TextBelow(q.to) = {}
    BY <1>3, <1>7, NothingBelow DEF TargetTaken
  <2>. DEFINE n == [q EXCEPT !.pc = "transfer", !.checked = {}]
  <2>3. req \in [Request -> Handler]
    BY Typed DEF TypeOK
  <2>4. req' = [req EXCEPT ![r] = n]
    BY <2>1, <2>2, <2>3
  <2>5. n \in Handler
    BY <1>2 DEF Handler, Pc, Lines
  <2>6. /\ n.pc = "transfer" /\ n.op = q.op /\ n.path = q.path /\ n.to = q.to
        /\ n.checked = {} /\ n.answer = q.answer
    BY <1>2 DEF Handler
  <2>. HIDE DEF n
  <2>7. OnlyHandler(r) /\ req'[r] = n
    BY <2>3, <2>4 DEF OnlyHandler
  <2>8. HandlerGood(r, n, Held)
    BY <1>3, <2>5, <2>6 DEF HandlerGood
  <2>. QED
    BY <1>1, <1>3, <1>4, <2>1, <2>6, <2>7, <2>8, Typed, QuietStep
<1>. QED
  BY <1>5, <1>6, <1>7

\* What a rename moves stays in the tree.
LEMMA RenameStepKeeps ==
    ASSUME FilesInv, NEW r \in Request, Rename(r)
    PROVE  FilesInv' /\ Held \subseteq Held'
<1>. DEFINE q    == req[r]
            made == IF q.op = "move" THEN MkdirAll(fs, q.to) ELSE fs
<1>1. /\ q.op \in {"move", "rename"} /\ q.pc = "transfer"
      /\ seen' = seen /\ transfers' = transfers /\ faults' = faults /\ UNCHANGED others
  BY DEF Rename, At
<1>2. HandlerGood(r, q, Held)
  BY GoodHandlers
<1>3. q.path \in Path /\ q.to \in Path /\ q.op \notin Save /\ q.checked = {}
  BY <1>1, <1>2 DEF HandlerGood, Transfer, Save
<1>4. Unwritten(r) = {} /\ {"ok", "failed"} \subseteq Answers
  BY <1>1, NothingUnwritten DEF Answers
<1>5. CASE q.op = "move" /\ ~CanMkdir(q.to)
  <2>1. Answer(r, "failed") /\ fs' = fs /\ gone' = gone
    BY <1>5 DEF Rename
  <2>. QED
    BY <1>1, <1>4, <2>1, Typed, AnswerStep
<1>6. CASE ~(q.op = "move" /\ ~CanMkdir(q.to))
  <2>1. /\ Shaped(made)
        /\ \A t \in Path : made[t].kind = "file" <=> IsFile(t)
        /\ \A t \in Path : IsFile(t) => made[t] = fs[t]
    <3>1. CASE q.op = "move"
      BY <1>3, <1>6, <3>1, MkdirKeepsFiles
    <3>2. CASE q.op # "move"
      BY <3>2, Typed DEF IsFile
    <3>. QED
      BY <3>1, <3>2
  <2>2. \/ /\ q.path # q.to /\ CanRename(made, q.path, q.to)
           /\ fs' = Renamed(made, q.path, q.to) /\ gone' = gone \cup (Text(q.to) \ q.checked)
           /\ Answer(r, "ok")
        \/ Answer(r, "failed") /\ fs' = made /\ gone' = gone
    BY <1>6 DEF Rename, Lose
  <2>. HIDE DEF made
  <2>3. /\ OnlyHandler(r) /\ HandlerGood(r, req'[r], Held')
        /\ req'[r].pc = "done" /\ req'[r].data = {}
    BY <1>3, <1>4, <2>2, AnswerGood
  <2>4. \A o \in Request : req[o].pc \in {"write", "reread", "tell", "done"}
                               => req'[o].pc \in {"write", "reread", "tell", "done"}
    BY <2>3 DEF OnlyHandler
  <2>5. ASSUME Shaped(fs'), InodesOnce', gone \subseteq gone', gone' \in Lines,
               \A t \in Path : \A x \in Text(t) : x \in gone' \/ \E s \in Path : x \in Text(s)'
        PROVE  FilesInv' /\ Held \subseteq Held'
    <3>1. Held \subseteq Held'
      BY <1>4, <2>3, <2>5, OthersUnwritten, HeldLines
    <3>. QED
      BY <1>1, <2>3, <2>5, <3>1, Typed, HandlerStep
  <2>6. CASE fs' = made /\ gone' = gone
    <3>1. \A t \in Path : IsFile(t)' => IsFile(t) /\ fs'[t].ino = fs[t].ino
      BY <2>1, <2>6 DEF IsFile
    <3>2. InodesOnce'
      BY <2>4, <3>1, InodesFrame
    <3>3. \A t \in Path : Text(t)' = Text(t)
      BY <2>1, <2>6 DEF Text, IsFile
    <3>. QED
      BY <2>1, <2>5, <2>6, <3>2, <3>3, Typed
  <2>7. CASE /\ q.path # q.to /\ CanRename(made, q.path, q.to)
             /\ fs' = Renamed(made, q.path, q.to) /\ gone' = gone \cup (Text(q.to) \ q.checked)
    <3>1. Shaped(fs')
      BY <1>3, <2>1, <2>7, RenameShaped
    <3>2. /\ \A t \in Path : made[t].kind = "file" /\ t # q.to => \E s \in Path : fs'[s] = made[t]
          /\ \A t \in Path : fs'[t].kind = "file"
                 => \E s \in Path : /\ made[s] = fs'[t]
                                    /\ IF t \in Below(q.to)
                                       THEN s \in Below(q.path) /\ t = Moved(q.path, q.to, s)
                                       ELSE s = t /\ t \notin Below(q.path)
      BY <1>3, <2>1, <2>7, RenameKeeps
    <3>3. ASSUME NEW t \in Path, NEW x \in Text(t)
          PROVE  x \in gone' \/ \E s \in Path : x \in Text(s)'
      <4>1. IsFile(t) /\ x \in fs[t].text
        BY <3>3 DEF Text
      <4>2. CASE t = q.to
        BY <1>3, <2>7, <3>3, <4>2
      <4>3. CASE t # q.to
        <5>1. PICK s \in Path : fs'[s] = made[t]
          BY <2>1, <3>2, <4>1, <4>3
        <5>2. fs'[s].kind = "file" /\ x \in fs'[s].text
          BY <2>1, <4>1, <5>1 DEF IsFile
        <5>. QED
          BY <5>2 DEF Text, IsFile
      <4>. QED
        BY <4>2, <4>3
    <3>4. ASSUME NEW t \in Path, IsFile(t)'
          PROVE  \E s \in Path : /\ IsFile(s) /\ fs[s].ino = fs'[t].ino
                                 /\ IF t \in Below(q.to)
                                    THEN s \in Below(q.path) /\ t = Moved(q.path, q.to, s)
                                    ELSE s = t /\ t \notin Below(q.path)
      <4>1. fs'[t].kind = "file"
        BY <3>4 DEF IsFile
      <4>2. PICK s \in Path : /\ made[s] = fs'[t]
                              /\ IF t \in Below(q.to)
                                 THEN s \in Below(q.path) /\ t = Moved(q.path, q.to, s)
                                 ELSE s = t /\ t \notin Below(q.path)
        BY <3>2, <4>1
      <4>3. IsFile(s) /\ fs[s].ino = fs'[t].ino
        BY <2>1, <4>1, <4>2
      <4>. QED
        BY <4>2, <4>3
    <3>5. InodesOnce
      BY DEF FilesInv
    <3>6. InodesOnce'
      <4>1. ASSUME NEW t \in Path, NEW u \in Path, IsFile(t)', IsFile(u)', fs'[t].ino = fs'[u].ino
            PROVE  t = u
        <5>1. PICK s \in Path : /\ IsFile(s) /\ fs[s].ino = fs'[t].ino
                                /\ IF t \in Below(q.to)
                                   THEN s \in Below(q.path) /\ t = Moved(q.path, q.to, s)
                                   ELSE s = t /\ t \notin Below(q.path)
          BY <3>4, <4>1
        <5>2. PICK v \in Path : /\ IsFile(v) /\ fs[v].ino = fs'[u].ino
                                /\ IF u \in Below(q.to)
                                   THEN v \in Below(q.path) /\ u = Moved(q.path, q.to, v)
                                   ELSE v = u /\ u \notin Below(q.path)
          BY <3>4, <4>1
        <5>3. s = v
          BY <3>5, <4>1, <5>1, <5>2 DEF InodesOnce
        <5>. QED
          BY <5>1, <5>2, <5>3
      <4>2. ASSUME NEW t \in Path, NEW o \in Request, IsFile(t)', fs'[t].ino = o
            PROVE  req'[o].pc \in {"write", "reread", "tell", "done"}
        <5>1. PICK s \in Path : IsFile(s) /\ fs[s].ino = o
          BY <3>4, <4>2
        <5>2. req[o].pc \in {"write", "reread", "tell", "done"}
          BY <3>5, <5>1 DEF InodesOnce
        <5>. QED
          BY <2>4, <5>2
      <4>. QED
        BY <4>1, <4>2 DEF InodesOnce
    <3>7. gone' \in Lines /\ gone \subseteq gone'
      <4>1. Text(q.to) \subseteq Line
        BY <1>3, Typed, TreeKinds
      <4>. QED
        BY <2>7, <4>1, Typed DEF Lines
    <3>. QED
      BY <2>5, <3>1, <3>3, <3>6, <3>7
  <2>. QED
    BY <2>2, <2>6, <2>7
<1>. QED
  BY <1>5, <1>6

\* An add passes over what is cut at the time, and replaces the index: what another's
\* add has put there and is in no file any more is passed over or gone.
LEMMA GitAddKeeps ==
    ASSUME FilesInv, NEW r \in Request, GitAdd(r)
    PROVE  FilesInv' /\ Held \subseteq Held'
<1>. DEFINE lines == LinesOf(Tree)
            n == [req[r] EXCEPT !.pc = "commit", !.data = lines]
<1>1. /\ req[r].op = "commit" /\ req[r].pc = "add"
      /\ staged' = Tree /\ passed' = passed \cup InFlight
      /\ req' = [req EXCEPT ![r].pc = "commit", ![r].data = lines]
      /\ fs' = fs /\ seen' = seen /\ transfers' = transfers /\ faults' = faults
      /\ gone' = gone /\ edited' = edited /\ head' = head /\ committed' = committed
  BY DEF GitAdd, At, Added
<1>2. HandlerGood(r, req[r], Held) /\ req[r] \in Handler
  BY GoodHandlers DEF HandlerGood
<1>3. lines \subseteq Line
  <2>1. \A p \in Path : Text(p) \subseteq Line
    BY Typed, TreeKinds
  <2>. QED
    BY <2>1, TreeLines
<1>. HIDE DEF lines
<1>4. req \in [Request -> Handler]
  BY Typed DEF TypeOK
<1>5. req' = [req EXCEPT ![r] = n]
  BY <1>1, <1>4
<1>6. n \in Handler
  BY <1>2, <1>3 DEF Handler, Pc, Lines
<1>7. /\ n.pc = "commit" /\ n.op = "commit" /\ n.data = lines
      /\ n.checked = req[r].checked /\ n.answer = req[r].answer
  BY <1>1, <1>2 DEF Handler
<1>. HIDE DEF n
<1>8. OnlyHandler(r) /\ req'[r] = n
  BY <1>4, <1>5 DEF OnlyHandler
<1>9. Held \subseteq Held'
  <2>1. Unwritten(r) = {}
    BY <1>1, NothingUnwritten
  <2>. QED
    BY <1>1, <1>8, <2>1, OthersUnwritten, HeldStays
<1>10. HandlerGood(r, n, Held')
  BY <1>1, <1>2, <1>6, <1>7 DEF HandlerGood, Save, Transfer
<1>11. /\ req' \in [Request -> Handler]
       /\ \A o \in Request : HandlerGood(o, req'[o], Held')
  BY <1>8, <1>9, <1>10, OthersStay
<1>12. Tree \subseteq Path \X Lines
  <2>1. \A p \in Path : IsFile(p) => fs[p].text \in Lines
    BY Typed, TreeKinds DEF Lines
  <2>. QED
    BY <2>1 DEF Tree
<1>13. InFlight \subseteq Line
  <2>1. \A o \in Request : req[o].next \in Lines
    BY <1>4 DEF Handler
  <2>. QED
    BY <2>1 DEF InFlight, Unwritten, Lines
<1>14. Shaped(fs') /\ SeenGood(seen')
  BY <1>1, Typed
<1>15. InodesOnce'
  BY <1>1, <1>8, InodesFrame DEF IsFile, OnlyHandler
<1>16. TypeOK' /\ TreeShape' /\ InodesOnce' /\ HandlersInStep' /\ SavesWriteBack' /\ EditsKept'
  <2>1. head \subseteq Path \X Lines /\ edited \in BOOLEAN /\ passed' \in Lines
    BY <1>1, <1>13, Typed DEF TypeOK, Lines
  <2>. QED
    BY <1>1, <1>9, <1>11, <1>12, <1>14, <1>15, <2>1, Typed, StepKeeps DEF SeenGood
<1>17. LinesOf(staged)' = lines
  BY <1>1 DEF LinesOf, lines
<1>18. Held = lines \cup gone \cup InFlight
  BY DEF Held, lines
<1>19. AddedHeld'
  <2>1. ASSUME NEW o \in Request, req'[o].op = "commit", req'[o].pc = "commit"
        PROVE  /\ req'[o].data \subseteq Held'
               /\ req'[o].data \subseteq LinesOf(staged)' \cup gone' \cup passed'
    <3>1. CASE o = r
      BY <1>7, <1>8, <1>9, <1>17, <1>18, <3>1
    <3>2. CASE o # r
      <4>1. req'[o] = req[o]
        BY <1>8, <3>2 DEF OnlyHandler
      <4>2. req[o].data \subseteq Held
        BY <2>1, <4>1 DEF FilesInv, AddedHeld, At
      <4>. QED
        BY <1>1, <1>9, <1>17, <1>18, <4>1, <4>2
    <3>. QED
      BY <3>1, <3>2
  <2>. QED
    BY <2>1 DEF AddedHeld, At
<1>20. CommitHasAdded'
  <2>1. CommitHasAdded
    BY DEF FilesInv
  <2>2. n.answer = "none"
    BY <1>1, <1>2, <1>7 DEF HandlerGood
  <2>. QED
    BY <1>1, <1>8, <2>1, <2>2 DEF CommitHasAdded, OnlyHandler
<1>. QED
  BY <1>9, <1>16, <1>19, <1>20 DEF FilesInv

\* A commit commits what is in the index.
LEMMA GitCommitKeeps ==
    ASSUME FilesInv, NEW r \in Request, GitCommit(r)
    PROVE  FilesInv' /\ Held \subseteq Held'
<1>. DEFINE a == IF staged = head THEN "clean" ELSE "ok"
            n == [req[r] EXCEPT !.pc = "done", !.answer = a]
<1>1. /\ req[r].op = "commit" /\ req[r].pc = "commit"
      /\ req' = [req EXCEPT ![r].pc = "done", ![r].answer = a]
      /\ head' = staged /\ committed' = committed \cup LinesOf(staged)
      /\ fs' = fs /\ seen' = seen /\ transfers' = transfers /\ faults' = faults
      /\ gone' = gone /\ edited' = edited /\ staged' = staged /\ passed' = passed
  BY DEF GitCommit, At
<1>2. HandlerGood(r, req[r], Held) /\ req[r] \in Handler
  BY GoodHandlers DEF HandlerGood
<1>3. a \in {"clean", "ok"}
  OBVIOUS
<1>. HIDE DEF a
<1>4. req \in [Request -> Handler]
  BY Typed DEF TypeOK
<1>5. req' = [req EXCEPT ![r] = n]
  BY <1>1, <1>4
<1>6. n \in Handler
  BY <1>2, <1>3 DEF Handler, Pc
<1>7. /\ n.pc = "done" /\ n.op = "commit" /\ n.data = req[r].data /\ n.checked = req[r].checked
  BY <1>1, <1>2 DEF Handler
<1>. HIDE DEF n
<1>8. OnlyHandler(r) /\ req'[r] = n
  BY <1>4, <1>5 DEF OnlyHandler
<1>9. Held \subseteq Held'
  <2>1. Unwritten(r) = {}
    BY <1>1, NothingUnwritten
  <2>. QED
    BY <1>1, <1>8, <2>1, OthersUnwritten, HeldStays
<1>10. HandlerGood(r, n, Held')
  BY <1>1, <1>2, <1>6, <1>7 DEF HandlerGood, Save, Transfer
<1>11. /\ req' \in [Request -> Handler]
       /\ \A o \in Request : HandlerGood(o, req'[o], Held')
  BY <1>8, <1>9, <1>10, OthersStay
<1>12. staged \subseteq Path \X Lines /\ edited \in BOOLEAN /\ passed \in Lines
  BY Typed DEF TypeOK
<1>13. LinesOf(staged) \subseteq Line
  BY <1>12 DEF LinesOf, Lines
<1>14. Shaped(fs') /\ SeenGood(seen') /\ committed' \in Lines
  BY <1>1, <1>13, Typed DEF Lines
<1>15. InodesOnce'
  BY <1>1, <1>7, <1>8, InodesFrame DEF IsFile, OnlyHandler
<1>16. TypeOK' /\ TreeShape' /\ InodesOnce' /\ HandlersInStep' /\ SavesWriteBack' /\ EditsKept'
  BY <1>1, <1>9, <1>11, <1>12, <1>14, <1>15, Typed, StepKeeps DEF SeenGood
<1>17. LinesOf(staged)' = LinesOf(staged)
  BY <1>1 DEF LinesOf
<1>18. AddedHeld
  BY DEF FilesInv
<1>19. AddedHeld'
  BY <1>1, <1>7, <1>8, <1>9, <1>17, <1>18 DEF AddedHeld, At, OnlyHandler
<1>20. CommitHasAdded'
  <2>1. CommitHasAdded
    BY DEF FilesInv
  <2>2. req[r].data \subseteq LinesOf(staged) \cup gone \cup passed
    BY <1>1, <1>18 DEF AddedHeld, At
  <2>. QED
    BY <1>1, <1>7, <1>8, <2>1, <2>2 DEF CommitHasAdded, OnlyHandler
<1>. QED
  BY <1>9, <1>16, <1>19, <1>20 DEF FilesInv

\* The outside editor's save adds its line, atomically.
LEMMA EditOutsideKeeps ==
    ASSUME FilesInv, NEW p \in Path, EditOutside(p)
    PROVE  FilesInv' /\ Held \subseteq Held'
<1>. DEFINE text == fs[p].text \cup {Outside}
            e    == File(fs[p].ino, Outside, text)
<1>1. /\ IsFile(p) /\ edited' = TRUE /\ fs' = [fs EXCEPT ![p] = e]
      /\ req' = req /\ seen' = seen /\ transfers' = transfers /\ faults' = faults
      /\ gone' = gone /\ staged' = staged /\ head' = head /\ committed' = committed
      /\ passed' = passed
  BY DEF EditOutside
<1>2. /\ fs[p].ino \in Line /\ fs[p] # Dir /\ fs[p] # None /\ Text(p) = fs[p].text
      /\ Outside \in Line /\ text \in Lines
  BY <1>1, Typed, TreeKinds DEF Lines, Line
<1>. HIDE DEF text
<1>3. e \in Entry /\ e.kind = "file" /\ e.ino = fs[p].ino /\ e.text = text
  BY <1>2, FileEntry
<1>. HIDE DEF e
<1>4. Shaped(fs)
  BY Typed
<1>5. fs' \in [Path -> Entry] /\ fs'[p] = e /\ \A q \in Path : q # p => fs'[q] = fs[q]
  BY <1>1, <1>3, <1>4 DEF Shaped
<1>6. \A a \in Ancestors(p) : fs[a] = Dir
  BY <1>2, <1>4 DEF Shaped
<1>7. Shaped(fs')
  BY <1>2, <1>3, <1>4, <1>5, <1>6, WriteShaped
<1>8. \A q \in Path : IsFile(q)' => IsFile(q) /\ fs'[q].ino = fs[q].ino
  BY <1>1, <1>3, <1>5 DEF IsFile
<1>9. InodesOnce'
  BY <1>1, <1>8, InodesFrame
<1>10. Text(p)' = text /\ \A q \in Path : q # p => Text(q)' = Text(q)
  BY <1>3, <1>5 DEF Text, IsFile
<1>11. Text(p) \subseteq text /\ Outside \in text
  BY <1>2 DEF text
<1>12. \A o \in Request : Unwritten(o)' = Unwritten(o)
  BY <1>1 DEF Unwritten
<1>13. Held \subseteq Held' /\ Outside \in Held'
  BY <1>1, <1>10, <1>11, <1>12, HeldLines
<1>14. \A o \in Request : HandlerGood(o, req'[o], Held')
  <2>1. \A o \in Request : HandlerGood(o, req[o], Held)
    BY GoodHandlers
  <2>. QED
    BY <1>1, <1>13, <2>1 DEF HandlerGood
<1>15. /\ req \in [Request -> Handler] /\ staged \subseteq Path \X Lines
       /\ head \subseteq Path \X Lines
  BY Typed DEF TypeOK
<1>16. TypeOK' /\ TreeShape' /\ InodesOnce' /\ HandlersInStep' /\ SavesWriteBack' /\ EditsKept'
  BY <1>1, <1>7, <1>9, <1>13, <1>14, <1>15, Typed, StepKeeps DEF SeenGood
<1>17. AddedHeld' /\ CommitHasAdded'
  BY <1>1, <1>13, CommitsStay
<1>. QED
  BY <1>13, <1>16, <1>17 DEF FilesInv

\* A crash loses what every handler was about to write.
LEMMA CrashKeeps ==
    ASSUME FilesInv, Crash
    PROVE  FilesInv' /\ Held \subseteq Held'
<1>. DEFINE dead == [Idle EXCEPT !.pc = "done", !.answer = "failed"]
<1>1. /\ faults < MaxFaults /\ faults' = faults + 1 /\ gone' = gone \cup InFlight
      /\ req' = [r \in Request |-> IF req[r].pc \in {"idle", "done"} THEN req[r] ELSE dead]
      /\ fs' = fs /\ seen' = seen /\ transfers' = transfers /\ UNCHANGED others
  BY DEF Crash, Lose
<1>2. \A held, r : HandlerGood(r, dead, held)
  BY DEF Idle, HandlerGood, Handler, NoRev, RevState, Pc, Op, Stamp, Lines, Save, Transfer
<1>3. dead.pc = "done" /\ dead.data = {} /\ dead \in Handler
  BY DEF Idle, Handler, NoRev, RevState, Pc, Op, Stamp, Lines
<1>. HIDE DEF dead
<1>4. \A r \in Request : req'[r] = req[r] \/ req'[r] = dead
  BY <1>1
<1>5. gone \subseteq gone' /\ InFlight \subseteq gone'
  BY <1>1
<1>6. \A r \in Request : Unwritten(r) \subseteq gone'
  BY <1>5 DEF InFlight
<1>7. Held \subseteq Held'
  BY <1>1, <1>5, <1>6, HeldStays
<1>8. \A r \in Request : HandlerGood(r, req'[r], Held')
  <2>1. \A r \in Request : HandlerGood(r, req[r], Held)
    BY GoodHandlers
  <2>2. \A r \in Request : HandlerGood(r, req[r], Held')
    BY <1>7, <2>1 DEF HandlerGood
  <2>. QED
    BY <1>2, <1>4, <2>2
<1>9. req \in [Request -> Handler]
  BY Typed DEF TypeOK
<1>10. req' \in [Request -> Handler]
  BY <1>1, <1>3, <1>9
<1>11. InFlight \subseteq Line
  <2>1. \A o \in Request : req[o].next \in Lines
    BY <1>9 DEF Handler
  <2>. QED
    BY <2>1 DEF InFlight, Unwritten, Lines
<1>12. Shaped(fs') /\ SeenGood(seen') /\ gone' \in Lines
  BY <1>1, <1>11, Typed DEF Lines
<1>13. faults' \in 0..MaxFaults
  BY <1>1, Typed, TaskFilesAssumption
<1>14. InodesOnce'
  BY <1>1, <1>3, <1>4, InodesFrame DEF IsFile
<1>15. /\ staged' = staged /\ head' = head /\ edited' = edited
       /\ committed' = committed /\ passed' = passed
  BY <1>1 DEF others
<1>16. /\ staged \subseteq Path \X Lines /\ head \subseteq Path \X Lines /\ edited \in BOOLEAN
  BY Typed DEF TypeOK
<1>17. TypeOK' /\ TreeShape' /\ InodesOnce' /\ HandlersInStep' /\ SavesWriteBack' /\ EditsKept'
  BY <1>1, <1>7, <1>8, <1>10, <1>12, <1>13, <1>14, <1>15, <1>16, Typed, StepKeeps DEF SeenGood
<1>18. AddedHeld' /\ CommitHasAdded'
  BY <1>3, <1>4, <1>5, <1>7, <1>15, CommitsStay
<1>. QED
  BY <1>7, <1>17, <1>18 DEF FilesInv

\* The name a file has in its directory.
LastName(p) == p[Len(p)]

\* Initially nothing is under way, and every line is in its file.
LEMMA InvInit ==
    ASSUME Init PROVE FilesInv
<1>. USE TaskFilesAssumption
<1>1. /\ req = [r \in Request |-> Idle] /\ staged = Tree /\ head = Tree
      /\ seen = {[path |-> p, rev |-> Revision(p, Text(p)), text |-> Text(p)] : p \in InitialFile}
      /\ edited = FALSE /\ transfers = 0 /\ faults = 0
      /\ gone = {} /\ committed = LinesOf(Tree) /\ passed = {}
  BY DEF Init
<1>2. ASSUME NEW p \in InitialFile
      PROVE  /\ p \in Path /\ LastName(p) \in Line /\ fs[p] \in Entry /\ IsFile(p)
             /\ fs[p].ino = LastName(p) /\ fs[p].mtime = LastName(p)
             /\ fs[p].text = {LastName(p)} /\ Text(p) = {LastName(p)} /\ fs[p] # Dir
  <2>1. p \in Path /\ LastName(p) \in Line
    BY DEF Line, Name, LastName
  <2>2. fs[p] = File(LastName(p), LastName(p), {LastName(p)})
    BY <2>1 DEF Init, LastName
  <2>3. {LastName(p)} \in Lines
    BY <2>1 DEF Lines
  <2>4. /\ fs[p] \in Entry /\ fs[p].kind = "file" /\ fs[p].ino = LastName(p)
        /\ fs[p].mtime = LastName(p) /\ fs[p].text = {LastName(p)}
    BY ONLY <2>1, <2>2, <2>3, FileEntry
  <2>. QED
    BY <2>1, <2>4, EmptyKinds DEF IsFile, Text
<1>3. ASSUME NEW p \in Path, p \notin InitialFile
      PROVE  /\ fs[p] \in {Dir, None} /\ fs[p] \in Entry /\ ~IsFile(p)
             /\ p \in InitialDir => fs[p] = Dir
             /\ p \notin InitialDir => fs[p] = None /\ ~Exists(p)
  <2>1. fs[p] = IF p \in InitialDir THEN Dir ELSE None
    BY <1>3 DEF Init
  <2>. QED
    BY <2>1, EmptyKinds DEF IsFile, Exists
<1>4. fs \in [Path -> Entry]
  <2>1. \A p \in Path : fs[p] \in Entry
    BY <1>2, <1>3
  <2>. QED
    BY <2>1 DEF Init
<1>5. \A p \in Path : IsFile(p) <=> p \in InitialFile
  BY <1>2, <1>3
<1>6. \A p, q \in InitialFile : LastName(p) = LastName(q) => p = q
  BY DEF LastName
<1>7. InodesOnce
  <2>1. \A p, q \in Path : IsFile(p) /\ IsFile(q) /\ fs[p].ino = fs[q].ino => p = q
    BY <1>2, <1>5, <1>6
  <2>2. \A p \in Path : LastName(p) \notin Request
    BY DEF LastName
  <2>3. \A p \in Path, r \in Request : ~(IsFile(p) /\ fs[p].ino = r)
    BY <1>2, <1>5, <2>2
  <2>. QED
    BY <2>1, <2>3 DEF InodesOnce
<1>8. TreeShape
  <2>1. ASSUME NEW p \in Path, Exists(p), NEW q \in Ancestors(p) PROVE fs[q] = Dir
    <3>1. p \in InitialDir \cup InitialFile
      BY <1>3, <2>1
    <3>2. q \in InitialDir /\ q \in Path
      BY <3>1 DEF Ancestors
    <3>. QED
      BY <1>3, <3>2
  <2>. QED
    BY <2>1 DEF TreeShape, InDirs
<1>9. SeenGood(seen)
  <2>1. ASSUME NEW p \in InitialFile
        PROVE  /\ p \in Path /\ Text(p) \in Lines /\ Revision(p, Text(p)) \in RevState
               /\ Revision(p, Text(p)).text = Text(p)
    <3>1. Mtime(p) = LastName(p)
      BY <1>2 DEF Mtime
    <3>. QED
      BY <1>2, <3>1 DEF Revision, RevState, Stamp, Lines
  <2>. QED
    BY <1>1, <2>1 DEF SeenGood
<1>10. \A r \in Request : req[r] = Idle
  BY <1>1
<1>11. \A r \in Request : HandlerGood(r, Idle, Held)
  BY IdleIs DEF HandlerGood, Save, Transfer
<1>12. Tree \subseteq Path \X Lines
  <2>1. \A p \in Path : IsFile(p) => fs[p].text \in Lines
    BY <1>2, <1>5 DEF Lines
  <2>. QED
    BY <2>1 DEF Tree
<1>13. LinesOf(Tree) \subseteq Line
  BY <1>12 DEF LinesOf, Lines
<1>14. TypeOK
  <2>1. req \in [Request -> Handler] /\ \A r \in Request : req[r].pc # "write"
    BY <1>1, IdleIs
  <2>2. \A ino \in Line : Cardinality(Opened(ino)) <= 1
    BY <1>7, OneOpened
  <2>3. transfers \in 0..MaxTransfers /\ faults \in 0..MaxFaults
    BY <1>1, TaskFilesAssumption
  <2>4. staged \subseteq Path \X Lines /\ head \subseteq Path \X Lines
    BY <1>1, <1>12
  <2>5. gone \in Lines /\ committed \in Lines /\ passed \in Lines /\ edited \in BOOLEAN
    BY <1>1, <1>13 DEF Lines
  <2>6. seen \subseteq [path : Path, rev : RevState, text : Lines]
    BY <1>9 DEF SeenGood
  <2>. QED
    BY <1>4, <2>1, <2>2, <2>3, <2>4, <2>5, <2>6 DEF TypeOK
<1>15. HandlersInStep /\ SavesWriteBack
  BY <1>9, <1>10, <1>11 DEF HandlersInStep, SavesWriteBack, SeenGood, HandlerGood
<1>16. AddedHeld /\ CommitHasAdded
  BY <1>10, IdleIs DEF AddedHeld, CommitHasAdded, At
<1>17. EditsKept
  <2>. DEFINE first == {<<p, {LastName(p)}>> : p \in InitialFile}
  <2>1. Kept = LinesOf(first)
    BY <1>1, <1>10, IdleIs DEF Kept, Save, LastName
  <2>2. first \subseteq Tree
    BY <1>2 DEF Tree
  <2>. QED
    BY <2>1, <2>2 DEF EditsKept, Held, LinesOf
<1>. QED
  BY <1>7, <1>8, <1>14, <1>15, <1>16, <1>17 DEF FilesInv

\* Every step keeps the invariant, and the lines.
LEMMA InvStep ==
    ASSUME FilesInv, [Next]_vars PROVE FilesInv' /\ Held \subseteq Held'
<1>1. ASSUME NEW r \in Request,
             \/ ReadFile(r) \/ TellRevision(r) \/ CheckRevision(r)
             \/ OpenTruncate(r) \/ WriteText(r) \/ StatSource(r) \/ EnsureTarget(r)
             \/ CopySource(r)
      PROVE  FilesInv' /\ Held \subseteq Held'
  BY <1>1, ReadFileKeeps, TellRevisionKeeps, CheckRevisionKeeps, OpenTruncateKeeps,
     WriteTextKeeps, StatSourceKeeps, EnsureTargetKeeps, CopySourceKeeps
<1>2. ASSUME NEW r \in Request,
             \/ Start(r) \/ Rename(r) \/ Delete(r) \/ GitStatus(r) \/ GitAdd(r)
             \/ GitCommit(r) \/ GitFails(r) \/ WriteFails(r)
      PROVE  FilesInv' /\ Held \subseteq Held'
  BY <1>2, StartKeeps, RenameStepKeeps, DeleteKeeps, GitStatusKeeps, GitAddKeeps,
     GitCommitKeeps, GitFailsKeeps, WriteFailsKeeps
<1>3. ASSUME UNCHANGED vars PROVE FilesInv' /\ Held \subseteq Held'
  <2>1. fs' = fs /\ req' = req /\ gone' = gone
    BY <1>3 DEF vars
  <2>2. Held' = Held
    BY <2>1 DEF Held, LinesOf, Tree, IsFile, InFlight, Unwritten
  <2>3. /\ TypeOK' = TypeOK /\ TreeShape' = TreeShape /\ InodesOnce' = InodesOnce
        /\ HandlersInStep' = HandlersInStep
    BY <1>3 DEF vars, TypeOK, TreeShape, InodesOnce, HandlersInStep, Opened, IsFile, Exists, InDirs
  <2>4. SavesWriteBack' = SavesWriteBack /\ AddedHeld' = AddedHeld
    BY <1>3, <2>2 DEF vars, SavesWriteBack, AddedHeld, At, LinesOf
  <2>5. EditsKept' = EditsKept /\ CommitHasAdded' = CommitHasAdded
    BY <1>3, <2>2 DEF vars, EditsKept, Kept, CommitHasAdded, LinesOf
  <2>. QED
    BY <2>2, <2>3, <2>4, <2>5 DEF FilesInv
<1>. QED
  BY <1>1, <1>2, <1>3, EditOutsideKeeps, CrashKeeps DEF Next

--------------------------------------------------------------------------------
(* The theorems.                                                                *)

\* The inductive invariant holds in every state: the shape of the tree, one name per
\* inode, what every handler holds at each of its steps and where every line is (the
\* handlers of routes_addon.go).
THEOREM FilesInvariant == Spec => []FilesInv
  BY InvInit, InvStep, PTL DEF Spec

\* The types hold always, and a write reaches the one file that was opened, wherever
\* transfers have put it (os.WriteFile).
THEOREM FilesTyped == Spec => []TypeOK
<1>1. FilesInv => TypeOK
  BY DEF FilesInv
<1>. QED
  BY <1>1, FilesInvariant, PTL

\* No line that a file began with, that the editor saved or that a save was answered
\* for is lost but where the handlers say so or leave a window (saveTaskFile).
THEOREM EditsAreKept == Spec => []EditsKept
<1>1. FilesInv => EditsKept
  BY DEF FilesInv
<1>. QED
  BY <1>1, FilesInvariant, PTL

\* What a commit added is in a commit when it answers (handlePostTaskCommit).
THEOREM CommitsHaveAdded == Spec => []CommitHasAdded
<1>1. FilesInv => CommitHasAdded
  BY DEF FilesInv
<1>. QED
  BY <1>1, FilesInvariant, PTL

\* No step of any handler, of the editor, no failure and no crash makes a line vanish
\* that was in a file or about to be written, unless it is named as gone.
THEOREM LinesAreHeld == Spec => [][Held \subseteq Held']_vars
  BY InvInit, InvStep, PTL DEF Spec

================================================================================
