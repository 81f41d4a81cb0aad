----------------------- MODULE StatusAndManager_proofs -----------------------
(* Proofs about PaneStatus, for any number of goroutines, any hashes, delay   *)
(* and bounds (its inductive invariant and, from it, that a status which has  *)
(* to change is never forgotten, that only an idle pane is completed and, for *)
(* goroutines less than half the delay behind, that an activity is completed  *)
(* once), and about ProjectManager, for every set of sessions and calls,      *)
(* every limit and bound (its inductive invariant and the properties that     *)
(* follow).                                                                   *)
EXTENDS PaneStatus, ProjectManager, FiniteSetTheorems, SequenceTheorems, WellFoundedInduction, TLAPS

--------------------------------------------------------------------------------
(* PaneStatus.                                                                *)

Due == (-MaxAge)..NoDue

StatusState ==
    [prevHash : Hash \cup {NoHash}, emitted : Status, candidate : Status,
     candSince : Age \cup {Never}, lastActive : Age \cup {Never}]

ThreadState ==
    [pc : {"idle", "fired", "read", "advance", "complete", "hook"},
     hash : Hash \cup {NoHash}, age : 0..MaxStall + MaxAge,
     status : Status, valid : BOOLEAN, quiet : Age, current : BOOLEAN]

\* The bounds are numbers, and the delay is longer than any lag.
LEMMA Bounds ==
    /\ MaxLag \in Nat /\ Delay \in Nat /\ MaxStall \in Nat /\ MaxLag < Delay
    /\ MaxAge \in Nat /\ MaxAge = Delay + MaxLag /\ Never = MaxAge + 1 /\ NoDue = Delay + 1
    /\ Age = 0..MaxAge /\ Due = (-MaxAge)..NoDue
    /\ NoHash \notin Hash /\ Hash # {}
    /\ Callback \subseteq Thread /\ Writer \subseteq Thread
  BY PaneStatusAssumption DEF MaxAge, Never, NoDue, Age, Due, Thread

\* The fields of a state and of a goroutine.
LEMMA Fields ==
    /\ \A s \in StatusState :
          /\ s.prevHash \in Hash \cup {NoHash} /\ s.emitted \in Status /\ s.candidate \in Status
          /\ s.candSince \in 0..Never /\ s.lastActive \in 0..Never
    /\ \A h \in ThreadState :
          /\ h.pc \in {"idle", "fired", "read", "advance", "complete", "hook"}
          /\ h.hash \in Hash \cup {NoHash} /\ h.age \in 0..MaxStall + MaxAge /\ h.age \in Nat
          /\ h.status \in Status /\ h.valid \in BOOLEAN /\ h.quiet \in 0..MaxAge
          /\ h.current \in BOOLEAN
<1>1. \A s \in StatusState :
          /\ s.prevHash \in Hash \cup {NoHash} /\ s.emitted \in Status /\ s.candidate \in Status
          /\ s.candSince \in Age \cup {Never} /\ s.lastActive \in Age \cup {Never}
  BY DEF StatusState
<1>2. \A h \in ThreadState :
          /\ h.pc \in {"idle", "fired", "read", "advance", "complete", "hook"}
          /\ h.hash \in Hash \cup {NoHash} /\ h.age \in 0..MaxStall + MaxAge
          /\ h.status \in Status /\ h.valid \in BOOLEAN /\ h.quiet \in Age
          /\ h.current \in BOOLEAN
  BY DEF ThreadState
<1>3. Age \cup {Never} = 0..Never /\ Age = 0..MaxAge
  BY Bounds
<1>. QED
  BY <1>1, <1>2, <1>3, Bounds

\* What TypeOK says of the state and of the goroutines.
LEMMA Typed ==
    ASSUME StatusTypeOK
    PROVE  /\ state \in StatusState /\ thread \in [Thread -> ThreadState]
           /\ \A t \in Thread : thread[t] \in ThreadState
           /\ snap \in Hash /\ startup \in Hash \cup {NoHash} /\ due \in Due /\ quiet \in 0..MaxAge
           /\ armed \in BOOLEAN /\ ended \in BOOLEAN /\ silent \in BOOLEAN /\ fresh \in BOOLEAN
           /\ shown \in Status
  BY Bounds DEF StatusTypeOK, StatusState, ThreadState, Due

\* One goroutine gets another state.
LEMMA OneThread ==
    ASSUME NEW th \in [Thread -> ThreadState], NEW t \in Thread, NEW h \in ThreadState
    PROVE  /\ [th EXCEPT ![t] = h] \in [Thread -> ThreadState]
           /\ [th EXCEPT ![t] = h][t] = h
           /\ \A u \in Thread : u # t => [th EXCEPT ![t] = h][u] = th[u]
  OBVIOUS

\* The goroutines are the same but for who is still awaited.
SameThreads(th, oth) ==
    \A t \in Thread : /\ oth[t].pc = th[t].pc /\ oth[t].hash = th[t].hash
                      /\ oth[t].age = th[t].age /\ oth[t].quiet = th[t].quiet
                      /\ oth[t].current = th[t].current

LEMMA Invalidated ==
    ASSUME NEW th \in [Thread -> ThreadState]
    PROVE  Invalidate(th) \in [Thread -> ThreadState] /\ SameThreads(th, Invalidate(th))
<1>1. \A t \in Thread : th[t] \in ThreadState
  OBVIOUS
<1>2. \A h \in ThreadState :
          LET g == [h EXCEPT !.valid = FALSE]
          IN  /\ g \in ThreadState /\ g.pc = h.pc /\ g.hash = h.hash /\ g.age = h.age
              /\ g.quiet = h.quiet /\ g.current = h.current
  BY DEF ThreadState
<1>3. \A t \in Thread : Invalidate(th)[t] = [th[t] EXCEPT !.valid = FALSE]
  BY DEF Invalidate
<1>4. Invalidate(th) \in [Thread -> ThreadState]
  BY <1>1, <1>2 DEF Invalidate
<1>5. SameThreads(th, Invalidate(th))
  BY <1>1, <1>2, <1>3 DEF SameThreads
<1>. QED
  BY <1>4, <1>5

\* Stopping the timer leaves none; scheduling leaves one.
LEMMA TimerStops ==
    ASSUME NEW th \in [Thread -> ThreadState], Stopped(th)
    PROVE  /\ due' = NoDue /\ due' \in Due
           /\ thread' \in [Thread -> ThreadState] /\ SameThreads(th, thread')
  BY Invalidated, Bounds DEF Stopped

LEMMA TimerScheduled ==
    ASSUME NEW th \in [Thread -> ThreadState], NEW at \in Due, NEW pending \in Due, at # NoDue,
           Scheduled(at, pending, th)
    PROVE  /\ due' # NoDue /\ due' \in Due
           /\ thread' \in [Thread -> ThreadState] /\ SameThreads(th, thread')
<1>1. SameThreads(th, th)
  BY DEF SameThreads
<1>. QED
  BY <1>1, Invalidated DEF Scheduled

-----------------------------------------------------------------------------
(* The operators of an evaluation.                                              *)

\* Goroutines whose readings are the same keep all that is said of readings.
LEMMA ReadingsFrame ==
    ASSUME ReadingsInTime, FirstEvaluation, CandidateIsStable, ReadingsAgainstSnapshot,
           snap' = snap, state' = state, startup' = startup, armed' = armed, quiet' = quiet,
           \A t \in Thread :
              /\ thread'[t].pc = "advance" =>
                    /\ thread[t].pc = "advance" /\ thread'[t].hash = thread[t].hash
                    /\ thread'[t].age = thread[t].age /\ thread'[t].quiet = thread[t].quiet
                    /\ thread'[t].current = thread[t].current
              /\ thread'[t].pc \in {"idle", "fired", "read", "advance"} => thread'[t].age <= MaxLag
    PROVE  ReadingsInTime' /\ FirstEvaluation' /\ CandidateIsStable' /\ ReadingsAgainstSnapshot'
<1>1. ReadingsInTime'
  BY DEF ReadingsInTime
<1>2. FirstEvaluation'
  BY DEF FirstEvaluation
<1>3. CandidateIsStable'
  BY DEF CandidateIsStable, Candidate
<1>4. ReadingsAgainstSnapshot'
  BY DEF ReadingsAgainstSnapshot
<1>. QED
  BY <1>1, <1>2, <1>3, <1>4

\* An evaluation finds "ready" only at a hash it has seen, or where "ready" is shown.
LEMMA SeenReady ==
    ASSUME NEW s \in StatusState, NEW hash \in Hash, NEW recentInput
    PROVE  /\ Observed(s, hash, recentInput) \in {"unknown", "ready", "running"}
           /\ Observed(s, hash, recentInput) = "ready" /\ s.emitted \notin {"", "ready"}
                 => s.prevHash = hash
           /\ s.prevHash = hash => Observed(s, hash, recentInput) = "ready"
  BY Fields DEF Observed, Status

\* What advancePaneStatus returns: a status, whose candidate is one from now on or was one
\* at this hash, and "ready" only where it was shown or has been a candidate for the delay.
AdvancesTo(s, hash, age, next) ==
    /\ next \in StatusState
    /\ next.prevHash = hash /\ next.emitted # "" /\ next.lastActive # Never
    /\ next.candSince # Never
    /\ Candidate(next) =>
          \/ next.candSince = age
          \/ /\ Candidate(s) /\ s.emitted # "" /\ s.prevHash = hash
             /\ next.candSince = s.candSince
    /\ next.emitted = "ready" /\ s.emitted \notin {"", "ready"} =>
          /\ Candidate(s) /\ s.prevHash = hash /\ s.candSince - age >= Delay
    /\ s.emitted = "ready" /\ s.prevHash = hash => next.emitted = "ready"

LEMMA Advanced ==
    ASSUME NEW s \in StatusState, NEW hash \in Hash, NEW age \in Age, NEW recentInput,
           s.candSince = Never => s.emitted = ""
    PROVE  AdvancesTo(s, hash, age, Advance(s, hash, age, recentInput))
<1>. DEFINE next == Advance(s, hash, age, recentInput)
<1>. DEFINE seen == Observed(s, hash, recentInput)
            adopt == \/ s.emitted = "" \/ seen = s.emitted
                     \/ s.candidate = seen /\ s.candSince - age >= Delay
<1>1. /\ next.prevHash = hash
      /\ next.emitted = IF adopt THEN seen ELSE s.emitted
      /\ next.candidate = seen
      /\ next.candSince = IF adopt \/ s.candidate # seen THEN age ELSE s.candSince
      /\ next.lastActive = IF s.lastActive = Never \/ s.prevHash \notin {hash, NoHash}
                           THEN age ELSE s.lastActive
  BY DEF Advance
<1>. HIDE DEF next
<1>2. /\ seen \in {"unknown", "ready", "running"}
      /\ seen = "ready" /\ s.emitted \notin {"", "ready"} => s.prevHash = hash
      /\ s.prevHash = hash => seen = "ready"
  BY SeenReady
<1>3. next = [prevHash |-> next.prevHash, emitted |-> next.emitted, candidate |-> next.candidate,
              candSince |-> next.candSince, lastActive |-> next.lastActive]
  BY <1>1 DEF Advance, next
<1>4. s.prevHash \in Hash \cup {NoHash} /\ s.emitted \in Status /\ s.candidate \in Status
      /\ s.candSince \in Age \cup {Never} /\ s.lastActive \in Age \cup {Never}
  BY DEF StatusState
<1>5. Never \notin Age
  <2>1. MaxAge \in Nat /\ Never = MaxAge + 1 /\ Age = 0..MaxAge
    BY Bounds
  <2>. QED
    BY ONLY <2>1
<1>. HIDE DEF seen
<1>6. next.emitted \in Status /\ next.emitted # "" /\ next.candidate \in Status
  BY <1>1, <1>2, <1>4 DEF Status
<1>7. next.candSince \in Age /\ next.lastActive \in Age
  BY <1>1, <1>4
<1>8. next \in StatusState
  BY <1>1, <1>3, <1>6, <1>7 DEF StatusState
<1>9. Candidate(next) =>
         \/ next.candSince = age
         \/ /\ Candidate(s) /\ s.emitted # "" /\ s.prevHash = hash
            /\ next.candSince = s.candSince
  BY <1>1, <1>2 DEF Candidate
<1>10. next.emitted = "ready" /\ s.emitted \notin {"", "ready"} =>
          /\ Candidate(s) /\ s.prevHash = hash /\ s.candSince - age >= Delay
  BY <1>1, <1>2 DEF Candidate
<1>11. s.emitted = "ready" /\ s.prevHash = hash => next.emitted = "ready"
  BY <1>1, <1>2
<1>. QED
  BY <1>1, <1>5, <1>6, <1>7, <1>8, <1>9, <1>10, <1>11 DEF AdvancesTo, next

\* The next evaluation is due in time, and there is one while a status has to change.
LEMMA NextEvaluation ==
    ASSUME NEW s \in StatusState, NEW age \in Age, s.candSince # Never
    PROVE  /\ NextEval(s, age) \in Due
           /\ NextEval(s, age) = NoDue =>
                 s.emitted # "running" /\ ~(s.emitted = "ready" /\ s.candidate # "ready")
<1>1. s.candSince \in 0..MaxAge /\ age \in 0..MaxAge
  BY Fields, Bounds
<1>2. Delay - s.candSince \in Due /\ Delay - s.candSince # NoDue
  BY <1>1, Bounds
<1>3. Delay - age \in Due /\ Delay - age # NoDue
  BY <1>1, Bounds
<1>4. NoDue \in Due
  BY Bounds
<1>. QED
  BY <1>2, <1>3, <1>4 DEF NextEval

\* The state an evaluation starts from is the one there is, from the second on.
LEMMA StartsFrom ==
    ASSUME state \in StatusState, FirstEvaluation, NEW hash \in Hash, NEW s \in Before(hash)
    PROVE  /\ s \in StatusState
           /\ s.emitted = state.emitted /\ s.candidate = state.candidate
           /\ s.candSince = state.candSince
           /\ startup # NoHash => s = state
<1>. DEFINE kept == IF startup = NoHash /\ state.lastActive # Never /\ state.prevHash # NoHash
                    THEN [state EXCEPT !.prevHash = hash] ELSE state
<1>1. /\ kept \in StatusState
      /\ kept.emitted = state.emitted /\ kept.candidate = state.candidate
      /\ kept.candSince = state.candSince /\ kept.lastActive = state.lastActive
      /\ startup # NoHash => kept = state
  BY DEF StatusState
<1>2. startup # NoHash => kept.lastActive # Never
  BY <1>1 DEF FirstEvaluation
<1>3. \/ s = kept
      \/ kept.lastActive = Never /\ \E a \in {0, MaxAge, Never} : s = [kept EXCEPT !.lastActive = a]
  BY DEF Before
<1>4. {0, MaxAge, Never} \subseteq Age \cup {Never}
  BY Bounds
<1>. HIDE DEF kept
<1>5. ASSUME NEW a \in {0, MaxAge, Never}
      PROVE  LET k == [kept EXCEPT !.lastActive = a]
             IN  k \in StatusState /\ k.emitted = kept.emitted /\ k.candidate = kept.candidate
                 /\ k.candSince = kept.candSince
  BY <1>1, <1>4 DEF StatusState
<1>. QED
  BY <1>1, <1>2, <1>3, <1>5

-----------------------------------------------------------------------------
(* Each action keeps the inductive invariant.                                   *)

\* A goroutine that does nothing, or has just begun.
LEMMA IdleThread ==
    /\ Idle \in ThreadState /\ Idle.pc = "idle" /\ Idle.age = 0
    /\ [Idle EXCEPT !.pc = "read"] \in ThreadState
    /\ [Idle EXCEPT !.pc = "read"].pc = "read" /\ [Idle EXCEPT !.pc = "read"].age = 0
    /\ [Idle EXCEPT !.pc = "fired", !.valid = TRUE] \in ThreadState
    /\ [Idle EXCEPT !.pc = "fired", !.valid = TRUE].pc = "fired"
    /\ [Idle EXCEPT !.pc = "fired", !.valid = TRUE].age = 0
<1>1. 0 \in Age /\ 0 \in 0..MaxStall + MaxAge
  BY Bounds
<1>. QED
  BY <1>1 DEF Idle, ThreadState, Status

\* Init: nothing has been read yet, and nothing is a candidate.
LEMMA InvInit == StatusInit => StatusInv
<1>. SUFFICES ASSUME StatusInit PROVE StatusInv
  OBVIOUS
<1>1. /\ 0 \in Age /\ MaxAge \in Age /\ 0 \in 0..MaxStall + MaxAge /\ 0 <= MaxLag /\ NoDue \in Due
      /\ Never # 0 /\ Never # MaxAge
  BY Bounds
<1>2. Idle \in ThreadState
  BY IdleThread
<1>3. Cold \in StatusState
  BY DEF Cold, StatusState, Status
<1>4. \A s \in {"unknown", "ready", "running"}, h \in Hash \cup {NoHash}, a \in {MaxAge, Never} :
         Baseline(s, h, a) \in StatusState /\ Baseline(s, h, a).candSince # Never
  BY <1>1 DEF Baseline, StatusState, Status
<1>5. state \in StatusState
  BY <1>3, <1>4 DEF StatusInit
<1>6. snap \in Hash
  BY Bounds DEF StatusInit
<1>7. StatusTypeOK
  BY <1>1, <1>2, <1>5, <1>6, Bounds, ZenonT(60) DEF StatusInit, StatusTypeOK, StatusState, ThreadState,
     Due, Status
<1>8. \A t \in Thread : thread[t].pc = "idle" /\ thread[t].age = 0
  BY DEF StatusInit, Idle
<1>9. startup = NoHash /\ armed = FALSE
  BY DEF StatusInit
<1>10. state.candidate = state.emitted /\ (state.candSince = Never => state.emitted = "")
  <2>1. CASE state = Cold
    BY <2>1 DEF Cold
  <2>2. ASSUME NEW s \in {"unknown", "ready", "running"}, NEW h \in Hash \cup {NoHash},
               NEW a \in {MaxAge, Never}, state = Baseline(s, h, a)
        PROVE  state.candidate = state.emitted /\ state.candSince # Never
    BY <1>4, <2>2 DEF Baseline
  <2>3. state \in {Cold} \cup {Baseline(s, h, a) : s \in {"unknown", "ready", "running"},
                                 h \in Hash \cup {NoHash}, a \in {MaxAge, Never}}
    BY DEF StatusInit
  <2>4. \/ state = Cold
        \/ \E s \in {"unknown", "ready", "running"}, h \in Hash \cup {NoHash},
              a \in {MaxAge, Never} : state = Baseline(s, h, a)
    BY <2>3
  <2>. QED
    BY <2>1, <2>2, <2>4
<1>11. ReadingsInTime
  BY <1>1, <1>8 DEF ReadingsInTime
<1>12. FirstEvaluation
  BY <1>9, <1>10 DEF FirstEvaluation
<1>13. CandidateIsStable /\ ReadingsAgainstSnapshot /\ ChangeIsAwaited
  BY <1>8, <1>9 DEF CandidateIsStable, ReadingsAgainstSnapshot, ChangeIsAwaited
<1>. QED
  BY <1>7, <1>11, <1>12, <1>13 DEF StatusInv

\* Write: the snapshot changes, and no candidate is of the new one.
LEMMA InvWrite ==
    ASSUME StatusInv, NEW t \in Thread, NEW new \in Hash, Write(t, new)
    PROVE  StatusInv'
<1>. USE Typed, Bounds DEF StatusInv
<1>. DEFINE h == [Idle EXCEPT !.pc = "read"]
            th == [thread EXCEPT ![t] = h]
<1>1. h \in ThreadState /\ h.pc = "read" /\ h.age = 0
  BY IdleThread
<1>2. /\ th \in [Thread -> ThreadState] /\ th[t] = h
      /\ \A u \in Thread : u # t => th[u] = thread[u]
  BY <1>1, OneThread
<1>3. thread' = Outdate(th, new)
  BY DEF Write
<1>. HIDE DEF h, th
<1>4. \A g \in ThreadState :
         LET k == [g EXCEPT !.current = @ /\ new = snap]
         IN  /\ k \in ThreadState /\ k.pc = g.pc /\ k.hash = g.hash /\ k.age = g.age
             /\ k.quiet = g.quiet /\ (k.current <=> g.current /\ new = snap)
  <2>. SUFFICES ASSUME NEW g \in ThreadState
                PROVE  LET k == [g EXCEPT !.current = g.current /\ new = snap]
                       IN  /\ k \in ThreadState /\ k.pc = g.pc /\ k.hash = g.hash
                           /\ k.age = g.age /\ k.quiet = g.quiet
                           /\ (k.current <=> g.current /\ new = snap)
    OBVIOUS
  <2>1. g.current \in BOOLEAN
    BY Fields
  <2>2. CASE new = snap
    BY <2>1, <2>2 DEF ThreadState
  <2>3. CASE new # snap
    BY <2>1, <2>3 DEF ThreadState
  <2>. QED
    BY <2>2, <2>3
<1>5. \A u \in Thread : thread'[u] = [th[u] EXCEPT !.current = @ /\ new = snap]
  BY <1>3 DEF Outdate
<1>6. thread' \in [Thread -> ThreadState]
  BY <1>2, <1>3, <1>4 DEF Outdate
<1>7. /\ thread'[t].pc = "read" /\ thread'[t].age = 0
      /\ \A u \in Thread : u # t =>
            /\ thread'[u].pc = thread[u].pc /\ thread'[u].hash = thread[u].hash
            /\ thread'[u].age = thread[u].age /\ thread'[u].quiet = thread[u].quiet
            /\ (thread'[u].current <=> thread[u].current /\ new = snap)
  <2>1. \A u \in Thread : th[u] \in ThreadState
    BY <1>2
  <2>2. \A u \in Thread :
           /\ thread'[u].pc = th[u].pc /\ thread'[u].hash = th[u].hash
           /\ thread'[u].age = th[u].age /\ thread'[u].quiet = th[u].quiet
           /\ (thread'[u].current <=> th[u].current /\ new = snap)
    <3>. SUFFICES ASSUME NEW u \in Thread
                  PROVE  /\ thread'[u].pc = th[u].pc /\ thread'[u].hash = th[u].hash
                         /\ thread'[u].age = th[u].age /\ thread'[u].quiet = th[u].quiet
                         /\ (thread'[u].current <=> th[u].current /\ new = snap)
      OBVIOUS
    <3>1. thread'[u] = [th[u] EXCEPT !.current = @ /\ new = snap] /\ th[u] \in ThreadState
      BY <1>5, <2>1
    <3>. QED
      BY ONLY <1>4, <3>1
  <2>. QED
    BY <1>1, <1>2, <2>2
<1>8. /\ snap' = new /\ state' = state /\ startup' = startup /\ armed' = armed /\ due' = due
      /\ shown' = shown /\ ended' = ended /\ silent' = silent
      /\ thread[t].pc = "idle"
  BY DEF Write
<1>9. quiet' \in 0..MaxAge /\ fresh' \in BOOLEAN
  <2>1. 0 \in 0..MaxAge
    OBVIOUS
  <2>2. (quiet' = quiet /\ fresh' = fresh) \/ (quiet' = 0 /\ fresh' = TRUE)
    BY DEF Write, Changed
  <2>. QED
    BY <2>1, <2>2
<1>10. StatusTypeOK'
  BY <1>6, <1>8, <1>9 DEF StatusTypeOK, StatusState, ThreadState
<1>11. ChangeIsAwaited'
  BY <1>7, <1>8 DEF ChangeIsAwaited, Unsettled
<1>12. CASE new = snap
  <2>1. quiet' = quiet
    BY <1>12 DEF Write, Changed
  <2>2. \A u \in Thread : u # t => thread[u].current \in BOOLEAN /\ thread'[u].current \in BOOLEAN
    BY <1>6, Fields
  <2>3. \A u \in Thread : u # t => thread'[u].current = thread[u].current
    BY <1>7, <1>12, <2>2
  <2>4. ReadingsInTime' /\ FirstEvaluation' /\ CandidateIsStable' /\ ReadingsAgainstSnapshot'
    <3>1. \A u \in Thread :
             /\ thread'[u].pc = "advance" =>
                   /\ thread[u].pc = "advance" /\ thread'[u].hash = thread[u].hash
                   /\ thread'[u].age = thread[u].age /\ thread'[u].quiet = thread[u].quiet
                   /\ thread'[u].current = thread[u].current
             /\ thread'[u].pc \in {"idle", "fired", "read", "advance"} => thread'[u].age <= MaxLag
      BY <1>7, <2>3 DEF ReadingsInTime
    <3>. QED
      BY <1>8, <1>12, <2>1, <3>1, ReadingsFrame
  <2>. QED
    BY <1>10, <1>11, <2>4
<1>13. CASE new # snap
  <2>1. quiet' = 0 /\ new # state.prevHash /\ \A u \in Thread : new # thread[u].hash
    BY <1>13 DEF Write, Changed, MayBecome
  <2>2. ReadingsInTime'
    BY <1>7 DEF ReadingsInTime
  <2>3. FirstEvaluation'
    BY <1>8 DEF FirstEvaluation
  <2>4. CandidateIsStable'
    BY <1>7, <1>8, <2>1 DEF CandidateIsStable, Candidate
  <2>5. ReadingsAgainstSnapshot'
    <3>1. \A u \in Thread : u # t => thread[u].age \in Nat
      BY Fields
    <3>. QED
      BY <1>7, <1>8, <1>13, <2>1, <3>1 DEF ReadingsAgainstSnapshot
  <2>. QED
    BY <1>10, <1>11, <2>2, <2>3, <2>4, <2>5
<1>. QED
  BY <1>12, <1>13

\* A step of a goroutine that neither reads nor evaluates: the others stay as they
\* are but for who is awaited.
LEMMA InvOther ==
    ASSUME StatusInv, NEW t \in Thread, NEW h \in ThreadState,
           h.pc # "advance", h.age <= MaxLag \/ h.pc \in {"complete", "hook"},
           thread' \in [Thread -> ThreadState], SameThreads([thread EXCEPT ![t] = h], thread'),
           due' \in Due,
           \/ due' # NoDue \/ h.pc = "read"
           \/ due' = due /\ thread[t].pc \notin {"read", "advance"},
           shown' \in Status,
           UNCHANGED <<snap, state, startup, armed, ended, silent, quiet, fresh>>
    PROVE  StatusInv'
<1>. USE Typed, Bounds DEF StatusInv
<1>1. /\ SameThreads([thread EXCEPT ![t] = h], thread')
      /\ [thread EXCEPT ![t] = h][t] = h
      /\ \A u \in Thread : u # t => [thread EXCEPT ![t] = h][u] = thread[u]
  BY OneThread
<1>2. /\ thread'[t].pc = h.pc /\ thread'[t].age = h.age
      /\ \A u \in Thread : u # t =>
            /\ thread'[u].pc = thread[u].pc /\ thread'[u].hash = thread[u].hash
            /\ thread'[u].age = thread[u].age /\ thread'[u].quiet = thread[u].quiet
            /\ thread'[u].current = thread[u].current
  BY <1>1 DEF SameThreads
<1>3. StatusTypeOK'
  BY DEF StatusTypeOK, StatusState, ThreadState, Due
<1>4. ReadingsInTime' /\ FirstEvaluation' /\ CandidateIsStable' /\ ReadingsAgainstSnapshot'
  <2>1. \A u \in Thread :
           /\ thread'[u].pc = "advance" =>
                 /\ thread[u].pc = "advance" /\ thread'[u].hash = thread[u].hash
                 /\ thread'[u].age = thread[u].age /\ thread'[u].quiet = thread[u].quiet
                 /\ thread'[u].current = thread[u].current
           /\ thread'[u].pc \in {"idle", "fired", "read", "advance"} => thread'[u].age <= MaxLag
    BY <1>2 DEF ReadingsInTime
  <2>. QED
    BY <2>1, ReadingsFrame
<1>5. ChangeIsAwaited'
  BY <1>2 DEF ChangeIsAwaited, Unsettled
<1>. QED
  BY <1>3, <1>4, <1>5

\* SameThreads holds of goroutines and themselves.
LEMMA Unchanged ==
    ASSUME NEW th, NEW oth, oth = th
    PROVE  SameThreads(th, oth)
  BY DEF SameThreads

\* TimerFires: an idle goroutine becomes a callback.
LEMMA InvTimerFires ==
    ASSUME StatusInv, NEW t \in Thread, TimerFires(t)
    PROVE  StatusInv'
<1>. USE Typed DEF StatusInv
<1>. DEFINE h == [Idle EXCEPT !.pc = "fired", !.valid = TRUE]
<1>1. h \in ThreadState /\ h.pc = "fired" /\ h.age <= MaxLag
  BY IdleThread, Bounds
<1>2. thread' = [thread EXCEPT ![t] = h] /\ thread[t].pc = "idle" /\ due' = due /\ shown' = shown
      /\ UNCHANGED <<snap, state, startup, armed, ended, silent, quiet, fresh>>
  BY DEF TimerFires
<1>. HIDE DEF h
<1>3. thread' \in [Thread -> ThreadState] /\ SameThreads([thread EXCEPT ![t] = h], thread')
  BY <1>1, <1>2, OneThread, Unchanged
<1>. QED
  BY <1>1, <1>2, <1>3, InvOther

\* CallbackStale: a callback that is not awaited ends.
LEMMA InvCallbackStale ==
    ASSUME StatusInv, NEW t \in Thread, CallbackStale(t)
    PROVE  StatusInv'
<1>. USE Typed DEF StatusInv
<1>1. Idle \in ThreadState /\ Idle.pc = "idle" /\ Idle.age <= MaxLag
  BY IdleThread, Bounds
<1>2. thread' = [thread EXCEPT ![t] = Idle] /\ thread[t].pc = "fired" /\ due' = due
      /\ shown' = shown /\ UNCHANGED <<snap, state, startup, armed, ended, silent, quiet, fresh>>
  BY DEF CallbackStale
<1>3. thread' \in [Thread -> ThreadState] /\ SameThreads([thread EXCEPT ![t] = Idle], thread')
  BY <1>1, <1>2, OneThread, Unchanged
<1>. QED
  BY <1>1, <1>2, <1>3, InvOther

\* CallbackLater: a pane that is still active gets another timer.
LEMMA InvCallbackLater ==
    ASSUME StatusInv, NEW t \in Thread, CallbackLater(t)
    PROVE  StatusInv'
<1>. USE Typed DEF StatusInv
<1>. DEFINE th == [thread EXCEPT ![t] = Idle]
            at == Delay - state.lastActive
<1>1. Idle \in ThreadState /\ Idle.pc = "idle" /\ Idle.age <= MaxLag
  BY IdleThread, Bounds
<1>2. th \in [Thread -> ThreadState]
  BY <1>1
<1>3. state.lastActive \in 0..MaxAge
  <2>1. state.lastActive \in 0..Never /\ state.lastActive # Never
    BY Fields DEF CallbackLater, ActiveSince
  <2>. QED
    BY <2>1, Bounds
<1>4. at \in Due /\ at # NoDue /\ NoDue \in Due
  BY <1>3, Bounds
<1>5. Scheduled(at, NoDue, th)
      /\ shown' = shown /\ UNCHANGED <<snap, state, startup, armed, ended, silent, quiet, fresh>>
  BY DEF CallbackLater
<1>. HIDE DEF th, at
<1>6. /\ due' # NoDue /\ due' \in Due
      /\ thread' \in [Thread -> ThreadState] /\ SameThreads(th, thread')
  BY <1>2, <1>4, <1>5, TimerScheduled
<1>7. SameThreads([thread EXCEPT ![t] = Idle], thread')
  BY <1>6 DEF th
<1>. QED
  BY <1>1, <1>5, <1>6, <1>7, InvOther

\* CallbackEvaluates: the callback that is awaited goes on to evaluate.
LEMMA InvCallbackEvaluates ==
    ASSUME StatusInv, NEW t \in Thread, CallbackEvaluates(t)
    PROVE  StatusInv'
<1>. USE Typed DEF StatusInv
<1>. DEFINE h == [thread[t] EXCEPT !.pc = "read", !.valid = FALSE]
<1>1. h \in ThreadState /\ h.pc = "read" /\ h.age = thread[t].age
  BY DEF ThreadState
<1>2. thread[t].age <= MaxLag
  BY DEF CallbackEvaluates, ReadingsInTime
<1>3. thread' = [thread EXCEPT ![t] = h]
      /\ shown' = shown /\ UNCHANGED <<snap, state, startup, armed, ended, silent, quiet, fresh>>
  BY DEF CallbackEvaluates
<1>4. due' \in Due
  BY Bounds DEF CallbackEvaluates
<1>. HIDE DEF h
<1>5. thread' \in [Thread -> ThreadState] /\ SameThreads([thread EXCEPT ![t] = h], thread')
  BY <1>1, <1>3, OneThread, Unchanged
<1>. QED
  BY <1>1, <1>2, <1>3, <1>4, <1>5, InvOther

\* Completed: the auto-completion returns.
LEMMA InvCompleted ==
    ASSUME StatusInv, NEW t \in Thread, Completed(t)
    PROVE  StatusInv'
<1>. USE Typed DEF StatusInv
<1>. DEFINE h == [thread[t] EXCEPT !.pc = "hook"]
<1>1. h \in ThreadState /\ h.pc = "hook"
  BY DEF ThreadState
<1>2. thread' = [thread EXCEPT ![t] = h] /\ thread[t].pc = "complete" /\ due' = due
      /\ shown' = shown /\ UNCHANGED <<snap, state, startup, armed, ended, silent, quiet, fresh>>
  BY DEF Completed
<1>. HIDE DEF h
<1>3. thread' \in [Thread -> ThreadState] /\ SameThreads([thread EXCEPT ![t] = h], thread')
  BY <1>1, <1>2, OneThread, Unchanged
<1>. QED
  BY <1>1, <1>2, <1>3, InvOther

\* CallHook: the status is shown.
LEMMA InvCallHook ==
    ASSUME StatusInv, NEW t \in Thread, CallHook(t)
    PROVE  StatusInv'
<1>. USE Typed DEF StatusInv
<1>1. Idle \in ThreadState /\ Idle.pc = "idle" /\ Idle.age <= MaxLag
  BY IdleThread, Bounds
<1>2. thread' = [thread EXCEPT ![t] = Idle] /\ thread[t].pc = "hook" /\ due' = due
      /\ shown' = thread[t].status
      /\ UNCHANGED <<snap, state, startup, armed, ended, silent, quiet, fresh>>
  BY DEF CallHook
<1>3. thread' \in [Thread -> ThreadState] /\ SameThreads([thread EXCEPT ![t] = Idle], thread')
  BY <1>1, <1>2, OneThread, Unchanged
<1>4. shown' \in Status
  BY <1>2, Fields
<1>. QED
  BY <1>1, <1>2, <1>3, <1>4, InvOther

\* ReadSnapshot: the reading is of the snapshot there is.
LEMMA InvReadSnapshot ==
    ASSUME StatusInv, NEW t \in Thread, ReadSnapshot(t)
    PROVE  StatusInv'
<1>. USE Typed, Bounds DEF StatusInv
<1>. DEFINE h == [thread[t] EXCEPT !.pc = "advance", !.hash = snap, !.quiet = quiet,
                                   !.current = TRUE]
<1>1. /\ h \in ThreadState /\ h.pc = "advance" /\ h.hash = snap /\ h.quiet = quiet
      /\ h.current = TRUE /\ h.age = thread[t].age
  BY ZenonT(60) DEF ThreadState
<1>2. thread' = [thread EXCEPT ![t] = h] /\ thread[t].pc = "read"
      /\ UNCHANGED <<snap, state, startup, armed, due, shown, ended, silent, quiet, fresh>>
  BY DEF ReadSnapshot
<1>. HIDE DEF h
<1>3. /\ thread' \in [Thread -> ThreadState] /\ thread'[t] = h
      /\ \A u \in Thread : u # t => thread'[u] = thread[u]
  BY <1>1, <1>2, OneThread
<1>4. StatusTypeOK'
  BY <1>2, <1>3 DEF StatusTypeOK, StatusState, ThreadState
<1>5. thread[t].age <= MaxLag /\ thread[t].age \in Nat
  BY <1>2, Fields DEF ReadingsInTime
<1>6. ReadingsInTime'
  BY <1>1, <1>3, <1>5 DEF ReadingsInTime
<1>7. FirstEvaluation'
  BY <1>2 DEF FirstEvaluation
<1>8. CandidateIsStable'
  <2>. SUFFICES ASSUME startup # NoHash, Candidate(state)
                PROVE  /\ snap = state.prevHash => quiet >= state.candSince - MaxLag
                       /\ \A u \in Thread :
                             thread'[u].pc = "advance" /\ thread'[u].hash = state.prevHash =>
                                thread'[u].quiet >= state.candSince - thread'[u].age - MaxLag
    BY <1>2 DEF CandidateIsStable, Candidate
  <2>1. snap = state.prevHash => quiet >= state.candSince - MaxLag
    BY DEF CandidateIsStable
  <2>2. ASSUME NEW u \in Thread, thread'[u].pc = "advance", thread'[u].hash = state.prevHash
        PROVE  thread'[u].quiet >= state.candSince - thread'[u].age - MaxLag
    <3>1. CASE u = t
      <4>1. state.candSince \in Nat
        BY Fields
      <4>2. quiet \in Nat /\ quiet >= state.candSince - MaxLag
        BY <1>1, <1>3, <2>1, <2>2, <3>1
      <4>3. thread'[u].quiet = quiet /\ thread'[u].age = thread[t].age
        BY <1>1, <1>3, <3>1
      <4>. QED
        BY <1>5, <4>1, <4>2, <4>3
    <3>2. CASE u # t
      BY <1>3, <2>2, <3>2 DEF CandidateIsStable
    <3>. QED
      BY <3>1, <3>2
  <2>. QED
    BY <2>1, <2>2
<1>9. ReadingsAgainstSnapshot'
  BY <1>1, <1>2, <1>3 DEF ReadingsAgainstSnapshot
<1>10. ChangeIsAwaited'
  BY <1>1, <1>3 DEF ChangeIsAwaited
<1>. QED
  BY <1>4, <1>6, <1>7, <1>8, <1>9, <1>10

\* What an evaluation does, in terms of the state it starts from: the one there is, but
\* for what the first one fills in.
Evaluates(t, before, next, completes) ==
    LET at == NextEval(next, thread[t].age)
        h == [Idle EXCEPT !.status = next.emitted, !.age = thread[t].age,
                          !.pc = IF completes THEN "complete" ELSE "hook"]
    IN  /\ before \in Before(thread[t].hash)
        /\ \E recentInput :
              next = Advance(before, thread[t].hash, thread[t].age, recentInput)
        /\ completes \in BOOLEAN
        /\ completes => /\ armed \/ startup \notin {NoHash, thread[t].hash}
                        /\ before.emitted # "ready" /\ next.emitted = "ready"
        /\ state' = next
        /\ IF at = NoDue THEN Stopped([thread EXCEPT ![t] = h])
           ELSE Scheduled(at, due, [thread EXCEPT ![t] = h])
        /\ armed' = (armed \/ startup \notin {NoHash, thread[t].hash})
        /\ fresh' = IF completes THEN ~thread[t].current ELSE fresh
        /\ startup' = IF startup = NoHash THEN thread[t].hash ELSE startup
        /\ UNCHANGED <<snap, shown, ended, silent, quiet>>

LEMMA AdvanceEvaluates ==
    ASSUME NEW t \in Thread, AdvanceStatus(t)
    PROVE  \E before, next, completes : Evaluates(t, before, next, completes)
<1>1. PICK before \in Before(thread[t].hash), recentInput \in BOOLEAN, suppressed \in BOOLEAN :
         LET hash == thread[t].hash
             next == Advance(before, hash, thread[t].age, recentInput)
             at == NextEval(next, thread[t].age)
             armedNow == armed \/ startup \notin {NoHash, hash}
             edge == armedNow /\ ReadyEdge(before.emitted, next.emitted)
             completes == edge /\ ~suppressed
             moved == [thread EXCEPT ![t] = [Idle EXCEPT !.status = next.emitted,
                          !.age = thread[t].age,
                          !.pc = IF completes THEN "complete" ELSE "hook"]]
         IN /\ state' = next
            /\ IF at = NoDue THEN Stopped(moved) ELSE Scheduled(at, due, moved)
            /\ armed' = armedNow
            /\ fresh' = IF completes THEN ~thread[t].current ELSE fresh
  BY DEF AdvanceStatus
<1>. DEFINE next == Advance(before, thread[t].hash, thread[t].age, recentInput)
            completes == /\ armed \/ startup \notin {NoHash, thread[t].hash}
                         /\ ReadyEdge(before.emitted, next.emitted)
                         /\ ~suppressed
<1>2. Evaluates(t, before, next, completes)
  BY <1>1 DEF Evaluates, AdvanceStatus, ReadyEdge
<1>. QED
  BY <1>2

\* What holds of every evaluation in a state of the invariant.
LEMMA Evaluation ==
    ASSUME StatusInv, NEW t \in Thread, thread[t].pc = "advance",
           NEW before, NEW next, NEW completes, Evaluates(t, before, next, completes)
    PROVE  /\ next \in StatusState /\ next.emitted # "" /\ next.lastActive # Never
           /\ next.candSince # Never /\ next.prevHash = thread[t].hash
           /\ thread[t].hash \in Hash /\ thread[t].age \in 0..MaxLag /\ thread[t].age \in Age
           /\ Candidate(next) =>
                 \/ next.candSince = thread[t].age
                 \/ /\ startup # NoHash /\ Candidate(state) /\ state.prevHash = thread[t].hash
                    /\ next.candSince = state.candSince
           /\ completes => /\ startup # NoHash /\ state.emitted # "ready" /\ next.emitted = "ready"
                           /\ Candidate(state) /\ state.prevHash = thread[t].hash
                           /\ state.candSince - thread[t].age >= Delay
           /\ startup # NoHash /\ state.emitted = "ready" /\ state.prevHash = thread[t].hash =>
                 next.emitted = "ready"
<1>. USE Typed DEF StatusInv
<1>1. thread[t].hash \in Hash /\ thread[t].age \in 0..MaxLag /\ thread[t].age \in Age
  BY Fields, Bounds DEF ReadingsInTime
<1>2. before \in Before(thread[t].hash)
  BY DEF Evaluates
<1>3. /\ before \in StatusState
      /\ before.emitted = state.emitted /\ before.candidate = state.candidate
      /\ before.candSince = state.candSince
      /\ startup # NoHash => before = state
  <2>1. state \in StatusState /\ FirstEvaluation
    OBVIOUS
  <2>. QED
    BY ONLY <1>1, <1>2, <2>1, StartsFrom
<1>4. before.candSince = Never => before.emitted = ""
  BY <1>3 DEF FirstEvaluation
<1>5. PICK recentInput :
         next = Advance(before, thread[t].hash, thread[t].age, recentInput)
  BY DEF Evaluates
<1>6. AdvancesTo(before, thread[t].hash, thread[t].age, next)
  BY ONLY <1>1, <1>3, <1>4, <1>5, Advanced
<1>7. Candidate(before) => startup # NoHash
  BY <1>3 DEF Candidate, FirstEvaluation
<1>8. completes => startup # NoHash /\ before.emitted # "ready" /\ next.emitted = "ready"
  BY DEF Evaluates, FirstEvaluation
<1>9. startup # NoHash => before = state /\ state.emitted # ""
  BY <1>3 DEF FirstEvaluation
<1>. QED
  BY <1>1, <1>6, <1>7, <1>8, <1>9 DEF AdvancesTo

\* What an evaluation leaves of the goroutines and of the timer.
LEMMA EvaluatedThreads ==
    ASSUME StatusInv, NEW t \in Thread, thread[t].pc = "advance",
           NEW before, NEW next, NEW completes, Evaluates(t, before, next, completes)
    PROVE  /\ due' \in Due /\ thread' \in [Thread -> ThreadState]
           /\ due' = NoDue => next.emitted # "running"
                              /\ ~(next.emitted = "ready" /\ next.candidate # "ready")
           /\ thread'[t].pc = IF completes THEN "complete" ELSE "hook"
           /\ \A u \in Thread : u # t =>
                 /\ thread'[u].pc = thread[u].pc /\ thread'[u].hash = thread[u].hash
                 /\ thread'[u].age = thread[u].age /\ thread'[u].quiet = thread[u].quiet
                 /\ thread'[u].current = thread[u].current
<1>. USE Typed DEF StatusInv
<1>. DEFINE at == NextEval(next, thread[t].age)
            h == [Idle EXCEPT !.status = next.emitted, !.age = thread[t].age,
                              !.pc = IF completes THEN "complete" ELSE "hook"]
            th == [thread EXCEPT ![t] = h]
<1>1. next \in StatusState /\ next.candSince # Never /\ thread[t].age \in Age
  BY Evaluation
<1>2. completes \in BOOLEAN /\ IF at = NoDue THEN Stopped(th) ELSE Scheduled(at, due, th)
  BY DEF Evaluates
<1>3. h \in ThreadState /\ h.pc = IF completes THEN "complete" ELSE "hook"
  <2>1. next.emitted \in Status
    BY <1>1, Fields
  <2>2. thread[t].age \in 0..MaxStall + MaxAge
    BY Fields
  <2>3. Idle \in ThreadState
    BY IdleThread
  <2>4. CASE completes
    <3>1. h = [Idle EXCEPT !.status = next.emitted, !.age = thread[t].age, !.pc = "complete"]
      BY <2>4
    <3>. HIDE DEF h
    <3>. QED
      BY <2>1, <2>2, <2>3, <2>4, <3>1 DEF ThreadState
  <2>5. CASE ~completes
    <3>1. h = [Idle EXCEPT !.status = next.emitted, !.age = thread[t].age, !.pc = "hook"]
      BY <2>5
    <3>. HIDE DEF h
    <3>. QED
      BY <2>1, <2>2, <2>3, <2>5, <3>1 DEF ThreadState
  <2>. QED
    BY <2>4, <2>5
<1>. HIDE DEF h
<1>4. /\ th \in [Thread -> ThreadState] /\ th[t] = h
      /\ \A u \in Thread : u # t => th[u] = thread[u]
  BY <1>3, OneThread
<1>5. at \in Due /\ (at = NoDue => next.emitted # "running"
                                  /\ ~(next.emitted = "ready" /\ next.candidate # "ready"))
  BY <1>1, NextEvaluation
<1>. HIDE DEF at, th
<1>6. /\ due' \in Due /\ thread' \in [Thread -> ThreadState] /\ SameThreads(th, thread')
      /\ at # NoDue => due' # NoDue
  <2>1. CASE at = NoDue
    BY <1>2, <1>4, <2>1, TimerStops
  <2>2. CASE at # NoDue
    BY <1>2, <1>4, <1>5, <2>2, TimerScheduled
  <2>. QED
    BY <2>1, <2>2
<1>. QED
  BY <1>3, <1>4, <1>5, <1>6 DEF SameThreads

\* AdvanceStatus: the state is the advanced one, and a timer awaits what has to change.
LEMMA InvAdvanceStatus ==
    ASSUME StatusInv, NEW t \in Thread, AdvanceStatus(t)
    PROVE  StatusInv'
<1>. USE Typed DEF StatusInv
<1>1. thread[t].pc = "advance"
  BY DEF AdvanceStatus
<1>2. PICK before, next, completes : Evaluates(t, before, next, completes)
  BY AdvanceEvaluates
<1>3. /\ next \in StatusState /\ next.emitted # "" /\ next.lastActive # Never
      /\ next.candSince # Never /\ next.prevHash = thread[t].hash
      /\ thread[t].hash \in Hash /\ thread[t].age \in 0..MaxLag /\ thread[t].age \in Age
      /\ Candidate(next) =>
            \/ next.candSince = thread[t].age
            \/ /\ startup # NoHash /\ Candidate(state) /\ state.prevHash = thread[t].hash
               /\ next.candSince = state.candSince
  BY <1>1, <1>2, Evaluation
<1>4. /\ state' = next
      /\ armed' = (armed \/ startup \notin {NoHash, thread[t].hash})
      /\ fresh' = IF completes THEN ~thread[t].current ELSE fresh
      /\ startup' = IF startup = NoHash THEN thread[t].hash ELSE startup
      /\ snap' = snap /\ shown' = shown /\ ended' = ended /\ silent' = silent /\ quiet' = quiet
      /\ completes \in BOOLEAN
  BY <1>2 DEF Evaluates
<1>5. /\ due' \in Due /\ thread' \in [Thread -> ThreadState]
      /\ due' = NoDue => next.emitted # "running"
                         /\ ~(next.emitted = "ready" /\ next.candidate # "ready")
      /\ thread'[t].pc = IF completes THEN "complete" ELSE "hook"
      /\ \A u \in Thread : u # t =>
            /\ thread'[u].pc = thread[u].pc /\ thread'[u].hash = thread[u].hash
            /\ thread'[u].age = thread[u].age /\ thread'[u].quiet = thread[u].quiet
            /\ thread'[u].current = thread[u].current
  BY <1>1, <1>2, EvaluatedThreads
<1>6. thread'[t].pc \in {"complete", "hook"}
  BY <1>5
<1>7. startup' # NoHash /\ startup' \in Hash \cup {NoHash} /\ armed' \in BOOLEAN
       /\ fresh' \in BOOLEAN
  BY <1>3, <1>4, Bounds, Fields
<1>8. StatusTypeOK'
  BY <1>3, <1>4, <1>5, <1>7, Bounds DEF StatusTypeOK, StatusState, ThreadState, Due
<1>9. ReadingsInTime'
  BY <1>5, <1>6 DEF ReadingsInTime
<1>10. FirstEvaluation'
  BY <1>3, <1>4, <1>7 DEF FirstEvaluation
<1>11. CandidateIsStable'
  <2>. SUFFICES ASSUME Candidate(next)
                PROVE  /\ snap = thread[t].hash => quiet >= next.candSince - MaxLag
                       /\ \A u \in Thread : u # t =>
                             (thread[u].pc = "advance" /\ thread[u].hash = thread[t].hash =>
                                thread[u].quiet >= next.candSince - thread[u].age - MaxLag)
    BY <1>3, <1>4, <1>5, <1>6 DEF CandidateIsStable, Candidate
  <2>1. CASE next.candSince = thread[t].age
    <3>1. thread[t].age \in 0..MaxLag /\ MaxLag \in Nat
      BY <1>3, Bounds
    <3>2. quiet \in Nat
      <4>1. quiet \in 0..MaxAge
        OBVIOUS
      <4>. QED
        BY <4>1, Bounds
    <3>3. \A u \in Thread : thread[u].quiet \in Nat /\ thread[u].age \in Nat
      <4>1. \A u \in Thread : thread[u].quiet \in 0..MaxAge /\ thread[u].age \in Nat
        BY Fields
      <4>. QED
        BY <4>1, Bounds
    <3>. QED
      BY ONLY <2>1, <3>1, <3>2, <3>3
  <2>2. CASE /\ startup # NoHash /\ Candidate(state) /\ state.prevHash = thread[t].hash
             /\ next.candSince = state.candSince
    BY <2>2 DEF CandidateIsStable
  <2>. QED
    BY <1>3, <2>1, <2>2
<1>12. ReadingsAgainstSnapshot'
  BY <1>4, <1>5, <1>6 DEF ReadingsAgainstSnapshot
<1>13. ChangeIsAwaited'
  BY <1>4, <1>5 DEF ChangeIsAwaited, Unsettled
<1>. QED
  BY <1>8, <1>9, <1>10, <1>11, <1>12, <1>13

\* NotifyEnded: a closed pane awaits nothing.
LEMMA InvNotifyEnded ==
    ASSUME StatusInv, NotifyEnded
    PROVE  StatusInv'
<1>. USE Typed DEF StatusInv
<1>1. Stopped(thread) /\ ended' = TRUE
      /\ UNCHANGED <<snap, state, startup, armed, shown, silent, quiet, fresh>>
  BY DEF NotifyEnded
<1>2. /\ due' \in Due /\ thread' \in [Thread -> ThreadState] /\ SameThreads(thread, thread')
  BY <1>1, TimerStops
<1>3. StatusTypeOK'
  BY <1>1, <1>2, Bounds DEF StatusTypeOK, StatusState, ThreadState, Due
<1>4. ReadingsInTime' /\ FirstEvaluation' /\ CandidateIsStable' /\ ReadingsAgainstSnapshot'
  <2>1. \A u \in Thread :
           /\ thread'[u].pc = "advance" =>
                 /\ thread[u].pc = "advance" /\ thread'[u].hash = thread[u].hash
                 /\ thread'[u].age = thread[u].age /\ thread'[u].quiet = thread[u].quiet
                 /\ thread'[u].current = thread[u].current
           /\ thread'[u].pc \in {"idle", "fired", "read", "advance"} => thread'[u].age <= MaxLag
    BY <1>2 DEF ReadingsInTime, SameThreads
  <2>. QED
    BY <1>1, <2>1, ReadingsFrame
<1>5. ChangeIsAwaited'
  BY <1>1 DEF ChangeIsAwaited
<1>. QED
  BY <1>3, <1>4, <1>5

\* Silence, and steps that change nothing.
LEMMA InvSilence ==
    ASSUME StatusInv, silent' \in BOOLEAN,
           UNCHANGED <<snap, state, startup, armed, due, thread, shown, ended, quiet, fresh>>
    PROVE  StatusInv'
<1>. USE Typed DEF StatusInv
<1>1. StatusTypeOK'
  BY Bounds DEF StatusTypeOK, StatusState, ThreadState, Due
<1>2. ReadingsInTime' /\ FirstEvaluation' /\ CandidateIsStable' /\ ReadingsAgainstSnapshot'
  BY ReadingsFrame DEF ReadingsInTime
<1>3. ChangeIsAwaited'
  BY DEF ChangeIsAwaited, Unsettled
<1>. QED
  BY <1>1, <1>2, <1>3

\* A tick makes an age one older, up to the bound where ages are not told apart.
LEMMA OneOlder ==
    /\ \A a \in 0..MaxAge : /\ Older(a) \in 0..MaxAge /\ Older(a) >= a /\ Older(a) <= a + 1
                            /\ (Older(a) = MaxAge \/ Older(a) = a + 1)
    /\ Older(Never) = Never
  BY Bounds DEF Older

\* Tick: everything grows older, and nobody falls behind by more than MaxLag.
LEMMA InvTick ==
    ASSUME StatusInv, Tick
    PROVE  StatusInv'
<1>. USE Typed DEF StatusInv
<1>1. /\ \A u \in Thread : thread[u].pc # "idle" =>
            thread[u].age < IF thread[u].pc = "complete" THEN MaxStall ELSE MaxLag
      /\ due' = IF due \in {NoDue, -MaxAge} THEN due ELSE due - 1
      /\ state' = [state EXCEPT !.candSince = Older(@), !.lastActive = Older(@)]
      /\ quiet' = Older(quiet)
      /\ UNCHANGED <<snap, startup, armed, shown, ended, silent, fresh>>
      /\ thread' = [u \in Thread |-> IF thread[u].pc = "idle" THEN thread[u]
                                     ELSE [thread[u] EXCEPT !.age = @ + 1]]
  BY DEF Tick
<1>2. \A u \in Thread : thread[u].age \in Nat /\ thread[u].quiet \in 0..MaxAge
  BY Fields
<1>3. /\ thread' \in [Thread -> ThreadState]
      /\ \A u \in Thread :
            /\ thread'[u].pc = thread[u].pc /\ thread'[u].hash = thread[u].hash
            /\ thread'[u].quiet = thread[u].quiet /\ thread'[u].current = thread[u].current
            /\ thread[u].pc = "idle" => thread'[u].age = thread[u].age
            /\ thread[u].pc # "idle" => thread'[u].age = thread[u].age + 1
  <2>1. ASSUME NEW u \in Thread
        PROVE  /\ thread'[u] \in ThreadState
               /\ thread'[u].pc = thread[u].pc /\ thread'[u].hash = thread[u].hash
               /\ thread'[u].quiet = thread[u].quiet /\ thread'[u].current = thread[u].current
               /\ thread[u].pc = "idle" => thread'[u].age = thread[u].age
               /\ thread[u].pc # "idle" => thread'[u].age = thread[u].age + 1
    <3>1. CASE thread[u].pc = "idle"
      BY <1>1, <3>1
    <3>2. CASE thread[u].pc # "idle"
      <4>1. thread'[u] = [thread[u] EXCEPT !.age = thread[u].age + 1]
        BY <1>1, <3>2
      <4>2. thread[u].age + 1 \in 0..MaxStall + MaxAge
        <5>1. thread[u].age < MaxStall \/ thread[u].age < MaxLag
          BY <1>1, <3>2
        <5>2. MaxStall \in Nat /\ MaxLag \in Nat /\ MaxAge \in Nat /\ MaxLag <= MaxAge
          BY Bounds
        <5>. QED
          BY ONLY <1>2, <5>1, <5>2
      <4>. QED
        BY <3>2, <4>1, <4>2 DEF ThreadState
    <3>. QED
      BY <3>1, <3>2
  <2>2. DOMAIN thread' = Thread /\ thread' = [u \in Thread |-> thread'[u]]
    BY <1>1
  <2>. QED
    BY <2>1, <2>2
<1>4. /\ state' \in StatusState /\ state'.prevHash = state.prevHash
      /\ state'.emitted = state.emitted /\ state'.candidate = state.candidate
      /\ state'.candSince = Older(state.candSince) /\ state'.lastActive = Older(state.lastActive)
  <2>1. Older(state.candSince) \in Age \cup {Never} /\ Older(state.lastActive) \in Age \cup {Never}
    <3>1. \A a \in Age \cup {Never} : Older(a) \in Age \cup {Never}
      BY OneOlder, Bounds
    <3>2. state.candSince \in Age \cup {Never} /\ state.lastActive \in Age \cup {Never}
      BY DEF StatusState
    <3>. QED
      BY <3>1, <3>2
  <2>. QED
    BY <1>1, <2>1 DEF StatusState
<1>5. /\ state.candSince \in 0..Never /\ state.lastActive \in 0..Never
      /\ (state.candSince # Never => state.candSince \in 0..MaxAge /\ state'.candSince # Never)
      /\ (state.lastActive # Never => state'.lastActive # Never)
  <2>1. state.candSince \in 0..Never /\ state.lastActive \in 0..Never
    BY Fields
  <2>2. \A a \in 0..Never : a # Never => a \in 0..MaxAge /\ Older(a) # Never
    BY OneOlder, Bounds
  <2>. QED
    BY <1>4, <2>1, <2>2
<1>6. quiet' \in 0..MaxAge /\ quiet' >= quiet /\ quiet' <= quiet + 1
      /\ (quiet' = MaxAge \/ quiet' = quiet + 1)
  BY <1>1, OneOlder
<1>7. due' \in Due /\ (due' = NoDue <=> due = NoDue)
  <2>1. due \in Due
    OBVIOUS
  <2>2. due' = IF due \in {NoDue, -MaxAge} THEN due ELSE due - 1
    BY <1>1
  <2>. QED
    BY ONLY <2>1, <2>2, Bounds
<1>8. StatusTypeOK'
  BY <1>1, <1>3, <1>4, <1>6, <1>7, Bounds DEF StatusTypeOK, StatusState, ThreadState, Due
<1>9. ReadingsInTime'
  <2>. SUFFICES ASSUME NEW u \in Thread
                PROVE  /\ thread[u].pc \in {"idle", "fired", "read", "advance"}
                             => thread'[u].age <= MaxLag
                       /\ thread[u].pc = "advance" => thread[u].hash \in Hash
    BY <1>3 DEF ReadingsInTime
  <2>1. thread[u].pc = "advance" => thread[u].hash \in Hash
    BY DEF ReadingsInTime
  <2>2. thread[u].pc = "idle" => thread'[u].age <= MaxLag
    BY <1>3 DEF ReadingsInTime
  <2>3. thread[u].pc \in {"fired", "read", "advance"} => thread'[u].age <= MaxLag
    <3>1. thread[u].pc \in {"fired", "read", "advance"} =>
             thread'[u].age = thread[u].age + 1 /\ thread[u].age < MaxLag
      BY <1>1, <1>3
    <3>2. thread[u].age \in Nat /\ MaxLag \in Nat
      BY <1>2, Bounds
    <3>. QED
      BY ONLY <3>1, <3>2
  <2>. QED
    BY <2>1, <2>2, <2>3
<1>10. FirstEvaluation'
  BY <1>1, <1>4, <1>5 DEF FirstEvaluation
<1>11. CandidateIsStable'
  <2>. SUFFICES ASSUME startup # NoHash, Candidate(state)
                PROVE  /\ snap = state.prevHash => quiet' >= state'.candSince - MaxLag
                       /\ \A u \in Thread :
                             thread[u].pc = "advance" /\ thread[u].hash = state.prevHash =>
                                thread[u].quiet >= state'.candSince - thread'[u].age - MaxLag
    BY <1>1, <1>3, <1>4 DEF CandidateIsStable, Candidate
  <2>1. CASE state.candSince = Never
    BY <2>1 DEF FirstEvaluation, Candidate
  <2>2. CASE state.candSince \in 0..MaxAge
    <3>1. state'.candSince \in 0..MaxAge /\ state'.candSince <= state.candSince + 1
      BY <1>4, <2>2, OneOlder
    <3>2. snap = state.prevHash => quiet >= state.candSince - MaxLag
      BY DEF CandidateIsStable
    <3>3. snap = state.prevHash => quiet' >= state'.candSince - MaxLag
      BY <1>6, <2>2, <3>1, <3>2, Bounds, SMTT(30)
    <3>4. ASSUME NEW u \in Thread, thread[u].pc = "advance", thread[u].hash = state.prevHash
          PROVE  thread[u].quiet >= state'.candSince - thread'[u].age - MaxLag
      <4>1. thread[u].quiet >= state.candSince - thread[u].age - MaxLag
        BY <3>4 DEF CandidateIsStable
      <4>2. thread'[u].age = thread[u].age + 1
        BY <1>3, <3>4
      <4>3. MaxLag \in Nat /\ MaxAge \in Nat
        BY Bounds
      <4>. QED
        BY ONLY <1>2, <2>2, <3>1, <4>1, <4>2, <4>3
    <3>. QED
      BY <3>3, <3>4
  <2>. QED
    BY <1>5, <2>1, <2>2
<1>12. ReadingsAgainstSnapshot'
  <2>. SUFFICES ASSUME NEW u \in Thread, thread[u].pc = "advance"
                PROVE  /\ thread[u].current => thread[u].hash = snap /\ quiet' >= thread[u].quiet
                       /\ thread[u].hash # snap => quiet' <= thread'[u].age
    BY <1>1, <1>3 DEF ReadingsAgainstSnapshot
  <2>1. /\ thread[u].current => thread[u].hash = snap /\ quiet >= thread[u].quiet
        /\ thread[u].hash # snap => quiet <= thread[u].age
    BY DEF ReadingsAgainstSnapshot
  <2>2. thread'[u].age = thread[u].age + 1
    BY <1>3
  <2>. QED
    BY <1>2, <1>6, <2>1, <2>2
<1>13. ChangeIsAwaited'
  BY <1>1, <1>3, <1>4, <1>7 DEF ChangeIsAwaited, Unsettled
<1>. QED
  BY <1>8, <1>9, <1>10, <1>11, <1>12, <1>13

LEMMA InvStep == StatusInv /\ [StatusNext]_statusVars => StatusInv'
<1>. SUFFICES ASSUME StatusInv, [StatusNext]_statusVars PROVE StatusInv'
  OBVIOUS
<1>1. ASSUME NEW t \in Writer, NEW h \in Hash, Write(t, h) PROVE StatusInv'
  BY <1>1, InvWrite, Bounds
<1>2. ASSUME NEW t \in Thread, Step(t) PROVE StatusInv'
  BY <1>2, InvReadSnapshot, InvAdvanceStatus, InvCompleted, InvCallHook DEF Step
<1>3. ASSUME NEW t \in Callback, StepCallback(t) PROVE StatusInv'
  BY <1>3, InvTimerFires, InvCallbackStale, InvCallbackLater, InvCallbackEvaluates, Bounds
     DEF StepCallback
<1>4. CASE Tick
  BY <1>4, InvTick
<1>5. CASE NotifyEnded
  BY <1>5, InvNotifyEnded
<1>6. CASE Silence
  BY <1>6, InvSilence DEF Silence
<1>7. CASE UNCHANGED statusVars
  BY <1>7, InvSilence, Typed DEF statusVars, StatusInv
<1>. QED
  BY <1>1, <1>2, <1>3, <1>4, <1>5, <1>6, <1>7 DEF StatusNext, Progress

-----------------------------------------------------------------------------
(* The theorems.                                                                *)

\* The inductive invariant holds in every reachable state: readings are in time, the
\* first evaluation fills in what the others rely on, a candidate is stable, readings are
\* told apart from the snapshot, and what has to change is awaited.
THEOREM StatusInvariant == StatusSpec => []StatusInv
<1>. QED
  BY InvInit, InvStep, PTL DEF StatusSpec

\* A status that has to change by itself is never forgotten (scheduleStatusEvalTimerLocked,
\* onStatusEvalTimerFired): for any number of goroutines, any delay and any lag below it,
\* a timer is set or an evaluation that will set one is under way.
THEOREM ChangeAwaited == StatusSpec => []ChangeIsAwaited
<1>1. StatusInv => ChangeIsAwaited
  BY DEF StatusInv
<1>. QED
  BY <1>1, StatusInvariant, PTL

-----------------------------------------------------------------------------
(* Completions.                                                                 *)

\* A reading is made by ReadSnapshot and used by AdvanceStatus, and nobody else touches it.
KeptReading(t) ==
    thread[t].pc = "advance" \/ thread'[t].pc = "advance" =>
        thread'[t].pc = thread[t].pc /\ thread'[t].hash = thread[t].hash

LEMMA ReadingsAreKept ==
    ASSUME StatusInv, [StatusNext]_statusVars, NEW t \in Thread, ~ReadSnapshot(t), ~AdvanceStatus(t)
    PROVE  KeptReading(t)
<1>. USE Typed DEF StatusInv
<1>1. ASSUME NEW u \in Thread, NEW h \in ThreadState, thread[u].pc # "advance", h.pc # "advance",
             SameThreads([thread EXCEPT ![u] = h], thread')
      PROVE  KeptReading(t)
  <2>1. CASE u = t
    <3>1. [thread EXCEPT ![u] = h][t] = h
      BY <2>1, OneThread
    <3>. QED
      BY <1>1, <2>1, <3>1 DEF SameThreads, KeptReading
  <2>2. CASE u # t
    <3>1. [thread EXCEPT ![u] = h][t] = thread[t]
      BY <2>2, OneThread
    <3>. QED
      BY <1>1, <3>1 DEF SameThreads, KeptReading
  <2>. QED
    BY <2>1, <2>2
<1>2. \A th \in [Thread -> ThreadState] : SameThreads(th, th) /\ SameThreads(th, Invalidate(th))
  BY Invalidated, Unchanged
<1>3. \A u \in Thread, h \in ThreadState : [thread EXCEPT ![u] = h] \in [Thread -> ThreadState]
  BY OneThread
<1>4. ASSUME NEW u \in Writer, NEW new \in Hash, Write(u, new) PROVE KeptReading(t)
  <2>. DEFINE h == [Idle EXCEPT !.pc = "read"]
              th == [thread EXCEPT ![u] = h]
  <2>1. u \in Thread /\ thread[u].pc = "idle" /\ h \in ThreadState /\ h.pc = "read"
    BY <1>4, IdleThread, Bounds DEF Write
  <2>2. thread' = Outdate(th, new)
    BY <1>4 DEF Write
  <2>. HIDE DEF h
  <2>3. th \in [Thread -> ThreadState] /\ (u # t => th[t] = thread[t]) /\ (u = t => th[t] = h)
    BY <2>1, OneThread
  <2>. HIDE DEF th
  <2>4. thread'[t] = [th[t] EXCEPT !.current = @ /\ new = snap]
    BY <2>2 DEF Outdate
  <2>5. th[t] \in ThreadState
    BY <2>3
  <2>6. \A x : \A g \in ThreadState : [g EXCEPT !.current = x].pc = g.pc
                                      /\ [g EXCEPT !.current = x].hash = g.hash
    BY DEF ThreadState
  <2>7. thread'[t].pc = th[t].pc /\ thread'[t].hash = th[t].hash
    BY <2>4, <2>5, <2>6
  <2>. QED
    BY <2>1, <2>3, <2>7 DEF KeptReading
<1>5. ASSUME NEW u \in Callback, TimerFires(u) \/ CallbackStale(u) \/ CallbackEvaluates(u)
      PROVE  KeptReading(t)
  <2>. DEFINE h1 == [Idle EXCEPT !.pc = "fired", !.valid = TRUE]
              h2 == [thread[u] EXCEPT !.pc = "read", !.valid = FALSE]
  <2>1. u \in Thread /\ thread[u].pc # "advance"
    BY <1>5, Bounds DEF TimerFires, CallbackStale, CallbackEvaluates
  <2>2. thread' \in {[thread EXCEPT ![u] = h1], [thread EXCEPT ![u] = Idle],
                     [thread EXCEPT ![u] = h2]}
    BY <1>5 DEF TimerFires, CallbackStale, CallbackEvaluates
  <2>3. h1 \in ThreadState /\ Idle \in ThreadState /\ h1.pc # "advance" /\ Idle.pc # "advance"
    BY IdleThread
  <2>4. h2 \in ThreadState /\ h2.pc # "advance"
    BY <2>1 DEF ThreadState
  <2>. HIDE DEF h1, h2
  <2>. QED
    BY <1>1, <1>2, <1>3, <2>1, <2>2, <2>3, <2>4
<1>6. ASSUME NEW u \in Callback, CallbackLater(u) PROVE KeptReading(t)
  <2>1. u \in Thread /\ thread[u].pc # "advance" /\ Idle \in ThreadState /\ Idle.pc # "advance"
    BY <1>6, IdleThread, Bounds DEF CallbackLater
  <2>. DEFINE th == [thread EXCEPT ![u] = Idle]
  <2>2. thread' = th \/ thread' = Invalidate(th)
    BY <1>6 DEF CallbackLater, Scheduled
  <2>3. th \in [Thread -> ThreadState]
    BY <1>3, <2>1
  <2>4. SameThreads(th, thread')
    BY ONLY <1>2, <2>2, <2>3
  <2>. QED
    BY <1>1, <2>1, <2>4
<1>7. ASSUME NEW u \in Thread, ReadSnapshot(u) PROVE KeptReading(t)
  <2>1. u # t
    BY <1>7
  <2>. QED
    BY <1>7, <2>1 DEF ReadSnapshot, KeptReading
<1>8. ASSUME NEW u \in Thread, Completed(u) \/ CallHook(u) PROVE KeptReading(t)
  <2>. DEFINE h == [thread[u] EXCEPT !.pc = "hook"]
  <2>1. thread[u].pc # "advance"
    BY <1>8 DEF Completed, CallHook
  <2>2. thread' \in {[thread EXCEPT ![u] = h], [thread EXCEPT ![u] = Idle]}
    BY <1>8 DEF Completed, CallHook
  <2>3. h \in ThreadState /\ h.pc # "advance" /\ Idle \in ThreadState /\ Idle.pc # "advance"
    BY IdleThread DEF ThreadState
  <2>. HIDE DEF h
  <2>. QED
    BY <1>1, <1>2, <1>3, <2>1, <2>2, <2>3
<1>9. ASSUME NEW u \in Thread, AdvanceStatus(u) PROVE KeptReading(t)
  <2>1. u # t
    BY <1>9
  <2>2. PICK before, next, completes : Evaluates(u, before, next, completes)
    BY <1>9, AdvanceEvaluates
  <2>3. thread[u].pc = "advance"
    BY <1>9 DEF AdvanceStatus
  <2>4. \A v \in Thread : v # u => thread'[v].pc = thread[v].pc /\ thread'[v].hash = thread[v].hash
    BY <2>2, <2>3, EvaluatedThreads
  <2>. QED
    BY <2>1, <2>4 DEF KeptReading
<1>10. CASE NotifyEnded
  BY <1>2, <1>10 DEF NotifyEnded, Stopped, SameThreads, KeptReading
<1>11. CASE Tick
  <2>1. thread'[t] = IF thread[t].pc = "idle" THEN thread[t] ELSE [thread[t] EXCEPT !.age = @ + 1]
    BY <1>11 DEF Tick
  <2>2. \A x : \A g \in ThreadState : [g EXCEPT !.age = x].pc = g.pc
                                  /\ [g EXCEPT !.age = x].hash = g.hash
    BY DEF ThreadState
  <2>. QED
    BY <2>1, <2>2 DEF KeptReading
<1>12. CASE Silence \/ UNCHANGED statusVars
  BY <1>12 DEF Silence, statusVars, KeptReading
<1>. QED
  BY <1>4, <1>5, <1>6, <1>7, <1>8, <1>9, <1>10, <1>11, <1>12
     DEF StatusNext, Progress, Step, StepCallback

\* Only its own evaluation takes a goroutine from the advance to the completion.
LEMMA OnlyEvaluationCompletes ==
    ASSUME StatusInv, [StatusNext]_statusVars, NEW t \in Thread,
           thread[t].pc = "advance", thread'[t].pc = "complete"
    PROVE  AdvanceStatus(t)
<1>1. ~ReadSnapshot(t)
  BY DEF ReadSnapshot
<1>. QED
  BY <1>1, ReadingsAreKept DEF KeptReading

\* An evaluation that completes has read a snapshot that was not written for the delay, but
\* for the lag, and finds a pane that was not shown ready.
LEMMA CompletionIsDue ==
    ASSUME StatusInv, NEW t \in Thread, AdvanceStatus(t), thread'[t].pc = "complete"
    PROVE  /\ thread[t].quiet >= Delay - MaxLag
           /\ startup # NoHash /\ state.emitted # "ready"
<1>. USE Typed DEF StatusInv
<1>1. thread[t].pc = "advance"
  BY DEF AdvanceStatus
<1>2. PICK before, next, completes : Evaluates(t, before, next, completes)
  BY AdvanceEvaluates
<1>3. completes
  BY <1>1, <1>2, EvaluatedThreads
<1>4. /\ startup # NoHash /\ state.emitted # "ready"
      /\ Candidate(state) /\ state.prevHash = thread[t].hash
      /\ state.candSince - thread[t].age >= Delay
  BY <1>1, <1>2, <1>3, Evaluation
<1>5. thread[t].quiet >= state.candSince - thread[t].age - MaxLag
  BY <1>1, <1>4 DEF CandidateIsStable
<1>6. thread[t].quiet \in 0..MaxAge /\ state.candSince \in 0..Never /\ thread[t].age \in Nat
  BY Fields
<1>7. thread[t].quiet \in Int /\ state.candSince \in Int /\ MaxLag \in Int /\ Delay \in Int
  BY <1>6, Bounds
<1>8. thread[t].quiet >= Delay - MaxLag
  BY ONLY <1>4, <1>5, <1>6, <1>7
<1>. QED
  BY <1>4, <1>8

\* A completion is triggered only for a pane whose snapshot had not changed for the whole
\* delay, less the lag of who found it, when the evaluation read it (emitStatusWithHash).
THEOREM CompletesIdle == StatusSpec => CompletesOnlyIdlePane
<1>1. StatusInv /\ [StatusNext]_statusVars =>
         [\A t \in Thread : thread[t].pc = "advance" /\ thread'[t].pc = "complete"
             => thread[t].quiet >= Delay - MaxLag]_statusVars
  BY OnlyEvaluationCompletes, CompletionIsDue
<1>. QED
  BY <1>1, StatusInvariant, PTL DEF StatusSpec, CompletesOnlyIdlePane

\* What a completion relies on stands until the snapshot changes, when nobody is half the
\* delay behind: another reading made before the completion is of the same snapshot, for an
\* older one would be of a change within its lag.
LEMMA StandsStep ==
    ASSUME 2 * MaxLag < Delay, StatusInv, CompletionStands, [StatusNext]_statusVars
    PROVE  CompletionStands'
<1>. USE Typed DEF StatusInv
<1>1. CASE \E t \in Thread : AdvanceStatus(t)
  <2>1. PICK t \in Thread : AdvanceStatus(t)
    BY <1>1
  <2>2. thread[t].pc = "advance"
    BY <2>1 DEF AdvanceStatus
  <2>3. PICK before, next, completes : Evaluates(t, before, next, completes)
    BY <2>1, AdvanceEvaluates
  <2>4. /\ state' = next /\ snap' = snap /\ completes \in BOOLEAN
        /\ fresh' = IF completes THEN ~thread[t].current ELSE fresh
        /\ startup' = IF startup = NoHash THEN thread[t].hash ELSE startup
    BY <2>3 DEF Evaluates
  <2>5. /\ next.prevHash = thread[t].hash /\ thread[t].hash \in Hash
        /\ completes => next.emitted = "ready"
        /\ startup # NoHash /\ state.emitted = "ready" /\ state.prevHash = thread[t].hash =>
              next.emitted = "ready"
    BY <2>2, <2>3, Evaluation
  <2>6. /\ thread'[t].pc = IF completes THEN "complete" ELSE "hook"
        /\ \A u \in Thread : u # t => thread'[u].pc = thread[u].pc
                                      /\ thread'[u].hash = thread[u].hash
    BY <2>2, <2>3, EvaluatedThreads
  <2>7. startup' # NoHash
    BY <2>4, <2>5, Bounds
  <2>8. CASE completes /\ thread[t].current
    <3>1. thread[t].hash = snap /\ quiet >= thread[t].quiet
      BY <2>2, <2>8 DEF ReadingsAgainstSnapshot
    <3>2. thread[t].quiet >= Delay - MaxLag
      BY <2>1, <2>6, <2>8, CompletionIsDue
    <3>3. ASSUME NEW u \in Thread, u # t, thread[u].pc = "advance" PROVE thread[u].hash = snap
      <4>. SUFFICES ASSUME thread[u].hash # snap PROVE FALSE
        OBVIOUS
      <4>1. quiet <= thread[u].age /\ thread[u].age <= MaxLag
        BY <3>3 DEF ReadingsAgainstSnapshot, ReadingsInTime
      <4>2. thread[u].age \in Nat /\ thread[t].quiet \in 0..MaxAge /\ quiet \in 0..MaxAge
        BY Fields
      <4>3. MaxLag \in Nat /\ Delay \in Nat /\ MaxAge \in Nat
        BY Bounds
      <4>. QED
        BY <3>1, <3>2, <4>1, <4>2, <4>3
    <3>. QED
      BY <2>4, <2>5, <2>6, <2>7, <2>8, <3>1, <3>3 DEF CompletionStands
  <2>9. CASE completes /\ ~thread[t].current
    BY <2>4, <2>9 DEF CompletionStands
  <2>10. CASE ~completes
    <3>. SUFFICES ASSUME ~fresh PROVE CompletionStands'
      BY <2>4, <2>10 DEF CompletionStands
    <3>1. /\ startup # NoHash /\ state.emitted = "ready" /\ state.prevHash = snap
          /\ \A u \in Thread : thread[u].pc = "advance" => thread[u].hash = snap
      BY DEF CompletionStands
    <3>. QED
      BY <2>2, <2>4, <2>5, <2>6, <2>7, <2>10, <3>1 DEF CompletionStands
  <2>. QED
    BY <2>4, <2>8, <2>9, <2>10
<1>2. CASE \E t \in Thread : ReadSnapshot(t)
  <2>1. PICK t \in Thread : ReadSnapshot(t)
    BY <1>2
  <2>2. \A u \in Thread : u # t => thread'[u] = thread[u]
    BY <2>1 DEF ReadSnapshot
  <2>3. thread'[t].hash = snap
    <3>1. \A g \in ThreadState :
             [g EXCEPT !.pc = "advance", !.hash = snap, !.quiet = quiet,
                 !.current = TRUE].hash = snap
      BY DEF ThreadState
    <3>. QED
      BY <2>1, <3>1 DEF ReadSnapshot
  <2>4. UNCHANGED <<snap, state, startup, fresh>>
    BY <2>1 DEF ReadSnapshot
  <2>. QED
    BY <2>2, <2>3, <2>4 DEF CompletionStands
<1>3. CASE ~\E t \in Thread : AdvanceStatus(t) \/ ReadSnapshot(t)
  <2>1. \A t \in Thread : KeptReading(t)
    BY <1>3, ReadingsAreKept
  <2>2. \/ fresh' = TRUE
        \/ /\ UNCHANGED <<snap, startup, fresh>>
           /\ state'.emitted = state.emitted /\ state'.prevHash = state.prevHash
    <3>1. ASSUME NEW t \in Writer, NEW new \in Hash, Write(t, new)
          PROVE  fresh' = TRUE \/ UNCHANGED <<snap, startup, fresh, state>>
      BY <3>1 DEF Write, Changed
    <3>2. ASSUME NEW t \in Callback, StepCallback(t)
          PROVE  UNCHANGED <<snap, startup, fresh, state>>
      BY <3>2 DEF StepCallback, TimerFires, CallbackStale, CallbackLater, CallbackEvaluates
    <3>3. ASSUME NEW t \in Thread, Completed(t) \/ CallHook(t)
          PROVE  UNCHANGED <<snap, startup, fresh, state>>
      BY <3>3 DEF Completed, CallHook
    <3>4. CASE NotifyEnded \/ Silence \/ UNCHANGED statusVars
      BY <3>4 DEF NotifyEnded, Silence, statusVars
    <3>5. CASE Tick
      BY <3>5 DEF Tick, StatusState
    <3>. QED
      BY <1>3, <3>1, <3>2, <3>3, <3>4, <3>5 DEF StatusNext, Progress, Step
  <2>. QED
    BY <2>1, <2>2 DEF CompletionStands, KeptReading
<1>. QED
  BY <1>1, <1>2, <1>3

\* Between two completions the snapshot has changed, however many evaluations are made
\* meanwhile (the ready edge of emitStatusWithHash), if no goroutine is half the delay
\* behind. Without that it is not so: a goroutine that is delayed between its reading and
\* its advance makes the pane running once more.
THEOREM CompletedOnce ==
    ASSUME 2 * MaxLag < Delay
    PROVE  StatusSpec => OneCompletionPerActivity
<1>1. StatusInit => CompletionStands
  BY DEF StatusInit, CompletionStands
<1>2. StatusInv /\ CompletionStands /\ [StatusNext]_statusVars => CompletionStands'
  BY StandsStep
<1>3. StatusInv /\ CompletionStands /\ [StatusNext]_statusVars =>
         [\A t \in Thread :
             thread[t].pc = "advance" /\ thread'[t].pc = "complete" => fresh]_statusVars
  BY OnlyEvaluationCompletes, CompletionIsDue DEF CompletionStands
<1>. QED
  BY <1>1, <1>2, <1>3, StatusInvariant, PTL DEF StatusSpec, OneCompletionPerActivity

--------------------------------------------------------------------------------
(* ProjectManager: the greatest of a set of places.                             *)

\* A set of numbers that is bounded and not empty has a greatest member, and Max
\* chooses it.
LEMMA MaxIs ==
    ASSUME NEW n \in Nat, NEW S, S \subseteq 0..n, S # {}
    PROVE  Max(S) \in S /\ \A m \in S : m <= Max(S)
<1> DEFINE T == {n - i : i \in S}
<1>1. T \subseteq Nat /\ T # {}
  <2>1. \A i \in S : n - i \in Nat
    OBVIOUS
  <2>2. PICK i \in S : TRUE
    OBVIOUS
  <2>3. n - i \in T
    OBVIOUS
  <2>. QED
    BY <2>1, <2>3
<1>2. PICK x \in T : \A y \in T : ~ (<<y, x>> \in OpToRel(<, Nat))
  BY <1>1, NatLessThanWellFounded, WFMin
<1>3. \A y \in T : ~ (y < x)
  BY <1>1, <1>2 DEF OpToRel
<1>4. PICK i \in S : x = n - i
  OBVIOUS
<1>5. \A j \in S : i >= j
  <2>1. \A j \in S : n - j \in T
    OBVIOUS
  <2>. QED
    BY <1>3, <1>4, <2>1, SMTT(30)
<1>6. Max(S) \in S /\ \A j \in S : Max(S) >= j
  BY <1>4, <1>5 DEF Max
<1>. QED
  BY <1>6

--------------------------------------------------------------------------------
(* The history of a turn.                                                       *)

\* Of a set of messages the newest k are shown: one that is not shown has as many
\* newer ones that are.
LEMMA NewestShown ==
    ASSUME NEW n \in Nat, NEW said, said \subseteq 1..n, NEW k \in Nat, NEW i \in said
    PROVE  LET newest == {x \in said : Cardinality({j \in said : j > x}) < k}
           IN  i \in newest \/ Cardinality({j \in newest : j > i}) >= k
<1>. DEFINE Above(x) == {j \in said : j > x}
            newest == {x \in said : Cardinality(Above(x)) < k}
            top == {j \in newest : j > i}
<1>1. IsFiniteSet(said)
  <2>1. IsFiniteSet(1..n)
    BY FS_Interval
  <2>. QED
    BY <2>1, FS_Subset
<1>2. \A x : IsFiniteSet(Above(x)) /\ Cardinality(Above(x)) \in Nat
  BY <1>1, FS_Subset, FS_CardinalityType
<1>3. IsFiniteSet(top) /\ Cardinality(top) \in Nat
  BY <1>1, FS_Subset, FS_CardinalityType
<1>. SUFFICES ASSUME i \notin newest, ~ (Cardinality(top) >= k) PROVE FALSE
  OBVIOUS
<1>4. Cardinality(Above(i)) >= k
  BY <1>2
<1>5. top # Above(i)
  BY <1>4
<1>6. top \subseteq Above(i)
  OBVIOUS
<1>. DEFINE rest == Above(i) \ top
            m == Max(rest)
<1>7. rest \subseteq 0..n /\ rest # {}
  <2>1. said \subseteq 0..n
    OBVIOUS
  <2>. QED
    BY <1>5, <1>6, <2>1
<1>8. m \in rest /\ \A x \in rest : x <= m
  BY <1>7, MaxIs
<1>. HIDE DEF m
<1>9. Above(m) \subseteq top
  <2>. SUFFICES ASSUME NEW x \in said, x > m PROVE x \in top
    OBVIOUS
  <2>1. m \in 1..n /\ x \in 1..n /\ i \in 1..n /\ m > i
    BY <1>8
  <2>2. x \in Above(i) /\ ~ (x <= m)
    BY <2>1
  <2>. QED
    BY <1>8, <2>2
<1>10. Cardinality(Above(m)) <= Cardinality(top)
  BY <1>3, <1>9, FS_Subset
<1>11. m \in newest
  BY <1>2, <1>3, <1>8, <1>10
<1>. QED
  BY <1>8, <1>11

--------------------------------------------------------------------------------
(* What is said and what was told.                                              *)

\* The places of a call in a sequence with one entry more.
LEMMA CallsOfAppend ==
    ASSUME NEW S, NEW seq \in Seq(S), NEW ev \in S, NEW c
    PROVE  /\ Append(seq, ev) \in Seq(S) /\ Len(Append(seq, ev)) = Len(seq) + 1
           /\ Append(seq, ev)[Len(seq) + 1] = ev
           /\ \A k \in Calls(seq, c) : k \in 1..Len(seq) /\ Append(seq, ev)[k] = seq[k]
           /\ Calls(Append(seq, ev), c) =
                 IF ev.call = c THEN Calls(seq, c) \cup {Len(seq) + 1} ELSE Calls(seq, c)
<1>1. /\ Append(seq, ev) \in Seq(S) /\ Len(Append(seq, ev)) = Len(seq) + 1
      /\ \A k \in 1..Len(seq) : Append(seq, ev)[k] = seq[k]
      /\ Append(seq, ev)[Len(seq) + 1] = ev
  BY AppendProperties
<1>2. Len(seq) \in Nat
  OBVIOUS
<1>. QED
  BY <1>1, <1>2 DEF Calls

\* What sequences hold, one element more.
LEMMA RangeOfAppend ==
    ASSUME NEW S, NEW seq \in Seq(S), NEW ev \in S
    PROVE  Range(Append(seq, ev)) = Range(seq) \cup {ev}
<1>1. /\ Append(seq, ev) \in Seq(S) /\ Len(Append(seq, ev)) = Len(seq) + 1
      /\ \A k \in 1..Len(seq) : Append(seq, ev)[k] = seq[k]
      /\ Append(seq, ev)[Len(seq) + 1] = ev
  BY AppendProperties
<1>2. Len(seq) \in Nat /\ DOMAIN seq = 1..Len(seq)
      /\ DOMAIN Append(seq, ev) = 1..(Len(seq) + 1)
  BY <1>1
<1>. QED
  BY <1>1, <1>2 DEF Range

\* A tool event is the input or the output of its call.
LEMMA ToolEventIs ==
    ASSUME NEW ev \in ToolEvent
    PROVE  /\ ev.call \in Call \cup {NoCall}
           /\ ev = InputEvent(ev.call) \/ ev = OutputEvent(ev.call)
           /\ ev \in Tool /\ ev.state # ""
<1>1. PICK c \in Call \cup {NoCall} : ev = InputEvent(c) \/ ev = OutputEvent(c)
  BY DEF ToolEvent
<1>2. CASE ev = InputEvent(c)
  BY <1>2 DEF InputEvent, Tool
<1>3. CASE ev = OutputEvent(c)
  BY <1>3 DEF OutputEvent, Tool
<1>. QED
  BY <1>1, <1>2, <1>3

\* The events of a call are what its state is told from.
LEMMA ToolToldOfAppend ==
    ASSUME NEW events \in Seq(ToolEvent), NEW ev \in ToolEvent, NEW c
    PROVE  /\ ev.call # c /\ Calls(events, c) # {} =>
                 ToolTold(Append(events, ev), c) = ToolTold(events, c)
           /\ ev.call = c =>
                 ToolTold(Append(events, ev), c) =
                     [call |-> c, state |-> ev.state,
                      input |-> IF ev.input # "" THEN "input" ELSE ToolTold(events, c).input,
                      output |-> IF ev.output # "" THEN "output"
                                 ELSE ToolTold(events, c).output]
<1>. DEFINE t == Append(events, ev)
<1>1. /\ Len(t) = Len(events) + 1 /\ Len(events) \in Nat
      /\ t[Len(events) + 1] = ev
      /\ \A k \in Calls(events, c) : k \in 1..Len(events) /\ t[k] = events[k]
      /\ Calls(t, c) = IF ev.call = c THEN Calls(events, c) \cup {Len(events) + 1}
                       ELSE Calls(events, c)
  BY CallsOfAppend
<1>2. Range(t) = Range(events) \cup {ev}
  BY RangeOfAppend
<1>3. ev = InputEvent(ev.call) \/ ev = OutputEvent(ev.call)
  BY ToolEventIs
<1>. HIDE DEF t
<1>4. CASE ev.call # c /\ Calls(events, c) # {}
  <2>1. ev # InputEvent(c) /\ ev # OutputEvent(c)
    <3>1. InputEvent(c).call = c /\ OutputEvent(c).call = c
      BY DEF InputEvent, OutputEvent
    <3>. QED
      BY <1>4, <3>1
  <2>2. t[Max(Calls(t, c))].state = events[Max(Calls(events, c))].state
    <3>1. Calls(t, c) = Calls(events, c)
      BY <1>1, <1>4
    <3>2. Calls(events, c) \subseteq 0..Len(events)
      BY <1>1
    <3>3. Max(Calls(events, c)) \in Calls(events, c)
      BY <1>1, <1>4, <3>2, MaxIs
    <3>. QED
      BY <1>1, <3>1, <3>3
  <2>. QED
    BY <1>2, <1>4, <2>1, <2>2 DEF ToolTold, t
<1>5. CASE ev.call = c
  <2>1. Max(Calls(t, c)) = Len(events) + 1
    <3>1. Calls(t, c) \subseteq 0..(Len(events) + 1) /\ Len(events) + 1 \in Calls(t, c)
      BY <1>1, <1>5
    <3>2. /\ Max(Calls(t, c)) \in Calls(t, c)
          /\ \A m \in Calls(t, c) : m <= Max(Calls(t, c))
      BY <1>1, <3>1, MaxIs
    <3>3. Max(Calls(t, c)) \in 0..(Len(events) + 1) /\ Len(events) + 1 <= Max(Calls(t, c))
      BY <3>1, <3>2
    <3>. QED
      BY ONLY <3>3, Len(events) \in Nat
  <2>2. CASE ev = InputEvent(c)
    <3>1. ev # OutputEvent(c) /\ ev.input = "input" /\ ev.output = ""
      BY <2>2 DEF InputEvent, OutputEvent
    <3>. QED
      BY <1>1, <1>2, <1>5, <2>1, <2>2, <3>1 DEF ToolTold, t
  <2>3. CASE ev = OutputEvent(c)
    <3>1. ev # InputEvent(c) /\ ev.output = "output" /\ ev.input = ""
      BY <2>3 DEF InputEvent, OutputEvent
    <3>. QED
      BY <1>1, <1>2, <1>5, <2>1, <2>3, <3>1 DEF ToolTold, t
  <2>. QED
    BY <1>3, <1>5, <2>2, <2>3
<1>. QED
  BY <1>4, <1>5 DEF t

\* Merging a patch keeps the shape of a tool state.
LEMMA MergeIs ==
    ASSUME NEW tool \in Tool, NEW ev \in ToolEvent, ev.call = tool.call
    PROVE  /\ MergeToolStatePatch(tool, ev) \in Tool
           /\ MergeToolStatePatch(tool, ev).call = tool.call
           /\ MergeToolStatePatch(tool, ev) =
                 [call |-> tool.call, state |-> ev.state,
                  input |-> IF ev.input # "" THEN ev.input ELSE tool.input,
                  output |-> IF ev.output # "" THEN ev.output ELSE tool.output]
<1>1. DOMAIN tool = {"call", "state", "input", "output"}
  BY DEF Tool
<1>2. ev.state # ""
  BY ToolEventIs
<1>. DEFINE m == [k \in {"call", "state", "input", "output"} |->
                    IF ev[k] = "" THEN tool[k] ELSE ev[k]]
            r == [call |-> m["call"], state |-> m["state"], input |-> m["input"],
           output |-> m["output"]]
<1>3. MergeToolStatePatch(tool, ev) = m
  BY <1>1 DEF MergeToolStatePatch
<1>4. /\ m["call"] = tool.call /\ m["state"] = ev.state
      /\ m["input"] = IF ev.input # "" THEN ev.input ELSE tool.input
      /\ m["output"] = IF ev.output # "" THEN ev.output ELSE tool.output
  BY <1>2
<1>5. m = r
  <2>1. /\ DOMAIN r = {"call", "state", "input", "output"}
        /\ DOMAIN m = {"call", "state", "input", "output"}
    OBVIOUS
  <2>2. \A k \in {"call", "state", "input", "output"} : m[k] = r[k]
    <3>1. /\ m["call"] = r["call"] /\ m["state"] = r["state"]
          /\ m["input"] = r["input"] /\ m["output"] = r["output"]
      OBVIOUS
    <3>. HIDE DEF m, r
    <3>. QED
      BY <3>1
  <2>. QED
    BY <2>1, <2>2
<1>6. m \in Tool /\ m.call = tool.call
  <2>1. ev \in Tool
    BY ToolEventIs
  <2>2. /\ r.call = tool.call /\ r.state = ev.state
        /\ r.input = IF ev.input # "" THEN ev.input ELSE tool.input
        /\ r.output = IF ev.output # "" THEN ev.output ELSE tool.output
    BY <1>4, <1>5
  <2>3. r \in [call : {r.call}, state : {r.state}, input : {r.input}, output : {r.output}]
    OBVIOUS
  <2>. HIDE DEF m, r
  <2>4. r \in Tool
    BY <2>1, <2>2, <2>3 DEF Tool
  <2>. QED
    BY <1>5, <2>2, <2>4
<1>. HIDE DEF m
<1>. QED
  BY <1>3, <1>4, <1>5, <1>6

\* An event of a known call changes the entry of the call, any other gets an entry.
LEMMA WithEventIs ==
    ASSUME NEW tools \in Seq(Tool), NEW ev \in ToolEvent,
           \A k, l \in Calls(tools, ev.call) : ev.call # NoCall => k = l
    PROVE  /\ ev.call = NoCall \/ Calls(tools, ev.call) = {} =>
                 WithEvent(tools, ev) = Append(tools, ev)
           /\ \A k \in Calls(tools, ev.call) : ev.call # NoCall =>
                 /\ k \in 1..Len(tools) /\ tools[k] \in Tool /\ tools[k].call = ev.call
                 /\ WithEvent(tools, ev) =
                       [tools EXCEPT ![k] = MergeToolStatePatch(tools[k], ev)]
<1>. DEFINE index == {i \in DOMAIN tools : ev.call # NoCall /\ tools[i].call = ev.call}
<1>1. index = IF ev.call = NoCall THEN {} ELSE Calls(tools, ev.call)
  BY DEF Calls
<1>2. WithEvent(tools, ev) =
         IF index = {} THEN Append(tools, ev)
         ELSE [tools EXCEPT ![Max(index)] = MergeToolStatePatch(@, ev)]
  BY DEF WithEvent
<1>. HIDE DEF index
<1>3. ASSUME NEW k \in Calls(tools, ev.call), ev.call # NoCall
      PROVE  /\ k \in 1..Len(tools) /\ tools[k] \in Tool /\ tools[k].call = ev.call
             /\ WithEvent(tools, ev) =
                   [tools EXCEPT ![k] = MergeToolStatePatch(tools[k], ev)]
  <2>1. k \in 1..Len(tools) /\ tools[k].call = ev.call
    BY DEF Calls
  <2>2. tools[k] \in Tool
    BY <2>1, ElementOfSeq
  <2>3. index = {k} /\ {k} \subseteq 0..Len(tools)
    <3>1. index = Calls(tools, ev.call)
      BY <1>1, <1>3
    <3>2. \A l \in Calls(tools, ev.call) : l = k
      BY <1>3
    <3>3. index = {k}
      BY <3>1, <3>2, <1>3
    <3>4. Len(tools) \in Nat
      OBVIOUS
    <3>. QED
      BY <2>1, <3>3, <3>4
  <2>4. Max(index) = k
    <3>1. Len(tools) \in Nat /\ {k} # {}
      OBVIOUS
    <3>2. Max({k}) \in {k}
      BY <2>3, <3>1, MaxIs
    <3>. QED
      BY <2>3, <3>2
  <2>5. [tools EXCEPT ![Max(index)] = MergeToolStatePatch(@, ev)] =
        [tools EXCEPT ![k] = MergeToolStatePatch(tools[k], ev)]
    BY <2>4
  <2>. QED
    BY <1>2, <2>1, <2>2, <2>3, <2>5
<1>. QED
  BY <1>1, <1>2, <1>3

\* What is said of a call keeps up with the events, and its shape.
LEMMA CallTellsOn ==
    ASSUME NEW tools \in Seq(Tool), NEW events \in Seq(ToolEvent), NEW ev \in ToolEvent,
           NEW c \in Call, CallTold(tools, events, c), ev.call = c
    PROVE  CallTold(WithEvent(tools, ev), Append(events, ev), c)
<1>. DEFINE e == Append(events, ev)
            w == WithEvent(tools, ev)
<1>1. c # NoCall /\ ev \in Tool
  BY ProjectManagerAssumption, ToolEventIs
<1>2. /\ \A k, l \in Calls(tools, c) : k = l
      /\ Calls(tools, c) = {} <=> Calls(events, c) = {}
      /\ \A k \in Calls(tools, c) : tools[k] = ToolTold(events, c)
  BY DEF CallTold
<1>3. Calls(e, c) = Calls(events, c) \cup {Len(events) + 1}
  BY CallsOfAppend
<1>4. ToolTold(e, c) =
         [call |-> c, state |-> ev.state,
          input |-> IF ev.input # "" THEN "input" ELSE ToolTold(events, c).input,
          output |-> IF ev.output # "" THEN "output" ELSE ToolTold(events, c).output]
  BY ToolToldOfAppend
<1>5. ev = InputEvent(c) \/ ev = OutputEvent(c)
  BY ToolEventIs
<1>6. /\ ev.call = c /\ ev.input \in {"", "input"} /\ ev.output \in {"", "output"}
      /\ ev = [call |-> c, state |-> ev.state, input |-> ev.input, output |-> ev.output]
  <2>1. CASE ev = InputEvent(c)
    <3>1. ev.call = c /\ ev.state = "input-available" /\ ev.input = "input" /\ ev.output = ""
      BY ONLY <2>1 DEF InputEvent
    <3>2. ev = [call |-> c, state |-> "input-available", input |-> "input", output |-> ""]
      BY ONLY <2>1 DEF InputEvent
    <3>. QED
      BY <3>1, <3>2
  <2>2. CASE ev = OutputEvent(c)
    <3>1. ev.call = c /\ ev.state = "output-available" /\ ev.input = "" /\ ev.output = "output"
      BY ONLY <2>2 DEF OutputEvent
    <3>2. ev = [call |-> c, state |-> "output-available", input |-> "", output |-> "output"]
      BY ONLY <2>2 DEF OutputEvent
    <3>. QED
      BY <3>1, <3>2
  <2>. QED
    BY <1>5, <2>1, <2>2
<1>7. CASE Calls(tools, c) = {}
  <2>1. w = Append(tools, ev)
    BY <1>7, WithEventIs
  <2>2. Calls(w, c) = {Len(tools) + 1} /\ w[Len(tools) + 1] = ev
    BY <1>1, <1>7, <2>1, CallsOfAppend
  <2>3. Calls(events, c) = {}
    BY <1>2, <1>7
  <2>4. \A k \in DOMAIN events : events[k].call # c
    BY <2>3 DEF Calls
  <2>5. InputEvent(c) \notin Range(events) /\ OutputEvent(c) \notin Range(events)
    <3>1. InputEvent(c).call = c /\ OutputEvent(c).call = c
      BY DEF InputEvent, OutputEvent
    <3>. QED
      BY <2>4, <3>1 DEF Range
  <2>6. ToolTold(events, c).input = "" /\ ToolTold(events, c).output = ""
    BY <2>5 DEF ToolTold
  <2>7. ToolTold(e, c) = ev
    BY <1>4, <1>6, <2>6
  <2>. HIDE DEF w, e
  <2>8. Calls(e, c) # {}
    BY <1>3
  <2>9. CallTold(w, e, c)
    BY <2>2, <2>7, <2>8 DEF CallTold
  <2>. QED
    BY <2>9 DEF w, e
<1>8. CASE Calls(tools, c) # {}
  <2>1. PICK k \in Calls(tools, c) : TRUE
    BY <1>8
  <2>2. /\ k \in 1..Len(tools) /\ tools[k] \in Tool /\ tools[k].call = c
        /\ w = [tools EXCEPT ![k] = MergeToolStatePatch(tools[k], ev)]
    BY <1>1, <1>2, <2>1, WithEventIs
  <2>3. tools[k] = ToolTold(events, c)
    BY <1>2, <2>1
  <2>4. MergeToolStatePatch(tools[k], ev) = ToolTold(e, c)
    <3>1. MergeToolStatePatch(tools[k], ev) =
              [call |-> tools[k].call, state |-> ev.state,
               input |-> IF ev.input # "" THEN ev.input ELSE tools[k].input,
               output |-> IF ev.output # "" THEN ev.output ELSE tools[k].output]
      BY <2>2, MergeIs, ZenonT(60)
    <3>. HIDE DEF e
    <3>. QED
      BY <1>4, <1>6, <2>2, <2>3, <3>1
  <2>5. ToolTold(e, c).call = c
    BY DEF ToolTold
  <2>. HIDE DEF w, e
  <2>6. DOMAIN w = DOMAIN tools /\ w[k] = ToolTold(e, c)
        /\ \A l \in DOMAIN tools : l # k => w[l] = tools[l]
    BY <2>2, <2>4
  <2>7. Calls(w, c) = Calls(tools, c)
    BY <2>1, <2>2, <2>5, <2>6 DEF Calls
  <2>8. CallTold(w, e, c)
    BY <1>2, <1>3, <2>1, <2>6, <2>7 DEF CallTold
  <2>. QED
    BY <2>8 DEF w, e
<1>. QED
  BY <1>7, <1>8

\* The entries of other calls stay.
LEMMA OtherEntriesStay ==
    ASSUME NEW tools \in Seq(Tool), NEW ev \in ToolEvent, NEW c, ev.call # c,
           \A k, l \in Calls(tools, ev.call) : ev.call # NoCall => k = l
    PROVE  /\ Calls(WithEvent(tools, ev), c) = Calls(tools, c)
           /\ \A k \in Calls(tools, c) : WithEvent(tools, ev)[k] = tools[k]
<1>. DEFINE w == WithEvent(tools, ev)
<1>0. ev \in Tool
  BY ToolEventIs
<1>1. CASE ev.call = NoCall \/ Calls(tools, ev.call) = {}
  <2>1. w = Append(tools, ev)
    BY <1>1, WithEventIs
  <2>. QED
    BY <1>0, <2>1, CallsOfAppend
<1>2. CASE ev.call # NoCall /\ Calls(tools, ev.call) # {}
  <2>1. PICK k \in Calls(tools, ev.call) : TRUE
    BY <1>2
  <2>2. /\ k \in 1..Len(tools) /\ tools[k] \in Tool /\ tools[k].call = ev.call
        /\ w = [tools EXCEPT ![k] = MergeToolStatePatch(tools[k], ev)]
    BY <1>2, <2>1, WithEventIs
  <2>3. MergeToolStatePatch(tools[k], ev).call = ev.call
    BY <2>2, MergeIs
  <2>. HIDE DEF w
  <2>4. DOMAIN w = DOMAIN tools /\ w[k] = MergeToolStatePatch(tools[k], ev)
        /\ \A l \in DOMAIN tools : l # k => w[l] = tools[l]
    BY <2>2
  <2>5. Calls(w, c) = Calls(tools, c) /\ \A l \in Calls(tools, c) : w[l] = tools[l]
    BY <2>2, <2>3, <2>4 DEF Calls
  <2>. QED
    BY <2>5 DEF w
<1>. QED
  BY <1>1, <1>2

\* What is said of another call stays.
LEMMA OtherCallTellsOn ==
    ASSUME NEW tools \in Seq(Tool), NEW events \in Seq(ToolEvent), NEW ev \in ToolEvent,
           NEW c \in Call, CallTold(tools, events, c), ev.call # c,
           \A k, l \in Calls(tools, ev.call) : ev.call # NoCall => k = l
    PROVE  CallTold(WithEvent(tools, ev), Append(events, ev), c)
<1>. DEFINE e == Append(events, ev)
            w == WithEvent(tools, ev)
<1>1. Calls(e, c) = Calls(events, c)
  BY CallsOfAppend
<1>2. Calls(tools, c) # {} => ToolTold(e, c) = ToolTold(events, c)
  BY ToolToldOfAppend DEF CallTold
<1>3. Calls(w, c) = Calls(tools, c) /\ \A k \in Calls(tools, c) : w[k] = tools[k]
  BY OtherEntriesStay
<1>. HIDE DEF w, e
<1>4. CallTold(w, e, c)
  BY <1>1, <1>2, <1>3 DEF CallTold
<1>. QED
  BY <1>4 DEF w, e

\* A tool state with an event merged into it is one.
LEMMA WithEventTyped ==
    ASSUME NEW tools \in Seq(Tool), NEW ev \in ToolEvent,
           \A k, l \in Calls(tools, ev.call) : ev.call # NoCall => k = l
    PROVE  WithEvent(tools, ev) \in Seq(Tool)
<1>1. ev \in Tool
  BY ToolEventIs
<1>2. CASE ev.call = NoCall \/ Calls(tools, ev.call) = {}
  BY <1>1, <1>2, WithEventIs, AppendProperties
<1>3. CASE ev.call # NoCall /\ Calls(tools, ev.call) # {}
  <2>1. PICK k \in Calls(tools, ev.call) : TRUE
    BY <1>3
  <2>2. /\ k \in 1..Len(tools) /\ tools[k] \in Tool /\ tools[k].call = ev.call
        /\ WithEvent(tools, ev) = [tools EXCEPT ![k] = MergeToolStatePatch(tools[k], ev)]
    BY <1>3, <2>1, WithEventIs
  <2>3. MergeToolStatePatch(tools[k], ev) \in Tool
    BY <2>2, MergeIs
  <2>. QED
    BY <2>2, <2>3, ExceptSeq
<1>. QED
  BY <1>2, <1>3

\* Events without an id: one more of them gets one entry more.
LEMMA OthersTellOn ==
    ASSUME NEW tools \in Seq(Tool), NEW events \in Seq(ToolEvent), NEW ev \in ToolEvent,
           OthersTold(tools, events),
           \A k, l \in Calls(tools, ev.call) : ev.call # NoCall => k = l
    PROVE  OthersTold(WithEvent(tools, ev), Append(events, ev))
<1>. DEFINE e == Append(events, ev)
            w == WithEvent(tools, ev)
            C(seq) == Calls(seq, NoCall)
<1>1. ev \in Tool
  BY ToolEventIs
<1>2. PICK f \in [C(tools) -> C(events)] :
        /\ \A x \in C(events) : \E k \in C(tools) : f[k] = x
        /\ \A k, l \in C(tools) : k < l => f[k] < f[l]
        /\ \A k \in C(tools) : tools[k] = events[f[k]]
  BY DEF OthersTold
<1>3. CASE ev.call # NoCall
  <2>1. C(e) = C(events) /\ \A x \in C(events) : e[x] = events[x]
    BY <1>3, CallsOfAppend
  <2>2. C(w) = C(tools) /\ \A k \in C(tools) : w[k] = tools[k]
    BY <1>3, OtherEntriesStay
  <2>. HIDE DEF w, e
  <2>3. \A k \in C(w) : w[k] = e[f[k]]
    BY <1>2, <2>1, <2>2
  <2>4. f \in [C(w) -> C(e)]
    BY <1>2, <2>1, <2>2
  <2>5. OthersTold(w, e)
    BY <1>2, <2>1, <2>2, <2>3, <2>4 DEF OthersTold
  <2>. QED
    BY <2>5 DEF w, e
<1>4. CASE ev.call = NoCall
  <2>. DEFINE m == Len(tools) + 1
              n == Len(events) + 1
  <2>1. w = Append(tools, ev)
    BY <1>4, WithEventIs
  <2>2. /\ C(e) = C(events) \cup {n} /\ e[n] = ev
        /\ \A x \in C(events) : x \in 1..Len(events) /\ e[x] = events[x]
    BY <1>4, CallsOfAppend
  <2>3. /\ C(w) = C(tools) \cup {m} /\ w[m] = ev
        /\ \A k \in C(tools) : k \in 1..Len(tools) /\ w[k] = tools[k]
    BY <1>1, <1>4, <2>1, CallsOfAppend
  <2>4. Len(tools) \in Nat /\ Len(events) \in Nat
    OBVIOUS
  <2>. DEFINE g == [k \in C(w) |-> IF k = m THEN n ELSE f[k]]
  <2>5. m \notin C(tools) /\ n \notin C(events)
    BY <2>2, <2>3, <2>4
  <2>6. g[m] = n /\ \A k \in C(tools) : g[k] = f[k] /\ f[k] \in C(events)
    BY <1>2, <2>3, <2>5
  <2>7. g \in [C(w) -> C(e)]
    BY <1>2, <2>2, <2>3, <2>5
  <2>. HIDE DEF g, w, e
  <2>8. \A x \in C(e) : \E k \in C(w) : g[k] = x
    BY <1>2, <2>2, <2>3, <2>6
  <2>9. \A k, l \in C(w) : k < l => g[k] < g[l]
    <3>. SUFFICES ASSUME NEW k \in C(w), NEW l \in C(w), k < l PROVE g[k] < g[l]
      OBVIOUS
    <3>1. k \in C(tools)
      BY <2>3, <2>4
    <3>2. CASE l = m
      <4>1. g[k] \in 1..Len(events) /\ g[l] = n
        BY <2>2, <2>6, <3>1, <3>2
      <4>. QED
        BY <2>4, <4>1
    <3>3. CASE l \in C(tools)
      BY <1>2, <2>6, <3>1, <3>3
    <3>. QED
      BY <2>3, <3>2, <3>3
  <2>10. \A k \in C(w) : w[k] = e[g[k]]
    BY <1>2, <2>2, <2>3, <2>6
  <2>11. OthersTold(w, e)
    BY <2>7, <2>8, <2>9, <2>10 DEF OthersTold
  <2>. QED
    BY <2>11 DEF w, e
<1>. QED
  BY <1>3, <1>4

\* What is said tells what was told, one event after the other.
LEMMA TellsOn ==
    ASSUME NEW tools \in Seq(Tool), NEW events \in Seq(ToolEvent), NEW ev \in ToolEvent,
           Tells(tools, events)
    PROVE  /\ Tells(WithEvent(tools, ev), Append(events, ev))
           /\ WithEvent(tools, ev) \in Seq(Tool)
<1>1. ev.call \in Call \cup {NoCall}
  BY ToolEventIs
<1>2. \A k, l \in Calls(tools, ev.call) : ev.call # NoCall => k = l
  BY <1>1 DEF Tells, CallTold
<1>3. ASSUME NEW c \in Call
      PROVE  CallTold(WithEvent(tools, ev), Append(events, ev), c)
  <2>1. CallTold(tools, events, c)
    BY DEF Tells
  <2>. QED
    BY <1>2, <2>1, CallTellsOn, OtherCallTellsOn
<1>4. OthersTold(WithEvent(tools, ev), Append(events, ev))
  BY <1>2, OthersTellOn DEF Tells
<1>5. WithEvent(tools, ev) \in Seq(Tool)
  BY <1>2, WithEventTyped
<1>. QED
  BY <1>3, <1>4, <1>5 DEF Tells

\* Nothing tells of nothing.
LEMMA SilenceTells == Tells(<< >>, << >>)
<1>1. \A c : Calls(<< >>, c) = {}
  BY DEF Calls
<1>2. \A c \in Call : CallTold(<< >>, << >>, c)
  BY <1>1 DEF CallTold
<1>3. OthersTold(<< >>, << >>)
  <2>. DEFINE f == [k \in {} |-> 0]
  <2>1. f \in [{} -> {}]
    OBVIOUS
  <2>. QED
    BY <1>1, <2>1 DEF OthersTold
<1>. QED
  BY <1>2, <1>3 DEF Tells

--------------------------------------------------------------------------------
(* Types.                                                                       *)

\* The constants are numbers.
LEMMA Constants ==
    /\ MaxTurns \in Nat /\ MaxReports \in Nat /\ MaxFaults \in Nat
    /\ ListLimit \in Nat /\ HistoryMax \in Nat
    /\ Turn \subseteq Nat \ {0} /\ NoTurn \in 0..MaxTurns /\ Turn \subseteq 0..MaxTurns
  BY ProjectManagerAssumption DEF Turn, NoTurn

\* What TypeOK says of one session.
LEMMA SessionTyped ==
    ASSUME TypeOK, NEW s \in Session
    PROVE  /\ log[s] \in Seq(Turn) /\ Len(log[s]) \in Nat
           /\ started[s] \in Nat /\ finished[s] \in Nat
           /\ finished[s] <= started[s] /\ started[s] <= Len(log[s])
           /\ rows[s] \in Seq(Message) /\ Len(rows[s]) \in Nat
           /\ DOMAIN rows[s] = 1..Len(rows[s]) /\ DOMAIN log[s] = 1..Len(log[s])
           /\ \A i \in DOMAIN rows[s] : rows[s][i] \in Message
           /\ \A p \in DOMAIN log[s] : log[s][p] \in Turn
           /\ handler[s] \in Handler /\ handler[s].row <= Len(rows[s])
<1>1. log[s] \in Seq(Turn) /\ rows[s] \in Seq(Message) /\ handler[s] \in Handler
  BY DEF TypeOK
<1>2. /\ started[s] \in Nat /\ finished[s] \in Nat
      /\ finished[s] <= started[s] /\ started[s] <= Len(log[s])
      /\ handler[s].row <= Len(rows[s])
  BY DEF TypeOK
<1>. QED
  BY <1>1, <1>2, ElementOfSeq

\* The fields of a handler.
LEMMA HandlerTyped ==
    ASSUME NEW h \in Handler
    PROVE  /\ h.pc \in {"none", "check", "read", "user", "assistant", "run", "settle", "return"}
           /\ h.row \in Nat /\ h.prev \in 0..MaxTurns /\ h.stream \in Said
           /\ h.told \in Seq(ToolEvent) /\ h.flushed \in BOOLEAN
           /\ h.out \in {"none", "reply", "blank", "error"}
           /\ h.stream.text \in Text /\ h.stream.tools \in Seq(Tool)
  BY DEF Handler, Said

\* The fields of a row.
LEMMA MessageTyped ==
    ASSUME NEW m \in Message
    PROVE  /\ m.turn \in Turn /\ m.role \in {"user", "assistant"}
           /\ m.status \in {"running", "completed", "failed"}
           /\ m.said \in Said /\ m.resp \in 0..MaxTurns /\ m.prev \in 0..MaxTurns
           /\ m.told.text \in Text /\ m.told.events \in Seq(ToolEvent)
           /\ m.said.text \in Text /\ m.said.tools \in Seq(Tool)
  BY DEF Message, Said

\* The handler's turn is one of the log, the last begun, and was posted.
LEMMA CurrentIs ==
    ASSUME TypeOK, NEW s \in Session, SessionInv(s), ~ At(s, "none")
    PROVE  /\ started[s] = finished[s] + 1 /\ started[s] \in 1..Len(log[s])
           /\ Current(s) \in Turn /\ Current(s) = log[s][started[s]]
           /\ history[Current(s)] # NotPosted
           /\ \A p \in DOMAIN log[s] : p <= started[s] => log[s][p] <= Current(s)
           /\ \A i \in DOMAIN rows[s] : rows[s][i].turn <= Current(s)
<1>1. started[s] = finished[s] + 1
  BY DEF SessionInv, HandlerInStep
<1>2. started[s] \in 1..Len(log[s])
  BY <1>1, SessionTyped
<1>3. Current(s) = log[s][started[s]] /\ Current(s) \in Turn
  BY <1>2, SessionTyped DEF Current
<1>4. history[Current(s)] # NotPosted
  BY <1>2, <1>3, SessionTyped DEF SessionInv, LogInOrder
<1>5. ASSUME NEW p \in DOMAIN log[s], p <= started[s] PROVE log[s][p] <= Current(s)
  <2>1. CASE p = started[s]
    <3>1. Current(s) \in Nat
      BY <1>3, Constants
    <3>. QED
      BY <1>3, <2>1, <3>1
  <2>2. CASE p < started[s]
    <3>1. log[s][p] < log[s][started[s]]
      BY <1>2, <2>2, SessionTyped DEF SessionInv, LogInOrder
    <3>2. log[s][p] \in Nat /\ Current(s) \in Nat
      BY <1>3, <1>5, SessionTyped, Constants
    <3>. QED
      BY <1>3, <3>1, <3>2
  <2>3. p \in Nat /\ started[s] \in Nat
    BY SessionTyped
  <2>. QED
    BY <1>5, <2>1, <2>2, <2>3
<1>6. ASSUME NEW i \in DOMAIN rows[s] PROVE rows[s][i].turn <= Current(s)
  <2>1. rows[s][i].turn \in Nat /\ Current(s) \in Nat
    BY <1>3, SessionTyped, MessageTyped, Constants
  <2>2. CASE \E p \in 1..started[s] : rows[s][i].turn = log[s][p]
    <3>1. PICK p \in 1..started[s] : rows[s][i].turn = log[s][p]
      BY <2>2
    <3>2. p \in DOMAIN log[s] /\ p <= started[s]
      BY <1>2, <3>1, SessionTyped
    <3>. QED
      BY <1>5, <3>1, <3>2
  <2>3. CASE \A p \in DOMAIN log[s] : rows[s][i].turn < log[s][p]
    <3>1. rows[s][i].turn < Current(s)
      BY <1>2, <1>3, <2>3, SessionTyped
    <3>. QED
      BY <2>1, <3>1
  <2>. QED
    BY <1>6, <2>2, <2>3 DEF SessionInv, RowsOfTurns
<1>. QED
  BY <1>1, <1>2, <1>3, <1>4, <1>5, <1>6

\* A handler that writes to a row has a row to write to.
LEMMA OwnRowIs ==
    ASSUME TypeOK, NEW s \in Session, NEW role, OwnRow(s, role)
    PROVE  /\ handler[s].row = Len(rows[s]) /\ Len(rows[s]) \in DOMAIN rows[s]
           /\ rows[s][Len(rows[s])] \in Message
           /\ rows[s][Len(rows[s])].role = role /\ rows[s][Len(rows[s])].turn = Current(s)
<1>1. handler[s].row = Len(rows[s]) /\ rows[s] # << >>
      /\ rows[s][Len(rows[s])].role = role /\ rows[s][Len(rows[s])].turn = Current(s)
  BY DEF OwnRow
<1>2. rows[s] \in Seq(Message) /\ DOMAIN rows[s] = 1..Len(rows[s]) /\ Len(rows[s]) \in Nat
  BY SessionTyped
<1>3. Len(rows[s]) # 0
  BY <1>1, <1>2, EmptySeq
<1>. QED
  BY <1>1, <1>2, <1>3, SessionTyped

--------------------------------------------------------------------------------
(* Steps that leave a session alone.                                            *)

\* Turns that were posted stay so, and spoiled ones.
Onwards ==
    /\ \A e \in Turn : history[e] # NotPosted => history'[e] # NotPosted
    /\ spoiled \subseteq spoiled'

\* What is settled stays settled while the rows stay.
LEMMA SettledStays ==
    ASSUME NEW s \in Session, rows'[s] = rows[s]
    PROVE  \A e : Settled(s, e)' <=> Settled(s, e)
  BY DEF Settled

\* Nothing of a session has changed but what other sessions can do to it.
LEMMA SessionAsBefore ==
    ASSUME TypeOK, NEW s \in Session, SessionInv(s), Onwards,
           log'[s] = log[s], started'[s] = started[s], finished'[s] = finished[s],
           rows'[s] = rows[s], handler'[s] = handler[s]
    PROVE  SessionInv(s)'
<1>. USE DEF Onwards
<1>1. \A p \in DOMAIN log[s] : log[s][p] \in Turn
  BY SessionTyped
<1>2. \A i \in DOMAIN rows[s] : rows[s][i].turn \in Turn
  BY SessionTyped, MessageTyped
<1>3. LogInOrder(s)'
  BY <1>1 DEF SessionInv, LogInOrder
<1>4. Current(s)' = Current(s) /\ \A pc : At(s, pc)' <=> At(s, pc)
  BY DEF Current, At
<1>5. HandlerInStep(s)'
  <2>1. \A role : OwnRow(s, role) => OwnRow(s, role)'
    BY <1>4 DEF OwnRow
  <2>2. Settled(s, Current(s)) => Settled(s, Current(s))'
    BY <1>4, SettledStays DEF Settled
  <2>. QED
    BY <1>4, <2>1, <2>2 DEF SessionInv, HandlerInStep
<1>6. RowsOfTurns(s)'
  BY <1>2 DEF SessionInv, RowsOfTurns
<1>7. Paired(s)'
  BY <1>4 DEF SessionInv, Paired
<1>8. DoneIsSettled(s)'
  BY DEF SessionInv, DoneIsSettled, Settled
<1>9. (\A i \in DOMAIN rows[s] : RowTells(rows[s][i]))'
  BY DEF SessionInv
<1>. QED
  BY <1>3, <1>5, <1>6, <1>7, <1>8, <1>9 DEF SessionInv

\* Steps of the handler itself leave its queue alone.
QueueStays(s) == log'[s] = log[s] /\ started'[s] = started[s] /\ finished'[s] = finished[s]

\* The handler goes on and writes nothing.
LEMMA HandlerGoesOn ==
    ASSUME TypeOK, NEW s \in Session, SessionInv(s), Onwards, QueueStays(s),
           rows'[s] = rows[s],
           ~ At(s, "none"), ~ At(s, "none")',
           At(s, "assistant")' => OwnRow(s, "user")',
           At(s, "run")' \/ At(s, "settle")' => OwnRow(s, "assistant")',
           At(s, "return")' => Current(s) \in spoiled' \/ Settled(s, Current(s)),
           Tells(handler'[s].stream.tools, handler'[s].told),
           At(s, "assistant") => Current(s) \in spoiled'
    PROVE  SessionInv(s)'
<1>. USE DEF Onwards, QueueStays
<1>1. \A p \in DOMAIN log[s] : log[s][p] \in Turn
  BY SessionTyped
<1>2. \A i \in DOMAIN rows[s] : rows[s][i].turn \in Turn
  BY SessionTyped, MessageTyped
<1>3. LogInOrder(s)'
  BY <1>1 DEF SessionInv, LogInOrder
<1>4. Current(s)' = Current(s)
  BY DEF Current
<1>5. HandlerInStep(s)'
  <2>1. Settled(s, Current(s)) => Settled(s, Current(s))'
    BY <1>4 DEF Settled
  <2>2. started'[s] = finished'[s] + 1
    BY DEF SessionInv, HandlerInStep
  <2>. QED
    BY <1>4, <2>1, <2>2 DEF HandlerInStep
<1>6. RowsOfTurns(s)'
  BY <1>2 DEF SessionInv, RowsOfTurns
<1>7. Paired(s)'
  <2>1. ASSUME At(s, "assistant"), NEW i \in DOMAIN rows[s], handler[s].row = i
        PROVE  rows[s][i].turn \in spoiled'
    <3>1. OwnRow(s, "user")
      BY <2>1 DEF SessionInv, HandlerInStep
    <3>2. i = Len(rows[s]) /\ rows[s][i].turn = Current(s)
      BY <2>1, <3>1, OwnRowIs
    <3>. QED
      BY <2>1, <3>2
  <2>. QED
    BY <2>1 DEF SessionInv, Paired
<1>8. DoneIsSettled(s)'
  BY DEF SessionInv, DoneIsSettled, Settled
<1>9. (\A i \in DOMAIN rows[s] : RowTells(rows[s][i]))'
  BY DEF SessionInv
<1>. QED
  BY <1>3, <1>5, <1>6, <1>7, <1>8, <1>9 DEF SessionInv

--------------------------------------------------------------------------------
(* What the invariant implies.                                                  *)

\* A turn stands once in the log of a session.
LEMMA PlaceIs ==
    ASSUME TypeOK, NEW s \in Session, SessionInv(s), NEW q \in DOMAIN log[s]
    PROVE  Place(s, log[s][q]) = q
<1>1. \A p \in DOMAIN log[s] : log[s][p] = log[s][q] => p = q
  <2>. SUFFICES ASSUME NEW p \in DOMAIN log[s], log[s][p] = log[s][q], p # q PROVE FALSE
    OBVIOUS
  <2>1. p \in Nat /\ q \in Nat /\ log[s][p] \in Nat
    <3>1. DOMAIN log[s] = 1..Len(log[s]) /\ Len(log[s]) \in Nat /\ log[s][p] \in Turn
      BY SessionTyped
    <3>2. log[s][p] \in Nat
      BY <3>1, Constants
    <3>. QED
      BY <3>1, <3>2
  <2>2. p < q \/ q < p
    BY <2>1
  <2>3. log[s][p] < log[s][q] \/ log[s][q] < log[s][p]
    BY <2>2 DEF SessionInv, LogInOrder
  <2>. QED
    BY <2>1, <2>3
<1>. QED
  BY <1>1 DEF Place

\* The rows tell the messages in the order of the log.
LEMMA TimelineHolds ==
    ASSUME ManagerInv
    PROVE  TimelineIsLog
<1>. SUFFICES ASSUME NEW s \in Session
              PROVE  \A i, j \in DOMAIN rows[s] : i < j /\ Place(s, rows[s][i].turn) # 0
                        => Place(s, rows[s][i].turn) <= Place(s, rows[s][j].turn)
  BY DEF ManagerInv, SessionInv, TimelineIsLog
<1>1. TypeOK /\ SessionInv(s)
  BY DEF ManagerInv
<1>2. SUFFICES ASSUME NEW i \in DOMAIN rows[s], NEW j \in DOMAIN rows[s], i < j,
                      Place(s, rows[s][i].turn) # 0
               PROVE  Place(s, rows[s][i].turn) <= Place(s, rows[s][j].turn)
  OBVIOUS
<1>3. PICK p \in DOMAIN log[s] : rows[s][i].turn = log[s][p]
  BY <1>2 DEF Place
<1>4. Place(s, rows[s][i].turn) = p /\ p \in Nat
  BY <1>1, <1>3, PlaceIs, SessionTyped
<1>5. rows[s][i].turn <= rows[s][j].turn
  BY <1>1, <1>2 DEF SessionInv, RowsOfTurns
<1>6. rows[s][i].turn \in Nat /\ rows[s][j].turn \in Nat
  BY <1>1, SessionTyped, MessageTyped, Constants
<1>7. \E q \in 1..started[s] : rows[s][j].turn = log[s][q]
  <2>1. ~ (rows[s][j].turn < log[s][p])
    BY <1>3, <1>5, <1>6
  <2>. QED
    BY <1>1, <2>1 DEF SessionInv, RowsOfTurns
<1>8. PICK q \in 1..started[s] : rows[s][j].turn = log[s][q]
  BY <1>7
<1>9. q \in DOMAIN log[s] /\ q \in Nat
  BY <1>1, <1>8, SessionTyped
<1>10. Place(s, rows[s][j].turn) = q
  BY <1>1, <1>8, <1>9, PlaceIs
<1>11. ~ (q < p)
  <2>. SUFFICES ASSUME q < p PROVE FALSE
    OBVIOUS
  <2>1. log[s][q] < log[s][p]
    BY <1>1, <1>9 DEF SessionInv, LogInOrder
  <2>. QED
    BY <1>3, <1>5, <1>6, <1>8, <2>1
<1>. QED
  BY <1>4, <1>9, <1>10, <1>11

--------------------------------------------------------------------------------
(* The queue of a session.                                                      *)

\* A message that is posted now is younger than every one of the log.
LEMMA AcceptKeeps ==
    ASSUME TypeOK, PostedInOrder, NEW s \in Session, SessionInv(s), Onwards,
           NEW e \in Turn, history[e] = NotPosted, history'[e] # NotPosted,
           log'[s] = Append(log[s], e), started'[s] = started[s],
           finished'[s] = finished[s], rows'[s] = rows[s], handler'[s] = handler[s]
    PROVE  SessionInv(s)'
<1>. USE DEF Onwards
<1>. DEFINE n == Len(log[s])
<1>1. /\ Len(log'[s]) = n + 1 /\ n \in Nat /\ log'[s][n + 1] = e
      /\ \A p \in 1..n : log'[s][p] = log[s][p]
      /\ DOMAIN log'[s] = 1..(n + 1) /\ DOMAIN log[s] = 1..n
  <2>1. log[s] \in Seq(Turn)
    BY SessionTyped
  <2>2. /\ log'[s] \in Seq(Turn) /\ Len(log'[s]) = n + 1 /\ log'[s][n + 1] = e
        /\ \A p \in 1..n : log'[s][p] = log[s][p]
    BY <2>1, AppendProperties
  <2>. QED
    BY <2>1, <2>2
<1>2. \A d \in Turn : history[d] # NotPosted => d < e
  <2>. SUFFICES ASSUME NEW d \in Turn, history[d] # NotPosted, ~ (d < e) PROVE FALSE
    OBVIOUS
  <2>1. d # e /\ d \in Nat /\ e \in Nat \ {0}
    BY Constants
  <2>2. e \in 1..(d - 1)
    BY <2>1
  <2>. QED
    BY <2>2 DEF PostedInOrder
<1>3. \A p \in 1..n : log[s][p] \in Turn /\ history[log[s][p]] # NotPosted
  BY <1>1, SessionTyped DEF SessionInv, LogInOrder
<1>4. \A i \in DOMAIN rows[s] : rows[s][i].turn \in Turn /\ history[rows[s][i].turn] # NotPosted
  BY SessionTyped, MessageTyped DEF SessionInv, RowsOfTurns
<1>5. started[s] \in Nat /\ finished[s] \in Nat /\ started[s] <= n /\ finished[s] <= n
  BY SessionTyped
<1>6. LogInOrder(s)'
  <2>1. \A p \in DOMAIN log'[s] : p \in 1..n \/ p = n + 1
    BY <1>1
  <2>2. \A p, q \in DOMAIN log'[s] : p < q => log'[s][p] < log'[s][q]
    <3>. SUFFICES ASSUME NEW p \in DOMAIN log'[s], NEW q \in DOMAIN log'[s], p < q
                  PROVE  log'[s][p] < log'[s][q]
      OBVIOUS
    <3>1. p \in 1..n
      BY <1>1
    <3>2. CASE q \in 1..n
      BY <1>1, <3>1, <3>2 DEF SessionInv, LogInOrder
    <3>3. CASE q = n + 1
      BY <1>1, <1>2, <1>3, <3>1, <3>3
    <3>. QED
      BY <2>1, <3>2, <3>3
  <2>3. \A p \in DOMAIN log'[s] : history'[log'[s][p]] # NotPosted
    BY <1>1, <1>3, <2>1
  <2>. QED
    BY <2>2, <2>3 DEF LogInOrder
<1>7. ~ At(s, "none") => Current(s)' = Current(s)
  <2>1. ~ At(s, "none") => started[s] \in 1..n
    BY CurrentIs
  <2>. QED
    BY <1>1, <2>1 DEF Current
<1>8. \A pc : At(s, pc)' <=> At(s, pc)
  BY DEF At
<1>9. HandlerInStep(s)'
  <2>1. \A role : ~ At(s, "none") /\ OwnRow(s, role) => OwnRow(s, role)'
    BY <1>7 DEF OwnRow
  <2>2. \A p : Settled(s, p) => Settled(s, p)'
    BY DEF Settled
  <2>3. At(s, "return") => Current(s)' \in spoiled' \/ Settled(s, Current(s))'
    <3>1. At(s, "return") => ~ At(s, "none")
      BY DEF At
    <3>. QED
      BY <1>7, <2>2, <3>1 DEF SessionInv, HandlerInStep, Settled
  <2>4. (At(s, "assistant") \/ At(s, "run") \/ At(s, "settle")) => ~ At(s, "none")
    BY DEF At
  <2>. QED
    BY <1>8, <2>1, <2>3, <2>4 DEF SessionInv, HandlerInStep
<1>10. RowsOfTurns(s)'
  <2>1. ASSUME NEW i \in DOMAIN rows[s]
        PROVE  \/ \E p \in 1..started[s] : rows[s][i].turn = log'[s][p]
               \/ \A p \in DOMAIN log'[s] : rows[s][i].turn < log'[s][p]
    <3>1. CASE \E p \in 1..started[s] : rows[s][i].turn = log[s][p]
      BY <1>1, <1>5, <3>1
    <3>2. CASE \A p \in DOMAIN log[s] : rows[s][i].turn < log[s][p]
      <4>1. rows[s][i].turn < e
        BY <1>2, <1>4, <2>1
      <4>. QED
        BY <1>1, <3>2, <4>1
    <3>. QED
      BY <2>1, <3>1, <3>2 DEF SessionInv, RowsOfTurns
  <2>2. \A i \in DOMAIN rows[s] : history'[rows[s][i].turn] # NotPosted
    BY <1>4
  <2>. QED
    BY <2>1, <2>2 DEF SessionInv, RowsOfTurns
<1>11. Paired(s)'
  BY <1>8 DEF SessionInv, Paired
<1>12. DoneIsSettled(s)'
  <2>. SUFFICES ASSUME NEW p \in DOMAIN log'[s], p <= finished[s]
                PROVE  log'[s][p] \in spoiled' \/ Settled(s, log[s][p])
    <3>1. (\A p \in DOMAIN log'[s] : p <= finished[s] =>
               log'[s][p] \in spoiled' \/ Settled(s, log[s][p]))
      OBVIOUS
    <3>2. \A p \in DOMAIN log'[s] : p <= finished[s] => log'[s][p] = log[s][p]
      BY <1>1, <1>5
    <3>. QED
      BY <3>1, <3>2 DEF DoneIsSettled, Settled
  <2>1. p \in 1..n /\ log'[s][p] = log[s][p]
    BY <1>1, <1>5
  <2>. QED
    BY <1>1, <2>1 DEF SessionInv, DoneIsSettled
<1>13. (\A i \in DOMAIN rows[s] : RowTells(rows[s][i]))'
  BY DEF SessionInv
<1>. QED
  BY <1>6, <1>9, <1>10, <1>11, <1>12, <1>13 DEF SessionInv

\* The actor calls the handler for the next message.
LEMMA CalledKeeps ==
    ASSUME TypeOK, NEW s \in Session, SessionInv(s), Onwards,
           started[s] = finished[s], started[s] < Len(log[s]),
           log'[s] = log[s], started'[s] = started[s] + 1, finished'[s] = finished[s],
           rows'[s] = rows[s], handler'[s] = [NoHandler EXCEPT !.pc = "check"]
    PROVE  SessionInv(s)'
<1>. USE DEF Onwards
<1>1. /\ handler'[s].pc = "check" /\ handler'[s].told = << >>
      /\ handler'[s].stream.tools = << >>
  BY DEF NoHandler, NothingSaid, Stream
<1>2. At(s, "none")
  <2>1. started[s] \in Nat /\ finished[s] \in Nat
    BY SessionTyped
  <2>. QED
    BY <2>1 DEF SessionInv, HandlerInStep
<1>3. \A p \in DOMAIN log[s] : log[s][p] \in Turn
  BY SessionTyped
<1>4. \A i \in DOMAIN rows[s] : rows[s][i].turn \in Turn
  BY SessionTyped, MessageTyped
<1>5. LogInOrder(s)'
  BY <1>3 DEF SessionInv, LogInOrder
<1>6. HandlerInStep(s)'
  BY <1>1, SilenceTells DEF HandlerInStep, At
<1>7. RowsOfTurns(s)'
  <2>1. 1..started[s] \subseteq 1..(started[s] + 1)
    BY SessionTyped
  <2>. QED
    BY <1>4, <2>1 DEF SessionInv, RowsOfTurns
<1>8. Paired(s)'
  <2>1. ~ At(s, "assistant")
    BY <1>2 DEF At
  <2>. QED
    BY <2>1 DEF SessionInv, Paired
<1>9. DoneIsSettled(s)'
  BY DEF SessionInv, DoneIsSettled, Settled
<1>10. (\A i \in DOMAIN rows[s] : RowTells(rows[s][i]))'
  BY DEF SessionInv
<1>. QED
  BY <1>5, <1>6, <1>7, <1>8, <1>9, <1>10 DEF SessionInv

\* The handler has returned: its turn is settled, or named as spoiled.
LEMMA ReturnedKeeps ==
    ASSUME TypeOK, NEW s \in Session, SessionInv(s), Onwards,
           At(s, "return"),
           log'[s] = log[s], started'[s] = started[s], finished'[s] = finished[s] + 1,
           rows'[s] = rows[s], handler'[s] = NoHandler
    PROVE  SessionInv(s)'
<1>. USE DEF Onwards
<1>1. /\ handler'[s].pc = "none" /\ handler'[s].told = << >>
      /\ handler'[s].stream.tools = << >>
  BY DEF NoHandler, NothingSaid, Stream
<1>2. ~ At(s, "none") /\ ~ At(s, "assistant")
  BY DEF At
<1>3. started[s] = finished[s] + 1 /\ started[s] \in 1..Len(log[s])
      /\ Current(s) = log[s][started[s]]
  BY <1>2, CurrentIs
<1>4. \A i \in DOMAIN rows[s] : rows[s][i].turn \in Turn
  BY SessionTyped, MessageTyped
<1>5. LogInOrder(s)'
  <2>1. \A p \in DOMAIN log[s] : log[s][p] \in Turn
    BY SessionTyped
  <2>. QED
    BY <2>1 DEF SessionInv, LogInOrder
<1>6. HandlerInStep(s)'
  BY <1>1, <1>3, SilenceTells DEF HandlerInStep, At
<1>7. RowsOfTurns(s)'
  BY <1>4 DEF SessionInv, RowsOfTurns
<1>8. Paired(s)'
  BY <1>2 DEF SessionInv, Paired
<1>9. DoneIsSettled(s)'
  <2>1. ASSUME NEW p \in DOMAIN log[s], p <= finished[s] + 1
        PROVE  log[s][p] \in spoiled' \/ Settled(s, log[s][p])
    <3>1. CASE p <= finished[s]
      BY <2>1, <3>1 DEF SessionInv, DoneIsSettled
    <3>2. CASE p = started[s]
      BY <1>3, <3>2 DEF SessionInv, HandlerInStep
    <3>3. p \in Nat /\ finished[s] \in Nat
      BY SessionTyped
    <3>. QED
      BY <1>3, <2>1, <3>1, <3>2, <3>3
  <2>. QED
    BY <2>1 DEF DoneIsSettled, Settled
<1>10. (\A i \in DOMAIN rows[s] : RowTells(rows[s][i]))'
  BY DEF SessionInv
<1>. QED
  BY <1>5, <1>6, <1>7, <1>8, <1>9, <1>10 DEF SessionInv

--------------------------------------------------------------------------------
(* Rows.                                                                        *)

\* A new row of the handler's turn.
LEMMA InsertKeeps ==
    ASSUME TypeOK, NEW s \in Session, SessionInv(s), Onwards, QueueStays(s),
           NEW row \in Message, row.turn = Current(s),
           rows'[s] = Append(rows[s], row),
           handler'[s].row = Len(rows[s]) + 1,
           handler'[s].stream = handler[s].stream, handler'[s].told = handler[s].told,
           \/ /\ At(s, "user") /\ handler'[s].pc = "assistant"
              /\ row.role = "user" /\ row.status = "completed"
           \/ /\ At(s, "assistant") /\ handler'[s].pc = "run"
              /\ row.role = "assistant" /\ row.status = "running"
    PROVE  SessionInv(s)'
<1>. USE DEF Onwards, QueueStays
<1>. DEFINE n == Len(rows[s])
<1>1. /\ Len(rows'[s]) = n + 1 /\ n \in Nat /\ rows'[s][n + 1] = row
      /\ \A i \in 1..n : rows'[s][i] = rows[s][i]
      /\ DOMAIN rows'[s] = 1..(n + 1) /\ DOMAIN rows[s] = 1..n
      /\ rows'[s] # << >>
  <2>1. rows[s] \in Seq(Message)
    BY SessionTyped
  <2>2. /\ rows'[s] \in Seq(Message) /\ Len(rows'[s]) = n + 1 /\ rows'[s][n + 1] = row
        /\ \A i \in 1..n : rows'[s][i] = rows[s][i]
    BY <2>1, AppendProperties
  <2>. QED
    BY <2>1, <2>2
<1>2. ~ At(s, "none")
  BY DEF At
<1>3. /\ started[s] = finished[s] + 1 /\ started[s] \in 1..Len(log[s])
      /\ Current(s) \in Turn /\ Current(s) = log[s][started[s]]
      /\ history[Current(s)] # NotPosted
      /\ \A i \in DOMAIN rows[s] : rows[s][i].turn <= Current(s)
  BY <1>2, CurrentIs
<1>4. \A i \in 1..n : rows[s][i].turn \in Turn
  BY <1>1, SessionTyped, MessageTyped
<1>5. Current(s)' = Current(s)
  BY DEF Current
<1>6. LogInOrder(s)'
  <2>1. \A p \in DOMAIN log[s] : log[s][p] \in Turn
    BY SessionTyped
  <2>. QED
    BY <2>1 DEF SessionInv, LogInOrder
<1>7. HandlerInStep(s)'
  <2>1. OwnRow(s, row.role)'
    BY <1>1, <1>5 DEF OwnRow
  <2>2. Tells(handler'[s].stream.tools, handler'[s].told)
    BY DEF SessionInv, HandlerInStep
  <2>. QED
    BY <1>3, <2>1, <2>2 DEF HandlerInStep, At
<1>8. RowsOfTurns(s)'
  <2>1. ASSUME NEW i \in 1..(n + 1), NEW j \in 1..(n + 1), i < j
        PROVE  rows'[s][i].turn <= rows'[s][j].turn
    <3>1. i \in 1..n
      BY <1>1, <2>1
    <3>2. CASE j = n + 1
      BY <1>1, <1>3, <3>1, <3>2
    <3>3. CASE j \in 1..n
      BY <1>1, <2>1, <3>1, <3>3 DEF SessionInv, RowsOfTurns
    <3>. QED
      BY <1>1, <3>2, <3>3
  <2>2. ASSUME NEW i \in 1..(n + 1)
        PROVE  /\ history'[rows'[s][i].turn] # NotPosted
               /\ \/ \E p \in 1..started[s] : rows'[s][i].turn = log[s][p]
                  \/ \A p \in DOMAIN log[s] : rows'[s][i].turn < log[s][p]
    <3>1. CASE i = n + 1
      BY <1>1, <1>3, <3>1
    <3>2. CASE i \in 1..n
      <4>1. rows'[s][i] = rows[s][i] /\ rows[s][i].turn \in Turn
        BY <1>1, <1>4, <3>2
      <4>2. /\ history[rows[s][i].turn] # NotPosted
            /\ \/ \E p \in 1..started[s] : rows[s][i].turn = log[s][p]
               \/ \A p \in DOMAIN log[s] : rows[s][i].turn < log[s][p]
        BY <1>1, <3>2 DEF SessionInv, RowsOfTurns
      <4>3. history'[rows[s][i].turn] # NotPosted
        BY <4>1, <4>2
      <4>. HIDE DEF n
      <4>. QED
        BY <4>1, <4>2, <4>3
    <3>. QED
      BY <1>1, <3>1, <3>2, SMTT(30)
  <2>. QED
    BY <1>1, <2>1, <2>2, SMTT(30) DEF RowsOfTurns
<1>9. Paired(s)'
  <2>. DEFINE Pair(i) ==
          IF rows'[s][i].role = "user"
          THEN \/ i < n + 1 /\ rows'[s][i + 1].role = "assistant"
               \/ rows'[s][i].turn \in spoiled'
               \/ handler'[s].pc = "assistant" /\ handler'[s].row = i
          ELSE i > 1 /\ rows'[s][i - 1].role = "user"
                     /\ rows'[s][i - 1].turn = rows'[s][i].turn
  <2>1. CASE At(s, "user")
    <3>1. /\ handler'[s].pc = "assistant" /\ row.role = "user" /\ ~ At(s, "assistant")
      BY <2>1 DEF At
    <3>2. Pair(n + 1)
      BY <1>1, <3>1
    <3>3. ASSUME NEW i \in 1..n PROVE Pair(i)
      <4>1. CASE rows[s][i].role = "user"
        <5>1. (i < n /\ rows[s][i + 1].role = "assistant") \/ rows[s][i].turn \in spoiled
          BY <1>1, <3>1, <4>1 DEF SessionInv, Paired
        <5>2. i < n => i + 1 \in 1..n
          BY <1>1
        <5>. QED
          BY <1>1, <4>1, <5>1, <5>2
      <4>2. CASE rows[s][i].role # "user"
        <5>1. i > 1 /\ rows[s][i - 1].role = "user" /\ rows[s][i - 1].turn = rows[s][i].turn
          BY <1>1, <4>2 DEF SessionInv, Paired
        <5>2. i - 1 \in 1..n
          BY <1>1, <5>1
        <5>. QED
          BY <1>1, <4>2, <5>1, <5>2
      <4>. QED
        BY <4>1, <4>2
    <3>4. \A i \in 1..(n + 1) : Pair(i)
      BY <1>1, <3>2, <3>3
    <3>. QED
      BY <1>1, <3>4 DEF Paired, At
  <2>2. CASE At(s, "assistant")
    <3>1. /\ row.role = "assistant" /\ ~ At(s, "user") /\ OwnRow(s, "user")
      BY <2>2 DEF At, SessionInv, HandlerInStep
    <3>2. n \in 1..n /\ rows[s][n].role = "user" /\ rows[s][n].turn = Current(s)
          /\ handler[s].row = n
      BY <1>1, <3>1, OwnRowIs
    <3>3. Pair(n + 1)
      <4>1. n + 1 > 1 /\ (n + 1) - 1 = n /\ rows'[s][n + 1].role # "user"
        BY <1>1, <3>1, <3>2
      <4>. QED
        BY <1>1, <3>2, <4>1
    <3>4. ASSUME NEW i \in 1..n PROVE Pair(i)
      <4>1. CASE rows[s][i].role = "user"
        <5>1. \/ i < n /\ rows[s][i + 1].role = "assistant"
              \/ rows[s][i].turn \in spoiled
              \/ i = n
          BY <1>1, <3>2, <4>1 DEF SessionInv, Paired
        <5>2. i < n => i + 1 \in 1..n
          BY <1>1
        <5>3. i < n + 1
          BY <1>1
        <5>. QED
          BY <1>1, <3>1, <4>1, <5>1, <5>2, <5>3
      <4>2. CASE rows[s][i].role # "user"
        <5>1. i > 1 /\ rows[s][i - 1].role = "user" /\ rows[s][i - 1].turn = rows[s][i].turn
          BY <1>1, <4>2 DEF SessionInv, Paired
        <5>2. i - 1 \in 1..n
          BY <1>1, <5>1
        <5>. QED
          BY <1>1, <4>2, <5>1, <5>2
      <4>. QED
        BY <4>1, <4>2
    <3>5. \A i \in 1..(n + 1) : Pair(i)
      BY <1>1, <3>3, <3>4
    <3>. QED
      BY <1>1, <3>5 DEF Paired, At
  <2>. QED
    BY <2>1, <2>2
<1>10. DoneIsSettled(s)'
  <2>1. \A e : Settled(s, e) => Settled(s, e)'
    <3>1. 1..n \subseteq 1..(n + 1)
      BY <1>1
    <3>. QED
      BY <1>1, <3>1 DEF Settled
  <2>2. \A p \in DOMAIN log[s] : p <= finished[s] =>
           log[s][p] \in spoiled \/ Settled(s, log[s][p])
    BY DEF SessionInv, DoneIsSettled
  <2>3. \A p \in DOMAIN log'[s] : p <= finished'[s] =>
           log'[s][p] \in spoiled' \/ Settled(s, log[s][p])'
    BY <2>1, <2>2
  <2>. QED
    BY <2>3 DEF DoneIsSettled, Settled
<1>11. (\A i \in DOMAIN rows[s] : RowTells(rows[s][i]))'
  <2>1. RowTells(row)
    BY DEF RowTells
  <2>2. \A i \in 1..n : RowTells(rows[s][i])
    BY <1>1 DEF SessionInv
  <2>3. \A i \in 1..(n + 1) : RowTells(rows'[s][i])
    BY <1>1, <2>1, <2>2
  <2>. QED
    BY <1>1, <2>3
<1>. QED
  BY <1>6, <1>7, <1>8, <1>9, <1>10, <1>11 DEF SessionInv

\* The handler rewrites its row, the newest one: the turns done with have theirs.
LEMMA WriteKeeps ==
    ASSUME TypeOK, NEW s \in Session, SessionInv(s), Onwards, QueueStays(s),
           OwnRow(s, "assistant"), ~ At(s, "none"), ~ At(s, "assistant"),
           NEW row, row.turn = Current(s), row.role = "assistant", RowTells(row),
           rows'[s] = [rows[s] EXCEPT ![Len(rows[s])] = row],
           handler'[s].pc \in {"run", "settle", "return"},
           handler'[s].row = handler[s].row,
           handler'[s].pc = "return" => row.status # "running" \/ Current(s) \in spoiled',
           Tells(handler'[s].stream.tools, handler'[s].told)
    PROVE  SessionInv(s)'
<1>. USE DEF Onwards, QueueStays
<1>. DEFINE n == Len(rows[s])
<1>0. n \in DOMAIN rows[s] /\ handler[s].row = n
      /\ rows[s][n].role = "assistant" /\ rows[s][n].turn = Current(s)
      /\ DOMAIN rows[s] = 1..n /\ rows[s] \in Seq(Message) /\ n \in Nat
  BY OwnRowIs, SessionTyped
<1>1. /\ DOMAIN rows'[s] = DOMAIN rows[s] /\ Len(rows'[s]) = n /\ rows'[s][n] = row
      /\ \A i \in DOMAIN rows[s] : i # n => rows'[s][i] = rows[s][i]
      /\ rows'[s] # << >>
  <2>1. DOMAIN rows'[s] = DOMAIN rows[s] /\ rows'[s][n] = row
        /\ \A i \in DOMAIN rows[s] : i # n => rows'[s][i] = rows[s][i]
    BY <1>0
  <2>2. Len(rows'[s]) = n
    BY <1>0, <2>1, LenProperties
  <2>3. rows'[s] # << >>
    BY <1>0, <2>1
  <2>. QED
    BY <2>1, <2>2, <2>3
<1>2. \A i \in DOMAIN rows[s] : rows'[s][i].turn = rows[s][i].turn
                              /\ rows'[s][i].role = rows[s][i].role
  BY <1>0, <1>1
<1>3. /\ started[s] = finished[s] + 1 /\ started[s] \in 1..Len(log[s])
      /\ Current(s) \in Turn /\ Current(s) = log[s][started[s]]
  BY CurrentIs
<1>4. \A i \in DOMAIN rows[s] : rows[s][i].turn \in Turn
  BY SessionTyped, MessageTyped
<1>5. Current(s)' = Current(s)
  BY DEF Current
<1>6. LogInOrder(s)'
  <2>1. \A p \in DOMAIN log[s] : log[s][p] \in Turn
    BY SessionTyped
  <2>. QED
    BY <2>1 DEF SessionInv, LogInOrder
<1>7. HandlerInStep(s)'
  <2>1. OwnRow(s, "assistant")'
    BY <1>0, <1>1, <1>5 DEF OwnRow
  <2>2. ASSUME handler'[s].pc = "return"
        PROVE  Current(s)' \in spoiled' \/ Settled(s, Current(s))'
    BY <1>0, <1>1, <1>5, <2>2 DEF Settled
  <2>. QED
    BY <1>3, <2>1, <2>2 DEF HandlerInStep, At
<1>8. RowsOfTurns(s)'
  <2>1. \A i, j \in DOMAIN rows[s] : i < j => rows'[s][i].turn <= rows'[s][j].turn
    BY <1>2 DEF SessionInv, RowsOfTurns
  <2>2. ASSUME NEW i \in DOMAIN rows[s]
        PROVE  /\ history'[rows'[s][i].turn] # NotPosted
               /\ \/ \E p \in 1..started[s] : rows'[s][i].turn = log[s][p]
                  \/ \A p \in DOMAIN log[s] : rows'[s][i].turn < log[s][p]
    BY <1>2, <1>4 DEF SessionInv, RowsOfTurns
  <2>. QED
    BY <1>1, <2>1, <2>2 DEF RowsOfTurns
<1>9. Paired(s)'
  <2>1. ASSUME NEW i \in 1..n, rows[s][i].role = "user"
        PROVE  \/ i < n /\ rows'[s][i + 1].role = "assistant"
               \/ rows'[s][i].turn \in spoiled'
    <3>1. (i < n /\ rows[s][i + 1].role = "assistant") \/ rows[s][i].turn \in spoiled
      BY <1>0, <2>1 DEF SessionInv, Paired
    <3>2. i < n => i + 1 \in 1..n
      BY <1>0
    <3>. QED
      BY <1>0, <1>2, <3>1, <3>2
  <2>2. ASSUME NEW i \in 1..n, rows[s][i].role # "user"
        PROVE  i > 1 /\ rows'[s][i - 1].role = "user"
                     /\ rows'[s][i - 1].turn = rows'[s][i].turn
    <3>1. i > 1 /\ rows[s][i - 1].role = "user" /\ rows[s][i - 1].turn = rows[s][i].turn
      BY <1>0, <2>2 DEF SessionInv, Paired
    <3>2. i - 1 \in 1..n
      BY <1>0, <3>1
    <3>. QED
      BY <1>0, <1>2, <3>1, <3>2
  <2>. QED
    BY <1>0, <1>1, <1>2, <2>1, <2>2 DEF Paired
<1>10. DoneIsSettled(s)'
  <2>1. ASSUME NEW p \in DOMAIN log[s], p <= finished[s], Settled(s, log[s][p])
        PROVE  Settled(s, log[s][p])'
    <3>1. PICK i \in DOMAIN rows[s] : /\ rows[s][i].turn = log[s][p]
                                      /\ rows[s][i].role = "assistant"
                                      /\ rows[s][i].status # "running"
      BY <2>1 DEF Settled
    <3>2. p < started[s] /\ started[s] \in DOMAIN log[s] /\ p \in 1..Len(log[s])
      BY <1>3, <2>1, SessionTyped
    <3>3. log[s][p] < Current(s)
      BY <1>3, <3>2 DEF SessionInv, LogInOrder
    <3>4. i # n
      BY <1>0, <1>3, <3>1, <3>3, Constants
    <3>5. rows'[s][i] = rows[s][i] /\ i \in DOMAIN rows'[s]
      BY <1>1, <3>4
    <3>. QED
      BY <3>1, <3>5 DEF Settled
  <2>. QED
    BY <2>1 DEF SessionInv, DoneIsSettled, Settled
<1>11. (\A i \in DOMAIN rows[s] : RowTells(rows[s][i]))'
  <2>1. \A i \in DOMAIN rows[s] : RowTells(rows'[s][i])
    BY <1>1 DEF SessionInv
  <2>. QED
    BY <1>1, <2>1
<1>. QED
  BY <1>6, <1>7, <1>8, <1>9, <1>10, <1>11 DEF SessionInv

\* A restart: whatever had been posted is named as spoiled.
LEMMA CrashedKeeps ==
    ASSUME TypeOK, NEW s \in Session, SessionInv(s),
           log'[s] = << >>, started'[s] = 0, finished'[s] = 0,
           rows'[s] = rows[s], handler'[s] = NoHandler,
           spoiled' = {e \in Turn : history[e] # NotPosted},
           \A e \in Turn : history[e] # NotPosted => history'[e] # NotPosted
    PROVE  SessionInv(s)'
<1>1. /\ handler'[s].pc = "none" /\ handler'[s].told = << >>
      /\ handler'[s].stream.tools = << >>
  BY DEF NoHandler, NothingSaid, Stream
<1>2. \A i \in DOMAIN rows[s] : rows[s][i].turn \in Turn
                              /\ history[rows[s][i].turn] # NotPosted
  BY SessionTyped, MessageTyped DEF SessionInv, RowsOfTurns
<1>3. DOMAIN log'[s] = {}
  OBVIOUS
<1>4. LogInOrder(s)'
  BY <1>3 DEF LogInOrder
<1>5. HandlerInStep(s)'
  BY <1>1, SilenceTells DEF HandlerInStep, At
<1>6. RowsOfTurns(s)'
  BY <1>2, <1>3 DEF SessionInv, RowsOfTurns
<1>7. Paired(s)'
  BY <1>2 DEF SessionInv, Paired
<1>8. DoneIsSettled(s)'
  BY <1>3 DEF DoneIsSettled
<1>9. (\A i \in DOMAIN rows[s] : RowTells(rows[s][i]))'
  BY DEF SessionInv
<1>. QED
  BY <1>4, <1>5, <1>6, <1>7, <1>8, <1>9 DEF SessionInv

--------------------------------------------------------------------------------
(* Every step keeps the invariant: first what the steps of handlers share.      *)

\* The history of a turn that is done with has nothing to show.
LEMMA SpentIs ==
    /\ Spent # NotPosted /\ ShowsSaid(Spent)
    /\ Spent \in [rows : Nat \union {-1}, said : SUBSET Nat, shown : SUBSET Nat]
<1>1. Spent.rows # NotPosted.rows /\ Spent.said = {}
  BY DEF Spent, NotPosted
<1>. QED
  BY <1>1 DEF ShowsSaid, Spent

\* Histories stay, or are spent.
LEMMA HistoryStays ==
    ASSUME PostedInOrder, \A e \in Turn : ShowsSaid(history[e]),
           \A e \in Turn : \/ history'[e] = history[e]
                           \/ history[e] # NotPosted /\ history'[e] = Spent
    PROVE  /\ PostedInOrder' /\ (\A e \in Turn : ShowsSaid(history[e]))'
           /\ \A e \in Turn : history'[e] # NotPosted <=> history[e] # NotPosted
<1>1. \A e \in Turn : history'[e] # NotPosted <=> history[e] # NotPosted
  BY SpentIs
<1>2. \A e \in Turn : ShowsSaid(history'[e])
  BY SpentIs
<1>3. PostedInOrder'
  <2>. SUFFICES ASSUME NEW e \in Turn, history'[e] # NotPosted, NEW d \in 1..(e - 1)
                PROVE  history'[d] # NotPosted
    BY DEF PostedInOrder
  <2>1. d \in Turn
    BY Constants DEF Turn
  <2>2. history[d] # NotPosted
    BY <1>1 DEF PostedInOrder
  <2>. QED
    BY <1>1, <2>1, <2>2
<1>. QED
  BY <1>1, <1>2, <1>3

\* What a step of the handler of session s may change.
HandlerOnly(s) ==
    /\ UNCHANGED <<queueVars, setupVars, history>>
    /\ rows' \in [Session -> Seq(Message)] /\ handler' \in [Session -> Handler]
    /\ \A r \in Session \ {s} : rows'[r] = rows[r] /\ handler'[r] = handler[r]
    /\ handler'[s].row <= Len(rows'[s])
    /\ \A i \in DOMAIN rows'[s] :
          /\ rows'[s][i].resp \in {NoTurn, rows'[s][i].turn}
          /\ rows'[s][i].role = "user" => rows'[s][i].status = "completed"
    /\ reports' \in 0..MaxReports /\ faults' \in 0..MaxFaults
    /\ spoiled \subseteq spoiled' /\ spoiled' \subseteq Turn

\* Then the other sessions are as before, and the types hold.
LEMMA HandlerStepKeeps ==
    ASSUME ManagerInv, NEW s \in Session, HandlerOnly(s), SessionInv(s)'
    PROVE  ManagerInv'
<1>1. TypeOK /\ Onwards /\ PostedInOrder /\ \A e \in Turn : ShowsSaid(history[e])
  BY DEF ManagerInv, HandlerOnly, Onwards
<1>2. ASSUME NEW r \in Session PROVE SessionInv(r)'
  <2>1. CASE r = s
    BY <2>1
  <2>2. CASE r # s
    <3>1. SessionInv(r)
      BY DEF ManagerInv
    <3>2. /\ log'[r] = log[r] /\ started'[r] = started[r] /\ finished'[r] = finished[r]
          /\ rows'[r] = rows[r] /\ handler'[r] = handler[r]
      BY <2>2 DEF HandlerOnly, queueVars
    <3>. QED
      BY <1>1, <3>1, <3>2, SessionAsBefore
  <2>. QED
    BY <2>1, <2>2
<1>3. TypeOK'
  <2>1. ASSUME NEW r \in Session
        PROVE  /\ handler'[r].row <= Len(rows'[r])
               /\ \A i \in DOMAIN rows'[r] :
                     /\ rows'[r][i].resp \in {NoTurn, rows'[r][i].turn}
                     /\ rows'[r][i].role = "user" => rows'[r][i].status = "completed"
    <3>1. CASE r = s
      BY <3>1 DEF HandlerOnly
    <3>2. CASE r # s
      BY <1>1, <3>2 DEF HandlerOnly, TypeOK
    <3>. QED
      BY <3>1, <3>2
  <2>2. /\ log' \in [Session -> Seq(Turn)] /\ cancelled' = {}
        /\ started' \in [Session -> Nat] /\ finished' \in [Session -> Nat]
        /\ \A r \in Session : finished'[r] <= started'[r] /\ started'[r] <= Len(log'[r])
        /\ sessions' \subseteq Session /\ listed' \in BOOLEAN
        /\ runner' \in {"context", "plain"}
        /\ history' \in [Turn -> [rows : Nat \union {-1}, said : SUBSET Nat, shown : SUBSET Nat]]
    BY <1>1 DEF HandlerOnly, queueVars, setupVars, TypeOK
  <2>. QED
    BY <2>1, <2>2 DEF HandlerOnly, TypeOK
<1>4. PostedInOrder' /\ (\A e \in Turn : ShowsSaid(history[e]))'
  BY <1>1, HistoryStays DEF HandlerOnly
<1>. QED
  BY <1>2, <1>3, <1>4 DEF ManagerInv

--------------------------------------------------------------------------------
(* Requests.                                                                    *)

\* Requests that leave sessions' queues, rows and handlers alone.
LEMMA SetupKeeps ==
    ASSUME ManagerInv, UNCHANGED <<queueVars, runner, spoiled, saidVars>>,
           sessions' \subseteq Session, listed' \in BOOLEAN, faults' \in 0..MaxFaults
    PROVE  ManagerInv'
<1>1. TypeOK /\ Onwards /\ PostedInOrder /\ \A e \in Turn : ShowsSaid(history[e])
  BY DEF ManagerInv, Onwards, saidVars
<1>2. ASSUME NEW r \in Session PROVE SessionInv(r)'
  <2>1. SessionInv(r)
    BY DEF ManagerInv
  <2>2. /\ log'[r] = log[r] /\ started'[r] = started[r] /\ finished'[r] = finished[r]
        /\ rows'[r] = rows[r] /\ handler'[r] = handler[r]
    BY DEF queueVars, saidVars
  <2>. QED
    BY <1>1, <2>1, <2>2, SessionAsBefore
<1>3. TypeOK'
  BY <1>1 DEF TypeOK, queueVars, saidVars
<1>4. PostedInOrder' /\ (\A e \in Turn : ShowsSaid(history[e]))'
  BY <1>1, HistoryStays DEF saidVars
<1>. QED
  BY <1>2, <1>3, <1>4 DEF ManagerInv

\* A fault is counted.
LEMMA FaultTyped ==
    ASSUME TypeOK, Fault
    PROVE  faults' \in 0..MaxFaults
  BY Constants DEF TypeOK, Fault

\* Of the rows listed for a history block, what is not shown has HistoryMax newer
\* ones that are.
LEMMA BlockShowsSaid ==
    ASSUME TypeOK, NEW s \in Session
    PROVE  /\ HistoryBlock(s) \subseteq Nat
           /\ ShowsSaid([rows |-> Len(rows[s]), shown |-> HistoryBlock(s),
                         said |-> {i \in DOMAIN rows[s] :
                              rows[s][i].status = "completed" /\ HasContent(rows[s][i])}])
<1>. DEFINE n == Len(rows[s])
            said == {i \in Listed(s) : HasContent(rows[s][i])}
            done == {i \in DOMAIN rows[s] :
                              rows[s][i].status = "completed" /\ HasContent(rows[s][i])}
            h == [rows |-> n, shown |-> HistoryBlock(s), said |-> done]
<1>1. n \in Nat /\ DOMAIN rows[s] = 1..n
  BY SessionTyped
<1>2. said \subseteq 1..n
  BY <1>1 DEF Listed
<1>3. HistoryBlock(s) = {x \in said : Cardinality({j \in said : j > x}) < HistoryMax}
  BY DEF HistoryBlock
<1>4. HistoryMax \in Nat
  BY Constants
<1>5. \A i \in said : i \in HistoryBlock(s)
                      \/ Cardinality({j \in HistoryBlock(s) : j > i}) >= HistoryMax
  <2>. HIDE DEF said, n
  <2>. DEFINE block == {x \in said : Cardinality({j \in said : j > x}) < HistoryMax}
  <2>1. \A i \in said : i \in block \/ Cardinality({j \in block : j > i}) >= HistoryMax
    BY <1>1, <1>2, <1>4, NewestShown
  <2>. QED
    BY <1>3, <2>1
<1>6. n <= ListLimit => done \subseteq said
  BY <1>1, Constants DEF Listed
<1>7. h.rows = n /\ h.shown = HistoryBlock(s) /\ h.said = done
  OBVIOUS
<1>. HIDE DEF h, said, done
<1>8. ShowsSaid(h)
  BY <1>5, <1>6, <1>7 DEF ShowsSaid
<1>9. HistoryBlock(s) \subseteq Nat
  <2>. HIDE DEF n
  <2>1. 1..n \subseteq Nat /\ HistoryBlock(s) \subseteq said
    BY <1>3
  <2>. QED
    BY <1>2, <2>1
<1>. QED
  BY <1>8, <1>9 DEF h, done

\* A message is posted: the log grows by a turn younger than all.
LEMMA PostKeeps ==
    ASSUME ManagerInv, NEW s \in Session, NEW e \in Turn, Post(s, e)
    PROVE  ManagerInv'
<1>1. TypeOK /\ PostedInOrder /\ SessionInv(s) /\ \A d \in Turn : ShowsSaid(history[d])
  BY DEF ManagerInv
<1>. DEFINE H == [rows : Nat \union {-1}, said : SUBSET Nat, shown : SUBSET Nat]
<1>2. /\ history \in [Turn -> H] /\ log \in [Session -> Seq(Turn)]
      /\ started \in [Session -> Nat] /\ finished \in [Session -> Nat]
  BY <1>1 DEF TypeOK
<1>3. /\ history[e] = NotPosted /\ \A d \in 1..(e - 1) : history[d] # NotPosted
      /\ UNCHANGED <<started, finished, cancelled, setupVars, rows, handler, reports>>
      /\ log' = [log EXCEPT ![s] = Append(log[s], e)]
  BY DEF Post, Serial!Accept
<1>4. \E h \in H : /\ history' = [history EXCEPT ![e] = h]
                   /\ h # NotPosted /\ ShowsSaid(h)
  <2>1. CASE history' = [history EXCEPT ![e] = Spent]
    BY <2>1, SpentIs
  <2>2. CASE history' = [history EXCEPT ![e] =
                [rows |-> Len(rows[s]), shown |-> HistoryBlock(s),
                 said |-> {i \in DOMAIN rows[s] :
                              rows[s][i].status = "completed" /\ HasContent(rows[s][i])}]]
    <3>. DEFINE done == {i \in DOMAIN rows[s] :
                              rows[s][i].status = "completed" /\ HasContent(rows[s][i])}
                h == [rows |-> Len(rows[s]), shown |-> HistoryBlock(s), said |-> done]
    <3>1. HistoryBlock(s) \subseteq Nat /\ ShowsSaid(h)
      BY <1>1, BlockShowsSaid
    <3>2. Len(rows[s]) \in Nat /\ DOMAIN rows[s] = 1..Len(rows[s])
      BY <1>1, SessionTyped
    <3>3. done \subseteq Nat
      BY <3>2
    <3>4. h.rows # NotPosted.rows
      BY <3>2 DEF NotPosted
    <3>. HIDE DEF done
    <3>5. h \in H
      BY <3>1, <3>2, <3>3
    <3>. HIDE DEF h, H
    <3>6. h # NotPosted
      BY <3>4
    <3>7. history' = [history EXCEPT ![e] = h]
      BY <2>2 DEF h, done
    <3>. QED
      BY <3>1, <3>5, <3>6, <3>7
  <2>. QED
    BY <2>1, <2>2 DEF Post
<1>5. PICK h \in H : /\ history' = [history EXCEPT ![e] = h]
                     /\ h # NotPosted /\ ShowsSaid(h)
  BY <1>4
<1>. HIDE DEF H
<1>6. history' \in [Turn -> H] /\ history'[e] = h
      /\ \A d \in Turn : d # e => history'[d] = history[d]
  BY <1>2, <1>5
<1>7. Onwards /\ spoiled' \subseteq Turn /\ faults' \in 0..MaxFaults
  <2>1. spoiled \subseteq spoiled' /\ spoiled' \subseteq Turn /\ faults' \in 0..MaxFaults
    <3>1. CASE UNCHANGED faultVars
      BY <1>1, <3>1 DEF faultVars, TypeOK
    <3>2. CASE StoreFails /\ spoiled' = spoiled \union {e}
      <4>1. spoiled \subseteq Turn
        BY <1>1 DEF TypeOK
      <4>. QED
        BY <1>1, <3>2, <4>1, FaultTyped DEF StoreFails
    <3>. QED
      BY <3>1, <3>2 DEF Post
  <2>. QED
    BY <1>5, <1>6, <2>1 DEF Onwards
<1>8. /\ log'[s] = Append(log[s], e) /\ \A r \in Session \ {s} : log'[r] = log[r]
      /\ started' = started /\ finished' = finished /\ rows' = rows /\ handler' = handler
  BY <1>2, <1>3
<1>9. ASSUME NEW r \in Session PROVE SessionInv(r)'
  <2>1. CASE r = s
    BY <1>1, <1>3, <1>5, <1>6, <1>7, <1>8, <2>1, AcceptKeeps
  <2>2. CASE r # s
    <3>1. SessionInv(r)
      BY DEF ManagerInv
    <3>. QED
      BY <1>1, <1>7, <1>8, <2>2, <3>1, SessionAsBefore
  <2>. QED
    BY <2>1, <2>2
<1>10. TypeOK'
  <2>1. log[s] \in Seq(Turn)
    BY <1>2
  <2>2. Append(log[s], e) \in Seq(Turn) /\ Len(Append(log[s], e)) = Len(log[s]) + 1
        /\ Len(log[s]) \in Nat
    BY <2>1, AppendProperties
  <2>3. log' \in [Session -> Seq(Turn)]
    BY <1>2, <1>3, <2>2
  <2>4. ASSUME NEW r \in Session PROVE finished[r] <= started[r] /\ started[r] <= Len(log'[r])
    <3>1. /\ finished[r] <= started[r] /\ started[r] <= Len(log[r])
          /\ started[r] \in Nat /\ Len(log[r]) \in Nat
      BY <1>1, SessionTyped
    <3>2. CASE r = s
      BY <1>8, <2>2, <3>1, <3>2
    <3>3. CASE r # s
      BY <1>8, <3>1, <3>3
    <3>. QED
      BY <3>2, <3>3
  <2>5. sessions' = sessions /\ listed' = listed /\ runner' = runner /\ cancelled' = cancelled
        /\ reports' = reports
    BY <1>3 DEF setupVars
  <2>. QED
    BY <1>1, <1>6, <1>7, <1>8, <2>3, <2>4, <2>5 DEF TypeOK, H
<1>11. PostedInOrder'
  <2>. SUFFICES ASSUME NEW c \in Turn, history'[c] # NotPosted, NEW d \in 1..(c - 1)
                PROVE  history'[d] # NotPosted
    BY DEF PostedInOrder
  <2>1. d \in Turn
    BY Constants DEF Turn
  <2>2. CASE d = e
    BY <1>5, <1>6, <2>2
  <2>3. CASE d # e
    <3>1. CASE c = e
      BY <1>3, <1>6, <2>1, <2>3, <3>1
    <3>2. CASE c # e
      BY <1>1, <1>6, <2>1, <2>3, <3>2 DEF PostedInOrder
    <3>. QED
      BY <3>1, <3>2
  <2>. QED
    BY <2>2, <2>3
<1>12. (\A d \in Turn : ShowsSaid(history[d]))'
  <2>1. \A d \in Turn : ShowsSaid(history'[d])
    BY <1>1, <1>5, <1>6
  <2>. QED
    BY <2>1
<1>. QED
  BY <1>9, <1>10, <1>11, <1>12 DEF ManagerInv

\* The actor calls the handler.
LEMMA HandlerCalledKeeps ==
    ASSUME ManagerInv, NEW s \in Session, HandlerCalled(s)
    PROVE  ManagerInv'
<1>1. TypeOK /\ PostedInOrder /\ SessionInv(s) /\ \A d \in Turn : ShowsSaid(history[d])
  BY DEF ManagerInv
<1>2. /\ started[s] = finished[s] /\ started[s] < Len(log[s])
      /\ started' = [started EXCEPT ![s] = started[s] + 1]
      /\ handler' = [handler EXCEPT ![s] = [NoHandler EXCEPT !.pc = "check"]]
      /\ UNCHANGED <<log, finished, cancelled, setupVars, faultVars, rows, history, reports>>
  BY DEF HandlerCalled, Serial!Start
<1>3. started \in [Session -> Nat] /\ handler \in [Session -> Handler]
  BY <1>1 DEF TypeOK
<1>4. Onwards
  BY <1>2 DEF Onwards, faultVars
<1>5. /\ started'[s] = started[s] + 1 /\ handler'[s] = [NoHandler EXCEPT !.pc = "check"]
      /\ \A r \in Session \ {s} : started'[r] = started[r] /\ handler'[r] = handler[r]
      /\ log' = log /\ finished' = finished /\ rows' = rows
  BY <1>2, <1>3
<1>6. ASSUME NEW r \in Session PROVE SessionInv(r)'
  <2>1. CASE r = s
    BY <1>1, <1>2, <1>4, <1>5, <2>1, CalledKeeps
  <2>2. CASE r # s
    <3>1. SessionInv(r)
      BY DEF ManagerInv
    <3>. QED
      BY <1>1, <1>4, <1>5, <2>2, <3>1, SessionAsBefore
  <2>. QED
    BY <2>1, <2>2
<1>7. TypeOK'
  <2>1. [NoHandler EXCEPT !.pc = "check"] \in Handler
        /\ [NoHandler EXCEPT !.pc = "check"].row = 0
    <3>1. << >> \in Seq(Tool) /\ << >> \in Seq(ToolEvent)
      BY EmptySeq
    <3>. QED
      BY <3>1, Constants DEF NoHandler, NothingSaid, Stream, Handler, Said, Text
  <2>. HIDE DEF NoHandler
  <2>2. started' \in [Session -> Nat] /\ handler' \in [Session -> Handler]
    <3>1. started[s] + 1 \in Nat
      BY <1>3
    <3>. QED
      BY <1>2, <1>3, <2>1, <3>1
  <2>3. ASSUME NEW r \in Session
        PROVE  /\ finished[r] <= started'[r] /\ started'[r] <= Len(log[r])
               /\ handler'[r].row <= Len(rows[r])
    <3>1. /\ finished[r] <= started[r] /\ started[r] <= Len(log[r])
          /\ started[r] \in Nat /\ finished[r] \in Nat /\ Len(log[r]) \in Nat
          /\ handler[r].row <= Len(rows[r]) /\ Len(rows[r]) \in Nat
      BY <1>1, SessionTyped
    <3>2. CASE r = s
      BY <1>2, <1>5, <2>1, <3>1, <3>2
    <3>3. CASE r # s
      BY <1>5, <3>1, <3>3
    <3>. QED
      BY <3>2, <3>3
  <2>4. UNCHANGED <<log, finished, cancelled, sessions, listed, runner, faults, spoiled,
                    rows, history, reports>>
    BY <1>2 DEF setupVars, faultVars
  <2>. QED
    BY <1>1, <2>2, <2>3, <2>4 DEF TypeOK
<1>8. PostedInOrder' /\ (\A d \in Turn : ShowsSaid(history[d]))'
  BY <1>1, <1>2, HistoryStays
<1>. QED
  BY <1>6, <1>7, <1>8 DEF ManagerInv

\* The handler has returned.
LEMMA HandlerReturnedKeeps ==
    ASSUME ManagerInv, NEW s \in Session, HandlerReturned(s)
    PROVE  ManagerInv'
<1>1. TypeOK /\ PostedInOrder /\ SessionInv(s) /\ \A d \in Turn : ShowsSaid(history[d])
  BY DEF ManagerInv
<1>2. /\ At(s, "return") /\ finished' = [finished EXCEPT ![s] = finished[s] + 1]
      /\ handler' = [handler EXCEPT ![s] = NoHandler]
      /\ history' = [history EXCEPT ![Current(s)] = Spent]
      /\ UNCHANGED <<log, started, cancelled, setupVars, faultVars, rows, reports>>
  BY DEF HandlerReturned, Serial!Finish
<1>. DEFINE H == [rows : Nat \union {-1}, said : SUBSET Nat, shown : SUBSET Nat]
<1>3. finished \in [Session -> Nat] /\ handler \in [Session -> Handler]
      /\ history \in [Turn -> H]
  BY <1>1 DEF TypeOK
<1>4. ~ At(s, "none")
  BY <1>2 DEF At
<1>5. Current(s) \in Turn /\ history[Current(s)] # NotPosted /\ started[s] = finished[s] + 1
  BY <1>1, <1>4, CurrentIs
<1>6. \A e \in Turn : \/ history'[e] = history[e]
                      \/ history[e] # NotPosted /\ history'[e] = Spent
  BY <1>2, <1>3, <1>5
<1>7. Onwards
  BY <1>1, <1>2, <1>6, HistoryStays DEF Onwards, faultVars
<1>8. /\ finished'[s] = finished[s] + 1 /\ handler'[s] = NoHandler
      /\ \A r \in Session \ {s} : finished'[r] = finished[r] /\ handler'[r] = handler[r]
      /\ log' = log /\ started' = started /\ rows' = rows
  BY <1>2, <1>3
<1>9. ASSUME NEW r \in Session PROVE SessionInv(r)'
  <2>1. CASE r = s
    BY <1>1, <1>2, <1>7, <1>8, <2>1, ReturnedKeeps
  <2>2. CASE r # s
    <3>1. SessionInv(r)
      BY DEF ManagerInv
    <3>. QED
      BY <1>1, <1>7, <1>8, <2>2, <3>1, SessionAsBefore
  <2>. QED
    BY <2>1, <2>2
<1>10. TypeOK'
  <2>1. NoHandler \in Handler /\ NoHandler.row = 0
    <3>1. << >> \in Seq(Tool) /\ << >> \in Seq(ToolEvent)
      BY EmptySeq
    <3>. QED
      BY <3>1, Constants DEF NoHandler, NothingSaid, Stream, Handler, Said, Text
  <2>2. finished' \in [Session -> Nat] /\ handler' \in [Session -> Handler]
    <3>1. finished[s] + 1 \in Nat
      BY <1>3
    <3>. QED
      BY <1>2, <1>3, <2>1, <3>1
  <2>3. ASSUME NEW r \in Session
        PROVE  /\ finished'[r] <= started[r] /\ started[r] <= Len(log[r])
               /\ handler'[r].row <= Len(rows[r])
    <3>1. /\ finished[r] <= started[r] /\ started[r] <= Len(log[r])
          /\ started[r] \in Nat /\ finished[r] \in Nat /\ Len(log[r]) \in Nat
          /\ handler[r].row <= Len(rows[r]) /\ Len(rows[r]) \in Nat
      BY <1>1, SessionTyped
    <3>2. CASE r = s
      BY <1>5, <1>8, <2>1, <3>1, <3>2
    <3>3. CASE r # s
      BY <1>8, <3>1, <3>3
    <3>. QED
      BY <3>2, <3>3
  <2>4. UNCHANGED <<log, started, cancelled, sessions, listed, runner, faults, spoiled,
                    rows, reports>>
    BY <1>2 DEF setupVars, faultVars
  <2>5. history' \in [Turn -> H]
    BY <1>2, <1>3, <1>5, SpentIs
  <2>. QED
    BY <1>1, <2>2, <2>3, <2>4, <2>5 DEF TypeOK
<1>11. PostedInOrder' /\ (\A d \in Turn : ShowsSaid(history[d]))'
  BY <1>1, <1>6, HistoryStays
<1>. QED
  BY <1>9, <1>10, <1>11 DEF ManagerInv

\* A restart of the process.
LEMMA CrashKeeps ==
    ASSUME ManagerInv, Crash
    PROVE  ManagerInv'
<1>1. TypeOK /\ PostedInOrder /\ \A d \in Turn : ShowsSaid(history[d])
  BY DEF ManagerInv
<1>2. /\ Fault /\ spoiled' = {e \in Turn : history[e] # NotPosted}
      /\ log' = [s \in Session |-> <<>>]
      /\ started' = [s \in Session |-> 0] /\ finished' = [s \in Session |-> 0]
      /\ handler' = [s \in Session |-> NoHandler]
      /\ history' = [e \in Turn |-> IF history[e] = NotPosted THEN NotPosted ELSE Spent]
      /\ UNCHANGED <<cancelled, setupVars, rows, reports>>
  BY DEF Crash
<1>3. \A e \in Turn : \/ history'[e] = history[e]
                      \/ history[e] # NotPosted /\ history'[e] = Spent
  BY <1>2
<1>4. \A e \in Turn : history[e] # NotPosted => history'[e] # NotPosted
  BY <1>1, <1>3, HistoryStays
<1>5. ASSUME NEW s \in Session PROVE SessionInv(s)'
  <2>1. SessionInv(s)
    BY DEF ManagerInv
  <2>2. /\ log'[s] = << >> /\ started'[s] = 0 /\ finished'[s] = 0
        /\ rows'[s] = rows[s] /\ handler'[s] = NoHandler
    BY <1>2
  <2>. QED
    BY <1>1, <1>2, <1>4, <2>1, <2>2, CrashedKeeps
<1>6. TypeOK'
  <2>1. NoHandler \in Handler /\ NoHandler.row = 0
    <3>1. << >> \in Seq(Tool) /\ << >> \in Seq(ToolEvent)
      BY EmptySeq
    <3>. QED
      BY <3>1, Constants DEF NoHandler, NothingSaid, Stream, Handler, Said, Text
  <2>2. /\ log' \in [Session -> Seq(Turn)] /\ started' \in [Session -> Nat]
        /\ finished' \in [Session -> Nat] /\ handler' \in [Session -> Handler]
    <3>1. << >> \in Seq(Turn)
      BY EmptySeq
    <3>. QED
      BY <1>2, <2>1, <3>1
  <2>3. ASSUME NEW s \in Session
        PROVE  /\ finished'[s] <= started'[s] /\ started'[s] <= Len(log'[s])
               /\ handler'[s].row <= Len(rows[s])
    <3>1. Len(rows[s]) \in Nat
      BY <1>1, SessionTyped
    <3>2. log'[s] = << >> /\ started'[s] = 0 /\ finished'[s] = 0 /\ handler'[s].row = 0
      BY <1>2, <2>1
    <3>3. Len(log'[s]) = 0
      BY <3>2
    <3>. QED
      BY <3>1, <3>2, <3>3
  <2>4. UNCHANGED <<cancelled, sessions, listed, runner, rows, reports>>
    BY <1>2 DEF setupVars
  <2>5. history' \in [Turn -> [rows : Nat \union {-1}, said : SUBSET Nat, shown : SUBSET Nat]]
    <3>1. NotPosted \in [rows : Nat \union {-1}, said : SUBSET Nat, shown : SUBSET Nat]
      BY DEF NotPosted
    <3>. QED
      BY <1>2, <3>1, SpentIs
  <2>6. faults' \in 0..MaxFaults /\ spoiled' \subseteq Turn
    BY <1>1, <1>2, FaultTyped
  <2>. QED
    BY <1>1, <2>2, <2>3, <2>4, <2>5, <2>6 DEF TypeOK
<1>7. PostedInOrder' /\ (\A d \in Turn : ShowsSaid(history[d]))'
  BY <1>1, <1>3, HistoryStays
<1>. QED
  BY <1>5, <1>6, <1>7 DEF ManagerInv

--------------------------------------------------------------------------------
(* The handler.                                                                 *)

\* A handler that goes on changes its program counter only.
LEMMA GoToIs ==
    ASSUME TypeOK, NEW s \in Session,
           NEW pc \in {"check", "read", "user", "assistant", "run", "settle", "return"}, GoTo(s, pc)
    PROVE  /\ handler' \in [Session -> Handler] /\ handler'[s].pc = pc
           /\ handler'[s].row = handler[s].row /\ handler'[s].told = handler[s].told
           /\ handler'[s].stream = handler[s].stream
           /\ \A r \in Session \ {s} : handler'[r] = handler[r]
<1>1. handler \in [Session -> Handler] /\ handler[s] \in Handler
  BY DEF TypeOK
<1>. DEFINE h == [handler[s] EXCEPT !.pc = pc]
<1>2. h \in Handler /\ h.pc = pc /\ h.row = handler[s].row /\ h.told = handler[s].told
      /\ h.stream = handler[s].stream
  BY <1>1 DEF Handler
<1>3. handler' = [handler EXCEPT ![s] = h]
  BY DEF GoTo
<1>. HIDE DEF h
<1>4. handler' \in [Session -> Handler] /\ handler'[s] = h
      /\ \A r \in Session \ {s} : handler'[r] = handler[r]
  BY <1>1, <1>2, <1>3
<1>. QED
  BY <1>2, <1>4

\* Rows that stay are typed as before.
LEMMA RowsStayTyped ==
    ASSUME TypeOK, NEW s \in Session, UNCHANGED <<queueVars, setupVars, history, rows>>,
           handler' \in [Session -> Handler],
           \A r \in Session \ {s} : handler'[r] = handler[r],
           handler'[s].row = handler[s].row,
           reports' \in 0..MaxReports, faults' \in 0..MaxFaults,
           spoiled \subseteq spoiled', spoiled' \subseteq Turn
    PROVE  HandlerOnly(s)
  BY DEF TypeOK, HandlerOnly

\* The handler gives up: its turn is named as spoiled.
LEMMA AbandonKeeps ==
    ASSUME ManagerInv, NEW s \in Session,
           At(s, "check") \/ At(s, "read") \/ At(s, "user") \/ At(s, "assistant"),
           Abandon(s), faults' \in 0..MaxFaults,
           UNCHANGED <<queueVars, setupVars, history, reports>>
    PROVE  ManagerInv'
<1>1. TypeOK /\ SessionInv(s)
  BY DEF ManagerInv
<1>2. ~ At(s, "none")
  BY DEF At
<1>3. /\ spoiled' = spoiled \union {Current(s)} /\ GoTo(s, "return")
      /\ UNCHANGED rows
  BY DEF Abandon
<1>4. /\ handler' \in [Session -> Handler] /\ handler'[s].pc = "return"
      /\ handler'[s].row = handler[s].row /\ handler'[s].told = handler[s].told
      /\ handler'[s].stream = handler[s].stream
      /\ \A r \in Session \ {s} : handler'[r] = handler[r]
  BY <1>1, <1>3, GoToIs
<1>5. Current(s) \in Turn
  BY <1>1, <1>2, CurrentIs
<1>6. spoiled \subseteq spoiled' /\ spoiled' \subseteq Turn /\ reports' \in 0..MaxReports
  BY <1>1, <1>3, <1>5 DEF TypeOK
<1>7. HandlerOnly(s)
  BY <1>1, <1>3, <1>4, <1>6, RowsStayTyped
<1>8. Onwards /\ QueueStays(s)
  BY <1>6 DEF Onwards, QueueStays, queueVars
<1>9. Tells(handler'[s].stream.tools, handler'[s].told)
  BY <1>1, <1>4 DEF SessionInv, HandlerInStep
<1>10. SessionInv(s)'
  <2>1. Current(s) \in spoiled'
    BY <1>3
  <2>2. ~ At(s, "none")' /\ ~ At(s, "assistant")' /\ ~ At(s, "run")' /\ ~ At(s, "settle")'
    BY <1>4 DEF At
  <2>. QED
    BY <1>1, <1>2, <1>3, <1>8, <1>9, <2>1, <2>2, HandlerGoesOn
<1>. QED
  BY <1>7, <1>10, HandlerStepKeeps

\* The project and the session are looked up.
LEMMA CheckKeeps ==
    ASSUME ManagerInv, NEW s \in Session, Check(s)
    PROVE  ManagerInv'
<1>1. TypeOK /\ SessionInv(s)
  BY DEF ManagerInv
<1>2. At(s, "check") /\ UNCHANGED <<queueVars, setupVars, history, reports>>
  BY DEF Check
<1>3. CASE Abandon(s) /\ (UNCHANGED faults \/ StoreFails)
  <2>1. faults' \in 0..MaxFaults
    BY <1>1, <1>3, FaultTyped DEF TypeOK, StoreFails
  <2>. QED
    BY <1>2, <1>3, <2>1, AbandonKeeps
<1>4. CASE /\ GoTo(s, IF runner = "context" THEN "read" ELSE "user")
           /\ UNCHANGED <<faultVars, rows>>
  <2>. DEFINE pc == IF runner = "context" THEN "read" ELSE "user"
  <2>1. pc \in {"read", "user"}
    OBVIOUS
  <2>. HIDE DEF pc
  <2>2. GoTo(s, pc)
    BY <1>4 DEF pc
  <2>3. /\ handler' \in [Session -> Handler] /\ handler'[s].pc = pc
        /\ handler'[s].row = handler[s].row /\ handler'[s].told = handler[s].told
        /\ handler'[s].stream = handler[s].stream
        /\ \A r \in Session \ {s} : handler'[r] = handler[r]
    BY <1>1, <2>1, <2>2, GoToIs
  <2>4. /\ spoiled \subseteq spoiled' /\ spoiled' \subseteq Turn
        /\ reports' \in 0..MaxReports /\ faults' \in 0..MaxFaults
    BY <1>1, <1>2, <1>4 DEF TypeOK, faultVars
  <2>5. HandlerOnly(s)
    BY <1>1, <1>2, <1>4, <2>3, <2>4, RowsStayTyped
  <2>6. Onwards /\ QueueStays(s)
    BY <1>2, <2>4 DEF Onwards, QueueStays, queueVars
  <2>7. Tells(handler'[s].stream.tools, handler'[s].told)
    BY <1>1, <2>3 DEF SessionInv, HandlerInStep
  <2>8. SessionInv(s)'
    <3>1. ~ At(s, "none") /\ ~ At(s, "assistant")
      BY <1>2 DEF At
    <3>2. /\ ~ At(s, "none")' /\ ~ At(s, "assistant")' /\ ~ At(s, "run")'
          /\ ~ At(s, "settle")' /\ ~ At(s, "return")'
      BY <2>1, <2>3 DEF At
    <3>. QED
      BY <1>1, <1>4, <2>6, <2>7, <3>1, <3>2, HandlerGoesOn
  <2>. QED
    BY <2>5, <2>8, HandlerStepKeeps
<1>. QED
  BY <1>3, <1>4 DEF Check

\* A response id is that of a turn.
LEMMA LatestResponseTyped ==
    ASSUME TypeOK, NEW s \in Session
    PROVE  LatestResponse(s) \in 0..MaxTurns
<1>. DEFINE answered == {i \in DOMAIN rows[s] : rows[s][i].resp # NoTurn}
<1>1. DOMAIN rows[s] = 1..Len(rows[s]) /\ Len(rows[s]) \in Nat
  BY SessionTyped
<1>2. CASE answered = {}
  BY <1>2, Constants DEF LatestResponse
<1>3. CASE answered # {}
  <2>1. answered \subseteq 0..Len(rows[s])
    BY <1>1
  <2>2. Max(answered) \in DOMAIN rows[s]
    BY <1>1, <1>3, <2>1, MaxIs
  <2>3. rows[s][Max(answered)] \in Message
    BY <2>2, SessionTyped
  <2>. QED
    BY <1>3, <2>3, MessageTyped DEF LatestResponse
<1>. QED
  BY <1>2, <1>3

\* The response to continue is read.
LEMMA ReadPreviousKeeps ==
    ASSUME ManagerInv, NEW s \in Session, ReadPrevious(s)
    PROVE  ManagerInv'
<1>1. TypeOK /\ SessionInv(s)
  BY DEF ManagerInv
<1>2. At(s, "read") /\ UNCHANGED <<queueVars, setupVars, history, reports>>
  BY DEF ReadPrevious
<1>3. CASE StoreFails /\ Abandon(s)
  <2>1. faults' \in 0..MaxFaults
    BY <1>1, <1>3, FaultTyped DEF StoreFails
  <2>. QED
    BY <1>2, <1>3, <2>1, AbandonKeeps
<1>4. CASE /\ handler' = [handler EXCEPT ![s].pc = "user", ![s].prev = LatestResponse(s)]
           /\ UNCHANGED <<faultVars, rows>>
  <2>1. handler \in [Session -> Handler] /\ handler[s] \in Handler
    BY <1>1 DEF TypeOK
  <2>. DEFINE h == [handler[s] EXCEPT !.pc = "user", !.prev = LatestResponse(s)]
  <2>2. h \in Handler /\ h.pc = "user" /\ h.row = handler[s].row /\ h.told = handler[s].told
        /\ h.stream = handler[s].stream
    BY <1>1, <2>1, LatestResponseTyped DEF Handler
  <2>3. handler' = [handler EXCEPT ![s] = h]
    BY <1>4, <2>1
  <2>. HIDE DEF h
  <2>4. handler' \in [Session -> Handler] /\ handler'[s] = h
        /\ \A r \in Session \ {s} : handler'[r] = handler[r]
    BY <2>1, <2>2, <2>3
  <2>5. /\ spoiled \subseteq spoiled' /\ spoiled' \subseteq Turn
        /\ reports' \in 0..MaxReports /\ faults' \in 0..MaxFaults
    BY <1>1, <1>2, <1>4 DEF TypeOK, faultVars
  <2>6. HandlerOnly(s)
    BY <1>1, <1>2, <1>4, <2>2, <2>4, <2>5, RowsStayTyped
  <2>7. Onwards /\ QueueStays(s)
    BY <1>2, <2>5 DEF Onwards, QueueStays, queueVars
  <2>8. Tells(handler'[s].stream.tools, handler'[s].told)
    BY <1>1, <2>2, <2>4 DEF SessionInv, HandlerInStep
  <2>9. SessionInv(s)'
    <3>1. ~ At(s, "none") /\ ~ At(s, "assistant")
      BY <1>2 DEF At
    <3>2. /\ ~ At(s, "none")' /\ ~ At(s, "assistant")' /\ ~ At(s, "run")'
          /\ ~ At(s, "settle")' /\ ~ At(s, "return")'
      BY <2>2, <2>4 DEF At
    <3>. QED
      BY <1>1, <1>4, <2>7, <2>8, <3>1, <3>2, HandlerGoesOn
  <2>. QED
    BY <2>6, <2>9, HandlerStepKeeps
<1>. QED
  BY <1>3, <1>4 DEF ReadPrevious

\* A new row.
LEMMA InsertStepKeeps ==
    ASSUME ManagerInv, NEW s \in Session, NEW pc, NEW row \in Message, NEW next,
           Insert(s, pc, row, next), row.turn = Current(s), row.resp = NoTurn,
           \/ /\ pc = "user" /\ next = "assistant"
              /\ row.role = "user" /\ row.status = "completed"
           \/ /\ pc = "assistant" /\ next = "run"
              /\ row.role = "assistant" /\ row.status = "running"
    PROVE  ManagerInv'
<1>1. TypeOK /\ SessionInv(s)
  BY DEF ManagerInv
<1>2. At(s, pc) /\ UNCHANGED <<queueVars, setupVars, history, reports>>
  BY DEF Insert
<1>3. CASE StoreFails /\ Abandon(s)
  <2>1. faults' \in 0..MaxFaults
    BY <1>1, <1>3, FaultTyped DEF StoreFails
  <2>. QED
    BY <1>2, <1>3, <2>1, AbandonKeeps
<1>4. CASE /\ rows' = [rows EXCEPT ![s] = Append(@, row)]
           /\ handler' = [handler EXCEPT ![s].pc = next, ![s].row = Len(rows[s]) + 1]
           /\ UNCHANGED faultVars
  <2>1. /\ handler \in [Session -> Handler] /\ handler[s] \in Handler
        /\ rows \in [Session -> Seq(Message)] /\ rows[s] \in Seq(Message)
        /\ Len(rows[s]) \in Nat
    BY <1>1 DEF TypeOK
  <2>. DEFINE h == [handler[s] EXCEPT !.pc = next, !.row = Len(rows[s]) + 1]
  <2>2. h \in Handler /\ h.pc = next /\ h.row = Len(rows[s]) + 1 /\ h.told = handler[s].told
        /\ h.stream = handler[s].stream
    <3>1. next \in {"assistant", "run"} /\ Len(rows[s]) + 1 \in Nat
      BY <2>1
    <3>. QED
      BY <2>1, <3>1 DEF Handler
  <2>3. handler' = [handler EXCEPT ![s] = h]
    BY <1>4, <2>1
  <2>. HIDE DEF h
  <2>4. handler' \in [Session -> Handler] /\ handler'[s] = h
        /\ \A r \in Session \ {s} : handler'[r] = handler[r]
    BY <2>1, <2>2, <2>3
  <2>5. /\ Append(rows[s], row) \in Seq(Message)
        /\ Len(Append(rows[s], row)) = Len(rows[s]) + 1
        /\ \A i \in 1..Len(rows[s]) : Append(rows[s], row)[i] = rows[s][i]
        /\ Append(rows[s], row)[Len(rows[s]) + 1] = row
    BY <2>1, AppendProperties
  <2>6. rows' \in [Session -> Seq(Message)] /\ rows'[s] = Append(rows[s], row)
        /\ \A r \in Session \ {s} : rows'[r] = rows[r]
    BY <1>4, <2>1, <2>5
  <2>7. ASSUME NEW i \in DOMAIN rows'[s]
        PROVE  /\ rows'[s][i].resp \in {NoTurn, rows'[s][i].turn}
               /\ rows'[s][i].role = "user" => rows'[s][i].status = "completed"
    <3>1. i \in 1..(Len(rows[s]) + 1)
      BY <2>5, <2>6
    <3>2. CASE i = Len(rows[s]) + 1
      BY <2>5, <2>6, <3>2
    <3>3. CASE i \in 1..Len(rows[s])
      <4>1. rows'[s][i] = rows[s][i] /\ i \in DOMAIN rows[s]
        BY <2>1, <2>5, <2>6, <3>3
      <4>. QED
        BY <1>1, <4>1 DEF TypeOK
    <3>. QED
      BY <2>1, <3>1, <3>2, <3>3
  <2>8. /\ spoiled \subseteq spoiled' /\ spoiled' \subseteq Turn
        /\ reports' \in 0..MaxReports /\ faults' \in 0..MaxFaults
    BY <1>1, <1>2, <1>4 DEF TypeOK, faultVars
  <2>9. handler'[s].row <= Len(rows'[s])
    BY <2>1, <2>2, <2>4, <2>5, <2>6
  <2>10. HandlerOnly(s)
    BY <1>2, <2>4, <2>6, <2>7, <2>8, <2>9 DEF HandlerOnly
  <2>11. Onwards /\ QueueStays(s)
    BY <1>2, <2>8 DEF Onwards, QueueStays, queueVars
  <2>12. SessionInv(s)'
    BY <1>1, <1>2, <2>2, <2>4, <2>6, <2>11, InsertKeeps DEF At
  <2>. QED
    BY <2>10, <2>12, HandlerStepKeeps
<1>. QED
  BY <1>3, <1>4 DEF Insert

\* A row of the handler's turn.
LEMMA RowIs ==
    ASSUME TypeOK, NEW s \in Session, SessionInv(s), ~ At(s, "none"),
           NEW role \in {"user", "assistant"}, NEW status \in {"running", "completed", "failed"},
           NEW said \in Said
    PROVE  /\ Row(s, role, status, said) \in Message
           /\ Row(s, role, status, said).turn = Current(s)
           /\ Row(s, role, status, said).role = role
           /\ Row(s, role, status, said).status = status
           /\ Row(s, role, status, said).resp = NoTurn
<1>1. Current(s) \in Turn
  BY CurrentIs
<1>2. handler[s].prev \in 0..MaxTurns
  BY SessionTyped, HandlerTyped
<1>3. << >> \in Seq(ToolEvent)
  BY EmptySeq
<1>. QED
  BY <1>1, <1>2, <1>3, Constants DEF Row, Message, Text

\* The user's message and the reply to come are inserted.
LEMMA InsertRowsKeep ==
    ASSUME ManagerInv, NEW s \in Session, InsertUserRow(s) \/ InsertAssistantRow(s)
    PROVE  ManagerInv'
<1>1. TypeOK /\ SessionInv(s)
  BY DEF ManagerInv
<1>2. Stream("reply", <<>>) \in Said /\ NothingSaid \in Said
  <2>1. << >> \in Seq(Tool)
    BY EmptySeq
  <2>. QED
    BY <2>1 DEF Stream, NothingSaid, Said, Text
<1>3. CASE InsertUserRow(s)
  <2>1. ~ At(s, "none")
    BY <1>3 DEF InsertUserRow, Insert, At
  <2>. DEFINE row == Row(s, "user", "completed", Stream("reply", <<>>))
  <2>2. /\ row \in Message /\ row.turn = Current(s) /\ row.role = "user"
        /\ row.status = "completed" /\ row.resp = NoTurn
    BY <1>1, <1>2, <2>1, RowIs
  <2>3. Insert(s, "user", row, "assistant")
    BY <1>3 DEF InsertUserRow
  <2>. HIDE DEF row
  <2>. QED
    BY <2>2, <2>3, InsertStepKeeps
<1>4. CASE InsertAssistantRow(s)
  <2>1. ~ At(s, "none")
    BY <1>4 DEF InsertAssistantRow, Insert, At
  <2>. DEFINE row == Row(s, "assistant", "running", NothingSaid)
  <2>2. /\ row \in Message /\ row.turn = Current(s) /\ row.role = "assistant"
        /\ row.status = "running" /\ row.resp = NoTurn
    BY <1>1, <1>2, <2>1, RowIs
  <2>3. Insert(s, "assistant", row, "run")
    BY <1>4 DEF InsertAssistantRow
  <2>. HIDE DEF row
  <2>. QED
    BY <2>2, <2>3, InsertStepKeeps
<1>. QED
  BY <1>3, <1>4

\* The handler rewrites its row, the newest one of its session.
LEMMA WriteStepKeeps ==
    ASSUME ManagerInv, NEW s \in Session, At(s, "run") \/ At(s, "settle"),
           NEW row \in Message, row.turn = Current(s), row.role = "assistant",
           row.resp \in {NoTurn, row.turn}, RowTells(row),
           rows' = [rows EXCEPT ![s] = [rows[s] EXCEPT ![Len(rows[s])] = row]],
           handler' \in [Session -> Handler],
           \A r \in Session \ {s} : handler'[r] = handler[r],
           handler'[s].pc \in {"run", "settle", "return"}, handler'[s].row = handler[s].row,
           handler'[s].pc = "return" => row.status # "running" \/ Current(s) \in spoiled',
           Tells(handler'[s].stream.tools, handler'[s].told),
           UNCHANGED <<queueVars, setupVars, history>>,
           spoiled \subseteq spoiled', spoiled' \subseteq Turn,
           reports' \in 0..MaxReports, faults' \in 0..MaxFaults
    PROVE  ManagerInv'
<1>1. TypeOK /\ SessionInv(s)
  BY DEF ManagerInv
<1>2. OwnRow(s, "assistant") /\ ~ At(s, "none") /\ ~ At(s, "assistant")
  BY <1>1 DEF SessionInv, HandlerInStep, At
<1>3. /\ rows \in [Session -> Seq(Message)] /\ rows[s] \in Seq(Message)
      /\ Len(rows[s]) \in DOMAIN rows[s]
  BY <1>1, <1>2, OwnRowIs DEF TypeOK
<1>. DEFINE new == [rows[s] EXCEPT ![Len(rows[s])] = row]
<1>4. new \in Seq(Message) /\ DOMAIN new = DOMAIN rows[s] /\ Len(new) = Len(rows[s])
      /\ new[Len(rows[s])] = row
      /\ \A i \in DOMAIN rows[s] : i # Len(rows[s]) => new[i] = rows[s][i]
  <2>1. new \in Seq(Message) /\ DOMAIN new = DOMAIN rows[s]
        /\ new[Len(rows[s])] = row
        /\ \A i \in DOMAIN rows[s] : i # Len(rows[s]) => new[i] = rows[s][i]
    BY <1>3, ExceptSeq
  <2>. QED
    BY <1>3, <2>1, LenProperties
<1>. HIDE DEF new
<1>5. rows' \in [Session -> Seq(Message)] /\ rows'[s] = new
      /\ \A r \in Session \ {s} : rows'[r] = rows[r]
  BY <1>3, <1>4 DEF new
<1>6. ASSUME NEW i \in DOMAIN rows'[s]
      PROVE  /\ rows'[s][i].resp \in {NoTurn, rows'[s][i].turn}
             /\ rows'[s][i].role = "user" => rows'[s][i].status = "completed"
  <2>1. CASE i = Len(rows[s])
    BY <1>4, <1>5, <2>1
  <2>2. CASE i # Len(rows[s])
    <3>1. rows'[s][i] = rows[s][i] /\ i \in DOMAIN rows[s]
      BY <1>4, <1>5, <2>2
    <3>. QED
      BY <1>1, <3>1 DEF TypeOK
  <2>. QED
    BY <2>1, <2>2
<1>7. handler'[s].row <= Len(rows'[s])
  BY <1>1, <1>4, <1>5, SessionTyped
<1>8. HandlerOnly(s)
  BY <1>5, <1>6, <1>7 DEF HandlerOnly
<1>9. Onwards /\ QueueStays(s)
  BY DEF Onwards, QueueStays, queueVars
<1>10. SessionInv(s)'
  BY <1>1, <1>2, <1>5, <1>9, WriteKeeps DEF new
<1>. QED
  BY <1>8, <1>10, HandlerStepKeeps

--------------------------------------------------------------------------------
(* The run.                                                                     *)

\* The runner reports something.
LEMMA ReportKeeps ==
    ASSUME ManagerInv, NEW s \in Session, NEW stream \in Said, NEW told \in Seq(ToolEvent),
           Tells(stream.tools, told), Report(s, stream, told)
    PROVE  ManagerInv'
<1>1. TypeOK /\ SessionInv(s)
  BY DEF ManagerInv
<1>2. /\ At(s, "run") /\ reports < MaxReports /\ reports' = reports + 1
      /\ UNCHANGED <<queueVars, setupVars, history, spoiled>>
  BY DEF Report
<1>3. handler \in [Session -> Handler] /\ handler[s] \in Handler
  BY <1>1 DEF TypeOK
<1>4. /\ spoiled \subseteq spoiled' /\ spoiled' \subseteq Turn /\ reports' \in 0..MaxReports
  BY <1>1, <1>2, Constants DEF TypeOK
<1>5. OwnRow(s, "assistant") /\ ~ At(s, "none") /\ ~ At(s, "assistant")
  BY <1>1, <1>2 DEF SessionInv, HandlerInStep, At
<1>6. /\ handler[s].row = Len(rows[s]) /\ rows[s][Len(rows[s])] \in Message
      /\ rows[s][Len(rows[s])].role = "assistant"
      /\ rows[s][Len(rows[s])].turn = Current(s) /\ Len(rows[s]) \in DOMAIN rows[s]
  BY <1>1, <1>5, OwnRowIs
<1>7. CASE /\ Update(s, stream, "running", NoTurn)
           /\ handler' = [handler EXCEPT ![s].stream = stream, ![s].told = told,
                                         ![s].flushed = TRUE]
           /\ UNCHANGED faults
  <2>. DEFINE h == [handler[s] EXCEPT !.stream = stream, !.told = told, !.flushed = TRUE]
  <2>1. h \in Handler /\ h.pc = "run" /\ h.row = handler[s].row /\ h.told = told
        /\ h.stream = stream
    BY <1>2, <1>3 DEF Handler, At
  <2>2. handler' = [handler EXCEPT ![s] = h]
    BY <1>3, <1>7
  <2>. HIDE DEF h
  <2>3. handler' \in [Session -> Handler] /\ handler'[s] = h
        /\ \A r \in Session \ {s} : handler'[r] = handler[r]
    BY <1>3, <2>1, <2>2
  <2>. DEFINE old == rows[s][Len(rows[s])]
              row == [old EXCEPT !.said = stream, !.status = "running", !.resp = old.resp]
  <2>4. rows' = [rows EXCEPT ![s] = [rows[s] EXCEPT ![Len(rows[s])] = row]]
    BY <1>6, <1>7 DEF Update
  <2>5. old.resp \in {NoTurn, old.turn}
    BY <1>1, <1>6 DEF TypeOK
  <2>6. old \in Message
    BY <1>6
  <2>. HIDE DEF old
  <2>7. /\ row \in Message /\ row.turn = old.turn /\ row.role = old.role
        /\ row.resp = old.resp /\ row.status = "running"
    BY <2>6 DEF Message
  <2>8. old.turn = Current(s) /\ old.role = "assistant"
    BY <1>6 DEF old
  <2>. HIDE DEF row
  <2>9. RowTells(row)
    BY <2>7 DEF RowTells
  <2>10. faults' \in 0..MaxFaults
    BY <1>1, <1>7 DEF TypeOK
  <2>11. rows' = [rows EXCEPT ![s] = [rows[s] EXCEPT ![Len(rows[s])] = row]]
    BY <2>4 DEF row, old
  <2>12. handler'[s].pc \in {"run", "settle", "return"} /\ handler'[s].pc # "return"
         /\ handler'[s].row = handler[s].row
         /\ Tells(handler'[s].stream.tools, handler'[s].told)
    BY <2>1, <2>3
  <2>. QED
    BY <1>2, <1>4, <2>3, <2>5, <2>7, <2>8, <2>9, <2>10, <2>11, <2>12, WriteStepKeeps
<1>8. CASE /\ (handler[s].flushed /\ UNCHANGED faults) \/ StoreFails
           /\ handler' = [handler EXCEPT ![s].stream = stream, ![s].told = told]
           /\ UNCHANGED rows
  <2>. DEFINE h == [handler[s] EXCEPT !.stream = stream, !.told = told]
  <2>1. h \in Handler /\ h.pc = "run" /\ h.row = handler[s].row /\ h.told = told
        /\ h.stream = stream
    BY <1>2, <1>3 DEF Handler, At
  <2>2. handler' = [handler EXCEPT ![s] = h]
    BY <1>3, <1>8
  <2>. HIDE DEF h
  <2>3. handler' \in [Session -> Handler] /\ handler'[s] = h
        /\ \A r \in Session \ {s} : handler'[r] = handler[r]
    BY <1>3, <2>1, <2>2
  <2>4. faults' \in 0..MaxFaults
    BY <1>1, <1>8, FaultTyped DEF TypeOK, StoreFails
  <2>5. HandlerOnly(s)
    BY <1>1, <1>2, <1>4, <1>8, <2>1, <2>3, <2>4, RowsStayTyped
  <2>6. Onwards /\ QueueStays(s)
    BY <1>2 DEF Onwards, QueueStays, queueVars
  <2>7. SessionInv(s)'
    <3>1. /\ ~ At(s, "none")' /\ ~ At(s, "assistant")' /\ ~ At(s, "return")'
      BY <2>1, <2>3 DEF At
    <3>2. OwnRow(s, "assistant")'
      BY <1>2, <1>5, <1>8, <2>1, <2>3 DEF OwnRow, Current, queueVars
    <3>3. Tells(handler'[s].stream.tools, handler'[s].told)
      BY <2>1, <2>3
    <3>. QED
      BY <1>1, <1>5, <1>8, <2>6, <3>1, <3>2, <3>3, HandlerGoesOn
  <2>. QED
    BY <2>5, <2>7, HandlerStepKeeps
<1>. QED
  BY <1>7, <1>8 DEF Report

\* Text and tool calls are streamed.
LEMMA StreamKeeps ==
    ASSUME ManagerInv, NEW s \in Session,
           Delta(s) \/ \E ev \in ToolEvent : OnToolEvent(s, ev)
    PROVE  ManagerInv'
<1>1. TypeOK /\ Tells(handler[s].stream.tools, handler[s].told)
  BY DEF ManagerInv, SessionInv, HandlerInStep
<1>2. /\ handler[s].told \in Seq(ToolEvent)
      /\ handler[s].stream.text \in Text /\ handler[s].stream.tools \in Seq(Tool)
  BY <1>1, SessionTyped, HandlerTyped
<1>3. CASE Delta(s)
  <2>. DEFINE stream == Stream("partial", handler[s].stream.tools)
  <2>1. stream \in Said /\ stream.tools = handler[s].stream.tools
    BY <1>2 DEF Stream, Said, Text
  <2>2. Report(s, stream, handler[s].told)
    BY <1>3 DEF Delta
  <2>. HIDE DEF stream
  <2>. QED
    BY <1>1, <1>2, <2>1, <2>2, ReportKeeps
<1>4. ASSUME NEW ev \in ToolEvent, OnToolEvent(s, ev) PROVE ManagerInv'
  <2>. DEFINE tools == WithEvent(handler[s].stream.tools, ev)
              told == Append(handler[s].told, ev)
              stream == Stream(handler[s].stream.text, tools)
  <2>1. Tells(tools, told) /\ tools \in Seq(Tool)
    BY <1>1, <1>2, TellsOn
  <2>2. told \in Seq(ToolEvent)
    BY <1>2, AppendProperties
  <2>. HIDE DEF tools, told
  <2>3. stream \in Said /\ stream.tools = tools
    BY <1>2, <2>1 DEF Stream, Said
  <2>4. Report(s, stream, told)
    BY <1>4 DEF OnToolEvent, tools, told
  <2>. HIDE DEF stream
  <2>. QED
    BY <2>1, <2>2, <2>3, <2>4, ReportKeeps
<1>. QED
  BY <1>3, <1>4

\* The runner returns.
LEMMA RunnerReturnsKeeps ==
    ASSUME ManagerInv, NEW s \in Session, NEW out \in {"reply", "blank", "error"},
           RunnerReturns(s, out)
    PROVE  ManagerInv'
<1>1. TypeOK /\ SessionInv(s)
  BY DEF ManagerInv
<1>2. /\ At(s, "run") /\ UNCHANGED <<queueVars, setupVars, history, reports, rows, faultVars>>
      /\ handler' = [handler EXCEPT ![s].pc = "settle", ![s].out = out]
  BY DEF RunnerReturns
<1>3. handler \in [Session -> Handler] /\ handler[s] \in Handler
  BY <1>1 DEF TypeOK
<1>. DEFINE h == [handler[s] EXCEPT !.pc = "settle", !.out = out]
<1>4. h \in Handler /\ h.pc = "settle" /\ h.row = handler[s].row /\ h.told = handler[s].told
      /\ h.stream = handler[s].stream
  BY <1>3 DEF Handler
<1>5. handler' = [handler EXCEPT ![s] = h]
  BY <1>2, <1>3
<1>. HIDE DEF h
<1>6. handler' \in [Session -> Handler] /\ handler'[s] = h
      /\ \A r \in Session \ {s} : handler'[r] = handler[r]
  BY <1>3, <1>4, <1>5
<1>7. /\ spoiled \subseteq spoiled' /\ spoiled' \subseteq Turn
      /\ reports' \in 0..MaxReports /\ faults' \in 0..MaxFaults
  BY <1>1, <1>2 DEF TypeOK, faultVars
<1>8. HandlerOnly(s)
  BY <1>1, <1>2, <1>4, <1>6, <1>7, RowsStayTyped
<1>9. Onwards /\ QueueStays(s)
  BY <1>2, <1>7 DEF Onwards, QueueStays, queueVars
<1>10. SessionInv(s)'
  <2>1. OwnRow(s, "assistant") /\ ~ At(s, "none") /\ ~ At(s, "assistant")
    BY <1>1, <1>2 DEF SessionInv, HandlerInStep, At
  <2>2. /\ ~ At(s, "none")' /\ ~ At(s, "assistant")' /\ ~ At(s, "return")'
    BY <1>4, <1>6 DEF At
  <2>3. OwnRow(s, "assistant")'
    BY <1>2, <1>4, <1>6, <2>1 DEF OwnRow, Current, queueVars
  <2>4. Tells(handler'[s].stream.tools, handler'[s].told)
    BY <1>1, <1>4, <1>6 DEF SessionInv, HandlerInStep
  <2>. QED
    BY <1>1, <1>2, <1>9, <2>1, <2>2, <2>3, <2>4, HandlerGoesOn
<1>. QED
  BY <1>8, <1>10, HandlerStepKeeps

\* The last write of a run, or its failure.
LEMMA SettleKeeps ==
    ASSUME ManagerInv, NEW s \in Session, Settle(s)
    PROVE  ManagerInv'
<1>1. TypeOK /\ SessionInv(s)
  BY DEF ManagerInv
<1>2. /\ At(s, "settle") /\ GoTo(s, "return")
      /\ UNCHANGED <<queueVars, setupVars, history, reports>>
  BY DEF Settle
<1>3. OwnRow(s, "assistant") /\ ~ At(s, "none") /\ ~ At(s, "assistant")
  BY <1>1, <1>2 DEF SessionInv, HandlerInStep, At
<1>4. /\ handler[s].row = Len(rows[s]) /\ rows[s][Len(rows[s])] \in Message
      /\ rows[s][Len(rows[s])].role = "assistant"
      /\ rows[s][Len(rows[s])].turn = Current(s) /\ Len(rows[s]) \in DOMAIN rows[s]
  BY <1>1, <1>3, OwnRowIs
<1>5. /\ handler' \in [Session -> Handler] /\ handler'[s].pc = "return"
      /\ handler'[s].row = handler[s].row /\ handler'[s].told = handler[s].told
      /\ handler'[s].stream = handler[s].stream
      /\ \A r \in Session \ {s} : handler'[r] = handler[r]
  BY <1>1, <1>2, GoToIs
<1>6. Tells(handler'[s].stream.tools, handler'[s].told)
  BY <1>1, <1>5 DEF SessionInv, HandlerInStep
<1>7. Current(s) \in Turn
  BY <1>1, <1>3, CurrentIs
<1>8. CASE StoreFails /\ spoiled' = spoiled \union {Current(s)} /\ UNCHANGED rows
  <2>1. /\ spoiled \subseteq spoiled' /\ spoiled' \subseteq Turn
        /\ reports' \in 0..MaxReports /\ faults' \in 0..MaxFaults
    BY <1>1, <1>2, <1>7, <1>8, FaultTyped DEF TypeOK, StoreFails
  <2>2. HandlerOnly(s)
    BY <1>1, <1>2, <1>5, <1>8, <2>1, RowsStayTyped
  <2>3. Onwards /\ QueueStays(s)
    BY <1>2, <2>1 DEF Onwards, QueueStays, queueVars
  <2>4. SessionInv(s)'
    <3>1. /\ ~ At(s, "none")' /\ ~ At(s, "assistant")' /\ ~ At(s, "run")' /\ ~ At(s, "settle")'
      BY <1>5 DEF At
    <3>. QED
      BY <1>1, <1>3, <1>6, <1>8, <2>3, <3>1, HandlerGoesOn
  <2>. QED
    BY <2>2, <2>4, HandlerStepKeeps
<1>9. CASE SettleWrite(s) /\ UNCHANGED faultVars
  <2>. DEFINE old == rows[s][Len(rows[s])]
  <2>0. /\ spoiled \subseteq spoiled' /\ spoiled' \subseteq Turn
        /\ reports' \in 0..MaxReports /\ faults' \in 0..MaxFaults
    BY <1>1, <1>2, <1>9 DEF TypeOK, faultVars
  <2>1. old \in Message /\ old.turn = Current(s) /\ old.role = "assistant"
    BY <1>4
  <2>2. old.resp \in {NoTurn, old.turn}
    BY <1>1, <1>4 DEF TypeOK
  <2>3. \E row \in Message :
           /\ row.turn = Current(s) /\ row.role = "assistant" /\ row.status # "running"
           /\ row.resp \in {NoTurn, row.turn} /\ RowTells(row)
           /\ rows' = [rows EXCEPT ![s] = [rows[s] EXCEPT ![Len(rows[s])] = row]]
    <3>1. CASE handler[s].out = "error"
      <4>. DEFINE row == [old EXCEPT !.said = NothingSaid, !.status = "failed",
                                     !.resp = old.resp]
      <4>1. rows' = [rows EXCEPT ![s] = [rows[s] EXCEPT ![Len(rows[s])] = row]]
        BY <1>4, <1>9, <3>1 DEF SettleWrite, Update
      <4>. HIDE DEF old
      <4>2. NothingSaid \in Said
        BY EmptySeq DEF NothingSaid, Stream, Said, Text
      <4>3. /\ row \in Message /\ row.turn = old.turn /\ row.role = old.role
            /\ row.resp = old.resp /\ row.status = "failed"
        BY <2>1, <4>2 DEF Message
      <4>. HIDE DEF row
      <4>4. RowTells(row)
        BY <4>3 DEF RowTells
      <4>5. rows' = [rows EXCEPT ![s] = [rows[s] EXCEPT ![Len(rows[s])] = row]]
        BY <4>1 DEF row, old
      <4>. QED
        BY <2>1, <2>2, <4>3, <4>4, <4>5
    <3>2. CASE handler[s].out # "error"
      <4>. DEFINE said == Stream(FinalText(s), handler[s].stream.tools)
                  told == [text |-> FinalText(s), events |-> handler[s].told]
                  resp == IF runner = "context" THEN Current(s) ELSE old.resp
                  row == [old EXCEPT !.said = said, !.status = "completed", !.resp = resp,
                                     !.told = told]
      <4>1. rows' = [rows EXCEPT ![s] = [rows[s] EXCEPT ![Len(rows[s])] = row]]
        BY <1>4, <1>9, <3>2 DEF SettleWrite
      <4>2. /\ handler[s].told \in Seq(ToolEvent)
            /\ handler[s].stream.text \in Text /\ handler[s].stream.tools \in Seq(Tool)
        BY <1>1, SessionTyped, HandlerTyped
      <4>3. FinalText(s) \in Text
        BY <4>2 DEF FinalText, Text
      <4>4. /\ said \in Said /\ said.text = FinalText(s)
            /\ said.tools = handler[s].stream.tools
        BY <4>2, <4>3 DEF Stream, Said
      <4>5. /\ told \in [text : Text, events : Seq(ToolEvent)] /\ told.text = FinalText(s)
            /\ told.events = handler[s].told
        BY <4>2, <4>3
      <4>6. resp \in {NoTurn, old.turn} /\ resp \in 0..MaxTurns
        <5>1. Current(s) \in 0..MaxTurns /\ NoTurn \in 0..MaxTurns
          BY <1>7, Constants
        <5>. QED
          BY <2>1, <2>2, <5>1
      <4>. HIDE DEF said, told, resp, old
      <4>7. /\ row \in Message /\ row.turn = old.turn /\ row.role = old.role
            /\ row.resp = resp /\ row.status = "completed" /\ row.said = said
            /\ row.told = told
        BY <2>1, <4>4, <4>5, <4>6 DEF Message
      <4>. HIDE DEF row
      <4>8. RowTells(row)
        <5>1. Tells(handler[s].stream.tools, handler[s].told)
          BY <1>1 DEF SessionInv, HandlerInStep
        <5>. QED
          BY <4>4, <4>5, <4>7, <5>1 DEF RowTells
      <4>9. rows' = [rows EXCEPT ![s] = [rows[s] EXCEPT ![Len(rows[s])] = row]]
        BY <4>1 DEF row, old, said, told, resp
      <4>. QED
        BY <2>1, <4>6, <4>7, <4>8, <4>9
    <3>. QED
      BY <3>1, <3>2
  <2>4. PICK row \in Message :
           /\ row.turn = Current(s) /\ row.role = "assistant" /\ row.status # "running"
           /\ row.resp \in {NoTurn, row.turn} /\ RowTells(row)
           /\ rows' = [rows EXCEPT ![s] = [rows[s] EXCEPT ![Len(rows[s])] = row]]
    BY <2>3
  <2>. QED
    BY <1>2, <1>5, <1>6, <2>0, <2>4, WriteStepKeeps
<1>. QED
  BY <1>8, <1>9 DEF Settle

--------------------------------------------------------------------------------
(* The invariant, and what it implies.                                          *)

\* Initially nothing has been posted.
LEMMA InitKeeps ==
    ASSUME Init
    PROVE  ManagerInv
<1>. USE DEF Init
<1>1. \A s \in Session : log[s] = << >> /\ started[s] = 0 /\ finished[s] = 0
                         /\ rows[s] = << >> /\ handler[s] = NoHandler
  BY DEF Serial!SpecInit
<1>2. \A e \in Turn : history[e] = NotPosted
  OBVIOUS
<1>3. /\ NoHandler.pc = "none" /\ NoHandler.row = 0 /\ NoHandler.told = << >>
      /\ NoHandler.stream.tools = << >>
  BY DEF NoHandler, NothingSaid, Stream
<1>4. TypeOK
  <2>1. NoHandler \in Handler
    <3>1. << >> \in Seq(Tool) /\ << >> \in Seq(ToolEvent)
      BY EmptySeq
    <3>. QED
      BY <3>1, Constants DEF NoHandler, NothingSaid, Stream, Handler, Said, Text
  <2>2. /\ log \in [Session -> Seq(Turn)] /\ started \in [Session -> Nat]
        /\ finished \in [Session -> Nat] /\ handler \in [Session -> Handler]
        /\ rows \in [Session -> Seq(Message)]
    <3>1. << >> \in Seq(Turn) /\ << >> \in Seq(Message)
      BY EmptySeq
    <3>. QED
      BY <2>1, <3>1 DEF Serial!SpecInit
  <2>3. ASSUME NEW s \in Session
        PROVE  /\ finished[s] <= started[s] /\ started[s] <= Len(log[s])
               /\ handler[s].row <= Len(rows[s]) /\ DOMAIN rows[s] = {}
    <3>1. Len(log[s]) = 0 /\ Len(rows[s]) = 0
      BY <1>1, EmptySeq
    <3>. QED
      BY <1>1, <1>3, <3>1
  <2>4. history \in [Turn -> [rows : Nat \union {-1}, said : SUBSET Nat, shown : SUBSET Nat]]
    BY DEF NotPosted
  <2>5. reports \in 0..MaxReports /\ faults \in 0..MaxFaults /\ spoiled \subseteq Turn
        /\ cancelled = {} /\ sessions \subseteq Session
    BY Constants DEF Serial!SpecInit
  <2>. QED
    BY <2>2, <2>3, <2>4, <2>5 DEF TypeOK
<1>5. PostedInOrder
  BY <1>2 DEF PostedInOrder
<1>6. \A e \in Turn : ShowsSaid(history[e])
  BY <1>2 DEF ShowsSaid, NotPosted
<1>7. ASSUME NEW s \in Session PROVE SessionInv(s)
  <2>1. DOMAIN log[s] = {} /\ DOMAIN rows[s] = {}
    BY <1>1
  <2>2. LogInOrder(s) /\ RowsOfTurns(s) /\ Paired(s) /\ DoneIsSettled(s)
    BY <2>1 DEF LogInOrder, RowsOfTurns, Paired, DoneIsSettled
  <2>3. HandlerInStep(s)
    BY <1>1, <1>3, SilenceTells DEF HandlerInStep, At
  <2>. QED
    BY <2>1, <2>2, <2>3 DEF SessionInv
<1>. QED
  BY <1>4, <1>5, <1>6, <1>7 DEF ManagerInv

\* Every step keeps it.
LEMMA NextKeeps ==
    ASSUME ManagerInv, [Next]_vars
    PROVE  ManagerInv'
<1>1. TypeOK
  BY DEF ManagerInv
<1>2. ASSUME NEW s \in Session, CreateSession(s) PROVE ManagerInv'
  <2>1. /\ UNCHANGED <<queueVars, runner, spoiled, saidVars>>
        /\ sessions' \subseteq Session /\ listed' \in BOOLEAN /\ faults' \in 0..MaxFaults
    BY <1>1, <1>2 DEF CreateSession, faultVars, TypeOK
  <2>. QED
    BY <2>1, SetupKeeps
<1>3. CASE RemoveProject
  <2>1. /\ UNCHANGED <<queueVars, runner, spoiled, saidVars>>
        /\ sessions' \subseteq Session /\ listed' \in BOOLEAN
    BY <1>1, <1>3 DEF RemoveProject, TypeOK
  <2>2. faults' \in 0..MaxFaults
    BY <1>1, <1>3, FaultTyped DEF RemoveProject
  <2>. QED
    BY <2>1, <2>2, SetupKeeps
<1>4. CASE AddProject
  <2>1. /\ UNCHANGED <<queueVars, runner, spoiled, saidVars>>
        /\ sessions' \subseteq Session /\ listed' \in BOOLEAN /\ faults' \in 0..MaxFaults
    BY <1>1, <1>4 DEF AddProject, faultVars, TypeOK
  <2>. QED
    BY <2>1, SetupKeeps
<1>5. CASE UNCHANGED vars
  <2>1. /\ UNCHANGED <<queueVars, runner, spoiled, saidVars>>
        /\ sessions' \subseteq Session /\ listed' \in BOOLEAN /\ faults' \in 0..MaxFaults
    BY <1>1, <1>5 DEF vars, setupVars, faultVars, saidVars, TypeOK
  <2>. QED
    BY <2>1, SetupKeeps
<1>6. ASSUME NEW s \in Session, HandlerStep(s) PROVE ManagerInv'
  BY <1>6, HandlerCalledKeeps, CheckKeeps, ReadPreviousKeeps, InsertRowsKeep, SettleKeeps,
     HandlerReturnedKeeps DEF HandlerStep
<1>7. ASSUME NEW s \in Session, RunnerStep(s) PROVE ManagerInv'
  BY <1>7, StreamKeeps, RunnerReturnsKeeps DEF RunnerStep
<1>. QED
  BY <1>2, <1>3, <1>4, <1>5, <1>6, <1>7, PostKeeps, CrashKeeps DEF Next

\* The inductive invariant holds in every state: queues, handlers and rows of every
\* session go together (runProjectManagerLoopEventHybrid).
THEOREM ManagerInvariant == Spec => []ManagerInv
<1>1. Init => ManagerInv
  BY InitKeeps
<1>2. ManagerInv /\ [Next]_vars => ManagerInv'
  BY NextKeeps
<1>. QED
  BY <1>1, <1>2, PTL DEF Spec

\* The types hold always; a response id is the turn's of its row.
THEOREM ManagerTyped == Spec => []TypeOK
<1>1. ManagerInv => TypeOK
  BY DEF ManagerInv
<1>. QED
  BY <1>1, ManagerInvariant, PTL

\* The rows of a session tell its messages in the order they were accepted, each
\* followed by its reply, and what the actor has done with is settled, whatever
\* fails and wherever the process stops (HandleEvent, project_manager_actor.go).
THEOREM TimelineKept == Spec => []TimelineIsLog
<1>. QED
  BY ManagerInvariant, TimelineHolds, PTL

\* A completed reply tells all the runner has reported of it, every tool call once
\* with the state its last event gave it (upsertToolState, flushRunning).
THEOREM RepliesTell == Spec => []ReplyTellsAll
<1>1. ManagerInv => ReplyTellsAll
  BY DEF ManagerInv, SessionInv, ReplyTellsAll
<1>. QED
  BY <1>1, ManagerInvariant, PTL

\* A run's history holds every message completed when it was posted, up to the
\* newest HistoryMax, while the listing returns all rows (buildPMHistoryBlock).
THEOREM HistoryTells == Spec => []HistoryTellsSettled
<1>1. ManagerInv => HistoryTellsSettled
  <2>. SUFFICES ASSUME ManagerInv, NEW s \in Session, At(s, "run")
                PROVE  ShowsSaid(history[Current(s)])
    BY DEF HistoryTellsSettled
  <2>1. TypeOK /\ SessionInv(s) /\ ~ At(s, "none")
    BY DEF ManagerInv, At
  <2>2. Current(s) \in Turn
    BY <2>1, CurrentIs
  <2>. QED
    BY <2>2 DEF ManagerInv
<1>. QED
  BY <1>1, ManagerInvariant, PTL

================================================================================
