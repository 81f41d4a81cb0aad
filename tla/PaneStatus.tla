------------------------------- MODULE PaneStatus -------------------------------
(* How a pane actor decides whether a pane is running or ready                  *)
(* (cli/cmd/shellman: runtime_pane_actor.go, session_status.go,                 *)
(* autoprogress_suppression.go, input_activity_tracker.go).                     *)
(*                                                                              *)
(* The actor keeps the last snapshot of the pane, here only its hash. Whoever   *)
(* changes the snapshot or hears the status timer makes an evaluation: it notes *)
(* the time, reads the hash under the lock, advances the status and the timer   *)
(* under the lock a second time, and calls the auto-completion and the status   *)
(* hook without it. The goroutine of the output, subscriptions and any number   *)
(* of timer callbacks do so side by side.                                       *)
(*                                                                              *)
(* Points in time are kept as ages in ticks of 0.6 s, and a tick is what the    *)
(* goroutines may need for a step; ages beyond MaxAge are not told apart.       *)
EXTENDS Integers

CONSTANTS
    Hash,           \* values of snapshotChangeHash
    NoHash,
    Writer,         \* goroutines that change the snapshot: output, subscriptions
    Callback,       \* goroutines of fired timers; a bound, Go starts any number
    Delay,          \* ticks in toolHashTransitionFast: how long a status must persist
    MaxLag,         \* bound: ticks a goroutine needs between two steps
    MaxStall        \* bound: ticks an auto-completion takes

ASSUME PaneStatusAssumption ==
    /\ Hash # {} /\ NoHash \notin Hash
    /\ MaxLag \in Nat /\ Delay \in Nat /\ MaxStall \in Nat
    /\ MaxLag < Delay

Thread == Writer \cup Callback
MaxAge == Delay + MaxLag
Age == 0..MaxAge
Never == MaxAge + 1             \* a time.Time that is zero
NoDue == Delay + 1              \* no status timer
Status == {"", "unknown", "ready", "running"}

VARIABLES
    snap,           \* the hash of lastSnap
    state,          \* statusState; candSince and lastActive as ages
    startup,        \* startupHash, NoHash while it is not captured
    armed,          \* autoProcessArmed
    due,            \* ticks to statusEvalDueAt, negative when it is past
    thread,         \* what every goroutine is doing
    shown,          \* the status last given to the status hook
    ended,          \* NotifyEnded has been called
    silent,         \* nothing is written to the pane any more
    quiet,          \* history: age of the last change of snap
    fresh           \* history: snap has changed since the last completion

statusVars == <<snap, state, startup, armed, due, thread, shown, ended, silent,
                quiet, fresh>>

Idle == [pc |-> "idle", hash |-> NoHash, age |-> 0, status |-> "", valid |-> FALSE,
         quiet |-> 0, current |-> FALSE]

StatusTypeOK ==
    /\ snap \in Hash /\ startup \in Hash \cup {NoHash}
    /\ state \in [prevHash : Hash \cup {NoHash}, emitted : Status, candidate : Status,
                  candSince : Age \cup {Never}, lastActive : Age \cup {Never}]
    /\ due \in (-MaxAge)..NoDue
    /\ thread \in [Thread -> [pc : {"idle", "fired", "read", "advance", "complete", "hook"},
                              hash : Hash \cup {NoHash}, age : 0..MaxStall + MaxAge,
                              status : Status, valid : BOOLEAN, quiet : Age,
                              current : BOOLEAN]]
    /\ shown \in Status
    /\ quiet \in Age
    /\ \A x \in {armed, ended, silent, fresh} : x \in BOOLEAN

Cold == [prevHash |-> NoHash, emitted |-> "", candidate |-> "",
         candSince |-> Never, lastActive |-> Never]

(* A pane that was known before the program was restarted starts from what was  *)
(* stored of it, whose times are long past.                                     *)
Baseline(status, hash, active) ==
    [prevHash |-> hash, emitted |-> status, candidate |-> status,
     candSince |-> IF active = Never THEN 0 ELSE active, lastActive |-> active]

StatusInit ==
    /\ snap = CHOOSE h \in Hash : TRUE     \* any will do
    /\ state \in {Cold} \cup {Baseline(s, h, a) : s \in {"unknown", "ready", "running"},
                                h \in Hash \cup {NoHash}, a \in {MaxAge, Never}}
    /\ startup = NoHash /\ armed = FALSE
    /\ due = NoDue
    /\ thread = [t \in Thread |-> Idle]
    /\ shown = "unknown" /\ ended = FALSE /\ silent = FALSE
    /\ quiet = MaxAge /\ fresh = TRUE

-----------------------------------------------------------------------------
(* Who makes an evaluation, and when.                                           *)

(* A snapshot that has changed has a hash of its own: the text only grows or is *)
(* captured anew. When it has not, the hash stays, and two texts may share one. *)
MayBecome(new) == new = snap \/ new \notin {state.prevHash} \cup {thread[t].hash : t \in Thread}

Changed(new) ==
    IF new = snap THEN UNCHANGED <<quiet, fresh>> ELSE quiet' = 0 /\ fresh' = TRUE

Outdate(th, new) ==
    [t \in Thread |-> [th[t] EXCEPT !.current = @ /\ new = snap]]

(* The goroutine of the output appends a chunk to the snapshot, and a           *)
(* subscription replaces it by what it has captured, which need not be the text *)
(* that has been put together from the output.                                  *)
Write(t, new) ==
    /\ ~silent /\ thread[t].pc = "idle" /\ MayBecome(new)
    /\ snap' = new
    /\ thread' = Outdate([thread EXCEPT ![t] = [Idle EXCEPT !.pc = "read"]], new)
    /\ Changed(new)
    /\ UNCHANGED <<state, startup, armed, due, shown, ended, silent>>

(* The runtime starts the callback of a timer that is due. A callback waits for *)
(* the lock; until it has it, the actor takes the timer for pending.            *)
TimerFires(t) ==
    /\ due <= 0
    /\ \A u \in Callback : ~thread[u].valid
    /\ thread[t].pc = "idle"
    /\ thread' = [thread EXCEPT ![t] = [Idle EXCEPT !.pc = "fired", !.valid = TRUE]]
    /\ UNCHANGED <<snap, state, startup, armed, due, shown, ended,
                   silent, quiet, fresh>>

(* statusEvalSeq is increased: a callback that has not yet got the lock will    *)
(* find that it is not the one awaited.                                         *)
Invalidate(th) == [t \in Thread |-> [th[t] EXCEPT !.valid = FALSE]]

Stopped(th) == due' = NoDue /\ thread' = Invalidate(th)

(* An earlier timer is kept, a later one replaced.                              *)
Scheduled(at, pending, th) ==
    IF pending # NoDue /\ pending <= at
    THEN due' = pending /\ thread' = th
    ELSE due' = at /\ thread' = Invalidate(th)

CallbackStale(t) ==
    /\ thread[t].pc = "fired" /\ ~thread[t].valid
    /\ thread' = [thread EXCEPT ![t] = Idle]
    /\ UNCHANGED <<snap, state, startup, armed, due, shown, ended,
                   silent, quiet, fresh>>

ActiveSince(t) == state.lastActive # Never /\ state.lastActive - thread[t].age < Delay

CallbackLater(t) ==
    /\ thread[t].pc = "fired" /\ thread[t].valid
    /\ state.emitted = "running" /\ ActiveSince(t)
    /\ Scheduled(Delay - state.lastActive, NoDue, [thread EXCEPT ![t] = Idle])
    /\ UNCHANGED <<snap, state, startup, armed, shown, ended,
                   silent, quiet, fresh>>

CallbackEvaluates(t) ==
    /\ thread[t].pc = "fired" /\ thread[t].valid
    /\ ~(state.emitted = "running" /\ ActiveSince(t))
    /\ due' = NoDue
    /\ thread' = [thread EXCEPT ![t].pc = "read", ![t].valid = FALSE]
    /\ UNCHANGED <<snap, state, startup, armed, shown, ended,
                   silent, quiet, fresh>>

-----------------------------------------------------------------------------
(* The evaluation.                                                              *)

ReadSnapshot(t) ==
    /\ thread[t].pc = "read"
    /\ thread' = [thread EXCEPT ![t].pc = "advance", ![t].hash = snap,
                                ![t].quiet = quiet, ![t].current = TRUE]
    /\ UNCHANGED <<snap, state, startup, armed, due, shown, ended,
                   silent, quiet, fresh>>

(* The state an evaluation starts from: the first one keeps the stored time of  *)
(* the last activity, and an actor that has none asks tmux, which may not know. *)
Before(hash) ==
    LET kept == IF startup = NoHash /\ state.lastActive # Never /\ state.prevHash # NoHash
                THEN [state EXCEPT !.prevHash = hash] ELSE state
    IN IF kept.prevHash = NoHash /\ kept.lastActive = Never
       THEN {[kept EXCEPT !.lastActive = a] : a \in {0, MaxAge, Never}} ELSE {kept}

Observed(s, hash, recentInput) ==
    LET seen == IF s.prevHash = hash THEN "ready" ELSE "running"
    IN IF seen = "running" /\ s.emitted # "running" /\ recentInput
       THEN (IF s.emitted = "" THEN "ready" ELSE s.emitted)
       ELSE seen

(* advancePaneStatus at a time that is age ticks ago.  Mutant: a candidate that *)
(* has changed keeps the time of the one before.                                *)
Advance_KeepsCandidate(s, hash, age, recentInput) ==
    LET seen == Observed(s, hash, recentInput)
        adopt == s.emitted = "" \/ seen = s.emitted \/ s.candSince - age >= Delay
    IN [prevHash |-> hash,
        emitted |-> IF adopt THEN seen ELSE s.emitted,
        candidate |-> seen,
        candSince |-> IF adopt THEN age ELSE s.candSince,
        lastActive |-> IF s.lastActive = Never \/ s.prevHash \notin {hash, NoHash}
                       THEN age ELSE s.lastActive]
Advance(s, hash, age, recentInput) ==
    LET seen == Observed(s, hash, recentInput)
        adopt == \/ s.emitted = "" \/ seen = s.emitted
                 \/ s.candidate = seen /\ s.candSince - age >= Delay
    IN [prevHash |-> hash,
        emitted |-> IF adopt THEN seen ELSE s.emitted,
        candidate |-> seen,
        candSince |-> IF adopt \/ s.candidate # seen THEN age ELSE s.candSince,
        lastActive |-> IF s.lastActive = Never \/ s.prevHash \notin {hash, NoHash}
                       THEN age ELSE s.lastActive]

NextEval_RunningOnly(s, age) == IF s.emitted = "running" THEN Delay - age ELSE NoDue

NextEval_CandidateOnly(s, age) ==
    IF s.emitted \notin {"", "unknown"} /\ s.candidate # s.emitted
    THEN Delay - s.candSince ELSE NoDue

(* When the status must be looked at again.                                     *)
NextEval(s, age) ==
    CASE s.emitted \in {"", "unknown"} -> NoDue
      [] s.candidate # s.emitted -> Delay - s.candSince
      [] s.emitted = "running" -> Delay - age
      [] OTHER -> NoDue

ReadyEdge_EveryTick(prev, next) == next = "ready"
ReadyEdge(prev, next) == prev # "ready" /\ next = "ready"

AdvanceStatus(t) ==
    /\ thread[t].pc = "advance"
    /\ \E before \in Before(thread[t].hash), recentInput, suppressed \in BOOLEAN :
         LET hash == thread[t].hash
             next == Advance(before, hash, thread[t].age, recentInput)
             at == NextEval(next, thread[t].age)
             armedNow == armed \/ startup \notin {NoHash, hash}
             edge == armedNow /\ ReadyEdge(before.emitted, next.emitted)
             completes == edge /\ ~suppressed
             moved == [thread EXCEPT ![t] = [Idle EXCEPT !.status = next.emitted,
                          !.age = thread[t].age,
                          !.pc = IF completes THEN "complete" ELSE "hook"]]
         IN /\ state' = next
            /\ IF at = NoDue THEN Stopped(moved) ELSE Scheduled(at, due, moved)
            /\ armed' = armedNow
            /\ fresh' = IF completes THEN ~thread[t].current ELSE fresh
    /\ startup' = IF startup = NoHash THEN thread[t].hash ELSE startup
    /\ UNCHANGED <<snap, shown, ended, silent, quiet>>

(* The auto-completion returns; it may have taken long.                         *)
Completed(t) ==
    /\ thread[t].pc = "complete"
    /\ thread' = [thread EXCEPT ![t].pc = "hook"]
    /\ UNCHANGED <<snap, state, startup, armed, due, shown, ended,
                   silent, quiet, fresh>>

CallHook(t) ==
    /\ thread[t].pc = "hook"
    /\ shown' = thread[t].status
    /\ thread' = [thread EXCEPT ![t] = Idle]
    /\ UNCHANGED <<snap, state, startup, armed, due, ended, silent, quiet, fresh>>

-----------------------------------------------------------------------------
(* What goes on around the actor.                                               *)

NotifyEnded ==
    /\ ~ended /\ ended' = TRUE
    /\ Stopped(thread)
    /\ UNCHANGED <<snap, state, startup, armed, shown, silent, quiet, fresh>>

Silence ==
    /\ ~silent /\ silent' = TRUE
    /\ UNCHANGED <<snap, state, startup, armed, due, thread, shown, ended, quiet, fresh>>

Older(age) == IF age >= MaxAge THEN age ELSE age + 1

(* Time passes once every goroutine has had its time and no timer is overdue.   *)
Tick ==
    /\ \A t \in Thread : thread[t].pc # "idle" =>
         thread[t].age < IF thread[t].pc = "complete" THEN MaxStall ELSE MaxLag
    /\ due > 0 \/ \E t \in Callback : thread[t].valid
    /\ due' = IF due \in {NoDue, -MaxAge} THEN due ELSE due - 1
    /\ state' = [state EXCEPT !.candSince = Older(@), !.lastActive = Older(@)]
    /\ thread' = [t \in Thread |-> IF thread[t].pc = "idle" THEN thread[t]
                                   ELSE [thread[t] EXCEPT !.age = @ + 1]]
    /\ quiet' = Older(quiet)
    /\ UNCHANGED <<snap, startup, armed, shown, ended, silent, fresh>>

Step(t) ==
    \/ ReadSnapshot(t) \/ AdvanceStatus(t) \/ Completed(t) \/ CallHook(t)

StepCallback(t) ==
    TimerFires(t) \/ CallbackStale(t) \/ CallbackLater(t) \/ CallbackEvaluates(t)

(* What goes on without the program in the pane, its users and closing.         *)
Progress ==
    \/ \E t \in Thread : Step(t)
    \/ \E t \in Callback : StepCallback(t)
    \/ Tick

StatusNext ==
    \/ \E t \in Writer, h \in Hash : Write(t, h)
    \/ Progress
    \/ NotifyEnded \/ Silence

StatusSpec == StatusInit /\ [][StatusNext]_statusVars

(* Goroutines get on, timers fire and time passes; a tick waits for every       *)
(* goroutine, so that none is left behind. Nothing is assumed of the program in *)
(* the pane and of users.                                                       *)
Fairness == WF_statusVars(Progress)

FairSpec == StatusSpec /\ Fairness

-----------------------------------------------------------------------------
Unsettled == \/ state.emitted = "running"
             \/ state.emitted = "ready" /\ state.candidate # "ready"

(* A status that has to change by itself is never forgotten: as long as the     *)
(* pane is shown running, or another status is waiting for its delay, a timer   *)
(* is set or an evaluation is under way that will set one. The stop of a timer  *)
(* by one evaluation, its callback and the schedule of another must agree       *)
(* (scheduleStatusEvalTimerLocked, onStatusEvalTimerFired).                     *)
ChangeIsAwaited ==
    Unsettled /\ startup # NoHash /\ ~ended =>
        \/ due # NoDue
        \/ \E t \in Thread : thread[t].pc \in {"read", "advance"}

(* A completion is triggered only for a pane whose snapshot had not changed for *)
(* the whole delay when the evaluation read it: stale readings, late callbacks  *)
(* and subscriptions never make a busy pane look idle (emitStatusWithHash).     *)
CompletesOnlyIdlePane ==
    [][\A t \in Thread : thread[t].pc = "advance" /\ thread'[t].pc = "complete"
          => thread[t].quiet >= Delay - MaxLag]_statusVars

(* One stretch of activity is completed once: between two completions the       *)
(* snapshot has changed, however many evaluations were made meanwhile           *)
(* (the ready edge of emitStatusWithHash).                                      *)
OneCompletionPerActivity ==
    [][\A t \in Thread : thread[t].pc = "advance" /\ thread'[t].pc = "complete"
          => fresh]_statusVars

(* When nothing is written any more, a pane that is running is shown ready in   *)
(* the end, unless it is closed: neither a stopped timer nor a hook that is     *)
(* called late leaves it shown as running.                                      *)
SilentPaneBecomesReady ==
    silent /\ startup # NoHash /\ state.emitted = "running" ~> ended \/ shown = "ready"

-----------------------------------------------------------------------------
(* The inductive invariant. Ages stand for points in time, so that a reading, a *)
(* candidate and the last change of the snapshot can be compared.               *)

\* Goroutines before the advance are not behind by more than MaxLag, and from the
\* reading on they hold a hash.
ReadingsInTime ==
    \A t \in Thread :
        /\ thread[t].pc \in {"idle", "fired", "read", "advance"} => thread[t].age <= MaxLag
        /\ thread[t].pc = "advance" => thread[t].hash \in Hash

\* The first evaluation captures the startup hash and leaves nothing unset; until
\* then nothing is a candidate.
FirstEvaluation ==
    /\ startup = NoHash => state.candidate = state.emitted
    /\ state.candSince = Never => state.emitted = ""
    /\ startup # NoHash => state.emitted # "" /\ state.lastActive # Never
    /\ armed => startup # NoHash

\* "ready" is a candidate since candSince, and nothing was written from then on
\* until the last reading of that hash, but for the lag of who found it.
Candidate(s) == s.candidate = "ready" /\ s.emitted # "ready"

CandidateIsStable ==
    startup # NoHash /\ Candidate(state) =>
        /\ snap = state.prevHash => quiet >= state.candSince - MaxLag
        /\ \A t \in Thread : thread[t].pc = "advance" /\ thread[t].hash = state.prevHash =>
              thread[t].quiet >= state.candSince - thread[t].age - MaxLag

\* A reading that is current is of the snapshot there is; one of another snapshot
\* is older than the last change.
ReadingsAgainstSnapshot ==
    \A t \in Thread : thread[t].pc = "advance" =>
        /\ thread[t].current => thread[t].hash = snap /\ quiet >= thread[t].quiet
        /\ thread[t].hash # snap => quiet <= thread[t].age

StatusInv ==
    /\ StatusTypeOK
    /\ ReadingsInTime /\ FirstEvaluation /\ CandidateIsStable /\ ReadingsAgainstSnapshot
    /\ ChangeIsAwaited

\* After a completion nothing contradicts it until the snapshot changes.
CompletionStands ==
    ~fresh =>
        /\ startup # NoHash /\ state.emitted = "ready" /\ state.prevHash = snap
        /\ \A t \in Thread : thread[t].pc = "advance" => thread[t].hash = snap

================================================================================
