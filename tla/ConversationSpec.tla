---------------------------- MODULE ConversationSpec ----------------------------
(* What cli/internal/localapi/conversation_runtime.go promises to the task and  *)
(* project-manager conversations built on it: the events accepted for one key   *)
(* are handled exactly once each, one at a time and in the order they were      *)
(* accepted; keys do not wait for each other; and a cancellation never reaches  *)
(* an event whose handler has not begun.                                        *)
EXTENDS Naturals, Sequences

CONSTANTS Key, Event

VARIABLES
    log,        \* events accepted for every key, oldest first
    started,    \* how many of them a handler has been called for
    finished,   \* how many of those calls have returned
    cancelled   \* events whose context is cancelled

specVars == <<log, started, finished, cancelled>>

SpecInit ==
    /\ log = [k \in Key |-> <<>>]
    /\ started = [k \in Key |-> 0]
    /\ finished = [k \in Key |-> 0]
    /\ cancelled = {}

Accept(k, e) ==
    /\ \A j \in Key : \A i \in 1..Len(log[j]) : log[j][i] # e
    /\ log' = [log EXCEPT ![k] = Append(@, e)]
    /\ UNCHANGED <<started, finished, cancelled>>

Start(k) ==
    /\ started[k] = finished[k]
    /\ started[k] < Len(log[k])
    /\ started' = [started EXCEPT ![k] = @ + 1]
    /\ UNCHANGED <<log, finished, cancelled>>

Finish(k) ==
    /\ finished[k] < started[k]
    /\ finished' = [finished EXCEPT ![k] = @ + 1]
    /\ UNCHANGED <<log, started, cancelled>>

Stop(k, i) ==
    /\ i \in 1..started[k]
    /\ cancelled' = cancelled \union {log[k][i]}
    /\ UNCHANGED <<log, started, finished>>

SpecNext ==
    \E k \in Key :
        \/ \E e \in Event : Accept(k, e)
        \/ Start(k) \/ Finish(k)
        \/ \E i \in 1..started[k] : Stop(k, i)

\* Every accepted event is handled, as long as handlers return.
SpecFairness == \A k \in Key : WF_specVars(Start(k)) /\ WF_specVars(Finish(k))

SpecSafe == SpecInit /\ [][SpecNext]_specVars

SerialSpec == SpecSafe /\ SpecFairness

================================================================================
