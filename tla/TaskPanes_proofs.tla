---------------------------- MODULE TaskPanes_proofs ----------------------------
(* Proofs about TaskPanes for any number of requests and any bounds: no pane is *)
(* bound to two tasks, no task that was answered loses an open pane, archiving  *)
(* unbinds, and no task waits for children it does not have, each but for the   *)
(* exceptions the properties name.                                              *)
EXTENDS TaskPanes, FiniteSetTheorems, TLAPS

\* Ids are numbers, and there is room for every request's task and pane.
LEMMA Ids ==
    /\ MaxRequests \in Nat /\ MaxErrors \in Nat /\ NoTask \notin Nat /\ NoPane \notin Nat
    /\ Task = 0..MaxRequests /\ Foreign = MaxRequests + 1 /\ Foreign \in Nat /\ Pane = 0..Foreign
    /\ TaskOrNone = Task \union {NoTask} /\ PaneOrNone = Pane \union {NoPane}
    /\ NoTask \notin Task /\ NoPane \notin Pane
    /\ Task \subseteq Nat /\ Pane \subseteq Nat /\ Task \subseteq Pane /\ 0 \in Task
  BY TaskPanesAssumption DEF Task, Foreign, Pane, TaskOrNone, PaneOrNone

\* The fields of a request, of a row and of a map.
LEMMA RequestFields ==
    \A r \in RequestState :
        /\ r.kind \in Kind /\ r.pc \in PC /\ r.task \in TaskOrNone /\ r.parent \in TaskOrNone
        /\ r.role \in Role /\ r.pane \in PaneOrNone /\ r.copy \in Maps /\ r.held \in BOOLEAN
        /\ r.list \in SUBSET Task /\ r.todo \in SUBSET Task
  BY DEF RequestState

LEMMA RowFields ==
    \A r \in Rows : /\ r.status \in Status \union {"absent"} /\ r.parent \in TaskOrNone
                    /\ r.role \in Role /\ r.checked \in BOOLEAN /\ r.archived \in BOOLEAN
  BY DEF Rows

LEMMA MapFields ==
    \A map \in Maps, t \in Task :
        /\ map[t] \in [pane : PaneOrNone, gated : BOOLEAN]
        /\ map[t].pane \in PaneOrNone /\ map[t].gated \in BOOLEAN
  BY DEF Maps

\* The empty map has no binding.
LEMMA NothingBound ==
    /\ Nothing \in Maps
    /\ \A t \in Task : Nothing[t] = Unbound /\ Nothing[t].pane = NoPane
  BY Ids DEF Nothing, Maps, Unbound, Binding

\* An idle request.
LEMMA IdleRequest ==
    /\ Idle \in RequestState /\ Footing(Idle)
    /\ Idle.kind = "none" /\ Idle.pc = "idle" /\ Idle.task = NoTask /\ Idle.parent = NoTask
    /\ Idle.pane = NoPane /\ Idle.copy = Nothing /\ Idle.held = FALSE
    /\ Idle.list = {} /\ Idle.todo = {} /\ Idle.role = "full"
    /\ ~ToInsert(Idle) /\ ~ToOpen(Idle) /\ ~Owner(Idle) /\ ~HasOpened(Idle)
<1>1. Idle \in RequestState
  BY NothingBound, Ids DEF Idle, RequestState, Kind, PC, Role
<1>2. /\ Idle.kind = "none" /\ Idle.pc = "idle" /\ Idle.task = NoTask /\ Idle.parent = NoTask
      /\ Idle.pane = NoPane /\ Idle.copy = Nothing /\ Idle.held = FALSE
      /\ Idle.list = {} /\ Idle.todo = {} /\ Idle.role = "full"
  BY DEF Idle
<1>3. Footing(Idle)
  BY <1>2 DEF Footing, Openers, Creators
<1>. QED
  BY <1>1, <1>2, <1>3 DEF ToInsert, ToOpen, Owner, HasOpened, Openers, Creators

\* A request that goes on, that drops its copy, or gets a parent, a task or a pane.
LEMMA GoesTo ==
    ASSUME NEW r \in RequestState, NEW pc \in PC, NEW h, h = [r EXCEPT !.pc = pc]
    PROVE  /\ h \in RequestState /\ h.pc = pc
           /\ h.kind = r.kind /\ h.task = r.task /\ h.parent = r.parent /\ h.role = r.role
           /\ h.pane = r.pane /\ h.copy = r.copy /\ h.held = r.held
           /\ h.list = r.list /\ h.todo = r.todo
  BY DEF RequestState

LEMMA DropsAt ==
    ASSUME NEW r \in RequestState, NEW pc \in PC,
           NEW h, h = [[r EXCEPT !.held = FALSE, !.copy = Nothing] EXCEPT !.pc = pc]
    PROVE  /\ h \in RequestState /\ h.pc = pc
           /\ h.kind = r.kind /\ h.task = r.task /\ h.parent = r.parent /\ h.role = r.role
           /\ h.pane = r.pane /\ h.copy = Nothing /\ h.held = FALSE
           /\ h.list = r.list /\ h.todo = r.todo
  BY NothingBound DEF RequestState

\* One request changes.
LEMMA OneRequest ==
    ASSUME req \in [Request -> RequestState], NEW q \in Request, NEW h \in RequestState,
           req' = [req EXCEPT ![q] = h]
    PROVE  /\ req' \in [Request -> RequestState] /\ req'[q] = h
           /\ \A o \in Request : o # q => req'[o] = req[o]
  OBVIOUS

\* How many requests are left to create something, when one of them does, ends or begins.
LEMMA Counting ==
    ASSUME NEW S, IsFiniteSet(S), NEW T, NEW q
    PROVE  /\ Cardinality(S) \in Nat
           /\ T \subseteq S => IsFiniteSet(T) /\ Cardinality(T) \in Nat
                               /\ Cardinality(T) <= Cardinality(S)
           /\ T \subseteq S \union {q} => IsFiniteSet(T) /\ Cardinality(T) \in Nat
                                          /\ Cardinality(T) <= Cardinality(S) + 1
           /\ q \in S /\ T \subseteq S \ {q} => IsFiniteSet(T) /\ Cardinality(T) \in Nat
                                                /\ Cardinality(T) + 1 <= Cardinality(S)
<1>1. Cardinality(S) \in Nat
  BY FS_CardinalityType
<1>2. \A X : IsFiniteSet(X) /\ T \subseteq X =>
         IsFiniteSet(T) /\ Cardinality(T) \in Nat /\ Cardinality(T) <= Cardinality(X)
  BY FS_Subset, FS_CardinalityType
<1>3. IsFiniteSet(S \union {q}) /\ Cardinality(S \union {q}) <= Cardinality(S) + 1
  BY <1>1, FS_AddElement
<1>4. q \in S => IsFiniteSet(S \ {q}) /\ Cardinality(S \ {q}) = Cardinality(S) - 1
  BY FS_RemoveElement
<1>5. IsFiniteSet(S \union {q}) /\ Cardinality(S \union {q}) \in Nat
      /\ IsFiniteSet(S \ {q}) /\ Cardinality(S \ {q}) \in Nat
  BY <1>3, FS_RemoveElement, FS_CardinalityType
<1>6. T \subseteq S => IsFiniteSet(T) /\ Cardinality(T) \in Nat /\ Cardinality(T) <= Cardinality(S)
  BY <1>2
<1>7. T \subseteq S \union {q} => IsFiniteSet(T) /\ Cardinality(T) \in Nat
                                  /\ Cardinality(T) <= Cardinality(S) + 1
  BY <1>1, <1>2, <1>3, <1>5
<1>8. q \in S /\ T \subseteq S \ {q} => IsFiniteSet(T) /\ Cardinality(T) \in Nat
                                        /\ Cardinality(T) + 1 <= Cardinality(S)
  BY <1>1, <1>2, <1>4, <1>5
<1>. QED
  BY <1>1, <1>6, <1>7, <1>8

\* Ids that are left suffice for the requests that have yet to use one.
LEMMA CountKept ==
    ASSUME NEW S, IsFiniteSet(S), NEW T, T \subseteq S,
           NEW last \in Nat, NEW n \in Nat, last + Cardinality(S) <= n
    PROVE  IsFiniteSet(T) /\ last + Cardinality(T) <= n
<1>1. Cardinality(S) \in Nat /\ Cardinality(T) \in Nat /\ IsFiniteSet(T)
      /\ Cardinality(T) <= Cardinality(S)
  BY Counting
<1>. QED
  BY <1>1

LEMMA CountAdded ==
    ASSUME NEW S, IsFiniteSet(S), NEW q, NEW T, T \subseteq S \union {q},
           NEW last \in Nat, NEW n \in Nat, last + Cardinality(S) <= n
    PROVE  IsFiniteSet(T) /\ last + Cardinality(T) <= n + 1
<1>1. Cardinality(S) \in Nat /\ Cardinality(T) \in Nat /\ IsFiniteSet(T)
      /\ Cardinality(T) <= Cardinality(S) + 1
  BY Counting
<1>. QED
  BY <1>1

LEMMA CountUsed ==
    ASSUME NEW S, IsFiniteSet(S), NEW q \in S, NEW T, T \subseteq S \ {q},
           NEW last \in Nat, NEW n \in Nat, last + Cardinality(S) <= n
    PROVE  IsFiniteSet(T) /\ last + 1 + Cardinality(T) <= n /\ last + 1 <= n
<1>1. Cardinality(S) \in Nat /\ Cardinality(T) \in Nat /\ IsFiniteSet(T)
      /\ Cardinality(T) + 1 <= Cardinality(S)
  BY Counting
<1>. QED
  BY <1>1

--------------------------------------------------------------------------------
(* What a step keeps of the tasks.                                              *)

There(rows, t) == rows[t].status # "absent"
Waits(rows, t) == There(rows, t) /\ ~rows[t].archived /\ rows[t].status = "waiting_children"
HasChild(rows, t) == \E u \in Task : There(rows, u) /\ rows[u].parent = t

\* No row is lost, those that are inserted again have no parent, and none that waits has
\* no child.
Kept(rows, new, last) ==
    \A t \in Task :
        /\ There(rows, t) => There(new, t) /\ new[t].parent = rows[t].parent
        /\ There(new, t) => There(rows, t) \/ (t <= last /\ new[t].parent = NoTask)
        /\ Waits(new, t) => Waits(rows, t) \/ HasChild(new, t)

RollingBack(r) == r.pc \in {"rbList", "rbParent"}

\* What Exists and Listed say of a task.
LEMMA RowsThere ==
    \A t \in Task : /\ Exists(t) <=> There(row, t)
                    /\ Listed(t) <=> There(row, t) /\ ~row[t].archived
                    /\ Listed(t) /\ row[t].status = "waiting_children" <=> Waits(row, t)
  BY Ids DEF Exists, Listed, There, Waits

LEMMA RowsTherePrimed ==
    \A t \in Task : /\ Exists(t)' <=> There(row', t)
                    /\ (Listed(t) /\ row[t].status = "waiting_children")' <=> Waits(row', t)
  BY Ids DEF Exists, Listed, There, Waits

\* The parts of TasksInv about tasks, without the operators that hide the rows.
LEMMA TasksUnfolded ==
    /\ TasksKnown <=>
          /\ \A t \in Task : There(row, t) => t \in KnownTasks /\ row[t].parent \in KnownTasks
          /\ \A q \in Request : req[q].task \in KnownTasks /\ req[q].parent \in KnownTasks
          /\ \A q, o \in Request :
                q # o /\ Owner(req[q]) /\ Owner(req[o]) => req[q].task # req[o].task
    /\ TypeOK => (TasksOwned <=>
          \A q \in Request : Owner(req[q]) /\ ~RollingBack(req[q]) =>
              There(row, req[q].task) /\ row[req[q].task].parent = req[q].parent)
    /\ WaitingForSomebody <=>
          \A t \in Task : Waits(row, t) =>
              \/ HasChild(row, t)
              \/ \E q \in Request : req[q].parent = t /\ RollingBack(req[q])
              \/ t \in cut
<1>1. TasksKnown <=>
          /\ \A t \in Task : There(row, t) => t \in KnownTasks /\ row[t].parent \in KnownTasks
          /\ \A q \in Request : req[q].task \in KnownTasks /\ req[q].parent \in KnownTasks
          /\ \A q, o \in Request :
                q # o /\ Owner(req[q]) /\ Owner(req[o]) => req[q].task # req[o].task
  BY RowsThere DEF TasksKnown
<1>2. TypeOK => (TasksOwned <=>
          \A q \in Request : Owner(req[q]) /\ ~RollingBack(req[q]) =>
              There(row, req[q].task) /\ row[req[q].task].parent = req[q].parent)
  BY RowsThere DEF TasksOwned, RollingBack, Owner, Exists, There
<1>3. \A q \in Request : RollingBack(req[q]) <=> At(q, "rbList") \/ At(q, "rbParent")
  BY DEF RollingBack, At
<1>4. WaitingForSomebody <=>
          \A t \in Task : Waits(row, t) =>
              \/ HasChild(row, t)
              \/ \E q \in Request : req[q].parent = t /\ RollingBack(req[q])
              \/ t \in cut
  BY <1>3, RowsThere DEF WaitingForSomebody, HasChild
<1>. QED
  BY <1>1, <1>2, <1>4

\* A step of one request that creates no task keeps what is known of tasks, if it keeps the
\* task it has created and leaves nobody waiting.
LEMMA TasksFrame ==
    ASSUME TypeOK, TasksInv, NEW q \in Request, NEW h \in RequestState,
           req' = [req EXCEPT ![q] = h], Footing(h),
           lastTask' = lastTask,
           served' \in 0..MaxRequests, served' = served \/ served' = served + 1,
           ToInsert(h) => ToInsert(req[q]) \/ served' = served + 1,
           \/ lastPane' = lastPane /\ (ToOpen(h) => ToOpen(req[q]) \/ served' = served + 1)
           \/ lastPane' = lastPane + 1 /\ served' = served /\ ToOpen(req[q]) /\ ~ToOpen(h),
           h.task \in KnownTasks, h.parent \in KnownTasks,
           Owner(h) => /\ Owner(req[q]) /\ h.task = req[q].task
                       /\ ~RollingBack(h) => ~RollingBack(req[q]) /\ h.parent = req[q].parent,
           Kept(row, row', lastTask), cut \subseteq cut',
           RollingBack(req[q]) =>
               \/ RollingBack(h) /\ h.parent = req[q].parent
               \/ req[q].parent \in cut'
               \/ req[q].parent \in Task => ~Waits(row', req[q].parent) \/ HasChild(row', req[q].parent)
    PROVE  TasksInv'
<1>. DEFINE r == req[q]
<1>1. /\ req \in [Request -> RequestState] /\ lastTask \in Nat /\ lastPane \in Nat
      /\ served \in Nat /\ lastTask \in Task
  BY Ids DEF TypeOK
<1>2. /\ req' \in [Request -> RequestState] /\ req'[q] = h
      /\ \A o \in Request : o # q => req'[o] = req[o]
  BY <1>1, OneRequest
<1>3. RequestsKeepFooting'
  BY <1>2 DEF RequestsKeepFooting, TasksInv
<1>4. IdsLeft'
  <2>1. /\ IsFiniteSet(Inserting) /\ lastTask + Cardinality(Inserting) <= served
        /\ IsFiniteSet(Opening) /\ lastPane + Cardinality(Opening) <= served
    BY DEF TasksInv, IdsLeft
  <2>2. lastTask' = lastTask
    OBVIOUS
  <2>3. \/ served' = served /\ Inserting' \subseteq Inserting
        \/ served' = served + 1 /\ Inserting' \subseteq Inserting \union {q}
    BY <1>2 DEF Inserting
  <2>4. \/ lastPane' = lastPane /\ served' = served /\ Opening' \subseteq Opening
        \/ lastPane' = lastPane /\ served' = served + 1 /\ Opening' \subseteq Opening \union {q}
        \/ /\ lastPane' = lastPane + 1 /\ served' = served
           /\ q \in Opening /\ Opening' \subseteq Opening \ {q}
    BY <1>2 DEF Opening
  <2>5. lastTask \in Nat /\ lastPane \in Nat /\ served \in Nat
    BY <1>1
  <2>6. IsFiniteSet(Inserting') /\ lastTask + Cardinality(Inserting') <= served'
    <3>1. CASE served' = served /\ Inserting' \subseteq Inserting
      BY ONLY <2>1, <2>5, <3>1, CountKept
    <3>2. CASE served' = served + 1 /\ Inserting' \subseteq Inserting \union {q}
      BY ONLY <2>1, <2>5, <3>2, CountAdded
    <3>. QED
      BY <2>3, <3>1, <3>2
  <2>7. IsFiniteSet(Opening') /\ lastPane' + Cardinality(Opening') <= served'
    <3>1. CASE lastPane' = lastPane /\ served' = served /\ Opening' \subseteq Opening
      BY ONLY <2>1, <2>5, <3>1, CountKept
    <3>2. CASE lastPane' = lastPane /\ served' = served + 1 /\ Opening' \subseteq Opening \union {q}
      BY ONLY <2>1, <2>5, <3>2, CountAdded
    <3>3. CASE /\ lastPane' = lastPane + 1 /\ served' = served
               /\ q \in Opening /\ Opening' \subseteq Opening \ {q}
      BY ONLY <2>1, <2>5, <3>3, CountUsed
    <3>. QED
      BY <2>4, <3>1, <3>2, <3>3
  <2>. QED
    BY <2>2, <2>6, <2>7 DEF IdsLeft
<1>5. KnownTasks' = KnownTasks
  BY DEF KnownTasks
<1>6. TasksKnown'
  <2>1. \A t \in Task : There(row', t) => t \in KnownTasks /\ row'[t].parent \in KnownTasks
    <3>. SUFFICES ASSUME NEW t \in Task, There(row', t)
                  PROVE  t \in KnownTasks /\ row'[t].parent \in KnownTasks
      OBVIOUS
    <3>1. \/ There(row, t) /\ row'[t].parent = row[t].parent
          \/ t <= lastTask /\ row'[t].parent = NoTask
      BY DEF Kept
    <3>2. There(row, t) => t \in KnownTasks /\ row[t].parent \in KnownTasks
      BY TasksUnfolded DEF TasksInv
    <3>. QED
      BY <1>1, <3>1, <3>2, Ids DEF KnownTasks
  <2>2. \A o \in Request : req'[o].task \in KnownTasks /\ req'[o].parent \in KnownTasks
    BY <1>2 DEF TasksInv, TasksKnown
  <2>3. \A o, p \in Request :
           o # p /\ Owner(req'[o]) /\ Owner(req'[p]) => req'[o].task # req'[p].task
    <3>1. \A o \in Request : Owner(req'[o]) => Owner(req[o]) /\ req'[o].task = req[o].task
      BY <1>2
    <3>2. \A o, p \in Request :
             o # p /\ Owner(req[o]) /\ Owner(req[p]) => req[o].task # req[p].task
      BY DEF TasksInv, TasksKnown
    <3>. QED
      BY <3>1, <3>2
  <2>4. \A t \in Task : Exists(t)' <=> There(row', t)
    BY RowsTherePrimed
  <2>. QED
    BY <1>5, <2>1, <2>2, <2>3, <2>4 DEF TasksKnown
<1>7. TasksOwned'
  <2>. SUFFICES ASSUME NEW o \in Request, Owner(req'[o]), ~RollingBack(req'[o])
                PROVE  There(row', req'[o].task) /\ row'[req'[o].task].parent = req'[o].parent
    BY DEF TasksOwned, RollingBack, Exists, There, Owner
  <2>1. /\ Owner(req[o]) /\ req'[o].task = req[o].task
        /\ ~RollingBack(req[o]) /\ req'[o].parent = req[o].parent
    BY <1>2
  <2>2. There(row, req[o].task) /\ row[req[o].task].parent = req[o].parent
    BY <2>1, TasksUnfolded DEF TasksInv
  <2>3. req[o].task \in Task
    BY <1>1, <2>1, RequestFields DEF Owner, TaskOrNone
  <2>. QED
    BY <2>1, <2>2, <2>3 DEF Kept
<1>8. WaitingForSomebody'
  <2>. SUFFICES ASSUME NEW t \in Task, Waits(row', t), ~HasChild(row', t), t \notin cut'
                PROVE  \E o \in Request : req'[o].parent = t /\ RollingBack(req'[o])
    <3>1. \A o \in Request : RollingBack(req'[o]) <=> At(o, "rbList")' \/ At(o, "rbParent")'
      BY DEF RollingBack, At
    <3>2. \A t \in Task : HasChild(row', t) <=> \E u \in Task : Exists(u)' /\ row'[u].parent = t
      BY RowsTherePrimed DEF HasChild
    <3>. QED
      BY <3>1, <3>2, RowsTherePrimed DEF WaitingForSomebody
  <2>1. Waits(row, t)
    BY DEF Kept
  <2>2. ~HasChild(row, t)
    BY DEF Kept, HasChild
  <2>3. PICK o \in Request : req[o].parent = t /\ RollingBack(req[o])
    BY <2>1, <2>2, TasksUnfolded DEF TasksInv
  <2>. QED
    BY <1>2, <2>3
<1>. QED
  BY <1>3, <1>4, <1>6, <1>7, <1>8 DEF TasksInv

--------------------------------------------------------------------------------
(* What a step keeps of the bindings.                                           *)

\* What a request that binds a pane to its task has not in its copy.
Binder(r) == r.held /\ r.kind \in Openers \union {"adopt"} /\ r.pane # NoPane
AwaitsMap(r) == r.kind = "root" /\ r.pc = "load"
Answers(r) == r.pc \in {"find", "setRunning", "finish"}

\* The parts of BindingsInv by request, without the primes that At would hide.
LEMMA BindingsUnfolded ==
    PaneIsNew <=>
        /\ \A q \in Request, t \in Task :
              Binder(req[q]) /\ req[q].copy[t].pane = req[q].pane => req[q].pane \in opening
        /\ \A q \in Request, t \in Task :
              AwaitsMap(req[q]) /\ panes[t].pane = req[q].pane => req[q].pane \in opening
        /\ \A q, o \in Request, t \in Task :
              AwaitsMap(req[q]) /\ req[o].held /\ req[o].copy[t].pane = req[q].pane
                  => req[q].pane \in opening
  BY DEF PaneIsNew, Binder, AwaitsMap, At

\* A step of one request that neither saves the map nor opens a pane keeps what is known
\* of bindings, if its copy is the one it had or the map there is.
LEMMA BindingsFrame ==
    ASSUME TypeOK, BindingsInv, NEW q \in Request, NEW h \in RequestState,
           req' = [req EXCEPT ![q] = h],
           UNCHANGED <<panes, lastPane, exposed, opening, retired>>,
           alive' \subseteq alive, late \subseteq late', row' \in [Task -> Rows],
           h.pane \in KnownPanes, HasOpened(h) => HasOpened(req[q]) /\ h.pane = req[q].pane,
           h.copy \in {req[q].copy, panes, Nothing},
           h.held => h.copy = panes \/ (req[q].held /\ h.copy = req[q].copy),
           Binder(h) => \/ Binder(req[q]) /\ h.pane = req[q].pane /\ h.copy = req[q].copy
                        \/ \A t \in Task : h.copy[t].pane = h.pane => h.pane \in opening,
           AwaitsMap(h) => AwaitsMap(req[q]) /\ h.pane = req[q].pane,
           Answers(h) =>
               \/ Answers(req[q]) /\ h.pane = req[q].pane /\ h.task = req[q].task
               \/ (h.pane \in alive \ retired /\ h.task \notin exposed
                      => panes[h.task].pane = h.pane),
           h.kind = "archive" =>
               /\ h.held => \A t \in h.list \ h.todo :
                      Bound(h.copy, t) => h.copy[t].pane \notin alive'
               /\ h.pc = "archive" => \A t \in h.list :
                      Bound(panes, t) => t \in exposed \union late,
           \A t \in Task : row'[t].archived =>
               row[t].archived \/ (Bound(panes, t) => t \in exposed \union late'),
           answered' \in [Task -> PaneOrNone],
           \A t \in Task :
               \/ answered'[t] = answered[t]
               \/ /\ answered'[t] \in KnownPanes
                  /\ t \notin exposed /\ answered'[t] \in alive \ retired
                         => panes[t].pane = answered'[t]
    PROVE  BindingsInv'
<1>1. req \in [Request -> RequestState] /\ panes \in Maps
  BY DEF TypeOK
<1>2. /\ req' \in [Request -> RequestState] /\ req'[q] = h
      /\ \A o \in Request : o # q => req'[o] = req[o]
  BY <1>1, OneRequest
<1>3. panes' = panes /\ exposed' = exposed /\ opening' = opening /\ retired' = retired
      /\ KnownPanes' = KnownPanes
  BY DEF KnownPanes
<1>4. PanesKnown'
  <2>1. \A t \in Task : panes[t].pane \in KnownPanes /\ answered'[t] \in KnownPanes
    BY DEF BindingsInv, PanesKnown
  <2>2. \A t \in Task : h.copy[t].pane \in KnownPanes
    <3>1. \A t \in Task : Nothing[t].pane \in KnownPanes
      BY NothingBound DEF KnownPanes
    <3>. QED
      BY <3>1 DEF BindingsInv, PanesKnown
  <2>3. \A o \in Request :
           req'[o].pane \in KnownPanes /\ \A t \in Task : req'[o].copy[t].pane \in KnownPanes
    BY <1>2, <2>2 DEF BindingsInv, PanesKnown
  <2>4. \A o \in Request : HasOpened(req'[o]) => HasOpened(req[o]) /\ req'[o].pane = req[o].pane
    BY <1>2
  <2>5. \A o, p \in Request :
           o # p /\ HasOpened(req'[o]) /\ HasOpened(req'[p]) => req'[o].pane # req'[p].pane
    BY <2>4 DEF BindingsInv, PanesKnown
  <2>6. alive' \subseteq KnownPanes \ {NoPane}
    BY DEF BindingsInv, PanesKnown
  <2>. QED
    BY <1>3, <2>1, <2>3, <2>5, <2>6 DEF PanesKnown
<1>5. PaneBoundOnce'
  BY <1>3 DEF BindingsInv, PaneBoundOnce, Bound
<1>6. CopiesCurrent'
  <2>1. Once(panes)
    BY DEF BindingsInv, PaneBoundOnce, Once
  <2>2. Whole(panes)
    BY DEF BindingsInv, CopiesCurrent
  <2>3. \A o \in Request : req'[o].held =>
           /\ Whole(req'[o].copy) /\ Once(req'[o].copy)
           /\ \A t \in Task \ exposed : req'[o].copy[t] = panes[t]
    BY <1>2, <2>1, <2>2 DEF BindingsInv, CopiesCurrent
  <2>. QED
    BY <1>3, <2>2, <2>3 DEF CopiesCurrent, Whole, Once, Bound
<1>7. PaneIsNew'
  <2>1. /\ \A o \in Request, t \in Task :
              Binder(req[o]) /\ req[o].copy[t].pane = req[o].pane => req[o].pane \in opening
        /\ \A o \in Request, t \in Task :
              AwaitsMap(req[o]) /\ panes[t].pane = req[o].pane => req[o].pane \in opening
        /\ \A o, p \in Request, t \in Task :
              AwaitsMap(req[o]) /\ req[p].held /\ req[p].copy[t].pane = req[o].pane
                  => req[o].pane \in opening
    BY BindingsUnfolded DEF BindingsInv
  <2>2. \A o \in Request, t \in Task :
           Binder(req'[o]) /\ req'[o].copy[t].pane = req'[o].pane => req'[o].pane \in opening
    BY <1>2, <2>1
  <2>3. \A o \in Request : AwaitsMap(req'[o]) => AwaitsMap(req[o]) /\ req'[o].pane = req[o].pane
    BY <1>2
  <2>4. \A o \in Request : req'[o].held =>
           req'[o].copy = panes \/ (req[o].held /\ req'[o].copy = req[o].copy)
    BY <1>2
  <2>5. \A o, p \in Request, t \in Task :
           AwaitsMap(req'[o]) /\ (panes[t].pane = req'[o].pane
                                  \/ (req'[p].held /\ req'[p].copy[t].pane = req'[o].pane))
               => req'[o].pane \in opening
    BY <2>1, <2>3, <2>4
  <2>. QED
    BY <1>3, <2>2, <2>5 DEF PaneIsNew, Binder, AwaitsMap, At
<1>8. AnsweredBound'
  <2>1. \A t \in Task \ exposed : answered'[t] \in alive' \ retired => panes[t].pane = answered'[t]
    BY DEF BindingsInv, AnsweredBound
  <2>2. \A o \in Request :
           /\ Answers(req'[o]) /\ req'[o].pane \in alive' \ retired /\ req'[o].task \notin exposed
           => panes[req'[o].task].pane = req'[o].pane
    BY <1>2 DEF BindingsInv, AnsweredBound, Answers
  <2>. QED
    BY <1>3, <2>1, <2>2 DEF AnsweredBound, Answers
<1>9. ClosedThenUnbound'
  <2>1. \A o \in Request : o # q /\ req[o].kind = "archive" =>
           /\ req[o].held => \A t \in req[o].list \ req[o].todo :
                 Bound(req[o].copy, t) => req[o].copy[t].pane \notin alive'
           /\ req[o].pc = "archive" => \A t \in req[o].list :
                 Bound(panes, t) => t \in exposed \union late'
    BY DEF BindingsInv, ClosedThenUnbound
  <2>2. \A o \in Request : req'[o].kind = "archive" =>
           /\ req'[o].held => \A t \in req'[o].list \ req'[o].todo :
                 Bound(req'[o].copy, t) => req'[o].copy[t].pane \notin alive'
           /\ req'[o].pc = "archive" => \A t \in req'[o].list :
                 Bound(panes, t) => t \in exposed \union late'
    BY <1>2, <2>1
  <2>. QED
    BY <1>3, <2>2 DEF ClosedThenUnbound, Bound
<1>10. ArchivedUnbound'
  <2>1. \A t \in Task : row[t].archived /\ Bound(panes, t) => t \in exposed \union late
    BY DEF BindingsInv, ArchivedUnbound
  <2>. QED
    BY <1>3, <2>1 DEF ArchivedUnbound, Bound
<1>. QED
  BY <1>4, <1>5, <1>6, <1>7, <1>8, <1>9, <1>10 DEF BindingsInv

--------------------------------------------------------------------------------
(* The steps most actions are made of.                                          *)

\* Rows that stay as they are, and what UpsertTaskMeta makes of them.
LEMMA KeptSame == Kept(row, row, lastTask)
  BY DEF Kept

LEMMA KeptUpserted ==
    ASSUME TypeOK, NEW t \in Task, t <= lastTask, NEW status \in Status,
           status = "waiting_children" => HasChild(row, t),
           NEW new, new = Upserted(t, status)
    PROVE  /\ new \in [Task -> Rows] /\ Kept(row, new, lastTask)
           /\ \A u \in Task : new[u].archived => row[u].archived
           /\ status \notin {"", "waiting_children"} => ~Waits(new, t)
<1>. DEFINE up == [row[t] EXCEPT !.status = IF status = "" THEN row[t].status ELSE status]
            ins == [NoRow EXCEPT !.status = status]
<1>1. row \in [Task -> Rows] /\ row[t] \in Rows
  BY DEF TypeOK
<1>2. status # "absent"
  BY DEF Status
<1>3. row[t].status \in Status \union {"absent"}
  BY <1>1, RowFields
<1>4. /\ up \in Rows /\ up.parent = row[t].parent /\ up.archived = row[t].archived
      /\ up.status = IF status = "" THEN row[t].status ELSE status
  BY <1>1, <1>3 DEF Rows
<1>5. ins \in Rows /\ ins.parent = NoTask /\ ins.archived = FALSE /\ ins.status = status
  BY DEF NoRow, Rows, TaskOrNone, Role
<1>6. new = IF There(row, t) THEN [row EXCEPT ![t] = up] ELSE [row EXCEPT ![t] = ins]
  BY RowsThere DEF Upserted
<1>. HIDE DEF up, ins
<1>7. new \in [Task -> Rows] /\ \A u \in Task : u # t => new[u] = row[u]
  BY <1>1, <1>4, <1>5, <1>6
<1>8. new[t] = IF There(row, t) THEN up ELSE ins
  BY <1>1, <1>6
<1>9. \A u \in Task : new[u].archived => row[u].archived
  <2>1. new[t].archived => row[t].archived
    BY <1>4, <1>5, <1>8
  <2>. QED
    BY <1>7, <2>1
<1>10. There(new, t) /\ (There(row, t) => new[t].parent = row[t].parent)
       /\ (~There(row, t) => new[t].parent = NoTask)
  <2>1. CASE There(row, t)
    <3>1. new[t] = up
      BY <1>8, <2>1
    <3>2. up.status # "absent"
      BY <1>2, <1>4, <2>1 DEF There
    <3>. QED
      BY <1>4, <2>1, <3>1, <3>2 DEF There
  <2>2. CASE ~There(row, t)
    <3>1. new[t] = ins
      BY <1>8, <2>2
    <3>. QED
      BY <1>2, <1>5, <2>2, <3>1 DEF There
  <2>. QED
    BY <2>1, <2>2
<1>11. \A u \in Task : There(row, u) => There(new, u) /\ new[u].parent = row[u].parent
  BY <1>7, <1>10 DEF There
<1>12. HasChild(row, t) => HasChild(new, t)
  BY <1>11 DEF HasChild
<1>13. Waits(new, t) => Waits(row, t) \/ HasChild(new, t)
  BY <1>4, <1>5, <1>8, <1>12 DEF Waits, There
<1>14. status \notin {"", "waiting_children"} => ~Waits(new, t)
  BY <1>4, <1>5, <1>8 DEF Waits
<1>15. Kept(row, new, lastTask)
  BY <1>7, <1>10, <1>11, <1>13 DEF Kept, Waits, There
<1>. QED
  BY <1>7, <1>9, <1>14, <1>15

\* The types, when neither the map nor the panes nor the ids change.
LEMMA TypesFrame ==
    ASSUME TypeOK, NEW q \in Request, NEW h \in RequestState, req' = [req EXCEPT ![q] = h],
           UNCHANGED <<panes, lastTask, lastPane, exposed, opening, retired>>,
           row' \in [Task -> Rows], served' \in 0..MaxRequests, errors' \in 0..MaxErrors,
           answered' \in [Task -> PaneOrNone], alive' \subseteq alive,
           late' \subseteq Task, cut' \subseteq TaskOrNone
    PROVE  TypeOK'
  BY DEF TypeOK

\* What a step of a request leaves alone.
StepKeeps(new) ==
    /\ UNCHANGED <<panes, tmuxVars, lastTask, served, answered, exposed, late, opening, retired>>
    /\ errors' \in 0..MaxErrors /\ cut \subseteq cut' /\ cut' \subseteq TaskOrNone
    /\ row' = new /\ new \in [Task -> Rows] /\ Kept(row, new, lastTask)
    /\ \A t \in Task : new[t].archived => row[t].archived

\* The parent a rollback was to see to needs no more of it.
SeenTo(new, r) ==
    RollingBack(r) => \/ r.parent \in cut'
                      \/ r.parent \in Task => ~Waits(new, r.parent) \/ HasChild(new, r.parent)

\* A request ends.
LEMMA EndsStep ==
    ASSUME PanesInv, NEW q \in Request, NEW new,
           req' = [req EXCEPT ![q] = Idle], StepKeeps(new), SeenTo(new, req[q])
    PROVE  PanesInv'
<1>. USE IdleRequest DEF PanesInv, StepKeeps, tmuxVars
<1>1. TypeOK'
  BY TypesFrame DEF TypeOK
<1>2. TasksInv'
  <2>1. served' \in 0..MaxRequests /\ NoTask \in KnownTasks
    BY DEF TypeOK, KnownTasks
  <2>. QED
    BY <2>1, TasksFrame DEF SeenTo
<1>3. BindingsInv'
  <2>1. /\ NoPane \in KnownPanes /\ answered \in [Task -> PaneOrNone]
        /\ ~Binder(Idle) /\ ~AwaitsMap(Idle) /\ ~Answers(Idle)
    BY DEF TypeOK, KnownPanes, Binder, AwaitsMap, Answers
  <2>. QED
    BY <2>1, BindingsFrame
<1>. QED
  BY <1>1, <1>2, <1>3

\* A request goes on, with all it has.
LEMMA GoesStep ==
    ASSUME PanesInv, NEW q \in Request, NEW pc \in PC, NEW new, NEW h,
           h = [req[q] EXCEPT !.pc = pc], req' = [req EXCEPT ![q] = h],
           StepKeeps(new), Footing(h), pc \notin {"load", "archive", "find"},
           ToInsert(h) => ToInsert(req[q]), RollingBack(req[q]) => RollingBack(h),
           Answers(h) => Answers(req[q])
    PROVE  PanesInv'
<1>. USE DEF PanesInv, StepKeeps, tmuxVars
<1>1. req[q] \in RequestState
  BY DEF TypeOK
<1>2. /\ h \in RequestState /\ h.pc = pc
      /\ h.kind = req[q].kind /\ h.task = req[q].task /\ h.parent = req[q].parent
      /\ h.pane = req[q].pane /\ h.copy = req[q].copy /\ h.held = req[q].held
      /\ h.list = req[q].list /\ h.todo = req[q].todo
  BY <1>1, GoesTo
<1>3. TypeOK'
  BY <1>2, TypesFrame DEF TypeOK
<1>4. TasksInv'
  <2>1. served' \in 0..MaxRequests
    BY DEF TypeOK
  <2>2. h.task \in KnownTasks /\ h.parent \in KnownTasks
    BY <1>2 DEF TasksInv, TasksKnown
  <2>3. ToOpen(h) => ToOpen(req[q])
    BY <1>2 DEF ToOpen
  <2>4. Owner(h) => Owner(req[q])
    BY <1>2 DEF Owner
  <2>. QED
    BY <1>2, <2>1, <2>2, <2>3, <2>4, TasksFrame
<1>5. BindingsInv'
  <2>1. h.pane \in KnownPanes /\ answered \in [Task -> PaneOrNone]
    BY <1>2 DEF TypeOK, BindingsInv, PanesKnown
  <2>2. HasOpened(h) => HasOpened(req[q])
    BY <1>2 DEF HasOpened
  <2>3. Binder(h) => Binder(req[q])
    BY <1>2 DEF Binder
  <2>4. ~AwaitsMap(h)
    BY <1>2 DEF AwaitsMap
  <2>5. h.kind = "archive" /\ h.held => \A t \in h.list \ h.todo :
           Bound(h.copy, t) => h.copy[t].pane \notin alive'
    BY <1>2 DEF BindingsInv, ClosedThenUnbound
  <2>. QED
    BY <1>2, <2>1, <2>2, <2>3, <2>4, <2>5, BindingsFrame
<1>. QED
  BY <1>3, <1>4, <1>5

\* A request drops its copy, to roll back or, once nothing that it listed is bound, to archive.
LEMMA DropsStep ==
    ASSUME PanesInv, NEW q \in Request, NEW pc \in {"rbFind", "archive"}, NEW h,
           h = [[req[q] EXCEPT !.held = FALSE, !.copy = Nothing] EXCEPT !.pc = pc],
           req' = [req EXCEPT ![q] = h], StepKeeps(row), Footing(h), ~RollingBack(req[q]),
           pc = "archive" => \A t \in req[q].list : Bound(panes, t) => t \in exposed \union late
    PROVE  PanesInv'
<1>. USE DEF PanesInv, StepKeeps, tmuxVars
<1>1. req[q] \in RequestState /\ pc \in PC
  BY DEF TypeOK, PC
<1>2. /\ h \in RequestState /\ h.pc = pc
      /\ h.kind = req[q].kind /\ h.task = req[q].task /\ h.parent = req[q].parent
      /\ h.pane = req[q].pane /\ h.copy = Nothing /\ h.held = FALSE
      /\ h.list = req[q].list /\ h.todo = req[q].todo
  BY <1>1, NothingBound DEF RequestState
<1>3. TypeOK'
  BY <1>2, TypesFrame DEF TypeOK
<1>4. TasksInv'
  <2>1. served' \in 0..MaxRequests
    BY DEF TypeOK
  <2>2. h.task \in KnownTasks /\ h.parent \in KnownTasks
    BY <1>2 DEF TasksInv, TasksKnown
  <2>3. ToOpen(h) => ToOpen(req[q])
    BY <1>2 DEF ToOpen
  <2>4. Owner(h) => Owner(req[q])
    BY <1>2 DEF Owner
  <2>5. ~ToInsert(h)
    BY <1>2 DEF ToInsert
  <2>. QED
    BY <1>2, <2>1, <2>2, <2>3, <2>4, <2>5, TasksFrame
<1>5. BindingsInv'
  <2>1. h.pane \in KnownPanes /\ answered \in [Task -> PaneOrNone]
    BY <1>2 DEF TypeOK, BindingsInv, PanesKnown
  <2>2. HasOpened(h) => HasOpened(req[q])
    BY <1>2 DEF HasOpened
  <2>3. ~Binder(h) /\ ~AwaitsMap(h) /\ ~Answers(h)
    BY <1>2 DEF Binder, AwaitsMap, Answers
  <2>. QED
    BY <1>2, <2>1, <2>2, <2>3, BindingsFrame
<1>. QED
  BY <1>3, <1>4, <1>5

\* Neither the rows nor anything else but the request changes.
LEMMA Quiet ==
    ASSUME TypeOK, UNCHANGED <<storeVars, tmuxVars, lastTask, served, errors, histVars>>
    PROVE  StepKeeps(row)
  BY KeptSame DEF StepKeeps, TypeOK, storeVars, histVars, tmuxVars

\* UpsertTaskMeta of a task that is known.
LEMMA Updates ==
    ASSUME TypeOK, NEW t \in Task, t <= lastTask, NEW status \in Status,
           status = "waiting_children" => HasChild(row, t),
           row' = Upserted(t, status),
           UNCHANGED <<panes, tmuxVars, lastTask, served, errors, histVars>>
    PROVE  /\ StepKeeps(row')
           /\ status \notin {"", "waiting_children"} => ~Waits(row', t)
<1>1. /\ row' \in [Task -> Rows] /\ Kept(row, row', lastTask)
      /\ \A u \in Task : row'[u].archived => row[u].archived
      /\ status \notin {"", "waiting_children"} => ~Waits(row', t)
  BY KeptUpserted
<1>. QED
  BY <1>1 DEF StepKeeps, TypeOK, histVars, tmuxVars

\* The tasks a request knows are tasks that have been created.
LEMMA KnownToBe ==
    ASSUME PanesInv, NEW q \in Request
    PROVE  /\ req[q] \in RequestState /\ Footing(req[q])
           /\ req[q].task # NoTask => req[q].task \in Task /\ req[q].task <= lastTask
           /\ req[q].parent # NoTask => req[q].parent \in Task /\ req[q].parent <= lastTask
<1>1. req[q] \in RequestState /\ lastTask \in Nat
  BY Ids DEF PanesInv, TypeOK
<1>2. req[q].task \in TaskOrNone /\ req[q].parent \in TaskOrNone
  BY <1>1, RequestFields
<1>3. req[q].task \in KnownTasks /\ req[q].parent \in KnownTasks
  BY DEF PanesInv, TasksInv, TasksKnown
<1>4. Footing(req[q])
  BY DEF PanesInv, TasksInv, RequestsKeepFooting
<1>. QED
  BY <1>1, <1>2, <1>3, <1>4, Ids DEF KnownTasks

--------------------------------------------------------------------------------
(* The initial states.                                                          *)

LEMMA InvInit == Init => PanesInv
<1>. SUFFICES ASSUME Init PROVE PanesInv
  OBVIOUS
<1>1. /\ panes \in Maps /\ panes[0] = Binding(0, FALSE)
      /\ \A t \in Task : t # 0 => panes[t] = Unbound
  <2>1. Binding(0, FALSE) \in [pane : PaneOrNone, gated : BOOLEAN]
    BY Ids DEF Binding
  <2>. QED
    BY <2>1, NothingBound, Ids DEF Init, Maps
<1>2. /\ row \in [Task -> Rows] /\ row[0].status = "running" /\ row[0].parent = NoTask
      /\ row[0].archived = FALSE
      /\ \A t \in Task : t # 0 => row[t] = NoRow
  <2>1. PICK role \in Role, checked \in BOOLEAN :
          row = [t \in Task |-> IF t # 0 THEN NoRow ELSE
                    [NoRow EXCEPT !.status = "running", !.role = role, !.checked = checked]]
    BY DEF Init
  <2>2. NoRow \in Rows
    BY DEF NoRow, Rows, TaskOrNone, Role
  <2>. DEFINE zero == [NoRow EXCEPT !.status = "running", !.role = role, !.checked = checked]
  <2>3. zero \in Rows /\ zero.status = "running" /\ zero.parent = NoTask /\ zero.archived = FALSE
    BY <2>1, <2>2 DEF NoRow, Rows, Status
  <2>. HIDE DEF zero
  <2>4. row = [t \in Task |-> IF t # 0 THEN NoRow ELSE zero]
    BY <2>1 DEF zero
  <2>. QED
    BY <2>2, <2>3, <2>4, Ids
<1>3. \A q \in Request : req[q] = Idle
  BY DEF Init
<1>4. TypeOK
  <2>1. req \in [Request -> RequestState]
    BY IdleRequest DEF Init
  <2>2. answered \in [Task -> PaneOrNone]
    BY Ids DEF Init
  <2>. QED
    BY <1>1, <1>2, <2>1, <2>2, Ids DEF Init, TypeOK
<1>5. TasksInv
  <2>1. RequestsKeepFooting
    BY <1>3, IdleRequest DEF RequestsKeepFooting
  <2>2. IdsLeft
    <3>1. Inserting = {} /\ Opening = {}
      BY <1>3, IdleRequest DEF Inserting, Opening
    <3>2. lastTask = 0 /\ lastPane = 0 /\ served = 0
      BY DEF Init
    <3>. QED
      BY <3>1, <3>2, FS_EmptySet DEF IdsLeft
  <2>3. \A t \in Task : There(row, t) => t = 0
    BY <1>2 DEF There, NoRow
  <2>4. 0 \in KnownTasks /\ NoTask \in KnownTasks
    BY DEF Init, KnownTasks
  <2>5. TasksKnown
    BY <1>2, <1>3, <2>3, <2>4, IdleRequest, TasksUnfolded
  <2>6. TasksOwned
    BY <1>3, IdleRequest DEF TasksOwned
  <2>7. WaitingForSomebody
    BY <1>2, <2>3, TasksUnfolded DEF Waits
  <2>. QED
    BY <2>1, <2>2, <2>5, <2>6, <2>7 DEF TasksInv
<1>6. BindingsInv
  <2>1. /\ panes[0].pane = 0
        /\ \A t \in Task : panes[t] = Unbound \/ (t = 0 /\ panes[t].pane = 0)
    BY <1>1 DEF Binding
  <2>2. Unbound.pane = NoPane /\ 0 # NoPane /\ 0 \in Pane /\ Foreign \in Pane
    BY Ids DEF Unbound, Binding
  <2>3. /\ alive = {0, Foreign} /\ lastPane = 0
        /\ answered = [t \in Task |-> IF t = 0 THEN 0 ELSE NoPane]
    BY DEF Init
  <2>4. 0 \in KnownPanes /\ Foreign \in KnownPanes /\ NoPane \in KnownPanes
        /\ 0 \in KnownPanes \ {NoPane} /\ Foreign \in KnownPanes \ {NoPane}
    BY <2>2, <2>3, Ids DEF KnownPanes
  <2>5. PanesKnown
    BY <1>3, <2>1, <2>2, <2>3, <2>4, IdleRequest, NothingBound DEF PanesKnown
  <2>6. CopiesCurrent
    BY <1>3, <2>1, <2>2, IdleRequest DEF CopiesCurrent, Whole
  <2>7. PaneIsNew
    BY <1>3, IdleRequest, BindingsUnfolded DEF Binder, AwaitsMap
  <2>8. AnsweredBound
    <3>1. \A t \in Task \ exposed :
             answered[t] \in alive \ retired => panes[t].pane = answered[t]
      BY <2>1, <2>2, <2>3
    <3>2. \A q \in Request : req[q].pc \notin {"find", "setRunning", "finish"}
      BY <1>3, IdleRequest
    <3>. QED
      BY <3>1, <3>2 DEF AnsweredBound
  <2>9. ClosedThenUnbound
    BY <1>3, IdleRequest DEF ClosedThenUnbound
  <2>10. PaneBoundOnce
    BY <2>1, <2>2 DEF PaneBoundOnce, Bound
  <2>11. ArchivedUnbound
    BY <1>2, <2>1 DEF ArchivedUnbound, Bound, NoRow
  <2>. QED
    BY <2>5, <2>6, <2>7, <2>8, <2>9, <2>10, <2>11 DEF BindingsInv
<1>. QED
  BY <1>4, <1>5, <1>6 DEF PanesInv

--------------------------------------------------------------------------------
(* The steps that change rows or nothing but the request.                       *)

\* The role is checked before the task is created.
LEMMA InvCheckRole ==
    ASSUME PanesInv, NEW q \in Request, CheckRole(q)
    PROVE  PanesInv'
<1>1. req[q] \in RequestState /\ Footing(req[q]) /\ req[q].pc = "role"
  BY KnownToBe DEF CheckRole, At
<1>2. StepKeeps(row)
  BY Quiet DEF CheckRole, PanesInv
<1>3. CASE Ends(q)
  BY <1>1, <1>2, <1>3, EndsStep DEF Ends, SeenTo, RollingBack
<1>4. CASE GoTo(q, "insert")
  <2>. DEFINE h == [req[q] EXCEPT !.pc = "insert"]
  <2>1. "insert" \in PC /\ req' = [req EXCEPT ![q] = h]
    BY <1>4 DEF PC, GoTo
  <2>2. /\ h.pc = "insert" /\ h.kind = req[q].kind /\ h.task = req[q].task
        /\ h.parent = req[q].parent /\ h.pane = req[q].pane /\ h.copy = req[q].copy
        /\ h.held = req[q].held /\ h.list = req[q].list /\ h.todo = req[q].todo
    BY <1>1, <2>1, GoesTo
  <2>. HIDE DEF h
  <2>3. Footing(h)
    BY <1>1, <2>2 DEF Footing, Creators, Openers
  <2>4. ToInsert(req[q]) /\ ~RollingBack(req[q]) /\ ~Answers(h)
    BY <1>1, <2>2 DEF ToInsert, RollingBack, Answers
  <2>. QED
    BY <1>2, <2>1, <2>3, <2>4, GoesStep DEF h
<1>. QED
  BY <1>3, <1>4 DEF CheckRole

\* A task has been created and its parent seen to.
LEMMA CreatedStep ==
    ASSUME PanesInv, NEW q \in Request, NEW new, StepKeeps(new),
           req[q].pc \in {"readParent", "setParent"}, AfterCreate(q, req[q])
    PROVE  PanesInv'
<1>1. req[q] \in RequestState /\ Footing(req[q])
  BY KnownToBe
<1>2. ~RollingBack(req[q]) /\ req[q].kind \in Creators /\ req[q].task # NoTask
  BY <1>1 DEF RollingBack, Footing
<1>3. CASE req[q].kind = "task"
  BY <1>2, <1>3, EndsStep DEF AfterCreate, Ends, SeenTo
<1>4. ASSUME NEW pc \in {"save", "open"}, pc = "save" <=> req[q].kind = "adopt",
             req[q].kind # "task", Step(q, [req[q] EXCEPT !.pc = pc])
      PROVE  PanesInv'
  <2>. DEFINE h == [req[q] EXCEPT !.pc = pc]
  <2>1. pc \in PC /\ req' = [req EXCEPT ![q] = h]
    BY <1>4 DEF PC, Step
  <2>2. /\ h.pc = pc /\ h.kind = req[q].kind /\ h.task = req[q].task
        /\ h.parent = req[q].parent /\ h.pane = req[q].pane /\ h.copy = req[q].copy
        /\ h.held = req[q].held /\ h.list = req[q].list /\ h.todo = req[q].todo
    BY <1>1, <2>1, GoesTo
  <2>. HIDE DEF h
  <2>3. Footing(h)
    BY <1>1, <1>2, <1>4, <2>2 DEF Footing, Creators, Openers
  <2>4. ~ToInsert(h) /\ ~Answers(h)
    BY <1>4, <2>2 DEF ToInsert, Answers
  <2>. QED
    BY <1>2, <2>1, <2>3, <2>4, GoesStep DEF h
<1>5. CASE req[q].kind = "adopt"
  BY <1>4, <1>5 DEF AfterCreate
<1>6. CASE req[q].kind \notin {"task", "adopt"}
  BY <1>4, <1>6 DEF AfterCreate
<1>. QED
  BY <1>3, <1>5, <1>6

LEMMA InvReadParent ==
    ASSUME PanesInv, NEW q \in Request, ReadParent(q)
    PROVE  PanesInv'
<1>1. req[q] \in RequestState /\ Footing(req[q]) /\ req[q].pc = "readParent"
  BY KnownToBe DEF ReadParent, At
<1>2. StepKeeps(row)
  BY Quiet DEF ReadParent, PanesInv
<1>3. CASE AfterCreate(q, req[q])
  BY <1>1, <1>2, <1>3, CreatedStep
<1>4. CASE GoTo(q, "setParent")
  <2>. DEFINE h == [req[q] EXCEPT !.pc = "setParent"]
  <2>1. "setParent" \in PC /\ req' = [req EXCEPT ![q] = h]
    BY <1>4 DEF PC, GoTo
  <2>2. /\ h.pc = "setParent" /\ h.kind = req[q].kind /\ h.task = req[q].task
        /\ h.parent = req[q].parent /\ h.pane = req[q].pane /\ h.copy = req[q].copy
        /\ h.held = req[q].held /\ h.list = req[q].list /\ h.todo = req[q].todo
    BY <1>1, <2>1, GoesTo
  <2>. HIDE DEF h
  <2>3. Footing(h)
    BY <1>1, <2>2 DEF Footing, Creators, Openers
  <2>4. ~ToInsert(h) /\ ~RollingBack(req[q]) /\ ~Answers(h)
    BY <1>1, <2>2 DEF ToInsert, RollingBack, Answers
  <2>. QED
    BY <1>2, <2>1, <2>3, <2>4, GoesStep DEF h
<1>. QED
  BY <1>3, <1>4 DEF ReadParent

\* The parent waits for the child that was just created.
LEMMA InvSetParent ==
    ASSUME PanesInv, NEW q \in Request, SetParent(q)
    PROVE  PanesInv'
<1>. DEFINE p == req[q].parent
<1>1. req[q] \in RequestState /\ Footing(req[q]) /\ req[q].pc = "setParent"
  BY KnownToBe DEF SetParent, At
<1>2. req[q].kind \in Creators /\ req[q].task # NoTask /\ p # NoTask
  BY <1>1 DEF Footing
<1>3. /\ p \in Task /\ p <= lastTask /\ req[q].task \in Task
  BY <1>2, KnownToBe
<1>4. Owner(req[q]) /\ ~RollingBack(req[q])
  BY <1>1, <1>2 DEF Owner, RollingBack
<1>5. There(row, req[q].task) /\ row[req[q].task].parent = p
  BY <1>4, TasksUnfolded DEF PanesInv, TasksInv
<1>6. HasChild(row, p)
  BY <1>3, <1>5 DEF HasChild
<1>7. StepKeeps(row')
  BY <1>3, <1>6, Updates DEF SetParent, PanesInv, Status
<1>. QED
  BY <1>1, <1>7, CreatedStep DEF SetParent

\* A request fails: it rolls its task back, or just ends.
LEMMA FailsStep ==
    ASSUME PanesInv, NEW q \in Request, Fails(q), StepKeeps(row), SeenTo(row, req[q])
    PROVE  PanesInv'
<1>1. req[q] \in RequestState /\ Footing(req[q])
  BY KnownToBe
<1>2. CASE Ends(q)
  BY <1>2, EndsStep DEF Ends
<1>3. CASE /\ Step(q, [Dropped(q) EXCEPT !.pc = "rbFind"])
           /\ req[q].kind \in {"root", "create", "adopt"} /\ req[q].task # NoTask
           /\ req[q].pc \in {"load", "open", "save", "find", "setRunning", "finish"}
  <2>. DEFINE h == [[req[q] EXCEPT !.held = FALSE, !.copy = Nothing] EXCEPT !.pc = "rbFind"]
  <2>1. req' = [req EXCEPT ![q] = h]
    BY <1>3 DEF Step, Dropped
  <2>2. /\ h.pc = "rbFind" /\ h.kind = req[q].kind /\ h.task = req[q].task
        /\ h.parent = req[q].parent /\ h.pane = req[q].pane /\ h.held = FALSE
    BY <1>1 DEF RequestState
  <2>. HIDE DEF h
  <2>3. Footing(h)
    BY <1>1, <1>3, <2>2 DEF Footing, Creators, Openers
  <2>4. ~RollingBack(req[q])
    BY <1>3 DEF RollingBack
  <2>. QED
    BY <2>1, <2>3, <2>4, DropsStep DEF h
<1>. QED
  BY <1>2, <1>3 DEF Fails

LEMMA InvFindTask ==
    ASSUME PanesInv, NEW q \in Request, FindTask(q)
    PROVE  PanesInv'
<1>1. req[q] \in RequestState /\ Footing(req[q]) /\ req[q].pc = "find"
  BY KnownToBe DEF FindTask, At
<1>2. StepKeeps(row)
  BY Quiet DEF FindTask, PanesInv
<1>3. CASE Fails(q)
  BY <1>1, <1>2, <1>3, FailsStep DEF SeenTo, RollingBack
<1>4. CASE GoTo(q, "setRunning")
  <2>. DEFINE h == [req[q] EXCEPT !.pc = "setRunning"]
  <2>1. "setRunning" \in PC /\ req' = [req EXCEPT ![q] = h]
    BY <1>4 DEF PC, GoTo
  <2>2. /\ h.pc = "setRunning" /\ h.kind = req[q].kind /\ h.task = req[q].task
        /\ h.parent = req[q].parent /\ h.pane = req[q].pane /\ h.copy = req[q].copy
        /\ h.held = req[q].held /\ h.list = req[q].list /\ h.todo = req[q].todo
    BY <1>1, <2>1, GoesTo
  <2>. HIDE DEF h
  <2>3. Footing(h)
    BY <1>1, <2>2 DEF Footing, Creators, Openers
  <2>4. ~ToInsert(h) /\ ~RollingBack(req[q]) /\ Answers(req[q])
    BY <1>1, <2>2 DEF ToInsert, RollingBack, Answers
  <2>. QED
    BY <1>2, <2>1, <2>3, <2>4, GoesStep DEF h
<1>. QED
  BY <1>3, <1>4 DEF FindTask

LEMMA InvSetRunning ==
    ASSUME PanesInv, NEW q \in Request, SetRunning(q)
    PROVE  PanesInv'
<1>. DEFINE h == [req[q] EXCEPT !.pc = "finish"]
<1>1. req[q] \in RequestState /\ Footing(req[q]) /\ req[q].pc = "setRunning"
  BY KnownToBe DEF SetRunning, At
<1>2. req[q].task # NoTask
  BY <1>1 DEF Footing
<1>3. StepKeeps(row')
  BY <1>2, KnownToBe, Updates DEF SetRunning, PanesInv, Status
<1>4. "finish" \in PC /\ req' = [req EXCEPT ![q] = h]
  BY DEF PC, SetRunning, GoTo
<1>5. /\ h.pc = "finish" /\ h.kind = req[q].kind /\ h.task = req[q].task
      /\ h.parent = req[q].parent /\ h.pane = req[q].pane /\ h.copy = req[q].copy
      /\ h.held = req[q].held /\ h.list = req[q].list /\ h.todo = req[q].todo
  BY <1>1, <1>4, GoesTo
<1>. HIDE DEF h
<1>6. Footing(h)
  BY <1>1, <1>5 DEF Footing, Creators, Openers
<1>7. ~ToInsert(h) /\ ~RollingBack(req[q]) /\ Answers(req[q])
  BY <1>1, <1>5 DEF ToInsert, RollingBack, Answers
<1>. QED
  BY <1>3, <1>4, <1>6, <1>7, GoesStep DEF h

\* A row that is checked or unchecked is kept.
LEMMA KeptChecked ==
    ASSUME TypeOK, NEW t \in Task, t <= lastTask, NEW b \in BOOLEAN,
           row' = [Upserted(t, "") EXCEPT ![t].checked = b],
           UNCHANGED <<panes, tmuxVars, lastTask, served, errors, histVars>>
    PROVE  StepKeeps(row')
<1>. DEFINE up == Upserted(t, "")
<1>1. /\ up \in [Task -> Rows] /\ Kept(row, up, lastTask)
      /\ \A u \in Task : up[u].archived => row[u].archived
  BY KeptUpserted DEF Status
<1>. HIDE DEF up
<1>2. row' = [up EXCEPT ![t].checked = b]
  BY DEF up
<1>3. [up[t] EXCEPT !.checked = b] \in Rows
  BY <1>1 DEF Rows
<1>4. /\ row' \in [Task -> Rows]
      /\ \A u \in Task : row'[u].status = up[u].status /\ row'[u].parent = up[u].parent
                         /\ row'[u].archived = up[u].archived
  <2>1. \A u \in Task : u # t => row'[u] = up[u]
    BY <1>1, <1>2
  <2>2. row'[t] = [up[t] EXCEPT !.checked = b]
    BY <1>1, <1>2
  <2>3. /\ row'[t].status = up[t].status /\ row'[t].parent = up[t].parent
        /\ row'[t].archived = up[t].archived
    BY <1>1, <2>2 DEF Rows
  <2>4. row' \in [Task -> Rows]
    BY <1>1, <1>2, <1>3
  <2>. QED
    BY <2>1, <2>3, <2>4
<1>5. \A u \in Task : There(row', u) <=> There(up, u)
  BY <1>4 DEF There
<1>6. \A u \in Task : (Waits(row', u) <=> Waits(up, u)) /\ (HasChild(row', u) <=> HasChild(up, u))
  BY <1>4, <1>5 DEF Waits, HasChild
<1>7. Kept(row, row', lastTask)
  BY <1>1, <1>4, <1>5, <1>6 DEF Kept
<1>. QED
  BY <1>1, <1>4, <1>7 DEF StepKeeps, TypeOK, histVars, tmuxVars

LEMMA InvPatchTask ==
    ASSUME PanesInv, NEW q \in Request, PatchTask(q)
    PROVE  PanesInv'
<1>. DEFINE t == req[q].task
<1>1. req[q] \in RequestState /\ Footing(req[q]) /\ req[q].pc = "patch"
  BY KnownToBe DEF PatchTask, At
<1>2. req[q].kind \in Patches /\ t # NoTask
  BY <1>1 DEF Footing
<1>3. t \in Task /\ t <= lastTask
  BY <1>2, KnownToBe
<1>4. UNCHANGED <<panes, tmuxVars, lastTask, served, errors, histVars>> /\ TypeOK
  BY DEF PatchTask, PanesInv
<1>5. \/ row' = Upserted(t, "completed") \/ row' = Upserted(t, "")
      \/ \E b \in BOOLEAN : row' = [Upserted(t, "") EXCEPT ![t].checked = b]
  BY <1>2 DEF PatchTask, Patches
<1>6. StepKeeps(row')
  <2>1. CASE row' = Upserted(t, "completed")
    BY <1>3, <1>4, <2>1, Updates DEF Status
  <2>2. CASE row' = Upserted(t, "")
    BY <1>3, <1>4, <2>2, Updates DEF Status
  <2>3. CASE \E b \in BOOLEAN : row' = [Upserted(t, "") EXCEPT ![t].checked = b]
    BY <1>3, <1>4, <2>3, KeptChecked
  <2>. QED
    BY <1>5, <2>1, <2>2, <2>3
<1>. QED
  BY <1>1, <1>6, EndsStep DEF PatchTask, Ends, SeenTo, RollingBack

\* A rollback finds its task with the parent it was created with.
LEMMA InvRollbackFind ==
    ASSUME PanesInv, NEW q \in Request, RollbackFind(q)
    PROVE  PanesInv'
<1>1. req[q] \in RequestState /\ Footing(req[q]) /\ req[q].pc = "rbFind"
  BY KnownToBe DEF RollbackFind, At
<1>2. StepKeeps(row) /\ ~RollingBack(req[q])
  BY <1>1, Quiet DEF RollbackFind, PanesInv, RollingBack
<1>3. CASE Ends(q)
  BY <1>2, <1>3, EndsStep DEF Ends, SeenTo
<1>4. CASE Step(q, [req[q] EXCEPT !.pc = "rbDelete", !.parent = row[req[q].task].parent])
  <2>. DEFINE h == [req[q] EXCEPT !.pc = "rbDelete"]
  <2>1. req[q].kind \in Creators /\ req[q].task # NoTask
    BY <1>1 DEF Footing
  <2>2. row[req[q].task].parent = req[q].parent
    BY <1>2, <2>1, TasksUnfolded DEF PanesInv, TasksInv, Owner
  <2>3. "rbDelete" \in PC /\ req' = [req EXCEPT ![q] = h]
    <3>1. [req[q] EXCEPT !.pc = "rbDelete", !.parent = req[q].parent] = h
      BY <1>1 DEF RequestState
    <3>. QED
      BY <1>4, <2>2, <3>1 DEF Step, PC
  <2>4. /\ h.pc = "rbDelete" /\ h.kind = req[q].kind /\ h.task = req[q].task
        /\ h.parent = req[q].parent /\ h.pane = req[q].pane /\ h.copy = req[q].copy
        /\ h.held = req[q].held /\ h.list = req[q].list /\ h.todo = req[q].todo
    BY <1>1, <2>3, GoesTo
  <2>. HIDE DEF h
  <2>5. Footing(h)
    BY <1>1, <2>1, <2>4 DEF Footing, Creators, Openers
  <2>6. ~ToInsert(h) /\ ~Answers(h)
    BY <2>4 DEF ToInsert, Answers
  <2>. QED
    BY <1>2, <2>3, <2>5, <2>6, GoesStep DEF h
<1>. QED
  BY <1>3, <1>4 DEF RollbackFind

\* A rollback leaves the parent alone only when it does not wait or has another child.
LEMMA InvRollbackList ==
    ASSUME PanesInv, NEW q \in Request, RollbackList(q)
    PROVE  PanesInv'
<1>. DEFINE p == req[q].parent
<1>1. req[q] \in RequestState /\ Footing(req[q]) /\ req[q].pc = "rbList"
  BY KnownToBe DEF RollbackList, At
<1>2. StepKeeps(row)
  BY Quiet DEF RollbackList, PanesInv
<1>3. CASE Ends(q) /\ ~(Listed(p) /\ row[p].status = "waiting_children" /\ Children(p) = {})
  <2>1. p \in Task => ~Waits(row, p) \/ HasChild(row, p)
    BY <1>3, RowsThere DEF Children, HasChild
  <2>. QED
    BY <1>2, <1>3, <2>1, EndsStep DEF Ends, SeenTo
<1>4. CASE GoTo(q, "rbParent") /\ Listed(p)
  <2>. DEFINE h == [req[q] EXCEPT !.pc = "rbParent"]
  <2>1. "rbParent" \in PC /\ req' = [req EXCEPT ![q] = h]
    BY <1>4 DEF PC, GoTo
  <2>2. /\ h.pc = "rbParent" /\ h.kind = req[q].kind /\ h.task = req[q].task
        /\ h.parent = req[q].parent /\ h.pane = req[q].pane /\ h.copy = req[q].copy
        /\ h.held = req[q].held /\ h.list = req[q].list /\ h.todo = req[q].todo
    BY <1>1, <2>1, GoesTo
  <2>3. p # NoTask
    BY <1>4 DEF Listed, Exists
  <2>. HIDE DEF h
  <2>4. Footing(h)
    BY <1>1, <2>2, <2>3 DEF Footing, Creators, Openers
  <2>5. ~ToInsert(h) /\ RollingBack(h) /\ ~Answers(h)
    BY <2>2 DEF ToInsert, RollingBack, Answers
  <2>. QED
    BY <1>2, <2>1, <2>4, <2>5, GoesStep DEF h
<1>. QED
  BY <1>3, <1>4 DEF RollbackList

LEMMA InvRollbackParent ==
    ASSUME PanesInv, NEW q \in Request, RollbackParent(q)
    PROVE  PanesInv'
<1>1. req[q] \in RequestState /\ Footing(req[q]) /\ req[q].pc = "rbParent"
  BY KnownToBe DEF RollbackParent, At
<1>2. req[q].parent \in Task /\ req[q].parent <= lastTask
  BY <1>1, KnownToBe DEF Footing
<1>3. StepKeeps(row') /\ ~Waits(row', req[q].parent)
  BY <1>2, Updates DEF RollbackParent, PanesInv, Status
<1>. QED
  BY <1>3, EndsStep DEF RollbackParent, Ends, SeenTo

LEMMA InvShellIsReady ==
    ASSUME PanesInv, NEW q \in Request, ShellIsReady(q)
    PROVE  PanesInv'
<1>1. req[q] \in RequestState /\ Footing(req[q]) /\ req[q].pc = "wait"
  BY KnownToBe DEF ShellIsReady, At
<1>2. StepKeeps(row) /\ ~RollingBack(req[q])
  BY <1>1, Quiet DEF ShellIsReady, PanesInv, RollingBack
<1>3. CASE Ends(q)
  BY <1>2, <1>3, EndsStep DEF Ends, SeenTo
<1>4. CASE GoTo(q, "save")
  <2>. DEFINE h == [req[q] EXCEPT !.pc = "save"]
  <2>1. "save" \in PC /\ req' = [req EXCEPT ![q] = h]
    BY <1>4 DEF PC, GoTo
  <2>2. /\ h.pc = "save" /\ h.kind = req[q].kind /\ h.task = req[q].task
        /\ h.parent = req[q].parent /\ h.pane = req[q].pane /\ h.copy = req[q].copy
        /\ h.held = req[q].held /\ h.list = req[q].list /\ h.todo = req[q].todo
    BY <1>1, <2>1, GoesTo
  <2>. HIDE DEF h
  <2>3. Footing(h)
    BY <1>1, <2>2 DEF Footing, Creators, Openers, Bound
  <2>4. ~ToInsert(h) /\ ~Answers(h)
    BY <2>2 DEF ToInsert, Answers
  <2>. QED
    BY <1>2, <2>1, <2>3, <2>4, GoesStep DEF h
<1>. QED
  BY <1>3, <1>4 DEF ShellIsReady

\* A rollback that is cut short is remembered by its parent.
LEMMA InvCallFails ==
    ASSUME PanesInv, NEW q \in Request, CallFails(q)
    PROVE  PanesInv'
<1>1. req[q] \in RequestState /\ Footing(req[q])
  BY KnownToBe
<1>2. cut' = IF RollingBack(req[q]) THEN cut \union {req[q].parent} ELSE cut
  BY DEF CallFails, At, RollingBack
<1>3. StepKeeps(row)
  <2>1. cut \subseteq cut' /\ cut' \subseteq TaskOrNone
    BY <1>1, <1>2, RequestFields DEF PanesInv, TypeOK
  <2>2. errors' \in 0..MaxErrors
    BY Ids DEF CallFails, PanesInv, TypeOK
  <2>. QED
    BY <2>1, <2>2, KeptSame DEF CallFails, StepKeeps, storeVars, tmuxVars, PanesInv, TypeOK
<1>4. SeenTo(row, req[q])
  BY <1>2 DEF SeenTo
<1>. QED
  BY <1>3, <1>4, FailsStep DEF CallFails

\* An archive closes the panes of the tasks it has listed.
LEMMA InvCloseNext ==
    ASSUME PanesInv, NEW q \in Request, CloseNext(q)
    PROVE  PanesInv'
<1>1. req[q] \in RequestState /\ Footing(req[q]) /\ req[q].pc = "close"
  BY KnownToBe DEF CloseNext, At
<1>2. req[q].kind = "archive" /\ req[q].held /\ req[q].task = NoTask
  BY <1>1 DEF Footing
<1>3. ~RollingBack(req[q])
  BY <1>1 DEF RollingBack
<1>4. CASE req[q].todo = {}
  <2>1. StepKeeps(row)
    BY <1>4, Quiet DEF CloseNext, PanesInv, storeVars, tmuxVars
  <2>2. CASE Step(q, [req[q] EXCEPT !.pc = "save"])
    <3>. DEFINE h == [req[q] EXCEPT !.pc = "save"]
    <3>1. "save" \in PC /\ req' = [req EXCEPT ![q] = h]
      BY <2>2 DEF PC, Step
    <3>2. /\ h.pc = "save" /\ h.kind = req[q].kind /\ h.task = req[q].task
          /\ h.parent = req[q].parent /\ h.pane = req[q].pane /\ h.copy = req[q].copy
          /\ h.held = req[q].held /\ h.list = req[q].list /\ h.todo = req[q].todo
      BY <1>1, <3>1, GoesTo
    <3>. HIDE DEF h
    <3>3. Footing(h)
      BY <1>1, <1>2, <1>4, <3>2 DEF Footing, Creators, Openers
    <3>4. ~ToInsert(h) /\ ~Answers(h)
      BY <3>2 DEF ToInsert, Answers
    <3>. QED
      BY <1>3, <2>1, <3>1, <3>3, <3>4, GoesStep DEF h
  <2>3. CASE /\ Step(q, [Dropped(q) EXCEPT !.pc = "archive"])
             /\ \A t \in req[q].list : ~Bound(req[q].copy, t)
    <3>. DEFINE h == [[req[q] EXCEPT !.held = FALSE, !.copy = Nothing] EXCEPT !.pc = "archive"]
    <3>1. req' = [req EXCEPT ![q] = h]
      BY <2>3 DEF Step, Dropped
    <3>2. /\ h.pc = "archive" /\ h.kind = req[q].kind /\ h.task = req[q].task
          /\ h.parent = req[q].parent /\ h.pane = req[q].pane /\ h.held = FALSE
      BY <1>1 DEF RequestState
    <3>. HIDE DEF h
    <3>3. Footing(h)
      BY <1>1, <1>2, <3>2 DEF Footing, Creators, Openers
    <3>4. \A t \in req[q].list : Bound(panes, t) => t \in exposed \union late
      <4>1. \A t \in Task \ exposed : req[q].copy[t] = panes[t]
        BY <1>2 DEF PanesInv, BindingsInv, CopiesCurrent
      <4>2. req[q].list \subseteq Task
        BY <1>1, RequestFields
      <4>. QED
        BY <2>3, <4>1, <4>2 DEF Bound
    <3>. QED
      BY <1>3, <2>1, <3>1, <3>3, <3>4, DropsStep DEF h
  <2>. QED
    BY <1>4, <2>2, <2>3 DEF CloseNext
<1>5. CASE req[q].todo # {}
  <2>1. PICK t : /\ alive' = alive \ {req[q].copy[t].pane}
                 /\ Step(q, [req[q] EXCEPT !.todo = @ \ {t}])
    BY <1>5 DEF CloseNext
  <2>. DEFINE h == [req[q] EXCEPT !.todo = req[q].todo \ {t}]
  <2>2. req' = [req EXCEPT ![q] = h]
    BY <2>1 DEF Step
  <2>3. /\ h \in RequestState /\ h.pc = "close" /\ h.kind = "archive" /\ h.task = NoTask
        /\ h.parent = req[q].parent /\ h.pane = req[q].pane /\ h.copy = req[q].copy
        /\ h.held = req[q].held /\ h.list = req[q].list /\ h.todo = req[q].todo \ {t}
    BY <1>1, <1>2 DEF RequestState
  <2>. HIDE DEF h
  <2>4. Footing(h)
    BY <1>1, <1>2, <2>3 DEF Footing, Creators, Openers
  <2>5. /\ UNCHANGED <<row, panes, lastPane, lastTask, served, errors>>
        /\ UNCHANGED <<answered, exposed, late, opening, retired, cut>>
        /\ alive' \subseteq alive
    BY <2>1 DEF CloseNext, storeVars, histVars
  <2>6. TypeOK'
    BY <2>2, <2>3, <2>5, TypesFrame DEF PanesInv, TypeOK
  <2>7. TasksInv'
    <3>1. served' \in 0..MaxRequests /\ Kept(row, row', lastTask)
      BY <2>5, KeptSame DEF PanesInv, TypeOK
    <3>2. h.task \in KnownTasks /\ h.parent \in KnownTasks
      BY <1>2, <2>3 DEF PanesInv, TasksInv, TasksKnown
    <3>3. ~Owner(h) /\ ~ToInsert(h) /\ ~ToOpen(h)
      BY <2>3 DEF Owner, ToInsert, ToOpen, Creators, Openers
    <3>. QED
      BY <1>3, <2>2, <2>3, <2>4, <2>5, <3>1, <3>2, <3>3, TasksFrame DEF PanesInv
  <2>8. BindingsInv'
    <3>1. h.pane \in KnownPanes /\ answered' \in [Task -> PaneOrNone] /\ row' \in [Task -> Rows]
      BY <2>3, <2>5 DEF PanesInv, TypeOK, BindingsInv, PanesKnown
    <3>2. ~HasOpened(h) /\ ~Binder(h) /\ ~AwaitsMap(h) /\ ~Answers(h)
      BY <2>3 DEF HasOpened, Binder, AwaitsMap, Answers, Openers
    <3>3. \A u \in h.list \ h.todo : Bound(h.copy, u) => h.copy[u].pane \notin alive'
      <4>1. \A u \in req[q].list \ req[q].todo :
               Bound(req[q].copy, u) => req[q].copy[u].pane \notin alive
        BY <1>2 DEF PanesInv, BindingsInv, ClosedThenUnbound
      <4>. QED
        BY <2>1, <2>3, <4>1
    <3>. QED
      BY <1>2, <2>2, <2>3, <2>5, <3>1, <3>2, <3>3, BindingsFrame DEF PanesInv
  <2>. QED
    BY <2>6, <2>7, <2>8 DEF PanesInv
<1>. QED
  BY <1>4, <1>5

\* An archive has taken the bindings of all it listed out of the map before it archives.
LEMMA InvArchiveRows ==
    ASSUME PanesInv, NEW q \in Request, ArchiveRows(q)
    PROVE  PanesInv'
<1>. DEFINE rows == {t \in Task : Listed(t) /\ row[t].checked}
<1>. USE IdleRequest
<1>1. req[q] \in RequestState /\ Footing(req[q]) /\ req[q].pc = "archive"
  BY KnownToBe DEF ArchiveRows, At
<1>2. req[q].kind = "archive" /\ ~RollingBack(req[q]) /\ row \in [Task -> Rows]
  BY <1>1 DEF Footing, RollingBack, PanesInv, TypeOK
<1>3. /\ row' = [t \in Task |-> IF t \in rows THEN [row[t] EXCEPT !.archived = TRUE] ELSE row[t]]
      /\ late' = late \union (rows \ req[q].list) /\ req' = [req EXCEPT ![q] = Idle]
      /\ UNCHANGED <<panes, alive, lastPane, lastTask, served, errors>>
      /\ UNCHANGED <<answered, exposed, opening, retired, cut>>
  BY DEF ArchiveRows, Ends, tmuxVars
<1>4. \A t \in Task : /\ row'[t] \in Rows
                      /\ row'[t].status = row[t].status /\ row'[t].parent = row[t].parent
                      /\ row'[t].archived => row[t].archived \/ t \in rows
                      /\ row[t].archived => row'[t].archived
  <2>. SUFFICES ASSUME NEW t \in Task
                PROVE  /\ row'[t] \in Rows
                       /\ row'[t].status = row[t].status /\ row'[t].parent = row[t].parent
                       /\ row'[t].archived => row[t].archived \/ t \in rows
                       /\ row[t].archived => row'[t].archived
    OBVIOUS
  <2>1. row[t] \in Rows
    BY <1>2
  <2>2. CASE t \in rows
    <3>1. row'[t] = [row[t] EXCEPT !.archived = TRUE]
      BY <1>3, <2>2
    <3>. QED
      BY <2>1, <2>2, <3>1 DEF Rows
  <2>3. CASE t \notin rows
    <3>1. row'[t] = row[t]
      BY <1>3, <2>3
    <3>. QED
      BY <2>1, <3>1
  <2>. QED
    BY <2>2, <2>3
<1>5. row' \in [Task -> Rows] /\ rows \subseteq Task
  BY <1>3, <1>4
<1>. HIDE DEF rows
<1>6. Kept(row, row', lastTask)
  <2>1. \A t \in Task : There(row', t) <=> There(row, t)
    BY <1>4 DEF There
  <2>2. \A t \in Task : Waits(row', t) => Waits(row, t)
    BY <1>4 DEF Waits, There
  <2>. QED
    BY <1>4, <2>1, <2>2 DEF Kept
<1>7. TypeOK'
  BY <1>3, <1>5, TypesFrame DEF PanesInv, TypeOK
<1>8. TasksInv'
  <2>1. served' \in 0..MaxRequests /\ NoTask \in KnownTasks
    BY <1>3 DEF PanesInv, TypeOK, KnownTasks
  <2>. QED
    BY <1>2, <1>3, <1>6, <2>1, TasksFrame DEF PanesInv
<1>9. BindingsInv'
  <2>1. /\ NoPane \in KnownPanes /\ answered' \in [Task -> PaneOrNone]
        /\ ~Binder(Idle) /\ ~AwaitsMap(Idle) /\ ~Answers(Idle)
    BY <1>3 DEF PanesInv, TypeOK, KnownPanes, Binder, AwaitsMap, Answers
  <2>2. \A t \in Task : row'[t].archived =>
           row[t].archived \/ (Bound(panes, t) => t \in exposed \union late')
    <3>1. \A t \in req[q].list : Bound(panes, t) => t \in exposed \union late
      BY <1>1, <1>2 DEF PanesInv, BindingsInv, ClosedThenUnbound
    <3>. QED
      BY <1>3, <1>4, <3>1
  <2>3. late \subseteq late'
    BY <1>3
  <2>. QED
    BY <1>3, <1>5, <2>1, <2>2, <2>3, BindingsFrame DEF PanesInv
<1>. QED
  BY <1>7, <1>8, <1>9 DEF PanesInv

\* A request answers with the pane its task is bound to.
LEMMA InvFinish ==
    ASSUME PanesInv, NEW q \in Request, Finish(q)
    PROVE  PanesInv'
<1>. USE IdleRequest
<1>1. req[q] \in RequestState /\ Footing(req[q]) /\ req[q].pc = "finish"
  BY KnownToBe DEF Finish, At
<1>2. req[q].task # NoTask /\ ~RollingBack(req[q])
  BY <1>1 DEF Footing, RollingBack
<1>3. req[q].task \in Task /\ req[q].task <= lastTask /\ req[q].pane \in PaneOrNone
  BY <1>1, <1>2, KnownToBe, RequestFields
<1>4. /\ answered' = [answered EXCEPT ![req[q].task] = req[q].pane]
      /\ req' = [req EXCEPT ![q] = Idle]
      /\ UNCHANGED <<panes, alive, lastPane, lastTask, served, errors>>
      /\ UNCHANGED <<exposed, late, opening, retired, cut>>
  BY DEF Finish, Ends, tmuxVars
<1>5. /\ row' \in [Task -> Rows] /\ Kept(row, row', lastTask)
      /\ \A t \in Task : row'[t].archived => row[t].archived
  <2>1. CASE row' = row
    BY <2>1, KeptSame DEF PanesInv, TypeOK
  <2>2. CASE row' = Upserted(req[q].task, "")
    BY <1>3, <2>2, KeptUpserted DEF PanesInv, Status
  <2>. QED
    BY <2>1, <2>2 DEF Finish
<1>6. answered' \in [Task -> PaneOrNone]
  BY <1>3, <1>4 DEF PanesInv, TypeOK
<1>7. TypeOK'
  BY <1>4, <1>5, <1>6, TypesFrame DEF PanesInv, TypeOK
<1>8. TasksInv'
  <2>1. served' \in 0..MaxRequests /\ NoTask \in KnownTasks
    BY <1>4 DEF PanesInv, TypeOK, KnownTasks
  <2>. QED
    BY <1>2, <1>4, <1>5, <2>1, TasksFrame DEF PanesInv
<1>9. BindingsInv'
  <2>1. /\ NoPane \in KnownPanes
        /\ ~Binder(Idle) /\ ~AwaitsMap(Idle) /\ ~Answers(Idle)
    BY DEF KnownPanes, Binder, AwaitsMap, Answers
  <2>2. \A t \in Task :
           \/ answered'[t] = answered[t]
           \/ /\ answered'[t] \in KnownPanes
              /\ t \notin exposed /\ answered'[t] \in alive \ retired
                     => panes[t].pane = answered'[t]
    <3>1. req[q].pane \in KnownPanes
      BY DEF PanesInv, BindingsInv, PanesKnown
    <3>2. req[q].pane \in alive \ retired /\ req[q].task \notin exposed
              => panes[req[q].task].pane = req[q].pane
      BY <1>1 DEF PanesInv, BindingsInv, AnsweredBound
    <3>3. \A t \in Task : answered'[t] = IF t = req[q].task THEN req[q].pane ELSE answered[t]
      BY <1>4 DEF PanesInv, TypeOK
    <3>. QED
      BY <3>1, <3>2, <3>3
  <2>. QED
    BY <1>4, <1>5, <1>6, <2>1, <2>2, BindingsFrame DEF PanesInv
<1>. QED
  BY <1>7, <1>8, <1>9 DEF PanesInv

\* A rollback takes its own task out, and has yet to see to the parent.
LEMMA InvRollbackDelete ==
    ASSUME PanesInv, NEW q \in Request, RollbackDelete(q)
    PROVE  PanesInv'
<1>. DEFINE t == req[q].task
            h == [req[q] EXCEPT !.pc = "rbList"]
<1>1. req[q] \in RequestState /\ Footing(req[q]) /\ req[q].pc = "rbDelete"
  BY KnownToBe DEF RollbackDelete, At
<1>2. req[q].kind \in Creators /\ t # NoTask /\ t \in Task
  BY <1>1, KnownToBe DEF Footing
<1>3. Owner(req[q]) /\ ~RollingBack(req[q])
  BY <1>1, <1>2 DEF Owner, RollingBack
<1>4. There(row, t) /\ row[t].parent = req[q].parent
  BY <1>3, TasksUnfolded DEF PanesInv, TasksInv
<1>5. /\ row' = [row EXCEPT ![t] = NoRow] /\ req' = [req EXCEPT ![q] = h]
      /\ UNCHANGED <<panes, alive, lastPane, lastTask, served, errors>>
      /\ UNCHANGED <<answered, exposed, late, opening, retired, cut>>
  BY DEF RollbackDelete, GoTo, tmuxVars, histVars
<1>6. "rbList" \in PC
  BY DEF PC
<1>7. /\ h \in RequestState /\ h.pc = "rbList" /\ h.kind = req[q].kind /\ h.task = t
      /\ h.parent = req[q].parent /\ h.pane = req[q].pane /\ h.copy = req[q].copy
      /\ h.held = req[q].held /\ h.list = req[q].list /\ h.todo = req[q].todo
  BY <1>1, <1>6, GoesTo
<1>. HIDE DEF h, t
<1>8. /\ row \in [Task -> Rows] /\ NoRow \in Rows /\ row' \in [Task -> Rows]
      /\ NoRow.status = "absent" /\ NoRow.archived = FALSE
  <2>1. row \in [Task -> Rows] /\ NoRow \in Rows
    BY DEF PanesInv, TypeOK, NoRow, Rows, TaskOrNone, Role
  <2>. QED
    BY <1>5, <2>1 DEF NoRow
<1>9. /\ row'[t] = NoRow /\ ~There(row', t)
      /\ \A u \in Task : u # t => row'[u] = row[u]
  BY <1>2, <1>5, <1>8 DEF There
<1>10. /\ req \in [Request -> RequestState] /\ req'[q] = h
       /\ \A o \in Request : o # q => req'[o] = req[o]
  BY <1>5, <1>7, OneRequest DEF PanesInv, TypeOK
<1>11. Footing(h)
  BY <1>1, <1>2, <1>7 DEF Footing, Creators, Openers
<1>12. TypeOK'
  BY <1>5, <1>7, <1>8, TypesFrame DEF PanesInv, TypeOK
<1>13. TasksInv'
  <2>1. RequestsKeepFooting'
    BY <1>10, <1>11 DEF PanesInv, TasksInv, RequestsKeepFooting
  <2>2. IdsLeft'
    <3>1. /\ IsFiniteSet(Inserting) /\ lastTask + Cardinality(Inserting) <= served
          /\ IsFiniteSet(Opening) /\ lastPane + Cardinality(Opening) <= served
      BY DEF PanesInv, TasksInv, IdsLeft
    <3>2. ~ToInsert(h) /\ (ToOpen(h) => ToOpen(req[q]))
      BY <1>7 DEF ToInsert, ToOpen
    <3>3. Inserting' \subseteq Inserting /\ Opening' \subseteq Opening
      BY <1>10, <3>2 DEF Inserting, Opening
    <3>4. lastTask \in Nat /\ lastPane \in Nat /\ served \in Nat
      BY Ids DEF PanesInv, TypeOK
    <3>5. IsFiniteSet(Inserting') /\ lastTask + Cardinality(Inserting') <= served
      BY ONLY <3>1, <3>3, <3>4, CountKept
    <3>6. IsFiniteSet(Opening') /\ lastPane + Cardinality(Opening') <= served
      BY ONLY <3>1, <3>3, <3>4, CountKept
    <3>. QED
      BY <1>5, <3>5, <3>6 DEF IdsLeft
  <2>3. \A u \in Task : There(row', u) => There(row, u) /\ row'[u] = row[u]
    BY <1>9 DEF There
  <2>4. \A o \in Request : (Owner(req'[o]) <=> Owner(req[o])) /\ req'[o].task = req[o].task
                           /\ req'[o].parent = req[o].parent
    BY <1>7, <1>10 DEF Owner, t
  <2>5. KnownTasks' = KnownTasks
    BY <1>5 DEF KnownTasks
  <2>6. TasksKnown'
    <3>1. /\ \A u \in Task : There(row', u) => u \in KnownTasks /\ row'[u].parent \in KnownTasks
          /\ \A o \in Request : req'[o].task \in KnownTasks /\ req'[o].parent \in KnownTasks
          /\ \A o, p \in Request :
                o # p /\ Owner(req'[o]) /\ Owner(req'[p]) => req'[o].task # req'[p].task
      BY <2>3, <2>4, TasksUnfolded DEF PanesInv, TasksInv
    <3>. QED
      BY <2>5, <3>1, RowsTherePrimed DEF TasksKnown
  <2>7. TasksOwned'
    <3>. SUFFICES ASSUME NEW o \in Request, Owner(req'[o]), ~RollingBack(req'[o])
                  PROVE  There(row', req'[o].task) /\ row'[req'[o].task].parent = req'[o].parent
      BY DEF TasksOwned, RollingBack, Exists, There, Owner
    <3>1. o # q
      BY <1>7, <1>10 DEF RollingBack
    <3>2. Owner(req[o]) /\ ~RollingBack(req[o]) /\ req'[o] = req[o] /\ req[o].task # t
      BY <1>3, <1>10, <3>1 DEF PanesInv, TasksInv, TasksKnown, t
    <3>3. There(row, req[o].task) /\ row[req[o].task].parent = req[o].parent
      BY <3>2, TasksUnfolded DEF PanesInv, TasksInv
    <3>4. req[o].task \in Task
      BY <3>2, KnownToBe DEF Owner
    <3>. QED
      BY <1>9, <3>2, <3>3, <3>4 DEF There
  <2>8. WaitingForSomebody'
    <3>. SUFFICES ASSUME NEW u \in Task, Waits(row', u), ~HasChild(row', u), u \notin cut
                  PROVE  \E o \in Request : req'[o].parent = u /\ RollingBack(req'[o])
      <4>1. \A o \in Request : RollingBack(req'[o]) <=> At(o, "rbList")' \/ At(o, "rbParent")'
        BY DEF RollingBack, At
      <4>2. \A u \in Task : HasChild(row', u) <=> \E c \in Task : Exists(c)' /\ row'[c].parent = u
        BY RowsTherePrimed DEF HasChild
      <4>. QED
        BY <1>5, <4>1, <4>2, RowsTherePrimed DEF WaitingForSomebody
    <3>1. Waits(row, u)
      BY <2>3 DEF Waits
    <3>2. CASE HasChild(row, u)
      <4>1. PICK c \in Task : There(row, c) /\ row[c].parent = u
        BY <3>2 DEF HasChild
      <4>2. c = t
        BY <1>9, <4>1 DEF HasChild, There
      <4>3. req'[q].parent = u /\ RollingBack(req'[q])
        BY <1>4, <1>7, <1>10, <4>1, <4>2 DEF RollingBack
      <4>. QED
        BY <4>3
    <3>3. CASE ~HasChild(row, u)
      <4>1. PICK o \in Request : req[o].parent = u /\ RollingBack(req[o])
        BY <3>1, <3>3, TasksUnfolded DEF PanesInv, TasksInv
      <4>2. o # q
        BY <1>3, <4>1
      <4>. QED
        BY <1>10, <4>1, <4>2
    <3>. QED
      BY <3>2, <3>3
  <2>. QED
    BY <2>1, <2>2, <2>6, <2>7, <2>8 DEF TasksInv
<1>14. BindingsInv'
  <2>1. h.pane \in KnownPanes /\ answered' \in [Task -> PaneOrNone]
    BY <1>5, <1>7 DEF PanesInv, TypeOK, BindingsInv, PanesKnown
  <2>2. /\ HasOpened(h) => HasOpened(req[q])
        /\ Binder(h) => Binder(req[q])
        /\ ~AwaitsMap(h) /\ ~Answers(h) /\ h.kind # "archive"
    BY <1>2, <1>7 DEF HasOpened, Binder, AwaitsMap, Answers, Creators
  <2>3. \A u \in Task : row'[u].archived => row[u].archived
    BY <1>8, <1>9
  <2>. QED
    BY <1>5, <1>7, <1>8, <2>1, <2>2, <2>3, BindingsFrame DEF PanesInv
<1>. QED
  BY <1>12, <1>13, <1>14 DEF PanesInv

--------------------------------------------------------------------------------
(* A task is created, a pane opened.                                            *)

\* Where a request is once its task is there.
LEMMA InsertedAs ==
    ASSUME PanesInv, NEW q \in Request, InsertTask(q)
    PROVE  \E h \in RequestState :
              /\ req' = [req EXCEPT ![q] = h] /\ Footing(h)
              /\ h.pc \notin {"role", "insert", "load", "rbList", "rbParent", "archive"}
              /\ ~Answers(h) /\ h.task \in {NoTask, lastTask + 1} /\ h.parent \in KnownTasks
              /\ h.kind # "archive" /\ (ToOpen(h) => ToOpen(req[q]))
              /\ Owner(h) => h.task = lastTask + 1 /\ h.parent = req[q].parent
              /\ h = Idle \/ (/\ h.pane = req[q].pane /\ h.copy = req[q].copy
                              /\ h.held = req[q].held /\ h.kind = req[q].kind)
<1>. DEFINE r == [req[q] EXCEPT !.task = lastTask + 1]
<1>1. req[q] \in RequestState /\ Footing(req[q]) /\ req[q].pc = "insert"
  BY KnownToBe DEF InsertTask, At
<1>2. req[q].kind \in Creators /\ req[q].task = NoTask /\ ToInsert(req[q])
  BY <1>1 DEF Footing, ToInsert
<1>3. lastTask + 1 \in Task
  <2>1. /\ IsFiniteSet(Inserting) /\ lastTask + Cardinality(Inserting) <= served
        /\ lastTask \in Nat /\ served \in Nat /\ served <= MaxRequests
    BY Ids DEF PanesInv, TypeOK, TasksInv, IdsLeft
  <2>2. q \in Inserting
    BY <1>2 DEF Inserting
  <2>3. Inserting \ {q} \subseteq Inserting \ {q}
    OBVIOUS
  <2>4. lastTask + 1 <= served
    BY ONLY <2>1, <2>2, <2>3, CountUsed
  <2>. QED
    BY <2>1, <2>4, Ids
<1>4. r \in RequestState
  BY <1>1, <1>3 DEF RequestState, TaskOrNone
<1>5. /\ r.task = lastTask + 1 /\ r.pc = "insert" /\ r.kind = req[q].kind
      /\ r.parent = req[q].parent /\ r.pane = req[q].pane /\ r.copy = req[q].copy
      /\ r.held = req[q].held /\ r.list = req[q].list /\ r.todo = req[q].todo
  BY <1>1 DEF RequestState
<1>6. lastTask + 1 # NoTask /\ req[q].parent \in KnownTasks /\ NoTask \in KnownTasks
  BY <1>3, Ids DEF PanesInv, TasksInv, TasksKnown, KnownTasks
<1>7. \/ r.parent = NoTask /\ AfterCreate(q, r)
      \/ r.parent # NoTask /\ Step(q, [r EXCEPT !.pc = "readParent"])
  BY DEF InsertTask
<1>. HIDE DEF r
<1>8. ASSUME NEW pc \in {"save", "open", "readParent"}, Step(q, [r EXCEPT !.pc = pc]),
             pc = "readParent" => r.parent # NoTask,
             pc = "save" => r.kind = "adopt", pc = "open" => r.kind \in {"root", "create"}
      PROVE  \E h \in RequestState :
                /\ req' = [req EXCEPT ![q] = h] /\ Footing(h)
                /\ h.pc \notin {"role", "insert", "load", "rbList", "rbParent", "archive"}
                /\ ~Answers(h) /\ h.task \in {NoTask, lastTask + 1} /\ h.parent \in KnownTasks
                /\ h.kind # "archive" /\ (ToOpen(h) => ToOpen(req[q]))
                /\ Owner(h) => h.task = lastTask + 1 /\ h.parent = req[q].parent
                /\ h = Idle \/ (/\ h.pane = req[q].pane /\ h.copy = req[q].copy
                                /\ h.held = req[q].held /\ h.kind = req[q].kind)
  <2>. DEFINE h == [r EXCEPT !.pc = pc]
  <2>1. pc \in PC
    BY DEF PC
  <2>2. /\ h \in RequestState /\ h.pc = pc /\ h.kind = r.kind /\ h.task = r.task
        /\ h.parent = r.parent /\ h.pane = r.pane /\ h.copy = r.copy
        /\ h.held = r.held /\ h.list = r.list /\ h.todo = r.todo
    BY <1>4, <2>1, GoesTo
  <2>3. req' = [req EXCEPT ![q] = h]
    BY <1>8 DEF Step
  <2>. HIDE DEF h
  <2>4. Footing(h)
    BY <1>1, <1>2, <1>5, <1>6, <1>8, <2>2 DEF Footing, Creators, Openers
  <2>5. ~Answers(h) /\ h.kind # "archive" /\ (ToOpen(h) => ToOpen(req[q]))
    BY <1>2, <1>5, <2>2 DEF Answers, Creators, ToOpen
  <2>6. h.pc \notin {"role", "insert", "load", "rbList", "rbParent", "archive"}
    BY <2>2
  <2>. QED
    BY <1>5, <1>6, <2>2, <2>3, <2>4, <2>5, <2>6
<1>9. CASE r.parent # NoTask
  BY <1>7, <1>8, <1>9
<1>10. CASE r.parent = NoTask
  <2>1. CASE r.kind = "task"
    <3>1. req' = [req EXCEPT ![q] = Idle]
      BY <1>7, <1>10, <2>1 DEF AfterCreate, Ends
    <3>2. ~Answers(Idle)
      BY IdleRequest DEF Answers
    <3>. QED
      BY <1>6, <3>1, <3>2, IdleRequest
  <2>2. CASE r.kind = "adopt"
    <3>1. Step(q, [r EXCEPT !.pc = "save"])
      BY <1>7, <1>10, <2>2 DEF AfterCreate
    <3>. QED
      BY <1>8, <2>2, <3>1
  <2>3. CASE r.kind \in {"root", "create"}
    <3>1. Step(q, [r EXCEPT !.pc = "open"])
      BY <1>7, <1>10, <2>3 DEF AfterCreate
    <3>. QED
      BY <1>8, <2>3, <3>1
  <2>. QED
    BY <1>2, <1>5, <2>1, <2>2, <2>3 DEF Creators
<1>. QED
  BY <1>9, <1>10

\* The task that is created is one nobody knows, and its request is alone with it.
LEMMA InvInsertTask ==
    ASSUME PanesInv, NEW q \in Request, InsertTask(q)
    PROVE  PanesInv'
<1>. DEFINE n == lastTask + 1
<1>1. req[q] \in RequestState /\ Footing(req[q]) /\ req[q].pc = "insert"
  BY KnownToBe DEF InsertTask, At
<1>2. ToInsert(req[q]) /\ ~RollingBack(req[q]) /\ req[q].kind \in Creators
  BY <1>1 DEF ToInsert, RollingBack, Footing
<1>3. PICK h \in RequestState :
         /\ req' = [req EXCEPT ![q] = h] /\ Footing(h)
         /\ h.pc \notin {"role", "insert", "load", "rbList", "rbParent", "archive"}
         /\ ~Answers(h) /\ h.task \in {NoTask, n} /\ h.parent \in KnownTasks
         /\ h.kind # "archive" /\ (ToOpen(h) => ToOpen(req[q]))
         /\ Owner(h) => h.task = n /\ h.parent = req[q].parent
         /\ h = Idle \/ (/\ h.pane = req[q].pane /\ h.copy = req[q].copy
                         /\ h.held = req[q].held /\ h.kind = req[q].kind)
  BY InsertedAs
<1>. DEFINE new == [NoRow EXCEPT !.status = "pending", !.parent = req[q].parent,
                                 !.role = req[q].role]
<1>4. /\ row' = [row EXCEPT ![n] = new] /\ lastTask' = n
      /\ UNCHANGED <<panes, alive, lastPane, served, errors>>
      /\ UNCHANGED <<answered, exposed, late, opening, retired, cut>>
  BY DEF InsertTask, tmuxVars, histVars
<1>5. /\ new \in Rows /\ new.status = "pending" /\ new.parent = req[q].parent
      /\ new.archived = FALSE
  BY <1>1, RequestFields DEF NoRow, Rows, Status
<1>. HIDE DEF new
<1>6. /\ req \in [Request -> RequestState] /\ req'[q] = h
      /\ \A o \in Request : o # q => req'[o] = req[o]
  BY <1>3, OneRequest DEF PanesInv, TypeOK
<1>7. IdsLeft' /\ n \in Task
  <2>1. /\ IsFiniteSet(Inserting) /\ lastTask + Cardinality(Inserting) <= served
        /\ IsFiniteSet(Opening) /\ lastPane + Cardinality(Opening) <= served
    BY DEF PanesInv, TasksInv, IdsLeft
  <2>2. lastTask \in Nat /\ lastPane \in Nat /\ served \in Nat /\ served <= MaxRequests
    BY Ids DEF PanesInv, TypeOK
  <2>3. ~ToInsert(h)
    BY <1>3 DEF ToInsert
  <2>4. q \in Inserting /\ Inserting' \subseteq Inserting \ {q} /\ Opening' \subseteq Opening
    BY <1>2, <1>3, <1>6, <2>3 DEF Inserting, Opening
  <2>5. IsFiniteSet(Inserting') /\ lastTask + 1 + Cardinality(Inserting') <= served
        /\ lastTask + 1 <= served
    BY ONLY <2>1, <2>2, <2>4, CountUsed
  <2>6. IsFiniteSet(Opening') /\ lastPane + Cardinality(Opening') <= served
    BY ONLY <2>1, <2>2, <2>4, CountKept
  <2>7. n \in Task
    BY <2>2, <2>5, Ids
  <2>. QED
    BY <1>4, <2>5, <2>6, <2>7 DEF IdsLeft
<1>8. /\ n \notin KnownTasks /\ KnownTasks \subseteq KnownTasks' /\ n \in KnownTasks'
      /\ NoTask \in KnownTasks'
  <2>1. lastTask \in Nat /\ n # NoTask
    BY <1>7, Ids DEF PanesInv, TypeOK
  <2>. QED
    BY <1>4, <2>1 DEF KnownTasks
<1>9. /\ row \in [Task -> Rows] /\ row' \in [Task -> Rows] /\ row'[n] = new
      /\ \A u \in Task : u # n => row'[u] = row[u]
      /\ There(row', n) /\ ~There(row, n)
  <2>1. row \in [Task -> Rows]
    BY DEF PanesInv, TypeOK
  <2>2. ~There(row, n)
    BY <1>7, <1>8, TasksUnfolded DEF PanesInv, TasksInv
  <2>. QED
    BY <1>4, <1>5, <1>7, <2>1, <2>2 DEF There
<1>. HIDE DEF n
<1>10. TypeOK'
  <2>1. req' \in [Request -> RequestState]
    BY <1>3 DEF PanesInv, TypeOK
  <2>. QED
    BY <1>4, <1>7, <1>9, <2>1 DEF PanesInv, TypeOK
<1>11. TasksInv'
  <2>1. RequestsKeepFooting'
    BY <1>3, <1>6 DEF PanesInv, TasksInv, RequestsKeepFooting
  <2>2. TasksKnown'
    <3>1. \A u \in Task : There(row', u) => u \in KnownTasks' /\ row'[u].parent \in KnownTasks'
      <4>1. row'[n].parent \in KnownTasks
        BY <1>5, <1>9 DEF PanesInv, TasksInv, TasksKnown
      <4>2. \A u \in Task : There(row, u) => u \in KnownTasks /\ row[u].parent \in KnownTasks
        BY TasksUnfolded DEF PanesInv, TasksInv
      <4>. QED
        BY <1>8, <1>9, <4>1, <4>2 DEF There
    <3>2. \A o \in Request : req'[o].task \in KnownTasks' /\ req'[o].parent \in KnownTasks'
      BY <1>3, <1>6, <1>8 DEF PanesInv, TasksInv, TasksKnown
    <3>3. \A o, p \in Request :
             o # p /\ Owner(req'[o]) /\ Owner(req'[p]) => req'[o].task # req'[p].task
      <4>1. \A o \in Request : o # q => req'[o].task \in KnownTasks
        BY <1>6 DEF PanesInv, TasksInv, TasksKnown
      <4>2. Owner(req'[q]) => req'[q].task \notin KnownTasks
        BY <1>3, <1>6, <1>8
      <4>3. \A o, p \in Request :
               o # p /\ o # q /\ p # q /\ Owner(req'[o]) /\ Owner(req'[p])
                   => req'[o].task # req'[p].task
        BY <1>6 DEF PanesInv, TasksInv, TasksKnown
      <4>. QED
        BY <4>1, <4>2, <4>3
    <3>. QED
      BY <3>1, <3>2, <3>3, RowsTherePrimed DEF TasksKnown
  <2>3. TasksOwned'
    <3>. SUFFICES ASSUME NEW o \in Request, Owner(req'[o]), ~RollingBack(req'[o])
                  PROVE  There(row', req'[o].task) /\ row'[req'[o].task].parent = req'[o].parent
      BY DEF TasksOwned, RollingBack, Exists, There, Owner
    <3>1. CASE o = q
      BY <1>3, <1>5, <1>6, <1>9, <3>1
    <3>2. CASE o # q
      <4>1. There(row, req[o].task) /\ row[req[o].task].parent = req[o].parent
        BY <1>6, <3>2, TasksUnfolded DEF PanesInv, TasksInv
      <4>2. req[o].task \in Task
        BY <1>6, <3>2, KnownToBe DEF Owner
      <4>3. req[o].task # n
        BY <1>9, <4>1
      <4>. QED
        BY <1>6, <1>9, <3>2, <4>1, <4>2, <4>3 DEF There
    <3>. QED
      BY <3>1, <3>2
  <2>4. WaitingForSomebody'
    <3>. SUFFICES ASSUME NEW u \in Task, Waits(row', u), ~HasChild(row', u), u \notin cut
                  PROVE  \E o \in Request : req'[o].parent = u /\ RollingBack(req'[o])
      <4>1. \A o \in Request : RollingBack(req'[o]) <=> At(o, "rbList")' \/ At(o, "rbParent")'
        BY DEF RollingBack, At
      <4>2. \A t \in Task : HasChild(row', t) <=> \E c \in Task : Exists(c)' /\ row'[c].parent = t
        BY RowsTherePrimed DEF HasChild
      <4>. QED
        BY <1>4, <4>1, <4>2, RowsTherePrimed DEF WaitingForSomebody
    <3>1. u # n
      BY <1>5, <1>9 DEF Waits
    <3>2. Waits(row, u)
      BY <1>9, <3>1 DEF Waits, There
    <3>3. ~HasChild(row, u)
      BY <1>9 DEF HasChild, There
    <3>4. PICK o \in Request : req[o].parent = u /\ RollingBack(req[o])
      BY <3>2, <3>3, TasksUnfolded DEF PanesInv, TasksInv
    <3>. QED
      BY <1>2, <1>6, <3>4
  <2>. QED
    BY <1>7, <2>1, <2>2, <2>3, <2>4 DEF TasksInv
<1>12. BindingsInv'
  <2>1. /\ h.pane \in KnownPanes /\ answered' \in [Task -> PaneOrNone]
        /\ h.copy \in {req[q].copy, panes, Nothing}
    <3>1. NoPane \in KnownPanes
      BY DEF KnownPanes
    <3>. QED
      BY <1>3, <1>4, <3>1, IdleRequest DEF PanesInv, TypeOK, BindingsInv, PanesKnown
  <2>2. /\ HasOpened(h) => HasOpened(req[q]) /\ h.pane = req[q].pane
        /\ Binder(h) => Binder(req[q]) /\ h.pane = req[q].pane /\ h.copy = req[q].copy
        /\ h.held => req[q].held /\ h.copy = req[q].copy
    BY <1>3, IdleRequest DEF HasOpened, Binder
  <2>3. ~AwaitsMap(h)
    BY <1>3 DEF AwaitsMap
  <2>4. \A u \in Task : row'[u].archived => row[u].archived
    BY <1>5, <1>9
  <2>. QED
    BY <1>3, <1>4, <1>9, <2>1, <2>2, <2>3, <2>4, BindingsFrame DEF PanesInv
<1>. QED
  BY <1>10, <1>11, <1>12 DEF PanesInv

\* The pane that is opened is in no map and no copy of one.
LEMMA InvOpenPane ==
    ASSUME PanesInv, NEW q \in Request, OpenPane(q)
    PROVE  PanesInv'
<1>. DEFINE n == lastPane + 1
            pc == IF req[q].kind = "root" THEN "load" ELSE "save"
            h == [req[q] EXCEPT !.pc = pc, !.pane = n]
<1>1. req[q] \in RequestState /\ Footing(req[q]) /\ req[q].pc = "open"
  BY KnownToBe DEF OpenPane, At
<1>2. /\ req[q].kind \in Openers /\ req[q].task # NoTask /\ req[q].pane = NoPane
      /\ ~RollingBack(req[q]) /\ ToOpen(req[q])
  BY <1>1 DEF Footing, RollingBack, ToOpen
<1>3. /\ alive' = alive \union {n} /\ lastPane' = n /\ req' = [req EXCEPT ![q] = h]
      /\ UNCHANGED <<row, panes, lastTask, served, errors>>
      /\ UNCHANGED <<answered, exposed, late, opening, retired, cut>>
  BY DEF OpenPane, Step, storeVars, histVars
<1>4. n \in Pane /\ n # Foreign /\ n # NoPane /\ n \notin KnownPanes
  <2>1. /\ IsFiniteSet(Opening) /\ lastPane + Cardinality(Opening) <= served
        /\ lastPane \in Nat /\ served \in Nat /\ served <= MaxRequests
    BY Ids DEF PanesInv, TypeOK, TasksInv, IdsLeft
  <2>2. q \in Opening /\ Opening \ {q} \subseteq Opening \ {q}
    BY <1>2 DEF Opening
  <2>3. lastPane + 1 <= served
    BY ONLY <2>1, <2>2, CountUsed
  <2>. QED
    BY <2>1, <2>3, Ids DEF KnownPanes
<1>5. /\ h \in RequestState /\ h.pc = pc /\ h.pane = n
      /\ h.kind = req[q].kind /\ h.task = req[q].task /\ h.parent = req[q].parent
      /\ h.copy = req[q].copy /\ h.held = req[q].held
      /\ h.list = req[q].list /\ h.todo = req[q].todo
  BY <1>1, <1>4 DEF RequestState, PC, PaneOrNone
<1>. HIDE DEF h, n
<1>6. Footing(h)
  BY <1>1, <1>2, <1>4, <1>5 DEF Footing, Creators, Openers
<1>7. /\ req \in [Request -> RequestState] /\ req'[q] = h
      /\ \A o \in Request : o # q => req'[o] = req[o]
  BY <1>3, <1>5, OneRequest DEF PanesInv, TypeOK
<1>8. TypeOK'
  BY <1>3, <1>4, <1>5 DEF PanesInv, TypeOK
<1>9. TasksInv'
  <2>1. served' \in 0..MaxRequests /\ Kept(row, row', lastTask)
    BY <1>3, KeptSame DEF PanesInv, TypeOK
  <2>2. h.task \in KnownTasks /\ h.parent \in KnownTasks
    BY <1>5 DEF PanesInv, TasksInv, TasksKnown
  <2>3. ToInsert(h) => ToInsert(req[q])
    BY <1>2, <1>5 DEF ToInsert, Openers, Footing
  <2>4. Owner(h) => Owner(req[q])
    BY <1>5 DEF Owner
  <2>5. lastPane' = lastPane + 1 /\ ToOpen(req[q]) /\ ~ToOpen(h)
    BY <1>2, <1>3, <1>4, <1>5 DEF ToOpen, n
  <2>. QED
    BY <1>2, <1>3, <1>5, <1>6, <2>1, <2>2, <2>3, <2>4, <2>5, TasksFrame DEF PanesInv
<1>10. BindingsInv'
  <2>1. KnownPanes \subseteq KnownPanes' /\ n \in KnownPanes'
    <3>1. lastPane \in Nat
      BY Ids DEF PanesInv, TypeOK
    <3>. QED
      BY <1>3, <3>1 DEF KnownPanes, n
  <2>2. /\ alive \subseteq KnownPanes \ {NoPane}
        /\ \A t \in Task : panes[t].pane \in KnownPanes /\ answered[t] \in KnownPanes
        /\ \A o \in Request :
              req[o].pane \in KnownPanes /\ \A t \in Task : req[o].copy[t].pane \in KnownPanes
        /\ \A o, p \in Request :
              o # p /\ HasOpened(req[o]) /\ HasOpened(req[p]) => req[o].pane # req[p].pane
    BY DEF PanesInv, BindingsInv, PanesKnown
  <2>3. \A o \in Request : /\ req'[o].copy = req[o].copy /\ req'[o].held = req[o].held
                           /\ req'[o].kind = req[o].kind /\ req'[o].list = req[o].list
                           /\ req'[o].todo = req[o].todo
    BY <1>5, <1>7
  <2>4. PanesKnown'
    <3>1. alive' \subseteq KnownPanes' \ {NoPane}
      BY <1>3, <1>4, <2>1, <2>2
    <3>2. \A t \in Task : panes'[t].pane \in KnownPanes' /\ answered'[t] \in KnownPanes'
      BY <1>3, <2>1, <2>2
    <3>3. \A o \in Request : req'[o].pane \in KnownPanes'
                             /\ \A t \in Task : req'[o].copy[t].pane \in KnownPanes'
      BY <1>5, <1>7, <2>1, <2>2, <2>3
    <3>4. \A o, p \in Request :
             o # p /\ HasOpened(req'[o]) /\ HasOpened(req'[p]) => req'[o].pane # req'[p].pane
      BY <1>4, <1>5, <1>7, <2>2
    <3>. QED
      BY <3>1, <3>2, <3>3, <3>4 DEF PanesKnown
  <2>5. CopiesCurrent'
    BY <1>3, <2>3 DEF PanesInv, BindingsInv, CopiesCurrent, Whole, Once, Bound
  <2>6. PaneIsNew'
    <3>1. /\ \A o \in Request, t \in Task :
                Binder(req[o]) /\ req[o].copy[t].pane = req[o].pane => req[o].pane \in opening
          /\ \A o \in Request, t \in Task :
                AwaitsMap(req[o]) /\ panes[t].pane = req[o].pane => req[o].pane \in opening
          /\ \A o, p \in Request, t \in Task :
                AwaitsMap(req[o]) /\ req[p].held /\ req[p].copy[t].pane = req[o].pane
                    => req[o].pane \in opening
      BY BindingsUnfolded DEF PanesInv, BindingsInv
    <3>2. \A o \in Request, t \in Task :
             Binder(req'[o]) /\ req'[o].copy[t].pane = req'[o].pane => req'[o].pane \in opening
      BY <1>4, <1>5, <1>7, <2>2, <3>1
    <3>3. \A o \in Request, t \in Task :
             AwaitsMap(req'[o]) /\ panes[t].pane = req'[o].pane => req'[o].pane \in opening
      BY <1>4, <1>5, <1>7, <2>2, <3>1
    <3>4. \A o, p \in Request, t \in Task :
             AwaitsMap(req'[o]) /\ req'[p].held /\ req'[p].copy[t].pane = req'[o].pane
                 => req'[o].pane \in opening
      BY <1>4, <1>5, <1>7, <2>2, <2>3, <3>1
    <3>. QED
      BY <1>3, <3>2, <3>3, <3>4 DEF PaneIsNew, Binder, AwaitsMap, At
  <2>7. AnsweredBound'
    <3>1. \A t \in Task \ exposed :
             answered[t] \in alive' \ retired => panes[t].pane = answered[t]
      BY <1>3, <1>4, <2>2 DEF PanesInv, BindingsInv, AnsweredBound
    <3>2. \A o \in Request :
             /\ Answers(req'[o]) /\ req'[o].pane \in alive' \ retired /\ req'[o].task \notin exposed
             => panes[req'[o].task].pane = req'[o].pane
      <4>1. ~Answers(h)
        BY <1>5 DEF Answers
      <4>. QED
        BY <1>3, <1>4, <1>7, <2>2, <4>1 DEF PanesInv, BindingsInv, AnsweredBound, Answers
    <3>. QED
      BY <1>3, <3>1, <3>2 DEF AnsweredBound, Answers
  <2>8. ClosedThenUnbound'
    <3>1. \A o \in Request : req'[o].kind = "archive" =>
             /\ req'[o].held => \A t \in req'[o].list \ req'[o].todo :
                   Bound(req'[o].copy, t) => req'[o].copy[t].pane \notin alive'
             /\ req'[o].pc = "archive" => \A t \in req'[o].list :
                   Bound(panes, t) => t \in exposed \union late
      <4>. SUFFICES ASSUME NEW o \in Request, req'[o].kind = "archive"
                    PROVE  /\ req'[o].held => \A t \in req'[o].list \ req'[o].todo :
                                 Bound(req'[o].copy, t) => req'[o].copy[t].pane \notin alive'
                           /\ req'[o].pc = "archive" => \A t \in req'[o].list :
                                 Bound(panes, t) => t \in exposed \union late
        OBVIOUS
      <4>1. req'[o] = req[o]
        BY <1>2, <1>5, <1>7 DEF Openers
      <4>2. req[o].list \subseteq Task
        BY <1>7, RequestFields
      <4>3. \A t \in Task : req[o].copy[t].pane # n
        BY <1>4, <2>2
      <4>. QED
        BY <1>3, <4>1, <4>2, <4>3 DEF PanesInv, BindingsInv, ClosedThenUnbound
    <3>. QED
      BY <1>3, <3>1 DEF ClosedThenUnbound, Bound
  <2>9. PaneBoundOnce' /\ ArchivedUnbound'
    BY <1>3 DEF PanesInv, BindingsInv, PaneBoundOnce, ArchivedUnbound, Bound
  <2>. QED
    BY <2>4, <2>5, <2>6, <2>7, <2>8, <2>9 DEF BindingsInv
<1>. QED
  BY <1>8, <1>9, <1>10 DEF PanesInv

--------------------------------------------------------------------------------
(* The map is loaded.                                                           *)

\* A request that takes a copy takes the map there is, with no binding of a pane it is
\* about to bind.
LEMMA InvLoadPanes ==
    ASSUME PanesInv, NEW q \in Request, LoadPanes(q)
    PROVE  PanesInv'
<1>1. req[q] \in RequestState /\ Footing(req[q]) /\ req[q].pc = "load"
  BY KnownToBe DEF LoadPanes, At
<1>2. ~RollingBack(req[q])
  BY <1>1 DEF RollingBack
<1>3. StepKeeps(row)
  BY Quiet DEF LoadPanes, PanesInv
<1>4. CASE Ends(q)
  BY <1>2, <1>3, <1>4, EndsStep DEF Ends, SeenTo
<1>5. CASE /\ ~RefusedOn(q, panes) /\ AfterLoad(q, req[q].kind) # "sent"
           /\ Step(q, [req[q] EXCEPT
                  !.pc = AfterLoad(q, req[q].kind), !.copy = panes, !.held = TRUE,
                  !.todo = {t \in req[q].list : Bound(panes, t)}])
  <2>. DEFINE pc == AfterLoad(q, req[q].kind)
              todo == {t \in req[q].list : Bound(panes, t)}
              h == [req[q] EXCEPT !.pc = pc, !.copy = panes, !.held = TRUE, !.todo = todo]
  <2>1. req[q].kind \in {"root", "create", "adopt", "launch", "input", "archive"}
    BY <1>1 DEF Footing
  <2>2. /\ req[q].kind = "root" => pc = "save"
        /\ req[q].kind \in {"create", "adopt"} => pc = "role"
        /\ req[q].kind = "launch" => pc = "open"
        /\ req[q].kind = "archive" => pc = "close"
        /\ req[q].kind = "input" => pc = "wait"
    BY <1>5 DEF AfterLoad
  <2>3. pc \in PC /\ panes \in Maps /\ todo \in SUBSET Task
    BY <1>1, <2>1, <2>2, RequestFields DEF PC, PanesInv, TypeOK
  <2>4. req' = [req EXCEPT ![q] = h]
    BY <1>5 DEF Step
  <2>. HIDE DEF pc, todo
  <2>5. /\ h \in RequestState /\ h.pc = pc /\ h.kind = req[q].kind /\ h.task = req[q].task
        /\ h.parent = req[q].parent /\ h.pane = req[q].pane /\ h.copy = panes
        /\ h.held = TRUE /\ h.list = req[q].list /\ h.todo = todo
    BY <1>1, <2>3 DEF RequestState
  <2>. HIDE DEF h
  <2>6. Footing(h)
    <3>1. req[q].kind = "input" => Bound(panes, req[q].task)
      BY <1>5 DEF RefusedOn
    <3>. QED
      BY <1>1, <2>1, <2>2, <2>5, <3>1 DEF Footing, Creators, Openers
  <2>7. TypeOK'
    BY <1>3, <2>4, <2>5, TypesFrame DEF StepKeeps, tmuxVars, PanesInv, TypeOK
  <2>8. TasksInv'
    <3>1. h.task \in KnownTasks /\ h.parent \in KnownTasks
      BY <2>5 DEF PanesInv, TasksInv, TasksKnown
    <3>2. (ToInsert(h) => ToInsert(req[q])) /\ (ToOpen(h) => ToOpen(req[q]))
      BY <1>1, <2>1, <2>2, <2>5 DEF ToInsert, ToOpen
    <3>3. Owner(h) => Owner(req[q])
      BY <2>5 DEF Owner
    <3>4. served' \in 0..MaxRequests
      BY <1>3 DEF StepKeeps, PanesInv, TypeOK
    <3>. QED
      BY <1>2, <1>3, <2>4, <2>5, <2>6, <3>1, <3>2, <3>3, <3>4, TasksFrame
      DEF StepKeeps, tmuxVars, PanesInv
  <2>9. BindingsInv'
    <3>1. h.pane \in KnownPanes /\ answered' \in [Task -> PaneOrNone]
      BY <1>3, <2>5 DEF StepKeeps, PanesInv, TypeOK, BindingsInv, PanesKnown
    <3>2. HasOpened(h) => HasOpened(req[q])
      BY <2>5 DEF HasOpened
    <3>3. Binder(h) => \A t \in Task : h.copy[t].pane = h.pane => h.pane \in opening
      <4>1. CASE req[q].kind = "root"
        <5>1. \A t \in Task : panes[t].pane = req[q].pane => req[q].pane \in opening
          BY <1>1, <4>1, BindingsUnfolded DEF PanesInv, BindingsInv, AwaitsMap
        <5>. QED
          BY <2>5, <5>1
      <4>2. CASE req[q].kind = "adopt"
        BY <1>5, <2>5, <4>2 DEF RefusedOn
      <4>3. CASE req[q].kind \in {"create", "launch"}
        <5>1. req[q].pane = NoPane
          BY <1>1, <4>3 DEF Footing, Openers
        <5>. QED
          BY <2>5, <5>1 DEF Binder
      <4>4. CASE req[q].kind \in {"input", "archive"}
        BY <2>5, <4>4 DEF Binder, Openers
      <4>. QED
        BY <2>1, <4>1, <4>2, <4>3, <4>4
    <3>4. ~AwaitsMap(h) /\ ~Answers(h) /\ h.pc # "archive"
      BY <2>1, <2>2, <2>5 DEF AwaitsMap, Answers
    <3>5. \A t \in h.list \ h.todo : ~Bound(h.copy, t)
      BY <2>5 DEF todo
    <3>. QED
      BY <1>3, <2>4, <2>5, <3>1, <3>2, <3>3, <3>4, <3>5, BindingsFrame
      DEF StepKeeps, tmuxVars, PanesInv
  <2>. QED
    BY <2>7, <2>8, <2>9 DEF PanesInv
<1>. QED
  BY <1>4, <1>5 DEF LoadPanes

--------------------------------------------------------------------------------
(* The map is saved.                                                            *)

Binds(r) == r.kind \in {"root", "create", "adopt", "launch"}

\* What is saved: the copy, but for the tasks of an archive, the mark of an input and the
\* binding of the others.
SavedAs(r, map) ==
    /\ \A t \in Task :
          \/ map[t] = r.copy[t]
          \/ r.kind = "archive" /\ t \in r.list /\ map[t] = Unbound
          \/ r.kind = "input" /\ t = r.task /\ map[t].pane = r.copy[t].pane
          \/ Binds(r) /\ t = r.task /\ map[t].pane = r.pane
    /\ r.kind = "archive" => \A t \in r.list : map[t] = Unbound
    /\ Binds(r) => map[r.task].pane = r.pane

LEMMA NewMapIs ==
    ASSUME PanesInv, NEW q \in Request, req[q].pc = "save"
    PROVE  NewMap(q) \in Maps /\ SavedAs(req[q], NewMap(q))
<1>. DEFINE r == req[q]
<1>1. r \in RequestState /\ Footing(r) /\ r.copy \in Maps
  BY KnownToBe, RequestFields
<1>2. /\ r.kind \in {"archive", "input"} \/ Binds(r)
      /\ r.kind # "archive" => r.task \in Task
  BY <1>1, KnownToBe DEF Footing, Binds
<1>3. CASE r.kind = "archive"
  <2>1. NewMap(q) = [u \in Task |-> IF u \in r.list THEN Unbound ELSE r.copy[u]]
    BY <1>3 DEF NewMap, Changed
  <2>2. Unbound \in [pane : PaneOrNone, gated : BOOLEAN]
    BY Ids DEF Unbound, Binding
  <2>3. r.list \subseteq Task
    BY <1>1, RequestFields
  <2>. QED
    BY <1>1, <1>3, <2>1, <2>2, <2>3 DEF SavedAs, Binds, Maps
<1>4. CASE r.kind = "input"
  <2>. DEFINE b == [r.copy[r.task] EXCEPT !.gated = FALSE]
  <2>1. NewMap(q) = [r.copy EXCEPT ![r.task] = b]
    BY <1>4 DEF NewMap, Changed
  <2>2. b \in [pane : PaneOrNone, gated : BOOLEAN] /\ b.pane = r.copy[r.task].pane
    BY <1>1, <1>2, <1>4, MapFields
  <2>. HIDE DEF b
  <2>3. NewMap(q) \in Maps /\ NewMap(q)[r.task] = b
        /\ \A t \in Task : t # r.task => NewMap(q)[t] = r.copy[t]
    BY <1>1, <1>2, <1>4, <2>1, <2>2 DEF Maps
  <2>. QED
    BY <1>4, <2>2, <2>3 DEF SavedAs, Binds
<1>5. CASE Binds(r)
  <2>. DEFINE b == Binding(r.pane, r.kind \in {"root", "create"})
  <2>1. NewMap(q) = [r.copy EXCEPT ![r.task] = b]
    BY <1>5 DEF NewMap, Changed, Binds
  <2>2. r.pane \in PaneOrNone
    BY <1>1, RequestFields
  <2>3. b \in [pane : PaneOrNone, gated : BOOLEAN] /\ b.pane = r.pane
    BY <2>2 DEF Binding
  <2>. HIDE DEF b
  <2>4. NewMap(q) \in Maps /\ NewMap(q)[r.task] = b
        /\ \A t \in Task : t # r.task => NewMap(q)[t] = r.copy[t]
    BY <1>1, <1>2, <1>5, <2>1, <2>3 DEF Maps, Binds
  <2>. QED
    BY <1>5, <2>3, <2>4 DEF SavedAs, Binds
<1>. QED
  BY <1>2, <1>3, <1>4, <1>5

\* How a request goes on once it has saved.
LEMMA SavedGoes ==
    ASSUME PanesInv, NEW q \in Request, req[q].pc = "save", AfterSave(q)
    PROVE  \E h \in RequestState :
              /\ req' = [req EXCEPT ![q] = h] /\ Footing(h) /\ h.held = FALSE /\ h.copy = Nothing
              /\ h.pc \in {"idle", "find", "archive"} /\ (Owner(h) => Owner(req[q]))
              /\ h.task \in {NoTask, req[q].task} /\ h.parent \in {NoTask, req[q].parent}
              /\ h.pane \in {NoPane, req[q].pane}
              /\ h.kind # "none" =>
                    /\ h.kind = req[q].kind /\ h.pane = req[q].pane /\ h.task = req[q].task
                    /\ h.parent = req[q].parent /\ h.list = req[q].list
              /\ h.pc = "find" => Binds(req[q]) /\ h.kind = req[q].kind
              /\ h.kind = "archive" => h.pc = "archive"
<1>. DEFINE r == req[q]
<1>1. r \in RequestState /\ Footing(r)
  BY KnownToBe
<1>2. r.kind \in {"archive", "input"} \/ Binds(r)
  BY <1>1 DEF Footing, Binds
<1>3. CASE r.kind = "input"
  <2>1. req' = [req EXCEPT ![q] = Idle]
    BY <1>3 DEF AfterSave, Ends
  <2>. QED
    BY <2>1, IdleRequest
<1>4. ASSUME NEW pc \in {"find", "archive"}, Step(q, [Dropped(q) EXCEPT !.pc = pc]),
             pc = "find" => Binds(r), pc = "archive" <=> r.kind = "archive"
      PROVE  \E h \in RequestState :
              /\ req' = [req EXCEPT ![q] = h] /\ Footing(h) /\ h.held = FALSE /\ h.copy = Nothing
              /\ h.pc \in {"idle", "find", "archive"} /\ (Owner(h) => Owner(req[q]))
              /\ h.task \in {NoTask, req[q].task} /\ h.parent \in {NoTask, req[q].parent}
              /\ h.pane \in {NoPane, req[q].pane}
              /\ h.kind # "none" =>
                    /\ h.kind = req[q].kind /\ h.pane = req[q].pane /\ h.task = req[q].task
                    /\ h.parent = req[q].parent /\ h.list = req[q].list
              /\ h.pc = "find" => Binds(req[q]) /\ h.kind = req[q].kind
              /\ h.kind = "archive" => h.pc = "archive"
  <2>. DEFINE h == [[r EXCEPT !.held = FALSE, !.copy = Nothing] EXCEPT !.pc = pc]
  <2>1. req' = [req EXCEPT ![q] = h]
    BY <1>4 DEF Step, Dropped
  <2>2. pc \in PC
    BY DEF PC
  <2>3. /\ h \in RequestState /\ h.pc = pc
        /\ h.kind = r.kind /\ h.task = r.task /\ h.parent = r.parent
        /\ h.pane = r.pane /\ h.copy = Nothing /\ h.held = FALSE
        /\ h.list = r.list /\ h.todo = r.todo
    BY <1>1, <2>2, NothingBound DEF RequestState
  <2>. HIDE DEF h
  <2>4. Footing(h)
    BY <1>1, <1>4, <2>3 DEF Footing, Creators, Openers, Binds
  <2>5. Owner(h) => Owner(r)
    BY <2>3 DEF Owner
  <2>. QED
    BY <1>4, <2>1, <2>3, <2>4, <2>5
<1>5. CASE r.kind = "archive"
  <2>1. Step(q, [Dropped(q) EXCEPT !.pc = "archive"])
    BY <1>5 DEF AfterSave
  <2>. QED
    BY <1>4, <1>5, <2>1
<1>6. CASE Binds(r)
  <2>1. Step(q, [Dropped(q) EXCEPT !.pc = "find"]) /\ r.kind # "archive"
    BY <1>6 DEF AfterSave, Binds
  <2>. QED
    BY <1>4, <1>6, <2>1
<1>. QED
  BY <1>2, <1>3, <1>5, <1>6

\* Where the saved map differs from the one there was, the task is exposed or the copy was
\* current.
LEMMA InvSavePanes ==
    ASSUME PanesInv, NEW q \in Request, SavePanes(q)
    PROVE  PanesInv'
<1>. DEFINE r == req[q]
            m == req[q].copy
<1>1. r \in RequestState /\ Footing(r) /\ r.pc = "save" /\ m \in Maps
  BY KnownToBe, RequestFields DEF SavePanes, At
<1>2. /\ r.held /\ ~RollingBack(r)
      /\ r.kind \in {"archive", "input"} \/ Binds(r)
      /\ r.kind = "archive" => r.todo = {} /\ r.task = NoTask
      /\ r.kind # "archive" => r.task \in Task
      /\ r.kind = "input" => Bound(m, r.task)
      /\ Binds(r) => r.pane # NoPane
  BY <1>1, KnownToBe DEF Footing, Binds, RollingBack
<1>3. panes' \in Maps /\ SavedAs(r, panes')
  BY <1>1, NewMapIs DEF SavePanes
<1>4. PICK h \in RequestState :
         /\ req' = [req EXCEPT ![q] = h] /\ Footing(h) /\ h.held = FALSE /\ h.copy = Nothing
         /\ h.pc \in {"idle", "find", "archive"} /\ (Owner(h) => Owner(r))
         /\ h.task \in {NoTask, r.task} /\ h.parent \in {NoTask, r.parent}
         /\ h.pane \in {NoPane, r.pane}
         /\ h.kind # "none" =>
               /\ h.kind = r.kind /\ h.pane = r.pane /\ h.task = r.task
               /\ h.parent = r.parent /\ h.list = r.list
         /\ h.pc = "find" => Binds(r) /\ h.kind = r.kind
         /\ h.kind = "archive" => h.pc = "archive"
  BY <1>1, SavedGoes DEF SavePanes
<1>5. /\ UNCHANGED <<row, alive, lastPane, lastTask, served, errors, answered, cut>>
      /\ exposed' = exposed \union
            {t \in Task : /\ panes'[t] # m[t]
                          /\ \E o \in Request \ {q} : req[o].held /\ req[o].copy[t] # panes'[t]}
      /\ late' = late \union {t \in {r.task} \ {NoTask} :
                                row[t].archived \/ \E o \in Request : t \in req[o].list}
      /\ opening' = opening \union
            {p \in {r.pane} : /\ r.kind = "adopt"
                              /\ \E o \in Request : AwaitsMap(req[o]) /\ req[o].pane = p}
      /\ retired' = retired \union ({panes[t].pane : t \in {r.task} \ {NoTask}} \ {r.pane})
  BY DEF SavePanes, tmuxVars, AwaitsMap, At
<1>6. /\ req \in [Request -> RequestState] /\ req'[q] = h
      /\ \A o \in Request : o # q => req'[o] = req[o]
  BY <1>4, OneRequest DEF PanesInv, TypeOK
<1>7. /\ exposed \subseteq exposed' /\ late \subseteq late' /\ opening \subseteq opening'
      /\ retired \subseteq retired'
  BY <1>5
<1>8. KnownPanes' = KnownPanes
  BY <1>5 DEF KnownPanes
<1>. HIDE DEF r, m
<1>9. TypeOK'
  <2>1. req' \in [Request -> RequestState]
    BY <1>4 DEF PanesInv, TypeOK
  <2>2. r.task \in TaskOrNone /\ r.pane \in PaneOrNone
    BY <1>1, RequestFields
  <2>3. exposed' \subseteq Task /\ late' \subseteq Task
    <3>1. {r.task} \ {NoTask} \subseteq Task
      BY <2>2 DEF TaskOrNone
    <3>. QED
      BY <1>5, <3>1 DEF PanesInv, TypeOK
  <2>4. opening' \subseteq Pane
    <3>1. r.kind = "adopt" => r.pane \in Pane
      BY <1>2, <2>2 DEF Binds, PaneOrNone
    <3>. QED
      BY <1>5, <3>1 DEF PanesInv, TypeOK
  <2>5. retired' \subseteq PaneOrNone
    <3>1. \A t \in {r.task} \ {NoTask} : panes[t].pane \in PaneOrNone
      BY <2>2, MapFields DEF PanesInv, TypeOK, TaskOrNone
    <3>. QED
      BY <1>5, <3>1 DEF PanesInv, TypeOK
  <2>. QED
    BY <1>3, <1>5, <2>1, <2>3, <2>4, <2>5 DEF PanesInv, TypeOK
<1>10. TasksInv'
  <2>1. served' \in 0..MaxRequests /\ Kept(row, row', lastTask) /\ NoTask \in KnownTasks
    BY <1>5, KeptSame DEF PanesInv, TypeOK, KnownTasks
  <2>2. h.task \in KnownTasks /\ h.parent \in KnownTasks
    BY <1>4, <2>1 DEF PanesInv, TasksInv, TasksKnown, r
  <2>3. ~ToInsert(h) /\ ~RollingBack(h)
    BY <1>4 DEF ToInsert, RollingBack
  <2>4. ~ToOpen(h)
    <3>1. CASE h.kind = "none"
      BY <3>1 DEF ToOpen, Openers
    <3>2. CASE h.kind # "none"
      BY <1>2, <1>4, <3>2 DEF ToOpen, Openers, Binds
    <3>. QED
      BY <3>1, <3>2
  <2>5. Owner(h) => Owner(req[q]) /\ h.task = req[q].task /\ h.parent = req[q].parent
    BY <1>4 DEF Owner, r, Creators
  <2>. QED
    BY <1>2, <1>4, <1>5, <2>1, <2>2, <2>3, <2>4, <2>5, TasksFrame DEF PanesInv, r
<1>11. \A t \in Task \ exposed' : m[t] = panes[t]
  BY <1>2, <1>7 DEF PanesInv, BindingsInv, CopiesCurrent, r, m
<1>12. /\ Whole(m) /\ Once(m) /\ Whole(panes)
  BY <1>2 DEF PanesInv, BindingsInv, CopiesCurrent, r, m
<1>13. \A t \in Task :
          \/ panes'[t] = m[t]
          \/ r.kind = "archive" /\ t \in r.list /\ panes'[t] = Unbound
          \/ r.kind = "input" /\ t = r.task /\ panes'[t].pane = m[t].pane
          \/ Binds(r) /\ t = r.task /\ panes'[t].pane = r.pane
  BY <1>3 DEF SavedAs, m, r
<1>14. Unbound.pane = NoPane
  BY DEF Unbound, Binding
<1>15. /\ alive \subseteq KnownPanes \ {NoPane}
       /\ \A t \in Task : panes[t].pane \in KnownPanes /\ answered[t] \in KnownPanes
       /\ \A o \in Request :
             req[o].pane \in KnownPanes /\ \A t \in Task : req[o].copy[t].pane \in KnownPanes
       /\ \A o, p \in Request :
             o # p /\ HasOpened(req[o]) /\ HasOpened(req[p]) => req[o].pane # req[p].pane
       /\ NoPane \in KnownPanes
  BY DEF PanesInv, BindingsInv, PanesKnown, KnownPanes
<1>16. PanesKnown'
  <2>1. \A t \in Task : panes'[t].pane \in KnownPanes
    BY <1>13, <1>14, <1>15 DEF r, m
  <2>2. \A t \in Task : h.copy[t].pane \in KnownPanes
    BY <1>4, <1>15, NothingBound
  <2>3. \A o \in Request :
           req'[o].pane \in KnownPanes /\ \A t \in Task : req'[o].copy[t].pane \in KnownPanes
    BY <1>4, <1>6, <1>15, <2>2 DEF r
  <2>4. HasOpened(h) => HasOpened(req[q]) /\ h.pane = req[q].pane
    BY <1>4 DEF HasOpened, Openers, r
  <2>5. \A o, p \in Request :
           o # p /\ HasOpened(req'[o]) /\ HasOpened(req'[p]) => req'[o].pane # req'[p].pane
    <3>1. \A o \in Request : HasOpened(req'[o]) => HasOpened(req[o]) /\ req'[o].pane = req[o].pane
      BY <1>6, <2>4
    <3>. QED
      BY <1>15, <3>1
  <2>. QED
    BY <1>5, <1>8, <1>15, <2>1, <2>3, <2>5 DEF PanesKnown
<1>17. CopiesCurrent'
  <2>1. Whole(panes')
    <3>. SUFFICES ASSUME NEW t \in Task, panes'[t].pane = NoPane PROVE panes'[t] = Unbound
      BY DEF Whole
    <3>1. CASE panes'[t] = m[t]
      BY <1>12, <3>1 DEF Whole
    <3>2. CASE r.kind = "input" /\ t = r.task /\ panes'[t].pane = m[t].pane
      BY <1>2, <1>12, <3>2 DEF Whole, Bound
    <3>. QED
      BY <1>2, <1>13, <3>1, <3>2
  <2>2. \A o \in Request : req'[o].held => o # q /\ req[o].held /\ req'[o] = req[o]
    BY <1>4, <1>6
  <2>3. \A o \in Request : o # q /\ req[o].held => \A t \in Task \ exposed' : req[o].copy[t] = panes'[t]
    <3>. SUFFICES ASSUME NEW o \in Request, o # q, req[o].held, NEW t \in Task, t \notin exposed'
                  PROVE  req[o].copy[t] = panes'[t]
      OBVIOUS
    <3>1. req[o].copy[t] = panes[t]
      BY <1>7 DEF PanesInv, BindingsInv, CopiesCurrent
    <3>. QED
      BY <1>5, <1>11, <3>1
  <2>4. \A o \in Request : req[o].held =>
           Whole(req[o].copy) /\ \A t, u \in Task :
              t # u /\ Bound(req[o].copy, t) /\ req[o].copy[t].pane = req[o].copy[u].pane
                  => req[o].copy[t].pane \in opening'
    BY <1>7 DEF PanesInv, BindingsInv, CopiesCurrent, Once
  <2>. QED
    BY <2>1, <2>2, <2>3, <2>4 DEF CopiesCurrent, Whole, Once, Bound
<1>18. PaneIsNew'
  <2>1. /\ \A o \in Request, t \in Task :
              Binder(req[o]) /\ req[o].copy[t].pane = req[o].pane => req[o].pane \in opening
        /\ \A o, p \in Request, t \in Task :
              AwaitsMap(req[o]) /\ req[p].held /\ req[p].copy[t].pane = req[o].pane
                  => req[o].pane \in opening
    BY BindingsUnfolded DEF PanesInv, BindingsInv
  <2>2. /\ \A o \in Request : Binder(req'[o]) => o # q
        /\ \A o \in Request : AwaitsMap(req'[o]) => o # q
        /\ \A o \in Request : req'[o].held => o # q
    BY <1>4, <1>6 DEF Binder, AwaitsMap
  <2>3. \A o \in Request, t \in Task :
           Binder(req'[o]) /\ req'[o].copy[t].pane = req'[o].pane => req'[o].pane \in opening'
    BY <1>6, <1>7, <2>1, <2>2
  <2>4. \A o, p \in Request, t \in Task :
           AwaitsMap(req'[o]) /\ req'[p].held /\ req'[p].copy[t].pane = req'[o].pane
               => req'[o].pane \in opening'
    BY <1>6, <1>7, <2>1, <2>2
  <2>5. \A o \in Request, t \in Task :
           AwaitsMap(req'[o]) /\ panes'[t].pane = req'[o].pane => req'[o].pane \in opening'
    <3>. SUFFICES ASSUME NEW o \in Request, NEW t \in Task,
                         AwaitsMap(req'[o]), panes'[t].pane = req'[o].pane
                  PROVE  req'[o].pane \in opening'
      OBVIOUS
    <3>1. o # q /\ req'[o] = req[o] /\ AwaitsMap(req[o])
      BY <1>6, <2>2
    <3>2. HasOpened(req[o]) /\ req[o].pane # NoPane
      <4>1. Footing(req[o])
        BY KnownToBe
      <4>. QED
        BY <3>1, <4>1 DEF AwaitsMap, Footing, HasOpened, Openers
    <3>3. CASE panes'[t].pane = m[t].pane
      BY <1>2, <1>7, <2>1, <3>1, <3>3 DEF m, r
    <3>4. CASE Binds(r) /\ panes'[t].pane = r.pane
      <4>1. CASE r.kind = "adopt"
        BY <1>5, <3>1, <3>4, <4>1
      <4>2. CASE r.kind # "adopt"
        <5>1. HasOpened(r)
          BY <1>2, <3>4, <4>2 DEF HasOpened, Binds, Openers
        <5>. QED
          BY <1>15, <3>1, <3>2, <3>4, <5>1 DEF r
      <4>. QED
        BY <4>1, <4>2
    <3>. QED
      BY <1>13, <1>14, <3>1, <3>2, <3>3, <3>4
  <2>. QED
    BY <2>3, <2>4, <2>5 DEF PaneIsNew, Binder, AwaitsMap, At
<1>19. \A t \in Task \ exposed', p \in alive \ retired' :
          panes[t].pane = p => panes'[t].pane = p
  <2>. SUFFICES ASSUME NEW t \in Task, t \notin exposed', NEW p \in alive, p \notin retired',
                       panes[t].pane = p
                PROVE  panes'[t].pane = p
    OBVIOUS
  <2>1. m[t] = panes[t]
    BY <1>11
  <2>2. p # NoPane
    BY <1>15
  <2>3. CASE panes'[t].pane = m[t].pane
    BY <2>1, <2>3
  <2>4. CASE r.kind = "archive" /\ t \in r.list
    <3>1. Bound(m, t)
      BY <1>14, <2>1, <2>2 DEF Bound
    <3>2. m[t].pane \notin alive
      BY <1>2, <2>4, <3>1 DEF PanesInv, BindingsInv, ClosedThenUnbound, r, m
    <3>. QED
      BY <2>1, <3>2
  <2>5. CASE Binds(r) /\ t = r.task /\ panes'[t].pane = r.pane
    <3>1. r.task \in {r.task} \ {NoTask}
      BY <2>5, Ids
    <3>2. p \in {panes[u].pane : u \in {r.task} \ {NoTask}}
      BY <2>5, <3>1
    <3>. QED
      BY <1>5, <2>5, <3>2
  <2>. QED
    BY <1>13, <2>3, <2>4, <2>5
<1>20. AnsweredBound'
  <2>1. \A t \in Task \ exposed' :
           answered[t] \in alive \ retired' => panes'[t].pane = answered[t]
    <3>. SUFFICES ASSUME NEW t \in Task, t \notin exposed', answered[t] \in alive \ retired'
                  PROVE  panes'[t].pane = answered[t]
      OBVIOUS
    <3>1. panes[t].pane = answered[t]
      BY <1>7 DEF PanesInv, BindingsInv, AnsweredBound
    <3>. QED
      BY <1>19, <3>1
  <2>2. \A o \in Request :
           /\ Answers(req'[o]) /\ req'[o].pane \in alive \ retired' /\ req'[o].task \notin exposed'
           => panes'[req'[o].task].pane = req'[o].pane
    <3>. SUFFICES ASSUME NEW o \in Request, Answers(req'[o]),
                         req'[o].pane \in alive \ retired', req'[o].task \notin exposed'
                  PROVE  panes'[req'[o].task].pane = req'[o].pane
      OBVIOUS
    <3>1. CASE o = q
      <4>1. Binds(r) /\ h.task = r.task /\ h.pane = r.pane
        BY <1>4, <1>6, <3>1 DEF Answers, Binds
      <4>. QED
        BY <1>3, <1>6, <3>1, <4>1 DEF SavedAs
    <3>2. CASE o # q
      <4>1. panes[req[o].task].pane = req[o].pane
        BY <1>6, <1>7, <3>2 DEF PanesInv, BindingsInv, AnsweredBound, Answers
      <4>2. req[o].task \in Task
        <5>1. Footing(req[o]) /\ Answers(req[o])
          BY <1>6, <3>2, KnownToBe
        <5>2. req[o].task # NoTask
          BY <5>1 DEF Footing, Answers
        <5>. QED
          BY <5>2, KnownToBe
      <4>. QED
        BY <1>6, <1>19, <3>2, <4>1, <4>2
    <3>. QED
      BY <3>1, <3>2
  <2>. QED
    BY <1>5, <2>1, <2>2 DEF AnsweredBound, Answers
<1>21. \A t \in Task \ exposed' :
          Bound(panes', t) => \/ Bound(panes, t) /\ ~(r.kind = "archive" /\ t \in r.list)
                              \/ t = r.task /\ t # NoTask
  <2>. SUFFICES ASSUME NEW t \in Task, t \notin exposed', Bound(panes', t), t # r.task
                PROVE  Bound(panes, t) /\ ~(r.kind = "archive" /\ t \in r.list)
    BY Ids
  <2>1. ~(r.kind = "archive" /\ t \in r.list)
    BY <1>3 DEF SavedAs, Bound
  <2>. QED
    BY <1>11, <1>13, <2>1 DEF Bound
<1>22. ClosedThenUnbound'
  <2>1. \A o \in Request : req'[o].kind = "archive" =>
           /\ req'[o].held => \A t \in req'[o].list \ req'[o].todo :
                 Bound(req'[o].copy, t) => req'[o].copy[t].pane \notin alive
           /\ req'[o].pc = "archive" => \A t \in req'[o].list :
                 Bound(panes', t) => t \in exposed' \union late'
    <3>. SUFFICES ASSUME NEW o \in Request, req'[o].kind = "archive"
                  PROVE  /\ req'[o].held => \A t \in req'[o].list \ req'[o].todo :
                               Bound(req'[o].copy, t) => req'[o].copy[t].pane \notin alive
                         /\ req'[o].pc = "archive" => \A t \in req'[o].list :
                               Bound(panes', t) => t \in exposed' \union late'
      OBVIOUS
    <3>1. CASE o = q
      <4>1. ~req'[o].held /\ r.kind = "archive" /\ req'[o].list = r.list
        BY <1>4, <1>6, <3>1
      <4>2. \A t \in r.list : ~Bound(panes', t)
        BY <1>3, <4>1 DEF SavedAs, Bound
      <4>. QED
        BY <4>1, <4>2
    <3>2. CASE o # q
      <4>1. req'[o] = req[o]
        BY <1>6, <3>2
      <4>2. /\ req[o].held => \A t \in req[o].list \ req[o].todo :
                  Bound(req[o].copy, t) => req[o].copy[t].pane \notin alive
            /\ req[o].pc = "archive" => \A t \in req[o].list :
                  Bound(panes, t) => t \in exposed \union late
        BY <4>1 DEF PanesInv, BindingsInv, ClosedThenUnbound
      <4>3. ASSUME req[o].pc = "archive", NEW t \in req[o].list, Bound(panes', t), t \notin exposed'
            PROVE  t \in late'
        <5>1. t \in Task
          BY <1>6, RequestFields
        <5>2. CASE Bound(panes, t)
          BY <1>7, <4>2, <4>3, <5>2
        <5>3. CASE t = r.task /\ t # NoTask
          BY <1>5, <5>3
        <5>. QED
          BY <1>21, <4>3, <5>1, <5>2, <5>3
      <4>. QED
        BY <4>1, <4>2, <4>3
    <3>. QED
      BY <3>1, <3>2
  <2>. QED
    BY <1>5, <2>1 DEF ClosedThenUnbound, Bound
<1>23. PaneBoundOnce'
  <2>. SUFFICES ASSUME NEW t \in Task, NEW u \in Task, t # u, Bound(panes', t),
                       panes'[t].pane = panes'[u].pane
                PROVE  panes'[t].pane \in opening'
    BY DEF PaneBoundOnce, Bound
  <2>1. panes'[t].pane # NoPane
    BY <1>17 DEF CopiesCurrent, Whole, Bound
  <2>2. CASE panes'[t].pane = m[t].pane /\ panes'[u].pane = m[u].pane
    <3>1. Bound(m, t)
      BY <1>14, <2>1, <2>2 DEF Bound
    <3>. QED
      BY <1>7, <1>12, <2>2, <3>1 DEF Once
  <2>3. CASE Binds(r) /\ (t = r.task \/ u = r.task)
    <3>1. Binder(r)
      BY <1>2, <2>3 DEF Binder, Binds, Openers
    <3>2. \A v \in Task : m[v].pane = r.pane => r.pane \in opening
      BY <3>1, BindingsUnfolded DEF PanesInv, BindingsInv, r, m
    <3>3. panes'[r.task].pane = r.pane
      BY <1>3, <2>3 DEF SavedAs
    <3>4. \A v \in Task : v # r.task => panes'[v] = m[v]
      BY <1>2, <1>13, <2>3 DEF Binds
    <3>. QED
      BY <1>7, <2>3, <3>2, <3>3, <3>4
  <2>. QED
    BY <1>13, <1>14, <2>1, <2>2, <2>3
<1>24. ArchivedUnbound'
  <2>1. \A t \in Task : row[t].archived /\ Bound(panes', t) => t \in exposed' \union late'
    <3>. SUFFICES ASSUME NEW t \in Task, row[t].archived, Bound(panes', t), t \notin exposed'
                  PROVE  t \in late'
      OBVIOUS
    <3>1. CASE Bound(panes, t)
      BY <1>7, <3>1 DEF PanesInv, BindingsInv, ArchivedUnbound
    <3>2. CASE t = r.task /\ t # NoTask
      BY <1>5, <3>2
    <3>. QED
      BY <1>21, <3>1, <3>2
  <2>. QED
    BY <1>5, <2>1 DEF ArchivedUnbound, Bound
<1>25. BindingsInv'
  BY <1>16, <1>17, <1>18, <1>20, <1>22, <1>23, <1>24 DEF BindingsInv
<1>. QED
  BY <1>9, <1>10, <1>25 DEF PanesInv

--------------------------------------------------------------------------------
(* A request begins.                                                            *)

\* A request begins with no copy, no task of its own and no pane it has opened.
LEMMA BeginsStep ==
    ASSUME PanesInv, NEW q \in Request, NEW pc, NEW request, Begins(q, pc, request),
           NEW h \in RequestState, h = [request EXCEPT !.pc = pc], Footing(h),
           h.held = FALSE, h.copy = Nothing, h.pc \in {"load", "role", "patch"},
           h.task \in KnownTasks, h.parent \in KnownTasks, h.pane \in KnownPanes,
           ~Owner(h), ~HasOpened(h)
    PROVE  PanesInv'
<1>1. /\ req[q].pc = "idle" /\ served < MaxRequests /\ served' = served + 1
      /\ req' = [req EXCEPT ![q] = h]
      /\ UNCHANGED <<row, panes, alive, lastPane, lastTask, errors>>
      /\ UNCHANGED <<answered, exposed, late, opening, retired, cut>>
  BY DEF Begins, At, storeVars, tmuxVars, histVars
<1>2. ~RollingBack(req[q])
  BY <1>1 DEF RollingBack
<1>3. served' \in 0..MaxRequests
  BY <1>1, Ids DEF PanesInv, TypeOK
<1>4. TypeOK'
  BY <1>1, <1>3, TypesFrame DEF PanesInv, TypeOK
<1>5. TasksInv'
  <2>1. Kept(row, row', lastTask)
    BY <1>1, KeptSame
  <2>. QED
    BY <1>1, <1>2, <1>3, <2>1, TasksFrame DEF PanesInv
<1>6. BindingsInv'
  <2>1. answered' \in [Task -> PaneOrNone] /\ row' \in [Task -> Rows]
    BY <1>1 DEF PanesInv, TypeOK
  <2>2. ~Binder(h) /\ ~Answers(h) /\ h.pc # "archive"
    BY DEF Binder, Answers
  <2>3. ~AwaitsMap(h)
    BY DEF AwaitsMap, HasOpened, Openers, Footing
  <2>. QED
    BY <1>1, <2>1, <2>2, <2>3, BindingsFrame DEF PanesInv
<1>. QED
  BY <1>4, <1>5, <1>6 DEF PanesInv

\* The tasks there are and the panes there are are known.
LEMMA ListedKnown ==
    ASSUME PanesInv
    PROVE  /\ \A t \in Task : Exists(t) =>
                 t \in KnownTasks /\ row[t].parent \in KnownTasks /\ row[t].parent \in TaskOrNone
           /\ \A t \in Task : Listed(t) => Exists(t)
           /\ \A p \in alive : p \in KnownPanes /\ p \in PaneOrNone /\ p # NoPane
           /\ NoTask \in KnownTasks /\ NoPane \in KnownPanes
<1>1. \A t \in Task : row[t].parent \in TaskOrNone
  BY RowFields DEF PanesInv, TypeOK
<1>2. \A t \in Task : Exists(t) => t \in KnownTasks /\ row[t].parent \in KnownTasks
  BY DEF PanesInv, TasksInv, TasksKnown
<1>3. \A p \in alive : p \in KnownPanes /\ p \in PaneOrNone /\ p # NoPane
  BY DEF PanesInv, TypeOK, BindingsInv, PanesKnown, PaneOrNone
<1>. QED
  BY <1>1, <1>2, <1>3 DEF Listed, KnownTasks, KnownPanes

\* What a request may start with, by kind.
Starts(h) ==
    /\ h \in RequestState /\ h.held = FALSE /\ h.copy = Nothing /\ h.todo = {}
    /\ h.task \in KnownTasks /\ h.parent \in KnownTasks /\ h.pane \in KnownPanes
    /\ \/ h.pc = "role" /\ h.kind \in {"root", "task"} /\ h.task = NoTask /\ h.pane = NoPane
       \/ h.pc = "load" /\ h.kind = "create" /\ h.task = NoTask /\ h.pane = NoPane
       \/ h.pc = "load" /\ h.kind = "adopt" /\ h.task = NoTask /\ h.pane # NoPane
       \/ h.pc = "load" /\ h.kind \in {"launch", "input"} /\ h.task # NoTask /\ h.pane = NoPane
       \/ h.pc = "load" /\ h.kind = "archive" /\ h.task = NoTask /\ h.pane = NoPane
       \/ h.pc = "patch" /\ h.kind \in Patches /\ h.task # NoTask /\ h.pane = NoPane

LEMMA StartsStep ==
    ASSUME PanesInv, NEW q \in Request, NEW pc, NEW request, Begins(q, pc, request),
           Starts([request EXCEPT !.pc = pc])
    PROVE  PanesInv'
<1>. DEFINE h == [request EXCEPT !.pc = pc]
<1>. HIDE DEF h
<1>1. Starts(h)
  BY DEF h
<1>2. Footing(h)
  BY <1>1 DEF Starts, Footing, Creators, Openers, Patches
<1>3. ~Owner(h) /\ ~HasOpened(h)
  BY <1>1 DEF Starts, Owner, HasOpened, Creators, Openers, Patches
<1>. QED
  BY <1>1, <1>2, <1>3, BeginsStep DEF Starts, h

LEMMA InvBegin ==
    ASSUME PanesInv, NEW q \in Request, Begin(q)
    PROVE  PanesInv'
<1>. USE IdleRequest DEF RequestState, Starts
<1>0. /\ NoTask \in KnownTasks /\ NoPane \in KnownPanes /\ NoTask \in TaskOrNone
      /\ NoPane \in PaneOrNone /\ Task \subseteq TaskOrNone /\ NoTask \notin Task
      /\ "full" \in Role
  BY ListedKnown, Ids DEF Role
<1>1. CASE RootPaneCreate(q)
  <2>1. Starts([[Idle EXCEPT !.kind = "root"] EXCEPT !.pc = "role"])
    BY <1>0 DEF Kind, PC, Creators
  <2>. QED
    BY <1>1, <2>1, StartsStep DEF RootPaneCreate
<1>2. CASE ArchiveChecked(q)
  <2>. DEFINE checked == {t \in Task : Listed(t) /\ row[t].checked}
  <2>1. checked \in SUBSET Task
    OBVIOUS
  <2>. HIDE DEF checked
  <2>2. Starts([[Idle EXCEPT !.kind = "archive", !.list = checked] EXCEPT !.pc = "load"])
    BY <1>0, <2>1 DEF Kind, PC
  <2>3. Begins(q, "load", [Idle EXCEPT !.kind = "archive", !.list = checked])
    BY <1>2 DEF ArchiveChecked, checked
  <2>. QED
    BY <2>2, <2>3, StartsStep
<1>3. ASSUME NEW t \in TaskOrNone, NEW role \in Role, CreateTask(q, t, role) PROVE PanesInv'
  <2>1. t \in KnownTasks
    BY <1>0, <1>3, ListedKnown DEF CreateTask, Exists, TaskOrNone
  <2>2. Starts([[Idle EXCEPT !.kind = "task", !.parent = t, !.role = role] EXCEPT !.pc = "role"])
    BY <1>0, <2>1 DEF Kind, PC, Creators
  <2>. QED
    BY <1>3, <2>2, StartsStep DEF CreateTask
<1>4. ASSUME NEW t \in Task, NEW rel, NEW role \in Role, PaneCreate(q, t, rel, role)
      PROVE  PanesInv'
  <2>. DEFINE parent == IF rel = "child" THEN t ELSE row[t].parent
  <2>1. parent \in KnownTasks /\ parent \in TaskOrNone
    BY <1>0, <1>4, ListedKnown DEF PaneCreate
  <2>2. Begins(q, "load", [Idle EXCEPT !.kind = "create", !.role = role, !.parent = parent])
    BY <1>4 DEF PaneCreate
  <2>. HIDE DEF parent
  <2>3. Starts([[Idle EXCEPT !.kind = "create", !.role = role, !.parent = parent]
                EXCEPT !.pc = "load"])
    BY <1>0, <2>1 DEF Kind, PC, Creators
  <2>. QED
    BY <2>2, <2>3, StartsStep
<1>5. ASSUME NEW t \in Task, NEW p \in alive, AdoptPane(q, t, p) PROVE PanesInv'
  <2>1. t \in KnownTasks /\ p \in KnownPanes /\ p \in PaneOrNone /\ p # NoPane
    BY <1>5, ListedKnown DEF AdoptPane
  <2>2. Starts([[Idle EXCEPT !.kind = "adopt", !.parent = t, !.pane = p] EXCEPT !.pc = "load"])
    BY <1>0, <2>1 DEF Kind, PC, Creators
  <2>. QED
    BY <1>5, <2>2, StartsStep DEF AdoptPane
<1>6. ASSUME NEW t \in Task, DeriveTask(q, t) PROVE PanesInv'
  <2>1. t \in KnownTasks
    BY <1>6, ListedKnown DEF DeriveTask
  <2>2. Starts([[Idle EXCEPT !.kind = "task", !.parent = t] EXCEPT !.pc = "role"])
    BY <1>0, <2>1 DEF Kind, PC, Creators
  <2>. QED
    BY <1>6, <2>2, StartsStep DEF DeriveTask
<1>7. ASSUME NEW t \in Task, NEW kind, NEW pc, Listed(t),
             \/ kind \in {"launch", "input"} /\ pc = "load"
             \/ kind \in Patches /\ pc = "patch",
             Begins(q, pc, [Idle EXCEPT !.kind = kind, !.task = t])
      PROVE  PanesInv'
  <2>1. t \in KnownTasks
    BY <1>7, ListedKnown
  <2>2. Starts([[Idle EXCEPT !.kind = kind, !.task = t] EXCEPT !.pc = pc])
    BY <1>0, <1>7, <2>1 DEF Kind, PC, Patches
  <2>. QED
    BY <1>7, <2>2, StartsStep
<1>8. ASSUME NEW t \in Task, ManualLaunch(q, t) \/ WriteStdin(q, t) PROVE PanesInv'
  <2>1. CASE ManualLaunch(q, t)
    BY <1>7, <2>1 DEF ManualLaunch
  <2>2. CASE WriteStdin(q, t)
    BY <1>7, <2>2 DEF WriteStdin
  <2>. QED
    BY <1>8, <2>1, <2>2
<1>9. ASSUME NEW t \in Task, NEW what \in Patches, Patch(q, t, what) PROVE PanesInv'
  BY <1>7, <1>9 DEF Patch
<1>. QED
  BY <1>0, <1>1, <1>2, <1>3, <1>4, <1>5, <1>6, <1>8, <1>9 DEF Begin, Patches

--------------------------------------------------------------------------------
(* The theorems.                                                                *)

LEMMA InvStep == PanesInv /\ [Next]_vars => PanesInv'
<1>. SUFFICES ASSUME PanesInv, [Next]_vars PROVE PanesInv'
  OBVIOUS
<1>1. CASE UNCHANGED vars
  <2>. USE <1>1 DEF vars, storeVars, tmuxVars, histVars
  <2>1. TypeOK'
    BY DEF PanesInv, TypeOK
  <2>2. RequestsKeepFooting'
    BY DEF PanesInv, TasksInv, RequestsKeepFooting
  <2>3. IdsLeft'
    <3>1. Inserting' = Inserting /\ Opening' = Opening
      BY DEF Inserting, Opening
    <3>. QED
      BY <3>1 DEF PanesInv, TasksInv, IdsLeft
  <2>4. TasksKnown' /\ TasksOwned' /\ WaitingForSomebody'
    BY DEF PanesInv, TasksInv, TasksKnown, TasksOwned, WaitingForSomebody, KnownTasks, Exists,
           Listed, At
  <2>5. PanesKnown' /\ AnsweredBound'
    BY DEF PanesInv, BindingsInv, PanesKnown, KnownPanes, AnsweredBound
  <2>6. CopiesCurrent' /\ PaneIsNew'
    BY DEF PanesInv, BindingsInv, CopiesCurrent, Whole, Once, Bound, PaneIsNew, At
  <2>7. ClosedThenUnbound' /\ PaneBoundOnce' /\ ArchivedUnbound'
    BY DEF PanesInv, BindingsInv, ClosedThenUnbound, PaneBoundOnce, ArchivedUnbound, Bound
  <2>. QED
    BY <2>1, <2>2, <2>3, <2>4, <2>5, <2>6, <2>7 DEF PanesInv, TasksInv, BindingsInv
<1>2. ASSUME NEW q \in Request, Begin(q) \/ Handle(q) \/ CallFails(q) PROVE PanesInv'
  <2>1. CASE Begin(q)
    BY <2>1, InvBegin
  <2>2. CASE Handle(q)
    BY <2>2, InvLoadPanes, InvSavePanes, InvCheckRole, InvInsertTask, InvReadParent,
       InvSetParent, InvOpenPane, InvFindTask, InvSetRunning, InvFinish, InvRollbackFind,
       InvRollbackDelete, InvRollbackList, InvRollbackParent, InvPatchTask, InvCloseNext,
       InvArchiveRows, InvShellIsReady DEF Handle
  <2>3. CASE CallFails(q)
    BY <2>3, InvCallFails
  <2>. QED
    BY <1>2, <2>1, <2>2, <2>3
<1>. QED
  BY <1>1, <1>2 DEF Next

\* Every behaviour of the handlers keeps the inductive invariant.
THEOREM PanesInvariant == Spec => []PanesInv
  BY InvInit, InvStep, PTL DEF Spec

\* SavePanes and PANE_ALREADY_BOUND: panes_json binds no pane to two tasks, but for a pane
\* that is adopted while the request that opened it has yet to load the map.
THEOREM BoundOnce == Spec => []PaneBoundOnce
<1>1. PanesInv => PaneBoundOnce
  BY DEF PanesInv, BindingsInv
<1>. QED
  BY <1>1, PanesInvariant, PTL

\* A task that was answered with a pane stays bound while the pane is open and was not
\* replaced, unless a request held a map from before the binding.
THEOREM OpenBound == Spec => []OpenPanesBound
<1>1. PanesInv => OpenPanesBound
  <2>. SUFFICES ASSUME PanesInv, NEW t \in Task, answered[t] \in alive \ retired, t \notin exposed
                PROVE  Bound(panes, t)
    BY DEF OpenPanesBound
  <2>1. panes[t].pane = answered[t] /\ answered[t] # NoPane
    BY DEF PanesInv, BindingsInv, AnsweredBound, PanesKnown
  <2>. QED
    BY <2>1 DEF Bound, Unbound, Binding
<1>. QED
  BY <1>1, PanesInvariant, PTL

\* archiveCheckedTasksByProject: an archived task is bound only if a request held an older
\* map, or it was checked or bound behind the archive's back.
THEOREM ArchivedAreUnbound == Spec => []ArchivedUnbound
<1>1. PanesInv => ArchivedUnbound
  BY DEF PanesInv, BindingsInv
<1>. QED
  BY <1>1, PanesInvariant, PTL

\* rollbackTaskCreation: a task waits for children only while it has one, a rollback is about
\* to see to it, or a failing statement cut that rollback short.
THEOREM WaitsForSomebody == Spec => []WaitingForSomebody
<1>1. PanesInv => WaitingForSomebody
  BY DEF PanesInv, TasksInv
<1>. QED
  BY <1>1, PanesInvariant, PTL

================================================================================
