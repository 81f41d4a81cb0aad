-------------------------- MODULE PaneStream_proofs ---------------------------
(* Proofs about PaneStream for any connections, channel capacities, frames per  *)
(* snapshot and bounds: a stream is complete and in order after its snapshot,   *)
(* and who watched a pane as it was closed is told.                             *)
EXTENDS PaneStream, FiniteSetTheorems, FunctionTheorems, SequenceTheorems, WellFoundedInduction, TLAPS

\* The constants are numbers, and there is a first realtimeLoop.
LEMMA Bounds ==
    /\ Cap \in Nat \ {0} /\ PendingLimit \in Nat \ {0} /\ FeedCap \in Nat \ {0}
    /\ ResetFrames \in Nat \ {0} /\ MaxOut \in Nat /\ MaxSelects \in Nat
    /\ MaxLoops \in Nat \ {0} /\ Loop = 1..MaxLoops /\ 1 \in Loop
  BY PaneStreamAssumption DEF Loop

\* The kinds of frames, and what tells them apart.
LEMMA Kinds ==
    /\ \A n \in 0..MaxOut : /\ Reset(n) \in Message /\ Part(n) \in Message /\ Live(n) \in Message
                            /\ Reset(n).kind = "reset" /\ Part(n).kind = "part"
                            /\ Live(n).kind = "append"
                            /\ Reset(n).n = n /\ Part(n).n = n /\ Live(n).n = n
    /\ Ended \in Message /\ Ended.kind = "ended"
    /\ \A m \in Message : /\ m.n \in 0..MaxOut /\ m.kind \in {"reset", "part", "append", "ended"}
                          /\ m.kind = "append" => m = Live(m.n)
                          /\ m.kind = "reset" => m = Reset(m.n)
                          /\ m.kind = "part" => m = Part(m.n)
                          /\ m.kind = "ended" => m.kind = "ended"
  BY Bounds DEF Reset, Part, Live, Ended, Message

-------------------------------------------------------------------------------
(* Sequences of frames.                                                         *)

\* A set of numbers that is bounded and not empty has a greatest member.
LEMMA Greatest ==
    ASSUME NEW n \in Nat, NEW S, S \subseteq 1..n, S # {}
    PROVE  \E i \in S : \A j \in S : j <= i
<1> DEFINE T == {n - i : i \in S}
<1>1. T \subseteq Nat /\ T # {}
  <2>1. \A i \in S : n - i \in Nat
    OBVIOUS
  <2>2. PICK i \in S : TRUE
    OBVIOUS
  <2>3. n - i \in T
    OBVIOUS
  <2>. QED
    BY <2>1, <2>3
<1>2. PICK x \in T : \A y \in T : ~ (<<y, x>> \in OpToRel(<, Nat))
  BY <1>1, NatLessThanWellFounded, WFMin
<1>3. \A y \in T : ~ (y < x)
  BY <1>1, <1>2 DEF OpToRel
<1>4. PICK i \in S : x = n - i
  OBVIOUS
<1>5. \A j \in S : j <= i
  <2>1. \A j \in S : n - j \in T
    OBVIOUS
  <2>. QED
    BY <1>3, <1>4, <2>1
<1>. QED
  BY <1>5

\* LastReset is 0 without a reset frame, and else the newest one's place.
LEMMA NoReset ==
    ASSUME NEW s, \A i \in DOMAIN s : s[i].kind # "reset"
    PROVE  LastReset(s) = 0
  BY DEF LastReset

\* LastReset is the position of the newest reset frame, 0 without one.
LEMMA LastResetIs ==
    ASSUME NEW s \in Seq(Message)
    PROVE  /\ LastReset(s) \in 0..Len(s)
           /\ LastReset(s) = 0 => \A i \in DOMAIN s : s[i].kind # "reset"
           /\ LastReset(s) > 0 => /\ LastReset(s) \in DOMAIN s /\ s[LastReset(s)].kind = "reset"
           /\ \A j \in DOMAIN s : s[j].kind = "reset" => j <= LastReset(s)
<1> DEFINE resets == {i \in DOMAIN s : s[i].kind = "reset"}
<1>1. CASE resets = {}
  <2>1. \A i \in DOMAIN s : s[i].kind # "reset"
    BY <1>1
  <2>. QED
    BY <2>1, NoReset
<1>2. CASE resets # {}
  <2>1. resets \subseteq 1..Len(s) /\ Len(s) \in Nat
    OBVIOUS
  <2>2. \E i \in resets : \A j \in resets : j <= i
    BY <1>2, <2>1, Greatest
  <2>3. LastReset(s) = CHOOSE i \in resets : \A j \in resets : j <= i
    BY <1>2 DEF LastReset
  <2>4. LastReset(s) \in resets /\ \A j \in resets : j <= LastReset(s)
    BY <2>2, <2>3
  <2>. QED
    BY <2>1, <2>4
<1>. QED
  BY <1>1, <1>2

\* A reset frame with none after it is the newest.
LEMMA LastResetUnique ==
    ASSUME NEW s \in Seq(Message), NEW r \in DOMAIN s, s[r].kind = "reset",
           \A j \in DOMAIN s : j > r => s[j].kind # "reset"
    PROVE  LastReset(s) = r
<1>1. r >= 1 /\ r \in Nat
  OBVIOUS
<1>2. LastReset(s) # 0 /\ LastReset(s) \in Nat /\ r <= LastReset(s)
  BY <1>1, LastResetIs
<1>3. LastReset(s) \in DOMAIN s /\ s[LastReset(s)].kind = "reset"
  BY <1>2, LastResetIs
<1>. QED
  BY <1>1, <1>2, <1>3

\* Counts are numbers.
LEMMA CountType ==
    ASSUME NEW s \in Seq(Message), NEW x
    PROVE  Count(s, x) \in Nat /\ IsFiniteSet(After(s, x)) /\ After(s, x) \subseteq 1..Len(s)
<1>1. After(s, x) \subseteq 1..Len(s) /\ Len(s) \in Nat
  BY DEF After
<1>2. IsFiniteSet(1..Len(s))
  BY <1>1, FS_Interval
<1>3. IsFiniteSet(After(s, x))
  BY <1>1, <1>2, FS_Subset
<1>. QED
  BY <1>1, <1>3, FS_CardinalityType DEF Count

\* What is not there counts 0.
LEMMA CountNone ==
    ASSUME NEW s, NEW x, After(s, x) = {}
    PROVE  Count(s, x) = 0
  BY FS_EmptySet DEF Count

\* An empty stream shows nothing and is in order.
LEMMA EmptyFrames ==
    /\ \A x : Count(<<>>, x) = 0
    /\ Lives(<<>>) = {} /\ Increasing(<<>>) /\ LastReset(<<>>) = 0
<1>1. \A x : After(<<>>, x) = {}
  BY DEF After
<1>2. \A x : Count(<<>>, x) = 0
  BY <1>1, CountNone
<1>3. LastReset(<<>>) = 0
  BY NoReset
<1>. QED
  BY <1>2, <1>3 DEF Lives, Increasing

\* One more frame.
LEMMA Appended ==
    ASSUME NEW S, NEW q \in Seq(S), NEW e \in S
    PROVE  /\ Append(q, e) \in Seq(S) /\ Len(q) \in Nat /\ Len(Append(q, e)) = Len(q) + 1
           /\ DOMAIN q = 1..Len(q) /\ DOMAIN Append(q, e) = 1..(Len(q) + 1)
           /\ \A i \in 1..Len(q) : Append(q, e)[i] = q[i]
           /\ Append(q, e)[Len(q) + 1] = e
           /\ \A i \in DOMAIN Append(q, e) :
                 \/ i \in DOMAIN q /\ Append(q, e)[i] = q[i]
                 \/ i = Len(q) + 1 /\ Append(q, e)[i] = e
  OBVIOUS

\* A frame appended that is no reset frame leaves the newest one where it is.
LEMMA AppendKeepsReset ==
    ASSUME NEW s \in Seq(Message), NEW m \in Message, m.kind # "reset"
    PROVE  /\ LastReset(Append(s, m)) = LastReset(s)
           /\ LastReset(s) > 0 => Append(s, m)[LastReset(s)] = s[LastReset(s)]
<1> DEFINE t == Append(s, m)
<1>1. /\ t \in Seq(Message) /\ DOMAIN s = 1..Len(s) /\ DOMAIN t = 1..(Len(s) + 1) /\ Len(s) \in Nat
      /\ t[Len(s) + 1] = m /\ \A i \in 1..Len(s) : t[i] = s[i]
  BY Appended
<1>. HIDE DEF t
<1>2. ASSUME LastReset(s) = 0 PROVE LastReset(t) = LastReset(s)
  <2>1. \A i \in DOMAIN t : t[i].kind # "reset"
    BY <1>1, <1>2, LastResetIs
  <2>. QED
    BY <1>2, <2>1, NoReset
<1>3. ASSUME LastReset(s) > 0
      PROVE  LastReset(t) = LastReset(s) /\ t[LastReset(s)] = s[LastReset(s)]
  <2>1. LastReset(s) \in 1..Len(s) /\ s[LastReset(s)].kind = "reset"
        /\ \A j \in 1..Len(s) : s[j].kind = "reset" => j <= LastReset(s)
    BY <1>1, <1>3, LastResetIs
  <2>2. \A j \in DOMAIN t : j > LastReset(s) => t[j].kind # "reset"
    BY <1>1, <2>1
  <2>3. LastReset(s) \in DOMAIN t /\ t[LastReset(s)].kind = "reset"
    BY <1>1, <2>1
  <2>4. LastReset(t) = LastReset(s)
    BY <1>1, <2>2, <2>3, LastResetUnique
  <2>. QED
    BY <1>1, <2>1, <2>4
<1>4. LastReset(s) \in Nat
  BY <1>1, LastResetIs
<1>5. LastReset(t) = LastReset(s) /\ (LastReset(s) > 0 => t[LastReset(s)] = s[LastReset(s)])
  BY <1>2, <1>3, <1>4
<1>. QED
  BY <1>5 DEF t

\* A frame appended raises its own count by one.
LEMMA AppendCounted ==
    ASSUME NEW s \in Seq(Message), NEW m \in Message, m.kind # "reset", NEW x
    PROVE  Count(Append(s, m), x) = Count(s, x) + (IF m = x THEN 1 ELSE 0)
<1>0. /\ DOMAIN s = 1..Len(s) /\ DOMAIN Append(s, m) = 1..(Len(s) + 1) /\ Len(s) \in Nat
      /\ Append(s, m)[Len(s) + 1] = m /\ \A i \in 1..Len(s) : Append(s, m)[i] = s[i]
  BY Appended
<1>1. LastReset(Append(s, m)) = LastReset(s) /\ LastReset(s) \in 0..Len(s)
  BY AppendKeepsReset, LastResetIs
<1>2. CASE m = x
  <2>1. After(Append(s, m), x) = After(s, x) \cup {Len(s) + 1}
    BY <1>0, <1>1, <1>2 DEF After
  <2>2. Len(s) + 1 \notin After(s, x)
    BY <1>0 DEF After
  <2>3. IsFiniteSet(After(s, x))
    BY CountType
  <2>. QED
    BY <1>2, <2>1, <2>2, <2>3, FS_AddElement DEF Count
<1>3. CASE m # x
  <2>1. After(Append(s, m), x) = After(s, x)
    BY <1>0, <1>1, <1>3 DEF After
  <2>2. Count(Append(s, m), x) = Count(s, x)
    BY <2>1 DEF Count
  <2>3. Count(s, x) \in Nat
    BY CountType
  <2>. QED
    BY <1>3, <2>2, <2>3
<1>. QED
  BY <1>2, <1>3

\* An append frame appended adds its chunk, and keeps the order if it is newer.
LEMMA AppendLives ==
    ASSUME NEW s \in Seq(Message), NEW m \in Message, m.kind # "reset"
    PROVE  /\ Lives(Append(s, m)) = Lives(s) \cup (IF m.kind = "append" THEN {m.n} ELSE {})
           /\ Increasing(s) /\ (m.kind = "append" => \A a \in Lives(s) : a < m.n)
                => Increasing(Append(s, m))
<1>0. /\ DOMAIN s = 1..Len(s) /\ DOMAIN Append(s, m) = 1..(Len(s) + 1) /\ Len(s) \in Nat
      /\ Append(s, m)[Len(s) + 1] = m /\ \A i \in 1..Len(s) : Append(s, m)[i] = s[i]
  BY Appended
<1>1. LastReset(Append(s, m)) = LastReset(s) /\ LastReset(s) \in 0..Len(s)
  BY AppendKeepsReset, LastResetIs
<1>2. Lives(Append(s, m)) = Lives(s) \cup (IF m.kind = "append" THEN {m.n} ELSE {})
  BY <1>0, <1>1 DEF Lives
<1>3. ASSUME Increasing(s), m.kind = "append" => \A a \in Lives(s) : a < m.n
      PROVE  Increasing(Append(s, m))
  <2> SUFFICES ASSUME NEW i \in DOMAIN Append(s, m), NEW j \in DOMAIN Append(s, m),
                      LastReset(s) < i, i < j,
                      Append(s, m)[i].kind = "append", Append(s, m)[j].kind = "append"
               PROVE  Append(s, m)[i].n < Append(s, m)[j].n
    BY <1>1 DEF Increasing
  <2>1. i \in 1..Len(s) /\ Append(s, m)[i] = s[i] /\ s[i].n \in Lives(s)
    BY <1>0 DEF Lives
  <2>2. CASE j \in 1..Len(s)
    BY <1>0, <1>3, <2>1, <2>2 DEF Increasing
  <2>3. CASE j = Len(s) + 1
    BY <1>0, <1>3, <2>1, <2>3
  <2>. QED
    BY <1>0, <2>2, <2>3
<1>. QED
  BY <1>2, <1>3

\* A reset frame makes what came before it irrelevant.
LEMMA AppendReset ==
    ASSUME NEW s \in Seq(Message), NEW m \in Message, m.kind = "reset"
    PROVE  /\ LastReset(Append(s, m)) = Len(s) + 1 /\ Append(s, m)[Len(s) + 1] = m
           /\ \A x : Count(Append(s, m), x) = 0
           /\ Lives(Append(s, m)) = {} /\ Increasing(Append(s, m))
<1> DEFINE t == Append(s, m)
<1>0. /\ t \in Seq(Message) /\ DOMAIN s = 1..Len(s) /\ Len(s) \in Nat
      /\ DOMAIN t = 1..(Len(s) + 1) /\ t[Len(s) + 1] = m
  BY Appended
<1>. HIDE DEF t
<1>1. LastReset(t) = Len(s) + 1
  BY <1>0, LastResetUnique
<1>2. \A x : After(t, x) = {}
  BY <1>0, <1>1 DEF After
<1>3. \A x : Count(t, x) = 0
  BY <1>2, CountNone
<1>4. Lives(t) = {} /\ Increasing(t)
  BY <1>0, <1>1 DEF Lives, Increasing
<1>. QED
  BY <1>0, <1>1, <1>3, <1>4 DEF t

\* Positions moved by the same distance are as many.
LEMMA Shifted ==
    ASSUME NEW A, IsFiniteSet(A), A \subseteq Nat, NEW d \in Nat, NEW B,
           B = {i + d : i \in A}
    PROVE  IsFiniteSet(B) /\ Cardinality(B) = Cardinality(A)
<1> DEFINE f == [i \in A |-> i + d]
<1>1. f \in [A -> B]
  OBVIOUS
<1>2. \A i, j \in A : f[i] = f[j] => i = j
  OBVIOUS
<1>3. \A b \in B : \E i \in A : f[i] = b
  OBVIOUS
<1>. HIDE DEF f
<1>4. f \in Bijection(A, B)
  BY <1>1, <1>2, <1>3, Fun_IsBij
<1>5. ExistsBijection(A, B)
  BY <1>4 DEF ExistsBijection
<1>. QED
  BY <1>5, FS_Bijection

\* The first frame taken out of a sequence.
LEMMA Taken ==
    ASSUME NEW S, NEW q \in Seq(S), q # <<>>
    PROVE  /\ Head(q) = q[1] /\ 1 \in DOMAIN q /\ q[1] \in S /\ DOMAIN q = 1..Len(q)
           /\ Tail(q) \in Seq(S) /\ Len(q) \in Nat \ {0} /\ Len(Tail(q)) = Len(q) - 1
           /\ DOMAIN Tail(q) = 1..(Len(q) - 1)
           /\ \A i \in DOMAIN Tail(q) :
                 i \in Nat /\ i + 1 \in DOMAIN q /\ i + 1 # 1 /\ Tail(q)[i] = q[i + 1]
  OBVIOUS

\* Without a reset frame, the head of a list takes its count along.
LEMMA TailCounted ==
    ASSUME NEW q \in Seq(Message), q # <<>>, \A i \in DOMAIN q : q[i].kind # "reset", NEW x
    PROVE  Count(q, x) = Count(Tail(q), x) + (IF Head(q) = x THEN 1 ELSE 0)
<1> DEFINE t == Tail(q)
<1>1. /\ Head(q) = q[1] /\ DOMAIN q = 1..Len(q) /\ Len(q) \in Nat \ {0} /\ t \in Seq(Message)
      /\ DOMAIN t = 1..(Len(q) - 1) /\ \A i \in DOMAIN t : t[i] = q[i + 1]
  BY Taken
<1>. HIDE DEF t
<1>2. LastReset(q) = 0 /\ LastReset(t) = 0
  <2>1. \A i \in DOMAIN t : t[i].kind # "reset"
    BY <1>1
  <2>. QED
    BY <2>1, NoReset
<1> DEFINE A == After(t, x)
           B == {i + 1 : i \in A}
<1>3. IsFiniteSet(A) /\ A \subseteq Nat /\ Count(t, x) = Cardinality(A) /\ Count(t, x) \in Nat
  BY <1>1, CountType DEF Count
<1>4. IsFiniteSet(B) /\ Cardinality(B) = Count(t, x)
  BY <1>3, Shifted
<1>5. After(q, x) = B \cup (IF q[1] = x THEN {1} ELSE {})
  <2>1. \A i : i \in A <=> i \in 1..(Len(q) - 1) /\ q[i + 1] = x
    BY <1>1, <1>2 DEF After
  <2>2. \A i : i \in After(q, x) <=> i \in 1..Len(q) /\ q[i] = x
    BY <1>1, <1>2 DEF After
  <2>3. ASSUME NEW i \in After(q, x), i # 1 PROVE i \in B
    <3>1. i - 1 \in A /\ i = (i - 1) + 1
      BY <1>1, <2>1, <2>2, <2>3
    <3>. QED
      BY <3>1
  <2>4. \A i \in B : i \in After(q, x)
    BY <1>1, <2>1, <2>2
  <2>5. 1 \in After(q, x) <=> q[1] = x
    BY <1>1, <2>2
  <2>. QED
    BY <2>3, <2>4, <2>5
<1>6. 1 \notin B
  <2>1. A \subseteq 1..Len(t) /\ Len(t) \in Nat
    BY <1>1, CountType
  <2>. QED
    BY <2>1
<1>. HIDE DEF A, B
<1>7. Count(q, x) = Count(t, x) + (IF q[1] = x THEN 1 ELSE 0)
  <2>1. CASE q[1] = x
    <3>1. After(q, x) = B \cup {1}
      BY <1>5, <2>1
    <3>2. Cardinality(B \cup {1}) = Cardinality(B) + 1
      BY <1>4, <1>6, FS_AddElement
    <3>. QED
      BY <1>4, <2>1, <3>1, <3>2 DEF Count
  <2>2. CASE q[1] # x
    <3>1. After(q, x) = B
      BY <1>5, <2>2
    <3>. QED
      BY <1>3, <1>4, <2>2, <3>1 DEF Count
  <2>. QED
    BY <2>1, <2>2
<1>. QED
  BY <1>1, <1>7 DEF t

\* Without a reset frame, the chunk of the head is the oldest of the list.
LEMMA TailLives ==
    ASSUME NEW q \in Seq(Message), q # <<>>, \A i \in DOMAIN q : q[i].kind # "reset"
    PROVE  /\ Lives(q) = Lives(Tail(q)) \cup (IF Head(q).kind = "append" THEN {Head(q).n} ELSE {})
           /\ Increasing(q) => /\ Increasing(Tail(q))
                               /\ Head(q).kind = "append" => \A a \in Lives(Tail(q)) : Head(q).n < a
<1> DEFINE t == Tail(q)
<1>1. /\ Head(q) = q[1] /\ DOMAIN q = 1..Len(q) /\ Len(q) \in Nat \ {0} /\ t \in Seq(Message)
      /\ DOMAIN t = 1..(Len(q) - 1) /\ \A i \in DOMAIN t : t[i] = q[i + 1]
  BY Taken
<1>. HIDE DEF t
<1>2. LastReset(q) = 0 /\ LastReset(t) = 0
  <2>1. \A i \in DOMAIN t : t[i].kind # "reset"
    BY <1>1
  <2>. QED
    BY <2>1, NoReset
<1>3. Lives(q) = Lives(t) \cup (IF q[1].kind = "append" THEN {q[1].n} ELSE {})
  <2>1. ASSUME NEW a \in Lives(q) PROVE a \in Lives(t) \/ (q[1].kind = "append" /\ a = q[1].n)
    <3>1. PICK i \in DOMAIN q : q[i].kind = "append" /\ a = q[i].n
      BY <2>1 DEF Lives
    <3>2. CASE i = 1
      BY <3>1, <3>2
    <3>3. CASE i # 1
      <4>1. i - 1 \in DOMAIN t /\ t[i - 1] = q[i] /\ i - 1 > 0
        BY <1>1, <3>3
      <4>. QED
        BY <1>2, <3>1, <4>1 DEF Lives
    <3>. QED
      BY <3>2, <3>3
  <2>2. ASSUME NEW a \in Lives(t) PROVE a \in Lives(q)
    <3>1. PICK i \in DOMAIN t : t[i].kind = "append" /\ a = t[i].n
      BY <2>2 DEF Lives
    <3>2. i + 1 \in DOMAIN q /\ t[i] = q[i + 1] /\ i + 1 > 0
      BY <1>1
    <3>. QED
      BY <1>2, <3>1, <3>2 DEF Lives
  <2>3. q[1].kind = "append" => q[1].n \in Lives(q)
    BY <1>1, <1>2 DEF Lives
  <2>. QED
    BY <2>1, <2>2, <2>3
<1>4. ASSUME Increasing(q)
      PROVE  Increasing(t) /\ (q[1].kind = "append" => \A a \in Lives(t) : q[1].n < a)
  <2>1. Increasing(t)
    <3> SUFFICES ASSUME NEW i \in DOMAIN t, NEW j \in DOMAIN t, 0 < i, i < j,
                        t[i].kind = "append", t[j].kind = "append"
                 PROVE  t[i].n < t[j].n
      BY <1>2 DEF Increasing
    <3>1. i + 1 \in DOMAIN q /\ j + 1 \in DOMAIN q /\ 0 < i + 1 /\ i + 1 < j + 1
          /\ t[i] = q[i + 1] /\ t[j] = q[j + 1]
      BY <1>1
    <3>. QED
      BY <1>2, <1>4, <3>1 DEF Increasing
  <2>2. ASSUME q[1].kind = "append", NEW a \in Lives(t) PROVE q[1].n < a
    <3>1. PICK i \in DOMAIN t : t[i].kind = "append" /\ a = t[i].n
      BY <2>2 DEF Lives
    <3>2. i + 1 \in DOMAIN q /\ t[i] = q[i + 1] /\ 1 < i + 1 /\ 1 \in DOMAIN q
      BY <1>1
    <3>. QED
      BY <1>2, <1>4, <2>2, <3>1, <3>2 DEF Increasing
  <2>. QED
    BY <2>1, <2>2
<1>. QED
  BY <1>1, <1>3, <1>4 DEF t

\* Without append frames there are no chunks.
LEMMA NoLives ==
    ASSUME NEW s, \A i \in DOMAIN s : s[i].kind # "append"
    PROVE  Lives(s) = {} /\ Increasing(s)
  BY DEF Lives, Increasing

\* A snapshot about to be sent: the reset frame counts for nothing.
LEMMA TailOfReset ==
    ASSUME NEW q \in Seq(Message), q # <<>>, Head(q).kind = "reset",
           \A i \in DOMAIN q : i # 1 => q[i].kind # "reset", NEW x
    PROVE  Count(q, x) = Count(Tail(q), x)
<1> DEFINE t == Tail(q)
<1>1. /\ Head(q) = q[1] /\ DOMAIN q = 1..Len(q) /\ Len(q) \in Nat \ {0} /\ t \in Seq(Message)
      /\ DOMAIN t = 1..(Len(q) - 1) /\ \A i \in DOMAIN t : t[i] = q[i + 1]
  BY Taken
<1>. HIDE DEF t
<1>2. LastReset(q) = 1
  <2>1. 1 \in DOMAIN q /\ q[1].kind = "reset" /\ \A j \in DOMAIN q : j > 1 => q[j].kind # "reset"
    BY <1>1
  <2>. QED
    BY <2>1, LastResetUnique
<1>3. LastReset(t) = 0
  <2>1. \A i \in DOMAIN t : t[i].kind # "reset"
    BY <1>1
  <2>. QED
    BY <2>1, NoReset
<1>4. IsFiniteSet(After(t, x)) /\ After(t, x) \subseteq Nat
  BY <1>1, CountType
<1>5. After(q, x) = {i + 1 : i \in After(t, x)}
  <2>1. \A i : i \in After(t, x) <=> i \in 1..(Len(q) - 1) /\ q[i + 1] = x
    BY <1>1, <1>3 DEF After
  <2>2. \A i : i \in After(q, x) <=> i \in 2..Len(q) /\ q[i] = x
    BY <1>1, <1>2 DEF After
  <2>3. ASSUME NEW i \in After(q, x) PROVE i \in {j + 1 : j \in After(t, x)}
    <3>1. i \in 2..Len(q) /\ q[i] = x
      BY <2>2
    <3>2. i - 1 \in 1..(Len(q) - 1) /\ i = (i - 1) + 1
      BY <1>1, <3>1
    <3>3. i - 1 \in After(t, x)
      BY <2>1, <3>1, <3>2
    <3>. QED
      BY <3>2, <3>3
  <2>4. \A i \in After(t, x) : i + 1 \in After(q, x)
    BY <1>1, <2>1, <2>2
  <2>. QED
    BY <2>3, <2>4
<1>6. Count(q, x) = Count(t, x)
  BY <1>4, <1>5, Shifted DEF Count
<1>. QED
  BY <1>6 DEF t

\* What comes before a reset frame can be left out.
LEMMA FromReset ==
    ASSUME NEW a \in Seq(Message), NEW b \in Seq(Message), b # <<>>, Head(b).kind = "reset"
    PROVE  /\ \A x : Count(a \o b, x) = Count(b, x)
           /\ Lives(a \o b) = Lives(b) /\ (Increasing(a \o b) => Increasing(b))
           /\ LastReset(a \o b) > 0 /\ LastReset(b) > 0
           /\ (a \o b)[LastReset(a \o b)] = b[LastReset(b)]
<1> DEFINE s == a \o b
           d == Len(a)
<1>1. /\ s \in Seq(Message) /\ d \in Nat /\ Len(b) \in Nat \ {0} /\ Len(s) = d + Len(b)
      /\ DOMAIN s = 1..(d + Len(b)) /\ DOMAIN b = 1..Len(b)
      /\ \A i \in DOMAIN b : s[i + d] = b[i]
      /\ b[1].kind = "reset" /\ 1 \in DOMAIN b
  BY Taken, ConcatProperties, LenProperties
<1>. HIDE DEF s, d
<1>2. LastReset(b) \in DOMAIN b /\ b[LastReset(b)].kind = "reset"
      /\ \A j \in DOMAIN b : b[j].kind = "reset" => j <= LastReset(b)
  <2>1. 1 <= LastReset(b) /\ LastReset(b) \in Nat
    BY <1>1, LastResetIs
  <2>. QED
    BY <2>1, LastResetIs
<1>3. LastReset(s) = LastReset(b) + d
  <2>1. LastReset(b) + d \in DOMAIN s /\ s[LastReset(b) + d].kind = "reset"
    BY <1>1, <1>2
  <2>2. ASSUME NEW j \in DOMAIN s, j > LastReset(b) + d PROVE s[j].kind # "reset"
    <3>1. j - d \in DOMAIN b /\ j - d > LastReset(b) /\ s[j] = b[j - d]
      BY <1>1, <1>2, <2>2
    <3>. QED
      BY <1>1, <1>2, <3>1
  <2>. QED
    BY <1>1, <2>1, <2>2, LastResetUnique
<1>4. \A j \in DOMAIN s : j > LastReset(s) => j - d \in DOMAIN b /\ j - d > LastReset(b) /\ s[j] = b[j - d]
  BY <1>1, <1>2, <1>3
<1>5. \A i \in DOMAIN b : i > LastReset(b) => i + d \in DOMAIN s /\ i + d > LastReset(s) /\ s[i + d] = b[i]
  BY <1>1, <1>2, <1>3
<1>6. ASSUME NEW x PROVE Count(s, x) = Count(b, x)
  <2>1. After(s, x) = {i + d : i \in After(b, x)}
    <3>1. ASSUME NEW j \in After(s, x) PROVE j \in {i + d : i \in After(b, x)}
      <4>1. j - d \in After(b, x) /\ j = (j - d) + d
        BY <1>1, <1>4 DEF After
      <4>. QED
        BY <4>1
    <3>2. \A i \in After(b, x) : i + d \in After(s, x)
      BY <1>5 DEF After
    <3>. QED
      BY <3>1, <3>2
  <2>2. IsFiniteSet(After(b, x)) /\ After(b, x) \subseteq Nat
    BY <1>1, CountType
  <2> DEFINE A == After(b, x)
             B == After(s, x)
  <2>3. IsFiniteSet(A) /\ A \subseteq Nat /\ d \in Nat /\ B = {i + d : i \in A}
    BY <1>1, <2>1, <2>2
  <2>. HIDE DEF A, B
  <2>4. Cardinality(B) = Cardinality(A)
    BY ONLY <2>3, Shifted
  <2>. QED
    BY <2>4 DEF A, B, Count
<1>7. Lives(s) = Lives(b)
  <2>1. ASSUME NEW n \in Lives(s) PROVE n \in Lives(b)
    <3>1. PICK j \in DOMAIN s : j > LastReset(s) /\ s[j].kind = "append" /\ n = s[j].n
      BY DEF Lives
    <3>. QED
      BY <1>4, <3>1 DEF Lives
  <2>2. ASSUME NEW n \in Lives(b) PROVE n \in Lives(s)
    <3>1. PICK j \in DOMAIN b : j > LastReset(b) /\ b[j].kind = "append" /\ n = b[j].n
      BY DEF Lives
    <3>. QED
      BY <1>5, <3>1 DEF Lives
  <2>. QED
    BY <2>1, <2>2
<1>8. Increasing(s) => Increasing(b)
  <2> SUFFICES ASSUME Increasing(s), NEW i \in DOMAIN b, NEW j \in DOMAIN b, LastReset(b) < i, i < j,
                      b[i].kind = "append", b[j].kind = "append"
               PROVE  b[i].n < b[j].n
    BY DEF Increasing
  <2>1. LastReset(b) < j /\ i + d < j + d
    BY <1>1, <1>2
  <2>2. i + d \in DOMAIN s /\ LastReset(s) < i + d /\ s[i + d] = b[i]
    BY <1>1, <1>2, <1>3, <1>5
  <2>3. j + d \in DOMAIN s /\ s[j + d] = b[j]
    BY <1>1, <1>2, <1>3, <1>5, <2>1
  <2>. QED
    BY <2>1, <2>2, <2>3 DEF Increasing
<1>9. LastReset(s) > 0 /\ LastReset(b) > 0 /\ s[LastReset(s)] = b[LastReset(b)]
  BY <1>1, <1>2, <1>3
<1>. QED
  BY <1>6, <1>7, <1>8, <1>9 DEF s

\* The frames of a snapshot.
LEMMA SnapshotFrames ==
    ASSUME NEW n \in 0..MaxOut
    PROVE  LET q == termOutputMessages(n)
           IN  /\ q \in Seq(Message) /\ q # <<>> /\ Head(q) = Reset(n) /\ DOMAIN q = 1..ResetFrames
               /\ \A i \in DOMAIN q : i # 1 => q[i] = Part(n)
               /\ Count(q, Part(n)) = ResetFrames - 1
               /\ \A k \in 1..MaxOut : Count(q, Live(k)) = 0
               /\ Lives(q) = {} /\ Increasing(q)
<1> DEFINE q == termOutputMessages(n)
           parts == [i \in 1..(ResetFrames - 1) |-> Part(n)]
<1>1. parts \in Seq(Message) /\ Len(parts) = ResetFrames - 1
      /\ \A i \in 1..(ResetFrames - 1) : parts[i] = Part(n)
  BY Bounds, Kinds
<1>2. <<Reset(n)>> \in Seq(Message) /\ Len(<<Reset(n)>>) = 1 /\ <<Reset(n)>>[1] = Reset(n)
  BY Kinds
<1>3. /\ q \in Seq(Message) /\ Len(q) = ResetFrames
      /\ \A i \in 1..ResetFrames : q[i] = IF i <= 1 THEN Reset(n) ELSE parts[i - 1]
  <2>1. q = <<Reset(n)>> \o parts
    BY DEF termOutputMessages
  <2>. HIDE DEF parts, q
  <2>2. q \in Seq(Message) /\ Len(q) = 1 + (ResetFrames - 1)
        /\ \A i \in 1..(1 + (ResetFrames - 1)) :
              q[i] = IF i <= 1 THEN <<Reset(n)>>[i] ELSE parts[i - 1]
    BY <1>1, <1>2, <2>1, ConcatProperties
  <2>. QED
    BY <1>2, <2>2, Bounds
<1>. HIDE DEF q, parts
<1>4. /\ DOMAIN q = 1..ResetFrames /\ q # <<>> /\ 1 \in DOMAIN q /\ q[1] = Reset(n)
      /\ \A i \in DOMAIN q : i # 1 => q[i] = Part(n)
  BY <1>1, <1>3, Bounds
<1>5. Head(q) = Reset(n)
  BY <1>3, <1>4
<1>6. LastReset(q) = 1
  <2>1. \A j \in DOMAIN q : j > 1 => q[j].kind # "reset"
    BY <1>4, Kinds
  <2>. QED
    BY <1>3, <1>4, <2>1, Kinds, LastResetUnique
<1>7. Count(q, Part(n)) = ResetFrames - 1
  <2>1. After(q, Part(n)) = 2..ResetFrames
    BY <1>4, <1>6, Bounds DEF After
  <2>2. Cardinality(2..ResetFrames) = ResetFrames - 1
    BY Bounds, FS_Interval
  <2>. QED
    BY <2>1, <2>2 DEF Count
<1>8. ASSUME NEW k \in 1..MaxOut PROVE Count(q, Live(k)) = 0
  <2>1. \A i \in DOMAIN q : q[i] # Live(k)
    BY <1>4, Kinds, Bounds
  <2>2. After(q, Live(k)) = {}
    BY <2>1 DEF After
  <2>. QED
    BY <2>2, CountNone
<1>9. Lives(q) = {} /\ Increasing(q)
  <2>1. \A i \in DOMAIN q : q[i].kind # "append"
    BY <1>4, Kinds
  <2>. QED
    BY <2>1, NoLives
<1>. QED
  BY <1>3, <1>4, <1>5, <1>7, <1>8, <1>9 DEF q

-------------------------------------------------------------------------------
(* What the records hold.                                                       *)

\* The fields of the message loop inside Subscribe.
LEMMA InLoop ==
    ASSUME StreamTyped
    PROVE  /\ loop.pc = "idle" => loop = [pc |-> "idle"]
           /\ loop.pc # "idle" =>
                 /\ loop \in LoopState /\ loop.conn \in Conn /\ loop.gap \in BOOLEAN
                 /\ loop.missing \in BOOLEAN /\ loop.todo \in Seq(Message)
           /\ loop.pc \in {"idle", "register"} \cup Registering
<1>1. \A r \in LoopState : /\ r.pc \in {"register"} \cup Registering /\ r.pc # "idle"
                           /\ r.conn \in Conn /\ r.gap \in BOOLEAN /\ r.missing \in BOOLEAN
                           /\ r.todo \in Seq(Message)
  BY DEF LoopState, Registering
<1>2. loop = [pc |-> "idle"] \/ loop \in LoopState
  BY DEF StreamTyped
<1>. QED
  BY <1>1, <1>2

\* Its record changes field by field.
LEMMA LoopMoves ==
    ASSUME NEW r \in LoopState, NEW pc \in {"register"} \cup Registering,
           NEW todo \in Seq(Message), NEW missing \in BOOLEAN
    PROVE  /\ [r EXCEPT !.pc = pc] \in LoopState
           /\ [r EXCEPT !.todo = todo] \in LoopState
           /\ [r EXCEPT !.pc = pc, !.todo = todo] \in LoopState
           /\ [r EXCEPT !.pc = pc, !.missing = missing] \in LoopState
  BY DEF LoopState

\* The fields of a call of enqueuePaneMessage.
LEMMA InCall ==
    ASSUME StreamTyped, NEW p \in {"loop", "closer"}
    PROVE  /\ call[p] # NoCall <=> call[p].at # "none"
           /\ call[p] # NoCall =>
                 /\ call[p] \in CallState /\ call[p].at \in {"try", "pop", "put", "putback"}
                 /\ call[p].conn \in Conn /\ call[p].msg \in Message /\ call[p].held \in Message
<1>1. \A r \in CallState : /\ r.at \in {"try", "pop", "put", "putback"} /\ r.at # "none"
                           /\ r.conn \in Conn /\ r.msg \in Message /\ r.held \in Message
  BY DEF CallState
<1>2. call[p] = NoCall \/ call[p] \in CallState
  BY DEF StreamTyped
<1>3. NoCall.at = "none"
  BY DEF NoCall
<1>. QED
  BY <1>1, <1>2, <1>3

\* The fields of a realtimeLoop inside broadcast.
LEMMA InRt ==
    ASSUME StreamTyped, NEW l \in Loop
    PROVE  /\ rt[l].pc = "idle" => rt[l] = [pc |-> "idle"]
           /\ rt[l].pc # "idle" => /\ rt[l].k \in 1..MaxOut /\ rt[l].todo \in SUBSET Conn
                                   /\ Live(rt[l].k) \in Message
                                   /\ rt[l].pc \in {"each", "send"}
           /\ rt[l].pc = "send" => rt[l].conn \in Conn
<1>1. \A r \in RtEach \cup RtSend : /\ r.pc \in {"each", "send"} /\ r.pc # "idle"
                                    /\ r.k \in 1..MaxOut /\ r.todo \in SUBSET Conn
                                    /\ r.pc = "send" => r.conn \in Conn
  BY DEF RtEach, RtSend
<1>2. rt[l] = [pc |-> "idle"] \/ rt[l] \in RtEach \cup RtSend
  BY DEF StreamTyped
<1>3. \A k \in 1..MaxOut : Live(k) \in Message
  BY Bounds, Kinds
<1>. QED
  BY <1>1, <1>2, <1>3

\* Queues stay within their bounds.
LEMMA WithinBounds ==
    ASSUME NEW S, NEW n \in Nat, NEW q \in UpTo(S, n)
    PROVE  /\ q \in Seq(S) /\ Len(q) \in 0..n /\ <<>> \in UpTo(S, n)
           /\ q # <<>> => Tail(q) \in UpTo(S, n) /\ Head(q) \in S
           /\ \A e \in S : Len(q) < n => Append(q, e) \in UpTo(S, n)
           /\ \A e \in S : q # <<>> => Append(Tail(q), e) \in UpTo(S, n)
<1>1. q \in Seq(S) /\ Len(q) \in Nat /\ Len(q) <= n
  BY DEF UpTo
<1>2. q # <<>> => /\ Tail(q) \in Seq(S) /\ Len(Tail(q)) = Len(q) - 1 /\ Head(q) \in S
                  /\ Len(q) > 0
  BY <1>1
<1>3. \A t \in Seq(S) : \A e \in S : Append(t, e) \in Seq(S) /\ Len(Append(t, e)) = Len(t) + 1
  OBVIOUS
<1>. QED
  BY <1>1, <1>2, <1>3 DEF UpTo

-------------------------------------------------------------------------------
(* Types.                                                                       *)

\* A realtimeLoop that moves on keeps its shape.
LEMMA RtNextTyped ==
    ASSUME StreamTyped, NEW l \in Loop, rt[l].pc # "idle", NEW c \in Conn, RealtimeNext(l, c)
    PROVE  rt' \in [Loop -> {[pc |-> "idle"]} \cup RtEach \cup RtSend]
<1>1. rt[l].k \in 1..MaxOut /\ rt[l].todo \in SUBSET Conn
  BY InRt
<1>2. [pc |-> "each", k |-> rt[l].k, todo |-> rt[l].todo \ {c}] \in RtEach
  BY <1>1 DEF RtEach
<1>. QED
  BY <1>2 DEF RealtimeNext, StreamTyped

\* TmuxOutput keeps the types.
LEMMA TypedTmuxOutput ==
    ASSUME StreamTyped, TmuxOutput
    PROVE  StreamTyped'
<1>1. printed' \in 0..MaxOut
  BY Bounds DEF TmuxOutput, StreamTyped, tmuxVars, paneVars, histVars
<1>2. feed' \in [Loop -> UpTo(1..MaxOut, FeedCap)]
  BY Bounds, Kinds DEF TmuxOutput, StreamTyped, UpTo, tmuxVars, paneVars, histVars
<1>. QED
  BY <1>1, <1>2 DEF TmuxOutput, StreamTyped, tmuxVars, paneVars, histVars

\* TmuxExit keeps the types.
LEMMA TypedTmuxExit ==
    ASSUME StreamTyped, TmuxExit
    PROVE  StreamTyped'
<1>1. alive' \in BOOLEAN
  BY Bounds DEF TmuxExit, StreamTyped, tmuxVars, paneVars, histVars
<1>. QED
  BY <1>1 DEF TmuxExit, StreamTyped, tmuxVars, paneVars, histVars

\* SubscribeRegister keeps the types.
LEMMA TypedSubscribeRegister ==
    ASSUME StreamTyped, SubscribeRegister
    PROVE  StreamTyped'
<1>1. subscribers' \subseteq Conn /\ resetPending' \subseteq subscribers'
  BY Bounds DEF SubscribeRegister, StreamTyped, LoopState, Registering, tmuxVars, paneVars, histVars
<1>2. pendingAppend' \in [Conn -> UpTo(Message, PendingLimit)]
  BY Bounds, Kinds DEF SubscribeRegister, StreamTyped, UpTo, LoopState, Registering, tmuxVars, paneVars, histVars
<1>3. loop' \in {[pc |-> "idle"]} \cup LoopState
  BY InLoop, LoopMoves DEF SubscribeRegister, Registering
<1>4. closer' \in [pc : {"idle", "notify", "each", "unsub", "done"}, todo : SUBSET Conn, watching : SUBSET Conn]
  BY Bounds DEF SubscribeRegister, StreamTyped, LoopState, Registering, tmuxVars, paneVars, histVars
<1>5. lossy' \in [Conn -> BOOLEAN]
  BY Bounds DEF SubscribeRegister, StreamTyped, LoopState, Registering, tmuxVars, paneVars, histVars
<1>6. raced' \in [Conn -> BOOLEAN]
  BY Bounds DEF SubscribeRegister, StreamTyped, LoopState, Registering, tmuxVars, paneVars, histVars
<1>7. outcome' \in [Conn -> Outcome]
  BY Bounds DEF SubscribeRegister, StreamTyped, Outcome, LoopState, Registering, tmuxVars, paneVars, histVars
<1>. QED
  BY <1>1, <1>2, <1>3, <1>4, <1>5, <1>6, <1>7 DEF SubscribeRegister, StreamTyped, tmuxVars, paneVars, histVars

\* SubscribeCapture keeps the types.
LEMMA TypedSubscribeCapture ==
    ASSUME StreamTyped, SubscribeCapture
    PROVE  StreamTyped'
<1>1. loop' \in {[pc |-> "idle"]} \cup LoopState
  <2>1. termOutputMessages(printed) \in Seq(Message)
    BY SnapshotFrames DEF StreamTyped
  <2>2. loop \in LoopState
    BY InLoop DEF SubscribeCapture
  <2>. HIDE DEF termOutputMessages
  <2>3. CASE loop' = [loop EXCEPT !.pc = "reset", !.todo = termOutputMessages(printed)]
    BY <2>1, <2>2, <2>3, LoopMoves DEF Registering
  <2>4. CASE loop' = [loop EXCEPT !.pc = "failed", !.missing = ~alive]
    <3>1. "failed" \in {"register"} \cup Registering /\ (~alive) \in BOOLEAN
      BY DEF Registering, StreamTyped
    <3>. QED
      BY <2>2, <2>4, <3>1 DEF LoopState
  <2>. QED
    BY <2>3, <2>4 DEF SubscribeCapture
<1>. QED
  BY <1>1 DEF SubscribeCapture, StreamTyped, tmuxVars, paneVars, histVars

\* SubscribeSend keeps the types.
LEMMA TypedSubscribeSend ==
    ASSUME StreamTyped, SubscribeSend
    PROVE  StreamTyped'
<1>1. loop' \in {[pc |-> "idle"]} \cup LoopState
  <2>1. loop \in LoopState /\ loop.todo \in Seq(Message) /\ loop.todo # <<>>
    BY InLoop DEF SubscribeSend
  <2>2. Tail(loop.todo) \in Seq(Message)
    BY <2>1
  <2>. QED
    BY <2>1, <2>2, LoopMoves DEF SubscribeSend, Registering
<1>2. call' \in [{"loop", "closer"} -> {NoCall} \cup CallState]
  <2>1. loop.conn \in Conn /\ loop.todo \in Seq(Message) /\ loop.todo # <<>>
    BY InLoop DEF SubscribeSend
  <2>2. Head(loop.todo) \in Message
    BY <2>1
  <2>3. Calling(loop.conn, Head(loop.todo)) \in CallState
    BY <2>1, <2>2 DEF Calling, CallState
  <2>. QED
    BY <2>3 DEF SubscribeSend, StreamTyped
<1>. QED
  BY <1>1, <1>2 DEF SubscribeSend, StreamTyped, tmuxVars, paneVars, histVars

\* SubscribeClear keeps the types.
LEMMA TypedSubscribeClear ==
    ASSUME StreamTyped, SubscribeClear
    PROVE  StreamTyped'
<1>1. subscribers' \subseteq Conn /\ resetPending' \subseteq subscribers'
  BY Bounds DEF SubscribeClear, StreamTyped, LoopState, Registering, tmuxVars, paneVars, histVars
<1>2. loop' \in {[pc |-> "idle"]} \cup LoopState
  BY InLoop, LoopMoves DEF SubscribeClear, Registering
<1>. QED
  BY <1>1, <1>2 DEF SubscribeClear, StreamTyped, tmuxVars, paneVars, histVars

\* SubscribeFlush keeps the types.
LEMMA TypedSubscribeFlush ==
    ASSUME StreamTyped, SubscribeFlush
    PROVE  StreamTyped'
<1>1. pendingAppend' \in [Conn -> UpTo(Message, PendingLimit)]
  BY Bounds, Kinds DEF SubscribeFlush, StreamTyped, UpTo, LoopState, Registering, tmuxVars, paneVars, histVars
<1>2. loop' \in {[pc |-> "idle"]} \cup LoopState
  <2>1. loop \in LoopState /\ loop.conn \in Conn
    BY InLoop DEF SubscribeFlush
  <2>2. (IF loop.gap THEN <<>> ELSE pendingAppend[loop.conn]) \in Seq(Message)
    BY <2>1 DEF StreamTyped, UpTo
  <2>. QED
    BY <2>1, <2>2, LoopMoves DEF SubscribeFlush, Registering
<1>. QED
  BY <1>1, <1>2 DEF SubscribeFlush, StreamTyped, tmuxVars, paneVars, histVars

\* SubscribeFailed keeps the types.
LEMMA TypedSubscribeFailed ==
    ASSUME StreamTyped, SubscribeFailed
    PROVE  StreamTyped'
<1>1. subscribers' \subseteq Conn /\ resetPending' \subseteq subscribers'
  BY Bounds DEF SubscribeFailed, StreamTyped, LoopState, Registering, tmuxVars, paneVars, histVars
<1>2. loop' \in {[pc |-> "idle"]} \cup LoopState
  <2>1. (IF loop.missing THEN <<Ended>> ELSE <<>>) \in Seq(Message)
    BY Kinds
  <2>. QED
    BY <2>1, InLoop, LoopMoves DEF SubscribeFailed, Registering
<1>. QED
  BY <1>1, <1>2 DEF SubscribeFailed, StreamTyped, tmuxVars, paneVars, histVars

\* SubscribeReturn keeps the types.
LEMMA TypedSubscribeReturn ==
    ASSUME StreamTyped, SubscribeReturn
    PROVE  StreamTyped'
<1>1. loops' \in Loop
  BY Bounds DEF SubscribeReturn, StreamTyped, LoopState, Registering, tmuxVars, paneVars, histVars
<1>2. active' \in BOOLEAN
  BY Bounds DEF SubscribeReturn, StreamTyped, LoopState, Registering, tmuxVars, paneVars, histVars
<1>3. loop' \in {[pc |-> "idle"]} \cup LoopState
  BY Bounds, Kinds, SnapshotFrames DEF SubscribeReturn, StreamTyped, LoopState, Registering, tmuxVars, paneVars, histVars
<1>4. outcome' \in [Conn -> Outcome]
  BY Bounds DEF SubscribeReturn, StreamTyped, Outcome, LoopState, Registering, tmuxVars, paneVars, histVars
<1>. QED
  BY <1>1, <1>2, <1>3, <1>4 DEF SubscribeReturn, StreamTyped, tmuxVars, paneVars, histVars

\* SubscribeReturnError keeps the types.
LEMMA TypedSubscribeReturnError ==
    ASSUME StreamTyped, SubscribeReturnError
    PROVE  StreamTyped'
<1>1. loop' \in {[pc |-> "idle"]} \cup LoopState
  BY Bounds, Kinds, SnapshotFrames DEF SubscribeReturnError, StreamTyped, LoopState, Registering, tmuxVars, paneVars, histVars
<1>2. outcome' \in [Conn -> Outcome]
  BY Bounds DEF SubscribeReturnError, StreamTyped, Outcome, LoopState, Registering, tmuxVars, paneVars, histVars
<1>. QED
  BY <1>1, <1>2 DEF SubscribeReturnError, StreamTyped, tmuxVars, paneVars, histVars

\* ClosePane keeps the types.
LEMMA TypedClosePane ==
    ASSUME StreamTyped, ClosePane
    PROVE  StreamTyped'
<1>1. registered' \in BOOLEAN
  BY Bounds DEF ClosePane, StreamTyped, tmuxVars, paneVars, histVars
<1>2. closer' \in [pc : {"idle", "notify", "each", "unsub", "done"}, todo : SUBSET Conn, watching : SUBSET Conn]
  BY Bounds DEF ClosePane, StreamTyped, tmuxVars, paneVars, histVars
<1>. QED
  BY <1>1, <1>2 DEF ClosePane, StreamTyped, tmuxVars, paneVars, histVars

\* NotifyEnded keeps the types.
LEMMA TypedNotifyEnded ==
    ASSUME StreamTyped, NotifyEnded
    PROVE  StreamTyped'
<1>1. closer' \in [pc : {"idle", "notify", "each", "unsub", "done"}, todo : SUBSET Conn, watching : SUBSET Conn]
  BY Bounds DEF NotifyEnded, StreamTyped, tmuxVars, paneVars, histVars
<1>. QED
  BY <1>1 DEF NotifyEnded, StreamTyped, tmuxVars, paneVars, histVars

\* NotifyEndedReturn keeps the types.
LEMMA TypedNotifyEndedReturn ==
    ASSUME StreamTyped, NotifyEndedReturn
    PROVE  StreamTyped'
<1>1. active' \in BOOLEAN
  BY Bounds DEF NotifyEndedReturn, StreamTyped, tmuxVars, paneVars, histVars
<1>2. closer' \in [pc : {"idle", "notify", "each", "unsub", "done"}, todo : SUBSET Conn, watching : SUBSET Conn]
  BY Bounds DEF NotifyEndedReturn, StreamTyped, tmuxVars, paneVars, histVars
<1>. QED
  BY <1>1, <1>2 DEF NotifyEndedReturn, StreamTyped, tmuxVars, paneVars, histVars

\* SelectPane keeps the types.
LEMMA TypedSelectPane ==
    ASSUME StreamTyped, NEW c \in Conn, NEW gap \in BOOLEAN, SelectPane(c, gap)
    PROVE  StreamTyped'
<1>1. loop' \in {[pc |-> "idle"]} \cup LoopState
  BY Bounds, Kinds, SnapshotFrames DEF SelectPane, StreamTyped, LoopState, Registering, tmuxVars, paneVars, histVars
<1>2. selects' \in 0..MaxSelects
  BY Bounds DEF SelectPane, StreamTyped, tmuxVars, paneVars, histVars
<1>. QED
  BY <1>1, <1>2 DEF SelectPane, StreamTyped, tmuxVars, paneVars, histVars

\* EvictWatch keeps the types.
LEMMA TypedEvictWatch ==
    ASSUME StreamTyped, NEW c \in Conn, EvictWatch(c)
    PROVE  StreamTyped'
<1>1. subscribers' \subseteq Conn /\ resetPending' \subseteq subscribers'
  BY Bounds DEF EvictWatch, Unsubscribe, StreamTyped, tmuxVars, paneVars, histVars
<1>2. pendingAppend' \in [Conn -> UpTo(Message, PendingLimit)]
  BY Bounds, Kinds DEF EvictWatch, Unsubscribe, StreamTyped, UpTo, tmuxVars, paneVars, histVars
<1>3. closer' \in [pc : {"idle", "notify", "each", "unsub", "done"}, todo : SUBSET Conn, watching : SUBSET Conn]
  BY Bounds DEF EvictWatch, Unsubscribe, StreamTyped, tmuxVars, paneVars, histVars
<1>4. outcome' \in [Conn -> Outcome]
  BY Bounds DEF EvictWatch, Unsubscribe, StreamTyped, Outcome, LoopState, Registering, tmuxVars, paneVars, histVars
<1>. QED
  BY <1>1, <1>2, <1>3, <1>4 DEF EvictWatch, Unsubscribe, StreamTyped, tmuxVars, paneVars, histVars

\* RealtimeTake keeps the types.
LEMMA TypedRealtimeTake ==
    ASSUME StreamTyped, NEW l \in Loop, RealtimeTake(l)
    PROVE  StreamTyped'
<1>1. feed' \in [Loop -> UpTo(1..MaxOut, FeedCap)]
  BY Bounds, Kinds DEF RealtimeTake, StreamTyped, UpTo, RtEach, RtSend, tmuxVars, paneVars, histVars
<1>2. rt' \in [Loop -> {[pc |-> "idle"]} \cup RtEach \cup RtSend]
  <2>1. feed[l] \in Seq(1..MaxOut) /\ feed[l] # <<>>
    BY DEF RealtimeTake, StreamTyped, UpTo
  <2>2. Head(feed[l]) \in 1..MaxOut
    BY <2>1, Taken
  <2>3. subscribers \in SUBSET Conn
    BY DEF StreamTyped
  <2>4. [pc |-> "each", k |-> Head(feed[l]), todo |-> subscribers] \in RtEach
    BY <2>2, <2>3 DEF RtEach
  <2>. QED
    BY <2>4 DEF RealtimeTake, StreamTyped
<1>. QED
  BY <1>1, <1>2 DEF RealtimeTake, StreamTyped, tmuxVars, paneVars, histVars

\* RealtimeSend keeps the types.
LEMMA TypedRealtimeSend ==
    ASSUME StreamTyped, NEW l \in Loop, RealtimeSend(l)
    PROVE  StreamTyped'
<1>1. outbound' \in [Conn -> UpTo(Message, Cap)]
  <2>1. rt[l].pc = "send" /\ rt[l].conn \in Conn /\ Live(rt[l].k) \in Message
    BY InRt DEF RealtimeSend
  <2>2. outbound[rt[l].conn] \in UpTo(Message, Cap)
    BY <2>1 DEF StreamTyped
  <2>3. Len(outbound[rt[l].conn]) < Cap => Append(outbound[rt[l].conn], Live(rt[l].k)) \in UpTo(Message, Cap)
    BY <2>1, <2>2, Bounds, WithinBounds
  <2>4. Len(outbound[rt[l].conn]) >= Cap \/ Len(outbound[rt[l].conn]) < Cap
    BY <2>2, Bounds, WithinBounds
  <2>. QED
    BY <2>1, <2>3, <2>4 DEF RealtimeSend, Full, StreamTyped
<1>2. rt' \in [Loop -> {[pc |-> "idle"]} \cup RtEach \cup RtSend]
  BY RtNextTyped, InRt DEF RealtimeSend
<1>3. lossy' \in [Conn -> BOOLEAN]
  BY Bounds DEF RealtimeSend, RealtimeNext, Full, StreamTyped, RtEach, RtSend, tmuxVars, paneVars, histVars
<1>4. raced' \in [Conn -> BOOLEAN]
  BY Bounds DEF RealtimeSend, RealtimeNext, Full, StreamTyped, RtEach, RtSend, tmuxVars, paneVars, histVars
<1>. QED
  BY <1>1, <1>2, <1>3, <1>4 DEF RealtimeSend, StreamTyped, tmuxVars, paneVars, histVars

\* RealtimeHold keeps the types.
LEMMA TypedRealtimeHold ==
    ASSUME StreamTyped, NEW l \in Loop, NEW c \in Conn, RealtimeHold(l, c)
    PROVE  StreamTyped'
<1>1. pendingAppend' \in [Conn -> UpTo(Message, PendingLimit)]
  <2>1. Live(rt[l].k) \in Message
    BY InRt DEF RealtimeHold
  <2>2. pendingAppend[c] \in UpTo(Message, PendingLimit)
    BY DEF StreamTyped
  <2>3. CASE Len(pendingAppend[c]) < PendingLimit
    <3>1. Append(pendingAppend[c], Live(rt[l].k)) \in UpTo(Message, PendingLimit)
      BY <2>1, <2>2, <2>3, Bounds, WithinBounds
    <3>. QED
      BY <2>3, <3>1 DEF RealtimeHold, StreamTyped
  <2>4. CASE ~(Len(pendingAppend[c]) < PendingLimit)
    <3>1. pendingAppend[c] # <<>>
      BY <2>4, Bounds
    <3>2. Append(Tail(pendingAppend[c]), Live(rt[l].k)) \in UpTo(Message, PendingLimit)
      BY <2>1, <2>2, <3>1, Bounds, WithinBounds
    <3>. QED
      BY <2>4, <3>2 DEF RealtimeHold, StreamTyped
  <2>. QED
    BY <2>3, <2>4
<1>2. rt' \in [Loop -> {[pc |-> "idle"]} \cup RtEach \cup RtSend]
  BY RtNextTyped DEF RealtimeHold
<1>3. lossy' \in [Conn -> BOOLEAN]
  BY Bounds DEF RealtimeHold, RealtimeNext, StreamTyped, RtEach, RtSend, tmuxVars, paneVars, histVars
<1>. QED
  BY <1>1, <1>2, <1>3 DEF RealtimeHold, StreamTyped, tmuxVars, paneVars, histVars

\* RealtimePass keeps the types.
LEMMA TypedRealtimePass ==
    ASSUME StreamTyped, NEW l \in Loop, NEW c \in Conn, RealtimePass(l, c)
    PROVE  StreamTyped'
<1>1. rt' \in [Loop -> {[pc |-> "idle"]} \cup RtEach \cup RtSend]
  BY Bounds DEF RealtimePass, StreamTyped, RtEach, RtSend, UpTo, tmuxVars, paneVars, histVars
<1>. QED
  BY <1>1 DEF RealtimePass, StreamTyped, tmuxVars, paneVars, histVars

\* NotifyEndedSend keeps the types.
LEMMA TypedNotifyEndedSend ==
    ASSUME StreamTyped, NEW c \in Conn, NotifyEndedSend(c)
    PROVE  StreamTyped'
<1>1. closer' \in [pc : {"idle", "notify", "each", "unsub", "done"}, todo : SUBSET Conn, watching : SUBSET Conn]
  BY Bounds DEF NotifyEndedSend, Calling, StreamTyped, tmuxVars, paneVars, histVars
<1>2. call' \in [{"loop", "closer"} -> {NoCall} \cup CallState]
  BY Bounds, Kinds DEF NotifyEndedSend, Calling, StreamTyped, CallState, LoopState, NoCall, tmuxVars, paneVars, histVars
<1>. QED
  BY <1>1, <1>2 DEF NotifyEndedSend, StreamTyped, tmuxVars, paneVars, histVars

\* CloseUnsubscribe keeps the types.
LEMMA TypedCloseUnsubscribe ==
    ASSUME StreamTyped, NEW c \in Conn, CloseUnsubscribe(c)
    PROVE  StreamTyped'
<1>1. subscribers' \subseteq Conn /\ resetPending' \subseteq subscribers'
  BY Bounds DEF CloseUnsubscribe, Unsubscribe, StreamTyped, tmuxVars, paneVars, histVars
<1>2. pendingAppend' \in [Conn -> UpTo(Message, PendingLimit)]
  BY Bounds, Kinds DEF CloseUnsubscribe, Unsubscribe, StreamTyped, UpTo, tmuxVars, paneVars, histVars
<1>3. closer' \in [pc : {"idle", "notify", "each", "unsub", "done"}, todo : SUBSET Conn, watching : SUBSET Conn]
  BY Bounds DEF CloseUnsubscribe, Unsubscribe, StreamTyped, tmuxVars, paneVars, histVars
<1>4. outcome' \in [Conn -> Outcome]
  BY Bounds DEF CloseUnsubscribe, Unsubscribe, StreamTyped, Outcome, LoopState, Registering, tmuxVars, paneVars, histVars
<1>. QED
  BY <1>1, <1>2, <1>3, <1>4 DEF CloseUnsubscribe, Unsubscribe, StreamTyped, tmuxVars, paneVars, histVars

\* EnqueueTry keeps the types.
LEMMA TypedEnqueueTry ==
    ASSUME StreamTyped, NEW p \in {"loop", "closer"}, EnqueueTry(p)
    PROVE  StreamTyped'
<1>1. outbound' \in [Conn -> UpTo(Message, Cap)]
  <2>1. /\ call[p].conn \in Conn /\ call[p].msg \in Message /\ call[p].held \in Message
        /\ call[p] \in CallState
    BY InCall DEF EnqueueTry
  <2>2. outbound[call[p].conn] \in UpTo(Message, Cap)
    BY <2>1 DEF StreamTyped
  <2>3. Len(outbound[call[p].conn]) < Cap => Append(outbound[call[p].conn], call[p].msg) \in UpTo(Message, Cap)
    BY <2>1, <2>2, Bounds, WithinBounds
  <2>4. Len(outbound[call[p].conn]) >= Cap \/ Len(outbound[call[p].conn]) < Cap
    BY <2>2, Bounds, WithinBounds
  <2>. QED
    BY <2>1, <2>3, <2>4 DEF EnqueueTry, Full, StreamTyped
<1>2. call' \in [{"loop", "closer"} -> {NoCall} \cup CallState]
  <2>1. call[p] \in CallState
    BY InCall DEF EnqueueTry
  <2>2. [call[p] EXCEPT !.at = "pop"] \in CallState
    BY <2>1 DEF CallState
  <2>3. call' = [call EXCEPT ![p] = NoCall] \/ call' = [call EXCEPT ![p] = [call[p] EXCEPT !.at = "pop"]]
    BY DEF EnqueueTry, Return
  <2>. QED
    BY <2>2, <2>3 DEF StreamTyped
<1>3. lossy' \in [Conn -> BOOLEAN]
  BY Bounds DEF EnqueueTry, Return, Full, StreamTyped, CallState, NoCall, tmuxVars, paneVars, histVars
<1>. QED
  BY <1>1, <1>2, <1>3 DEF EnqueueTry, StreamTyped, tmuxVars, paneVars, histVars

\* EnqueuePop keeps the types.
LEMMA TypedEnqueuePop ==
    ASSUME StreamTyped, NEW p \in {"loop", "closer"}, EnqueuePop(p)
    PROVE  StreamTyped'
<1>1. outbound' \in [Conn -> UpTo(Message, Cap)]
  <2>1. call[p].conn \in Conn
    BY InCall DEF EnqueuePop
  <2>2. outbound[call[p].conn] \in UpTo(Message, Cap)
    BY <2>1 DEF StreamTyped
  <2>3. outbound[call[p].conn] # <<>> => Tail(outbound[call[p].conn]) \in UpTo(Message, Cap)
    BY <2>2, Bounds, WithinBounds
  <2>. QED
    BY <2>1, <2>3 DEF EnqueuePop, StreamTyped
<1>2. call' \in [{"loop", "closer"} -> {NoCall} \cup CallState]
  <2>1. call[p] \in CallState /\ call[p].conn \in Conn
    BY InCall DEF EnqueuePop
  <2>2. outbound[call[p].conn] \in Seq(Message)
    BY <2>1 DEF StreamTyped, UpTo
  <2>3. [call[p] EXCEPT !.at = "put"] \in CallState
    BY <2>1 DEF CallState
  <2>4. CASE call' = [call EXCEPT ![p] = [call[p] EXCEPT !.at = "put"]]
    BY <2>3, <2>4 DEF StreamTyped
  <2>5. CASE /\ outbound[call[p].conn] # <<>>
             /\ call' = [call EXCEPT ![p] = [call[p] EXCEPT !.at = "putback",
                                                           !.held = Head(outbound[call[p].conn])]]
    <3>1. Head(outbound[call[p].conn]) \in Message
      BY <2>2, <2>5
    <3>2. [call[p] EXCEPT !.at = "putback", !.held = Head(outbound[call[p].conn])] \in CallState
      BY <2>1, <3>1 DEF CallState
    <3>. QED
      BY <2>5, <3>2 DEF StreamTyped
  <2>. QED
    BY <2>4, <2>5 DEF EnqueuePop
<1>3. lossy' \in [Conn -> BOOLEAN]
  BY Bounds DEF EnqueuePop, Return, StreamTyped, CallState, NoCall, tmuxVars, paneVars, histVars
<1>. QED
  BY <1>1, <1>2, <1>3 DEF EnqueuePop, StreamTyped, tmuxVars, paneVars, histVars

\* EnqueuePutBack keeps the types.
LEMMA TypedEnqueuePutBack ==
    ASSUME StreamTyped, NEW p \in {"loop", "closer"}, EnqueuePutBack(p)
    PROVE  StreamTyped'
<1>1. outbound' \in [Conn -> UpTo(Message, Cap)]
  <2>1. /\ call[p].conn \in Conn /\ call[p].msg \in Message /\ call[p].held \in Message
        /\ call[p] \in CallState
    BY InCall DEF EnqueuePutBack
  <2>2. outbound[call[p].conn] \in UpTo(Message, Cap)
    BY <2>1 DEF StreamTyped
  <2>3. Len(outbound[call[p].conn]) < Cap => Append(outbound[call[p].conn], call[p].held) \in UpTo(Message, Cap)
    BY <2>1, <2>2, Bounds, WithinBounds
  <2>4. Len(outbound[call[p].conn]) >= Cap \/ Len(outbound[call[p].conn]) < Cap
    BY <2>2, Bounds, WithinBounds
  <2>. QED
    BY <2>1, <2>3, <2>4 DEF EnqueuePutBack, Full, StreamTyped
<1>2. call' \in [{"loop", "closer"} -> {NoCall} \cup CallState]
  BY Bounds, Kinds DEF EnqueuePutBack, Return, Full, StreamTyped, CallState, LoopState, NoCall, tmuxVars, paneVars, histVars
<1>3. lossy' \in [Conn -> BOOLEAN]
  BY Bounds DEF EnqueuePutBack, Return, Full, StreamTyped, CallState, NoCall, tmuxVars, paneVars, histVars
<1>. QED
  BY <1>1, <1>2, <1>3 DEF EnqueuePutBack, StreamTyped, tmuxVars, paneVars, histVars

\* EnqueuePut keeps the types.
LEMMA TypedEnqueuePut ==
    ASSUME StreamTyped, NEW p \in {"loop", "closer"}, EnqueuePut(p)
    PROVE  StreamTyped'
<1>1. outbound' \in [Conn -> UpTo(Message, Cap)]
  <2>1. /\ call[p].conn \in Conn /\ call[p].msg \in Message /\ call[p].held \in Message
        /\ call[p] \in CallState
    BY InCall DEF EnqueuePut
  <2>2. outbound[call[p].conn] \in UpTo(Message, Cap)
    BY <2>1 DEF StreamTyped
  <2>3. Len(outbound[call[p].conn]) < Cap => Append(outbound[call[p].conn], call[p].msg) \in UpTo(Message, Cap)
    BY <2>1, <2>2, Bounds, WithinBounds
  <2>4. Len(outbound[call[p].conn]) >= Cap \/ Len(outbound[call[p].conn]) < Cap
    BY <2>2, Bounds, WithinBounds
  <2>. QED
    BY <2>1, <2>3, <2>4 DEF EnqueuePut, Full, StreamTyped
<1>2. call' \in [{"loop", "closer"} -> {NoCall} \cup CallState]
  BY Bounds, Kinds DEF EnqueuePut, Return, Full, StreamTyped, CallState, LoopState, NoCall, tmuxVars, paneVars, histVars
<1>3. lossy' \in [Conn -> BOOLEAN]
  BY Bounds DEF EnqueuePut, Return, Full, StreamTyped, CallState, NoCall, tmuxVars, paneVars, histVars
<1>. QED
  BY <1>1, <1>2, <1>3 DEF EnqueuePut, StreamTyped, tmuxVars, paneVars, histVars

\* ConnSend keeps the types.
LEMMA TypedConnSend ==
    ASSUME StreamTyped, NEW c \in Conn, ConnSend(c)
    PROVE  StreamTyped'
<1>1. outbound' \in [Conn -> UpTo(Message, Cap)]
  BY Bounds, Kinds DEF ConnSend, StreamTyped, UpTo, tmuxVars, paneVars, histVars
<1>2. received' \in [Conn -> Seq(Message)]
  BY Bounds, Kinds DEF ConnSend, StreamTyped, UpTo, tmuxVars, paneVars, histVars
<1>3. sawEnded' \in [Conn -> BOOLEAN]
  BY Bounds DEF ConnSend, StreamTyped, tmuxVars, paneVars, histVars
<1>. QED
  BY <1>1, <1>2, <1>3 DEF ConnSend, StreamTyped, tmuxVars, paneVars, histVars

\* ConnSendFails keeps the types.
LEMMA TypedConnSendFails ==
    ASSUME StreamTyped, NEW c \in Conn, ConnSendFails(c)
    PROVE  StreamTyped'
<1>1. outbound' \in [Conn -> UpTo(Message, Cap)]
  BY Bounds, Kinds DEF ConnSendFails, StreamTyped, UpTo, tmuxVars, paneVars, histVars
<1>2. lossy' \in [Conn -> BOOLEAN]
  BY Bounds DEF ConnSendFails, StreamTyped, tmuxVars, paneVars, histVars
<1>. QED
  BY <1>1, <1>2 DEF ConnSendFails, StreamTyped, tmuxVars, paneVars, histVars

\* Every step keeps the types.
LEMMA TypedNext ==
    ASSUME StreamTyped, [Next]_vars
    PROVE  StreamTyped'
<1>1. CASE UNCHANGED vars
  BY <1>1 DEF vars, StreamTyped
<1>2. CASE TmuxOutput \/ TmuxExit
  BY <1>2, TypedTmuxOutput, TypedTmuxExit
<1>3. CASE \E c \in Conn, gap \in BOOLEAN : SelectPane(c, gap)
  BY <1>3, TypedSelectPane
<1>4. CASE \E c \in Conn : EvictWatch(c)
  BY <1>4, TypedEvictWatch
<1>5. CASE SubscribeStep
  BY <1>5, TypedSubscribeRegister, TypedSubscribeCapture, TypedSubscribeSend, TypedSubscribeClear,
     TypedSubscribeFlush, TypedSubscribeFailed, TypedSubscribeReturn, TypedSubscribeReturnError
     DEF SubscribeStep
<1>6. CASE \E l \in Loop : RealtimeStep(l)
  BY <1>6, TypedRealtimeTake, TypedRealtimeSend, TypedRealtimeHold, TypedRealtimePass DEF RealtimeStep
<1>7. CASE ClosePane \/ CloseStep
  BY <1>7, TypedClosePane, TypedNotifyEnded, TypedNotifyEndedReturn, TypedNotifyEndedSend,
     TypedCloseUnsubscribe DEF CloseStep
<1>8. CASE \E p \in {"loop", "closer"} : enqueuePaneMessage(p)
  BY <1>8, TypedEnqueueTry, TypedEnqueuePop, TypedEnqueuePutBack, TypedEnqueuePut DEF enqueuePaneMessage
<1>9. CASE \E c \in Conn : ConnSend(c) \/ ConnSendFails(c)
  BY <1>9, TypedConnSend, TypedConnSendFails
<1>. QED
  BY <1>1, <1>2, <1>3, <1>4, <1>5, <1>6, <1>7, <1>8, <1>9 DEF Next

-------------------------------------------------------------------------------
(* A chunk is in one place.                                                     *)

\* Steps that move no chunk.
LEMMA ChunksFrame ==
    ASSUME ChunksOnce, UNCHANGED <<printed, feed, loops, rt, broadcasted>>
    PROVE  ChunksOnce'
  BY DEF ChunksOnce, FeedNew, RtNew, Apart

\* Chunks of a feed are numbers.
LEMMA InFeed ==
    ASSUME StreamTyped
    PROVE  /\ printed \in Nat /\ loops \in Nat
           /\ \A l \in Loop : /\ feed[l] \in Seq(1..MaxOut) /\ l \in Nat
                              /\ \A i \in DOMAIN feed[l] : feed[l][i] \in Nat \ {0} /\ i \in Nat
                              /\ rt[l].pc # "idle" => rt[l].k \in Nat \ {0}
<1>1. \A l \in Loop : feed[l] \in Seq(1..MaxOut)
  BY DEF StreamTyped, UpTo
<1>2. ASSUME NEW l \in Loop PROVE \A i \in DOMAIN feed[l] : feed[l][i] \in 1..MaxOut /\ i \in Nat
  <2> DEFINE q == feed[l]
             S == 1..MaxOut
  <2>1. q \in Seq(S)
    BY <1>1
  <2>. HIDE DEF q, S
  <2>2. \A i \in DOMAIN q : q[i] \in S /\ i \in Nat
    BY <2>1
  <2>. QED
    BY <2>2 DEF q, S
<1>3. \A l \in Loop : rt[l].pc # "idle" => rt[l].k \in 1..MaxOut
  BY InRt
<1>4. printed \in 0..MaxOut /\ loops \in Loop /\ Loop = 1..MaxLoops
  BY Bounds DEF StreamTyped
<1>. QED
  BY <1>1, <1>2, <1>3, <1>4, Bounds

\* A chunk printed is new everywhere.
LEMMA ChunksTmuxOutput ==
    ASSUME StreamTyped, ChunksOnce, TmuxOutput
    PROVE  ChunksOnce'
<1>1. /\ printed' = printed + 1 /\ printed \in Nat /\ printed + 1 \in 1..MaxOut
      /\ loops' = loops /\ rt' = rt /\ broadcasted' = broadcasted /\ loops \in Loop
  BY InFeed, Bounds DEF TmuxOutput, tmuxVars, histVars, StreamTyped
<1>2. \A l \in Loop :
        /\ \A i \in DOMAIN feed'[l] :
              \/ i \in DOMAIN feed[l] /\ feed'[l][i] = feed[l][i]
              \/ l = loops /\ feed'[l][i] = printed + 1
        /\ \A i, j \in DOMAIN feed'[l] : i < j => i \in DOMAIN feed[l] /\ feed'[l][i] = feed[l][i]
        /\ l # loops => feed'[l] = feed[l]
  <2> TAKE l \in Loop
  <2>1. CASE feed'[l] = feed[l]
    BY <2>1
  <2>2. CASE l = loops /\ feed'[l] = Append(feed[l], printed + 1)
    <3> DEFINE q == feed[l]
               t == Append(q, printed + 1)
    <3>1. q \in Seq(1..MaxOut)
      BY InFeed
    <3>2. /\ DOMAIN q = 1..Len(q) /\ DOMAIN t = 1..(Len(q) + 1) /\ Len(q) \in Nat
          /\ \A i \in 1..Len(q) : t[i] = q[i]
          /\ t[Len(q) + 1] = printed + 1
      BY <1>1, <3>1, Appended
    <3>. HIDE DEF q, t
    <3>3. \A i \in DOMAIN t : (i \in DOMAIN q /\ t[i] = q[i]) \/ t[i] = printed + 1
      BY <3>2
    <3>4. \A i, j \in DOMAIN t : i < j => i \in DOMAIN q /\ t[i] = q[i]
      BY <3>2
    <3>. QED
      BY <2>2, <3>3, <3>4 DEF q, t
  <2>3. feed'[l] = feed[l] \/ (l = loops /\ feed'[l] = Append(feed[l], printed + 1))
    BY <1>1 DEF TmuxOutput, StreamTyped
  <2>. QED
    BY <2>1, <2>2, <2>3
<1>3. \A l \in Loop : \A i \in DOMAIN feed[l] : feed[l][i] \in Nat /\ feed[l][i] < printed + 1
  BY <1>1, InFeed DEF ChunksOnce, FeedNew
<1>4. \A l \in Loop : rt[l].pc # "idle" => rt[l].k \in Nat /\ rt[l].k < printed + 1
  BY <1>1, InFeed DEF ChunksOnce, RtNew
<1>5. broadcasted \subseteq 1..printed /\ printed + 1 \notin broadcasted
  BY <1>1 DEF ChunksOnce
<1>6. broadcasted' \subseteq 1..printed'
  BY <1>1, <1>5
<1> SUFFICES ASSUME NEW l \in Loop
             PROVE  /\ FeedNew(l)' /\ RtNew(l)'
                    /\ l > loops => feed'[l] = <<>> /\ rt[l].pc = "idle"
                    /\ \A m \in Loop \ {l} : Apart(l, m)'
  BY <1>1, <1>6 DEF ChunksOnce
<1>7. FeedNew(l)'
  <2> SUFFICES ASSUME NEW i \in DOMAIN feed'[l]
               PROVE  /\ feed'[l][i] <= printed + 1 /\ feed'[l][i] \notin broadcasted
                      /\ \A j \in DOMAIN feed'[l] : i < j => feed'[l][i] < feed'[l][j]
    BY <1>1 DEF FeedNew
  <2>0. FeedNew(l)
    BY DEF ChunksOnce
  <2>1. feed'[l][i] <= printed + 1 /\ feed'[l][i] \notin broadcasted
    BY <1>1, <1>2, <1>3, <1>5, <2>0 DEF FeedNew
  <2>2. ASSUME NEW j \in DOMAIN feed'[l], i < j PROVE feed'[l][i] < feed'[l][j]
    <3>1. i \in DOMAIN feed[l] /\ feed'[l][i] = feed[l][i]
      BY <1>2, <2>2
    <3>. QED
      BY <1>2, <1>3, <2>0, <2>2, <3>1 DEF FeedNew
  <2>. QED
    BY <2>1, <2>2
<1>8. RtNew(l)'
  <2>0. RtNew(l)
    BY DEF ChunksOnce
  <2>. QED
    BY <1>1, <1>2, <1>4, <2>0 DEF RtNew
<1>9. l > loops => feed'[l] = <<>> /\ rt[l].pc = "idle"
  <2>1. l > loops => l # loops
    BY <1>1, InFeed
  <2>. QED
    BY <1>2, <2>1 DEF ChunksOnce
<1>10. ASSUME NEW m \in Loop \ {l} PROVE Apart(l, m)'
  <2>0. Apart(l, m)
    BY DEF ChunksOnce
  <2>1. ASSUME NEW i \in DOMAIN feed'[l], NEW j \in DOMAIN feed'[m] PROVE feed'[l][i] # feed'[m][j]
    BY <1>2, <1>3, <2>0 DEF Apart
  <2>2. rt[m].pc # "idle" => \A i \in DOMAIN feed'[l] : feed'[l][i] # rt[m].k
    BY <1>2, <1>4, <2>0 DEF Apart
  <2>. QED
    BY <1>1, <2>0, <2>1, <2>2 DEF Apart
<1>. QED
  BY <1>7, <1>8, <1>9, <1>10

\* A realtimeLoop started by Subscribe has an empty channel.
LEMMA ChunksSubscribeReturn ==
    ASSUME StreamTyped, ChunksOnce, SubscribeReturn
    PROVE  ChunksOnce'
<1>1. /\ printed' = printed /\ feed' = feed /\ rt' = rt /\ broadcasted' = broadcasted
      /\ loops' = loops \/ loops' = loops + 1
  BY DEF SubscribeReturn, histVars
<1>2. \A l \in Loop : l > loops' => l > loops
  BY <1>1, InFeed
<1>. QED
  BY <1>1, <1>2 DEF ChunksOnce, FeedNew, RtNew, Apart

\* A chunk leaves the channel as its realtimeLoop takes it.
LEMMA ChunksRealtimeTake ==
    ASSUME StreamTyped, ChunksOnce, NEW l \in Loop, RealtimeTake(l)
    PROVE  ChunksOnce'
<1> DEFINE h == Head(feed[l])
<1>1. /\ printed' = printed /\ loops' = loops /\ printed \in Nat
      /\ rt[l].pc = "idle" /\ feed[l] # <<>> /\ l <= loops
  BY InFeed DEF RealtimeTake, ChunksOnce
<1>2. /\ \A m \in Loop : m # l => feed'[m] = feed[m] /\ rt'[m] = rt[m]
      /\ feed'[l] = Tail(feed[l])
  BY DEF RealtimeTake, StreamTyped
<1>3. /\ feed[l] \in Seq(1..MaxOut) /\ 1 \in DOMAIN feed[l] /\ h = feed[l][1] /\ h \in Nat \ {0}
      /\ \A i \in DOMAIN feed'[l] : /\ i \in Nat /\ i + 1 \in DOMAIN feed[l] /\ i + 1 # 1
                                    /\ feed'[l][i] = feed[l][i + 1]
  BY <1>1, <1>2, InFeed, Taken
<1>4. \/ rt' = rt /\ broadcasted' = broadcasted \cup {h}
      \/ /\ broadcasted' = broadcasted /\ rt'[l].pc = "each" /\ rt'[l].k = h
  BY DEF RealtimeTake, StreamTyped
<1>. HIDE DEF h
<1>5. FeedNew(l) /\ h <= printed /\ h \notin broadcasted
      /\ \A i \in DOMAIN feed'[l] : h < feed'[l][i]
  <2>1. FeedNew(l)
    BY DEF ChunksOnce
  <2>2. \A i \in DOMAIN feed'[l] : 1 < i + 1
    BY <1>3
  <2>. QED
    BY <1>3, <2>1, <2>2 DEF FeedNew
<1>6. broadcasted' \subseteq 1..printed
  <2>1. h \in 1..printed /\ broadcasted \subseteq 1..printed
    BY <1>1, <1>3, <1>5 DEF ChunksOnce
  <2>. QED
    BY <1>4, <2>1
<1>7. ASSUME NEW m \in Loop PROVE FeedNew(m)'
  <2>1. FeedNew(m) /\ (m # l => Apart(m, l))
    BY <1>7 DEF ChunksOnce
  <2>2. CASE m = l
    <3>1. \A i \in DOMAIN feed'[l] : /\ feed'[l][i] <= printed /\ feed'[l][i] \notin broadcasted
                                     /\ feed'[l][i] # h
      BY <1>3, <1>5, InFeed DEF FeedNew
    <3>2. \A i, j \in DOMAIN feed'[l] : i < j => feed'[l][i] < feed'[l][j]
      <4> SUFFICES ASSUME NEW i \in DOMAIN feed'[l], NEW j \in DOMAIN feed'[l], i < j
                   PROVE  feed'[l][i] < feed'[l][j]
        OBVIOUS
      <4>1. i + 1 < j + 1
        BY <1>3
      <4>. QED
        BY <1>3, <1>5, <4>1 DEF FeedNew
    <3>. QED
      BY <1>1, <1>4, <2>2, <3>1, <3>2 DEF FeedNew
  <2>3. CASE m # l
    <3>1. \A i \in DOMAIN feed[m] : feed[m][i] # h
      BY <1>3, <2>1, <2>3 DEF Apart
    <3>. QED
      BY <1>1, <1>2, <1>4, <2>1, <2>3, <3>1 DEF FeedNew
  <2>. QED
    BY <2>2, <2>3
<1>8. ASSUME NEW m \in Loop PROVE RtNew(m)'
  <2>1. RtNew(m) /\ (m # l => Apart(l, m))
    BY <1>8 DEF ChunksOnce
  <2>2. CASE m = l
    BY <1>1, <1>4, <1>5, <2>2 DEF RtNew
  <2>3. CASE m # l
    <3>1. rt[m].pc # "idle" => rt[m].k # h
      BY <1>3, <2>1, <2>3 DEF Apart
    <3>. QED
      BY <1>1, <1>2, <1>4, <2>1, <2>3, <3>1 DEF RtNew
  <2>. QED
    BY <2>2, <2>3
<1>9. ASSUME NEW m \in Loop, m > loops PROVE feed'[m] = <<>> /\ rt'[m].pc = "idle"
  <2>1. m # l
    BY <1>1, <1>9, InFeed
  <2>. QED
    BY <1>2, <1>9, <2>1 DEF ChunksOnce
<1>10. ASSUME NEW m \in Loop, NEW k \in Loop \ {m} PROVE Apart(m, k)'
  <2>1. Apart(m, k) /\ Apart(k, m)
    BY <1>10 DEF ChunksOnce
  <2>2. CASE m # l /\ k # l
    BY <1>2, <2>1, <2>2 DEF Apart
  <2>3. CASE m = l
    <3>1. k # l /\ feed'[k] = feed[k] /\ rt'[k] = rt[k]
      BY <1>2, <1>10, <2>3
    <3>. QED
      BY <1>1, <1>3, <1>4, <2>1, <2>3, <3>1 DEF Apart
  <2>4. CASE k = l
    <3>1. m # l /\ feed'[m] = feed[m] /\ rt'[m] = rt[m]
      BY <1>2, <1>10, <2>4
    <3>. QED
      BY <1>1, <1>3, <1>4, <2>1, <2>4, <3>1 DEF Apart
  <2>. QED
    BY <2>2, <2>3, <2>4
<1>. QED
  BY <1>1, <1>6, <1>7, <1>8, <1>9, <1>10 DEF ChunksOnce

\* The realtimeLoop is done with one connection, and perhaps with the chunk.
LEMMA ChunksNext ==
    ASSUME StreamTyped, ChunksOnce, NEW l \in Loop, rt[l].pc # "idle", NEW c \in Conn,
           RealtimeNext(l, c), UNCHANGED <<printed, feed, loops>>
    PROVE  ChunksOnce'
<1> DEFINE k == rt[l].k
<1>1. /\ \A m \in Loop : m # l => rt'[m] = rt[m]
      /\ \/ rt'[l].pc = "idle" /\ broadcasted' = broadcasted \cup {k}
         \/ rt'[l].pc = "each" /\ rt'[l].k = k /\ broadcasted' = broadcasted
  BY DEF RealtimeNext, StreamTyped
<1>2. k \in Nat \ {0} /\ printed \in Nat
  BY InFeed
<1>3. RtNew(l) /\ k <= printed /\ \A i \in DOMAIN feed[l] : k < feed[l][i]
  BY DEF ChunksOnce, RtNew
<1>4. \A i \in DOMAIN feed[l] : feed[l][i] # k
  BY <1>2, <1>3, InFeed
<1>. HIDE DEF k
<1>5. broadcasted' \subseteq 1..printed
  <2>1. k \in 1..printed /\ broadcasted \subseteq 1..printed
    BY <1>2, <1>3 DEF ChunksOnce
  <2>. QED
    BY <1>1, <2>1
<1>6. ASSUME NEW m \in Loop PROVE FeedNew(m)'
  <2>1. FeedNew(m) /\ (m # l => Apart(m, l))
    BY <1>6 DEF ChunksOnce
  <2>2. \A i \in DOMAIN feed[m] : feed[m][i] # k
    BY <1>4, <2>1 DEF Apart, k
  <2>. QED
    BY <1>1, <2>1, <2>2 DEF FeedNew
<1>7. ASSUME NEW m \in Loop PROVE RtNew(m)'
  <2>1. RtNew(m) /\ (m # l => Apart(m, l))
    BY <1>7 DEF ChunksOnce
  <2>2. CASE m = l
    BY <1>1, <1>3, <2>1, <2>2 DEF RtNew, k
  <2>3. CASE m # l
    <3>1. rt[m].pc # "idle" => rt[m].k # k
      BY <2>1, <2>3 DEF Apart, k
    <3>. QED
      BY <1>1, <2>1, <2>3, <3>1 DEF RtNew
  <2>. QED
    BY <2>2, <2>3
<1>8. ASSUME NEW m \in Loop, m > loops PROVE feed[m] = <<>> /\ rt'[m].pc = "idle"
  BY <1>1, <1>8 DEF ChunksOnce
<1>9. ASSUME NEW m \in Loop, NEW n \in Loop \ {m} PROVE Apart(m, n)'
  <2>1. Apart(m, n)
    BY <1>9 DEF ChunksOnce
  <2>. QED
    BY <1>1, <2>1 DEF Apart, k
<1>. QED
  BY <1>5, <1>6, <1>7, <1>8, <1>9 DEF ChunksOnce

\* A chunk let through stays with its realtimeLoop.
LEMMA ChunksRealtimePass ==
    ASSUME StreamTyped, ChunksOnce, NEW l \in Loop, NEW c \in Conn, RealtimePass(l, c)
    PROVE  ChunksOnce'
<1>1. /\ UNCHANGED <<printed, feed, loops, broadcasted>>
      /\ \A m \in Loop : m # l => rt'[m] = rt[m]
      /\ rt[l].pc = "each" /\ rt'[l].pc = "send" /\ rt'[l].k = rt[l].k
      /\ rt'[l].todo = rt[l].todo /\ rt'[l].conn = c /\ c \in rt[l].todo
  BY DEF RealtimePass, StreamTyped, tmuxVars, histVars
<1>2. \A m \in Loop : FeedNew(m)' /\ RtNew(m)'
  BY <1>1 DEF ChunksOnce, FeedNew, RtNew
<1>3. \A m \in Loop : m > loops => feed[m] = <<>> /\ rt'[m].pc = "idle"
  BY <1>1 DEF ChunksOnce
<1>4. \A m \in Loop : \A n \in Loop \ {m} : Apart(m, n)'
  BY <1>1 DEF ChunksOnce, Apart
<1>. QED
  BY <1>1, <1>2, <1>3, <1>4 DEF ChunksOnce

\* Every step keeps each chunk in one place.
LEMMA ChunksStep ==
    ASSUME StreamTyped, ChunksOnce, [Next]_vars
    PROVE  ChunksOnce'
<1>1. CASE UNCHANGED vars
  BY <1>1, ChunksFrame DEF vars
<1>2. CASE TmuxOutput
  BY <1>2, ChunksTmuxOutput
<1>3. CASE TmuxExit
  BY <1>3, ChunksFrame DEF TmuxExit, histVars
<1>4. CASE \E c \in Conn : \/ \E gap \in BOOLEAN : SelectPane(c, gap)
                           \/ EvictWatch(c) \/ ConnSend(c) \/ ConnSendFails(c)
  BY <1>4, ChunksFrame DEF SelectPane, EvictWatch, ConnSend, ConnSendFails, tmuxVars, histVars
<1>5. CASE SubscribeStep
  <2>1. CASE SubscribeReturn
    BY <2>1, ChunksSubscribeReturn
  <2>2. CASE SubscribeRegister \/ SubscribeCapture \/ SubscribeSend \/ SubscribeClear
    BY <2>2, ChunksFrame DEF SubscribeRegister, SubscribeCapture, SubscribeSend, SubscribeClear,
       tmuxVars, histVars
  <2>3. CASE SubscribeFlush \/ SubscribeFailed \/ SubscribeReturnError
    BY <2>3, ChunksFrame DEF SubscribeFlush, SubscribeFailed, SubscribeReturnError, tmuxVars, histVars
  <2>. QED
    BY <1>5, <2>1, <2>2, <2>3 DEF SubscribeStep
<1>6. CASE \E l \in Loop : RealtimeStep(l)
  <2>1. PICK l \in Loop : RealtimeStep(l)
    BY <1>6
  <2>2. CASE RealtimeTake(l)
    BY <2>2, ChunksRealtimeTake
  <2>3. CASE RealtimeSend(l)
    <3>1. rt[l].conn \in Conn /\ rt[l].pc # "idle"
      BY <2>3, InRt DEF RealtimeSend
    <3>. QED
      BY <2>3, <3>1, ChunksNext DEF RealtimeSend, tmuxVars
  <2>4. CASE \E c \in Conn : RealtimeHold(l, c)
    BY <2>4, ChunksNext DEF RealtimeHold, tmuxVars
  <2>5. CASE \E c \in Conn : RealtimePass(l, c)
    BY <2>5, ChunksRealtimePass
  <2>. QED
    BY <2>1, <2>2, <2>3, <2>4, <2>5 DEF RealtimeStep
<1>7. CASE ClosePane \/ CloseStep
  BY <1>7, ChunksFrame DEF ClosePane, CloseStep, NotifyEnded, NotifyEndedReturn, NotifyEndedSend,
     CloseUnsubscribe, tmuxVars, histVars
<1>8. CASE \E p \in {"loop", "closer"} : enqueuePaneMessage(p)
  BY <1>8, ChunksFrame DEF enqueuePaneMessage, EnqueueTry, EnqueuePop, EnqueuePutBack, EnqueuePut,
     tmuxVars, histVars
<1>. QED
  BY <1>1, <1>2, <1>3, <1>4, <1>5, <1>6, <1>7, <1>8 DEF Next

-------------------------------------------------------------------------------
(* Where Subscribe is.                                                          *)

\* Steps that leave Subscribe, its calls and what is held back alone.
LEMMA FootingFrame ==
    ASSUME LoopFooting, UNCHANGED <<resetPending, subscribers, outcome, loop, pendingAppend, call,
                                    lossy, printed>>
    PROVE  LoopFooting'
  BY DEF LoopFooting, HeldBack, HeldFrames, OutcomeFits, LoopCalls

\* Frames held back are the loop's to flush.
LEMMA HeldFrame ==
    ASSUME StreamTyped, LoopFooting, UNCHANGED pendingAppend,
           printed' = printed \/ printed' = printed + 1, NEW c \in Conn
    PROVE  HeldFrames(c)'
<1>1. pendingAppend[c] \in Seq(Message)
  BY DEF StreamTyped, UpTo
<1> DEFINE q == pendingAppend[c]
<1>2. \A i \in DOMAIN q : q[i] \in Message /\ q[i].n \in Nat /\ q[i].kind = "append" /\ q[i].n <= printed
  <2>1. \A i \in DOMAIN q : q[i].kind = "append" /\ q[i].n <= printed
    BY DEF LoopFooting, HeldFrames
  <2>2. \A i \in DOMAIN q : q[i] \in Message
    BY <1>1
  <2>3. \A m \in Message : m.n \in Nat
    BY Kinds, Bounds
  <2>. QED
    BY <2>1, <2>2, <2>3
<1>3. printed \in Nat
  BY InFeed
<1>4. q' = q
  OBVIOUS
<1>. HIDE DEF q
<1>5. \A i \in DOMAIN q : q[i].kind = "append" /\ q[i].n <= printed'
  BY <1>2, <1>3
<1>. QED
  BY <1>4, <1>5 DEF HeldFrames, q

\* A chunk printed is newer than what is held back.
LEMMA FootingTmuxOutput ==
    ASSUME StreamTyped, LoopFooting, TmuxOutput
    PROVE  LoopFooting'
<1>1. UNCHANGED <<resetPending, subscribers, outcome, loop, pendingAppend, call, lossy>>
      /\ printed' = printed + 1
  BY DEF TmuxOutput, paneVars, tmuxVars, histVars
<1>2. \A c \in Conn : HeldFrames(c)'
  BY <1>1, HeldFrame
<1>. QED
  BY <1>1, <1>2 DEF LoopFooting, HeldBack, OutcomeFits, LoopCalls

\* A Subscribe begins.
LEMMA FootingSelectPane ==
    ASSUME StreamTyped, LoopFooting, NEW c \in Conn, NEW gap \in BOOLEAN, SelectPane(c, gap)
    PROVE  LoopFooting'
<1>1. /\ UNCHANGED <<resetPending, subscribers, outcome, pendingAppend, call, lossy, printed>>
      /\ loop.pc = "idle" /\ loop'.pc = "register" /\ loop'.conn = c
  BY DEF SelectPane, paneVars, tmuxVars, histVars
<1>2. HeldBack' /\ LoopCalls' /\ loop'.pc \notin Registering
  BY <1>1 DEF LoopFooting, HeldBack, LoopCalls, Registering, Sending
<1>3. \A d \in Conn : HeldFrames(d)'
  BY <1>1, HeldFrame
<1>4. \A d \in Conn : OutcomeFits(d)'
  BY <1>1 DEF LoopFooting, OutcomeFits, Registering
<1>5. call'["closer"] # NoCall => call'["closer"].msg = Ended
  BY <1>1 DEF LoopFooting
<1>. QED
  BY <1>2, <1>3, <1>4, <1>5 DEF LoopFooting

\* Its connection is marked busy and waiting.
LEMMA FootingRegister ==
    ASSUME StreamTyped, LoopFooting, SubscribeRegister
    PROVE  LoopFooting'
<1> DEFINE c == loop.conn
<1>1. c \in Conn /\ loop.pc = "register"
  BY InLoop DEF SubscribeRegister
<1>2. /\ UNCHANGED <<call, printed>> /\ loop'.pc = "capture" /\ loop'.conn = c
      /\ subscribers' = subscribers \cup {c} /\ resetPending' = resetPending \cup {c}
      /\ outcome'[c] = "busy" /\ pendingAppend'[c] = <<>>
      /\ \A d \in Conn : d # c => outcome'[d] = outcome[d] /\ pendingAppend'[d] = pendingAppend[d]
  BY <1>1, InLoop DEF SubscribeRegister, StreamTyped, tmuxVars, LoopState
<1>. HIDE DEF c
<1>3. call["loop"] = NoCall /\ resetPending = {} /\ \A d \in Conn : outcome[d] # "busy"
  BY <1>1 DEF LoopFooting, HeldBack, LoopCalls, OutcomeFits, Registering, Sending
<1>4. HeldBack' /\ LoopCalls'
  BY <1>2, <1>3 DEF HeldBack, LoopCalls
<1>5. \A d \in Conn : HeldFrames(d)'
  <2> TAKE d \in Conn
  <2>1. CASE d = c
    BY <1>2, <2>1 DEF HeldFrames
  <2>2. CASE d # c
    BY <1>2, <2>2 DEF LoopFooting, HeldFrames
  <2>. QED
    BY <2>1, <2>2
<1>6. \A d \in Conn : OutcomeFits(d)'
  <2> TAKE d \in Conn
  <2>1. CASE d = c
    BY <1>2, <2>1 DEF OutcomeFits, Registering
  <2>2. CASE d # c
    BY <1>2, <1>3, <2>2 DEF LoopFooting, OutcomeFits, Registering
  <2>. QED
    BY <2>1, <2>2
<1>7. outcome'[loop'.conn] \in {"busy", "closed"}
  BY <1>1, <1>2
<1>8. call'["closer"] # NoCall => call'["closer"].msg = Ended
  BY <1>2 DEF LoopFooting
<1>. QED
  BY <1>4, <1>5, <1>6, <1>7, <1>8 DEF LoopFooting

\* The loop goes on with the same connection; nobody else's place changes.
LEMMA FootingMoves ==
    ASSUME StreamTyped, LoopFooting, loop.pc \in Registering, loop'.pc \in Registering,
           loop'.conn = loop.conn, UNCHANGED <<subscribers, outcome, printed, lossy>>,
           call'["closer"] = call["closer"],
           HeldBack', LoopCalls', \A d \in Conn : HeldFrames(d)',
           OutcomeFits(loop.conn)',
           \A d \in Conn : d # loop.conn => pendingAppend'[d] = pendingAppend[d]
    PROVE  LoopFooting'
<1>1. loop.conn \in Conn
  BY InLoop DEF Registering
<1>2. \A d \in Conn : d # loop.conn => OutcomeFits(d)'
  BY DEF LoopFooting, OutcomeFits
<1>. QED
  BY <1>1, <1>2 DEF LoopFooting

\* The capture leaves the frames of the snapshot to be sent, or fails.
LEMMA FootingCapture ==
    ASSUME StreamTyped, LoopFooting, SubscribeCapture
    PROVE  LoopFooting'
<1>1. /\ UNCHANGED <<resetPending, subscribers, outcome, pendingAppend, call, lossy, printed>>
      /\ loop.pc = "capture" /\ loop'.conn = loop.conn /\ loop.conn \in Conn
      /\ loop'.pc \in {"reset", "failed"}
      /\ loop'.pc = "reset" => loop'.todo = termOutputMessages(printed)
  <2>1. loop.pc = "capture" /\ loop \in LoopState /\ loop.conn \in Conn
    BY InLoop DEF SubscribeCapture
  <2>2. UNCHANGED <<resetPending, subscribers, outcome, pendingAppend, call, lossy, printed>>
    BY DEF SubscribeCapture, paneVars, tmuxVars
  <2>. HIDE DEF termOutputMessages
  <2>3. \/ loop' = [loop EXCEPT !.pc = "reset", !.todo = termOutputMessages(printed)]
        \/ loop' = [loop EXCEPT !.pc = "failed", !.missing = ~alive]
    BY DEF SubscribeCapture
  <2>4. loop'.conn = loop.conn /\ loop'.pc \in {"reset", "failed"}
        /\ (loop'.pc = "reset" => loop'.todo = termOutputMessages(printed))
    BY <2>1, <2>3 DEF LoopState
  <2>. QED
    BY <2>1, <2>2, <2>4
<1>2. call["loop"] = NoCall
  BY <1>1 DEF LoopFooting, LoopCalls, Sending
<1>3. loop'.pc = "reset" => \A i \in DOMAIN loop'.todo : loop'.todo[i].kind = "part"
                                                    \/ (loop'.todo[i].kind = "reset" /\ i = 1)
  <2>1. printed \in 0..MaxOut
    BY DEF StreamTyped
  <2> DEFINE q == termOutputMessages(printed)
  <2>2. q \in Seq(Message) /\ Head(q) = Reset(printed) /\ q # <<>>
        /\ \A i \in DOMAIN q : i # 1 => q[i] = Part(printed)
    BY <2>1, SnapshotFrames
  <2>. HIDE DEF q
  <2>3. q[1] = Reset(printed)
    BY <2>2, Taken
  <2>. QED
    BY <1>1, <2>1, <2>2, <2>3, Kinds DEF q
<1>4. HeldBack' /\ LoopCalls'
  BY <1>1, <1>2, <1>3 DEF LoopFooting, HeldBack, LoopCalls
<1>5. \A d \in Conn : HeldFrames(d)'
  BY <1>1, HeldFrame
<1>6. OutcomeFits(loop.conn)'
  BY <1>1 DEF LoopFooting, OutcomeFits, Registering
<1>. QED
  BY <1>1, <1>4, <1>5, <1>6, FootingMoves DEF Registering

\* The next frame is handed to a call.
LEMMA FootingSend ==
    ASSUME StreamTyped, LoopFooting, SubscribeSend
    PROVE  LoopFooting'
<1>1. /\ UNCHANGED <<resetPending, subscribers, outcome, pendingAppend, lossy, printed>>
      /\ loop.pc \in Sending /\ loop'.pc = loop.pc /\ loop'.conn = loop.conn /\ loop.conn \in Conn
      /\ loop'.todo = Tail(loop.todo) /\ loop.todo \in Seq(Message) /\ loop.todo # <<>>
      /\ call["loop"] = NoCall /\ call'["closer"] = call["closer"]
      /\ \/ call' = call
         \/ call'["loop"] = Calling(loop.conn, Head(loop.todo))
  <2>1. loop \in LoopState /\ loop.conn \in Conn /\ loop.todo \in Seq(Message)
    BY InLoop DEF SubscribeSend
  <2>2. UNCHANGED <<resetPending, subscribers, outcome, pendingAppend, lossy, printed>>
        /\ loop.pc \in Sending /\ loop.todo # <<>> /\ call["loop"] = NoCall
    BY DEF SubscribeSend, paneVars, tmuxVars, Sending
  <2>3. loop'.pc = loop.pc /\ loop'.conn = loop.conn /\ loop'.todo = Tail(loop.todo)
    BY <2>1 DEF SubscribeSend, LoopState
  <2>4. call'["closer"] = call["closer"]
        /\ (call' = call \/ call'["loop"] = Calling(loop.conn, Head(loop.todo)))
    BY DEF SubscribeSend, StreamTyped
  <2>. QED
    BY <2>1, <2>2, <2>3, <2>4
<1>2. /\ Head(loop.todo) = loop.todo[1] /\ 1 \in DOMAIN loop.todo
      /\ \A i \in DOMAIN loop'.todo : i + 1 \in DOMAIN loop.todo /\ i + 1 # 1
                                      /\ loop'.todo[i] = loop.todo[i + 1]
  BY <1>1, Taken
<1>3. LoopCalls'
  <2>1. call'["loop"] = NoCall \/ (/\ call'["loop"].conn = loop.conn /\ call'["loop"].at = "try"
                                   /\ call'["loop"].msg = loop.todo[1])
    BY <1>1, <1>2 DEF Calling
  <2>2. LoopCalls
    BY DEF LoopFooting
  <2>. QED
    BY <1>1, <1>2, <2>1, <2>2 DEF LoopCalls, Sending
<1>4. HeldBack' /\ OutcomeFits(loop.conn)'
  BY <1>1 DEF LoopFooting, HeldBack, OutcomeFits
<1>5. \A d \in Conn : HeldFrames(d)'
  BY <1>1, HeldFrame
<1>6. loop.pc \in Registering
  BY <1>1 DEF Sending, Registering
<1>. QED
  BY <1>1, <1>3, <1>4, <1>5, <1>6, FootingMoves

\* The connection no longer waits once the snapshot is out.
LEMMA FootingClear ==
    ASSUME StreamTyped, LoopFooting, SubscribeClear
    PROVE  LoopFooting'
<1>1. /\ UNCHANGED <<subscribers, outcome, pendingAppend, call, lossy, printed>>
      /\ loop.pc = "reset" /\ loop'.pc = "flush" /\ loop'.conn = loop.conn /\ loop.conn \in Conn
      /\ loop'.todo = <<>> /\ call["loop"] = NoCall /\ resetPending' = resetPending \ {loop.conn}
  BY InLoop DEF SubscribeClear, tmuxVars, LoopState
<1>2. HeldBack' /\ LoopCalls' /\ OutcomeFits(loop.conn)'
  BY <1>1 DEF LoopFooting, HeldBack, LoopCalls, OutcomeFits, Registering
<1>3. \A d \in Conn : HeldFrames(d)'
  BY <1>1, HeldFrame
<1>. QED
  BY <1>1, <1>2, <1>3, FootingMoves DEF Registering

\* What was held back is the rest to be sent.
LEMMA FootingFlush ==
    ASSUME StreamTyped, LoopFooting, SubscribeFlush
    PROVE  LoopFooting'
<1> DEFINE c == loop.conn
<1>1. /\ UNCHANGED <<subscribers, outcome, resetPending, call, lossy, printed>>
      /\ loop.pc = "flush" /\ loop'.pc = "pending" /\ loop'.conn = c /\ c \in Conn
      /\ loop'.todo = (IF loop.gap THEN <<>> ELSE pendingAppend[c])
      /\ pendingAppend'[c] = <<>> /\ \A d \in Conn : d # c => pendingAppend'[d] = pendingAppend[d]
  <2>1. loop \in LoopState /\ c \in Conn
    BY InLoop DEF SubscribeFlush
  <2>2. UNCHANGED <<subscribers, outcome, resetPending, call, lossy, printed>> /\ loop.pc = "flush"
    BY DEF SubscribeFlush, tmuxVars
  <2>3. loop'.pc = "pending" /\ loop'.conn = c
        /\ loop'.todo = (IF loop.gap THEN <<>> ELSE pendingAppend[c])
    BY <2>1 DEF SubscribeFlush, LoopState
  <2>4. pendingAppend'[c] = <<>> /\ \A d \in Conn : d # c => pendingAppend'[d] = pendingAppend[d]
    BY <2>1 DEF SubscribeFlush, StreamTyped
  <2>. QED
    BY <2>1, <2>2, <2>3, <2>4
<1>. HIDE DEF c
<1>2. call["loop"] = NoCall
  BY <1>1 DEF LoopFooting, LoopCalls, Sending
<1>3. \A i \in DOMAIN loop'.todo : loop'.todo[i].kind = "append"
  BY <1>1 DEF LoopFooting, HeldFrames
<1>4. HeldBack' /\ LoopCalls'
  BY <1>1, <1>2, <1>3 DEF LoopFooting, HeldBack, LoopCalls
<1>5. OutcomeFits(c)'
  <2>1. OutcomeFits(c)
    BY <1>1 DEF LoopFooting
  <2>2. c' = c
    BY <1>1 DEF c
  <2>. QED
    BY <1>1, <2>1, <2>2 DEF OutcomeFits, Registering
<1>6. \A d \in Conn : HeldFrames(d)'
  <2> TAKE d \in Conn
  <2>1. CASE d = c
    BY <1>1, <2>1 DEF HeldFrames
  <2>2. CASE d # c
    BY <1>1, <2>2 DEF LoopFooting, HeldFrames
  <2>. QED
    BY <2>1, <2>2
<1>. QED
  BY <1>1, <1>4, <1>5, <1>6, FootingMoves DEF Registering, c

\* A failed capture ends the waiting.
LEMMA FootingFailed ==
    ASSUME StreamTyped, LoopFooting, SubscribeFailed
    PROVE  LoopFooting'
<1>1. /\ UNCHANGED <<subscribers, outcome, pendingAppend, call, lossy, printed>>
      /\ loop.pc = "failed" /\ loop'.pc = "ending" /\ loop'.conn = loop.conn /\ loop.conn \in Conn
      /\ resetPending' = resetPending \ {loop.conn}
      /\ loop'.todo = <<>> \/ loop'.todo = <<Ended>>
  BY InLoop DEF SubscribeFailed, tmuxVars, LoopState
<1>2. call["loop"] = NoCall
  BY <1>1 DEF LoopFooting, LoopCalls, Sending
<1>3. \A i \in DOMAIN loop'.todo : loop'.todo[i].kind = "ended"
  <2>1. \A i \in DOMAIN <<Ended>> : <<Ended>>[i] = Ended
    OBVIOUS
  <2>. QED
    BY <1>1, <2>1, Kinds
<1>4. HeldBack' /\ LoopCalls' /\ OutcomeFits(loop.conn)'
  BY <1>1, <1>2, <1>3 DEF LoopFooting, HeldBack, LoopCalls, OutcomeFits, Registering
<1>5. \A d \in Conn : HeldFrames(d)'
  BY <1>1, HeldFrame
<1>. QED
  BY <1>1, <1>4, <1>5, FootingMoves DEF Registering

\* Subscribe returns, with or without an error.
LEMMA FootingReturn ==
    ASSUME StreamTyped, LoopFooting, SubscribeReturn \/ SubscribeReturnError
    PROVE  LoopFooting'
<1> DEFINE c == loop.conn
<1>1. /\ UNCHANGED <<subscribers, resetPending, pendingAppend, call, lossy, printed>>
      /\ loop.pc \in {"pending", "ending"} /\ loop'.pc = "idle" /\ c \in Conn /\ call["loop"] = NoCall
      /\ outcome'[c] # "busy" /\ (outcome'[c] \in {"ok", "gap"} => outcome[c] = "busy" /\ loop.pc = "pending")
      /\ \A d \in Conn : d # c => outcome'[d] = outcome[d]
  <2>1. c \in Conn /\ outcome[c] \in {"busy", "closed"}
    BY InLoop DEF SubscribeReturn, SubscribeReturnError, LoopFooting, Registering
  <2>2. CASE SubscribeReturn
    BY <2>1, <2>2 DEF SubscribeReturn, StreamTyped, paneVars
  <2>3. CASE SubscribeReturnError
    BY <2>1, <2>3 DEF SubscribeReturnError, StreamTyped, paneVars, tmuxVars
  <2>. QED
    BY <2>2, <2>3
<1>. HIDE DEF c
<1>2. HeldBack' /\ LoopCalls' /\ loop'.pc \notin Registering
  BY <1>1 DEF LoopFooting, HeldBack, LoopCalls, Registering
<1>3. \A d \in Conn : HeldFrames(d)'
  BY <1>1, HeldFrame
<1>4. \A d \in Conn : OutcomeFits(d)'
  <2> TAKE d \in Conn
  <2>1. CASE d = c
    BY <1>1, <2>1 DEF LoopFooting, OutcomeFits
  <2>2. CASE d # c
    <3>1. outcome[d] # "busy"
      BY <2>2 DEF LoopFooting, OutcomeFits, c
    <3>. QED
      BY <1>1, <2>2, <3>1 DEF LoopFooting, OutcomeFits
  <2>. QED
    BY <2>1, <2>2
<1>5. call'["closer"] # NoCall => call'["closer"].msg = Ended
  BY <1>1 DEF LoopFooting
<1>. QED
  BY <1>2, <1>3, <1>4, <1>5 DEF LoopFooting

\* A connection leaves the pane, on its own account or as the pane is closed.
LEMMA FootingUnsubscribe ==
    ASSUME StreamTyped, LoopFooting, NEW c \in Conn, Unsubscribe(c),
           UNCHANGED <<loop, call, lossy, printed>>,
           \A d \in Conn : d # c => outcome'[d] = outcome[d],
           outcome'[c] \notin {"busy", "ok", "gap"},
           loop.pc \in Registering /\ loop.conn = c => outcome'[c] = "closed"
    PROVE  LoopFooting'
<1>1. /\ subscribers' = subscribers \ {c} /\ resetPending' = resetPending \ {c}
      /\ pendingAppend'[c] = <<>> /\ \A d \in Conn : d # c => pendingAppend'[d] = pendingAppend[d]
  BY DEF Unsubscribe, StreamTyped
<1>2. HeldBack' /\ LoopCalls'
  BY <1>1 DEF LoopFooting, HeldBack, LoopCalls
<1>3. loop.pc \in Registering => outcome'[loop.conn] \in {"busy", "closed"}
  <2>1. loop.pc \in Registering => loop.conn \in Conn
    BY InLoop DEF Registering
  <2>. QED
    BY <2>1 DEF LoopFooting
<1>4. \A d \in Conn : HeldFrames(d)'
  <2> TAKE d \in Conn
  <2>1. CASE d = c
    BY <1>1, <2>1 DEF HeldFrames
  <2>2. CASE d # c
    BY <1>1, <2>2 DEF LoopFooting, HeldFrames
  <2>. QED
    BY <2>1, <2>2
<1>5. \A d \in Conn : OutcomeFits(d)'
  <2> TAKE d \in Conn
  <2>1. CASE d = c
    BY <1>1, <2>1 DEF OutcomeFits
  <2>2. CASE d # c
    BY <1>1, <2>2 DEF LoopFooting, OutcomeFits
  <2>. QED
    BY <2>1, <2>2
<1>. QED
  BY <1>2, <1>3, <1>4, <1>5 DEF LoopFooting

\* A chunk held back is an append frame that tmux has printed.
LEMMA FootingHold ==
    ASSUME StreamTyped, LoopFooting, ChunksOnce, NEW l \in Loop, NEW c \in Conn, RealtimeHold(l, c)
    PROVE  LoopFooting'
<1>1. /\ UNCHANGED <<subscribers, resetPending, outcome, loop, call, printed>>
      /\ c \in resetPending /\ rt[l].pc # "idle"
      /\ \A d \in Conn : d # c => pendingAppend'[d] = pendingAppend[d]
      /\ \A d \in Conn : lossy[d] => lossy'[d]
  BY DEF RealtimeHold, StreamTyped, tmuxVars
<1>2. loop.pc \in {"capture", "reset", "failed"} /\ loop.conn = c
  BY <1>1 DEF LoopFooting, HeldBack
<1>3. outcome[c] \in {"busy", "closed"}
  BY <1>2 DEF LoopFooting, Registering
<1>4. HeldFrames(c)'
  <2>1. rt[l].k <= printed /\ Live(rt[l].k) \in Message
        /\ Live(rt[l].k).kind = "append" /\ Live(rt[l].k).n = rt[l].k
    BY <1>1, InRt DEF ChunksOnce, RtNew, Live
  <2> DEFINE q == pendingAppend[c]
             e == Live(rt[l].k)
  <2>2. q \in Seq(Message) /\ \A i \in DOMAIN q : q[i].kind = "append" /\ q[i].n <= printed
    BY DEF StreamTyped, UpTo, LoopFooting, HeldFrames
  <2>3. \/ pendingAppend'[c] = Append(q, e)
        \/ q # <<>> /\ pendingAppend'[c] = Append(Tail(q), e)
    <3>1. Len(q) < PendingLimit \/ q # <<>>
      BY <2>2, Bounds
    <3>. QED
      BY <3>1 DEF RealtimeHold, StreamTyped
  <2>4. e.kind = "append" /\ e.n <= printed /\ e \in Message
    BY <2>1
  <2>. HIDE DEF q, e
  <2>5. q # <<>> => Tail(q) \in Seq(Message)
                    /\ \A i \in DOMAIN Tail(q) : Tail(q)[i].kind = "append" /\ Tail(q)[i].n <= printed
    BY <2>2, Taken
  <2>6. \A t \in Seq(Message) : (\A i \in DOMAIN t : t[i].kind = "append" /\ t[i].n <= printed)
          => \A i \in DOMAIN Append(t, e) : Append(t, e)[i].kind = "append" /\ Append(t, e)[i].n <= printed
    BY <2>4, Appended
  <2>7. \A i \in DOMAIN pendingAppend'[c] : pendingAppend'[c][i].kind = "append"
                                             /\ pendingAppend'[c][i].n <= printed
    BY <2>2, <2>3, <2>5, <2>6
  <2>. QED
    BY <1>1, <2>7 DEF HeldFrames
<1>5. \A d \in Conn : HeldFrames(d)'
  <2> TAKE d \in Conn
  <2>1. CASE d # c
    BY <1>1, <2>1 DEF LoopFooting, HeldFrames
  <2>. QED
    BY <1>4, <2>1
<1>6. HeldBack'
  BY <1>1 DEF LoopFooting, HeldBack
<1>7. LoopCalls'
  BY <1>1, InLoop, <1>2 DEF LoopFooting, LoopCalls, Sending
<1>8. \A d \in Conn : OutcomeFits(d)'
  <2> TAKE d \in Conn
  <2>1. CASE d = c
    BY <1>1, <1>2, <1>3, <2>1 DEF LoopFooting, OutcomeFits
  <2>2. CASE d # c
    BY <1>1, <2>2 DEF LoopFooting, OutcomeFits
  <2>. QED
    BY <2>1, <2>2
<1>. QED
  BY <1>1, <1>5, <1>6, <1>7, <1>8 DEF LoopFooting

\* The calls of the loop and of the closer end or go on; frames may get lost.
LEMMA FootingCalls ==
    ASSUME StreamTyped, LoopFooting, UNCHANGED <<resetPending, subscribers, outcome, loop, pendingAppend, printed>>,
           \A d \in Conn : lossy[d] => lossy'[d],
           \/ call'["loop"] = call["loop"] \/ call'["loop"] = NoCall
           \/ /\ call["loop"] # NoCall /\ call'["loop"].conn = call["loop"].conn
              /\ call'["loop"].msg = call["loop"].msg
              /\ call'["loop"].at = "putback" => lossy'[call["loop"].conn],
           \/ call'["closer"] = NoCall \/ call'["closer"].msg = Ended
           \/ call["closer"] # NoCall /\ call'["closer"].msg = call["closer"].msg
    PROVE  LoopFooting'
<1>1. HeldBack' /\ \A c \in Conn : HeldFrames(c)' /\ OutcomeFits(c)'
  BY DEF LoopFooting, HeldBack, HeldFrames, OutcomeFits
<1>2. call'["closer"] # NoCall => call'["closer"].msg = Ended
  BY DEF LoopFooting
<1>3. LoopCalls'
  <2>1. call["loop"] # NoCall => call["loop"].conn \in Conn
    BY InCall
  <2>2. LoopCalls
    BY DEF LoopFooting
  <2>. QED
    BY <2>1, <2>2 DEF LoopCalls
<1>. QED
  BY <1>1, <1>2, <1>3 DEF LoopFooting

\* A call goes on for the same frame and connection, or ends.
LEMMA FootingEnqueue ==
    ASSUME StreamTyped, LoopFooting, NEW p \in {"loop", "closer"}, enqueuePaneMessage(p)
    PROVE  LoopFooting'
<1>1. UNCHANGED <<resetPending, subscribers, outcome, loop, pendingAppend, printed>>
  BY DEF enqueuePaneMessage, EnqueueTry, EnqueuePop, EnqueuePutBack, EnqueuePut, paneVars, tmuxVars
<1>2. /\ call[p] # NoCall /\ call[p].conn \in Conn /\ call[p] \in CallState
  BY InCall DEF enqueuePaneMessage, EnqueueTry, EnqueuePop, EnqueuePutBack, EnqueuePut
<1>3. \A d \in Conn : lossy[d] => lossy'[d]
  BY <1>2 DEF enqueuePaneMessage, EnqueueTry, EnqueuePop, EnqueuePutBack, EnqueuePut, StreamTyped
<1>4. /\ \A o \in {"loop", "closer"} : o # p => call'[o] = call[o]
      /\ \/ call'[p] = NoCall
         \/ /\ call'[p].conn = call[p].conn /\ call'[p].msg = call[p].msg
            /\ call'[p].at = "putback" => lossy'[call[p].conn]
  <2>1. CASE EnqueueTry(p)
    BY <1>2, <2>1 DEF EnqueueTry, Return, StreamTyped, CallState
  <2>2. CASE EnqueuePop(p)
    BY <1>2, <2>2 DEF EnqueuePop, StreamTyped, CallState
  <2>3. CASE EnqueuePutBack(p)
    BY <2>3 DEF EnqueuePutBack, Return, StreamTyped
  <2>4. CASE EnqueuePut(p)
    BY <2>4 DEF EnqueuePut, Return, StreamTyped
  <2>. QED
    BY <2>1, <2>2, <2>3, <2>4 DEF enqueuePaneMessage
<1>. QED
  BY <1>1, <1>2, <1>3, <1>4, FootingCalls

\* Every step keeps to the course of Subscribe.
LEMMA FootingStep ==
    ASSUME StreamTyped, ChunksOnce, LoopFooting, [Next]_vars
    PROVE  LoopFooting'
<1>1. CASE UNCHANGED vars
  BY <1>1, FootingFrame DEF vars
<1>2. CASE TmuxOutput
  BY <1>2, FootingTmuxOutput
<1>3. CASE TmuxExit
  BY <1>3, FootingFrame DEF TmuxExit, paneVars
<1>4. CASE \E c \in Conn, gap \in BOOLEAN : SelectPane(c, gap)
  BY <1>4, FootingSelectPane
<1>5. ASSUME NEW c \in Conn, EvictWatch(c) PROVE LoopFooting'
  <2>1. /\ Unsubscribe(c) /\ UNCHANGED <<loop, call, lossy, printed>> /\ loop.pc = "idle"
        /\ outcome'[c] = "evicted" /\ \A d \in Conn : d # c => outcome'[d] = outcome[d]
    BY <1>5 DEF EvictWatch, StreamTyped, tmuxVars
  <2>. QED
    BY <2>1, FootingUnsubscribe DEF Registering
<1>6. ASSUME NEW c \in Conn, CloseUnsubscribe(c) PROVE LoopFooting'
  <2>1. /\ Unsubscribe(c) /\ UNCHANGED <<loop, call, lossy, printed>>
        /\ outcome'[c] = (IF outcome[c] \in {"busy", "ok", "gap"} THEN "closed" ELSE outcome[c])
        /\ \A d \in Conn : d # c => outcome'[d] = outcome[d]
    BY <1>6 DEF CloseUnsubscribe, StreamTyped, tmuxVars
  <2>2. loop.pc \in Registering /\ loop.conn = c => outcome'[c] = "closed"
    BY <2>1 DEF LoopFooting
  <2>. QED
    BY <2>1, <2>2, FootingUnsubscribe
<1>7. CASE \E c \in Conn : ConnSend(c) \/ ConnSendFails(c)
  <2>1. /\ UNCHANGED <<resetPending, subscribers, outcome, loop, pendingAppend, call, printed>>
        /\ \A d \in Conn : lossy[d] => lossy'[d]
    BY <1>7 DEF ConnSend, ConnSendFails, StreamTyped, paneVars, tmuxVars
  <2>. QED
    BY <2>1, FootingCalls DEF LoopFooting
<1>8. CASE SubscribeStep
  BY <1>8, FootingRegister, FootingCapture, FootingSend, FootingClear, FootingFlush, FootingFailed,
     FootingReturn DEF SubscribeStep
<1>9. ASSUME NEW l \in Loop, RealtimeStep(l) PROVE LoopFooting'
  <2>1. CASE RealtimeTake(l) \/ \E c \in Conn : RealtimePass(l, c)
    BY <2>1, FootingFrame DEF RealtimeTake, RealtimePass, paneVars, tmuxVars
  <2>2. CASE RealtimeSend(l)
    <3>1. /\ UNCHANGED <<resetPending, subscribers, outcome, loop, pendingAppend, call, printed>>
          /\ \A d \in Conn : lossy[d] => lossy'[d]
      BY <2>2 DEF RealtimeSend, StreamTyped, paneVars, tmuxVars
    <3>. QED
      BY <3>1, FootingCalls DEF LoopFooting
  <2>3. CASE \E c \in Conn : RealtimeHold(l, c)
    BY <2>3, FootingHold
  <2>. QED
    BY <1>9, <2>1, <2>2, <2>3 DEF RealtimeStep
<1>10. CASE ClosePane \/ NotifyEnded \/ NotifyEndedReturn
  BY <1>10, FootingFrame DEF ClosePane, NotifyEnded, NotifyEndedReturn, paneVars, tmuxVars
<1>11. ASSUME NEW c \in Conn, NotifyEndedSend(c) PROVE LoopFooting'
  <2>1. /\ UNCHANGED <<resetPending, subscribers, outcome, loop, pendingAppend, printed, lossy>>
        /\ call'["loop"] = call["loop"] /\ call'["closer"].msg = Ended
    BY <1>11 DEF NotifyEndedSend, Calling, StreamTyped, paneVars, tmuxVars
  <2>. QED
    BY <2>1, FootingCalls
<1>12. CASE \E p \in {"loop", "closer"} : enqueuePaneMessage(p)
  BY <1>12, FootingEnqueue
<1>. QED
  BY <1>1, <1>2, <1>3, <1>4, <1>5, <1>6, <1>7, <1>8, <1>9, <1>10, <1>11, <1>12 DEF Next, CloseStep

-------------------------------------------------------------------------------
(* Streams are whole.                                                           *)

\* A sequence in two parts, the frame between them, and a new frame at its end.
LEMMA Joined ==
    ASSUME NEW S, NEW a \in Seq(S), NEW b \in Seq(S)
    PROVE  /\ a \o b \in Seq(S)
           /\ \A e \in S : a \o Append(b, e) = Append(a \o b, e)
           /\ b # <<>> => /\ Append(a, Head(b)) \o Tail(b) = a \o b
                          /\ <<Head(b)>> \o Tail(b) = b
<1>1. a \o b \in Seq(S) /\ \A e \in S : a \o Append(b, e) = Append(a \o b, e)
  OBVIOUS
<1>2. ASSUME b # <<>> PROVE <<Head(b)>> \o Tail(b) = b
  BY <1>2
<1>3. ASSUME b # <<>> PROVE Append(a, Head(b)) \o Tail(b) = a \o b
  <2>1. Head(b) \in S /\ Tail(b) \in Seq(S) /\ Append(a, Head(b)) = a \o <<Head(b)>>
    BY <1>3
  <2>2. (a \o <<Head(b)>>) \o Tail(b) = a \o (<<Head(b)>> \o Tail(b))
    BY <2>1
  <2>. QED
    BY <1>2, <1>3, <2>1, <2>2
<1>. QED
  BY <1>1, <1>2, <1>3

\* Streams are sequences of frames.
LEMMA StreamIs ==
    ASSUME StreamTyped, NEW c \in Conn
    PROVE  /\ received[c] \in Seq(Message) /\ outbound[c] \in Seq(Message)
           /\ pendingAppend[c] \in Seq(Message) /\ Stream(c) \in Seq(Message)
           /\ Stream(c) = received[c] \o outbound[c]
           /\ \A m : Count(Stream(c), m) \in Nat /\ Count(pendingAppend[c], m) \in Nat
           /\ \A m : loop.pc # "idle" => Count(loop.todo, m) \in Nat
<1>1. received[c] \in Seq(Message) /\ outbound[c] \in Seq(Message) /\ pendingAppend[c] \in Seq(Message)
  BY DEF StreamTyped, UpTo
<1>2. Stream(c) = received[c] \o outbound[c]
  BY DEF Stream
<1>3. Stream(c) \in Seq(Message)
  BY <1>1, <1>2, Joined
<1>4. loop.pc # "idle" => loop.todo \in Seq(Message)
  BY InLoop
<1>. QED
  BY <1>1, <1>2, <1>3, <1>4, CountType

\* How many frames a connection has or will get is a number.
LEMMA FramesType ==
    ASSUME StreamTyped, NEW c \in Conn, NEW m
    PROVE  Frames(c, m) \in Nat
<1>1. Count(Stream(c), m) \in Nat /\ Count(pendingAppend[c], m) \in Nat
  BY StreamIs
<1>2. Busy(c) => Count(loop.todo, m) \in Nat
  BY StreamIs DEF Busy
<1>. QED
  BY <1>1, <1>2 DEF Frames

\* Whatever does not reach a connection leaves its frames as they are.
LEMMA FramesSame ==
    ASSUME NEW c \in Conn, received'[c] = received[c], outbound'[c] = outbound[c],
           pendingAppend'[c] = pendingAppend[c],
           \/ /\ loop' = loop /\ (call'["loop"] = NoCall <=> call["loop"] = NoCall)
              /\ call["loop"] # NoCall => call'["loop"].msg = call["loop"].msg
           \/ ~Busy(c) /\ ~Busy(c)'
    PROVE  /\ Awaiting(c)' <=> Awaiting(c)
           /\ Stream(c)' = Stream(c) /\ Snapshot(c)' = Snapshot(c)
           /\ \A m : Frames(c, m)' = Frames(c, m)
<1>1. Stream(c)' = Stream(c)
  BY DEF Stream
<1>2. CASE ~Busy(c) /\ ~Busy(c)'
  <2>1. ~Awaiting(c) /\ ~Awaiting(c)'
    BY <1>2 DEF Awaiting, Busy
  <2>. QED
    BY <1>1, <1>2, <2>1 DEF Snapshot, Frames
<1>3. CASE /\ loop' = loop /\ (call'["loop"] = NoCall <=> call["loop"] = NoCall)
           /\ call["loop"] # NoCall => call'["loop"].msg = call["loop"].msg
  <2>1. (Awaiting(c)' <=> Awaiting(c)) /\ (Busy(c)' <=> Busy(c))
    BY <1>3 DEF Awaiting, Busy
  <2>2. Snapshot(c)' = Snapshot(c)
    BY <1>1, <1>3, <2>1 DEF Snapshot
  <2>3. \A m : Frames(c, m)' = Frames(c, m)
    BY <1>1, <1>3, <2>1 DEF Frames
  <2>. QED
    BY <1>1, <2>1, <2>2, <2>3
<1>. QED
  BY <1>2, <1>3

\* What has to be shown of a step to keep a stream whole.
LEMMA WholeStep ==
    ASSUME NEW c \in Conn, StreamTyped, Whole(c), printed' = printed \/ printed' = printed + 1,
           Snapshot(c)' = Snapshot(c), ~Awaiting(c)' => LastReset(Stream(c))' > 0,
           Snapshot(c) \in 0..MaxOut,
           \A n \in 0..MaxOut : Frames(c, Part(n))' = Frames(c, Part(n)),
           \A k \in 1..MaxOut : k > Snapshot(c) =>
              \/ Frames(c, Live(k))' = Frames(c, Live(k)) /\ (Done(k, c)' <=> Done(k, c))
              \/ Frames(c, Live(k))' = Frames(c, Live(k)) + 1 /\ ~Done(k, c) /\ Done(k, c)',
           Awaiting(c)' => \A l \in Loop : rt'[l].pc = "send" /\ rt'[l].conn = c
                                             => rt'[l].k <= Snapshot(c)
    PROVE  Whole(c)'
<1> DEFINE n == Snapshot(c)
<1>1. n' = n
  OBVIOUS
<1>2. n' <= printed'
  <2>1. printed \in Nat /\ n \in Nat /\ n <= printed
    BY InFeed, Bounds DEF Whole
  <2>. QED
    BY <1>1, <2>1
<1>3. Frames(c, Part(n))' = ResetFrames - 1
  <2>1. \A i \in 0..MaxOut : i = Snapshot(c) => Frames(c, Part(i)) = ResetFrames - 1
    BY DEF Whole
  <2>2. \A i \in 0..MaxOut : i = Snapshot(c) => Frames(c, Part(i))' = ResetFrames - 1
    BY <2>1
  <2>. QED
    BY <1>1, <2>2
<1>4. ASSUME NEW k \in 1..MaxOut, k > Snapshot(c)
      PROVE  Frames(c, Live(k))' = IF Done(k, c)' THEN 1 ELSE 0
  <2>1. Frames(c, Live(k)) = IF Done(k, c) THEN 1 ELSE 0
    BY <1>4 DEF Whole
  <2>. QED
    BY <1>4, <2>1
<1>. QED
  BY <1>1, <1>2, <1>3, <1>4 DEF Whole

\* The snapshot of a whole stream is a number.
LEMMA SnapshotIs ==
    ASSUME NEW c \in Conn, StreamTyped, LoopFooting, ~Awaiting(c) => LastReset(Stream(c)) > 0
    PROVE  Snapshot(c) \in 0..MaxOut
<1>1. CASE Awaiting(c) /\ call["loop"] # NoCall
  BY <1>1, InCall, Kinds DEF Snapshot
<1>2. CASE Awaiting(c) /\ call["loop"] = NoCall
  <2>1. loop.todo \in Seq(Message) /\ loop.todo # <<>>
    BY <1>2, InLoop DEF Awaiting
  <2>2. Head(loop.todo) \in Message
    BY <2>1, Taken
  <2>. QED
    BY <1>2, <2>2, Kinds DEF Snapshot
<1>3. CASE ~Awaiting(c)
  <2> DEFINE s == Stream(c)
  <2>1. s \in Seq(Message) /\ LastReset(s) > 0
    BY <1>3, StreamIs
  <2>. HIDE DEF s
  <2>2. LastReset(s) \in DOMAIN s
    BY <2>1, LastResetIs
  <2>3. s[LastReset(s)] \in Message
    BY <2>1, <2>2
  <2>4. Snapshot(c) = s[LastReset(s)].n
    BY <1>3 DEF Snapshot, s
  <2>. QED
    BY <2>3, <2>4, Kinds
<1>. QED
  BY <1>1, <1>2, <1>3

\* A step that does not reach the connection, nor the realtimeLoops.
LEMMA WholeFrame ==
    ASSUME NEW c \in Conn, StreamTyped, LoopFooting, Whole(c),
           printed' = printed \/ printed' = printed + 1,
           UNCHANGED <<rt, broadcasted>>,
           received'[c] = received[c], outbound'[c] = outbound[c],
           pendingAppend'[c] = pendingAppend[c],
           \/ /\ loop' = loop /\ (call'["loop"] = NoCall <=> call["loop"] = NoCall)
              /\ call["loop"] # NoCall => call'["loop"].msg = call["loop"].msg
           \/ ~Busy(c) /\ ~Busy(c)'
    PROVE  Whole(c)'
<1>1. /\ Awaiting(c)' <=> Awaiting(c)
      /\ Stream(c)' = Stream(c) /\ Snapshot(c)' = Snapshot(c)
      /\ \A m : Frames(c, m)' = Frames(c, m)
  BY FramesSame
<1>2. \A k : Done(k, c)' <=> Done(k, c)
  BY DEF Done
<1>3. Snapshot(c) \in 0..MaxOut /\ (~Awaiting(c)' => LastReset(Stream(c))' > 0)
  BY <1>1, SnapshotIs DEF Whole
<1>4. Awaiting(c)' => \A l \in Loop : rt'[l].pc = "send" /\ rt'[l].conn = c
                                        => rt'[l].k <= Snapshot(c)
  BY <1>1 DEF Whole
<1>. QED
  BY <1>1, <1>2, <1>3, <1>4, WholeStep

\* The loop works on another connection.
LEMMA WholeElsewhere ==
    ASSUME NEW c \in Conn, StreamTyped, LoopFooting, FramesWhole, Sound(c)',
           UNCHANGED <<rt, broadcasted, printed>>, loop.pc # "idle", loop.conn # c,
           loop'.pc = "idle" \/ loop'.conn = loop.conn,
           received'[c] = received[c], outbound'[c] = outbound[c],
           pendingAppend'[c] = pendingAppend[c],
           outcome'[c] = outcome[c], lossy'[c] = lossy[c]
    PROVE  Whole(c)'
<1>1. Sound(c)
  BY DEF Sound, LoopFooting, OutcomeFits
<1>2. ~Busy(c) /\ ~Busy(c)'
  BY DEF Busy
<1>. QED
  BY <1>1, <1>2, WholeFrame DEF FramesWhole

\* A frame that is nowhere in a sequence counts 0.
LEMMA CountAbsent ==
    ASSUME NEW s, NEW x, \A i \in DOMAIN s : s[i] # x
    PROVE  Count(s, x) = 0
<1>1. After(s, x) = {}
  BY DEF After
<1>. QED
  BY <1>1, CountNone

\* The capture: what was held back so far is older than the snapshot.
LEMMA WholeCapture ==
    ASSUME NEW c \in Conn, StreamTyped, ChunksOnce, LoopFooting, SubscribeCapture, loop.conn = c,
           Sound(c)'
    PROVE  Whole(c)'
<1> DEFINE q == termOutputMessages(printed)
<1>1. /\ loop'.pc = "reset" /\ loop'.todo = q /\ loop'.conn = c /\ call' = call
      /\ call["loop"] = NoCall /\ pendingAppend' = pendingAppend
      /\ UNCHANGED <<rt, broadcasted, printed>>
  <2>1. loop.pc = "capture" /\ loop \in LoopState
    BY InLoop DEF SubscribeCapture
  <2>2. /\ call' = call /\ pendingAppend' = pendingAppend /\ outcome' = outcome
        /\ UNCHANGED <<rt, broadcasted, printed>>
    BY DEF SubscribeCapture, paneVars, tmuxVars, histVars
  <2>3. call["loop"] = NoCall /\ outcome[c] # "ok"
    BY <2>1 DEF LoopFooting, LoopCalls, Registering, Sending
  <2>4. loop'.pc \in {"reset", "flush", "pending"}
    BY <2>2, <2>3 DEF Sound
  <2>. HIDE DEF q
  <2>5. \/ loop' = [loop EXCEPT !.pc = "reset", !.todo = q]
        \/ loop' = [loop EXCEPT !.pc = "failed", !.missing = ~alive]
    BY DEF SubscribeCapture, q
  <2>6. loop'.pc = "reset" /\ loop'.todo = q /\ loop'.conn = c
    BY <2>1, <2>4, <2>5 DEF LoopState
  <2>. QED
    BY <2>2, <2>3, <2>6
<1>2. printed \in 0..MaxOut /\ printed \in Nat
  BY Bounds DEF StreamTyped
<1>3. /\ q # <<>> /\ Head(q) = Reset(printed) /\ Count(q, Part(printed)) = ResetFrames - 1
      /\ \A k \in 1..MaxOut : Count(q, Live(k)) = 0
  BY <1>2, SnapshotFrames
<1>. HIDE DEF q
<1>4. Awaiting(c)' /\ Busy(c)' /\ Snapshot(c)' = printed
  <2>1. Awaiting(c)' /\ Busy(c)'
    BY <1>1, <1>2, <1>3, Kinds DEF Awaiting, Busy
  <2>. QED
    BY <1>1, <1>2, <1>3, <2>1, Kinds DEF Snapshot
<1>5. \A m : Frames(c, m)' = Count(q, m) + Count(pendingAppend[c], m)
  <2>1. \A m : Frames(c, m)' = 0 + Count(q, m) + Count(pendingAppend[c], m)
    BY <1>1, <1>4 DEF Frames
  <2>2. q \in Seq(Message)
    BY <1>2, SnapshotFrames DEF q
  <2>3. \A m : Count(q, m) \in Nat
    BY <2>2, CountType
  <2>. QED
    BY <2>1, <2>3
<1>6. Count(pendingAppend[c], Part(printed)) = 0
      /\ \A k \in 1..MaxOut : k > printed => Count(pendingAppend[c], Live(k)) = 0
  <2>1. \A i \in DOMAIN pendingAppend[c] :
           pendingAppend[c][i].kind = "append" /\ pendingAppend[c][i].n <= printed
    BY DEF LoopFooting, HeldFrames
  <2>2. Part(printed).kind = "part" /\ \A k : Live(k).n = k
    BY DEF Part, Live
  <2>3. \A i \in DOMAIN pendingAppend[c] : pendingAppend[c][i] # Part(printed)
    BY <2>1, <2>2
  <2>4. ASSUME NEW k \in 1..MaxOut, k > printed
        PROVE  \A i \in DOMAIN pendingAppend[c] : pendingAppend[c][i] # Live(k)
    <3> SUFFICES ASSUME NEW i \in DOMAIN pendingAppend[c], pendingAppend[c][i] = Live(k)
                 PROVE  FALSE
      OBVIOUS
    <3>1. k <= printed
      BY <2>1, <2>2
    <3>. QED
      BY <1>2, <2>4, <3>1
  <2>. QED
    BY <2>3, <2>4, CountAbsent
<1>7. \A k \in 1..MaxOut : k > printed => ~Done(k, c)'
  <2> SUFFICES ASSUME NEW k \in 1..MaxOut, k > printed, Done(k, c)'
               PROVE  FALSE
    OBVIOUS
  <2>1. k \in broadcasted \/ \E l \in Loop : rt[l].pc # "idle" /\ rt[l].k = k
    BY <1>1 DEF Done
  <2>2. k <= printed
    BY <2>1, <1>2 DEF ChunksOnce, RtNew
  <2>. QED
    BY <1>2, <2>2
<1>8. \A l \in Loop : rt'[l].pc = "send" /\ rt'[l].conn = c => rt'[l].k <= printed
  BY <1>1 DEF ChunksOnce, RtNew
<1>9. Frames(c, Part(printed))' = ResetFrames - 1
  BY <1>3, <1>5, <1>6, <1>1, Bounds
<1>10. \A k \in 1..MaxOut : k > printed => Frames(c, Live(k))' = 0
  BY <1>3, <1>5, <1>6
<1>11. Frames(c, Part(Snapshot(c)))' = ResetFrames - 1
  BY <1>9, <1>4, <1>1
<1>. QED
  BY <1>1, <1>2, <1>4, <1>7, <1>8, <1>10, <1>11 DEF Whole

\* Sending a frame moves it from the frames to come into the call.
LEMMA SendEffect ==
    ASSUME NEW c \in Conn, StreamTyped, LoopFooting, SubscribeSend, loop.conn = c, Sound(c)'
    PROVE  /\ Sound(c) /\ UNCHANGED <<rt, broadcasted, printed, received, outbound, pendingAppend>>
           /\ UNCHANGED <<lossy, raced, outcome, feed, loops>>
           /\ loop.pc \in {"reset", "pending"} /\ loop'.pc = loop.pc /\ loop'.conn = c
           /\ call["loop"] = NoCall /\ call'["loop"] # NoCall
           /\ call'["loop"].msg = Head(loop.todo) /\ loop'.todo = Tail(loop.todo)
           /\ loop.todo \in Seq(Message) /\ loop.todo # <<>> /\ Head(loop.todo) \in Message
<1>1. loop \in LoopState /\ loop.todo \in Seq(Message) /\ loop.pc \in Sending
  BY InLoop DEF SubscribeSend, Sending
<1>2. /\ UNCHANGED <<rt, broadcasted, printed, received, outbound, pendingAppend>>
      /\ UNCHANGED <<lossy, raced, outcome, feed, loops>>
      /\ call["loop"] = NoCall /\ loop.todo # <<>>
  BY DEF SubscribeSend, paneVars, tmuxVars, histVars
<1>3. loop'.pc = loop.pc /\ loop'.conn = c /\ loop'.todo = Tail(loop.todo) /\ loop'.gap = loop.gap
  BY <1>1 DEF SubscribeSend, LoopState
<1>4. outcome[c] = "busy" /\ Sound(c) /\ loop.pc \in {"reset", "pending"}
  <2>1. outcome[c] # "ok"
    BY <1>1 DEF LoopFooting, Sending, Registering
  <2>. QED
    BY <1>1, <1>2, <1>3, <2>1 DEF Sound, Sending
<1>5. c \in subscribers
  BY <1>4 DEF LoopFooting, OutcomeFits
<1>6. call'["loop"] = Calling(c, Head(loop.todo))
  BY <1>5 DEF SubscribeSend, StreamTyped
<1>7. call'["loop"] # NoCall /\ call'["loop"].msg = Head(loop.todo)
  BY <1>6 DEF Calling, NoCall
<1>8. Head(loop.todo) \in Message
  BY <1>1, <1>2, Taken
<1>. QED
  BY <1>1, <1>2, <1>3, <1>4, <1>7, <1>8

\* Only the first frame to come may be the reset frame.
LEMMA ResetComesFirst ==
    ASSUME LoopFooting, loop.pc \in {"reset", "pending"}, loop.todo \in Seq(Message)
    PROVE  /\ \A i \in DOMAIN loop.todo : i # 1 => loop.todo[i].kind # "reset"
           /\ loop.todo # <<>> /\ Head(loop.todo).kind # "reset"
                => \A i \in DOMAIN loop.todo : loop.todo[i].kind # "reset"
           /\ loop.todo # <<>> /\ Head(loop.todo).kind = "reset"
                => loop.pc = "reset" /\ call["loop"] = NoCall
           /\ call["loop"] # NoCall =>
                /\ \A i \in DOMAIN loop.todo : loop.todo[i].kind # "reset"
                /\ call["loop"].msg.kind = "reset" => loop.pc = "reset"
<1>1. loop.todo # <<>> => Head(loop.todo) = loop.todo[1] /\ 1 \in DOMAIN loop.todo
  BY Taken
<1>2. LoopCalls
  BY DEF LoopFooting
<1>3. CASE loop.pc = "reset"
  BY <1>1, <1>2, <1>3 DEF LoopCalls
<1>4. CASE loop.pc = "pending"
  BY <1>1, <1>2, <1>4 DEF LoopCalls
<1>. QED
  BY <1>3, <1>4

\* A frame handed to a call is counted there and no longer among the rest.
LEMMA SendFrames ==
    ASSUME NEW c \in Conn, StreamTyped, LoopFooting, SubscribeSend, loop.conn = c, Sound(c)'
    PROVE  /\ Awaiting(c)' <=> Awaiting(c)
           /\ Awaiting(c) <=> Head(loop.todo).kind = "reset"
           /\ Stream(c)' = Stream(c) /\ Snapshot(c)' = Snapshot(c)
           /\ \A m : Frames(c, m)' = Frames(c, m)
<1> DEFINE q == loop.todo
<1>1. /\ UNCHANGED <<received, outbound, pendingAppend>>
      /\ loop.pc \in {"reset", "pending"} /\ loop'.pc = loop.pc /\ loop'.conn = c
      /\ call["loop"] = NoCall /\ call'["loop"] # NoCall
      /\ call'["loop"].msg = Head(q) /\ loop'.todo = Tail(q)
      /\ q \in Seq(Message) /\ q # <<>> /\ Head(q) \in Message
  BY SendEffect
<1>2. /\ \A i \in DOMAIN q : i # 1 => q[i].kind # "reset"
      /\ Head(q).kind # "reset" => \A i \in DOMAIN q : q[i].kind # "reset"
      /\ Head(q).kind = "reset" => loop.pc = "reset"
  BY <1>1, ResetComesFirst
<1>3. Stream(c)' = Stream(c)
  BY <1>1 DEF Stream
<1>4. Busy(c) /\ Busy(c)' /\ loop.conn = c /\ loop.todo = q
  BY <1>1 DEF Busy
<1>. HIDE DEF q
<1>5. Tail(q) # <<>> => Head(Tail(q)).kind # "reset"
  <2>1. Tail(q) \in Seq(Message) /\ \A i \in DOMAIN Tail(q) : Tail(q)[i].kind # "reset"
    BY <1>1, <1>2, Taken
  <2>2. Tail(q) # <<>> => Head(Tail(q)) = Tail(q)[1] /\ 1 \in DOMAIN Tail(q)
    BY <2>1, Taken
  <2>. QED
    BY <2>1, <2>2
<1>6. CASE Head(q).kind = "reset"
  <2>1. Awaiting(c) /\ Awaiting(c)'
    BY <1>1, <1>2, <1>4, <1>6 DEF Awaiting
  <2>2. Snapshot(c)' = Snapshot(c)
    BY <1>1, <1>4, <2>1 DEF Snapshot
  <2>3. \A m : Count(q, m) = Count(Tail(q), m)
    BY <1>1, <1>2, <1>6, TailOfReset
  <2>4. ASSUME NEW m PROVE Frames(c, m)' = Frames(c, m)
    <3>1. Frames(c, m) = 0 + Count(q, m) + Count(pendingAppend[c], m)
      BY <1>4, <2>1 DEF Frames
    <3>2. Frames(c, m)' = 0 + Count(Tail(q), m) + Count(pendingAppend[c], m)
      BY <1>1, <1>4, <2>1 DEF Frames
    <3>. QED
      BY <2>3, <3>1, <3>2
  <2>. QED
    BY <1>3, <1>4, <1>6, <2>1, <2>2, <2>4
<1>7. CASE Head(q).kind # "reset"
  <2>1. ~Awaiting(c) /\ ~Awaiting(c)'
    BY <1>1, <1>4, <1>5, <1>7 DEF Awaiting
  <2>2. Snapshot(c)' = Snapshot(c)
    BY <1>3, <2>1 DEF Snapshot
  <2>3. \A m : Count(q, m) = Count(Tail(q), m) + (IF Head(q) = m THEN 1 ELSE 0)
    BY <1>1, <1>2, <1>7, TailCounted
  <2>4. ASSUME NEW m PROVE Frames(c, m)' = Frames(c, m)
    <3>1. Frames(c, m) = Count(Stream(c), m) + 0 + Count(q, m) + Count(pendingAppend[c], m)
      BY <1>1, <1>4, <2>1 DEF Frames
    <3>2. Frames(c, m)' = Count(Stream(c), m) + (IF Head(q) = m THEN 1 ELSE 0)
                             + Count(Tail(q), m) + Count(pendingAppend[c], m)
      BY <1>1, <1>3, <1>4, <2>1 DEF Frames
    <3>3. /\ Count(Stream(c), m) \in Nat /\ Count(pendingAppend[c], m) \in Nat
          /\ Count(Tail(q), m) \in Nat
      BY <1>1, StreamIs, Taken, CountType
    <3>4. Count(q, m) = Count(Tail(q), m) + (IF Head(q) = m THEN 1 ELSE 0)
      BY <2>3
    <3>5. CASE Head(q) = m
      BY <3>1, <3>2, <3>3, <3>4, <3>5
    <3>6. CASE Head(q) # m
      BY <3>1, <3>2, <3>3, <3>4, <3>6
    <3>. QED
      BY <3>5, <3>6
  <2>. QED
    BY <1>3, <1>4, <1>7, <2>1, <2>2, <2>4
<1>. QED
  BY <1>6, <1>7 DEF q

\* A step that moves frames along, with nothing new from the realtimeLoops.
LEMMA WholeMoved ==
    ASSUME NEW c \in Conn, StreamTyped, LoopFooting, Whole(c), UNCHANGED <<rt, broadcasted, printed>>,
           Awaiting(c)' => Awaiting(c), Snapshot(c)' = Snapshot(c),
           ~Awaiting(c)' => LastReset(Stream(c))' > 0,
           \A m \in Message : m.kind \in {"part", "append"} => Frames(c, m)' = Frames(c, m)
    PROVE  Whole(c)'
<1>1. \A k : Done(k, c)' <=> Done(k, c)
  BY DEF Done
<1>2. Snapshot(c) \in 0..MaxOut /\ Snapshot(c) \in Nat
  BY SnapshotIs, Bounds DEF Whole
<1>3. \A n \in 0..MaxOut : Frames(c, Part(n))' = Frames(c, Part(n))
  BY Kinds
<1>4. \A k \in 1..MaxOut : Frames(c, Live(k))' = Frames(c, Live(k))
  <2>1. \A k \in 1..MaxOut : Live(k) \in Message /\ Live(k).kind = "append"
    BY Kinds, Bounds
  <2>. QED
    BY <2>1
<1>5. Awaiting(c)' => \A l \in Loop : rt'[l].pc = "send" /\ rt'[l].conn = c
                                        => rt'[l].k <= Snapshot(c)
  BY DEF Whole
<1>. QED
  BY <1>1, <1>2, <1>3, <1>4, <1>5, WholeStep

\* Handing the next frame to a call keeps the stream whole.
LEMMA WholeSend ==
    ASSUME NEW c \in Conn, StreamTyped, LoopFooting, FramesWhole, SubscribeSend, loop.conn = c,
           Sound(c)'
    PROVE  Whole(c)'
<1>1. Sound(c) /\ UNCHANGED <<rt, broadcasted, printed>>
  BY SendEffect
<1>2. Whole(c)
  BY <1>1 DEF FramesWhole
<1>3. /\ Awaiting(c)' <=> Awaiting(c)
      /\ Stream(c)' = Stream(c) /\ Snapshot(c)' = Snapshot(c)
      /\ \A m : Frames(c, m)' = Frames(c, m)
  BY SendFrames
<1>4. ~Awaiting(c)' => LastReset(Stream(c))' > 0
  BY <1>2, <1>3 DEF Whole
<1>. QED
  BY <1>1, <1>2, <1>3, <1>4, WholeMoved

\* Clearing the reset mark and returning leave all frames where they are.
LEMMA RestEffect ==
    ASSUME NEW c \in Conn, StreamTyped, LoopFooting, SubscribeClear \/ SubscribeReturn,
           loop.conn = c, Sound(c)'
    PROVE  /\ Sound(c) /\ UNCHANGED <<rt, broadcasted, printed, received, outbound, pendingAppend>>
           /\ UNCHANGED <<lossy, raced, feed, call>>
           /\ loop.pc \in {"reset", "pending"} /\ loop'.pc \in {"flush", "idle"}
           /\ loop.todo = <<>> /\ call["loop"] = NoCall
           /\ loop'.pc = "idle" \/ loop'.conn = c
           /\ loops' = loops \/ loops' = loops + 1
<1>1. CASE SubscribeClear
  <2>1. loop \in LoopState /\ loop.pc = "reset"
    BY <1>1, InLoop DEF SubscribeClear
  <2>2. /\ UNCHANGED <<rt, broadcasted, printed, received, outbound, pendingAppend>>
        /\ UNCHANGED <<lossy, raced, feed, call, loops, outcome>>
        /\ loop.todo = <<>> /\ call["loop"] = NoCall
    BY <1>1 DEF SubscribeClear, tmuxVars, histVars
  <2>3. loop'.pc = "flush" /\ loop'.conn = c /\ loop'.gap = loop.gap
    BY <1>1, <2>1 DEF SubscribeClear, LoopState
  <2>4. Sound(c)
    BY <2>1, <2>2, <2>3 DEF Sound
  <2>. QED
    BY <2>1, <2>2, <2>3, <2>4
<1>2. CASE SubscribeReturn
  <2>1. loop.pc = "pending" /\ outcome[c] \in {"busy", "closed"}
    BY <1>2 DEF SubscribeReturn, LoopFooting, Registering
  <2>2. /\ UNCHANGED <<rt, broadcasted, printed, received, outbound, pendingAppend>>
        /\ UNCHANGED <<lossy, raced, feed, call>>
        /\ loop.todo = <<>> /\ call["loop"] = NoCall /\ loop'.pc = "idle"
        /\ loops' = loops \/ loops' = loops + 1
    BY <1>2 DEF SubscribeReturn, paneVars, histVars
  <2>3. outcome'[c] = IF outcome[c] # "busy" THEN outcome[c] ELSE IF loop.gap THEN "gap" ELSE "ok"
    BY <1>2 DEF SubscribeReturn, StreamTyped
  <2>4. Sound(c)
    BY <2>1, <2>2, <2>3 DEF Sound
  <2>. QED
    BY <2>1, <2>2, <2>4
<1>. QED
  BY <1>1, <1>2

\* clearResetPending and the return of Subscribe move no frame.
LEMMA RestFrames ==
    ASSUME NEW c \in Conn, StreamTyped, LoopFooting, SubscribeClear \/ SubscribeReturn,
           loop.conn = c, Sound(c)'
    PROVE  /\ ~Awaiting(c)' /\ ~Awaiting(c) /\ ~Busy(c)' /\ Busy(c)
           /\ Stream(c)' = Stream(c) /\ Snapshot(c)' = Snapshot(c)
           /\ \A m : Frames(c, m)' = Frames(c, m)
<1>1. /\ UNCHANGED <<received, outbound, pendingAppend>>
      /\ loop.pc \in {"reset", "pending"} /\ loop'.pc \in {"flush", "idle"}
      /\ loop.todo = <<>> /\ call["loop"] = NoCall
  BY RestEffect
<1>2. ~Awaiting(c) /\ ~Awaiting(c)' /\ Busy(c) /\ ~Busy(c)'
  BY <1>1 DEF Awaiting, Busy
<1>3. Stream(c)' = Stream(c) /\ Snapshot(c)' = Snapshot(c)
  BY <1>1, <1>2 DEF Stream, Snapshot
<1>4. ASSUME NEW m PROVE Frames(c, m)' = Frames(c, m)
  <2>1. Frames(c, m) = Count(Stream(c), m) + 0 + Count(<<>>, m) + Count(pendingAppend[c], m)
    BY <1>1, <1>2 DEF Frames
  <2>2. Frames(c, m)' = Count(Stream(c), m) + 0 + 0 + Count(pendingAppend[c], m)
    BY <1>1, <1>2, <1>3 DEF Frames
  <2>. QED
    BY <2>1, <2>2, EmptyFrames
<1>. QED
  BY <1>2, <1>3, <1>4

\* clearResetPending and the return of Subscribe keep the stream whole.
LEMMA WholeRest ==
    ASSUME NEW c \in Conn, StreamTyped, LoopFooting, FramesWhole, SubscribeClear \/ SubscribeReturn,
           loop.conn = c, Sound(c)'
    PROVE  Whole(c)'
<1>1. Whole(c) /\ UNCHANGED <<rt, broadcasted, printed>>
  BY RestEffect DEF FramesWhole
<1>2. /\ Awaiting(c)' <=> Awaiting(c)
      /\ Stream(c)' = Stream(c) /\ Snapshot(c)' = Snapshot(c)
      /\ \A m : Frames(c, m)' = Frames(c, m)
  BY RestFrames
<1>3. ~Awaiting(c)' => LastReset(Stream(c))' > 0
  BY <1>1, <1>2 DEF Whole
<1>. QED
  BY <1>1, <1>2, <1>3, WholeMoved

\* The flush: the frames held back become the loop's to send.
LEMMA FlushEffect ==
    ASSUME NEW c \in Conn, StreamTyped, LoopFooting, SubscribeFlush, loop.conn = c, Sound(c)'
    PROVE  /\ Sound(c) /\ UNCHANGED <<rt, broadcasted, printed, received, outbound>>
           /\ UNCHANGED <<lossy, raced, feed, call, loops>>
           /\ loop.pc = "flush" /\ loop'.pc = "pending" /\ loop'.conn = c
           /\ loop'.todo = pendingAppend[c] /\ pendingAppend'[c] = <<>>
           /\ call["loop"] = NoCall
<1>1. loop \in LoopState /\ loop.pc = "flush"
  BY InLoop DEF SubscribeFlush
<1>2. /\ UNCHANGED <<rt, broadcasted, printed, received, outbound>>
      /\ UNCHANGED <<lossy, raced, feed, call, loops, outcome>>
  BY DEF SubscribeFlush, tmuxVars, histVars
<1>3. call["loop"] = NoCall /\ outcome[c] # "ok"
  BY <1>1 DEF LoopFooting, LoopCalls, Registering, Sending
<1>4. loop'.pc = "pending" /\ loop'.conn = c /\ loop'.gap = loop.gap
      /\ loop'.todo = IF loop.gap THEN <<>> ELSE pendingAppend[c]
  BY <1>1 DEF SubscribeFlush, LoopState
<1>5. pendingAppend'[c] = <<>>
  BY DEF SubscribeFlush, StreamTyped
<1>6. Sound(c) /\ ~loop.gap
  BY <1>1, <1>2, <1>3, <1>4 DEF Sound
<1>. QED
  BY <1>1, <1>2, <1>3, <1>4, <1>5, <1>6

\* The flush moves the frames held back to the rest to be sent.
LEMMA FlushFrames ==
    ASSUME NEW c \in Conn, StreamTyped, LoopFooting, SubscribeFlush, loop.conn = c, Sound(c)'
    PROVE  /\ ~Awaiting(c)' /\ ~Awaiting(c) /\ Busy(c)' /\ ~Busy(c)
           /\ Stream(c)' = Stream(c) /\ Snapshot(c)' = Snapshot(c)
           /\ \A m : Frames(c, m)' = Frames(c, m)
<1>1. /\ UNCHANGED <<received, outbound, call>>
      /\ loop.pc = "flush" /\ loop'.pc = "pending" /\ loop'.conn = c
      /\ loop'.todo = pendingAppend[c] /\ pendingAppend'[c] = <<>>
      /\ call["loop"] = NoCall
  BY FlushEffect
<1>2. ~Awaiting(c) /\ ~Awaiting(c)' /\ ~Busy(c) /\ Busy(c)'
  BY <1>1 DEF Awaiting, Busy
<1>3. Stream(c)' = Stream(c) /\ Snapshot(c)' = Snapshot(c)
  BY <1>1, <1>2 DEF Stream, Snapshot
<1>4. ASSUME NEW m PROVE Frames(c, m)' = Frames(c, m)
  <2>1. Frames(c, m) = Count(Stream(c), m) + 0 + 0 + Count(pendingAppend[c], m)
    BY <1>1, <1>2 DEF Frames
  <2>2. Frames(c, m)' = Count(Stream(c), m) + 0 + Count(pendingAppend[c], m) + Count(<<>>, m)
    BY <1>1, <1>2, <1>3 DEF Frames
  <2>3. Count(Stream(c), m) \in Nat /\ Count(pendingAppend[c], m) \in Nat
    BY StreamIs
  <2>4. Count(<<>>, m) = 0
    BY EmptyFrames
  <2>. QED
    BY <2>1, <2>2, <2>3, <2>4
<1>. QED
  BY <1>2, <1>3, <1>4

\* The flush keeps the stream whole.
LEMMA WholeFlush ==
    ASSUME NEW c \in Conn, StreamTyped, LoopFooting, FramesWhole, SubscribeFlush,
           loop.conn = c, Sound(c)'
    PROVE  Whole(c)'
<1>1. Whole(c) /\ UNCHANGED <<rt, broadcasted, printed>>
  BY FlushEffect DEF FramesWhole
<1>2. /\ Awaiting(c)' <=> Awaiting(c)
      /\ Stream(c)' = Stream(c) /\ Snapshot(c)' = Snapshot(c)
      /\ \A m : Frames(c, m)' = Frames(c, m)
  BY FlushFrames
<1>3. ~Awaiting(c)' => LastReset(Stream(c))' > 0
  BY <1>1, <1>2 DEF Whole
<1>. QED
  BY <1>1, <1>2, <1>3, WholeMoved

-------------------------------------------------------------------------------
(* The calls into the channels, and the senders.                                *)

\* Who has lost nothing after a step had lost nothing before.
LEMMA SoundBefore ==
    ASSUME NEW c \in Conn, UNCHANGED <<loop, outcome>>, lossy[c] => lossy'[c], Sound(c)'
    PROVE  Sound(c) /\ ~lossy'[c] /\ ~lossy[c]
  BY DEF Sound

\* The frame of a call reaches the channel of its connection.
PutMove(p, c) ==
    /\ call[p] # NoCall /\ call[p].conn = c
    /\ outbound'[c] = Append(outbound[c], call[p].msg)
    /\ call'[p] = NoCall /\ \A o \in {"loop", "closer"} : o # p => call'[o] = call[o]
    /\ received'[c] = received[c] /\ pendingAppend'[c] = pendingAppend[c] /\ UNCHANGED loop

\* A frame put is the last of its stream.
LEMMA PutFrames ==
    ASSUME NEW c \in Conn, StreamTyped, LoopFooting, NEW p \in {"loop", "closer"}, PutMove(p, c),
           Sound(c)
    PROVE  /\ Awaiting(c)' => Awaiting(c)
           /\ Stream(c)' = Append(Stream(c), call[p].msg) /\ call[p].msg \in Message
           /\ p = "loop" => Busy(c) /\ ~Awaiting(c)'
           /\ p = "closer" => call[p].msg = Ended /\ call'["loop"] = call["loop"]
           /\ Awaiting(c) /\ ~Awaiting(c)' => p = "loop" /\ call[p].msg.kind = "reset"
           /\ ~Awaiting(c) => call[p].msg.kind # "reset"
<1>1. Stream(c)' = Append(Stream(c), call[p].msg) /\ call[p].msg \in Message
  <2>1. received[c] \in Seq(Message) /\ outbound[c] \in Seq(Message) /\ call[p].msg \in Message
    BY StreamIs, InCall DEF PutMove
  <2>2. Stream(c)' = received[c] \o Append(outbound[c], call[p].msg)
    BY DEF Stream, PutMove
  <2> DEFINE a == received[c]
             b == outbound[c]
             m == call[p].msg
  <2>3. a \in Seq(Message) /\ b \in Seq(Message) /\ m \in Message
    BY <2>1
  <2>. HIDE DEF a, b, m
  <2>4. a \o Append(b, m) = Append(a \o b, m)
    BY <2>3, Joined
  <2>5. Stream(c) = a \o b
    BY DEF Stream, a, b
  <2>6. Stream(c)' = a \o Append(b, m)
    BY <2>2 DEF a, b, m
  <2>7. Stream(c)' = Append(Stream(c), m)
    BY <2>4, <2>5, <2>6
  <2>. QED
    BY <2>1, <2>7 DEF m
<1>2. CASE p = "closer"
  <2>1. call[p].msg = Ended /\ call'["loop"] = call["loop"] /\ loop' = loop
    BY <1>2 DEF PutMove, LoopFooting
  <2>2. Awaiting(c)' <=> Awaiting(c)
    BY <2>1 DEF Awaiting
  <2>. QED
    BY <1>1, <1>2, <2>1, <2>2, Kinds
<1>3. CASE p = "loop"
  <2>1. call["loop"] # NoCall /\ call'["loop"] = NoCall /\ loop' = loop /\ loop.conn = c
        /\ loop.pc \in Sending
    BY <1>3 DEF PutMove, LoopFooting, LoopCalls
  <2>2. outcome[c] # "ok"
    BY <2>1 DEF LoopFooting, Sending, Registering
  <2>3. loop.pc \in {"reset", "pending"} /\ loop.todo \in Seq(Message)
    BY <2>1, <2>2, InLoop DEF Sound, Sending
  <2>4. /\ \A i \in DOMAIN loop.todo : loop.todo[i].kind # "reset"
        /\ call["loop"].msg.kind = "reset" => loop.pc = "reset"
    BY <2>1, <2>3, ResetComesFirst
  <2>5. loop.todo # <<>> => Head(loop.todo).kind # "reset"
    BY <2>3, <2>4, Taken
  <2>6. Busy(c) /\ ~Awaiting(c)' /\ (Awaiting(c) <=> call["loop"].msg.kind = "reset")
    BY <2>1, <2>3, <2>4, <2>5 DEF Awaiting, Busy
  <2>. QED
    BY <1>1, <1>3, <2>6
<1>. QED
  BY <1>2, <1>3

\* A frame put was counted with its call, or is a pane.ended frame and not counted.
LEMMA WholePut ==
    ASSUME NEW c \in Conn, StreamTyped, LoopFooting, NEW p \in {"loop", "closer"}, PutMove(p, c),
           Sound(c), Whole(c), UNCHANGED <<rt, broadcasted, printed>>
    PROVE  Whole(c)'
<1> DEFINE s == Stream(c)
           m == call[p].msg
<1>1. /\ Awaiting(c)' => Awaiting(c)
      /\ s' = Append(s, m) /\ m \in Message /\ s \in Seq(Message)
      /\ p = "loop" => Busy(c) /\ ~Awaiting(c)'
      /\ p = "closer" => m = Ended /\ call'["loop"] = call["loop"]
      /\ Awaiting(c) /\ ~Awaiting(c)' => p = "loop" /\ m.kind = "reset"
      /\ ~Awaiting(c) => m.kind # "reset"
  BY PutFrames, StreamIs
<1>2. /\ call[p] # NoCall /\ call'[p] = NoCall /\ pendingAppend'[c] = pendingAppend[c]
      /\ loop' = loop /\ (Busy(c)' <=> Busy(c))
  BY DEF PutMove, Busy
<1>3. Stream(c) = s /\ Stream(c)' = s' /\ call[p].msg = m
  OBVIOUS
<1>. HIDE DEF s, m
<1>4. CASE Awaiting(c) /\ ~Awaiting(c)'
  <2>1. p = "loop" /\ m.kind = "reset" /\ Busy(c) /\ Busy(c)'
    BY <1>1, <1>2, <1>4
  <2>2. /\ LastReset(s') = Len(s) + 1 /\ s'[Len(s) + 1] = m
        /\ \A x : Count(s', x) = 0
    BY <1>1, <2>1, AppendReset
  <2>3. Snapshot(c)' = Snapshot(c)
    <3>1. Snapshot(c)' = m.n
      BY <1>3, <1>4, <2>2 DEF Snapshot
    <3>2. Snapshot(c) = m.n
      BY <1>2, <1>3, <1>4, <2>1 DEF Snapshot
    <3>. QED
      BY <3>1, <3>2
  <2>4. ASSUME NEW x \in Message PROVE Frames(c, x)' = Frames(c, x)
    <3>1. Frames(c, x) = 0 + Count(loop.todo, x) + Count(pendingAppend[c], x)
      BY <1>4, <2>1 DEF Frames
    <3>2. Frames(c, x)' = Count(s', x) + 0 + Count(loop.todo, x) + Count(pendingAppend[c], x)
      BY <1>2, <1>3, <1>4, <2>1 DEF Frames
    <3>. QED
      BY <2>2, <3>1, <3>2
  <2>5. LastReset(Stream(c))' > 0
    BY <1>1, <1>3, <2>2
  <2>. QED
    BY <2>3, <2>4, <2>5, <1>4, WholeMoved
<1>5. CASE Awaiting(c) /\ Awaiting(c)'
  <2>1. p = "closer" /\ call'["loop"] = call["loop"]
    BY <1>1, <1>5
  <2>2. Snapshot(c)' = Snapshot(c)
    BY <1>2, <1>5, <2>1 DEF Snapshot
  <2>3. \A x : Frames(c, x)' = Frames(c, x)
    BY <1>2, <1>5, <2>1 DEF Frames
  <2>. QED
    BY <2>2, <2>3, <1>5, WholeMoved
<1>6. CASE ~Awaiting(c)
  <2>1. ~Awaiting(c)' /\ m.kind # "reset"
    BY <1>1, <1>6
  <2>2. /\ LastReset(s') = LastReset(s)
        /\ LastReset(s) > 0 => s'[LastReset(s)] = s[LastReset(s)]
    BY <1>1, <2>1, AppendKeepsReset
  <2>3. LastReset(s) > 0
    BY <1>3, <1>6 DEF Whole
  <2>4. Snapshot(c)' = Snapshot(c)
    BY <1>3, <1>6, <2>1, <2>2, <2>3 DEF Snapshot
  <2>5. ASSUME NEW x \in Message, x.kind \in {"part", "append"} PROVE Frames(c, x)' = Frames(c, x)
    <3>1. Count(s', x) = Count(s, x) + (IF m = x THEN 1 ELSE 0)
      BY <1>1, <2>1, AppendCounted
    <3>2. Count(s, x) \in Nat /\ Count(pendingAppend[c], x) \in Nat
          /\ (Busy(c) => Count(loop.todo, x) \in Nat)
      BY <1>3, StreamIs DEF Busy
    <3>3. CASE p = "loop"
      <4>1. Frames(c, x) = Count(s, x) + (IF m = x THEN 1 ELSE 0) + Count(loop.todo, x)
                             + Count(pendingAppend[c], x)
        BY <1>1, <1>2, <1>3, <1>6, <3>3 DEF Frames
      <4>2. Frames(c, x)' = Count(s', x) + 0 + Count(loop.todo, x) + Count(pendingAppend[c], x)
        BY <1>1, <1>2, <1>3, <2>1, <3>3 DEF Frames
      <4>3. Count(loop.todo, x) \in Nat
        BY <1>1, <3>2, <3>3
      <4>4. CASE m = x
        BY <3>1, <3>2, <4>1, <4>2, <4>3, <4>4
      <4>5. CASE m # x
        BY <3>1, <3>2, <4>1, <4>2, <4>3, <4>5
      <4>. QED
        BY <4>4, <4>5
    <3>4. CASE p = "closer"
      <4>1. m # x
        BY <1>1, <2>5, <3>4, Kinds
      <4>2. Count(s', x) = Count(s, x)
        BY <3>1, <3>2, <4>1
      <4>. QED
        BY <1>1, <1>2, <1>3, <1>6, <2>1, <3>4, <4>2 DEF Frames
    <3>. QED
      BY <3>3, <3>4
  <2>6. LastReset(Stream(c))' > 0
    BY <1>3, <2>2, <2>3
  <2>. QED
    BY <2>1, <2>4, <2>5, <2>6, WholeMoved
<1>. QED
  BY <1>1, <1>4, <1>5, <1>6

\* What a call in progress may do to a connection that has lost nothing.
Untouched(c) ==
    /\ outbound'[c] = outbound[c]
    /\ \/ /\ call'["loop"] = NoCall <=> call["loop"] = NoCall
          /\ call["loop"] # NoCall => call'["loop"].msg = call["loop"].msg
       \/ ~Busy(c)
\* The oldest frame is taken out for a reset frame that is waited for.
PopMove(c) ==
    /\ Awaiting(c) /\ call["loop"] # NoCall /\ call'["loop"] # NoCall
    /\ call'["loop"].msg = call["loop"].msg

\* A call that loses nothing puts its frame, waits, or drops a superseded one.
LEMMA EnqueueEffect ==
    ASSUME NEW c \in Conn, StreamTyped, LoopFooting, NEW p \in {"loop", "closer"},
           enqueuePaneMessage(p), Sound(c)'
    PROVE  /\ Sound(c)
           /\ UNCHANGED <<rt, broadcasted, printed, received, pendingAppend, loop, raced, loops, feed>>
           /\ PutMove(p, c) \/ Untouched(c) \/ PopMove(c)
<1>1. UNCHANGED <<rt, broadcasted, printed, received, pendingAppend, loop, raced, loops, feed, outcome>>
  BY DEF enqueuePaneMessage, EnqueueTry, EnqueuePop, EnqueuePutBack, EnqueuePut, paneVars, tmuxVars,
     histVars
<1>2. call[p] # NoCall /\ call[p].conn \in Conn /\ call[p] \in CallState /\ call[p].msg \in Message
  BY InCall DEF enqueuePaneMessage, EnqueueTry, EnqueuePop, EnqueuePutBack, EnqueuePut
<1>3. lossy[c] => lossy'[c]
  BY <1>2 DEF enqueuePaneMessage, EnqueueTry, EnqueuePop, EnqueuePutBack, EnqueuePut, StreamTyped
<1>4. Sound(c) /\ ~lossy'[c]
  BY <1>1, <1>3, SoundBefore
<1>5. \A o \in {"loop", "closer"} : o # p => call'[o] = call[o]
  BY DEF enqueuePaneMessage, EnqueueTry, EnqueuePop, EnqueuePutBack, EnqueuePut, StreamTyped, Return
<1>6. CASE call[p].conn # c
  <2>1. outbound'[c] = outbound[c]
    BY <1>2, <1>6 DEF enqueuePaneMessage, EnqueueTry, EnqueuePop, EnqueuePutBack, EnqueuePut,
       StreamTyped
  <2>2. CASE p = "loop"
    BY <1>1, <1>2, <1>4, <1>6, <2>1, <2>2 DEF Untouched, Busy, LoopFooting, LoopCalls
  <2>3. CASE p = "closer"
    BY <1>1, <1>4, <1>5, <2>1, <2>3 DEF Untouched
  <2>. QED
    BY <2>2, <2>3
<1>7. CASE call[p].conn = c
  <2>1. received'[c] = received[c] /\ pendingAppend'[c] = pendingAppend[c] /\ UNCHANGED loop
    BY <1>1
  <2>2. CASE EnqueueTry(p)
    <3>1. CASE ~Full(c) /\ outbound' = [outbound EXCEPT ![c] = Append(@, call[p].msg)] /\ Return(p)
      <4>1. outbound'[c] = Append(outbound[c], call[p].msg) /\ call'[p] = NoCall
        BY <3>1 DEF Return, StreamTyped
      <4>. QED
        BY <1>1, <1>2, <1>4, <1>5, <1>7, <2>1, <4>1 DEF PutMove
    <3>2. CASE lossy' = [lossy EXCEPT ![c] = TRUE]
      BY <1>4, <3>2 DEF StreamTyped
    <3>3. CASE call' = [call EXCEPT ![p].at = "pop"] /\ UNCHANGED outbound
      <4>1. call'[p].msg = call[p].msg /\ call'[p] # NoCall
        BY <1>2, <3>3 DEF StreamTyped, CallState, NoCall
      <4>. QED
        BY <1>1, <1>2, <1>4, <1>5, <3>3, <4>1 DEF Untouched
    <3>. QED
      BY <1>7, <2>2, <3>1, <3>2, <3>3 DEF EnqueueTry
  <2>3. CASE EnqueuePop(p)
    <3>1. CASE lossy' = [lossy EXCEPT ![c] = TRUE]
      BY <1>4, <3>1 DEF StreamTyped
    <3>2. CASE call' = [call EXCEPT ![p].at = "put"]
      <4>1. call'[p].msg = call[p].msg /\ call'[p] # NoCall
        BY <1>2, <3>2 DEF StreamTyped, CallState, NoCall
      <4>2. CASE outbound' = outbound
        BY <1>1, <1>2, <1>4, <1>5, <4>1, <4>2 DEF Untouched
      <4>3. CASE lossy' = [lossy EXCEPT ![c] = @ \/ call[p].msg.kind # "reset"]
        <5>1. call[p].msg.kind = "reset"
          BY <1>4, <4>3 DEF StreamTyped
        <5>2. p = "loop"
          BY <1>2, <5>1, Kinds DEF LoopFooting
        <5>3. loop.pc \in {"reset", "pending", "ending"} /\ loop.conn = c
          BY <1>2, <1>7, <5>2 DEF LoopFooting, LoopCalls, Sending
        <5>4. loop.pc = "reset"
          BY <1>2, <5>1, <5>2, <5>3 DEF LoopFooting, LoopCalls
        <5>5. Awaiting(c)
          BY <1>2, <5>1, <5>2, <5>3, <5>4 DEF Awaiting
        <5>. QED
          BY <1>1, <1>2, <1>4, <4>1, <5>2, <5>5 DEF PopMove
      <4>. QED
        BY <1>7, <2>3, <3>2, <4>2, <4>3, <3>1 DEF EnqueuePop
    <3>. QED
      BY <1>7, <2>3, <3>1, <3>2 DEF EnqueuePop
  <2>4. CASE EnqueuePutBack(p)
    BY <1>4, <1>7, <2>4 DEF EnqueuePutBack, StreamTyped
  <2>5. CASE EnqueuePut(p)
    <3>1. ~Full(c)
      BY <1>4, <1>7, <2>5 DEF EnqueuePut, StreamTyped
    <3>2. outbound'[c] = Append(outbound[c], call[p].msg) /\ call'[p] = NoCall
      BY <1>7, <2>5, <3>1 DEF EnqueuePut, Return, StreamTyped
    <3>. QED
      BY <1>1, <1>2, <1>4, <1>5, <1>7, <2>1, <3>2 DEF PutMove
  <2>. QED
    BY <2>2, <2>3, <2>4, <2>5 DEF enqueuePaneMessage
<1>. QED
  BY <1>6, <1>7

\* A frame taken out of the channel for a reset frame no longer counted.
LEMMA PopFrames ==
    ASSUME NEW c \in Conn, PopMove(c), UNCHANGED <<loop, pendingAppend>>
    PROVE  /\ Awaiting(c) /\ Awaiting(c)' /\ Snapshot(c)' = Snapshot(c)
           /\ \A m : Frames(c, m)' = Frames(c, m)
<1>1. Awaiting(c) /\ Awaiting(c)' /\ (Busy(c)' <=> Busy(c))
  BY DEF PopMove, Awaiting, Busy
<1>2. Snapshot(c)' = Snapshot(c)
  BY <1>1 DEF Snapshot, PopMove
<1>3. \A m : Frames(c, m)' = Frames(c, m)
  BY <1>1 DEF Frames
<1>. QED
  BY <1>1, <1>2, <1>3

\* Calls keep streams whole.
LEMMA WholeEnqueue ==
    ASSUME NEW c \in Conn, StreamTyped, LoopFooting, FramesWhole, NEW p \in {"loop", "closer"},
           enqueuePaneMessage(p), Sound(c)'
    PROVE  Whole(c)'
<1>1. /\ Sound(c) /\ UNCHANGED <<rt, broadcasted, printed, received, pendingAppend, loop>>
      /\ PutMove(p, c) \/ Untouched(c) \/ PopMove(c)
  BY EnqueueEffect
<1>2. Whole(c)
  BY <1>1 DEF FramesWhole
<1>3. CASE PutMove(p, c)
  BY <1>1, <1>2, <1>3, WholePut
<1>4. CASE Untouched(c)
  <2>1. Busy(c)' <=> Busy(c)
    BY <1>1 DEF Busy
  <2>. QED
    BY <1>1, <1>2, <1>4, <2>1, WholeFrame DEF Untouched
<1>5. CASE PopMove(c)
  <2>1. /\ Awaiting(c) /\ Awaiting(c)' /\ Snapshot(c)' = Snapshot(c)
        /\ \A m : Frames(c, m)' = Frames(c, m)
    BY <1>1, <1>5, PopFrames
  <2>. QED
    BY <1>1, <1>2, <2>1, WholeMoved
<1>. QED
  BY <1>1, <1>3, <1>4, <1>5

\* The sender takes a frame out, and the browser has it.
LEMMA ConnSendStream ==
    ASSUME NEW c \in Conn, StreamTyped, ConnSend(c), ~lossy[c]
    PROVE  /\ \A x : Count(Stream(c)', x) = Count(Stream(c), x)
           /\ Lives(Stream(c)') = Lives(Stream(c))
           /\ Increasing(Stream(c)) => Increasing(Stream(c)')
           /\ LastReset(Stream(c)) > 0 =>
                 /\ LastReset(Stream(c)') > 0
                 /\ Stream(c)'[LastReset(Stream(c)')] = Stream(c)[LastReset(Stream(c))]
<1> DEFINE a == received[c]
           b == outbound[c]
<1>1. a \in Seq(Message) /\ b \in Seq(Message) /\ b # <<>> /\ Stream(c) = a \o b
  BY StreamIs DEF ConnSend
<1>2. Stream(c)' = (IF Head(b).kind = "reset" THEN <<Head(b)>> ELSE Append(a, Head(b))) \o Tail(b)
  <2>1. received'[c] = IF Head(b).kind = "reset" THEN <<Head(b)>> ELSE Append(a, Head(b))
    BY DEF ConnSend, StreamTyped
  <2>2. outbound'[c] = Tail(b)
    BY DEF ConnSend, StreamTyped
  <2>. QED
    BY <2>1, <2>2 DEF Stream
<1>. HIDE DEF a, b
<1>3. CASE Head(b).kind = "reset"
  <2>1. Stream(c)' = b
    BY <1>1, <1>2, <1>3, Joined
  <2>2. /\ \A x : Count(a \o b, x) = Count(b, x)
        /\ Lives(a \o b) = Lives(b) /\ (Increasing(a \o b) => Increasing(b))
        /\ LastReset(a \o b) > 0 /\ LastReset(b) > 0
        /\ (a \o b)[LastReset(a \o b)] = b[LastReset(b)]
    BY <1>1, <1>3, FromReset
  <2>. QED
    BY <1>1, <2>1, <2>2
<1>4. CASE Head(b).kind # "reset"
  <2>1. Append(a, Head(b)) \o Tail(b) = a \o b
    BY <1>1, Joined
  <2>2. Stream(c)' = Stream(c)
    BY <1>1, <1>2, <1>4, <2>1
  <2>. QED
    BY <2>2
<1>. QED
  BY <1>3, <1>4

\* The sender moves a frame from the channel to the browser.
LEMMA WholeConnSend ==
    ASSUME NEW c \in Conn, StreamTyped, LoopFooting, FramesWhole, NEW d \in Conn,
           ConnSend(d) \/ ConnSendFails(d), Sound(c)'
    PROVE  Whole(c)'
<1>1. /\ UNCHANGED <<rt, broadcasted, printed, pendingAppend, loop, call, outcome>>
      /\ lossy[c] => lossy'[c]
      /\ d # c => received'[c] = received[c] /\ outbound'[c] = outbound[c]
  BY DEF ConnSend, ConnSendFails, paneVars, tmuxVars, histVars, StreamTyped
<1>2. Sound(c) /\ ~lossy[c] /\ ~lossy'[c]
  BY <1>1, SoundBefore
<1>3. Whole(c)
  BY <1>2 DEF FramesWhole
<1>4. CASE d # c
  BY <1>1, <1>3, <1>4, WholeFrame
<1>5. CASE d = c
  <2>1. ConnSend(c)
    BY <1>2, <1>5 DEF ConnSendFails, StreamTyped
  <2>2. /\ \A x : Count(Stream(c)', x) = Count(Stream(c), x)
        /\ LastReset(Stream(c)) > 0 =>
                 /\ LastReset(Stream(c)') > 0
                 /\ Stream(c)'[LastReset(Stream(c)')] = Stream(c)[LastReset(Stream(c))]
    BY <1>2, <2>1, ConnSendStream
  <2>3. (Awaiting(c)' <=> Awaiting(c)) /\ (Busy(c)' <=> Busy(c))
    BY <1>1 DEF Awaiting, Busy
  <2>4. Snapshot(c)' = Snapshot(c)
    BY <1>1, <1>3, <2>2, <2>3 DEF Snapshot, Whole
  <2>5. \A m : Frames(c, m)' = Frames(c, m)
    BY <1>1, <2>2, <2>3 DEF Frames
  <2>6. ~Awaiting(c)' => LastReset(Stream(c))' > 0
    BY <1>3, <2>2, <2>3 DEF Whole
  <2>. QED
    BY <1>1, <1>3, <2>3, <2>4, <2>5, <2>6, WholeMoved
<1>. QED
  BY <1>4, <1>5

-------------------------------------------------------------------------------
(* The realtimeLoops.                                                           *)

\* A loop that is done with connection d leaves all else as it is.
LEMMA NextDone ==
    ASSUME NEW c \in Conn, NEW d \in Conn, NEW l \in Loop, StreamTyped, ChunksOnce,
           rt[l].pc # "idle", d \in rt[l].todo, RealtimeNext(l, d)
    PROVE  /\ \A k : d # c \/ k # rt[l].k => (Done(k, c)' <=> Done(k, c))
           /\ \A k : k = rt[l].k => ~Done(k, d) /\ Done(k, d)'
           /\ \A m \in Loop : rt'[m].pc = "send" => m # l /\ rt'[m] = rt[m]
<1> DEFINE k0 == rt[l].k
<1>1. \A m \in Loop : m # l => rt'[m] = rt[m]
  BY DEF RealtimeNext, StreamTyped
<1>2. \/ rt[l].todo = {d} /\ rt'[l].pc = "idle" /\ broadcasted' = broadcasted \cup {k0}
      \/ /\ rt[l].todo # {d} /\ broadcasted' = broadcasted
         /\ rt'[l].pc = "each" /\ rt'[l].k = k0 /\ rt'[l].todo = rt[l].todo \ {d}
  BY DEF RealtimeNext, StreamTyped
<1>3. \A m \in Loop : rt'[m].pc = "send" => m # l /\ rt'[m] = rt[m]
  BY <1>1, <1>2
<1>4. ~Done(k0, d)
  <2>1. k0 \notin broadcasted
    BY DEF ChunksOnce, RtNew
  <2>2. \A m \in Loop : m # l /\ rt[m].pc # "idle" => rt[m].k # k0
    BY DEF ChunksOnce, Apart
  <2>. QED
    BY <2>1, <2>2 DEF Done
<1>5. ASSUME NEW k, k = rt[l].k PROVE ~Done(k, d) /\ Done(k, d)'
  <2>1. CASE rt[l].todo = {d}
    BY <1>2, <1>4, <1>5, <2>1 DEF Done
  <2>2. CASE rt[l].todo # {d}
    <3>1. rt'[l].pc # "idle" /\ rt'[l].k = k /\ d \notin rt'[l].todo
      BY <1>2, <1>5, <2>2
    <3>. QED
      BY <1>4, <1>5, <3>1 DEF Done
  <2>. QED
    BY <2>1, <2>2
<1>7. ASSUME NEW k, d # c \/ k # rt[l].k PROVE Done(k, c)' <=> Done(k, c)
  <2>1. k \in broadcasted' <=> k \in broadcasted \/ (rt[l].todo = {d} /\ k = k0)
    BY <1>2
  <2>2. (\E m \in Loop : m # l /\ rt'[m].pc # "idle" /\ rt'[m].k = k /\ c \notin rt'[m].todo)
        <=> (\E m \in Loop : m # l /\ rt[m].pc # "idle" /\ rt[m].k = k /\ c \notin rt[m].todo)
    BY <1>1
  <2>3. Done(k, c) <=> \/ k \in broadcasted
                       \/ k0 = k /\ c \notin rt[l].todo
                       \/ \E m \in Loop : m # l /\ rt[m].pc # "idle" /\ rt[m].k = k /\ c \notin rt[m].todo
    BY DEF Done
  <2>4. Done(k, c)' <=> \/ k \in broadcasted'
                        \/ rt'[l].pc # "idle" /\ rt'[l].k = k /\ c \notin rt'[l].todo
                        \/ \E m \in Loop : m # l /\ rt'[m].pc # "idle" /\ rt'[m].k = k
                                           /\ c \notin rt'[m].todo
    BY DEF Done
  <2>5. CASE rt[l].todo = {d}
    BY <1>2, <1>7, <2>1, <2>2, <2>3, <2>4, <2>5
  <2>6. CASE rt[l].todo # {d}
    BY <1>2, <1>7, <2>1, <2>2, <2>3, <2>4, <2>6
  <2>. QED
    BY <2>5, <2>6
<1>. QED
  BY <1>3, <1>5, <1>7

\* A chunk taken from its channel is still to come.
LEMMA WholeTake ==
    ASSUME NEW c \in Conn, NEW l \in Loop, StreamTyped, ChunksOnce, LoopFooting, FramesWhole,
           RealtimeTake(l), Sound(c)'
    PROVE  Whole(c)'
<1>1. /\ UNCHANGED <<printed, pendingAppend, outbound, loop, call, received, lossy, outcome>>
      /\ rt[l].pc = "idle"
  BY DEF RealtimeTake, paneVars
<1>2. Sound(c) /\ Whole(c)
  BY <1>1, SoundBefore DEF FramesWhole
<1>3. c \in subscribers
  BY <1>2 DEF Sound, LoopFooting, OutcomeFits
<1>4. /\ broadcasted' = broadcasted /\ rt'[l].pc = "each" /\ c \in rt'[l].todo
      /\ \A m \in Loop : m # l => rt'[m] = rt[m]
  BY <1>3 DEF RealtimeTake, StreamTyped
<1>5. \A k : Done(k, c)' <=> Done(k, c)
  BY <1>1, <1>4 DEF Done
<1>6. /\ Awaiting(c)' <=> Awaiting(c)
      /\ Stream(c)' = Stream(c) /\ Snapshot(c)' = Snapshot(c)
      /\ \A m : Frames(c, m)' = Frames(c, m)
  BY <1>1, FramesSame
<1>7. Snapshot(c) \in 0..MaxOut /\ (~Awaiting(c)' => LastReset(Stream(c))' > 0)
  BY <1>2, <1>6, SnapshotIs DEF Whole
<1>8. Awaiting(c)' => \A m \in Loop : rt'[m].pc = "send" /\ rt'[m].conn = c
                                        => rt'[m].k <= Snapshot(c)
  BY <1>2, <1>4, <1>6 DEF Whole
<1>. QED
  BY <1>1, <1>2, <1>5, <1>6, <1>7, <1>8, WholeStep

\* What the loops do for other connections.
LEMMA WholePassed ==
    ASSUME NEW c \in Conn, NEW d \in Conn, NEW l \in Loop, StreamTyped, ChunksOnce, LoopFooting,
           Whole(c), d # c, rt[l].pc # "idle", d \in rt[l].todo, RealtimeNext(l, d),
           UNCHANGED <<printed, loop, call>>, received'[c] = received[c], outbound'[c] = outbound[c],
           pendingAppend'[c] = pendingAppend[c]
    PROVE  Whole(c)'
<1>1. /\ \A k : Done(k, c)' <=> Done(k, c)
      /\ \A m \in Loop : rt'[m].pc = "send" => rt'[m] = rt[m]
  BY NextDone
<1>2. /\ Awaiting(c)' <=> Awaiting(c)
      /\ Stream(c)' = Stream(c) /\ Snapshot(c)' = Snapshot(c)
      /\ \A m : Frames(c, m)' = Frames(c, m)
  BY FramesSame
<1>3. Snapshot(c) \in 0..MaxOut /\ (~Awaiting(c)' => LastReset(Stream(c))' > 0)
  BY <1>2, SnapshotIs DEF Whole
<1>4. Awaiting(c)' => \A m \in Loop : rt'[m].pc = "send" /\ rt'[m].conn = c
                                        => rt'[m].k <= Snapshot(c)
  BY <1>1, <1>2 DEF Whole
<1>. QED
  BY <1>1, <1>2, <1>3, <1>4, WholeStep

\* A chunk held back for a connection joins its frames.
HoldMove(l, c) ==
    /\ rt[l].pc = "each" /\ c \in rt[l].todo /\ c \in resetPending
    /\ pendingAppend'[c] = Append(pendingAppend[c], Live(rt[l].k))
    /\ RealtimeNext(l, c)
    /\ UNCHANGED <<printed, loop, call, received, outbound>>

\* A chunk held back counts for its connection.
LEMMA WholeHeld ==
    ASSUME NEW c \in Conn, NEW l \in Loop, StreamTyped, ChunksOnce, LoopFooting, Whole(c),
           HoldMove(l, c)
    PROVE  Whole(c)'
<1> DEFINE q == pendingAppend[c]
           e == Live(rt[l].k)
<1>1. /\ \A k : k # rt[l].k => (Done(k, c)' <=> Done(k, c))
      /\ \A k : k = rt[l].k => ~Done(k, c) /\ Done(k, c)'
      /\ \A m \in Loop : rt'[m].pc = "send" => rt'[m] = rt[m]
  BY NextDone DEF HoldMove
<1>2. q \in Seq(Message) /\ e \in Message /\ e.kind = "append" /\ e.n = rt[l].k
  BY StreamIs, InRt DEF HoldMove, Live
<1>3. /\ pendingAppend'[c] = Append(q, e)
      /\ Stream(c)' = Stream(c) /\ (Awaiting(c)' <=> Awaiting(c)) /\ (Busy(c)' <=> Busy(c))
      /\ UNCHANGED <<loop, call, printed>>
  BY DEF HoldMove, Stream, Awaiting, Busy
<1>4. Snapshot(c)' = Snapshot(c)
  BY <1>3 DEF Snapshot
<1>5. ASSUME NEW x
      PROVE  Frames(c, x)' = Frames(c, x) + (IF e = x THEN 1 ELSE 0)
  <2> DEFINE f == (IF Awaiting(c) THEN 0
                   ELSE Count(Stream(c), x)
                          + (IF Busy(c) /\ call["loop"] # NoCall /\ call["loop"].msg = x THEN 1 ELSE 0))
                     + (IF Busy(c) THEN Count(loop.todo, x) ELSE 0)
  <2>1. Frames(c, x) = f + Count(q, x)
    BY DEF Frames
  <2>2. Frames(c, x)' = f + Count(Append(q, e), x)
    BY <1>3 DEF Frames
  <2>3. Count(Append(q, e), x) = Count(q, x) + (IF e = x THEN 1 ELSE 0) /\ Count(q, x) \in Nat
    BY <1>2, AppendCounted, CountType
  <2>4. f \in Nat
    <3>1. Count(Stream(c), x) \in Nat /\ (Busy(c) => Count(loop.todo, x) \in Nat)
      BY StreamIs DEF Busy
    <3>2. \A i, j \in Nat : i + j \in Nat
      OBVIOUS
    <3>. QED
      BY <3>1, <3>2
  <2>. HIDE DEF f, q, e
  <2>5. CASE e = x
    BY <2>1, <2>2, <2>3, <2>4, <2>5
  <2>6. CASE e # x
    BY <2>1, <2>2, <2>3, <2>4, <2>6
  <2>. QED
    BY <2>5, <2>6
<1>. HIDE DEF q, e
<1>6. \A x : Frames(c, x) \in Nat
  BY FramesType
<1>7. \A n \in 0..MaxOut : Frames(c, Part(n))' = Frames(c, Part(n))
  <2>1. \A n \in 0..MaxOut : Part(n) # e
    BY <1>2, Kinds
  <2>. QED
    BY <1>5, <1>6, <2>1
<1>8. ASSUME NEW k \in 1..MaxOut
      PROVE  \/ Frames(c, Live(k))' = Frames(c, Live(k)) /\ (Done(k, c)' <=> Done(k, c))
             \/ Frames(c, Live(k))' = Frames(c, Live(k)) + 1 /\ ~Done(k, c) /\ Done(k, c)'
  <2>1. CASE k = rt[l].k
    <3>1. Live(k) = e
      BY <2>1 DEF e
    <3>. QED
      BY <1>1, <1>5, <2>1, <3>1
  <2>2. CASE k # rt[l].k
    <3>1. Live(k) # e
      BY <1>2, <2>2 DEF Live
    <3>. QED
      BY <1>1, <1>5, <1>6, <2>2, <3>1
  <2>. QED
    BY <2>1, <2>2
<1>9. Snapshot(c) \in 0..MaxOut /\ (~Awaiting(c)' => LastReset(Stream(c))' > 0)
  BY <1>3, SnapshotIs DEF Whole
<1>10. Awaiting(c)' => \A m \in Loop : rt'[m].pc = "send" /\ rt'[m].conn = c
                                        => rt'[m].k <= Snapshot(c)
  BY <1>1, <1>3 DEF Whole
<1>. QED
  BY <1>3, <1>4, <1>7, <1>8, <1>9, <1>10, WholeStep

\* What appendPending does, as a connection that loses nothing sees it.
LEMMA HoldEffect ==
    ASSUME NEW c \in Conn, NEW d \in Conn, NEW l \in Loop, StreamTyped, RealtimeHold(l, d), Sound(c)'
    PROVE  /\ Sound(c) /\ UNCHANGED <<printed, loop, call, received, outbound, raced, loops, feed>>
           /\ rt[l].pc = "each" /\ d \in rt[l].todo /\ RealtimeNext(l, d)
           /\ d # c => pendingAppend'[c] = pendingAppend[c]
           /\ d = c => HoldMove(l, c)
<1>1. /\ UNCHANGED <<printed, loop, call, received, outbound, raced, loops, feed, outcome>>
      /\ rt[l].pc = "each" /\ d \in rt[l].todo /\ RealtimeNext(l, d) /\ d \in resetPending
      /\ lossy[c] => lossy'[c]
      /\ d # c => pendingAppend'[c] = pendingAppend[c]
  BY DEF RealtimeHold, tmuxVars, StreamTyped
<1>2. Sound(c) /\ ~lossy'[c]
  BY <1>1, SoundBefore
<1>3. ASSUME d = c PROVE HoldMove(l, c)
  <2>1. Len(pendingAppend[c]) < PendingLimit
    BY <1>2, <1>3 DEF RealtimeHold, StreamTyped
  <2>2. pendingAppend'[c] = Append(pendingAppend[c], Live(rt[l].k))
    BY <1>3, <2>1 DEF RealtimeHold, StreamTyped
  <2>. QED
    BY <1>1, <1>3, <2>2 DEF HoldMove
<1>. QED
  BY <1>1, <1>2, <1>3

\* Holding back keeps streams whole.
LEMMA WholeHold ==
    ASSUME NEW c \in Conn, NEW d \in Conn, NEW l \in Loop, StreamTyped, ChunksOnce, LoopFooting,
           FramesWhole, RealtimeHold(l, d), Sound(c)'
    PROVE  Whole(c)'
<1>1. /\ Sound(c) /\ UNCHANGED <<printed, loop, call, received, outbound>>
      /\ rt[l].pc = "each" /\ d \in rt[l].todo /\ RealtimeNext(l, d)
      /\ d # c => pendingAppend'[c] = pendingAppend[c]
      /\ d = c => HoldMove(l, c)
  BY HoldEffect
<1>2. Whole(c)
  BY <1>1 DEF FramesWhole
<1>3. CASE d # c
  BY <1>1, <1>2, <1>3, WholePassed
<1>4. CASE d = c
  BY <1>1, <1>2, <1>4, WholeHeld
<1>. QED
  BY <1>3, <1>4

\* Nothing is let through to a connection that waits for its reset frame.
LEMMA WholePass ==
    ASSUME NEW c \in Conn, NEW d \in Conn, NEW l \in Loop, StreamTyped, ChunksOnce, LoopFooting,
           FramesWhole, RealtimePass(l, d), Sound(c)'
    PROVE  Whole(c)'
<1>1. /\ UNCHANGED <<printed, loop, call, received, outbound, pendingAppend, outcome, lossy, broadcasted>>
      /\ rt[l].pc = "each" /\ d \in rt[l].todo /\ d \notin resetPending
  BY DEF RealtimePass, tmuxVars, paneVars, histVars
<1>2. Sound(c) /\ Whole(c)
  BY <1>1, SoundBefore DEF FramesWhole
<1>3. /\ rt'[l].pc = "send" /\ rt'[l].k = rt[l].k /\ rt'[l].todo = rt[l].todo /\ rt'[l].conn = d
      /\ \A m \in Loop : m # l => rt'[m] = rt[m]
  BY DEF RealtimePass, StreamTyped
<1>4. \A k : Done(k, c)' <=> Done(k, c)
  BY <1>1, <1>3 DEF Done
<1>5. /\ Awaiting(c)' <=> Awaiting(c)
      /\ Stream(c)' = Stream(c) /\ Snapshot(c)' = Snapshot(c)
      /\ \A m : Frames(c, m)' = Frames(c, m)
  BY <1>1, FramesSame
<1>6. Snapshot(c) \in 0..MaxOut /\ (~Awaiting(c)' => LastReset(Stream(c))' > 0)
  BY <1>2, <1>5, SnapshotIs DEF Whole
<1>7. Awaiting(c) => d # c
  <2>1. Awaiting(c) => loop.pc = "reset" /\ loop.conn = c
    BY DEF Awaiting
  <2>2. Awaiting(c) => outcome[c] = "busy"
    BY <1>2, <2>1 DEF Sound, LoopFooting, Registering
  <2>3. Awaiting(c) => c \in resetPending
    BY <2>1, <2>2 DEF LoopFooting, OutcomeFits
  <2>. QED
    BY <1>1, <2>3
<1>8. Awaiting(c)' => \A m \in Loop : rt'[m].pc = "send" /\ rt'[m].conn = c
                                        => rt'[m].k <= Snapshot(c)
  BY <1>2, <1>3, <1>5, <1>7 DEF Whole
<1>. QED
  BY <1>1, <1>2, <1>4, <1>5, <1>6, <1>8, WholeStep

\* What the send of a chunk does, as a connection that loses nothing sees it.
LEMMA RtSendEffect ==
    ASSUME NEW c \in Conn, NEW l \in Loop, StreamTyped, ChunksOnce, RealtimeSend(l), Sound(c)'
    PROVE  /\ Sound(c) /\ UNCHANGED <<printed, loop, call, received, pendingAppend, loops, feed>>
           /\ rt[l].pc = "send" /\ rt[l].conn \in Conn /\ rt[l].conn \in rt[l].todo
           /\ RealtimeNext(l, rt[l].conn)
           /\ rt[l].conn # c => outbound'[c] = outbound[c] /\ raced'[c] = raced[c]
           /\ rt[l].conn = c =>
                 /\ outbound'[c] = Append(outbound[c], Live(rt[l].k))
                 /\ raced'[c] <=> raced[c] \/ (loop.pc \in {"flush", "pending"} /\ loop.conn = c)
<1>1. rt[l].pc = "send" /\ rt[l].conn \in Conn /\ rt[l].conn \in rt[l].todo
  BY InRt DEF RealtimeSend, ChunksOnce, RtNew
<1>2. /\ UNCHANGED <<printed, loop, call, received, pendingAppend, loops, feed, outcome>>
  BY <1>1 DEF RealtimeSend, tmuxVars, paneVars, StreamTyped
<1>3. RealtimeNext(l, rt[l].conn)
  BY DEF RealtimeSend
<1>4. lossy[c] => lossy'[c]
  BY <1>1 DEF RealtimeSend, StreamTyped
<1>5. Sound(c) /\ ~lossy'[c]
  BY <1>2, <1>4, SoundBefore
<1>6. ASSUME rt[l].conn = c
      PROVE  /\ outbound'[c] = Append(outbound[c], Live(rt[l].k))
             /\ raced'[c] <=> raced[c] \/ (loop.pc \in {"flush", "pending"} /\ loop.conn = c)
  <2>1. ~Full(c)
    BY <1>5, <1>6 DEF RealtimeSend, StreamTyped
  <2>. QED
    BY <1>6, <2>1 DEF RealtimeSend, StreamTyped
<1>7. rt[l].conn # c => outbound'[c] = outbound[c] /\ raced'[c] = raced[c]
  BY <1>1 DEF RealtimeSend, StreamTyped
<1>. QED
  BY <1>1, <1>2, <1>3, <1>5, <1>6, <1>7

\* A chunk let through joins the stream of its connection.
LEMMA WholeRtSend ==
    ASSUME NEW c \in Conn, NEW l \in Loop, StreamTyped, ChunksOnce, LoopFooting, FramesWhole,
           RealtimeSend(l), Sound(c)'
    PROVE  Whole(c)'
<1>1. /\ Sound(c) /\ UNCHANGED <<printed, loop, call, received, pendingAppend>>
      /\ rt[l].pc = "send" /\ rt[l].conn \in Conn /\ rt[l].conn \in rt[l].todo
      /\ RealtimeNext(l, rt[l].conn)
      /\ rt[l].conn # c => outbound'[c] = outbound[c]
      /\ rt[l].conn = c => outbound'[c] = Append(outbound[c], Live(rt[l].k))
  BY RtSendEffect
<1>2. Whole(c)
  BY <1>1 DEF FramesWhole
<1>3. CASE rt[l].conn # c
  BY <1>1, <1>2, <1>3, WholePassed
<1>4. CASE rt[l].conn = c
  <2> DEFINE s == Stream(c)
             e == Live(rt[l].k)
  <2>1. /\ \A k : k # rt[l].k => (Done(k, c)' <=> Done(k, c))
        /\ \A k : k = rt[l].k => ~Done(k, c) /\ Done(k, c)'
        /\ \A m \in Loop : rt'[m].pc = "send" => rt'[m] = rt[m]
    BY <1>1, <1>4, NextDone
  <2>2. s \in Seq(Message) /\ e \in Message /\ e.kind = "append" /\ e.n = rt[l].k
    BY <1>1, StreamIs, InRt DEF Live
  <2>3. s' = Append(s, e)
    <3> DEFINE a == received[c]
               b == outbound[c]
    <3>1. a \in Seq(Message) /\ b \in Seq(Message) /\ s = a \o b
      BY StreamIs
    <3>2. s' = a \o Append(b, e)
      BY <1>1, <1>4 DEF Stream
    <3>. HIDE DEF a, b, s, e
    <3>. QED
      BY <2>2, <3>1, <3>2, Joined
  <2>4. (Awaiting(c)' <=> Awaiting(c)) /\ (Busy(c)' <=> Busy(c)) /\ UNCHANGED <<loop, call, printed>>
        /\ pendingAppend'[c] = pendingAppend[c]
    BY <1>1 DEF Awaiting, Busy
  <2>5. Awaiting(c)' => \A m \in Loop : rt'[m].pc = "send" /\ rt'[m].conn = c
                                          => rt'[m].k <= Snapshot(c)
    BY <1>2, <2>1, <2>4 DEF Whole
  <2>6. Snapshot(c) \in 0..MaxOut
    BY <1>2, SnapshotIs DEF Whole
  <2>7. Stream(c) = s /\ Stream(c)' = s'
    OBVIOUS
  <2>. HIDE DEF s, e
  <2>8. CASE Awaiting(c)
    <3>1. Snapshot(c)' = Snapshot(c)
      BY <2>4, <2>8 DEF Snapshot
    <3>2. \A m : Frames(c, m)' = Frames(c, m)
      BY <2>4, <2>8 DEF Frames
    <3>3. rt[l].k <= Snapshot(c) /\ rt[l].k \in Nat /\ Snapshot(c) \in Nat
      BY <1>1, <1>2, <1>4, <2>6, <2>8, InFeed, Bounds DEF Whole
    <3>4. \A k \in 1..MaxOut : k > Snapshot(c) => (Done(k, c)' <=> Done(k, c))
      BY <2>1, <3>3, Bounds
    <3>. QED
      BY <1>2, <2>4, <2>5, <2>6, <2>8, <3>1, <3>2, <3>4, WholeStep
  <2>9. CASE ~Awaiting(c)
    <3>1. LastReset(s) > 0
      BY <1>2, <2>7, <2>9 DEF Whole
    <3>2. LastReset(s') = LastReset(s) /\ s'[LastReset(s)] = s[LastReset(s)]
      BY <2>2, <2>3, <3>1, AppendKeepsReset
    <3>3. Snapshot(c)' = Snapshot(c) /\ LastReset(Stream(c))' > 0
      BY <2>4, <2>7, <2>9, <3>1, <3>2 DEF Snapshot
    <3>4. ASSUME NEW x
          PROVE  /\ Frames(c, x) \in Nat
                 /\ e = x => Frames(c, x)' = Frames(c, x) + 1
                 /\ e # x => Frames(c, x)' = Frames(c, x)
      <4> DEFINE f == (IF Busy(c) /\ call["loop"] # NoCall /\ call["loop"].msg = x THEN 1 ELSE 0)
                 g == (IF Busy(c) THEN Count(loop.todo, x) ELSE 0)
                 h == Count(pendingAppend[c], x)
      <4>1. Frames(c, x) = Count(s, x) + f + g + h
        BY <2>7, <2>9 DEF Frames
      <4>2. Frames(c, x)' = Count(s', x) + f + g + h
        BY <2>4, <2>7, <2>9 DEF Frames
      <4>3. Count(s', x) = Count(s, x) + (IF e = x THEN 1 ELSE 0) /\ Count(s, x) \in Nat
        BY <2>2, <2>3, AppendCounted, CountType
      <4>4. h \in Nat
        BY StreamIs
      <4>5. g \in Nat
        <5>1. Busy(c) => Count(loop.todo, x) \in Nat
          BY StreamIs DEF Busy
        <5>. QED
          BY <5>1
      <4>6. f \in Nat
        OBVIOUS
      <4>. HIDE DEF f, g, h
      <4>7. CASE e = x
        BY <4>1, <4>2, <4>3, <4>4, <4>5, <4>6, <4>7
      <4>8. CASE e # x
        BY <4>1, <4>2, <4>3, <4>4, <4>5, <4>6, <4>8
      <4>. QED
        BY <4>7, <4>8, FramesType
    <3>5. \A n \in 0..MaxOut : Frames(c, Part(n))' = Frames(c, Part(n))
      <4>1. \A n \in 0..MaxOut : Part(n) # e
        BY <2>2, Kinds
      <4>. QED
        BY <3>4, <4>1
    <3>6. ASSUME NEW k \in 1..MaxOut
          PROVE  \/ Frames(c, Live(k))' = Frames(c, Live(k)) /\ (Done(k, c)' <=> Done(k, c))
                 \/ Frames(c, Live(k))' = Frames(c, Live(k)) + 1 /\ ~Done(k, c) /\ Done(k, c)'
      <4>1. CASE k = rt[l].k
        <5>1. Live(k) = e
          BY <4>1 DEF e
        <5>. QED
          BY <2>1, <3>4, <4>1, <5>1
      <4>2. CASE k # rt[l].k
        <5>1. Live(k) # e
          BY <2>2, <4>2 DEF Live
        <5>. QED
          BY <2>1, <3>4, <4>2, <5>1
      <4>. QED
        BY <4>1, <4>2
    <3>. QED
      BY <1>2, <2>4, <2>5, <2>6, <3>3, <3>5, <3>6, WholeStep
  <2>. QED
    BY <2>8, <2>9
<1>. QED
  BY <1>3, <1>4

-------------------------------------------------------------------------------
(* Every step.                                                                  *)

\* Steps of the loop, for its own connection and for the others.
LEMMA WholeSubscribe ==
    ASSUME NEW c \in Conn, StreamTyped, ChunksOnce, LoopFooting, FramesWhole, SubscribeStep, Sound(c)'
    PROVE  Whole(c)'
<1>1. loop.pc # "idle" /\ loop \in LoopState
  BY InLoop DEF SubscribeStep, SubscribeRegister, SubscribeCapture, SubscribeSend, SubscribeClear,
     SubscribeFlush, SubscribeFailed, SubscribeReturn, SubscribeReturnError
<1>2. CASE loop.conn = c
  <2>1. CASE SubscribeRegister
    <3>1. outcome'[c] = "busy" /\ loop'.pc = "capture"
      BY <1>1, <1>2, <2>1 DEF SubscribeRegister, StreamTyped, LoopState
    <3>. QED
      BY <3>1 DEF Sound
  <2>2. CASE SubscribeFailed
    <3>1. outcome'[c] # "ok" /\ loop'.pc = "ending"
      BY <1>1, <1>2, <2>2 DEF SubscribeFailed, LoopFooting, Registering, LoopState
    <3>. QED
      BY <3>1 DEF Sound
  <2>3. CASE SubscribeReturnError
    <3>1. outcome'[c] \in {"missing", "failed"}
      BY <1>2, <2>3 DEF SubscribeReturnError, StreamTyped
    <3>. QED
      BY <3>1 DEF Sound
  <2>. QED
    BY <1>2, <2>1, <2>2, <2>3, WholeCapture, WholeSend, WholeRest, WholeFlush DEF SubscribeStep
<1>3. CASE loop.conn # c
  <2>1. UNCHANGED <<rt, broadcasted, printed>> /\ received' = received /\ outbound' = outbound
    BY DEF SubscribeStep, SubscribeRegister, SubscribeCapture, SubscribeSend, SubscribeClear,
       SubscribeFlush, SubscribeFailed, SubscribeReturn, SubscribeReturnError, tmuxVars, histVars
  <2>2. pendingAppend'[c] = pendingAppend[c]
    BY <1>3 DEF SubscribeStep, SubscribeRegister, SubscribeCapture, SubscribeSend, SubscribeClear,
       SubscribeFlush, SubscribeFailed, SubscribeReturn, SubscribeReturnError, paneVars, StreamTyped
  <2>3. outcome'[c] = outcome[c]
    BY <1>3 DEF SubscribeStep, SubscribeRegister, SubscribeCapture, SubscribeSend, SubscribeClear,
       SubscribeFlush, SubscribeFailed, SubscribeReturn, SubscribeReturnError, StreamTyped
  <2>4. lossy'[c] = lossy[c]
    BY <1>3 DEF SubscribeStep, SubscribeRegister, SubscribeCapture, SubscribeSend, SubscribeClear,
       SubscribeFlush, SubscribeFailed, SubscribeReturn, SubscribeReturnError, StreamTyped
  <2>5. loop'.pc = "idle" \/ loop'.conn = loop.conn
    <3>. HIDE DEF termOutputMessages
    <3>1. CASE SubscribeReturn \/ SubscribeReturnError
      BY <3>1 DEF SubscribeReturn, SubscribeReturnError
    <3>2. CASE SubscribeRegister \/ SubscribeCapture \/ SubscribeSend
      BY <1>1, <3>2 DEF SubscribeRegister, SubscribeCapture, SubscribeSend, LoopState
    <3>3. CASE SubscribeClear \/ SubscribeFlush \/ SubscribeFailed
      BY <1>1, <3>3 DEF SubscribeClear, SubscribeFlush, SubscribeFailed, LoopState
    <3>. QED
      BY <3>1, <3>2, <3>3 DEF SubscribeStep
  <2>. QED
    BY <1>1, <1>3, <2>1, <2>2, <2>3, <2>4, <2>5, WholeElsewhere
<1>. QED
  BY <1>2, <1>3

\* Every step keeps streams whole.
LEMMA FramesWholeStep ==
    ASSUME StreamTyped, ChunksOnce, LoopFooting, FramesWhole, [Next]_vars
    PROVE  FramesWhole'
<1> SUFFICES ASSUME NEW c \in Conn, Sound(c)'
             PROVE  Whole(c)'
  BY DEF FramesWhole
<1>1. ASSUME UNCHANGED <<loop, call, received, outbound, pendingAppend, rt, broadcasted>>,
             UNCHANGED <<outcome, lossy>>, printed' = printed \/ printed' = printed + 1
      PROVE  Whole(c)'
  <2>1. Sound(c)
    BY <1>1, SoundBefore
  <2>. QED
    BY <1>1, <2>1, WholeFrame DEF FramesWhole
<1>2. CASE \/ UNCHANGED vars \/ TmuxOutput \/ TmuxExit \/ ClosePane \/ NotifyEnded
           \/ NotifyEndedReturn
  BY <1>1, <1>2 DEF vars, TmuxOutput, TmuxExit, ClosePane, NotifyEnded, NotifyEndedReturn, paneVars,
     tmuxVars, histVars
<1>3. ASSUME NEW d \in Conn, NEW gap \in BOOLEAN, SelectPane(d, gap) PROVE Whole(c)'
  <2>1. /\ UNCHANGED <<call, received, outbound, pendingAppend, rt, broadcasted, printed>>
        /\ UNCHANGED <<outcome, lossy>> /\ loop.pc = "idle" /\ loop'.pc = "register"
    BY <1>3 DEF SelectPane, paneVars, tmuxVars, histVars
  <2>2. Sound(c) /\ ~Busy(c) /\ ~Busy(c)'
    BY <2>1 DEF Sound, Busy
  <2>. QED
    BY <2>1, <2>2, WholeFrame DEF FramesWhole
<1>4. ASSUME NEW d \in Conn, EvictWatch(d) \/ CloseUnsubscribe(d) PROVE Whole(c)'
  <2>1. /\ UNCHANGED <<loop, call, received, outbound, rt, broadcasted, printed, lossy>>
        /\ d # c => pendingAppend'[c] = pendingAppend[c] /\ outcome'[c] = outcome[c]
        /\ d = c => outcome'[c] \notin {"busy", "ok"}
    BY <1>4 DEF EvictWatch, CloseUnsubscribe, Unsubscribe, tmuxVars, histVars, StreamTyped
  <2>2. d # c
    BY <2>1 DEF Sound
  <2>3. Sound(c)
    BY <2>1, <2>2 DEF Sound
  <2>. QED
    BY <2>1, <2>2, <2>3, WholeFrame DEF FramesWhole
<1>5. ASSUME NEW d \in Conn, NotifyEndedSend(d) PROVE Whole(c)'
  <2>1. /\ UNCHANGED <<loop, received, outbound, pendingAppend, rt, broadcasted, printed>>
        /\ UNCHANGED <<outcome, lossy>> /\ call'["loop"] = call["loop"]
    BY <1>5 DEF NotifyEndedSend, paneVars, tmuxVars, histVars, StreamTyped
  <2>2. Sound(c)
    BY <2>1, SoundBefore
  <2>. QED
    BY <2>1, <2>2, WholeFrame DEF FramesWhole
<1>6. ASSUME NEW l \in Loop, RealtimeStep(l) PROVE Whole(c)'
  BY <1>6, WholeTake, WholeRtSend, WholeHold, WholePass DEF RealtimeStep
<1>. QED
  BY <1>2, <1>3, <1>4, <1>5, <1>6, WholeSubscribe, WholeEnqueue, WholeConnSend DEF Next, CloseStep

-------------------------------------------------------------------------------
(* Streams are in order.                                                        *)

\* What is still to come for a connection, before and after a step.
LEMMA InComing ==
    ASSUME NEW c \in Conn, NEW a
    PROVE  /\ a \in Coming(c) <=>
                 \E l \in Loop : \/ \E i \in DOMAIN feed[l] : a = feed[l][i]
                                 \/ rt[l].pc # "idle" /\ c \in rt[l].todo /\ a = rt[l].k
           /\ a \in Coming(c)' <=>
                 \E l \in Loop : \/ \E i \in DOMAIN feed'[l] : a = feed'[l][i]
                                 \/ rt'[l].pc # "idle" /\ c \in rt'[l].todo /\ a = rt'[l].k
<1>1. a \in Coming(c) <=>
         \E l \in Loop : a \in (IF rt[l].pc # "idle" /\ c \in rt[l].todo
                                THEN {feed[l][i] : i \in DOMAIN feed[l]} \cup {rt[l].k}
                                ELSE {feed[l][i] : i \in DOMAIN feed[l]})
  BY DEF Coming
<1>2. a \in Coming(c)' <=>
         \E l \in Loop : a \in (IF rt'[l].pc # "idle" /\ c \in rt'[l].todo
                                THEN {feed'[l][i] : i \in DOMAIN feed'[l]} \cup {rt'[l].k}
                                ELSE {feed'[l][i] : i \in DOMAIN feed'[l]})
  BY DEF Coming
<1>3. ASSUME NEW l \in Loop
      PROVE  /\ a \in (IF rt[l].pc # "idle" /\ c \in rt[l].todo
                       THEN {feed[l][i] : i \in DOMAIN feed[l]} \cup {rt[l].k}
                       ELSE {feed[l][i] : i \in DOMAIN feed[l]})
                <=> \/ \E i \in DOMAIN feed[l] : a = feed[l][i]
                    \/ rt[l].pc # "idle" /\ c \in rt[l].todo /\ a = rt[l].k
             /\ a \in (IF rt'[l].pc # "idle" /\ c \in rt'[l].todo
                       THEN {feed'[l][i] : i \in DOMAIN feed'[l]} \cup {rt'[l].k}
                       ELSE {feed'[l][i] : i \in DOMAIN feed'[l]})
                <=> \/ \E i \in DOMAIN feed'[l] : a = feed'[l][i]
                    \/ rt'[l].pc # "idle" /\ c \in rt'[l].todo /\ a = rt'[l].k
  OBVIOUS
<1>. QED
  BY <1>1, <1>2, <1>3

\* Coming chunks are numbers.
LEMMA ComingType ==
    ASSUME NEW c \in Conn, StreamTyped, NEW a \in Coming(c)
    PROVE  a \in Nat
  BY InComing, InFeed

\* Chunks that are on their way stay so or arrive.
LEMMA ComingFrame ==
    ASSUME NEW c \in Conn, UNCHANGED feed,
           \A l \in Loop : rt'[l].pc # "idle" =>
              /\ rt[l].pc # "idle" /\ rt'[l].k = rt[l].k /\ rt'[l].todo \subseteq rt[l].todo
    PROVE  Coming(c)' \subseteq Coming(c)
<1> SUFFICES ASSUME NEW a \in Coming(c)' PROVE a \in Coming(c)
  OBVIOUS
<1>1. PICK l \in Loop : \/ \E i \in DOMAIN feed'[l] : a = feed'[l][i]
                        \/ rt'[l].pc # "idle" /\ c \in rt'[l].todo /\ a = rt'[l].k
  BY InComing
<1>2. \/ \E i \in DOMAIN feed[l] : a = feed[l][i]
      \/ rt[l].pc # "idle" /\ c \in rt[l].todo /\ a = rt[l].k
  BY <1>1
<1>. QED
  BY <1>2, InComing

\* A chunk taken from its channel was already to come.
LEMMA ComingTake ==
    ASSUME NEW c \in Conn, NEW l \in Loop, StreamTyped, RealtimeTake(l)
    PROVE  Coming(c)' \subseteq Coming(c)
<1> SUFFICES ASSUME NEW a \in Coming(c)' PROVE a \in Coming(c)
  OBVIOUS
<1> DEFINE q == feed[l]
<1>1. q \in Seq(1..MaxOut) /\ q # <<>>
  BY InFeed DEF RealtimeTake
<1>2. /\ feed'[l] = Tail(q)
      /\ rt'[l].pc # "idle" => rt'[l].k = Head(q)
      /\ \A m \in Loop : m # l => feed'[m] = feed[m] /\ rt'[m] = rt[m]
  BY DEF RealtimeTake, StreamTyped
<1>3. PICK m \in Loop : \/ \E i \in DOMAIN feed'[m] : a = feed'[m][i]
                        \/ rt'[m].pc # "idle" /\ c \in rt'[m].todo /\ a = rt'[m].k
  BY InComing
<1>4. CASE m # l
  BY <1>2, <1>3, <1>4, InComing
<1>5. CASE m = l
  <2> DEFINE S == 1..MaxOut
  <2>0. feed[l] = q
    OBVIOUS
  <2>1. q \in Seq(S) /\ q # <<>>
    BY <1>1
  <2>. HIDE DEF q, S
  <2>2. /\ 1 \in DOMAIN q /\ Head(q) = q[1]
        /\ \A i \in DOMAIN Tail(q) : i + 1 \in DOMAIN q /\ Tail(q)[i] = q[i + 1]
    BY <2>1, Taken
  <2>3. \E i \in DOMAIN q : a = q[i]
    BY <1>2, <1>3, <1>5, <2>2
  <2>. QED
    BY <2>0, <2>3, InComing
<1>. QED
  BY <1>4, <1>5

\* tmux adds its newest chunk to what is to come.
LEMMA ComingOutput ==
    ASSUME NEW c \in Conn, StreamTyped, TmuxOutput
    PROVE  Coming(c)' \subseteq Coming(c) \cup {printed + 1}
<1> SUFFICES ASSUME NEW a \in Coming(c)', a # printed + 1 PROVE a \in Coming(c)
  OBVIOUS
<1>1. rt' = rt
  BY DEF TmuxOutput
<1>2. PICK l \in Loop : \/ \E i \in DOMAIN feed'[l] : a = feed'[l][i]
                        \/ rt'[l].pc # "idle" /\ c \in rt'[l].todo /\ a = rt'[l].k
  BY InComing
<1>3. feed'[l] = feed[l] \/ feed'[l] = Append(feed[l], printed + 1)
  BY DEF TmuxOutput, StreamTyped
<1>4. \A i \in DOMAIN feed'[l] : feed'[l][i] = printed + 1 \/ (i \in DOMAIN feed[l] /\ feed'[l][i] = feed[l][i])
  <2> DEFINE S == 1..MaxOut
             e == printed + 1
             q == feed[l]
  <2>1. q \in Seq(S) /\ e \in S
    BY InFeed, Bounds DEF TmuxOutput
  <2>2. feed'[l] = q \/ feed'[l] = Append(q, e)
    BY <1>3
  <2>. HIDE DEF S, e, q
  <2>3. \A i \in DOMAIN feed'[l] : feed'[l][i] = e \/ (i \in DOMAIN q /\ feed'[l][i] = q[i])
    BY <2>1, <2>2, Appended
  <2>. QED
    BY <2>3 DEF e, q
<1>5. \/ \E i \in DOMAIN feed[l] : a = feed[l][i]
      \/ rt[l].pc # "idle" /\ c \in rt[l].todo /\ a = rt[l].k
  BY <1>1, <1>2, <1>4
<1>. QED
  BY <1>5, InComing

\* With one realtimeLoop, the chunk it is at comes before all others.
LEMMA ComingNext ==
    ASSUME NEW c \in Conn, NEW d \in Conn, NEW l \in Loop, StreamTyped, ChunksOnce, UNCHANGED feed,
           rt[l].pc # "idle", d \in rt[l].todo, RealtimeNext(l, d)
    PROVE  /\ Coming(c)' \subseteq Coming(c)
           /\ d = c => rt[l].k \in Coming(c)
           /\ d = c /\ loops = 1 => \A a \in Coming(c)' : rt[l].k < a
<1>1. /\ \A m \in Loop : m # l => rt'[m] = rt[m]
      /\ rt'[l].pc # "idle" => rt'[l].k = rt[l].k /\ rt'[l].todo = rt[l].todo \ {d}
  BY DEF RealtimeNext, StreamTyped
<1>2. Coming(c)' \subseteq Coming(c)
  BY <1>1, ComingFrame
<1>3. d = c => rt[l].k \in Coming(c)
  BY InComing
<1>4. ASSUME d = c, loops = 1, NEW a \in Coming(c)' PROVE rt[l].k < a
  <2>1. \A m \in Loop : m # l => feed[m] = <<>> /\ rt[m].pc = "idle"
    <3>1. \A m \in Loop : m \in Nat \ {0} /\ (m > 1 => feed[m] = <<>> /\ rt[m].pc = "idle")
      BY <1>4, Bounds DEF ChunksOnce
    <3>2. l = 1
      BY <3>1
    <3>3. ASSUME NEW m \in Loop, m # l PROVE m > 1
      BY <3>1, <3>2, <3>3
    <3>. QED
      BY <3>1, <3>3
  <2>2. PICK m \in Loop : \/ \E i \in DOMAIN feed'[m] : a = feed'[m][i]
                          \/ rt'[m].pc # "idle" /\ c \in rt'[m].todo /\ a = rt'[m].k
    BY <1>4, InComing
  <2>3. m = l
    BY <1>1, <2>1, <2>2
  <2>4. \E i \in DOMAIN feed[l] : a = feed[l][i]
    BY <1>1, <1>4, <2>2, <2>3
  <2>. QED
    BY <2>4 DEF ChunksOnce, RtNew
<1>. QED
  BY <1>2, <1>3, <1>4

\* A frame counted among the live ones is counted.
LEMMA LivesCounted ==
    ASSUME NEW s \in Seq(Message), NEW a \in Lives(s)
    PROVE  a \in 0..MaxOut /\ Count(s, Live(a)) \in Nat \ {0}
<1>1. PICK i \in DOMAIN s : i > LastReset(s) /\ s[i].kind = "append" /\ a = s[i].n
  BY DEF Lives
<1>2. s[i] \in Message
  OBVIOUS
<1>3. a \in 0..MaxOut /\ s[i] = Live(a)
  BY <1>1, <1>2, Kinds
<1>4. After(s, Live(a)) # {}
  BY <1>1, <1>3 DEF After
<1>5. IsFiniteSet(After(s, Live(a))) /\ Count(s, Live(a)) \in Nat
  BY CountType
<1>6. Count(s, Live(a)) # 0
  BY <1>4, <1>5, FS_EmptySet DEF Count
<1>. QED
  BY <1>3, <1>5, <1>6

\* What a connection has seen of a whole stream has been printed.
LEMMA SeenPrinted ==
    ASSUME NEW c \in Conn, StreamTyped, ChunksOnce, LoopFooting, Whole(c),
           NEW a \in Shown(c) \cup Called(c) \cup Going(c) \cup Held(c)
    PROVE  a \in Nat /\ a <= printed
<1>1. ASSUME a \in 0..MaxOut, Frames(c, Live(a)) # 0 PROVE a <= printed
  <2>1. a \in Nat /\ printed \in Nat /\ Snapshot(c) \in Nat /\ Snapshot(c) <= printed
    BY <1>1, InFeed, SnapshotIs, Bounds DEF Whole
  <2>2. CASE a <= Snapshot(c)
    BY <2>1, <2>2
  <2>3. CASE a > Snapshot(c)
    <3>1. a \in 1..MaxOut
      BY <1>1, <2>1, <2>3, Bounds
    <3>2. Done(a, c)
      BY <1>1, <2>3, <3>1 DEF Whole
    <3>. QED
      BY <2>1, <3>2 DEF Done, ChunksOnce, RtNew
  <2>. QED
    BY <2>1, <2>2, <2>3
<1> DEFINE x == Live(a)
           f == IF Busy(c) /\ call["loop"] # NoCall /\ call["loop"].msg = x THEN 1 ELSE 0
           u == IF Awaiting(c) THEN 0 ELSE Count(Stream(c), x) + f
           g == IF Busy(c) THEN Count(loop.todo, x) ELSE 0
           h == Count(pendingAppend[c], x)
<1>2. Frames(c, x) = u + g + h
  BY DEF Frames
<1>3. Count(Stream(c), x) \in Nat /\ h \in Nat /\ (Busy(c) => Count(loop.todo, x) \in Nat)
  BY StreamIs DEF Busy
<1>4. f \in Nat
  OBVIOUS
<1>5. u \in Nat /\ g \in Nat
  BY <1>3, <1>4
<1>6. CASE a \in Shown(c)
  <2>1. ~Awaiting(c) /\ a \in Lives(Stream(c)) /\ Stream(c) \in Seq(Message)
    BY <1>6, StreamIs DEF Shown
  <2>2. a \in 0..MaxOut /\ Count(Stream(c), x) \in Nat \ {0}
    BY <2>1, LivesCounted
  <2>3. u # 0
    BY <1>4, <2>1, <2>2
  <2>4. Frames(c, x) # 0
    BY <1>2, <1>3, <1>5, <2>3
  <2>. QED
    BY <1>1, <2>2, <2>4
<1>7. CASE a \in Called(c)
  <2>1. Busy(c) /\ call["loop"] # NoCall /\ call["loop"].msg.kind = "append" /\ a = call["loop"].msg.n
    BY <1>7 DEF Called
  <2>2. call["loop"].msg = x /\ a \in 0..MaxOut
    BY <2>1, InCall, Kinds
  <2>3. ~Awaiting(c)
    <3>1. loop.todo \in Seq(Message) /\ loop.pc \in {"reset", "pending"}
      BY <2>1, InLoop DEF Busy
    <3>2. loop.todo # <<>> => Head(loop.todo).kind # "reset"
      BY <2>1, <3>1, ResetComesFirst
    <3>. QED
      BY <2>1, <3>2 DEF Awaiting
  <2>4. f = 1
    BY <2>1, <2>2
  <2>. HIDE DEF f, g, h, x
  <2>5. u # 0
    BY <1>3, <2>3, <2>4
  <2>. HIDE DEF u
  <2>6. Frames(c, x) # 0
    BY <1>2, <1>3, <1>5, <2>5
  <2>. QED
    BY <1>1, <2>2, <2>6 DEF x
<1>8. CASE a \in Going(c)
  <2>1. Busy(c) /\ a \in Lives(loop.todo) /\ loop.todo \in Seq(Message)
    BY <1>8, InLoop DEF Going, Busy
  <2>2. a \in 0..MaxOut /\ Count(loop.todo, x) \in Nat \ {0}
    BY <2>1, LivesCounted
  <2>3. g # 0
    BY <2>1, <2>2
  <2>4. Frames(c, x) # 0
    BY <1>2, <1>3, <1>5, <2>3
  <2>. QED
    BY <1>1, <2>2, <2>4
<1>9. CASE a \in Held(c)
  <2>1. a \in Lives(pendingAppend[c]) /\ pendingAppend[c] \in Seq(Message)
    BY <1>9, StreamIs DEF Held
  <2>2. a \in 0..MaxOut /\ Count(pendingAppend[c], x) \in Nat \ {0}
    BY <2>1, LivesCounted
  <2>3. Frames(c, x) # 0
    BY <1>2, <1>3, <1>5, <2>2
  <2>. QED
    BY <1>1, <2>2, <2>3
<1>. QED
  BY <1>6, <1>7, <1>8, <1>9, <1>1, Bounds

\* realtimeLoops are only ever started.
LEMMA LoopsGrow ==
    ASSUME StreamTyped, [Next]_vars, loops' = 1
    PROVE  loops = 1
<1>1. loops' = loops \/ loops' = loops + 1
  BY DEF vars, Next, TmuxOutput, TmuxExit, SelectPane, EvictWatch, SubscribeStep, SubscribeRegister,
     SubscribeCapture, SubscribeSend, SubscribeClear, SubscribeFlush, SubscribeFailed, SubscribeReturn,
     SubscribeReturnError, RealtimeStep, RealtimeTake, RealtimeSend, RealtimeHold, RealtimePass,
     ClosePane, CloseStep, NotifyEnded, NotifyEndedReturn, NotifyEndedSend, CloseUnsubscribe,
     enqueuePaneMessage, EnqueueTry, EnqueuePop, EnqueuePutBack, EnqueuePut, ConnSend, ConnSendFails,
     tmuxVars
<1>2. loops \in Nat \ {0}
  BY Bounds DEF StreamTyped
<1>. QED
  BY <1>1, <1>2

\* Only tmux adds to what is to come.
LEMMA ComingShrinks ==
    ASSUME NEW c \in Conn, StreamTyped, ChunksOnce, [Next]_vars, ~TmuxOutput
    PROVE  Coming(c)' \subseteq Coming(c)
<1>1. CASE UNCHANGED <<feed, rt>>
  BY <1>1, ComingFrame
<1>2. ASSUME NEW l \in Loop, RealtimeStep(l) PROVE Coming(c)' \subseteq Coming(c)
  <2>1. CASE RealtimeTake(l)
    BY <2>1, ComingTake
  <2>2. CASE RealtimeSend(l)
    <3>1. /\ rt[l].pc # "idle" /\ rt[l].conn \in Conn /\ rt[l].conn \in rt[l].todo
          /\ RealtimeNext(l, rt[l].conn) /\ UNCHANGED feed
      BY <2>2, InRt DEF RealtimeSend, ChunksOnce, RtNew, tmuxVars
    <3>. QED
      BY <3>1, ComingNext
  <2>3. ASSUME NEW d \in Conn, RealtimeHold(l, d) PROVE Coming(c)' \subseteq Coming(c)
    <3>1. rt[l].pc # "idle" /\ d \in rt[l].todo /\ RealtimeNext(l, d) /\ UNCHANGED feed
      BY <2>3 DEF RealtimeHold, tmuxVars
    <3>. QED
      BY <3>1, ComingNext
  <2>4. ASSUME NEW d \in Conn, RealtimePass(l, d) PROVE Coming(c)' \subseteq Coming(c)
    <3>1. /\ rt'[l].k = rt[l].k /\ rt'[l].todo = rt[l].todo /\ rt[l].pc # "idle" /\ UNCHANGED feed
          /\ \A m \in Loop : m # l => rt'[m] = rt[m]
      BY <2>4 DEF RealtimePass, StreamTyped, tmuxVars
    <3>. QED
      BY <3>1, ComingFrame
  <2>. QED
    BY <1>2, <2>1, <2>2, <2>3, <2>4 DEF RealtimeStep
<1>3. UNCHANGED <<feed, rt>> \/ \E l \in Loop : RealtimeStep(l)
  BY DEF vars, Next, TmuxExit, SelectPane, EvictWatch, SubscribeStep, SubscribeRegister,
     SubscribeCapture, SubscribeSend, SubscribeClear, SubscribeFlush, SubscribeFailed, SubscribeReturn,
     SubscribeReturnError, ClosePane, CloseStep, NotifyEnded, NotifyEndedReturn, NotifyEndedSend,
     CloseUnsubscribe, enqueuePaneMessage, EnqueueTry, EnqueuePop, EnqueuePutBack, EnqueuePut,
     ConnSend, ConnSendFails, tmuxVars
<1>. QED
  BY <1>1, <1>2, <1>3

\* What a step does to the frames held back for a connection.
LEMMA HeldChanges ==
    ASSUME NEW c \in Conn, StreamTyped, [Next]_vars
    PROVE  \/ pendingAppend'[c] = pendingAppend[c] \/ pendingAppend'[c] = <<>>
           \/ \E l \in Loop : RealtimeHold(l, c)
<1>1. CASE pendingAppend' = pendingAppend
  BY <1>1
<1>2. CASE \E d \in Conn : pendingAppend' = [pendingAppend EXCEPT ![d] = <<>>]
  BY <1>2 DEF StreamTyped
<1>3. ASSUME NEW l \in Loop, NEW d \in Conn, RealtimeHold(l, d)
      PROVE  pendingAppend'[c] = pendingAppend[c] \/ RealtimeHold(l, c)
  BY <1>3 DEF RealtimeHold, StreamTyped
<1>4. loop.pc # "idle" => loop.conn \in Conn
  BY InLoop
<1>5. \/ pendingAppend' = pendingAppend
      \/ \E d \in Conn : pendingAppend' = [pendingAppend EXCEPT ![d] = <<>>]
      \/ \E l \in Loop, d \in Conn : RealtimeHold(l, d)
  BY <1>4 DEF vars, Next, TmuxOutput, TmuxExit, SelectPane, EvictWatch, SubscribeStep,
     SubscribeRegister, SubscribeCapture, SubscribeSend, SubscribeClear, SubscribeFlush,
     SubscribeFailed, SubscribeReturn, SubscribeReturnError, RealtimeStep, RealtimeTake, RealtimeSend,
     RealtimePass, ClosePane, CloseStep, NotifyEnded, NotifyEndedReturn, NotifyEndedSend,
     CloseUnsubscribe, Unsubscribe, enqueuePaneMessage, EnqueueTry, EnqueuePop, EnqueuePutBack,
     EnqueuePut, ConnSend, ConnSendFails, paneVars
<1>. QED
  BY <1>1, <1>2, <1>3, <1>5

\* The frames held back are older than what is to come.
LEMMA HeldInOrderStep ==
    ASSUME NEW c \in Conn, StreamTyped, ChunksOnce, LoopFooting, [Next]_vars, loops = 1,
           HeldInOrder(c)
    PROVE  HeldInOrder(c)'
<1> DEFINE q == pendingAppend[c]
<1>1. q \in Seq(Message) /\ \A i \in DOMAIN q : q[i].kind = "append" /\ q[i].n <= printed
  BY StreamIs DEF LoopFooting, HeldFrames
<1>2. Increasing(q) /\ Below(Lives(q), Coming(c))
  BY DEF HeldInOrder, Held
<1>3. \A a \in Lives(q) : a \in Nat /\ a <= printed
  <2>1. \A a \in Lives(q) : a \in Nat
    BY <1>1, LivesCounted, Bounds
  <2>. QED
    BY <1>1, <2>1 DEF Lives
<1>4. HeldInOrder(c)' <=> Increasing(q') /\ Below(Lives(q'), Coming(c)')
  BY DEF HeldInOrder, Held
<1>. HIDE DEF q
<1>5. CASE TmuxOutput
  <2>1. q' = q /\ Coming(c)' \subseteq Coming(c) \cup {printed + 1} /\ printed \in Nat
    BY <1>5, ComingOutput, InFeed DEF TmuxOutput, paneVars, q
  <2>2. Below(Lives(q), Coming(c)')
    BY <1>2, <1>3, <2>1 DEF Below
  <2>. QED
    BY <1>2, <1>4, <2>1, <2>2
<1>6. CASE ~TmuxOutput
  <2>1. Coming(c)' \subseteq Coming(c)
    BY <1>6, ComingShrinks
  <2>2. CASE q' = q
    <3>1. Below(Lives(q), Coming(c)')
      BY <1>2, <2>1 DEF Below
    <3>. QED
      BY <1>2, <1>4, <2>2, <3>1
  <2>3. CASE q' = <<>>
    <3>1. Below({}, Coming(c)')
      BY DEF Below
    <3>. QED
      BY <1>4, <2>3, <3>1, EmptyFrames
  <2>4. ASSUME NEW l \in Loop, RealtimeHold(l, c) PROVE HeldInOrder(c)'
    <3> DEFINE e == Live(rt[l].k)
    <3>1. /\ rt[l].pc # "idle" /\ c \in rt[l].todo /\ RealtimeNext(l, c) /\ UNCHANGED feed
      BY <2>4 DEF RealtimeHold, tmuxVars
    <3>2. /\ e \in Message /\ e.kind = "append" /\ e.n = rt[l].k /\ e.kind # "reset"
      BY <3>1, InRt DEF Live
    <3>3. /\ Coming(c)' \subseteq Coming(c) /\ rt[l].k \in Coming(c)
          /\ \A a \in Coming(c)' : rt[l].k < a
      BY <3>1, ComingNext
    <3>4. \/ q' = Append(q, e)
          \/ q # <<>> /\ q' = Append(Tail(q), e)
      <4>1. Len(q) < PendingLimit \/ q # <<>>
        BY <1>1, Bounds
      <4>. QED
        BY <2>4, <4>1 DEF RealtimeHold, StreamTyped, q
    <3>. HIDE DEF e
    <3>5. PICK t \in Seq(Message) : q' = Append(t, e) /\ Increasing(t) /\ Lives(t) \subseteq Lives(q)
      <4>1. CASE q' = Append(q, e)
        BY <1>1, <1>2, <4>1
      <4>2. CASE q # <<>> /\ q' = Append(Tail(q), e)
        <5>1. \A i \in DOMAIN q : q[i].kind # "reset"
          BY <1>1
        <5>2. Increasing(Tail(q)) /\ Lives(Tail(q)) \subseteq Lives(q)
          BY <1>1, <1>2, <4>2, <5>1, TailLives
        <5>. QED
          BY <1>1, <4>2, <5>2, Taken
      <4>. QED
        BY <3>4, <4>1, <4>2
    <3>6. \A a \in Lives(t) : a < e.n
      BY <1>2, <3>2, <3>3, <3>5 DEF Below
    <3>7. Increasing(q') /\ Lives(q') = Lives(t) \cup {e.n}
      BY <3>2, <3>5, <3>6, AppendLives
    <3>8. Below(Lives(q'), Coming(c)')
      BY <1>2, <3>2, <3>3, <3>5, <3>7 DEF Below
    <3>. QED
      BY <1>4, <3>7, <3>8
  <2>. QED
    BY <2>2, <2>3, <2>4, HeldChanges DEF q
<1>. QED
  BY <1>5, <1>6

\* A chunk let through belongs to a connection with nothing held back.
LEMMA PassedUnheldStep ==
    ASSUME NEW c \in Conn, StreamTyped, ChunksOnce, LoopFooting, [Next]_vars, loops = 1,
           PassedUnheld(c)
    PROVE  PassedUnheld(c)'
<1> SUFFICES ASSUME NEW l \in Loop, rt'[l].pc = "send", rt'[l].conn = c, c \in resetPending',
                    pendingAppend'[c] # <<>>
             PROVE  FALSE
  BY DEF PassedUnheld
<1>1. \A m \in Loop : m # l => rt[m].pc = "idle" \/ rt[l].pc = "idle"
  <2>1. \A m \in Loop : m \in Nat \ {0} /\ (m > 1 => rt[m].pc = "idle")
    BY Bounds DEF ChunksOnce
  <2>2. \A m \in Loop : m = 1 \/ rt[m].pc = "idle"
    BY <2>1
  <2>. QED
    BY <2>2
<1>2. ASSUME NEW m \in Loop, RealtimeHold(m, c) PROVE FALSE
  <2>1. rt[m].pc = "each" /\ RealtimeNext(m, c)
    BY <1>2 DEF RealtimeHold
  <2>2. rt'[l] = rt[l] \/ rt'[l].pc # "send"
    BY <2>1 DEF RealtimeNext, StreamTyped
  <2>3. rt[l].pc = "send"
    BY <2>2
  <2>. QED
    BY <1>1, <2>1, <2>3
<1>3. pendingAppend'[c] = pendingAppend[c]
  BY <1>2, HeldChanges
<1>4. ~ (rt[l].pc = "send" /\ rt[l].conn = c /\ c \in resetPending)
  BY <1>3 DEF PassedUnheld
<1>5. CASE rt[l].pc = "send" /\ rt[l].conn = c
  <2>1. c \notin resetPending /\ c \in resetPending'
    BY <1>4, <1>5
  <2>2. SubscribeRegister /\ loop.conn = c
    BY <2>1, InLoop DEF vars, Next, TmuxOutput, TmuxExit, SelectPane, EvictWatch, SubscribeStep,
     SubscribeRegister, SubscribeCapture, SubscribeSend, SubscribeClear, SubscribeFlush,
     SubscribeFailed, SubscribeReturn, SubscribeReturnError, RealtimeStep, RealtimeTake, RealtimeSend,
     RealtimeHold, RealtimePass, ClosePane, CloseStep, NotifyEnded, NotifyEndedReturn,
     NotifyEndedSend, CloseUnsubscribe, Unsubscribe, enqueuePaneMessage, EnqueueTry, EnqueuePop,
     EnqueuePutBack, EnqueuePut, ConnSend, ConnSendFails, paneVars
  <2>3. pendingAppend'[c] = <<>>
    BY <2>2 DEF SubscribeRegister, StreamTyped
  <2>. QED
    BY <2>3
<1>6. CASE ~ (rt[l].pc = "send" /\ rt[l].conn = c)
  <2>1. rt' # rt
    BY <1>6
  <2>2. PICK m \in Loop : RealtimeStep(m)
    BY <2>1 DEF vars, Next, TmuxOutput, TmuxExit, SelectPane, EvictWatch, SubscribeStep,
     SubscribeRegister, SubscribeCapture, SubscribeSend, SubscribeClear, SubscribeFlush,
     SubscribeFailed, SubscribeReturn, SubscribeReturnError, ClosePane, CloseStep, NotifyEnded,
     NotifyEndedReturn, NotifyEndedSend, CloseUnsubscribe, enqueuePaneMessage, EnqueueTry, EnqueuePop,
     EnqueuePutBack, EnqueuePut, ConnSend, ConnSendFails
  <2>3. rt'[l] = rt[l] \/ rt'[l].pc # "send" \/ \E d \in Conn : RealtimePass(l, d)
    BY <2>2 DEF RealtimeStep, RealtimeTake, RealtimeSend, RealtimeHold, RealtimeNext, RealtimePass,
       StreamTyped
  <2>4. PICK d \in Conn : RealtimePass(l, d)
    BY <1>6, <2>3
  <2>5. rt'[l].conn = d /\ d \notin resetPending /\ resetPending' = resetPending
    BY <2>4 DEF RealtimePass, paneVars, StreamTyped
  <2>. QED
    BY <2>5
<1>. QED
  BY <1>5, <1>6

\* Fewer frames in the same order are in order.
LEMMA OrderedFewer ==
    ASSUME NEW c \in Conn, Ordered(c),
           Shown(c)' \subseteq Shown(c), Called(c)' \subseteq Called(c),
           Going(c)' \subseteq Going(c), Held(c)' \subseteq Held(c),
           Coming(c)' \subseteq Coming(c),
           ~Awaiting(c)' => Increasing(Stream(c))', Busy(c)' => Increasing(loop.todo)'
    PROVE  Ordered(c)'
  BY DEF Ordered, Below

\* A step that does not reach the connection.
LEMMA OrderedFrame ==
    ASSUME NEW c \in Conn, Ordered(c), Coming(c)' \subseteq Coming(c),
           received'[c] = received[c], outbound'[c] = outbound[c],
           pendingAppend'[c] = pendingAppend[c],
           \/ /\ loop' = loop /\ (call'["loop"] = NoCall <=> call["loop"] = NoCall)
              /\ call["loop"] # NoCall => call'["loop"].msg = call["loop"].msg
           \/ ~Busy(c) /\ ~Busy(c)'
    PROVE  Ordered(c)'
<1>1. (Awaiting(c)' <=> Awaiting(c)) /\ Stream(c)' = Stream(c)
  BY FramesSame
<1>2. Shown(c)' = Shown(c) /\ Held(c)' = Held(c)
  BY <1>1 DEF Shown, Held
<1>3. Called(c)' = Called(c) /\ Going(c)' = Going(c) /\ (Busy(c)' => Busy(c) /\ loop' = loop)
  <2>1. CASE ~Busy(c) /\ ~Busy(c)'
    BY <2>1 DEF Called, Going
  <2>2. CASE /\ loop' = loop /\ (call'["loop"] = NoCall <=> call["loop"] = NoCall)
             /\ call["loop"] # NoCall => call'["loop"].msg = call["loop"].msg
    <3>1. Busy(c)' <=> Busy(c)
      BY <2>2 DEF Busy
    <3>. QED
      BY <2>2, <3>1 DEF Called, Going
  <2>. QED
    BY <2>1, <2>2
<1>4. (~Awaiting(c)' => Increasing(Stream(c))') /\ (Busy(c)' => Increasing(loop.todo)')
  BY <1>1, <1>3 DEF Ordered
<1>. QED
  BY <1>2, <1>3, <1>4, OrderedFewer

\* The capture: nothing is shown yet.
LEMMA OrderedCapture ==
    ASSUME NEW c \in Conn, StreamTyped, LoopFooting, SubscribeCapture, loop.conn = c, Sound(c)'
    PROVE  Ordered(c)'
<1> DEFINE q == termOutputMessages(printed)
<1>1. /\ loop'.pc = "reset" /\ loop'.todo = q /\ loop'.conn = c /\ call'["loop"] = NoCall
  <2>1. loop.pc = "capture" /\ loop \in LoopState
    BY InLoop DEF SubscribeCapture
  <2>2. call' = call /\ outcome' = outcome
    BY DEF SubscribeCapture
  <2>3. call["loop"] = NoCall /\ outcome[c] # "ok"
    BY <2>1 DEF LoopFooting, LoopCalls, Registering, Sending
  <2>4. loop'.pc \in {"reset", "flush", "pending"}
    BY <2>2, <2>3 DEF Sound
  <2>. HIDE DEF q
  <2>5. \/ loop' = [loop EXCEPT !.pc = "reset", !.todo = q]
        \/ loop' = [loop EXCEPT !.pc = "failed", !.missing = ~alive]
    BY DEF SubscribeCapture, q
  <2>. QED
    BY <2>1, <2>2, <2>3, <2>4, <2>5 DEF LoopState
<1>2. printed \in 0..MaxOut
  BY DEF StreamTyped
<1>3. q # <<>> /\ Head(q).kind = "reset" /\ Lives(q) = {} /\ Increasing(q)
  BY <1>2, SnapshotFrames, Kinds
<1>. HIDE DEF q
<1>4. Awaiting(c)' /\ Busy(c)'
  BY <1>1, <1>3 DEF Awaiting, Busy
<1>5. Shown(c)' = {} /\ Called(c)' = {} /\ Going(c)' = {}
  BY <1>1, <1>3, <1>4 DEF Shown, Called, Going
<1>6. Increasing(loop.todo)'
  BY <1>1, <1>3
<1>. QED
  BY <1>4, <1>5, <1>6 DEF Ordered, Below

\* The next frame to be sent is the oldest of the rest.
LEMMA OrderedSend ==
    ASSUME NEW c \in Conn, StreamTyped, LoopFooting, SubscribeSend, loop.conn = c, Sound(c)',
           Ordered(c)
    PROVE  Ordered(c)'
<1> DEFINE q == loop.todo
           m == Head(loop.todo)
<1>1. /\ UNCHANGED <<rt, feed, pendingAppend>>
      /\ loop.pc \in {"reset", "pending"} /\ loop'.pc = loop.pc /\ loop'.conn = c
      /\ call["loop"] = NoCall /\ call'["loop"] # NoCall /\ call'["loop"].msg = m
      /\ loop'.todo = Tail(q) /\ q \in Seq(Message) /\ q # <<>> /\ m \in Message
  BY SendEffect
<1>2. (Awaiting(c)' <=> Awaiting(c)) /\ Stream(c)' = Stream(c)
  BY SendFrames
<1>3. Shown(c)' = Shown(c) /\ Held(c)' = Held(c) /\ Coming(c)' \subseteq Coming(c)
  BY <1>1, <1>2, ComingFrame DEF Shown, Held
<1>4. ~Awaiting(c)' => Increasing(Stream(c))'
  BY <1>2 DEF Ordered
<1>5. Busy(c) /\ Busy(c)' /\ Called(c) = {} /\ Going(c) = Lives(q) /\ Going(c)' = Lives(Tail(q))
      /\ Called(c)' = (IF m.kind = "append" THEN {m.n} ELSE {})
  BY <1>1 DEF Busy, Called, Going
<1>6. m = Head(q) /\ q = loop.todo
  OBVIOUS
<1>. HIDE DEF q, m
<1>7. Increasing(q)
  BY <1>5, <1>6 DEF Ordered
<1>8. /\ Head(q) = q[1] /\ 1 \in DOMAIN q
      /\ \A i \in DOMAIN Tail(q) : i + 1 \in DOMAIN q /\ i + 1 # 1 /\ Tail(q)[i] = q[i + 1]
  BY <1>1, Taken
<1>9. CASE loop.pc = "reset"
  <2>1. \A i \in DOMAIN q : q[i].kind \in {"part", "reset"}
    BY <1>6, <1>9 DEF LoopFooting, LoopCalls
  <2>2. Lives(q) = {} /\ m.kind # "append"
    BY <1>6, <1>8, <2>1, NoLives
  <2>3. Lives(Tail(q)) = {} /\ Increasing(Tail(q))
    BY <1>8, <2>1, NoLives
  <2>. QED
    BY <1>1, <1>3, <1>4, <1>5, <2>2, <2>3, OrderedFewer
<1>10. CASE loop.pc = "pending"
  <2>1. \A i \in DOMAIN q : q[i].kind = "append"
    BY <1>6, <1>10 DEF LoopFooting, LoopCalls
  <2>2. /\ Lives(q) = Lives(Tail(q)) \cup {m.n} /\ Increasing(Tail(q)) /\ m.kind = "append"
        /\ \A a \in Lives(Tail(q)) : m.n < a
    BY <1>1, <1>6, <1>7, <1>8, <2>1, TailLives
  <2>. QED
    BY <1>1, <1>3, <1>4, <1>5, <2>2 DEF Ordered, Below
<1>. QED
  BY <1>1, <1>9, <1>10

\* Subscribe is over with nothing left to be sent.
LEMMA OrderedRest ==
    ASSUME NEW c \in Conn, StreamTyped, LoopFooting, SubscribeClear \/ SubscribeReturn,
           loop.conn = c, Sound(c)', Ordered(c)
    PROVE  Ordered(c)'
<1>1. UNCHANGED <<rt, feed, pendingAppend>>
  BY RestEffect
<1>2. ~Awaiting(c)' /\ ~Awaiting(c) /\ ~Busy(c)' /\ Stream(c)' = Stream(c)
  BY RestFrames
<1>3. /\ Shown(c)' = Shown(c) /\ Held(c)' = Held(c) /\ Coming(c)' \subseteq Coming(c)
      /\ Called(c)' = {} /\ Going(c)' = {}
  BY <1>1, <1>2, ComingFrame DEF Shown, Held, Called, Going
<1>4. Increasing(Stream(c))'
  BY <1>2 DEF Ordered
<1>. QED
  BY <1>2, <1>3, <1>4, OrderedFewer

\* What was held back is newer than what is shown.
LEMMA OrderedFlush ==
    ASSUME NEW c \in Conn, StreamTyped, LoopFooting, SubscribeFlush, loop.conn = c, Sound(c)',
           Ordered(c), HeldInOrder(c)
    PROVE  Ordered(c)'
<1>1. /\ UNCHANGED <<rt, feed>> /\ call'["loop"] = NoCall
      /\ loop'.todo = pendingAppend[c] /\ pendingAppend'[c] = <<>>
  BY FlushEffect
<1>2. ~Awaiting(c)' /\ ~Awaiting(c) /\ Busy(c)' /\ Stream(c)' = Stream(c)
  BY FlushFrames
<1>3. /\ Shown(c)' = Shown(c) /\ Held(c)' = {} /\ Coming(c)' \subseteq Coming(c)
      /\ Called(c)' = {} /\ Going(c)' = Held(c)
  BY <1>1, <1>2, ComingFrame, EmptyFrames DEF Shown, Held, Called, Going
<1>4. Increasing(Stream(c))' /\ Increasing(loop.todo)'
  BY <1>1, <1>2 DEF Ordered, HeldInOrder
<1>. QED
  BY <1>3, <1>4 DEF Ordered, HeldInOrder, Below

\* The frame of a call is newer than what is shown and older than the rest.
LEMMA OrderedPut ==
    ASSUME NEW c \in Conn, StreamTyped, LoopFooting, NEW p \in {"loop", "closer"}, PutMove(p, c),
           Sound(c), Ordered(c), UNCHANGED <<rt, feed>>
    PROVE  Ordered(c)'
<1> DEFINE s == Stream(c)
           m == call[p].msg
<1>1. /\ Awaiting(c)' => Awaiting(c)
      /\ s' = Append(s, m) /\ m \in Message /\ s \in Seq(Message)
      /\ p = "loop" => Busy(c) /\ ~Awaiting(c)'
      /\ p = "closer" => m = Ended /\ call'["loop"] = call["loop"]
      /\ Awaiting(c) /\ ~Awaiting(c)' => p = "loop" /\ m.kind = "reset"
      /\ ~Awaiting(c) => m.kind # "reset"
  BY PutFrames, StreamIs
<1>2. /\ call[p] # NoCall /\ call'[p] = NoCall /\ pendingAppend'[c] = pendingAppend[c]
      /\ loop' = loop /\ (Busy(c)' <=> Busy(c))
  BY DEF PutMove, Busy
<1>3. Stream(c) = s /\ Stream(c)' = s' /\ call[p].msg = m
  OBVIOUS
<1>. HIDE DEF s, m
<1>4. Held(c)' = Held(c) /\ Coming(c)' \subseteq Coming(c) /\ Going(c)' = Going(c)
      /\ (Busy(c)' => Increasing(loop.todo)')
  BY <1>2, ComingFrame DEF Held, Going, Ordered
<1>5. /\ p = "loop" => /\ Called(c)' = {}
                       /\ Called(c) = IF m.kind = "append" THEN {m.n} ELSE {}
      /\ p = "closer" => Called(c)' = Called(c)
  BY <1>1, <1>2, <1>3 DEF Called
<1>6. CASE Awaiting(c) /\ ~Awaiting(c)'
  <2>1. p = "loop" /\ m.kind = "reset"
    BY <1>1, <1>6
  <2>2. Lives(s') = {} /\ Increasing(s')
    BY <1>1, <2>1, AppendReset
  <2>3. Shown(c)' = {} /\ Called(c)' = {} /\ Increasing(Stream(c))'
    BY <1>3, <1>5, <1>6, <2>1, <2>2 DEF Shown
  <2>. QED
    BY <1>4, <2>3, OrderedFewer
<1>7. CASE Awaiting(c) /\ Awaiting(c)'
  <2>1. Shown(c)' = {} /\ Called(c)' = Called(c)
    BY <1>1, <1>5, <1>7 DEF Shown
  <2>. QED
    BY <1>4, <1>7, <2>1, OrderedFewer
<1>8. CASE ~Awaiting(c)
  <2>1. ~Awaiting(c)' /\ m.kind # "reset" /\ Increasing(s) /\ Shown(c) = Lives(s)
        /\ Shown(c)' = Lives(s')
    BY <1>1, <1>3, <1>8 DEF Ordered, Shown
  <2>2. Lives(s') = Lives(s) \cup (IF m.kind = "append" THEN {m.n} ELSE {})
    BY <1>1, <2>1, AppendLives
  <2>3. CASE m.kind = "append"
    <3>1. p = "loop" /\ Called(c) = {m.n} /\ Called(c)' = {}
      BY <1>1, <1>5, <2>3, Kinds
    <3>2. \A a \in Lives(s) : a < m.n
      BY <2>1, <3>1 DEF Ordered, Below
    <3>3. Increasing(s')
      BY <1>1, <2>1, <2>3, <3>2, AppendLives
    <3>4. Held(c) = {}
      <4>1. Busy(c) /\ call["loop"] # NoCall /\ call["loop"].msg.kind = "append"
        BY <1>1, <1>2, <1>3, <2>3, <3>1
      <4>2. loop.pc = "pending" /\ loop.conn = c
        BY <4>1 DEF Busy, LoopFooting, LoopCalls
      <4>3. pendingAppend[c] = <<>>
        BY <4>2 DEF Sound, LoopFooting, OutcomeFits
      <4>. QED
        BY <4>3, EmptyFrames DEF Held
    <3>. QED
      BY <1>3, <1>4, <2>1, <2>2, <2>3, <3>1, <3>3, <3>4 DEF Ordered, Below
  <2>4. CASE m.kind # "append"
    <3>1. Shown(c)' = Shown(c) /\ Called(c)' \subseteq Called(c)
      BY <1>5, <2>1, <2>2, <2>4
    <3>2. Increasing(s')
      BY <1>1, <2>1, <2>4, AppendLives
    <3>. QED
      BY <1>3, <1>4, <3>1, <3>2, OrderedFewer
  <2>. QED
    BY <2>3, <2>4
<1>. QED
  BY <1>1, <1>6, <1>7, <1>8

\* Calls keep the order.
LEMMA OrderedEnqueue ==
    ASSUME NEW c \in Conn, StreamTyped, LoopFooting, NEW p \in {"loop", "closer"},
           enqueuePaneMessage(p), Sound(c)', Ordered(c)
    PROVE  Ordered(c)'
<1>1. /\ Sound(c) /\ UNCHANGED <<rt, feed, received, pendingAppend, loop>>
      /\ PutMove(p, c) \/ Untouched(c) \/ PopMove(c)
  BY EnqueueEffect
<1>2. Coming(c)' \subseteq Coming(c)
  BY <1>1, ComingFrame
<1>3. CASE PutMove(p, c)
  BY <1>1, <1>3, OrderedPut
<1>4. CASE Untouched(c)
  <2>1. Busy(c)' <=> Busy(c)
    BY <1>1 DEF Busy
  <2>. QED
    BY <1>1, <1>2, <1>4, <2>1, OrderedFrame DEF Untouched
<1>5. CASE PopMove(c)
  <2>1. Awaiting(c) /\ Awaiting(c)' /\ (Busy(c)' <=> Busy(c))
    BY <1>1, <1>5, PopFrames DEF Busy
  <2>2. Shown(c)' = {} /\ Going(c)' = Going(c) /\ Held(c)' = Held(c)
    BY <1>1, <2>1 DEF Shown, Going, Held
  <2>3. Called(c)' = Called(c)
    BY <1>5, <2>1 DEF Called, PopMove
  <2>4. Busy(c)' => Increasing(loop.todo)'
    BY <1>1, <2>1 DEF Ordered
  <2>. QED
    BY <1>2, <2>1, <2>2, <2>3, <2>4, OrderedFewer
<1>. QED
  BY <1>1, <1>3, <1>4, <1>5

\* The sender keeps the order.
LEMMA OrderedConnSend ==
    ASSUME NEW c \in Conn, StreamTyped, NEW d \in Conn, ConnSend(d) \/ ConnSendFails(d), Sound(c)',
           Ordered(c)
    PROVE  Ordered(c)'
<1>1. /\ UNCHANGED <<rt, feed, pendingAppend, loop, call, outcome>>
      /\ lossy[c] => lossy'[c]
      /\ d # c => received'[c] = received[c] /\ outbound'[c] = outbound[c]
  BY DEF ConnSend, ConnSendFails, paneVars, tmuxVars, histVars, StreamTyped
<1>2. ~lossy[c] /\ ~lossy'[c]
  BY <1>1, SoundBefore
<1>3. Coming(c)' \subseteq Coming(c)
  BY <1>1, ComingFrame
<1>4. CASE d # c
  BY <1>1, <1>3, <1>4, OrderedFrame
<1>5. CASE d = c
  <2>1. ConnSend(c)
    BY <1>2, <1>5 DEF ConnSendFails, StreamTyped
  <2>2. /\ Lives(Stream(c)') = Lives(Stream(c))
        /\ Increasing(Stream(c)) => Increasing(Stream(c)')
    BY <1>2, <2>1, ConnSendStream
  <2>3. (Awaiting(c)' <=> Awaiting(c)) /\ (Busy(c)' <=> Busy(c))
    BY <1>1 DEF Awaiting, Busy
  <2>4. /\ Shown(c)' = Shown(c) /\ Going(c)' = Going(c) /\ Held(c)' = Held(c)
        /\ Called(c)' = Called(c)
    BY <1>1, <2>2, <2>3 DEF Shown, Going, Held, Called
  <2>5. (~Awaiting(c)' => Increasing(Stream(c))') /\ (Busy(c)' => Increasing(loop.todo)')
    BY <1>1, <2>2, <2>3 DEF Ordered
  <2>. QED
    BY <1>3, <2>4, <2>5, OrderedFewer
<1>. QED
  BY <1>4, <1>5

\* A chunk held back is newer than those before it.
LEMMA OrderedHold ==
    ASSUME NEW c \in Conn, NEW d \in Conn, NEW l \in Loop, StreamTyped, ChunksOnce, LoopFooting,
           loops = 1, RealtimeHold(l, d), Sound(c)', Ordered(c)
    PROVE  Ordered(c)'
<1>1. /\ UNCHANGED <<loop, call, received, outbound, feed>>
      /\ rt[l].pc = "each" /\ d \in rt[l].todo /\ RealtimeNext(l, d)
      /\ d # c => pendingAppend'[c] = pendingAppend[c]
      /\ d = c => HoldMove(l, c)
  BY HoldEffect
<1>2. /\ Coming(c)' \subseteq Coming(c)
      /\ d = c => rt[l].k \in Coming(c) /\ \A a \in Coming(c)' : rt[l].k < a
  BY <1>1, ComingNext
<1>3. CASE d # c
  BY <1>1, <1>2, <1>3, OrderedFrame
<1>4. CASE d = c
  <2> DEFINE q == pendingAppend[c]
             e == Live(rt[l].k)
  <2>1. q \in Seq(Message) /\ e \in Message /\ e.kind = "append" /\ e.n = rt[l].k
    BY <1>1, StreamIs, InRt DEF Live
  <2>2. pendingAppend'[c] = Append(q, e)
    BY <1>1, <1>4 DEF HoldMove
  <2>3. Held(c) = Lives(q)
    BY DEF Held
  <2>. HIDE DEF q, e
  <2>4. Held(c)' = Held(c) \cup {rt[l].k}
    BY <2>1, <2>2, <2>3, AppendLives DEF Held
  <2>5. (Awaiting(c)' <=> Awaiting(c)) /\ (Busy(c)' <=> Busy(c)) /\ Stream(c)' = Stream(c)
    BY <1>1 DEF Awaiting, Busy, Stream
  <2>6. Shown(c)' = Shown(c) /\ Going(c)' = Going(c) /\ Called(c)' = Called(c)
    BY <1>1, <2>5 DEF Shown, Going, Called
  <2>7. (~Awaiting(c)' => Increasing(Stream(c))') /\ (Busy(c)' => Increasing(loop.todo)')
    BY <1>1, <2>5 DEF Ordered
  <2>. QED
    BY <1>2, <1>4, <2>4, <2>6, <2>7 DEF Ordered, Below
<1>. QED
  BY <1>3, <1>4

\* A chunk let through outside the flush finds nothing older on its way.
LEMMA OrderedRtSend ==
    ASSUME NEW c \in Conn, NEW l \in Loop, StreamTyped, ChunksOnce, LoopFooting,
           loops = 1, RealtimeSend(l), Sound(c)', ~raced'[c], Ordered(c), PassedUnheld(c)
    PROVE  Ordered(c)'
<1>1. /\ Sound(c) /\ UNCHANGED <<loop, call, received, pendingAppend, feed>>
      /\ rt[l].pc = "send" /\ rt[l].conn \in Conn /\ rt[l].conn \in rt[l].todo
      /\ RealtimeNext(l, rt[l].conn)
      /\ rt[l].conn # c => outbound'[c] = outbound[c]
      /\ rt[l].conn = c =>
            /\ outbound'[c] = Append(outbound[c], Live(rt[l].k))
            /\ raced'[c] <=> raced[c] \/ (loop.pc \in {"flush", "pending"} /\ loop.conn = c)
  BY RtSendEffect
<1>2. /\ Coming(c)' \subseteq Coming(c)
      /\ rt[l].conn = c => rt[l].k \in Coming(c) /\ \A a \in Coming(c)' : rt[l].k < a
  BY <1>1, ComingNext
<1>3. CASE rt[l].conn # c
  BY <1>1, <1>2, <1>3, OrderedFrame
<1>4. CASE rt[l].conn = c
  <2> DEFINE s == Stream(c)
             e == Live(rt[l].k)
  <2>1. s \in Seq(Message) /\ e \in Message /\ e.kind = "append" /\ e.n = rt[l].k
    BY <1>1, StreamIs, InRt DEF Live
  <2>2. s' = Append(s, e)
    <3> DEFINE a == received[c]
               b == outbound[c]
    <3>1. a \in Seq(Message) /\ b \in Seq(Message) /\ s = a \o b
      BY StreamIs
    <3>2. s' = a \o Append(b, e)
      BY <1>1, <1>4 DEF Stream
    <3>. HIDE DEF a, b, s, e
    <3>. QED
      BY <2>1, <3>1, <3>2, Joined
  <2>3. (Awaiting(c)' <=> Awaiting(c)) /\ (Busy(c)' <=> Busy(c))
    BY <1>1 DEF Awaiting, Busy
  <2>4. Called(c)' = Called(c) /\ Going(c)' = Going(c) /\ Held(c)' = Held(c)
        /\ (Busy(c)' => Increasing(loop.todo)')
    BY <1>1, <2>3 DEF Called, Going, Held, Ordered
  <2>5. Stream(c) = s /\ Stream(c)' = s'
    OBVIOUS
  <2>. HIDE DEF s, e
  <2>6. CASE Awaiting(c)
    <3>1. Shown(c)' = {}
      BY <2>3, <2>6 DEF Shown
    <3>. QED
      BY <1>2, <2>3, <2>4, <2>6, <3>1, OrderedFewer
  <2>7. CASE ~Awaiting(c)
    <3>1. Shown(c) = Lives(s) /\ Shown(c)' = Lives(s') /\ Increasing(s)
      BY <2>3, <2>5, <2>7 DEF Shown, Ordered
    <3>2. \A a \in Lives(s) : a < e.n
      BY <1>2, <1>4, <2>1, <3>1 DEF Ordered, Below
    <3>3. Lives(s') = Lives(s) \cup {rt[l].k} /\ Increasing(s')
      BY <2>1, <2>2, <3>1, <3>2, AppendLives
    <3>4. ~ (loop.pc \in {"flush", "pending"} /\ loop.conn = c)
      BY <1>1, <1>4
    <3>5. Called(c) = {} /\ Going(c) = {}
      <4>1. CASE Busy(c)
        <5>1. loop.pc = "reset"
          BY <3>4, <4>1 DEF Busy
        <5>2. /\ \A i \in DOMAIN loop.todo : loop.todo[i].kind # "append"
              /\ call["loop"] # NoCall => call["loop"].msg.kind # "append"
          BY <5>1 DEF LoopFooting, LoopCalls
        <5>. QED
          BY <4>1, <5>2, NoLives DEF Called, Going
      <4>2. CASE ~Busy(c)
        BY <4>2 DEF Called, Going
      <4>. QED
        BY <4>1, <4>2
    <3>6. Held(c) = {}
      <4>1. CASE outcome[c] = "ok"
        BY <4>1, EmptyFrames DEF LoopFooting, OutcomeFits, Held
      <4>2. CASE outcome[c] # "ok"
        <5>1. outcome[c] = "busy" /\ loop.pc = "reset"
          BY <1>1, <3>4, <4>2 DEF Sound, LoopFooting, OutcomeFits
        <5>2. c \in resetPending
          BY <5>1 DEF LoopFooting, OutcomeFits
        <5>3. pendingAppend[c] = <<>>
          BY <1>1, <1>4, <5>2 DEF PassedUnheld
        <5>. QED
          BY <5>3, EmptyFrames DEF Held
      <4>. QED
        BY <4>1, <4>2
    <3>. QED
      BY <1>2, <1>4, <2>4, <2>5, <3>1, <3>3, <3>5, <3>6 DEF Ordered, Below
  <2>. QED
    BY <2>6, <2>7
<1>. QED
  BY <1>3, <1>4

\* A chunk that tmux prints is newer than all a connection has seen.
LEMMA OrderedTmuxOutput ==
    ASSUME NEW c \in Conn, StreamTyped, ChunksOnce, LoopFooting, TmuxOutput, Whole(c), Ordered(c)
    PROVE  Ordered(c)'
<1>1. /\ UNCHANGED <<rt, loop, call, received, outbound, pendingAppend>>
  BY DEF TmuxOutput, paneVars, histVars
<1>2. Coming(c)' \subseteq Coming(c) \cup {printed + 1} /\ printed \in Nat
  BY ComingOutput, InFeed
<1>3. (Awaiting(c)' <=> Awaiting(c)) /\ (Busy(c)' <=> Busy(c)) /\ Stream(c)' = Stream(c)
  BY <1>1 DEF Awaiting, Busy, Stream
<1>4. Shown(c)' = Shown(c) /\ Called(c)' = Called(c) /\ Going(c)' = Going(c) /\ Held(c)' = Held(c)
  BY <1>1, <1>3 DEF Shown, Called, Going, Held
<1>5. (~Awaiting(c)' => Increasing(Stream(c))') /\ (Busy(c)' => Increasing(loop.todo)')
  BY <1>1, <1>3 DEF Ordered
<1>6. \A a \in Shown(c) \cup Called(c) \cup Going(c) : a \in Nat /\ a <= printed
  BY SeenPrinted
<1>7. \A a \in Shown(c) \cup Called(c) \cup Going(c) : a < printed + 1
  BY <1>2, <1>6
<1>8. Below(Shown(c) \cup Called(c) \cup Going(c), Coming(c)')
  BY <1>2, <1>7 DEF Ordered, Below
<1>. QED
  BY <1>4, <1>5, <1>8 DEF Ordered

\* Steps of Subscribe, for its own connection and for the others.
LEMMA OrderedSubscribe ==
    ASSUME NEW c \in Conn, StreamTyped, ChunksOnce, LoopFooting, SubscribeStep, Sound(c)', ~raced'[c],
           HeldInOrder(c), Sound(c) /\ ~raced[c] => Ordered(c)
    PROVE  Ordered(c)'
<1>1. loop.pc # "idle" /\ loop \in LoopState
  BY InLoop DEF SubscribeStep, SubscribeRegister, SubscribeCapture, SubscribeSend, SubscribeClear,
     SubscribeFlush, SubscribeFailed, SubscribeReturn, SubscribeReturnError
<1>2. CASE loop.conn = c
  <2>1. CASE SubscribeRegister
    <3>1. outcome'[c] = "busy" /\ loop'.pc = "capture"
      BY <1>1, <1>2, <2>1 DEF SubscribeRegister, StreamTyped, LoopState
    <3>. QED
      BY <3>1 DEF Sound
  <2>2. CASE SubscribeFailed
    <3>1. outcome'[c] # "ok" /\ loop'.pc = "ending"
      BY <1>1, <1>2, <2>2 DEF SubscribeFailed, LoopFooting, Registering, LoopState
    <3>. QED
      BY <3>1 DEF Sound
  <2>3. CASE SubscribeReturnError
    <3>1. outcome'[c] \in {"missing", "failed"}
      BY <1>2, <2>3 DEF SubscribeReturnError, StreamTyped
    <3>. QED
      BY <3>1 DEF Sound
  <2>4. CASE SubscribeCapture
    BY <1>2, <2>4, OrderedCapture
  <2>5. CASE SubscribeSend
    <3>1. Sound(c) /\ raced'[c] = raced[c]
      BY <1>2, <2>5, SendEffect
    <3>. QED
      BY <1>2, <2>5, <3>1, OrderedSend
  <2>6. CASE SubscribeClear \/ SubscribeReturn
    <3>1. Sound(c) /\ raced'[c] = raced[c]
      BY <1>2, <2>6, RestEffect
    <3>. QED
      BY <1>2, <2>6, <3>1, OrderedRest
  <2>7. CASE SubscribeFlush
    <3>1. Sound(c) /\ raced'[c] = raced[c]
      BY <1>2, <2>7, FlushEffect
    <3>. QED
      BY <1>2, <2>7, <3>1, OrderedFlush
  <2>. QED
    BY <2>1, <2>2, <2>3, <2>4, <2>5, <2>6, <2>7 DEF SubscribeStep
<1>3. CASE loop.conn # c
  <2>1. UNCHANGED <<rt, feed>> /\ received' = received /\ outbound' = outbound
    BY DEF SubscribeStep, SubscribeRegister, SubscribeCapture, SubscribeSend, SubscribeClear,
       SubscribeFlush, SubscribeFailed, SubscribeReturn, SubscribeReturnError, tmuxVars, histVars
  <2>2. pendingAppend'[c] = pendingAppend[c]
    BY <1>3 DEF SubscribeStep, SubscribeRegister, SubscribeCapture, SubscribeSend, SubscribeClear,
       SubscribeFlush, SubscribeFailed, SubscribeReturn, SubscribeReturnError, paneVars, StreamTyped
  <2>3. outcome'[c] = outcome[c]
    BY <1>3 DEF SubscribeStep, SubscribeRegister, SubscribeCapture, SubscribeSend, SubscribeClear,
       SubscribeFlush, SubscribeFailed, SubscribeReturn, SubscribeReturnError, StreamTyped
  <2>4. lossy'[c] = lossy[c] /\ raced'[c] = raced[c]
    BY <1>3 DEF SubscribeStep, SubscribeRegister, SubscribeCapture, SubscribeSend, SubscribeClear,
       SubscribeFlush, SubscribeFailed, SubscribeReturn, SubscribeReturnError, histVars, StreamTyped
  <2>5. loop'.pc = "idle" \/ loop'.conn = loop.conn
    <3>. HIDE DEF termOutputMessages
    <3>1. CASE SubscribeReturn \/ SubscribeReturnError
      BY <3>1 DEF SubscribeReturn, SubscribeReturnError
    <3>2. CASE SubscribeRegister \/ SubscribeCapture \/ SubscribeSend
      BY <1>1, <3>2 DEF SubscribeRegister, SubscribeCapture, SubscribeSend, LoopState
    <3>3. CASE SubscribeClear \/ SubscribeFlush \/ SubscribeFailed
      BY <1>1, <3>3 DEF SubscribeClear, SubscribeFlush, SubscribeFailed, LoopState
    <3>. QED
      BY <3>1, <3>2, <3>3 DEF SubscribeStep
  <2>6. Sound(c)
    BY <1>1, <1>3, <2>3, <2>4 DEF Sound, LoopFooting, OutcomeFits
  <2>7. ~Busy(c) /\ ~Busy(c)'
    BY <1>3, <2>5 DEF Busy
  <2>8. Coming(c)' \subseteq Coming(c)
    BY <2>1, ComingFrame
  <2>. QED
    BY <2>1, <2>2, <2>4, <2>6, <2>7, <2>8, OrderedFrame
<1>. QED
  BY <1>2, <1>3

\* Steps of the realtimeLoop.
LEMMA OrderedRealtime ==
    ASSUME NEW c \in Conn, NEW l \in Loop, StreamTyped, ChunksOnce, LoopFooting, RealtimeStep(l),
           Sound(c)', ~raced'[c], loops = 1, PassedUnheld(c), Sound(c) /\ ~raced[c] => Ordered(c)
    PROVE  Ordered(c)'
<1>1. CASE RealtimeTake(l)
  <2>1. /\ UNCHANGED <<loop, call, received, outbound, pendingAppend, outcome, lossy, raced>>
    BY <1>1 DEF RealtimeTake, paneVars
  <2>2. Sound(c) /\ Coming(c)' \subseteq Coming(c)
    BY <1>1, <2>1, SoundBefore, ComingTake
  <2>. QED
    BY <2>1, <2>2, OrderedFrame
<1>2. CASE RealtimeSend(l)
  <2>1. Sound(c) /\ (~raced'[c] => ~raced[c])
    BY <1>2, RtSendEffect
  <2>. QED
    BY <1>2, <2>1, OrderedRtSend
<1>3. ASSUME NEW d \in Conn, RealtimeHold(l, d) PROVE Ordered(c)'
  <2>1. Sound(c) /\ raced'[c] = raced[c]
    BY <1>3, HoldEffect
  <2>. QED
    BY <1>3, <2>1, OrderedHold
<1>4. ASSUME NEW d \in Conn, RealtimePass(l, d) PROVE Ordered(c)'
  <2>1. /\ UNCHANGED <<loop, call, received, outbound, pendingAppend, outcome, lossy, raced, feed>>
    BY <1>4 DEF RealtimePass, paneVars, histVars, tmuxVars
  <2>2. /\ rt'[l].k = rt[l].k /\ rt'[l].todo = rt[l].todo /\ rt[l].pc # "idle"
        /\ \A m \in Loop : m # l => rt'[m] = rt[m]
    BY <1>4 DEF RealtimePass, StreamTyped
  <2>3. Sound(c) /\ Coming(c)' \subseteq Coming(c)
    BY <2>1, <2>2, SoundBefore, ComingFrame
  <2>. QED
    BY <2>1, <2>3, OrderedFrame
<1>. QED
  BY <1>1, <1>2, <1>3, <1>4 DEF RealtimeStep

\* Every step keeps streams in order.
LEMMA FramesOrderedStep ==
    ASSUME StreamTyped, ChunksOnce, LoopFooting, FramesWhole, FramesOrdered, [Next]_vars
    PROVE  FramesOrdered'
<1> SUFFICES ASSUME loops' = 1, NEW c \in Conn
             PROVE  /\ HeldInOrder(c)' /\ PassedUnheld(c)'
                    /\ Sound(c)' /\ ~raced'[c] => Ordered(c)'
  BY DEF FramesOrdered
<1>1. loops = 1
  BY LoopsGrow
<1>2. /\ HeldInOrder(c) /\ PassedUnheld(c)
      /\ Sound(c) /\ ~raced[c] => Ordered(c)
  BY <1>1 DEF FramesOrdered
<1>3. HeldInOrder(c)' /\ PassedUnheld(c)'
  BY <1>1, <1>2, HeldInOrderStep, PassedUnheldStep
<1> SUFFICES ASSUME Sound(c)', ~raced'[c]
             PROVE  Ordered(c)'
  BY <1>3
<1>4. ASSUME UNCHANGED <<received, outbound, pendingAppend, rt, feed>>,
             UNCHANGED <<loop, outcome, lossy, raced>>, call'["loop"] = call["loop"]
      PROVE  Ordered(c)'
  <2>1. Sound(c)
    BY <1>4, SoundBefore
  <2>2. Coming(c)' \subseteq Coming(c)
    BY <1>4, ComingFrame
  <2>. QED
    BY <1>2, <1>4, <2>1, <2>2, OrderedFrame
<1>5. CASE TmuxOutput
  <2>1. UNCHANGED <<loop, outcome, lossy, raced>>
    BY <1>5 DEF TmuxOutput, histVars
  <2>2. Sound(c)
    BY <2>1, SoundBefore
  <2>. QED
    BY <1>2, <1>5, <2>1, <2>2, OrderedTmuxOutput DEF FramesWhole
<1>6. CASE UNCHANGED vars \/ TmuxExit \/ ClosePane \/ NotifyEnded \/ NotifyEndedReturn
  BY <1>4, <1>6 DEF vars, TmuxExit, ClosePane, NotifyEnded, NotifyEndedReturn, paneVars, tmuxVars,
     histVars
<1>7. ASSUME NEW d \in Conn, NotifyEndedSend(d) PROVE Ordered(c)'
  BY <1>4, <1>7 DEF NotifyEndedSend, paneVars, tmuxVars, histVars, StreamTyped
<1>8. ASSUME NEW d \in Conn, NEW gap \in BOOLEAN, SelectPane(d, gap) PROVE Ordered(c)'
  <2>1. /\ UNCHANGED <<call, received, outbound, pendingAppend, rt, feed>>
        /\ UNCHANGED <<outcome, lossy, raced>> /\ loop.pc = "idle" /\ loop'.pc = "register"
    BY <1>8 DEF SelectPane, paneVars, tmuxVars, histVars
  <2>2. Sound(c) /\ ~Busy(c) /\ ~Busy(c)'
    BY <2>1 DEF Sound, Busy
  <2>3. Coming(c)' \subseteq Coming(c)
    BY <2>1, ComingFrame
  <2>. QED
    BY <1>2, <2>1, <2>2, <2>3, OrderedFrame
<1>9. ASSUME NEW d \in Conn, EvictWatch(d) \/ CloseUnsubscribe(d) PROVE Ordered(c)'
  <2>1. /\ UNCHANGED <<loop, call, received, outbound, rt, feed, lossy, raced>>
        /\ d # c => pendingAppend'[c] = pendingAppend[c] /\ outcome'[c] = outcome[c]
        /\ d = c => outcome'[c] \notin {"busy", "ok"}
    BY <1>9 DEF EvictWatch, CloseUnsubscribe, Unsubscribe, tmuxVars, histVars, StreamTyped
  <2>2. d # c
    BY <2>1 DEF Sound
  <2>3. Sound(c) /\ Coming(c)' \subseteq Coming(c)
    BY <2>1, <2>2, ComingFrame DEF Sound
  <2>. QED
    BY <1>2, <2>1, <2>2, <2>3, OrderedFrame
<1>10. ASSUME NEW p \in {"loop", "closer"}, enqueuePaneMessage(p) PROVE Ordered(c)'
  <2>1. Sound(c) /\ raced' = raced
    BY <1>10, EnqueueEffect
  <2>. QED
    BY <1>2, <1>10, <2>1, OrderedEnqueue
<1>11. ASSUME NEW d \in Conn, ConnSend(d) \/ ConnSendFails(d) PROVE Ordered(c)'
  <2>1. UNCHANGED <<loop, outcome, raced>> /\ (lossy[c] => lossy'[c])
    BY <1>11 DEF ConnSend, ConnSendFails, histVars, StreamTyped
  <2>2. Sound(c)
    BY <2>1, SoundBefore
  <2>. QED
    BY <1>2, <1>11, <2>1, <2>2, OrderedConnSend
<1>12. CASE SubscribeStep
  BY <1>2, <1>12, OrderedSubscribe
<1>13. ASSUME NEW l \in Loop, RealtimeStep(l) PROVE Ordered(c)'
  BY <1>1, <1>2, <1>13, OrderedRealtime
<1>. QED
  BY <1>5, <1>6, <1>7, <1>8, <1>9, <1>10, <1>11, <1>12, <1>13 DEF Next, CloseStep

-------------------------------------------------------------------------------
(* Who watched is told.                                                         *)

\* A connection told, or marked as having lost a frame; one being told.
Told(c) == sawEnded[c] \/ lossy[c] \/ Ended \in Range(outbound[c])
Telling(c) == call["closer"] # NoCall /\ call["closer"].conn = c

\* One more frame, or one less, in a channel.
LEMMA EndedQueued ==
    ASSUME NEW q \in Seq(Message)
    PROVE  /\ \A e \in Message : Ended \in Range(Append(q, e)) <=> Ended \in Range(q) \/ e = Ended
           /\ q # <<>> => (Ended \in Range(q) <=> Head(q) = Ended \/ Ended \in Range(Tail(q)))
<1>1. ASSUME NEW e \in Message
      PROVE  Ended \in Range(Append(q, e)) <=> Ended \in Range(q) \/ e = Ended
  <2> DEFINE p == Append(q, e)
  <2>1. Len(q) \in Nat /\ DOMAIN q = 1..Len(q) /\ DOMAIN p = 1..(Len(q) + 1)
    OBVIOUS
  <2>2. /\ \A i \in DOMAIN q : i \in DOMAIN p /\ p[i] = q[i]
        /\ Len(q) + 1 \in DOMAIN p /\ p[Len(q) + 1] = e
        /\ \A i \in DOMAIN p : i \in DOMAIN q \/ i = Len(q) + 1
    BY <2>1
  <2>. HIDE DEF p
  <2>3. Ended \in Range(p) <=> Ended \in Range(q) \/ e = Ended
    BY <2>2 DEF Range
  <2>. QED
    BY <2>3 DEF p
<1>2. ASSUME q # <<>>
      PROVE  Ended \in Range(q) <=> Head(q) = Ended \/ Ended \in Range(Tail(q))
  <2>1. /\ Head(q) = q[1] /\ 1 \in DOMAIN q
        /\ \A i \in DOMAIN Tail(q) : i + 1 \in DOMAIN q /\ Tail(q)[i] = q[i + 1]
    BY <1>2, Taken
  <2>2. \A i \in DOMAIN q : i = 1 \/ (i - 1 \in DOMAIN Tail(q) /\ Tail(q)[i - 1] = q[i])
    <3>1. Len(q) \in Nat /\ DOMAIN q = 1..Len(q) /\ DOMAIN Tail(q) = 1..(Len(q) - 1)
      BY <1>2
    <3>2. ASSUME NEW i \in DOMAIN q, i # 1 PROVE i - 1 \in DOMAIN Tail(q) /\ i - 1 + 1 = i
      BY <3>1, <3>2
    <3>. QED
      BY <2>1, <3>2
  <2>. QED
    BY <2>1, <2>2 DEF Range
<1>. QED
  BY <1>1, <1>2

\* What has to be shown of a step of another goroutine.
LEMMA EndedFrame ==
    ASSUME EndedTold, closer'.pc = closer.pc, closer'.todo = closer.todo,
           closer'.watching \subseteq closer.watching,
           closer.pc = "notify" => closer'.watching \subseteq subscribers',
           \A c \in closer'.watching : /\ Told(c) => Told(c)'
                                       /\ Telling(c) => Telling(c)' \/ Told(c)'
    PROVE  EndedTold'
<1>1. closer'.pc = "idle" => closer'.watching = {}
  BY DEF EndedTold
<1>2. ASSUME closer'.pc \in {"each", "unsub"}, NEW c \in closer'.watching
      PROVE  \/ Told(c)'
             \/ closer'.pc = "each" /\ (c \in closer'.todo \/ Telling(c)')
  <2>1. \/ Told(c)
        \/ closer.pc = "each" /\ (c \in closer.todo \/ Telling(c))
    BY <1>2 DEF EndedTold, Told, Telling
  <2>. QED
    BY <1>2, <2>1
<1>. QED
  BY <1>1, <1>2 DEF EndedTold, Told, Telling

\* A Subscribe takes nothing back: a connection that had lost a frame starts anew.
LEMMA EndedRegister ==
    ASSUME StreamTyped, EndedTold, SubscribeRegister
    PROVE  EndedTold'
<1>1. loop.conn \in Conn
  BY InLoop DEF SubscribeRegister
<1>2. /\ closer'.pc = closer.pc /\ closer'.todo = closer.todo
      /\ closer'.watching = (IF lossy[loop.conn] THEN closer.watching \ {loop.conn} ELSE closer.watching)
  BY DEF SubscribeRegister, StreamTyped
<1>3. /\ outbound' = outbound /\ sawEnded' = sawEnded /\ call' = call
      /\ subscribers \subseteq subscribers'
      /\ \A c \in Conn : c # loop.conn => lossy'[c] = lossy[c]
  BY DEF SubscribeRegister, StreamTyped
<1>4. closer'.watching \subseteq Conn
  BY <1>2 DEF StreamTyped
<1>5. ASSUME NEW c \in closer'.watching
      PROVE  (Told(c) => Told(c)') /\ (Telling(c) => Telling(c)')
  <2>1. lossy[c] => lossy'[c]
    BY <1>2, <1>3, <1>4
  <2>. QED
    BY <1>3, <2>1 DEF Told, Telling
<1>6. closer.pc = "notify" => closer'.watching \subseteq subscribers'
  BY <1>2, <1>3 DEF EndedTold
<1>. QED
  BY <1>2, <1>5, <1>6, EndedFrame

\* Whatever takes a pane.ended frame out of a channel marks the connection.
LEMMA EndedEnqueue ==
    ASSUME StreamTyped, LoopFooting, EndedTold, NEW p \in {"loop", "closer"}, enqueuePaneMessage(p)
    PROVE  EndedTold'
<1>1. UNCHANGED <<closer, subscribers, sawEnded>>
  BY DEF enqueuePaneMessage, EnqueueTry, EnqueuePop, EnqueuePutBack, EnqueuePut, paneVars, histVars
<1>2. call[p] # NoCall /\ call[p] \in CallState /\ call[p].conn \in Conn /\ call[p].msg \in Message
      /\ call[p].held \in Message
  BY InCall DEF enqueuePaneMessage, EnqueueTry, EnqueuePop, EnqueuePutBack, EnqueuePut
<1>3. \A o \in {"loop", "closer"} : o # p => call'[o] = call[o]
  BY DEF enqueuePaneMessage, EnqueueTry, EnqueuePop, EnqueuePutBack, EnqueuePut, StreamTyped, Return
<1>4. \A d \in Conn : /\ lossy[d] => lossy'[d]
                      /\ d # call[p].conn => outbound'[d] = outbound[d]
  BY <1>2 DEF enqueuePaneMessage, EnqueueTry, EnqueuePop, EnqueuePutBack, EnqueuePut, StreamTyped
<1>5. PICK c \in Conn, m \in Message, q \in Seq(Message) :
         c = call[p].conn /\ m = call[p].msg /\ q = outbound[c]
  BY <1>2, StreamIs
<1>6. \/ lossy'[c]
      \/ outbound'[c] = Append(q, m) /\ call'[p] = NoCall
      \/ outbound'[c] = q /\ call'[p] # NoCall /\ call'[p].conn = c
      \/ outbound'[c] = q /\ isAppendTermOutput(m) /\ call'[p] = NoCall
      \/ /\ q # <<>> /\ outbound'[c] = Tail(q) /\ isAppendTermOutput(Head(q))
         /\ call'[p] # NoCall /\ call'[p].conn = c
  <2>1. \A a \in {"pop", "put", "putback"} : [call[p] EXCEPT !.at = a] # NoCall
    <3>1. ASSUME NEW a \in {"pop", "put", "putback"} PROVE [call[p] EXCEPT !.at = a].at = a
      BY <1>2 DEF CallState
    <3>2. NoCall.at = "none"
      BY DEF NoCall
    <3>. QED
      BY <3>1, <3>2
  <2>2. CASE EnqueueTry(p)
    <3>1. CASE ~Full(c)
      <4>1. outbound' = [outbound EXCEPT ![c] = Append(@, m)] /\ call' = [call EXCEPT ![p] = NoCall]
        BY <1>5, <2>2, <3>1 DEF EnqueueTry, Return
      <4>. QED
        BY <1>5, <4>1 DEF StreamTyped
    <3>2. CASE Full(c) /\ isAppendTermOutput(m)
      <4>1. lossy' = [lossy EXCEPT ![c] = TRUE]
        BY <1>5, <2>2, <3>2 DEF EnqueueTry
      <4>. QED
        BY <4>1 DEF StreamTyped
    <3>3. CASE Full(c) /\ ~isAppendTermOutput(m)
      <4>1. call' = [call EXCEPT ![p].at = "pop"] /\ outbound' = outbound
        BY <1>5, <2>2, <3>3 DEF EnqueueTry
      <4>2. call'[p] = [call[p] EXCEPT !.at = "pop"]
        BY <4>1 DEF StreamTyped
      <4>3. call'[p].conn = c
        BY <1>2, <1>5, <4>2 DEF CallState
      <4>. QED
        BY <1>5, <2>1, <4>1, <4>2, <4>3
    <3>. QED
      BY <3>1, <3>2, <3>3
  <2>3. CASE EnqueuePop(p)
    <3>1. CASE q = <<>>
      <4>1. call' = [call EXCEPT ![p].at = "put"] /\ outbound' = outbound
        BY <1>5, <2>3, <3>1 DEF EnqueuePop
      <4>2. call'[p] = [call[p] EXCEPT !.at = "put"]
        BY <4>1 DEF StreamTyped
      <4>3. call'[p].conn = c
        BY <1>2, <1>5, <4>2 DEF CallState
      <4>. QED
        BY <1>5, <2>1, <4>1, <4>2, <4>3
    <3>2. CASE q # <<>> /\ isAppendTermOutput(Head(q))
      <4>1. call' = [call EXCEPT ![p].at = "put"] /\ outbound' = [outbound EXCEPT ![c] = Tail(q)]
        BY <1>5, <2>3, <3>2 DEF EnqueuePop
      <4>2. call'[p] = [call[p] EXCEPT !.at = "put"] /\ outbound'[c] = Tail(q)
        BY <1>2, <4>1 DEF StreamTyped
      <4>3. call'[p].conn = c
        BY <1>2, <1>5, <4>2 DEF CallState
      <4>. QED
        BY <2>1, <3>2, <4>2, <4>3
    <3>3. CASE q # <<>> /\ ~isAppendTermOutput(Head(q))
      <4>1. lossy' = [lossy EXCEPT ![c] = TRUE]
        BY <1>5, <2>3, <3>3 DEF EnqueuePop
      <4>. QED
        BY <4>1 DEF StreamTyped
    <3>. QED
      BY <3>1, <3>2, <3>3
  <2>4. CASE EnqueuePutBack(p)
    <3>1. lossy' = [lossy EXCEPT ![c] = TRUE]
      BY <1>5, <2>4 DEF EnqueuePutBack
    <3>. QED
      BY <3>1 DEF StreamTyped
  <2>5. CASE EnqueuePut(p)
    <3>1. CASE Full(c)
      BY <1>5, <2>5, <3>1 DEF EnqueuePut, StreamTyped
    <3>2. CASE ~Full(c)
      <4>1. outbound' = [outbound EXCEPT ![c] = Append(@, m)] /\ call' = [call EXCEPT ![p] = NoCall]
        BY <1>5, <2>5, <3>2 DEF EnqueuePut, Return
      <4>. QED
        BY <1>5, <4>1 DEF StreamTyped
    <3>. QED
      BY <3>1, <3>2
  <2>. QED
    BY <2>2, <2>3, <2>4, <2>5 DEF enqueuePaneMessage
<1>7. p = "closer" => m = Ended
  BY <1>2, <1>5 DEF LoopFooting
<1>8. ~isAppendTermOutput(Ended)
  BY DEF isAppendTermOutput, Ended
<1>9. /\ Ended \in Range(q) => Ended \in Range(outbound'[c]) \/ lossy'[c]
      /\ p = "closer" => Ended \in Range(outbound'[c]) \/ lossy'[c]
                            \/ (call'[p] # NoCall /\ call'[p].conn = c)
  <2>1. Ended \in Range(Append(q, m)) <=> Ended \in Range(q) \/ m = Ended
    BY EndedQueued
  <2>2. q # <<>> => (Ended \in Range(q) <=> Head(q) = Ended \/ Ended \in Range(Tail(q)))
    BY EndedQueued
  <2>3. /\ isAppendTermOutput(Head(q)) => Head(q) # Ended
        /\ p = "closer" => m = Ended /\ ~isAppendTermOutput(m)
    BY <1>7, <1>8
  <2>. HIDE DEF isAppendTermOutput
  <2>. QED
    BY <1>6, <2>1, <2>2, <2>3
<1>10. closer'.watching \subseteq Conn
  BY <1>1 DEF StreamTyped
<1>11. ASSUME NEW d \in Conn
       PROVE  /\ Told(d) => Told(d)'
              /\ Telling(d) => Telling(d)' \/ Told(d)'
  <2>1. CASE d # c
    <3>1. Told(d) => Told(d)'
      BY <1>1, <1>4, <1>5, <2>1 DEF Told
    <3>2. Telling(d) => Telling(d)'
      BY <1>3, <1>5, <2>1 DEF Telling
    <3>. QED
      BY <3>1, <3>2
  <2>2. CASE d = c
    <3>1. Told(d) => Told(d)'
      BY <1>1, <1>4, <1>5, <1>9, <2>2 DEF Told
    <3>2. Telling(d) => Telling(d)' \/ Told(d)'
      BY <1>3, <1>5, <1>9, <2>2 DEF Telling, Told
    <3>. QED
      BY <3>1, <3>2
  <2>. QED
    BY <2>1, <2>2
<1>12. closer.pc = "notify" => closer'.watching \subseteq subscribers'
  BY <1>1 DEF EndedTold
<1>. QED
  BY <1>1, <1>10, <1>11, <1>12, EndedFrame

\* The sender shows the frame or drops it and marks the connection.
LEMMA EndedConnSend ==
    ASSUME StreamTyped, EndedTold, NEW c \in Conn, ConnSend(c) \/ ConnSendFails(c)
    PROVE  EndedTold'
<1>1. UNCHANGED <<closer, subscribers, call>>
  BY DEF ConnSend, ConnSendFails, paneVars
<1>2. closer'.watching \subseteq Conn
  BY <1>1 DEF StreamTyped
<1>3. /\ outbound[c] \in Seq(Message) /\ outbound[c] # <<>> /\ outbound'[c] = Tail(outbound[c])
      /\ \A d \in Conn : /\ lossy[d] => lossy'[d]
                         /\ sawEnded[d] => sawEnded'[d]
                         /\ d # c => outbound'[d] = outbound[d]
      /\ lossy'[c] \/ (Head(outbound[c]) = Ended => sawEnded'[c])
  <2>1. outbound[c] \in Seq(Message) /\ outbound[c] # <<>> /\ outbound'[c] = Tail(outbound[c])
    BY StreamIs DEF ConnSend, ConnSendFails, StreamTyped
  <2>2. \A d \in Conn : d # c => outbound'[d] = outbound[d]
    BY DEF ConnSend, ConnSendFails, StreamTyped
  <2>3. CASE ConnSend(c)
    <3>1. lossy' = lossy /\ sawEnded' = [sawEnded EXCEPT ![c] = @ \/ Head(outbound[c]).kind = "ended"]
      BY <2>3 DEF ConnSend
    <3>2. Ended.kind = "ended"
      BY Kinds
    <3>3. \A d \in Conn : sawEnded[d] => sawEnded'[d]
      BY <3>1 DEF StreamTyped
    <3>4. Head(outbound[c]) = Ended => sawEnded'[c]
      BY <3>1, <3>2 DEF StreamTyped
    <3>. QED
      BY <2>1, <2>2, <3>1, <3>3, <3>4
  <2>4. CASE ConnSendFails(c)
    <3>1. sawEnded' = sawEnded /\ lossy' = [lossy EXCEPT ![c] = TRUE]
      BY <2>4 DEF ConnSendFails, histVars
    <3>2. lossy'[c] /\ \A d \in Conn : lossy[d] => lossy'[d]
      BY <3>1 DEF StreamTyped
    <3>. QED
      BY <2>1, <2>2, <3>1, <3>2
  <2>. QED
    BY <2>3, <2>4
<1>4. ASSUME NEW d \in Conn
      PROVE  (Told(d) => Told(d)') /\ (Telling(d) => Telling(d)')
  <2>1. Telling(d) => Telling(d)'
    BY <1>1 DEF Telling
  <2>2. CASE d # c
    BY <1>3, <2>1, <2>2 DEF Told
  <2>3. CASE d = c
    <3>1. Ended \in Range(outbound[c])
             <=> Head(outbound[c]) = Ended \/ Ended \in Range(Tail(outbound[c]))
      BY <1>3, EndedQueued
    <3>. QED
      BY <1>3, <2>1, <2>3, <3>1 DEF Told
  <2>. QED
    BY <2>2, <2>3
<1>5. closer.pc = "notify" => closer'.watching \subseteq subscribers'
  BY <1>1 DEF EndedTold
<1>. QED
  BY <1>1, <1>2, <1>4, <1>5, EndedFrame

\* The closing goroutine itself.
LEMMA EndedClosing ==
    ASSUME StreamTyped, EndedTold, ClosePane \/ CloseStep
    PROVE  EndedTold'
<1>1. CASE ClosePane
  <2>1. closer'.pc = "notify" /\ closer'.watching = subscribers /\ subscribers' = subscribers
    BY <1>1 DEF ClosePane, paneVars, StreamTyped
  <2>. QED
    BY <2>1 DEF EndedTold
<1>2. CASE NotifyEnded
  <2>1. /\ closer.pc = "notify" /\ closer'.pc = "each" /\ closer'.todo = subscribers
        /\ closer'.watching = closer.watching
    BY <1>2 DEF NotifyEnded, StreamTyped
  <2>. QED
    BY <2>1 DEF EndedTold
<1>3. CASE NotifyEndedReturn
  <2>1. /\ closer.pc = "each" /\ closer.todo = {} /\ call["closer"] = NoCall
        /\ closer'.pc = "unsub" /\ closer'.watching = closer.watching
        /\ UNCHANGED <<sawEnded, lossy, outbound>>
    BY <1>3 DEF NotifyEndedReturn, histVars, StreamTyped
  <2>. QED
    BY <2>1 DEF EndedTold
<1>4. ASSUME NEW c \in Conn, NotifyEndedSend(c) PROVE EndedTold'
  <2>1. /\ closer.pc = "each" /\ call["closer"] = NoCall
        /\ closer'.pc = "each" /\ closer'.watching = closer.watching
        /\ closer'.todo = closer.todo \ {c}
        /\ UNCHANGED <<sawEnded, lossy, outbound>> /\ call'["closer"] = Calling(c, Ended)
    BY <1>4 DEF NotifyEndedSend, histVars, StreamTyped
  <2>2. call'["closer"] # NoCall /\ call'["closer"].conn = c
    BY <2>1 DEF Calling, NoCall
  <2>. QED
    BY <2>1, <2>2 DEF EndedTold
<1>5. ASSUME NEW c \in Conn, CloseUnsubscribe(c) PROVE EndedTold'
  <2>1. closer.pc = "unsub" /\ UNCHANGED <<sawEnded, lossy, outbound, call>>
    BY <1>5 DEF CloseUnsubscribe, histVars
  <2>2. \/ closer'.pc = "done"
        \/ closer'.pc = "unsub" /\ closer'.watching = closer.watching
    BY <1>5, <2>1 DEF CloseUnsubscribe, StreamTyped
  <2>. QED
    BY <2>1, <2>2 DEF EndedTold
<1>. QED
  BY <1>1, <1>2, <1>3, <1>4, <1>5 DEF CloseStep

\* A chunk let through is queued behind what is there.
LEMMA EndedRealtime ==
    ASSUME StreamTyped, EndedTold, NEW l \in Loop, RealtimeStep(l)
    PROVE  EndedTold'
<1>1. UNCHANGED <<closer, call, subscribers, sawEnded>>
  BY DEF RealtimeStep, RealtimeTake, RealtimeSend, RealtimeHold, RealtimePass, paneVars, histVars
<1>2. closer'.watching \subseteq Conn
  BY <1>1 DEF StreamTyped
<1>3. ASSUME NEW c \in Conn
      PROVE  /\ lossy[c] => lossy'[c]
             /\ Ended \in Range(outbound[c]) => Ended \in Range(outbound'[c])
  <2>1. CASE outbound' = outbound
    <3>1. lossy[c] => lossy'[c]
      BY DEF RealtimeStep, RealtimeTake, RealtimeSend, RealtimeHold, RealtimePass, StreamTyped
    <3>. QED
      BY <2>1, <3>1
  <2>2. CASE RealtimeSend(l)
    <3>2. Live(rt[l].k) \in Message /\ outbound[c] \in Seq(Message)
      BY <2>2, InRt, StreamIs DEF RealtimeSend
    <3>3. outbound'[c] = outbound[c] \/ outbound'[c] = Append(outbound[c], Live(rt[l].k))
      BY <2>2 DEF RealtimeSend, StreamTyped
    <3>4. lossy[c] => lossy'[c]
      BY <2>2 DEF RealtimeSend, StreamTyped
    <3>. QED
      BY <3>2, <3>3, <3>4, EndedQueued
  <2>. QED
    BY <2>1, <2>2 DEF RealtimeStep, RealtimeTake, RealtimeHold, RealtimePass
<1>4. ASSUME NEW c \in Conn
      PROVE  (Told(c) => Told(c)') /\ (Telling(c) => Telling(c)')
  BY <1>1, <1>3 DEF Told, Telling
<1>5. closer.pc = "notify" => closer'.watching \subseteq subscribers'
  BY <1>1 DEF EndedTold
<1>. QED
  BY <1>1, <1>2, <1>4, <1>5, EndedFrame

\* Every step keeps the closing goroutine on course.
LEMMA EndedToldStep ==
    ASSUME StreamTyped, LoopFooting, EndedTold, [Next]_vars
    PROVE  EndedTold'
<1>1. ASSUME UNCHANGED <<closer, subscribers, sawEnded, lossy, outbound>>,
             call'["closer"] = call["closer"]
      PROVE  EndedTold'
  BY <1>1 DEF EndedTold
<1>2. CASE UNCHANGED vars \/ TmuxOutput \/ TmuxExit
  BY <1>1, <1>2 DEF vars, TmuxOutput, TmuxExit, paneVars, histVars
<1>3. ASSUME NEW c \in Conn, NEW gap \in BOOLEAN, SelectPane(c, gap) PROVE EndedTold'
  BY <1>1, <1>3 DEF SelectPane, paneVars, histVars
<1>4. CASE SubscribeStep
  <2>1. CASE SubscribeRegister
    BY <2>1, EndedRegister
  <2>2. CASE SubscribeSend
    <3>1. call'["closer"] = call["closer"]
      BY <2>2 DEF SubscribeSend, StreamTyped
    <3>. QED
      BY <1>1, <2>2, <3>1 DEF SubscribeSend, paneVars, histVars
  <2>. QED
    BY <1>1, <1>4, <2>1, <2>2 DEF SubscribeStep, SubscribeCapture, SubscribeClear, SubscribeFlush,
       SubscribeFailed, SubscribeReturn, SubscribeReturnError, paneVars, histVars
<1>5. ASSUME NEW c \in Conn, EvictWatch(c) PROVE EndedTold'
  <2>1. /\ UNCHANGED <<sawEnded, lossy, outbound, call>> /\ subscribers' = subscribers \ {c}
        /\ closer'.pc = closer.pc /\ closer'.todo = closer.todo
        /\ closer'.watching = closer.watching \ {c}
    BY <1>5 DEF EvictWatch, Unsubscribe, histVars, StreamTyped
  <2>. QED
    BY <2>1 DEF EndedTold
<1>. QED
  BY <1>2, <1>3, <1>4, <1>5, EndedClosing, EndedRealtime, EndedEnqueue, EndedConnSend DEF Next

-------------------------------------------------------------------------------
(* The invariant.                                                               *)

\* The invariant holds at the start.
LEMMA StreamInit ==
    ASSUME Init
    PROVE  StreamInv
<1>1. /\ 1 \in Loop /\ 0 \in 0..MaxOut /\ 0 \in 0..MaxSelects
      /\ <<>> \in UpTo(1..MaxOut, FeedCap) /\ <<>> \in UpTo(Message, PendingLimit)
      /\ <<>> \in UpTo(Message, Cap) /\ <<>> \in Seq(Message) /\ "none" \in Outcome
  <2>1. \A S : <<>> \in Seq(S) /\ Len(<<>>) = 0
    OBVIOUS
  <2>2. 1 \in Loop /\ 0 \in 0..MaxOut /\ 0 \in 0..MaxSelects /\ "none" \in Outcome
    BY Bounds DEF Outcome
  <2>3. 0 <= FeedCap /\ 0 <= PendingLimit /\ 0 <= Cap
    BY Bounds
  <2>. QED
    BY <2>1, <2>2, <2>3 DEF UpTo
<1>2. StreamTyped
  BY <1>1 DEF Init, StreamTyped
<1>3. ChunksOnce
  BY <1>1, Bounds DEF Init, ChunksOnce, FeedNew, RtNew, Apart
<1>4. LoopFooting
  BY DEF Init, LoopFooting, HeldBack, LoopCalls, HeldFrames, OutcomeFits, Registering, NoCall
<1>5. FramesWhole
  BY DEF Init, FramesWhole, Sound
<1>6. FramesOrdered
  <2>1. ASSUME NEW c \in Conn PROVE HeldInOrder(c) /\ PassedUnheld(c) /\ ~Sound(c)
    <3>1. pendingAppend[c] = <<>>
      BY DEF Init
    <3>2. HeldInOrder(c)
      BY <3>1, EmptyFrames DEF HeldInOrder, Held, Below
    <3>. QED
      BY <3>2 DEF Init, PassedUnheld, Sound
  <2>. QED
    BY <2>1 DEF FramesOrdered
<1>7. EndedTold
  BY DEF Init, EndedTold
<1>. QED
  BY <1>2, <1>3, <1>4, <1>5, <1>6, <1>7 DEF StreamInv

\* Every step keeps the invariant.
LEMMA StreamStep ==
    ASSUME StreamInv, [Next]_vars
    PROVE  StreamInv'
  BY TypedNext, ChunksStep, FootingStep, FramesWholeStep, FramesOrderedStep, EndedToldStep DEF StreamInv

\* Types: every variable keeps its shape, and no queue outgrows its capacity.
LEMMA StreamType ==
    ASSUME StreamTyped, LoopFooting
    PROVE  TypeOK
<1>1. \A l \in Loop : feed[l] \in Seq(1..MaxOut) /\ Len(feed[l]) <= FeedCap
  BY DEF StreamTyped, UpTo
<1>2. \A c \in Conn : /\ pendingAppend[c] \in Seq(Message) /\ Len(pendingAppend[c]) <= PendingLimit
                      /\ outbound[c] \in Seq(Message) /\ Len(outbound[c]) <= Cap
  BY DEF StreamTyped, UpTo
<1>3. loop.pc \in {"idle", "register", "capture", "reset", "flush", "pending", "failed", "ending"}
  BY InLoop DEF Registering
<1>4. \A l \in Loop : rt[l].pc \in {"idle", "each", "send"}
  BY InRt
<1>5. closer.pc \in {"idle", "notify", "each", "unsub", "done"}
  BY DEF StreamTyped
<1>. QED
  BY <1>1, <1>2, <1>3, <1>4, <1>5 DEF TypeOK, StreamTyped

\* A connection whose Subscribe has returned is not in the middle of one.
LEMMA NotInSubscribe ==
    ASSUME LoopFooting, NEW c \in Conn, outcome[c] = "ok"
    PROVE  ~Awaiting(c) /\ ~Busy(c) /\ pendingAppend[c] = <<>>
  BY DEF LoopFooting, OutcomeFits, Awaiting, Busy, Registering

\* A connection with nothing under way has all its frames in its stream.
LEMMA StreamWhole ==
    ASSUME StreamTyped, ChunksOnce, LoopFooting, FramesWhole
    PROVE  ExactlyOnceAfterReset
<1> SUFFICES ASSUME NEW c \in Conn, outcome[c] = "ok", ~lossy[c]
             PROVE  LET s == Stream(c)
                        r == LastReset(s)
                        Af(m) == {i \in DOMAIN s : i > r /\ s[i] = m}
                    IN  /\ r > 0
                        /\ Cardinality(Af(Part(s[r].n))) = ResetFrames - 1
                        /\ \A k \in broadcasted : k > s[r].n => Cardinality(Af(Live(k))) = 1
  BY DEF ExactlyOnceAfterReset
<1>1. ~Awaiting(c) /\ ~Busy(c) /\ pendingAppend[c] = <<>>
  BY NotInSubscribe
<1>2. Whole(c)
  BY DEF FramesWhole, Sound
<1> DEFINE s == Stream(c)
           r == LastReset(s)
           n == s[r].n
<1>3. r > 0 /\ Snapshot(c) = n
  BY <1>1, <1>2 DEF Whole, Snapshot
<1>4. \A x : Frames(c, x) = Count(s, x)
  <2>1. ASSUME NEW x PROVE Frames(c, x) = Count(s, x)
    <3>1. Count(s, x) \in Nat /\ Count(pendingAppend[c], x) = 0
      BY <1>1, StreamIs, EmptyFrames
    <3>2. Frames(c, x) = Count(s, x) + 0 + 0 + Count(pendingAppend[c], x)
      BY <1>1 DEF Frames
    <3>. QED
      BY <3>1, <3>2
  <2>. QED
    BY <2>1
<1>5. Count(s, Part(n)) = ResetFrames - 1
  BY <1>2, <1>3, <1>4 DEF Whole
<1>6. ASSUME NEW k \in broadcasted, k > n PROVE Count(s, Live(k)) = 1
  <2>1. k \in 1..MaxOut
    BY Bounds DEF StreamTyped, ChunksOnce
  <2>2. Done(k, c)
    BY DEF Done
  <2>. HIDE DEF n
  <2>. QED
    BY <1>2, <1>3, <1>4, <1>6, <2>1, <2>2 DEF Whole
<1>. QED
  BY <1>3, <1>5, <1>6 DEF Count, After

\* They are there in order.
LEMMA StreamOrdered ==
    ASSUME LoopFooting, FramesOrdered
    PROVE  InOrderOutsideFlush
<1> SUFFICES ASSUME NEW c \in Conn, outcome[c] = "ok", ~lossy[c], ~raced[c], loops = 1
             PROVE  Increasing(Stream(c))
  BY DEF InOrderOutsideFlush, Increasing
<1>1. ~Awaiting(c)
  BY NotInSubscribe
<1>2. Ordered(c)
  BY DEF FramesOrdered, Sound
<1>. QED
  BY <1>1, <1>2 DEF Ordered

\* After the broadcast nobody is still to be told.
LEMMA StreamTold ==
    ASSUME EndedTold
    PROVE  EndedReachesWatchers
  BY DEF EndedTold, EndedReachesWatchers

\* The inductive invariant holds of every behaviour: what the realtimeLoops, the
\* message loop, the closing goroutine and the senders hold for a connection adds
\* up to its snapshot and every newer chunk once, whichever of them moves next.
THEOREM StreamInvariant == Spec => []StreamInv
<1>1. Init => StreamInv
  BY StreamInit
<1>2. StreamInv /\ [Next]_vars => StreamInv'
  BY StreamStep
<1>. QED
  BY <1>1, <1>2, PTL DEF Spec

\* Every queue stays within its capacity: the channel of a connection, the frames
\* held back by appendPending and the realtime channels.
THEOREM StreamTypes == Spec => []TypeOK
<1>1. StreamInv => TypeOK
  BY StreamType DEF StreamInv
<1>. QED
  BY <1>1, StreamInvariant, PTL

\* Once Subscribe has returned and no frame was dropped, a connection has the
\* newest snapshot in full and one append frame for every newer chunk that has
\* been broadcast.
THEOREM StreamsComplete == Spec => []ExactlyOnceAfterReset
<1>1. StreamInv => ExactlyOnceAfterReset
  BY StreamWhole DEF StreamInv
<1>. QED
  BY <1>1, StreamInvariant, PTL

\* Its append frames follow the snapshot in the order tmux printed them, unless
\* one passed during the flush or a second realtimeLoop was started.
THEOREM StreamsInOrder == Spec => []InOrderOutsideFlush
<1>1. StreamInv => InOrderOutsideFlush
  BY StreamOrdered DEF StreamInv
<1>. QED
  BY <1>1, StreamInvariant, PTL

\* Whoever watched the pane as it was closed has been told, or has the message
\* before it, or has lost a frame, once NotifyEnded is over.
THEOREM WatchersTold == Spec => []EndedReachesWatchers
<1>1. StreamInv => EndedReachesWatchers
  BY StreamTold DEF StreamInv
<1>. QED
  BY <1>1, StreamInvariant, PTL

===============================================================================
