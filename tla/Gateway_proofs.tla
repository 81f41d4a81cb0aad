----------------------------- MODULE Gateway_proofs -----------------------------
(* Proofs about Gateway for any number of tabs, requests and connections of the *)
(* agent and any size of the queue: its inductive invariant and, from it, that  *)
(* answers and active panes are the asker's and that the newest agent serves.   *)
EXTENDS Gateway, TLAPS

\* Requests are numbered, and each has a tab.
LEMMA RequestsTyped ==
    ASSUME TypeOK
    PROVE  /\ DOMAIN reqs = 1..Len(reqs) /\ Len(reqs) \in Nat /\ DOMAIN reqs \subseteq Request
           /\ \A r \in DOMAIN reqs :
                 /\ reqs[r] \in RequestRecord /\ r \in Nat /\ TabOf(r) \in Tab
                 /\ reqs[r].by \in 0..MaxAgents /\ reqs[r].op \in {"select", "post"}
                 /\ reqs[r].pane \in Pane \union {NoPane}
                 /\ reqs[r].header \in Pane \union {NoPane}
<1>1. /\ DOMAIN reqs = 1..Len(reqs) /\ Len(reqs) \in Nat /\ Len(reqs) <= MaxRequests
      /\ \A r \in DOMAIN reqs : reqs[r] \in RequestRecord
  BY DEF TypeOK
<1>2. \A rec \in RequestRecord :
        /\ rec.tab \in Tab /\ rec.by \in Agent \union {0} /\ rec.op \in {"select", "post"}
        /\ rec.pane \in Pane \union {NoPane} /\ rec.header \in Pane \union {NoPane}
  BY DEF RequestRecord
<1>3. Agent \union {0} \subseteq 0..MaxAgents /\ DOMAIN reqs \subseteq Request /\ DOMAIN reqs \subseteq Nat
  BY <1>1, GatewayAssumption DEF Agent, Request
<1>. QED
  BY <1>1, <1>2, <1>3 DEF TabOf

\* The bounds are numbers.
LEMMA Bounds ==
    /\ MaxTabs \in Nat /\ MaxRequests \in Nat /\ MaxAgents \in Nat \ {0} /\ NoPane \notin Pane
    /\ Tab \subseteq Nat \ {0} /\ ConnId \subseteq Nat \ {0} /\ Request \subseteq Nat \ {0}
    /\ Agent \subseteq Nat \ {0}
  BY GatewayAssumption DEF Tab, ConnId, Request, Agent

\* What a queue holds after one more has come, and after the first has been taken.
LEMMA Appended ==
    ASSUME NEW S, NEW q \in Seq(S), NEW e \in S
    PROVE  /\ Append(q, e) \in Seq(S) /\ Len(q) \in Nat /\ Len(Append(q, e)) = Len(q) + 1
           /\ \A i \in 1..Len(q) : Append(q, e)[i] = q[i]
           /\ Append(q, e)[Len(q) + 1] = e
           /\ \A i \in 1..Len(Append(q, e)) :
                 \/ i \in 1..Len(q) /\ Append(q, e)[i] = q[i]
                 \/ i = Len(q) + 1 /\ Append(q, e)[i] = e
           /\ \A i, j \in 1..Len(Append(q, e)) : i < j => i \in 1..Len(q)
  OBVIOUS

LEMMA Taken ==
    ASSUME NEW S, NEW q \in Seq(S), q # <<>>
    PROVE  /\ Head(q) = q[1] /\ 1 \in 1..Len(q) /\ q[1] \in S
           /\ Tail(q) \in Seq(S) /\ Len(q) \in Nat
           /\ \A i \in 1..Len(Tail(q)) :
                 i \in Nat /\ i + 1 \in 1..Len(q) /\ i + 1 \in 2..Len(q) /\ Tail(q)[i] = q[i + 1]
  OBVIOUS

\* Nobody has connected, so there is nothing to say.
LEMMA InvInit == Init => GatewayInv
<1> SUFFICES ASSUME Init PROVE GatewayInv
  OBVIOUS
<1>. USE Bounds DEF Init
<1>1. TypeOK
  <2>1. forwarding \in [Tab -> Forwarded] /\ agent.no \in 0..MaxAgents /\ agent.conn \in 0..MaxTabs
    BY DEF Forwarded, Idle, NoAgent, NoRequest
  <2>2. agent \in [no : 0..MaxAgents, link : {"up", "down"}, conn : 0..MaxTabs,
                   pc : {"dial", "read", "wait", "reply"}, req : 0..MaxRequests]
    BY DEF NoAgent, NoRequest
  <2>3. selected \in [ConnId -> Pane \union {NoPane}]
    BY DEF NewRegistry
  <2>4. reqs \in Seq(RequestRecord) /\ Len(reqs) <= MaxRequests
    OBVIOUS
  <2>5. toAgent \in Seq(Envelope) /\ fromAgent \in [Agent -> Seq(Envelope)]
    OBVIOUS
  <2>. QED
    BY <2>1, <2>2, <2>3, <2>4, <2>5 DEF TypeOK
<1>2. IdsAreGivenOnce
  BY DEF IdsAreGivenOnce
<1>3. RequestsHaveTabs /\ ActivePaneIsAskers
  BY DEF RequestsHaveTabs, ActivePaneIsAskers
<1>4. ForwardsLatest
  BY DEF ForwardsLatest
<1>5. WaitingInOrder
  BY DEF WaitingInOrder
<1>6. HandledNow
  BY DEF HandledNow, Busy, NoAgent
<1>7. AnswersInOrder
  BY DEF AnswersInOrder
<1>8. DeliveredInOrder
  BY DEF DeliveredInOrder
<1>9. OneSession
  BY DEF OneSession
<1>10. ServesWhileUp
  BY DEF ServesWhileUp, NewestAgentServes, NoAgent
<1>11. SelectedByAsker
  BY DEF SelectedByAsker, NewRegistry
<1>. QED
  BY <1>1, <1>2, <1>3, <1>4, <1>5, <1>6, <1>7, <1>8, <1>9, <1>10, <1>11 DEF GatewayInv

--------------------------------------------------------------------------------
(* One lemma per action.                                                        *)

\* The new tab has asked nothing, and its id is above all that the session has
\* given; tabs that are still to come leave room for as many ids.
LEMMA InvAttachClient ==
    ASSUME GatewayInv, NEW t \in Tab, AttachClient(t)
    PROVE  GatewayInv'
<1>. USE Bounds DEF AttachClient, NewId, agentVars, historyVars
<1>0. TypeOK /\ IdsAreGivenOnce
  BY DEF GatewayInv
<1>1. /\ nextConnSeq < t /\ nextConnSeq \in Nat /\ epoch \in Nat
      /\ delivered[t] = <<>> /\ forwarding[t] = Idle
  BY <1>0 DEF TypeOK, IdsAreGivenOnce
<1>2. /\ tabs'[t] = "open" /\ connOf'[t] = nextConnSeq + 1 /\ tabId'[t] = nextConnSeq + 1
      /\ tabEpoch'[t] = epoch
      /\ \A u \in Tab : u # t => /\ tabs'[u] = tabs[u] /\ connOf'[u] = connOf[u]
                                 /\ tabId'[u] = tabId[u] /\ tabEpoch'[u] = tabEpoch[u]
  BY <1>0 DEF TypeOK
<1>3. TypeOK'
  <2>1. nextConnSeq + 1 \in 0..MaxTabs
    BY <1>1 DEF Tab
  <2>. QED
    BY <1>0, <1>1, <2>1 DEF TypeOK
<1>4. IdsAreGivenOnce'
  <2>1. \A u \in Tab : tabs'[u] = "new" => u > t /\ nextConnSeq + 1 < u
    BY <1>0, <1>1, <1>2 DEF IdsAreGivenOnce, Tab
  <2>2. \A u \in Tab : u # t /\ tabs[u] # "new" /\ tabEpoch[u] = epoch => tabId[u] <= nextConnSeq
    BY <1>0 DEF IdsAreGivenOnce
  <2>3. \A u \in Tab : tabId[u] \in Nat /\ tabEpoch[u] \in Nat
    BY <1>0 DEF TypeOK
  <2>. QED
    BY <1>0, <1>1, <1>2, <2>1, <2>2, <2>3 DEF IdsAreGivenOnce
<1>5. \A r \in DOMAIN reqs : TabOf(r) \in Tab /\ TabOf(r) # t
  BY <1>0, RequestsTyped DEF GatewayInv, RequestsHaveTabs, AttachClient
<1>6. RequestsHaveTabs' /\ ActivePaneIsAskers'
  BY <1>2, <1>5 DEF GatewayInv, RequestsHaveTabs, ActivePaneIsAskers, TabOf, Handled
<1>7. ForwardsLatest'
  BY <1>1, <1>2, <1>5 DEF GatewayInv, ForwardsLatest, TabOf, Handled
<1>8. WaitingInOrder'
  BY <1>1, <1>2, <1>5 DEF GatewayInv, WaitingInOrder, TabOf, Handled
<1>9. HandledNow'
  <2>1. agent' = agent /\ reqs' = reqs /\ fromAgent' = fromAgent /\ delivered' = delivered
    OBVIOUS
  <2>. QED
    BY <2>1, <1>2, <1>5 DEF GatewayInv, HandledNow, Busy, TabOf, Handled
<1>10. AnswersInOrder'
  BY <1>2, <1>5 DEF GatewayInv, AnswersInOrder, SameTabAndAgent, TabOf, Handled
<1>11. DeliveredInOrder'
  BY <1>1, <1>2, <1>5 DEF GatewayInv, DeliveredInOrder, SameSession, SameTabAndAgent, TabOf, Handled
<1>12. OneSession'
  BY <1>2, <1>5 DEF GatewayInv, OneSession, WaitingInOrder, TabOf, Handled
<1>13. ServesWhileUp'
  BY DEF GatewayInv, ServesWhileUp, NewestAgentServes
<1>14. SelectedByAsker'
  BY <1>2, <1>5 DEF GatewayInv, SelectedByAsker, TabOf, Handled
<1>. QED
  BY <1>3, <1>4, <1>6, <1>7, <1>8, <1>9, <1>10, <1>11, <1>12, <1>13, <1>14 DEF GatewayInv

\* A session that is forgotten has no tab left, so its ids are nobody's.
LEMMA ForgetKeepsIds ==
    ASSUME TypeOK, IdsAreGivenOnce, NEW agentLeft, NEW left \in SUBSET Tab,
           Forget(agentLeft, left), UNCHANGED <<tabEpoch, tabId, delivered, forwarding>>,
           \A t \in Tab : /\ connOf'[t] = IF tabs'[t] = "open" THEN connOf[t] ELSE 0
                          /\ tabs'[t] = "open" <=> t \in left
                          /\ tabs'[t] # tabs[t] => tabs[t] = "open" /\ tabs'[t] = "closed"
    PROVE  /\ IdsAreGivenOnce'
           /\ nextConnSeq' \in 0..MaxTabs /\ epoch' \in Nat
           /\ UNCHANGED epoch \/ (left = {} /\ agentLeft = 0)
<1>. USE Bounds DEF Forget
<1>1. /\ nextConnSeq \in 0..MaxTabs /\ epoch \in Nat
      /\ \A t \in Tab : tabEpoch[t] \in Nat /\ tabId[t] \in Nat
  BY DEF TypeOK
<1>2. CASE agentLeft = 0 /\ left = {}
  <2>1. nextConnSeq' = 0 /\ epoch' = epoch + 1 /\ \A t \in Tab : t > 0 /\ tabs'[t] # "open"
    BY <1>2
  <2>. QED
    BY <1>1, <1>2, <2>1 DEF IdsAreGivenOnce
<1>3. CASE ~(agentLeft = 0 /\ left = {})
  BY <1>1, <1>3 DEF IdsAreGivenOnce
<1>. QED
  BY <1>2, <1>3

\* The reader of a tab that leaves has nothing in hand.
LEMMA InvDetachClient ==
    ASSUME GatewayInv, NEW t \in Tab, DetachClient(t)
    PROVE  GatewayInv'
<1>. USE Bounds DEF DetachClient, agentVars
<1>0. TypeOK /\ IdsAreGivenOnce /\ ServesWhileUp
  BY DEF GatewayInv
<1>1. \A u \in Tab : /\ u # t => tabs'[u] = tabs[u] /\ connOf'[u] = connOf[u]
                     /\ tabs'[t] = "closed" /\ connOf'[t] = 0
                     /\ connOf[u] # 0 <=> tabs[u] = "open"
  BY <1>0 DEF TypeOK, IdsAreGivenOnce
<1>2. /\ IdsAreGivenOnce' /\ nextConnSeq' \in 0..MaxTabs /\ epoch' \in Nat
      /\ UNCHANGED epoch \/ (Attached \ {t} = {} /\ hubAgent = 0)
  <2>1. Attached \ {t} \in SUBSET Tab /\ Forget(hubAgent, Attached \ {t})
    BY DEF Attached
  <2>2. \A u \in Tab : /\ connOf'[u] = IF tabs'[u] = "open" THEN connOf[u] ELSE 0
                       /\ tabs'[u] = "open" <=> u \in Attached \ {t}
                       /\ tabs'[u] # tabs[u] => tabs[u] = "open" /\ tabs'[u] = "closed"
    BY <1>0, <1>1 DEF Attached, IdsAreGivenOnce
  <2>. QED
    BY <1>0, <2>1, <2>2, ForgetKeepsIds
<1>3. TypeOK'
  <2>1. tabs' \in [Tab -> {"new", "open", "closed"}] /\ connOf' \in [Tab -> 0..MaxTabs]
    BY <1>0 DEF TypeOK
  <2>2. /\ reading' = reading /\ agent' = agent /\ fromAgent' = fromAgent /\ reqs' = reqs
        /\ selected' = selected /\ toAgent' = toAgent
    OBVIOUS
  <2>. QED
    BY <1>0, <1>2, <2>1, <2>2 DEF TypeOK
<1>4. RequestsHaveTabs' /\ ActivePaneIsAskers'
  BY <1>0, <1>1, RequestsTyped DEF GatewayInv, RequestsHaveTabs, ActivePaneIsAskers, TabOf, Handled
<1>5. ForwardsLatest'
  <2>1. \A u \in Tab : forwarding[u] # Idle => tabs'[u] = tabs[u]
    BY <1>1
  <2>. QED
    BY <2>1 DEF GatewayInv, ForwardsLatest, TabOf, Handled
<1>6. agent' = agent /\ reqs' = reqs /\ fromAgent' = fromAgent /\ delivered' = delivered
  OBVIOUS
<1>7. WaitingInOrder'
  BY DEF GatewayInv, WaitingInOrder, TabOf, Handled
<1>8. HandledNow'
  BY <1>6 DEF GatewayInv, HandledNow, Busy, TabOf, Handled
<1>9. AnswersInOrder' /\ DeliveredInOrder'
  BY DEF GatewayInv, AnswersInOrder, DeliveredInOrder, SameSession, SameTabAndAgent, TabOf, Handled
<1>10. agent.link = "up" => UNCHANGED epoch
  BY <1>0, <1>2 DEF ServesWhileUp, NewestAgentServes
<1>11. OneSession'
  BY <1>6, <1>10 DEF GatewayInv, OneSession, TabOf, Handled
<1>12. ServesWhileUp'
  BY DEF GatewayInv, ServesWhileUp, NewestAgentServes
<1>13. SelectedByAsker'
  BY DEF GatewayInv, SelectedByAsker, TabOf, Handled
<1>. QED
  BY <1>2, <1>3, <1>4, <1>5, <1>7, <1>8, <1>9, <1>11, <1>12, <1>13 DEF GatewayInv

\* Answers stay in order when what is said of handled requests stays.
LEMMA AnswersFrame ==
    ASSUME AnswersInOrder, DeliveredInOrder, UNCHANGED <<fromAgent, delivered, tabId, tabEpoch>>,
           DOMAIN reqs \subseteq DOMAIN reqs',
           \A r \in DOMAIN reqs : reqs'[r].tab = reqs[r].tab,
           \A r \in DOMAIN reqs : reqs[r].by # 0 => reqs'[r].by = reqs[r].by
    PROVE  AnswersInOrder' /\ DeliveredInOrder'
<1>1. \A a \in Agent : \A i \in 1..Len(fromAgent[a]) :
        LET r == fromAgent[a][i].req
        IN  r \in DOMAIN reqs /\ reqs'[r].tab = reqs[r].tab /\ reqs[r].by = a /\ reqs'[r].by = a
  BY Bounds DEF AnswersInOrder, SameTabAndAgent, TabOf
<1>2. \A t \in Tab : \A i \in 1..Len(delivered[t]) :
        LET r == delivered[t][i]
        IN  r \in DOMAIN reqs /\ reqs'[r].tab = reqs[r].tab /\ reqs'[r].by = reqs[r].by /\ reqs[r].by # 0
  BY DEF DeliveredInOrder, Handled, SameSession, SameTabAndAgent, TabOf
<1>3. AnswersInOrder'
  <2> SUFFICES ASSUME NEW a \in Agent, NEW i \in 1..Len(fromAgent[a])
               PROVE  LET r == fromAgent[a][i].req
                      IN  /\ r \in DOMAIN reqs' /\ reqs'[r].by = a
                          /\ fromAgent[a][i].conn = tabId[reqs'[r].tab]
                          /\ \A j \in 1..Len(fromAgent[a]) :
                                i < j /\ reqs'[fromAgent[a][j].req].tab = reqs'[r].tab
                                    => r < fromAgent[a][j].req
                          /\ \A t \in Tab : \A k \in 1..Len(delivered[t]) :
                                /\ reqs'[delivered[t][k]].tab = reqs'[r].tab
                                /\ reqs'[delivered[t][k]].by = reqs'[r].by
                                => delivered[t][k] < r
    BY DEF AnswersInOrder, SameTabAndAgent, TabOf
  <2>. QED
    BY <1>1, <1>2 DEF AnswersInOrder, SameTabAndAgent, TabOf
<1>4. DeliveredInOrder'
  BY <1>2 DEF DeliveredInOrder, SameSession, SameTabAndAgent, TabOf, Handled
<1>. QED
  BY <1>3, <1>4

\* A new request is after all there are, and nobody has handled it.
LEMMA InvAsk ==
    ASSUME GatewayInv, NEW t \in Tab, NEW op \in {"select", "post"}, NEW p \in Pane \union {NoPane},
           Ask(t, op, p)
    PROVE  GatewayInv'
<1>. USE Bounds DEF Ask, agentVars, hubVars, epochVars
<1>. DEFINE n == Len(reqs) + 1
            rec == [tab |-> t, op |-> op, pane |-> p, by |-> 0, header |-> NoPane]
<1>0. TypeOK /\ IdsAreGivenOnce /\ ServesWhileUp
  BY DEF GatewayInv
<1>1. /\ DOMAIN reqs = 1..Len(reqs) /\ Len(reqs) \in Nat
      /\ \A r \in DOMAIN reqs : r \in Nat /\ reqs[r].tab \in Tab
  BY <1>0, RequestsTyped DEF TabOf
<1>2. rec \in RequestRecord
  BY DEF RequestRecord
<1>3. /\ reqs' = Append(reqs, rec) /\ reqs' \in Seq(RequestRecord) /\ Len(reqs') = n
      /\ DOMAIN reqs' = DOMAIN reqs \union {n} /\ n \notin DOMAIN reqs /\ n \in Nat
      /\ reqs'[n] = rec /\ \A r \in DOMAIN reqs : reqs'[r] = reqs[r] /\ r < n
  BY <1>0, <1>1, <1>2 DEF TypeOK
<1>4. reqs'[n].tab = t /\ reqs'[n].by = 0 /\ reqs'[n].header = NoPane
  BY <1>3
<1>5. /\ tabs[t] = "open" /\ connOf[t] = tabId[t] /\ forwarding[t] = Idle
      /\ hubAgent \in 0..MaxAgents /\ hubAgent <= agent.no
  BY <1>0 DEF IdsAreGivenOnce, ServesWhileUp, TypeOK
<1>6. /\ \A u \in Tab : u # t => forwarding'[u] = forwarding[u]
      /\ \/ forwarding'[t] = Idle
         \/ forwarding'[t] = [agent |-> hubAgent, conn |-> tabId[t], req |-> n]
  BY <1>0, <1>5 DEF TypeOK
<1>7. TypeOK'
  <2>1. n \in 0..MaxRequests /\ tabId[t] \in 0..MaxTabs
    BY <1>0, <1>1 DEF TypeOK
  <2>2. [agent |-> hubAgent, conn |-> connOf[t], req |-> n] \in Forwarded
    BY <1>5, <2>1 DEF Forwarded
  <2>3. forwarding' \in [Tab -> Forwarded]
    BY <1>0, <2>2 DEF TypeOK
  <2>4. Len(reqs') <= MaxRequests
    BY <1>3, <2>1
  <2>. QED
    BY <1>0, <1>3, <2>3, <2>4 DEF TypeOK
<1>8. IdsAreGivenOnce'
  BY <1>0, <1>5, <1>6 DEF IdsAreGivenOnce
<1>9. /\ agent' = agent /\ fromAgent' = fromAgent /\ delivered' = delivered /\ toAgent' = toAgent
      /\ tabs' = tabs /\ tabId' = tabId /\ tabEpoch' = tabEpoch /\ epoch' = epoch
      /\ selected' = selected /\ hubAgent' = hubAgent
  OBVIOUS
<1>10. /\ DOMAIN reqs' = DOMAIN reqs \union {n} /\ n \notin DOMAIN reqs
       /\ \A r \in DOMAIN reqs : reqs'[r] = reqs[r] /\ r < n /\ r \in Nat
       /\ reqs'[n].tab = t /\ reqs'[n].by = 0 /\ reqs'[n].header = NoPane
  BY <1>1, <1>3, <1>4
<1>11. RequestsHaveTabs'
  <2>1. agent.no \in Nat
    BY <1>0 DEF TypeOK
  <2>. QED
    BY <1>5, <1>9, <1>10, <2>1 DEF GatewayInv, RequestsHaveTabs, TabOf, Handled
<1>12. ForwardsLatest'
  BY <1>1, <1>3, <1>4, <1>5, <1>6, <1>9 DEF GatewayInv, ForwardsLatest, TabOf, Handled
<1>. HIDE DEF Ask, n, rec
<1>13. WaitingInOrder'
  <2>1. \A i \in 1..Len(toAgent) : toAgent[i].req \in DOMAIN reqs
    BY DEF GatewayInv, WaitingInOrder
  <2>2. \A r \in DOMAIN reqs : /\ reqs'[r] = reqs[r] /\ r # n
                               /\ forwarding'[reqs[r].tab] # Idle
                                     => \/ forwarding'[reqs[r].tab] = forwarding[reqs[r].tab]
                                        \/ forwarding'[reqs[r].tab].req = n
    <3>1. ASSUME NEW u \in Tab, forwarding'[u] # Idle
          PROVE  forwarding'[u] = forwarding[u] \/ forwarding'[u].req = n
      BY ONLY <1>6, <3>1
    <3>2. \A r \in DOMAIN reqs : reqs[r].tab \in Tab
      BY ONLY <1>1
    <3>3. \A r \in DOMAIN reqs : reqs'[r] = reqs[r] /\ r # n
      BY ONLY <1>10
    <3>. QED
      BY ONLY <3>1, <3>2, <3>3
  <2>3. \A r \in DOMAIN reqs' : reqs'[r].by # 0 => r \in DOMAIN reqs
    BY <1>10
  <2>4. \A r \in DOMAIN reqs : r < n
    BY <1>10
  <2>. QED
    BY <1>9, <1>10, <2>1, <2>2, <2>3, <2>4, SMTT(30) DEF GatewayInv, WaitingInOrder, TabOf, Handled
<1>14. HandledNow'
  BY <1>9, <1>10 DEF GatewayInv, HandledNow, Busy, TabOf, Handled
<1>15. AnswersInOrder' /\ DeliveredInOrder'
  BY <1>9, <1>10, AnswersFrame DEF GatewayInv
<1>16. OneSession'
  <2>1. \A i \in 1..Len(toAgent) : toAgent[i].req \in DOMAIN reqs
    BY DEF GatewayInv, WaitingInOrder
  <2>. QED
    BY <1>9, <1>10, <2>1, SMTT(30) DEF GatewayInv, OneSession, TabOf, Handled
<1>17. ServesWhileUp'
  BY <1>9 DEF GatewayInv, ServesWhileUp, NewestAgentServes
<1>18. SelectedByAsker'
  BY <1>9, <1>10 DEF GatewayInv, SelectedByAsker, TabOf, Handled
<1>19. ActivePaneIsAskers'
  <2>1. ActivePaneIsAskers
    BY DEF GatewayInv
  <2>2. \A r \in DOMAIN reqs' : reqs'[r].header # NoPane
                                => r \in DOMAIN reqs /\ reqs'[r] = reqs[r]
    BY <1>10
  <2>3. \A r \in DOMAIN reqs : \A q \in 1..(r - 1) : reqs'[q] = reqs[q]
    BY <1>1, <1>10
  <2>. QED
    BY ONLY <2>1, <2>2, <2>3 DEF ActivePaneIsAskers
<1>. QED
  BY ONLY <1>7, <1>8, <1>11, <1>12, <1>13, <1>14, <1>15, <1>16, <1>17, <1>18, <1>19 DEF GatewayInv

\* What the tab's reader writes to the agent was unhandled, and came after all of
\* the tab's requests that are waiting or handled.
LEMMA InvForward ==
    ASSUME GatewayInv, NEW t \in Tab, Forward(t)
    PROVE  GatewayInv'
<1>. USE Bounds
<1>. DEFINE f == forwarding[t]
            msg == [conn |-> f.conn, req |-> f.req]
<1>0. TypeOK /\ IdsAreGivenOnce /\ ForwardsLatest /\ WaitingInOrder
  BY DEF GatewayInv
<1>1. /\ tabs' = tabs /\ connOf' = connOf /\ nextConnSeq' = nextConnSeq /\ hubAgent' = hubAgent
      /\ reading' = reading /\ fromAgent' = fromAgent /\ agent' = agent /\ selected' = selected
      /\ reqs' = reqs /\ delivered' = delivered
      /\ epoch' = epoch /\ tabEpoch' = tabEpoch /\ tabId' = tabId
  BY DEF Forward, hubVars, agentVars, epochVars
<1>2. /\ forwarding'[t] = Idle
      /\ \A u \in Tab : u # t => forwarding'[u] = forwarding[u]
      /\ forwarding' = [forwarding EXCEPT ![t] = Idle]
  BY <1>0 DEF Forward, TypeOK
<1>3. /\ f # Idle /\ tabs[t] = "open" /\ f.conn = tabId[t] /\ f.req \in DOMAIN reqs
      /\ reqs[f.req].tab = t /\ reqs[f.req].by = 0 /\ f.req \in Request
      /\ \A r \in DOMAIN reqs : r \in Nat /\ (reqs[r].tab = t => r <= f.req)
  BY <1>0, RequestsTyped DEF Forward, ForwardsLatest, TabOf, Handled
<1>4. tabId[t] \in ConnId /\ tabEpoch[t] = epoch
  BY <1>0, <1>3 DEF TypeOK, IdsAreGivenOnce, ConnId
<1>5. msg \in Envelope /\ msg.req = f.req /\ msg.conn = tabId[t]
  BY <1>3, <1>4 DEF Envelope
<1>6. \/ toAgent' = toAgent
      \/ /\ agent.link = "up" /\ Len(toAgent') = Len(toAgent) + 1 /\ Len(toAgent) \in Nat
         /\ toAgent'[Len(toAgent) + 1] = msg
         /\ \A i \in 1..Len(toAgent) : toAgent'[i] = toAgent[i]
         /\ \A i \in 1..Len(toAgent') : \/ i \in 1..Len(toAgent) /\ toAgent'[i] = toAgent[i]
                                        \/ i = Len(toAgent) + 1 /\ toAgent'[i] = msg
         /\ toAgent' \in Seq(Envelope)
  <2>1. toAgent \in Seq(Envelope)
    BY <1>0 DEF TypeOK
  <2>2. toAgent' = toAgent \/ (agent.link = "up" /\ toAgent' = Append(toAgent, msg))
    BY DEF Forward
  <2>3. msg \in Envelope
    BY <1>5
  <2>. HIDE DEF msg
  <2>4. CASE toAgent' = toAgent
    BY <2>1, <2>4
  <2>5. CASE agent.link = "up" /\ toAgent' = Append(toAgent, msg)
    <3>1. /\ Append(toAgent, msg) \in Seq(Envelope) /\ Len(toAgent) \in Nat
          /\ Len(Append(toAgent, msg)) = Len(toAgent) + 1
          /\ \A i \in 1..Len(toAgent) : Append(toAgent, msg)[i] = toAgent[i]
          /\ Append(toAgent, msg)[Len(toAgent) + 1] = msg
          /\ \A i \in 1..Len(Append(toAgent, msg)) :
                \/ i \in 1..Len(toAgent) /\ Append(toAgent, msg)[i] = toAgent[i]
                \/ i = Len(toAgent) + 1 /\ Append(toAgent, msg)[i] = msg
      BY <2>1, <2>3, Appended
    <3>. QED
      BY <2>5, <3>1
  <2>. QED
    BY <2>2, <2>4, <2>5
<1>7. TypeOK'
  <2>1. toAgent' \in Seq(Envelope)
    BY <1>0, <1>6 DEF TypeOK
  <2>2. Idle \in Forwarded
    BY DEF Idle, Forwarded, NoRequest
  <2>. QED
    BY <1>0, <1>1, <1>2, <2>1, <2>2 DEF TypeOK
<1>8. IdsAreGivenOnce'
  BY <1>0, <1>1, <1>2 DEF IdsAreGivenOnce
<1>9. RequestsHaveTabs' /\ ActivePaneIsAskers'
  BY <1>1 DEF GatewayInv, RequestsHaveTabs, ActivePaneIsAskers, TabOf, Handled
<1>10. ForwardsLatest'
  BY <1>0, <1>1, <1>2 DEF ForwardsLatest, TabOf, Handled
<1>11. WaitingInOrder'
  <2>1. \A i \in 1..Len(toAgent) :
          /\ toAgent[i].req \in DOMAIN reqs
          /\ reqs[toAgent[i].req].tab = t => toAgent[i].req < f.req
          /\ forwarding'[reqs[toAgent[i].req].tab] # Idle
                => forwarding'[reqs[toAgent[i].req].tab] = forwarding[reqs[toAgent[i].req].tab]
    BY <1>0, <1>2, <1>3, RequestsTyped DEF WaitingInOrder, TabOf
  <2>2. \A q \in DOMAIN reqs : reqs[q].tab = t /\ reqs[q].by # 0 => q < f.req
    BY <1>3
  <2>3. CASE toAgent' = toAgent
    BY <1>0, <1>1, <2>1, <2>3 DEF WaitingInOrder, TabOf, Handled
  <2>4. CASE toAgent' # toAgent
    <3>. HIDE DEF msg, f
    <3>1. \A i \in 1..Len(toAgent') : \/ i \in 1..Len(toAgent) /\ toAgent'[i] = toAgent[i]
                                      \/ i = Len(toAgent) + 1 /\ toAgent'[i] = msg
      BY <1>6, <2>4
    <3>2. \A i \in 1..Len(toAgent) : i < Len(toAgent) + 1
      BY <1>6, <2>4
    <3>. QED
      BY <1>0, <1>1, <1>2, <1>3, <1>5, <1>6, <2>1, <2>2, <3>1, <3>2, SMTT(30)
         DEF WaitingInOrder, TabOf, Handled
  <2>. QED
    BY <2>3, <2>4
<1>12. HandledNow' /\ AnswersInOrder' /\ DeliveredInOrder'
  BY <1>1 DEF GatewayInv, HandledNow, Busy, AnswersInOrder, DeliveredInOrder, SameSession,
              SameTabAndAgent, TabOf, Handled
<1>13. OneSession'
  <2>. HIDE DEF msg, f
  <2>1. CASE toAgent' = toAgent
    BY <1>1, <2>1 DEF GatewayInv, OneSession, TabOf, Handled
  <2>2. CASE toAgent' # toAgent
    <3>1. \A i \in 1..Len(toAgent') : \/ i \in 1..Len(toAgent) /\ toAgent'[i] = toAgent[i]
                                      \/ toAgent'[i].req = f.req
      BY <1>5, <1>6, <2>2
    <3>2. \A q \in {q \in DOMAIN reqs : reqs[q].by # 0 /\ reqs[q].by = agent.no}
                    \union {toAgent[i].req : i \in 1..Len(toAgent)} :
            tabEpoch[reqs[q].tab] = epoch
      BY <1>6, <2>2 DEF GatewayInv, OneSession, TabOf, Handled
    <3>3. \A q \in {q \in DOMAIN reqs : reqs[q].by # 0 /\ reqs[q].by = agent.no}
                    \union {toAgent'[i].req : i \in 1..Len(toAgent')} :
            tabEpoch[reqs[q].tab] = epoch
      BY <1>3, <1>4, <3>1, <3>2
    <3>. QED
      BY <1>1, <3>3 DEF OneSession, TabOf, Handled
  <2>. QED
    BY <2>1, <2>2
<1>14. ServesWhileUp' /\ SelectedByAsker'
  BY <1>1 DEF GatewayInv, ServesWhileUp, NewestAgentServes, SelectedByAsker, TabOf, Handled
<1>. QED
  BY <1>7, <1>8, <1>9, <1>10, <1>11, <1>12, <1>13, <1>14 DEF GatewayInv

\* The tab that has the id now is the one that asked if it is of the same session,
\* and has had no later answer of this agent.
LEMMA InvRouteReply ==
    ASSUME GatewayInv, NEW a \in Agent, RouteReply(a)
    PROVE  GatewayInv'
<1>. USE Bounds
<1>. DEFINE r == Head(fromAgent[a]).req
            c == Head(fromAgent[a]).conn
<1>0. TypeOK /\ IdsAreGivenOnce /\ AnswersInOrder /\ DeliveredInOrder
  BY DEF GatewayInv
<1>1. /\ tabs' = tabs /\ connOf' = connOf /\ nextConnSeq' = nextConnSeq /\ hubAgent' = hubAgent
      /\ reading' = reading /\ toAgent' = toAgent /\ agent' = agent /\ selected' = selected
      /\ reqs' = reqs /\ forwarding' = forwarding
      /\ epoch' = epoch /\ tabEpoch' = tabEpoch /\ tabId' = tabId
  BY DEF RouteReply, hubVars, agentVars, epochVars
<1>2. /\ fromAgent[a] \in Seq(Envelope) /\ fromAgent[a] # <<>>
      /\ Head(fromAgent[a]) = fromAgent[a][1] /\ 1 \in 1..Len(fromAgent[a])
      /\ fromAgent[a][1] \in Envelope /\ Len(fromAgent[a]) \in Nat
      /\ Tail(fromAgent[a]) \in Seq(Envelope)
      /\ \A i \in 1..Len(Tail(fromAgent[a])) :
            /\ i \in Nat /\ i + 1 \in 1..Len(fromAgent[a]) /\ i + 1 \in 2..Len(fromAgent[a])
            /\ Tail(fromAgent[a])[i] = fromAgent[a][i + 1]
  <2>1. fromAgent[a] \in Seq(Envelope) /\ fromAgent[a] # <<>>
    BY <1>0 DEF RouteReply, TypeOK
  <2>. QED
    BY <2>1, Taken
<1>3. /\ r \in DOMAIN reqs /\ reqs[r].by = a /\ c = tabId[reqs[r].tab] /\ r \in Request /\ c \in ConnId
      /\ reqs[r].tab \in Tab /\ tabs[reqs[r].tab] # "new"
      /\ \A u \in Tab : \A k \in 1..Len(delivered[u]) :
            reqs[delivered[u][k]].tab = reqs[r].tab /\ reqs[delivered[u][k]].by = a
                => delivered[u][k] < r
      /\ \A j \in 2..Len(fromAgent[a]) :
            reqs[fromAgent[a][j].req].tab = reqs[r].tab => r < fromAgent[a][j].req
  <2>1. r \in Request /\ c \in ConnId
    BY <1>2 DEF Envelope
  <2>2. r \in DOMAIN reqs /\ reqs[r].by = a /\ c = tabId[reqs[r].tab]
    BY <1>0, <1>2 DEF AnswersInOrder, TabOf
  <2>3. \A u \in Tab : \A k \in 1..Len(delivered[u]) :
            reqs[delivered[u][k]].tab = reqs[r].tab /\ reqs[delivered[u][k]].by = a
                => delivered[u][k] < r
    BY <1>0, <1>2, <2>2 DEF AnswersInOrder, SameTabAndAgent, TabOf
  <2>4. \A j \in 2..Len(fromAgent[a]) :
            reqs[fromAgent[a][j].req].tab = reqs[r].tab => r < fromAgent[a][j].req
    BY <1>0, <1>2 DEF AnswersInOrder, TabOf
  <2>5. reqs[r].tab \in Tab /\ tabs[reqs[r].tab] # "new"
    BY <1>0, <2>2, RequestsTyped DEF GatewayInv, RequestsHaveTabs, TabOf
  <2>. QED
    BY <2>1, <2>2, <2>3, <2>4, <2>5
<1>4. \A u \in Tab :
        \/ delivered'[u] = delivered[u]
        \/ /\ delivered'[u] = Append(delivered[u], r) /\ tabs[u] = "open"
           /\ tabEpoch[u] = tabEpoch[reqs[r].tab] => u = reqs[r].tab
  <2> SUFFICES ASSUME NEW u \in Tab, connOf[u] = c
               PROVE  /\ delivered'[u] = Append(delivered[u], r) /\ tabs[u] = "open"
                      /\ tabEpoch[u] = tabEpoch[reqs[r].tab] => u = reqs[r].tab
    BY DEF RouteReply
  <2>1. delivered'[u] = Append(delivered[u], r)
    BY DEF RouteReply
  <2>2. tabs[u] = "open" /\ tabId[u] = c
    BY <1>0, <1>3 DEF IdsAreGivenOnce
  <2>3. tabEpoch[u] = tabEpoch[reqs[r].tab] => u = reqs[r].tab
    BY <1>0, <1>3, <2>2 DEF IdsAreGivenOnce
  <2>. QED
    BY <2>1, <2>2, <2>3
<1>5. \A u \in Tab :
        /\ delivered'[u] \in Seq(Request)
        /\ \A i \in 1..Len(delivered'[u]) :
              \/ i \in 1..Len(delivered[u]) /\ delivered'[u][i] = delivered[u][i]
              \/ /\ delivered'[u][i] = r
                 /\ tabEpoch[u] = tabEpoch[reqs[r].tab] => u = reqs[r].tab
        /\ \A i, j \in 1..Len(delivered'[u]) :
              i < j => i \in 1..Len(delivered[u]) /\ delivered'[u][i] = delivered[u][i]
  <2>. HIDE DEF r, c
  <2> TAKE u \in Tab
  <2>1. delivered[u] \in Seq(Request)
    BY <1>0 DEF TypeOK
  <2>2. CASE delivered'[u] = delivered[u]
    BY <2>1, <2>2
  <2>3. CASE /\ delivered'[u] = Append(delivered[u], r)
             /\ tabEpoch[u] = tabEpoch[reqs[r].tab] => u = reqs[r].tab
    BY <1>3, <2>1, <2>3, Appended
  <2>. QED
    BY <1>4, <2>2, <2>3
<1>6. /\ \A b \in Agent : b # a => fromAgent'[b] = fromAgent[b]
      /\ fromAgent'[a] = Tail(fromAgent[a])
  BY <1>0 DEF RouteReply, TypeOK
<1>. HIDE DEF r, c
<1>7. TypeOK'
  <2>1. fromAgent' \in [Agent -> Seq(Envelope)]
    BY <1>0, <1>2 DEF RouteReply, TypeOK
  <2>2. delivered' \in [Tab -> Seq(Request)]
    <3>1. \A u \in Tab : delivered'[u] \in Seq(Request)
      BY <1>5
    <3>2. delivered' = [u \in Tab |-> delivered'[u]]
      BY DEF RouteReply
    <3>. QED
      BY <3>1, <3>2
  <2>. QED
    BY <1>0, <1>1, <2>1, <2>2 DEF TypeOK
<1>8. IdsAreGivenOnce'
  <2>1. \A u \in Tab : tabs[u] = "new" => delivered'[u] = delivered[u]
    BY <1>4
  <2>. QED
    BY <1>0, <1>1, <2>1 DEF IdsAreGivenOnce
<1>9. RequestsHaveTabs' /\ ActivePaneIsAskers' /\ ForwardsLatest' /\ WaitingInOrder'
  BY <1>1 DEF GatewayInv, RequestsHaveTabs, ActivePaneIsAskers, ForwardsLatest, WaitingInOrder,
              TabOf, Handled
<1>10. HandledNow'
  <2>1. Busy => r # agent.req
    BY <1>2 DEF GatewayInv, HandledNow, r
  <2>2. \A b \in Agent : \A i \in 1..Len(fromAgent'[b]) :
          \E j \in 1..Len(fromAgent[b]) : fromAgent'[b][i] = fromAgent[b][j]
    <3> TAKE b \in Agent
    <3> TAKE i \in 1..Len(fromAgent'[b])
    <3>1. CASE b = a
      <4>1. i + 1 \in 1..Len(fromAgent[a]) /\ fromAgent'[a][i] = fromAgent[a][i + 1]
        BY <1>2, <1>6, <3>1
      <4>. QED
        BY <3>1, <4>1
    <3>2. CASE b # a
      BY <1>6, <3>2
    <3>. QED
      BY <3>1, <3>2
  <2>3. HandledNow
    BY DEF GatewayInv
  <2>4. Busy => \A b \in Agent : \A i \in 1..Len(fromAgent'[b]) : fromAgent'[b][i].req # agent.req
    BY ONLY <2>2, <2>3 DEF HandledNow
  <2>5. Busy => \A u \in Tab : \A i \in 1..Len(delivered'[u]) : delivered'[u][i] # agent.req
    BY ONLY <1>5, <2>1, <2>3 DEF HandledNow
  <2>6. agent' = agent /\ reqs' = reqs /\ tabId' = tabId
    BY <1>1
  <2>. QED
    BY ONLY <2>3, <2>4, <2>5, <2>6 DEF HandledNow, Busy, TabOf, Handled
<1>11. AnswersInOrder'
  <2>. DEFINE read(b) == IF b = a THEN 1 ELSE 0
  <2>1. ASSUME NEW b \in Agent, NEW i \in 1..Len(fromAgent'[b])
        PROVE  i + read(b) \in 1..Len(fromAgent[b]) /\ fromAgent'[b][i] = fromAgent[b][i + read(b)]
    <3>1. CASE b = a
      BY <1>2, <1>6, <3>1
    <3>2. CASE b # a
      BY <1>6, <3>2
    <3>. QED
      BY <3>1, <3>2
  <2>2. \A b \in Agent : read(b) \in Nat
    OBVIOUS
  <2> SUFFICES ASSUME NEW b \in Agent, NEW i \in 1..Len(fromAgent'[b])
               PROVE  LET s == fromAgent'[b][i].req
                      IN  /\ s \in DOMAIN reqs /\ reqs[s].by = b
                          /\ fromAgent'[b][i].conn = tabId[reqs[s].tab]
                          /\ \A j \in 1..Len(fromAgent'[b]) :
                                i < j /\ reqs[fromAgent'[b][j].req].tab = reqs[s].tab
                                    => s < fromAgent'[b][j].req
                          /\ \A u \in Tab : \A k \in 1..Len(delivered'[u]) :
                                /\ reqs[delivered'[u][k]].tab = reqs[s].tab
                                /\ reqs[delivered'[u][k]].by = reqs[s].by
                                => delivered'[u][k] < s
    BY <1>1 DEF AnswersInOrder, SameTabAndAgent, TabOf
  <2>. DEFINE s == fromAgent'[b][i].req
  <2>3. /\ i + read(b) \in 1..Len(fromAgent[b]) /\ s = fromAgent[b][i + read(b)].req
        /\ fromAgent'[b][i] = fromAgent[b][i + read(b)]
    BY <2>1
  <2>4. /\ s \in DOMAIN reqs /\ reqs[s].by = b /\ fromAgent'[b][i].conn = tabId[reqs[s].tab]
        /\ \A u \in Tab : \A k \in 1..Len(delivered[u]) :
                reqs[delivered[u][k]].tab = reqs[s].tab /\ reqs[delivered[u][k]].by = reqs[s].by
                    => delivered[u][k] < s
    <3>. DEFINE j == i + read(b)
    <3>1. AnswersInOrder
      BY <1>0
    <3>2. /\ j \in 1..Len(fromAgent[b]) /\ s = fromAgent[b][j].req
          /\ fromAgent'[b][i] = fromAgent[b][j]
      BY ONLY <2>3
    <3>. HIDE DEF read, s, j
    <3>. QED
      BY ONLY <3>1, <3>2, b \in Agent DEF AnswersInOrder, SameTabAndAgent, TabOf
  <2>5. \A j \in 1..Len(fromAgent'[b]) : i < j /\ reqs[fromAgent'[b][j].req].tab = reqs[s].tab
                                            => s < fromAgent'[b][j].req
    <3> SUFFICES ASSUME NEW j \in 1..Len(fromAgent'[b]), i < j,
                        reqs[fromAgent'[b][j].req].tab = reqs[s].tab
                 PROVE  s < fromAgent'[b][j].req
      OBVIOUS
    <3>1. j + read(b) \in 1..Len(fromAgent[b]) /\ fromAgent'[b][j] = fromAgent[b][j + read(b)]
      BY <2>1
    <3>2. i + read(b) < j + read(b)
      BY <2>2
    <3>. HIDE DEF read, s
    <3>. QED
      BY <1>0, <2>3, <3>1, <3>2 DEF AnswersInOrder, TabOf
  <2>6. reqs[s].tab = reqs[r].tab /\ reqs[s].by = a => r < s
    <3>1. reqs[s].by = a => b = a /\ i + 1 \in 2..Len(fromAgent[a]) /\ s = fromAgent[a][i + 1].req
      BY <1>2, <1>6, <2>4
    <3>. QED
      BY <1>3, <3>1
  <2>. HIDE DEF s
  <2>7. \A u \in Tab : \A k \in 1..Len(delivered'[u]) :
            reqs[delivered'[u][k]].tab = reqs[s].tab /\ reqs[delivered'[u][k]].by = reqs[s].by
                => delivered'[u][k] < s
    <3> SUFFICES ASSUME NEW u \in Tab, NEW k \in 1..Len(delivered'[u]),
                        reqs[delivered'[u][k]].tab = reqs[s].tab,
                        reqs[delivered'[u][k]].by = reqs[s].by
                 PROVE  delivered'[u][k] < s
      OBVIOUS
    <3>1. CASE k \in 1..Len(delivered[u]) /\ delivered'[u][k] = delivered[u][k]
      BY <2>4, <3>1
    <3>2. CASE delivered'[u][k] = r
      BY <1>3, <2>6, <3>2
    <3>. QED
      BY <1>5, <3>1, <3>2
  <2>. QED
    BY <2>4, <2>5, <2>7 DEF s
<1>12. DeliveredInOrder'
  <2>1. \A u \in Tab : \A i \in 1..Len(delivered'[u]) :
          /\ delivered'[u][i] \in DOMAIN reqs /\ reqs[delivered'[u][i]].by # 0
          /\ tabEpoch[reqs[delivered'[u][i]].tab] = tabEpoch[u] => reqs[delivered'[u][i]].tab = u
    <3> SUFFICES ASSUME NEW u \in Tab, NEW i \in 1..Len(delivered'[u])
                 PROVE  /\ delivered'[u][i] \in DOMAIN reqs /\ reqs[delivered'[u][i]].by # 0
                        /\ tabEpoch[reqs[delivered'[u][i]].tab] = tabEpoch[u]
                              => reqs[delivered'[u][i]].tab = u
      OBVIOUS
    <3>1. CASE i \in 1..Len(delivered[u]) /\ delivered'[u][i] = delivered[u][i]
      BY <1>0, <3>1 DEF DeliveredInOrder, SameSession, TabOf, Handled
    <3>2. CASE /\ delivered'[u][i] = r
               /\ tabEpoch[u] = tabEpoch[reqs[r].tab] => u = reqs[r].tab
      <4>1. r \in DOMAIN reqs /\ reqs[r].by = a /\ a # 0
        BY <1>3
      <4>. QED
        BY ONLY <3>2, <4>1
    <3>. QED
      BY <1>5, <3>1, <3>2
  <2>2. \A u \in Tab : \A i, j \in 1..Len(delivered'[u]) :
          /\ i < j /\ reqs[delivered'[u][i]].tab = reqs[delivered'[u][j]].tab
          /\ reqs[delivered'[u][i]].by = reqs[delivered'[u][j]].by
          => delivered'[u][i] < delivered'[u][j]
    <3> SUFFICES ASSUME NEW u \in Tab, NEW i \in 1..Len(delivered'[u]),
                        NEW j \in 1..Len(delivered'[u]), i < j,
                        reqs[delivered'[u][i]].tab = reqs[delivered'[u][j]].tab,
                        reqs[delivered'[u][i]].by = reqs[delivered'[u][j]].by
                 PROVE  delivered'[u][i] < delivered'[u][j]
      OBVIOUS
    <3>1. i \in 1..Len(delivered[u]) /\ delivered'[u][i] = delivered[u][i]
      BY <1>5
    <3>2. CASE j \in 1..Len(delivered[u]) /\ delivered'[u][j] = delivered[u][j]
      BY <1>0, <3>1, <3>2 DEF DeliveredInOrder, SameTabAndAgent, TabOf
    <3>3. CASE delivered'[u][j] = r
      BY <1>3, <3>1, <3>3
    <3>. QED
      BY <1>5, <3>2, <3>3
  <2>. QED
    BY <1>1, <2>1, <2>2 DEF DeliveredInOrder, SameSession, SameTabAndAgent, TabOf, Handled
<1>13. OneSession' /\ ServesWhileUp' /\ SelectedByAsker'
  BY <1>1 DEF GatewayInv, OneSession, ServesWhileUp, NewestAgentServes, SelectedByAsker, TabOf,
              Handled
<1>. QED
  BY <1>7, <1>8, <1>9, <1>10, <1>11, <1>12, <1>13 DEF GatewayInv

\* The session is forgotten only when no agent is connected and no tab is attached.
LEMMA InvDetachAgent ==
    ASSUME GatewayInv, NEW a \in Agent, DetachAgent(a)
    PROVE  GatewayInv'
<1>. USE Bounds
<1>0. TypeOK /\ IdsAreGivenOnce /\ ServesWhileUp
  BY DEF GatewayInv
<1>1. /\ tabs' = tabs /\ connOf' = connOf /\ forwarding' = forwarding /\ toAgent' = toAgent
      /\ agent' = agent /\ selected' = selected /\ reqs' = reqs /\ delivered' = delivered
      /\ tabEpoch' = tabEpoch /\ tabId' = tabId
  BY DEF DetachAgent, agentVars, historyVars
<1>2. /\ fromAgent'[a] = <<>> /\ \A b \in Agent : b # a => fromAgent'[b] = fromAgent[b]
      /\ fromAgent' \in [Agent -> Seq(Envelope)]
  BY <1>0 DEF DetachAgent, TypeOK
<1>3. /\ IdsAreGivenOnce' /\ nextConnSeq' \in 0..MaxTabs /\ epoch' \in Nat
      /\ UNCHANGED epoch \/ Remaining(a) = 0
  <2>1. Attached \in SUBSET Tab /\ Forget(Remaining(a), Attached)
    BY DEF Attached, DetachAgent
  <2>2. \A u \in Tab : /\ connOf'[u] = IF tabs'[u] = "open" THEN connOf[u] ELSE 0
                       /\ tabs'[u] = "open" <=> u \in Attached
                       /\ tabs'[u] # tabs[u] => tabs[u] = "open" /\ tabs'[u] = "closed"
    BY <1>0, <1>1 DEF Attached, IdsAreGivenOnce
  <2>. QED
    BY <1>0, <1>1, <2>1, <2>2, ForgetKeepsIds
<1>4. hubAgent' \in 0..MaxAgents /\ hubAgent' <= agent.no /\ (agent.link = "up" => hubAgent' = agent.no)
  <2>1. agent.no \in Nat /\ hubAgent \in Nat
    BY <1>0 DEF TypeOK
  <2>. QED
    BY <1>0, <2>1 DEF DetachAgent, Remaining, ServesWhileUp, NewestAgentServes, TypeOK
<1>5. TypeOK'
  <2>1. reading' \subseteq Agent
    BY <1>0 DEF DetachAgent, TypeOK
  <2>. QED
    BY <1>0, <1>1, <1>2, <1>3, <1>4, <2>1 DEF TypeOK
<1>6. RequestsHaveTabs' /\ ActivePaneIsAskers' /\ ForwardsLatest' /\ WaitingInOrder'
  BY <1>1 DEF GatewayInv, RequestsHaveTabs, ActivePaneIsAskers, ForwardsLatest, WaitingInOrder,
              TabOf, Handled
<1>7. \A b \in Agent : \A i \in 1..Len(fromAgent'[b]) :
        b # a /\ i \in 1..Len(fromAgent[b]) /\ fromAgent'[b] = fromAgent[b]
  <2>1. 1..Len(fromAgent'[a]) = {}
    BY ONLY <1>2
  <2>2. \A b \in Agent : b # a => fromAgent'[b] = fromAgent[b]
    BY ONLY <1>2
  <2>. QED
    BY ONLY <2>1, <2>2
<1>8. HandledNow' /\ AnswersInOrder' /\ DeliveredInOrder'
  <2>1. HandledNow'
    <3>1. HandledNow
      BY DEF GatewayInv
    <3>2. agent' = agent /\ reqs' = reqs /\ delivered' = delivered /\ tabId' = tabId
      BY <1>1
    <3>3. \A b \in Agent : \A i \in 1..Len(fromAgent'[b]) :
            i \in 1..Len(fromAgent[b]) /\ fromAgent'[b] = fromAgent[b]
      BY <1>7
    <3>. QED
      BY ONLY <3>1, <3>2, <3>3 DEF HandledNow, Busy, TabOf, Handled
  <2>2. AnswersInOrder'
    <3>1. AnswersInOrder
      BY DEF GatewayInv
    <3>2. reqs' = reqs /\ delivered' = delivered /\ tabId' = tabId
      BY <1>1
    <3>3. \A b \in Agent : \A i \in 1..Len(fromAgent'[b]) :
            i \in 1..Len(fromAgent[b]) /\ fromAgent'[b] = fromAgent[b]
      BY <1>7
    <3>. QED
      BY ONLY <3>1, <3>2, <3>3 DEF AnswersInOrder, SameTabAndAgent, TabOf
  <2>3. DeliveredInOrder'
    BY <1>1 DEF GatewayInv, DeliveredInOrder, SameSession, SameTabAndAgent, TabOf, Handled
  <2>. QED
    BY <2>1, <2>2, <2>3
<1>9. agent.link = "up" => epoch' = epoch
  <2>1. agent.link = "up" => Remaining(a) # 0
    BY <1>0, <1>4 DEF DetachAgent, ServesWhileUp, NewestAgentServes
  <2>. QED
    BY <1>3, <2>1
<1>10. OneSession' /\ SelectedByAsker'
  <2>1. OneSession'
    BY <1>1, <1>9 DEF GatewayInv, OneSession, TabOf, Handled
  <2>2. SelectedByAsker'
    BY <1>1 DEF GatewayInv, SelectedByAsker, TabOf, Handled
  <2>. QED
    BY <2>1, <2>2
<1>11. ServesWhileUp'
  BY <1>0, <1>1, <1>4 DEF ServesWhileUp, NewestAgentServes
<1>. QED
  BY <1>3, <1>5, <1>6, <1>8, <1>10, <1>11 DEF GatewayInv

\* A new agent has handled nothing and nothing waits for it.
LEMMA InvConnect ==
    ASSUME GatewayInv, Connect
    PROVE  GatewayInv'
<1>. USE Bounds
<1>0. TypeOK /\ IdsAreGivenOnce /\ ServesWhileUp
  BY DEF GatewayInv
<1>1. /\ tabs' = tabs /\ connOf' = connOf /\ forwarding' = forwarding /\ nextConnSeq' = nextConnSeq
      /\ reqs' = reqs /\ delivered' = delivered /\ fromAgent' = fromAgent
      /\ epoch' = epoch /\ tabEpoch' = tabEpoch /\ tabId' = tabId
  BY DEF Connect, historyVars, epochVars
<1>2. /\ agent'.no = agent.no + 1 /\ agent'.link = "up" /\ agent'.pc = "read"
      /\ hubAgent' = agent.no + 1 /\ toAgent' = <<>>
      /\ agent.no \in Nat /\ agent.no + 1 \in 1..MaxAgents
      /\ \A c \in ConnId : selected'[c] = NoPane
  BY <1>0 DEF Connect, Registry, NewRegistry, TypeOK
<1>3. TypeOK'
  <2>1. agent' \in [no : 0..MaxAgents, link : {"up", "down"}, conn : 0..MaxTabs,
                     pc : {"dial", "read", "wait", "reply"}, req : 0..MaxRequests]
    BY <1>2 DEF Connect, NoRequest
  <2>2. selected' \in [ConnId -> Pane \union {NoPane}] /\ reading' \subseteq Agent
    BY <1>0, <1>2 DEF Connect, Registry, NewRegistry, TypeOK, Agent
  <2>3. toAgent' \in Seq(Envelope)
    BY <1>2
  <2>. QED
    BY <1>0, <1>1, <1>2, <2>1, <2>2, <2>3 DEF TypeOK
<1>4. IdsAreGivenOnce'
  BY <1>0, <1>1 DEF IdsAreGivenOnce
<1>5. \A r \in DOMAIN reqs : reqs[r].by <= agent.no /\ reqs[r].by \in Nat
  BY <1>0, RequestsTyped DEF GatewayInv, RequestsHaveTabs
<1>6. RequestsHaveTabs' /\ ActivePaneIsAskers'
  BY <1>1, <1>2, <1>5 DEF GatewayInv, RequestsHaveTabs, ActivePaneIsAskers, TabOf, Handled
<1>7. ForwardsLatest'
  <2>1. \A t \in Tab : forwarding[t].agent \in Nat
    BY <1>0 DEF TypeOK, Forwarded
  <2>. QED
    BY <1>1, <1>2, <2>1 DEF GatewayInv, ForwardsLatest, TabOf, Handled
<1>8. WaitingInOrder' /\ HandledNow' /\ SelectedByAsker'
  BY <1>2 DEF WaitingInOrder, HandledNow, Busy, SelectedByAsker
<1>9. AnswersInOrder' /\ DeliveredInOrder'
  BY <1>1, AnswersFrame DEF GatewayInv
<1>10. OneSession'
  <2>1. \A r \in DOMAIN reqs : reqs[r].by # agent.no + 1
    BY <1>2, <1>5
  <2>. QED
    BY <1>1, <1>2, <2>1 DEF OneSession, TabOf, Handled
<1>11. ServesWhileUp'
  BY <1>2 DEF ServesWhileUp, NewestAgentServes
<1>. QED
  BY <1>3, <1>4, <1>6, <1>7, <1>8, <1>9, <1>10, <1>11 DEF GatewayInv

\* The steps of the loop that change nothing but the state of its connection.
LEMMA LoopFrame ==
    ASSUME GatewayInv, agent'.no = agent.no, agent'.conn = agent.conn, agent'.req = agent.req,
           agent' \in [no : 0..MaxAgents, link : {"up", "down"}, conn : 0..MaxTabs,
                       pc : {"dial", "read", "wait", "reply"}, req : 0..MaxRequests],
           Busy' => Busy, agent'.link = "up" => agent.link = "up",
           agent'.pc = "dial" => agent'.link = "down", agent'.pc # "dial" => agent.no # 0,
           UNCHANGED <<tabs, connOf, nextConnSeq, hubAgent, reading, forwarding, fromAgent, selected,
                       toAgent, reqs, delivered, epoch, tabEpoch, tabId>>
    PROVE  GatewayInv'
<1>1. TypeOK'
  BY DEF GatewayInv, TypeOK
<1>2. IdsAreGivenOnce' /\ RequestsHaveTabs' /\ ActivePaneIsAskers'
  BY DEF GatewayInv, IdsAreGivenOnce, RequestsHaveTabs, ActivePaneIsAskers, TabOf, Handled
<1>3. ForwardsLatest' /\ WaitingInOrder'
  BY DEF GatewayInv, ForwardsLatest, WaitingInOrder, TabOf, Handled
<1>4. HandledNow'
  BY DEF GatewayInv, HandledNow, Busy, TabOf, Handled
<1>5. AnswersInOrder' /\ DeliveredInOrder'
  BY AnswersFrame DEF GatewayInv
<1>6. OneSession' /\ SelectedByAsker'
  BY DEF GatewayInv, OneSession, SelectedByAsker, TabOf, Handled
<1>7. ServesWhileUp'
  BY DEF GatewayInv, ServesWhileUp, NewestAgentServes
<1>. QED
  BY <1>1, <1>2, <1>3, <1>4, <1>5, <1>6, <1>7 DEF GatewayInv

LEMMA InvBreakLink ==
    ASSUME GatewayInv, BreakLink
    PROVE  GatewayInv'
<1>1. agent \in [no : 0..MaxAgents, link : {"up", "down"}, conn : 0..MaxTabs,
                 pc : {"dial", "read", "wait", "reply"}, req : 0..MaxRequests]
  BY DEF GatewayInv, TypeOK
<1>2. /\ agent'.no = agent.no /\ agent'.conn = agent.conn /\ agent'.req = agent.req
      /\ agent'.link = "down" /\ agent'.pc = agent.pc
      /\ agent' \in [no : 0..MaxAgents, link : {"up", "down"}, conn : 0..MaxTabs,
                     pc : {"dial", "read", "wait", "reply"}, req : 0..MaxRequests]
  BY <1>1 DEF BreakLink
<1>3. agent'.pc # "dial" => agent.no # 0
  BY <1>2 DEF GatewayInv, HandledNow
<1>. QED
  BY <1>2, <1>3, LoopFrame DEF BreakLink, Busy, hubVars, epochVars

LEMMA InvEndRuntime ==
    ASSUME GatewayInv, EndRuntime
    PROVE  GatewayInv'
<1>1. agent \in [no : 0..MaxAgents, link : {"up", "down"}, conn : 0..MaxTabs,
                 pc : {"dial", "read", "wait", "reply"}, req : 0..MaxRequests]
  BY DEF GatewayInv, TypeOK
<1>2. /\ agent'.no = agent.no /\ agent'.conn = agent.conn /\ agent'.req = agent.req
      /\ agent'.link = "down" /\ agent'.pc = "dial"
      /\ agent' \in [no : 0..MaxAgents, link : {"up", "down"}, conn : 0..MaxTabs,
                     pc : {"dial", "read", "wait", "reply"}, req : 0..MaxRequests]
  BY <1>1 DEF EndRuntime
<1>. QED
  BY <1>2, LoopFrame DEF EndRuntime, Busy, hubVars, historyVars, epochVars

LEMMA InvPosted ==
    ASSUME GatewayInv, Posted
    PROVE  GatewayInv'
<1>1. agent \in [no : 0..MaxAgents, link : {"up", "down"}, conn : 0..MaxTabs,
                 pc : {"dial", "read", "wait", "reply"}, req : 0..MaxRequests]
  BY DEF GatewayInv, TypeOK
<1>2. /\ agent'.no = agent.no /\ agent'.conn = agent.conn /\ agent'.req = agent.req
      /\ agent'.link = agent.link /\ agent.pc = "wait" /\ agent'.pc = "reply"
      /\ agent' \in [no : 0..MaxAgents, link : {"up", "down"}, conn : 0..MaxTabs,
                     pc : {"dial", "read", "wait", "reply"}, req : 0..MaxRequests]
  BY <1>1 DEF Posted
<1>3. agent.no # 0
  BY <1>2 DEF GatewayInv, HandledNow
<1>. QED
  BY <1>2, <1>3, LoopFrame DEF Posted, Busy, hubVars, historyVars, epochVars

\* The rest of the queue of a task, and a step that changes nothing.
LEMMA QueueFrame ==
    ASSUME GatewayInv,
           UNCHANGED <<tabs, hubVars, forwarding, fromAgent, agentVars, toAgent, historyVars, epochVars>>
    PROVE  GatewayInv'
<1>1. agent \in [no : 0..MaxAgents, link : {"up", "down"}, conn : 0..MaxTabs,
                 pc : {"dial", "read", "wait", "reply"}, req : 0..MaxRequests]
  BY DEF GatewayInv, TypeOK
<1>2. agent' = agent
  BY DEF agentVars
<1>3. (agent.pc = "dial" => agent.link = "down") /\ (agent.pc # "dial" => agent.no # 0)
  BY <1>1 DEF GatewayInv, HandledNow, ServesWhileUp
<1>. QED
  BY <1>1, <1>2, <1>3, LoopFrame DEF Busy, hubVars, agentVars, historyVars, epochVars

\* The answer comes after all of the tab's answers of this agent, sent or delivered.
LEMMA InvReply ==
    ASSUME GatewayInv, Reply
    PROVE  GatewayInv'
<1>. USE Bounds
<1>. DEFINE a == agent.no
            r == agent.req
            msg == [conn |-> agent.conn, req |-> agent.req]
<1>0. TypeOK /\ IdsAreGivenOnce /\ AnswersInOrder /\ DeliveredInOrder
  BY DEF GatewayInv
<1>1. /\ tabs' = tabs /\ connOf' = connOf /\ forwarding' = forwarding /\ nextConnSeq' = nextConnSeq
      /\ reqs' = reqs /\ delivered' = delivered /\ toAgent' = toAgent /\ selected' = selected
      /\ epoch' = epoch /\ tabEpoch' = tabEpoch /\ tabId' = tabId
      /\ hubAgent' = hubAgent /\ reading' = reading
  BY DEF Reply, hubVars, historyVars, epochVars
<1>2. /\ r \in DOMAIN reqs /\ reqs[r].by = a /\ agent.conn = tabId[reqs[r].tab] /\ a \in Agent
      /\ r \in Request /\ reqs[r].tab \in Tab
      /\ \A q \in DOMAIN reqs : reqs[q].tab = reqs[r].tab /\ reqs[q].by # 0 => q <= r
      /\ \A b \in Agent : \A i \in 1..Len(fromAgent[b]) : fromAgent[b][i].req # r
      /\ \A t \in Tab : \A i \in 1..Len(delivered[t]) : delivered[t][i] # r
  <2>1. Busy /\ agent.no # 0 /\ agent.no \in 0..MaxAgents
    BY <1>0 DEF GatewayInv, HandledNow, Reply, Busy, TypeOK
  <2>. QED
    BY <1>0, <2>1, RequestsTyped DEF GatewayInv, HandledNow, TabOf, Handled, Agent
<1>3. msg \in Envelope /\ msg.req = r /\ msg.conn = tabId[reqs[r].tab]
  <2>1. tabs[reqs[r].tab] # "new"
    BY <1>2 DEF GatewayInv, RequestsHaveTabs, TabOf
  <2>2. \A t \in Tab : tabs[t] # "new" => tabId[t] \in ConnId
    BY <1>0 DEF IdsAreGivenOnce, TypeOK, ConnId
  <2>. QED
    BY <1>2, <2>1, <2>2 DEF Envelope
<1>4. /\ agent'.no = a /\ agent'.link = agent.link /\ agent'.pc = "read" /\ agent.pc = "reply"
      /\ agent' \in [no : 0..MaxAgents, link : {"up", "down"}, conn : 0..MaxTabs,
                     pc : {"dial", "read", "wait", "reply"}, req : 0..MaxRequests]
  BY <1>0 DEF Reply, TypeOK
<1>5. /\ fromAgent' \in [Agent -> Seq(Envelope)]
      /\ \A b \in Agent : \A i \in 1..Len(fromAgent'[b]) :
            \/ i \in 1..Len(fromAgent[b]) /\ fromAgent'[b][i] = fromAgent[b][i]
            \/ b = a /\ fromAgent'[b][i] = msg
      /\ \A b \in Agent : \A i, j \in 1..Len(fromAgent'[b]) :
            i < j => i \in 1..Len(fromAgent[b]) /\ fromAgent'[b][i] = fromAgent[b][i]
  <2>1. \A b \in Agent : fromAgent[b] \in Seq(Envelope)
    BY <1>0 DEF TypeOK
  <2>2. CASE fromAgent' = fromAgent
    BY <1>0, <2>1, <2>2 DEF TypeOK
  <2>3. CASE fromAgent' = [fromAgent EXCEPT ![a] = Append(@, msg)]
    <3>. HIDE DEF msg, a, r
    <3>1. /\ fromAgent'[a] = Append(fromAgent[a], msg)
          /\ \A b \in Agent : b # a => fromAgent'[b] = fromAgent[b]
      BY <1>0, <1>2, <2>3 DEF TypeOK
    <3>2. /\ Append(fromAgent[a], msg) \in Seq(Envelope)
          /\ \A i \in 1..Len(Append(fromAgent[a], msg)) :
                \/ i \in 1..Len(fromAgent[a]) /\ Append(fromAgent[a], msg)[i] = fromAgent[a][i]
                \/ i = Len(fromAgent[a]) + 1 /\ Append(fromAgent[a], msg)[i] = msg
          /\ \A i, j \in 1..Len(Append(fromAgent[a], msg)) : i < j => i \in 1..Len(fromAgent[a])
          /\ \A i \in 1..Len(fromAgent[a]) : Append(fromAgent[a], msg)[i] = fromAgent[a][i]
      BY <1>2, <1>3, <2>1, Appended
    <3>3. fromAgent' \in [Agent -> Seq(Envelope)]
      BY <1>0, <1>2, <2>3, <3>2 DEF TypeOK
    <3>4. ASSUME NEW b \in Agent, NEW i \in 1..Len(fromAgent'[b])
          PROVE  \/ i \in 1..Len(fromAgent[b]) /\ fromAgent'[b][i] = fromAgent[b][i]
                 \/ b = a /\ fromAgent'[b][i] = msg
      <4>1. CASE b = a
        BY <3>1, <3>2, <4>1
      <4>2. CASE b # a
        BY <3>1, <4>2
      <4>. QED
        BY <4>1, <4>2
    <3>5. ASSUME NEW b \in Agent, NEW i \in 1..Len(fromAgent'[b]), NEW j \in 1..Len(fromAgent'[b]),
                 i < j
          PROVE  i \in 1..Len(fromAgent[b]) /\ fromAgent'[b][i] = fromAgent[b][i]
      <4>1. CASE b = a
        BY <3>1, <3>2, <3>5, <4>1
      <4>2. CASE b # a
        BY <3>1, <4>2
      <4>. QED
        BY <4>1, <4>2
    <3>. QED
      BY <3>3, <3>4, <3>5
  <2>. QED
    BY <2>2, <2>3 DEF Reply
<1>. HIDE DEF msg, a, r
<1>6. TypeOK'
  BY <1>0, <1>1, <1>4, <1>5 DEF TypeOK
<1>7. IdsAreGivenOnce' /\ RequestsHaveTabs' /\ ActivePaneIsAskers'
  BY <1>1, <1>4 DEF GatewayInv, IdsAreGivenOnce, RequestsHaveTabs, ActivePaneIsAskers, TabOf,
                    Handled, a
<1>8. ForwardsLatest' /\ WaitingInOrder'
  BY <1>1, <1>4 DEF GatewayInv, ForwardsLatest, WaitingInOrder, TabOf, Handled, a
<1>9. HandledNow'
  BY <1>2, <1>4 DEF HandledNow, Busy
<1>10. AnswersInOrder'
  <2>1. \A q \in DOMAIN reqs : reqs[q].tab = reqs[r].tab /\ reqs[q].by # 0 /\ q # r => q < r
    BY <1>0, <1>2, RequestsTyped
  <2> SUFFICES ASSUME NEW b \in Agent, NEW i \in 1..Len(fromAgent'[b])
               PROVE  LET s == fromAgent'[b][i].req
                      IN  /\ s \in DOMAIN reqs /\ reqs[s].by = b
                          /\ fromAgent'[b][i].conn = tabId[reqs[s].tab]
                          /\ \A j \in 1..Len(fromAgent'[b]) :
                                i < j /\ reqs[fromAgent'[b][j].req].tab = reqs[s].tab
                                    => s < fromAgent'[b][j].req
                          /\ \A u \in Tab : \A k \in 1..Len(delivered[u]) :
                                /\ reqs[delivered[u][k]].tab = reqs[s].tab
                                /\ reqs[delivered[u][k]].by = reqs[s].by
                                => delivered[u][k] < s
    BY <1>1 DEF AnswersInOrder, SameTabAndAgent, TabOf
  <2>. DEFINE s == fromAgent'[b][i].req
  <2>2. /\ s \in DOMAIN reqs /\ reqs[s].by = b /\ fromAgent'[b][i].conn = tabId[reqs[s].tab]
        /\ \A u \in Tab : \A k \in 1..Len(delivered[u]) :
              /\ reqs[delivered[u][k]].tab = reqs[s].tab
              /\ reqs[delivered[u][k]].by = reqs[s].by
              => delivered[u][k] < s
    <3>1. CASE i \in 1..Len(fromAgent[b]) /\ fromAgent'[b][i] = fromAgent[b][i]
      BY <1>0, <3>1 DEF AnswersInOrder, SameTabAndAgent, TabOf
    <3>2. CASE b = a /\ fromAgent'[b][i] = msg
      <4>1. s = r
        BY <1>3, <3>2
      <4>2. \A u \in Tab : \A k \in 1..Len(delivered[u]) :
              /\ delivered[u][k] \in DOMAIN reqs /\ reqs[delivered[u][k]].by # 0
              /\ delivered[u][k] # r
        BY <1>0, <1>2 DEF DeliveredInOrder, Handled
      <4>. HIDE DEF s
      <4>. QED
        BY <1>2, <1>3, <2>1, <3>2, <4>1, <4>2
    <3>. QED
      BY <1>5, <3>1, <3>2
  <2>3. ASSUME NEW j \in 1..Len(fromAgent'[b]), i < j,
               reqs[fromAgent'[b][j].req].tab = reqs[s].tab
        PROVE  s < fromAgent'[b][j].req
    <3>1. i \in 1..Len(fromAgent[b]) /\ fromAgent'[b][i] = fromAgent[b][i]
      BY <1>5, <2>3
    <3>2. CASE j \in 1..Len(fromAgent[b]) /\ fromAgent'[b][j] = fromAgent[b][j]
      BY <1>0, <2>3, <3>1, <3>2 DEF AnswersInOrder, TabOf
    <3>3. CASE b = a /\ fromAgent'[b][j] = msg
      <4>1. s # r /\ s \in DOMAIN reqs /\ reqs[s].by # 0
        BY <1>2, <2>2, <3>1
      <4>. HIDE DEF s
      <4>. QED
        BY <1>3, <2>1, <2>3, <3>3, <4>1
    <3>. QED
      BY <1>5, <3>2, <3>3
  <2>. HIDE DEF s
  <2>. QED
    BY <2>2, <2>3 DEF s
<1>11. DeliveredInOrder' /\ OneSession' /\ SelectedByAsker'
  <2>1. DeliveredInOrder'
    BY <1>1 DEF GatewayInv, DeliveredInOrder, SameSession, SameTabAndAgent, TabOf, Handled
  <2>2. OneSession'
    BY <1>1, <1>4 DEF GatewayInv, OneSession, TabOf, Handled, a
  <2>3. SelectedByAsker'
    <3>1. SelectedByAsker /\ agent'.no = agent.no
      BY <1>4 DEF GatewayInv, a
    <3>2. selected' = selected /\ reqs' = reqs /\ tabId' = tabId
      BY <1>1
    <3>. QED
      BY ONLY <3>1, <3>2 DEF SelectedByAsker, TabOf, Handled
  <2>. QED
    BY <2>1, <2>2, <2>3
<1>12. ServesWhileUp'
  BY <1>1, <1>4 DEF GatewayInv, ServesWhileUp, NewestAgentServes, a
<1>. QED
  BY <1>6, <1>7, <1>8, <1>9, <1>10, <1>11, <1>12 DEF GatewayInv

\* The message that is handled is the first of its tab's that was not; what its
\* connection has selected, the same tab asked for under the same agent.
LEMMA InvHandle ==
    ASSUME GatewayInv, Handle
    PROVE  GatewayInv'
<1>. USE Bounds
<1>. DEFINE msg == Head(toAgent)
            r == msg.req
            t == reqs[r].tab
<1>0. TypeOK /\ IdsAreGivenOnce /\ WaitingInOrder
  BY DEF GatewayInv
<1>1. /\ tabs' = tabs /\ connOf' = connOf /\ forwarding' = forwarding /\ nextConnSeq' = nextConnSeq
      /\ delivered' = delivered /\ fromAgent' = fromAgent
      /\ epoch' = epoch /\ tabEpoch' = tabEpoch /\ tabId' = tabId
      /\ hubAgent' = hubAgent /\ reading' = reading
  BY DEF Handle, hubVars, epochVars
<1>2. /\ toAgent[1] = msg /\ 1 \in 1..Len(toAgent) /\ msg \in Envelope
      /\ toAgent' \in Seq(Envelope)
      /\ \A i \in 1..Len(toAgent') : /\ i \in Nat /\ i + 1 \in 1..Len(toAgent) /\ 1 < i + 1
                                     /\ toAgent'[i] = toAgent[i + 1]
  <2>1. toAgent \in Seq(Envelope) /\ toAgent # <<>> /\ toAgent' = Tail(toAgent)
    BY <1>0 DEF Handle, TypeOK
  <2>. QED
    BY <2>1, Taken
<1>3. /\ r \in Request /\ msg.conn \in ConnId /\ r \in DOMAIN reqs /\ reqs[r].by = 0
      /\ msg.conn = tabId[t] /\ t \in Tab /\ tabs[t] # "new"
      /\ \A q \in DOMAIN reqs : reqs[q].tab = t /\ reqs[q].by # 0 => q < r
      /\ \A j \in 1..Len(toAgent) : 1 < j /\ reqs[toAgent[j].req].tab = t => r < toAgent[j].req
      /\ forwarding[t] # Idle => r < forwarding[t].req
  <2>1. msg.req \in Request /\ msg.conn \in ConnId
    BY <1>2 DEF Envelope
  <2>2. r \in DOMAIN reqs /\ reqs[r].by = 0 /\ msg.conn = tabId[t]
    BY <1>0, <1>2 DEF WaitingInOrder, TabOf, Handled
  <2>3. /\ \A q \in DOMAIN reqs : reqs[q].tab = t /\ reqs[q].by # 0 => q < r
        /\ \A j \in 1..Len(toAgent) : 1 < j /\ reqs[toAgent[j].req].tab = t => r < toAgent[j].req
        /\ forwarding[t] # Idle => r < forwarding[t].req
    BY <1>0, <1>2 DEF WaitingInOrder, TabOf, Handled
  <2>4. t \in Tab /\ tabs[t] # "new"
    BY <1>0, <2>2, RequestsTyped DEF GatewayInv, RequestsHaveTabs, TabOf
  <2>. QED
    BY <2>1, <2>2, <2>3, <2>4
<1>4. /\ agent.pc = "read" /\ agent.no \in Agent
      /\ agent'.no = agent.no /\ agent'.link = agent.link /\ agent'.pc \in {"wait", "reply"}
      /\ agent'.conn = msg.conn /\ agent'.req = r
      /\ agent' \in [no : 0..MaxAgents, link : {"up", "down"}, conn : 0..MaxTabs,
                     pc : {"dial", "read", "wait", "reply"}, req : 0..MaxRequests]
  <2>1. agent.pc = "read" /\ agent.no \in Agent
    BY <1>0 DEF GatewayInv, HandledNow, Handle, TypeOK, Agent
  <2>2. PICK pc \in {"wait", "reply"} :
            agent' = [agent EXCEPT !.pc = pc, !.conn = msg.conn, !.req = r]
    BY DEF Handle, NextPc
  <2>3. msg.conn \in 0..MaxTabs /\ r \in 0..MaxRequests
    BY <1>3 DEF ConnId, Request
  <2>. QED
    BY <1>0, <2>1, <2>2, <2>3 DEF TypeOK
<1>5. /\ DOMAIN reqs' = DOMAIN reqs /\ Len(reqs') = Len(reqs) /\ reqs' \in Seq(RequestRecord)
      /\ \A q \in DOMAIN reqs : q # r => reqs'[q] = reqs[q]
      /\ reqs'[r].tab = t /\ reqs'[r].by = agent.no /\ reqs'[r].op = reqs[r].op
      /\ reqs'[r].pane = reqs[r].pane
      /\ reqs'[r].header = IF reqs[r].op = "post" THEN selected[msg.conn] ELSE NoPane
  <2>. DEFINE head == ActivePane(msg)
              rec == [reqs[r] EXCEPT !.by = agent.no, !.header = head]
  <2>1. head \in Pane \union {NoPane}
    BY <1>0, <1>3 DEF ActivePane, TypeOK
  <2>2. reqs[r] \in RequestRecord /\ DOMAIN reqs = 1..Len(reqs) /\ Len(reqs) \in Nat
    BY <1>0, <1>3, RequestsTyped
  <2>3. reqs' = [reqs EXCEPT ![r] = rec]
    BY <1>3, <2>2 DEF Handle
  <2>4. /\ rec \in RequestRecord /\ rec.tab = reqs[r].tab /\ rec.op = reqs[r].op
        /\ rec.pane = reqs[r].pane /\ rec.by = agent.no /\ rec.header = head
    <3>. HIDE DEF head, msg, r
    <3>. QED
      BY <1>4, <2>1, <2>2 DEF RequestRecord
  <2>5. head = IF reqs[r].op = "post" THEN selected[msg.conn] ELSE NoPane
    BY DEF ActivePane
  <2>. HIDE DEF rec, head, msg, r
  <2>. QED
    BY <1>0, <1>3, <2>2, <2>3, <2>4, <2>5 DEF TypeOK, t
<1>6. /\ selected' \in [ConnId -> Pane \union {NoPane}]
      /\ \/ selected' = selected
         \/ /\ reqs[r].op = "select" /\ selected'[msg.conn] = reqs[r].pane
            /\ \A c \in ConnId : c # msg.conn => selected'[c] = selected[c]
  <2>1. selected' = selected \/ (/\ reqs[r].op # "post"
                                 /\ selected' = [selected EXCEPT ![msg.conn] = reqs[r].pane])
    BY DEF Handle
  <2>2. reqs[r].op \in {"select", "post"} /\ reqs[r].pane \in Pane \union {NoPane}
    BY <1>0, <1>3, RequestsTyped
  <2>. HIDE DEF msg, r
  <2>. QED
    BY <1>0, <1>3, <2>1, <2>2 DEF TypeOK
<1>7. \A q \in DOMAIN reqs : reqs'[q].tab = reqs[q].tab /\ (reqs[q].by # 0 => reqs'[q] = reqs[q])
  BY <1>3, <1>5
<1>. HIDE DEF msg, r, t
<1>8. TypeOK'
  BY <1>0, <1>1, <1>2, <1>4, <1>5, <1>6 DEF TypeOK
<1>9. IdsAreGivenOnce'
  BY <1>0, <1>1 DEF IdsAreGivenOnce
<1>10. RequestsHaveTabs'
  <2>1. agent.no \in Nat /\ agent.no # 0
    BY <1>4
  <2>. QED
    BY <1>1, <1>3, <1>4, <1>5, <2>1 DEF GatewayInv, RequestsHaveTabs, TabOf, Handled
<1>11. ForwardsLatest'
  <2>1. \A u \in Tab : forwarding[u] # Idle => forwarding[u].req # r
    <3>1. \A u \in Tab : forwarding[u] # Idle => reqs[forwarding[u].req].tab = u
      BY DEF GatewayInv, ForwardsLatest, TabOf
    <3>2. r \in Nat /\ (forwarding[t] # Idle => r < forwarding[t].req) /\ reqs[r].tab = t
      BY <1>3 DEF t
    <3>3. forwarding[t] # Idle => forwarding[t].req # r
      BY <3>2
    <3>. QED
      BY <3>1, <3>2, <3>3
  <2>. QED
    BY <1>1, <1>4, <1>5, <1>7, <2>1 DEF GatewayInv, ForwardsLatest, TabOf, Handled
<1>12. WaitingInOrder'
  <2> SUFFICES ASSUME NEW i \in 1..Len(toAgent')
               PROVE  LET s == toAgent'[i].req
                      IN  /\ s \in DOMAIN reqs /\ reqs'[s].by = 0
                          /\ toAgent'[i].conn = tabId[reqs'[s].tab]
                          /\ \A q \in DOMAIN reqs :
                                reqs'[q].tab = reqs'[s].tab /\ reqs'[q].by # 0 => q < s
                          /\ \A j \in 1..Len(toAgent') :
                                i < j /\ reqs'[toAgent'[j].req].tab = reqs'[s].tab
                                    => s < toAgent'[j].req
                          /\ forwarding[reqs'[s].tab] # Idle => s < forwarding[reqs'[s].tab].req
    BY <1>1, <1>5 DEF WaitingInOrder, TabOf, Handled
  <2>. DEFINE s == toAgent'[i].req
  <2>1. i + 1 \in 1..Len(toAgent) /\ toAgent'[i] = toAgent[i + 1] /\ s = toAgent[i + 1].req
    BY <1>2
  <2>2. s \in DOMAIN reqs /\ reqs[s].by = 0 /\ toAgent'[i].conn = tabId[reqs[s].tab]
    BY <1>0, <2>1 DEF WaitingInOrder, TabOf, Handled
  <2>3. reqs[s].tab = t => r < s
    BY <1>2, <1>3, <2>1
  <2>4. s # r
    BY <1>0, <1>3, <2>2, <2>3, RequestsTyped DEF t
  <2>5. reqs'[s] = reqs[s]
    BY <1>5, <2>2, <2>4
  <2>6. \A q \in DOMAIN reqs : reqs'[q].tab = reqs[s].tab /\ reqs'[q].by # 0 => q < s
    <3> SUFFICES ASSUME NEW q \in DOMAIN reqs, reqs'[q].tab = reqs[s].tab, reqs'[q].by # 0
                 PROVE  q < s
      OBVIOUS
    <3>1. CASE q = r
      BY <1>5, <2>3, <3>1
    <3>2. CASE q # r
      BY <1>0, <1>5, <2>1, <3>2 DEF WaitingInOrder, TabOf, Handled
    <3>. QED
      BY <3>1, <3>2
  <2>7. \A j \in 1..Len(toAgent') : i < j /\ reqs'[toAgent'[j].req].tab = reqs[s].tab
                                        => s < toAgent'[j].req
    <3> SUFFICES ASSUME NEW j \in 1..Len(toAgent'), i < j,
                        reqs'[toAgent'[j].req].tab = reqs[s].tab
                 PROVE  s < toAgent'[j].req
      OBVIOUS
    <3>1. j + 1 \in 1..Len(toAgent) /\ toAgent'[j] = toAgent[j + 1] /\ i + 1 < j + 1
      BY <1>2
    <3>2. toAgent[j + 1].req \in DOMAIN reqs
      BY <1>0, <3>1 DEF WaitingInOrder
    <3>3. reqs[toAgent[j + 1].req].tab = reqs[s].tab
      BY <1>7, <3>1, <3>2
    <3>. HIDE DEF s
    <3>. QED
      BY <1>0, <2>1, <3>1, <3>3 DEF WaitingInOrder, TabOf
  <2>8. forwarding[reqs[s].tab] # Idle => s < forwarding[reqs[s].tab].req
    BY <1>0, <2>1 DEF WaitingInOrder, TabOf
  <2>. HIDE DEF s
  <2>. QED
    BY <2>2, <2>5, <2>6, <2>7, <2>8 DEF s
<1>13. HandledNow'
  <2>1. agent'.req \in DOMAIN reqs' /\ reqs'[agent'.req].by = agent'.no /\ agent'.no # 0
    BY <1>3, <1>4, <1>5
  <2>2. agent'.conn = tabId'[reqs'[agent'.req].tab]
    BY <1>1, <1>3, <1>4, <1>5
  <2>3. \A q \in DOMAIN reqs' : reqs'[q].tab = t /\ reqs'[q].by # 0 => q <= r
    BY <1>0, <1>3, <1>5, RequestsTyped
  <2>4. /\ \A b \in Agent : \A i \in 1..Len(fromAgent[b]) : fromAgent[b][i].req # r
        /\ \A u \in Tab : \A i \in 1..Len(delivered[u]) : delivered[u][i] # r
    BY <1>3 DEF GatewayInv, AnswersInOrder, DeliveredInOrder, Handled
  <2>. QED
    BY <1>1, <1>4, <1>5, <2>1, <2>2, <2>3, <2>4 DEF HandledNow, Busy, TabOf, Handled
<1>14. AnswersInOrder' /\ DeliveredInOrder'
  BY <1>1, <1>5, <1>7, AnswersFrame DEF GatewayInv
<1>15. OneSession'
  <2>. DEFINE mine == {q \in DOMAIN reqs : reqs[q].by # 0 /\ reqs[q].by = agent.no}
                          \union {toAgent[i].req : i \in 1..Len(toAgent)}
  <2>1. r \in mine
    BY <1>2 DEF r
  <2>2. \A i \in 1..Len(toAgent') : toAgent'[i].req \in mine
    BY <1>2
  <2>3. \A q \in DOMAIN reqs' : reqs'[q].by # 0 /\ reqs'[q].by = agent'.no => q \in mine
    BY <1>4, <1>5, <2>1
  <2>4. \A q, p \in mine : /\ tabEpoch[reqs[q].tab] = tabEpoch[reqs[p].tab]
                           /\ agent.link = "up" => tabEpoch[reqs[q].tab] = epoch
    BY DEF GatewayInv, OneSession, TabOf, Handled
  <2>5. mine \subseteq DOMAIN reqs
    BY <1>0 DEF WaitingInOrder
  <2>. HIDE DEF mine
  <2>6. \A q \in mine : reqs'[q].tab = reqs[q].tab
    BY <1>7, <2>5
  <2>. QED
    BY <1>1, <1>4, <2>2, <2>3, <2>4, <2>6 DEF OneSession, TabOf, Handled
<1>16. ServesWhileUp'
  BY <1>1, <1>4 DEF GatewayInv, ServesWhileUp, NewestAgentServes
<1>17. SelectedByAsker'
  <2>1. \A c \in ConnId : selected[c] # NoPane =>
            \E q \in DOMAIN reqs :
               /\ reqs'[q].by # 0 /\ reqs'[q].by = agent.no /\ reqs'[q].op = "select"
               /\ reqs'[q].pane = selected[c] /\ tabId[reqs'[q].tab] = c
    BY <1>7 DEF GatewayInv, SelectedByAsker, TabOf, Handled
  <2>2. CASE selected' = selected
    BY <1>1, <1>4, <1>5, <2>1, <2>2 DEF SelectedByAsker, TabOf, Handled
  <2>3. CASE /\ reqs[r].op = "select" /\ selected'[msg.conn] = reqs[r].pane
             /\ \A c \in ConnId : c # msg.conn => selected'[c] = selected[c]
    <3>1. /\ reqs'[r].by # 0 /\ reqs'[r].by = agent.no /\ reqs'[r].op = "select"
          /\ reqs'[r].pane = selected'[msg.conn] /\ tabId[reqs'[r].tab] = msg.conn
      BY <1>3, <1>4, <1>5, <2>3
    <3>. QED
      BY <1>1, <1>3, <1>4, <1>5, <2>1, <2>3, <3>1 DEF SelectedByAsker, TabOf, Handled
  <2>. QED
    BY <1>6, <2>2, <2>3
<1>18. ActivePaneIsAskers'
  <2>1. ASSUME reqs'[r].header # NoPane
        PROVE  \E q \in 1..(r - 1) : /\ reqs[q].tab = t /\ reqs[q].by = agent.no
                                     /\ reqs[q].op = "select" /\ reqs[q].pane = reqs'[r].header
                                     /\ reqs[q].by # 0
    <3>1. reqs'[r].header = selected[msg.conn] /\ selected[msg.conn] # NoPane
      BY <1>5, <2>1
    <3>2. PICK q \in DOMAIN reqs :
            /\ reqs[q].by # 0 /\ reqs[q].by = agent.no /\ reqs[q].op = "select"
            /\ reqs[q].pane = selected[msg.conn] /\ tabId[reqs[q].tab] = msg.conn
      BY <1>3, <3>1 DEF GatewayInv, SelectedByAsker, TabOf, Handled
    <3>3. tabEpoch[reqs[q].tab] = tabEpoch[t]
      BY <1>2, <3>2 DEF GatewayInv, OneSession, TabOf, Handled, r, t
    <3>4. reqs[q].tab \in Tab /\ tabs[reqs[q].tab] # "new" /\ q \in Nat /\ 1 <= q
      BY <1>0, <3>2, RequestsTyped DEF GatewayInv, RequestsHaveTabs, TabOf
    <3>5. reqs[q].tab = t
      BY <1>0, <1>3, <3>2, <3>3, <3>4 DEF IdsAreGivenOnce
    <3>6. q < r
      BY <1>3, <3>2, <3>5
    <3>7. q \in 1..(r - 1)
      <4>1. r \in Nat
        BY <1>3
      <4>. QED
        BY <3>4, <3>6, <4>1
    <3>. QED
      BY <3>1, <3>2, <3>5, <3>7
  <2>2. \A s \in DOMAIN reqs : reqs[s].header # NoPane => reqs[s].by # 0 /\ 1..(s - 1) \subseteq DOMAIN reqs
    BY <1>0, RequestsTyped DEF GatewayInv, RequestsHaveTabs, Handled
  <2>3. 1..(r - 1) \subseteq DOMAIN reqs /\ r \notin 1..(r - 1)
    BY <1>0, <1>3, RequestsTyped
  <2>4. ASSUME NEW s \in DOMAIN reqs', reqs'[s].header # NoPane
        PROVE  \E q \in 1..(s - 1) : /\ reqs'[q].tab = reqs'[s].tab /\ reqs'[q].by = reqs'[s].by
                                     /\ reqs'[q].op = "select" /\ reqs'[q].pane = reqs'[s].header
    <3>1. CASE s = r
      BY <1>5, <1>7, <2>1, <2>3, <2>4, <3>1
    <3>2. CASE s # r
      <4>1. s \in DOMAIN reqs /\ reqs'[s] = reqs[s] /\ reqs[s].header # NoPane
        BY <1>5, <2>4, <3>2
      <4>2. PICK q \in 1..(s - 1) : /\ reqs[q].tab = reqs[s].tab /\ reqs[q].by = reqs[s].by
                                    /\ reqs[q].op = "select" /\ reqs[q].pane = reqs[s].header
        BY <4>1 DEF GatewayInv, ActivePaneIsAskers
      <4>3. reqs'[q] = reqs[q]
        BY <1>7, <2>2, <4>1, <4>2
      <4>. QED
        BY <4>1, <4>2, <4>3
    <3>. QED
      BY <3>1, <3>2
  <2>. QED
    BY <2>4 DEF ActivePaneIsAskers
<1>. QED
  BY <1>8, <1>9, <1>10, <1>11, <1>12, <1>13, <1>14, <1>15, <1>16, <1>17, <1>18 DEF GatewayInv

--------------------------------------------------------------------------------
(* The invariant and the properties that follow from it.                        *)

LEMMA InvStep == GatewayInv /\ [Next]_vars => GatewayInv'
<1> SUFFICES ASSUME GatewayInv, [Next]_vars PROVE GatewayInv'
  OBVIOUS
<1>1. ASSUME NEW t \in Tab, AttachClient(t) \/ DetachClient(t) \/ Forward(t)
      PROVE  GatewayInv'
  BY <1>1, InvAttachClient, InvDetachClient, InvForward
<1>2. ASSUME NEW t \in Tab, (\E p \in Pane : Ask(t, "select", p)) \/ Ask(t, "post", NoPane)
      PROVE  GatewayInv'
  <2>1. PICK op \in {"select", "post"}, p \in Pane \union {NoPane} : Ask(t, op, p)
    BY <1>2
  <2>. QED
    BY <2>1, InvAsk
<1>3. ASSUME NEW a \in Agent, RouteReply(a) \/ DetachAgent(a) PROVE GatewayInv'
  BY <1>3, InvRouteReply, InvDetachAgent
<1>4. CASE AgentStep \/ BreakLink
  BY <1>4, InvHandle, InvPosted, InvReply, InvEndRuntime, InvConnect, InvBreakLink DEF AgentStep
<1>5. ASSUME NEW k \in Task, AutoProgress(k) \/ QueueStep(k) PROVE GatewayInv'
  BY <1>5, QueueFrame DEF AutoProgress, QueueStep
<1>6. CASE UNCHANGED vars
  BY <1>6, QueueFrame DEF vars
<1>. QED
  BY <1>1, <1>2, <1>3, <1>4, <1>5, <1>6 DEF Next

\* The invariant of the hub, the connections and the message loop.
THEOREM GatewayInvariant == Spec => []GatewayInv
<1>1. Init => GatewayInv
  BY InvInit
<1>2. GatewayInv /\ [Next]_vars => GatewayInv'
  BY InvStep
<1>. QED
  BY <1>1, <1>2, PTL DEF Spec

\* An answer comes to the tab that asked, once, and the answers of one agent come
\* in the order of the questions.
THEOREM AnswersReachAsker == Spec => []ReplyReachesAsker
<1>1. GatewayInv => ReplyReachesAsker
  <2> SUFFICES ASSUME GatewayInv, NEW t \in Tab, NEW i \in DOMAIN delivered[t],
                      SameSession(delivered[t][i], t)
               PROVE  /\ reqs[delivered[t][i]].tab = t
                      /\ \A j \in DOMAIN delivered[t] : i < j /\ SameSession(delivered[t][j], t) =>
                            /\ delivered[t][i] # delivered[t][j]
                            /\ reqs[delivered[t][i]].by = reqs[delivered[t][j]].by
                                  => delivered[t][i] < delivered[t][j]
    BY DEF ReplyReachesAsker
  <2>1. DOMAIN delivered[t] = 1..Len(delivered[t])
    BY DEF GatewayInv, TypeOK
  <2>2. \A k \in 1..Len(delivered[t]) :
          /\ SameSession(delivered[t][k], t) => reqs[delivered[t][k]].tab = t
          /\ delivered[t][k] \in Nat
    BY RequestsTyped DEF GatewayInv, DeliveredInOrder, TabOf
  <2>3. \A j \in 1..Len(delivered[t]) :
          /\ i < j /\ reqs[delivered[t][i]].tab = reqs[delivered[t][j]].tab
          /\ reqs[delivered[t][i]].by = reqs[delivered[t][j]].by
          => delivered[t][i] < delivered[t][j]
    <3>1. DeliveredInOrder
      BY DEF GatewayInv
    <3>. QED
      BY ONLY <2>1, <3>1, t \in Tab, i \in DOMAIN delivered[t]
         DEF DeliveredInOrder, SameTabAndAgent, TabOf
  <2>. QED
    BY <2>1, <2>2, <2>3
<1>. QED
  BY <1>1, GatewayInvariant, PTL

\* The active pane put into a request's headers is one its own tab selected.
THEOREM ActivePaneOfAsker == Spec => []ActivePaneIsAskers
<1>1. GatewayInv => ActivePaneIsAskers
  BY DEF GatewayInv
<1>. QED
  BY <1>1, GatewayInvariant, PTL

\* While the agent is connected the hub sends it what tabs ask.
THEOREM NewestServes == Spec => []NewestAgentServes
<1>1. GatewayInv => NewestAgentServes
  BY DEF GatewayInv, ServesWhileUp
<1>. QED
  BY <1>1, GatewayInvariant, PTL

================================================================================
