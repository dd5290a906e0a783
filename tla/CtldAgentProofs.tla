--------------------------- MODULE CtldAgentProofs ---------------------------
(***************************************************************************)
(* Proofs about CtldAgent, for any number of nodes, requests, agents and   *)
(* e-mail threads and any of the limits of agent.c.                        *)
(***************************************************************************)
EXTENDS CtldAgent, SubsequencesProofs, TLAPS

-----------------------------------------------------------------------------
(* Agents. *)

AgentType == agent \in [Slot -> {Free} \cup Active]

LEMMA ActiveIs ==
    ASSUME AgentType, NEW a \in Slot, agent[a].phase # "free"
    PROVE  agent[a] \in Active
  BY DEF AgentType, Free

LEMMA FreeIs ==
    ASSUME AgentType, NEW a \in Slot, agent[a].phase = "free"
    PROVE  agent[a] = Free
  BY DEF AgentType, Active

Phases == {"new", "wait", "send", "note", "ping", "end"}

\* An agent goes on to another phase; the others stay where they are.
LEMMA PhaseMoves ==
    ASSUME AgentType, NEW a \in Slot, agent[a].phase # "free", NEW p \in Phases,
           Phase(a, p)
    PROVE  /\ AgentType'
           /\ agent'[a] = [agent[a] EXCEPT !.phase = p]
           /\ agent'[a].phase = p /\ agent'[a].req = agent[a].req
           /\ agent'[a].nodes = agent[a].nodes /\ agent'[a].ok = agent[a].ok
           /\ \A b \in Slot \ {a} : agent'[b] = agent[b]
  <1>1. agent[a] \in Active
    BY ActiveIs
  <1>2. agent'[a] = [agent[a] EXCEPT !.phase = p]
        /\ \A b \in Slot \ {a} : agent'[b] = agent[b]
    BY DEF Phase, AgentType
  <1>3. [agent[a] EXCEPT !.phase = p] \in Active
    BY <1>1 DEF Active, Phases
  <1>4. AgentType'
    BY <1>2, <1>3 DEF Phase, AgentType
  <1>5. agent'[a].phase = p /\ agent'[a].req = agent[a].req
        /\ agent'[a].nodes = agent[a].nodes /\ agent'[a].ok = agent[a].ok
    BY <1>1, <1>2 DEF Active
  <1> QED BY <1>2, <1>4, <1>5

\* The threads of an agent have ended, and the answers of some nodes are known; or
\* they have been noted.
Answers(a, p, o) == agent' = [agent EXCEPT ![a].phase = p, ![a].ok = o]

LEMMA AnswersMove ==
    ASSUME AgentType, NEW a \in Slot, agent[a].phase # "free", NEW p \in Phases,
           NEW o \in SUBSET agent[a].nodes, Answers(a, p, o)
    PROVE  /\ AgentType' /\ o \subseteq Node
           /\ agent'[a].phase = p /\ agent'[a].req = agent[a].req
           /\ agent'[a].nodes = agent[a].nodes /\ agent'[a].ok = o
           /\ \A b \in Slot \ {a} : agent'[b] = agent[b]
  <1>1. agent[a] \in Active
    BY ActiveIs
  <1>2. o \subseteq Node
    BY <1>1 DEF Active, Targets
  <1>3. agent'[a] = [agent[a] EXCEPT !.phase = p, !.ok = o]
        /\ \A b \in Slot \ {a} : agent'[b] = agent[b]
    BY DEF AgentType, Answers
  <1>4. [agent[a] EXCEPT !.phase = p, !.ok = o] \in Active
    BY <1>1, <1>2 DEF Active, Phases
  <1>5. AgentType'
    BY <1>3, <1>4 DEF AgentType, Answers
  <1>6. agent'[a].phase = p /\ agent'[a].req = agent[a].req
        /\ agent'[a].nodes = agent[a].nodes /\ agent'[a].ok = o
    <2> DEFINE y == [agent[a] EXCEPT !.phase = p]
    <2>1. y.phase = p /\ y.req = agent[a].req /\ y.nodes = agent[a].nodes
          /\ DOMAIN y = {"phase", "req", "nodes", "ok"}
      BY <1>1 DEF Active
    <2>2. agent'[a] = [y EXCEPT !.ok = o]
      BY <1>3
    <2> HIDE DEF y
    <2> QED BY <2>1, <2>2
  <1> QED BY <1>2, <1>3, <1>5, <1>6

LEMMA NotesMove ==
    ASSUME AgentType, NEW a \in Slot, WdogNotes(a)
    PROVE  /\ AgentType'
           /\ agent'[a].phase = (IF agent[a].req \in Pings THEN "ping" ELSE "end")
           /\ agent'[a].req = agent[a].req
           /\ agent'[a].nodes = agent[a].nodes /\ agent'[a].ok = {}
           /\ \A b \in Slot \ {a} : agent'[b] = agent[b]
  <1>0. agent[a].phase # "free" /\ {} \in SUBSET agent[a].nodes
    BY DEF WdogNotes
  <1>1. CASE agent[a].req \in Pings
    <2>1. Answers(a, "ping", {})
      BY <1>1 DEF WdogNotes, EndsPing, Answers
    <2>2. "ping" \in Phases
      BY DEF Phases
    <2> QED BY <1>0, <1>1, <2>1, <2>2, AnswersMove
  <1>2. CASE agent[a].req \notin Pings
    <2>1. Answers(a, "end", {})
      BY <1>2 DEF WdogNotes, EndsPing, Answers
    <2>2. "end" \in Phases
      BY DEF Phases
    <2> QED BY <1>0, <1>2, <2>1, <2>2, AnswersMove
  <1> QED BY <1>1, <1>2

\* agent_cnt_cond is broadcast: who waits tries again, the others do not notice.
LEMMA BroadcastMoves ==
    ASSUME AgentType, NEW b \in Slot
    PROVE  /\ Broadcast(b) \in {Free} \cup Active
           /\ agent[b].phase = "wait" =>
                 /\ Broadcast(b).phase = "new" /\ Broadcast(b).req = agent[b].req
                 /\ Broadcast(b).nodes = agent[b].nodes /\ Broadcast(b).ok = agent[b].ok
           /\ agent[b].phase # "wait" => Broadcast(b) = agent[b]
  <1>1. CASE agent[b].phase = "wait"
    <2>1. agent[b] \in Active
      BY <1>1, ActiveIs
    <2> QED BY <1>1, <2>1 DEF Broadcast, Active
  <1>2. CASE agent[b].phase # "wait"
    BY <1>2 DEF Broadcast, AgentType
  <1> QED BY <1>1, <1>2

-----------------------------------------------------------------------------
(* Types.  That agent_cnt and agent_thread_cnt stay in their range follows   *)
(* from their being exact, so that is left for later.                        *)

ListType ==
    /\ retry \in Seq(Entry) /\ defer \in Seq(Deferral)
    /\ prolog \in [Signals -> {"runs", "done"}]

LoopType ==
    /\ loop \in [at : {"wait", "next", "ended"}, mail : BOOLEAN, left : Nat]
    /\ wait \in BOOLEAN /\ mailToo \in BOOLEAN /\ check \in BOOLEAN

CountType ==
    /\ life \in {"up", "stop", "down"}
    /\ agentCnt \in Int /\ threadCnt \in Int /\ mailCnt \in 0..MaxMailThreads
    /\ upd \in {"wait", "hold", "ended"} /\ pingCount \in 0..2 /\ updated \in BOOLEAN

NodeType ==
    /\ updates \subseteq Node /\ silent \in [Node -> 0..Patience]
    /\ down \subseteq Node /\ answered \subseteq Node

BaseType == AgentType /\ ListType /\ LoopType /\ CountType /\ NodeType

LEMMA TriggerType ==
    ASSUME LoopType, NEW m \in BOOLEAN, NEW d \in BOOLEAN, Trigger(m, d), loop' = loop
    PROVE  LoopType'
  BY DEF LoopType, Trigger

\* Two lists, one behind the other.
LEMMA Joined ==
    ASSUME NEW S, NEW x \in Seq(S), NEW y \in Seq(S)
    PROVE  /\ x \o y \in Seq(S) /\ Len(x \o y) = Len(x) + Len(y)
           /\ \A i \in 1..Len(x) : (x \o y)[i] = x[i]
           /\ \A i \in (Len(x) + 1)..(Len(x) + Len(y)) : (x \o y)[i] = y[i - Len(x)]
  OBVIOUS

\* A list without one of its elements.
Without(s, i) == SubSeq(s, 1, i - 1) \o SubSeq(s, i + 1, Len(s))

LEMMA RemovedFrom ==
    ASSUME NEW S, NEW s \in Seq(S), NEW i \in 1..Len(s), NEW t, t = Without(s, i)
    PROVE  /\ t \in Seq(S) /\ Len(t) = Len(s) - 1
           /\ \A j \in 1..(i - 1) : t[j] = s[j]
           /\ \A j \in i..(Len(s) - 1) : t[j] = s[j + 1]
  <1> DEFINE x == SubSeq(s, 1, i - 1)
             y == SubSeq(s, i + 1, Len(s))
  <1>0. Len(s) \in Nat
    OBVIOUS
  <1>1. x \in Seq(S) /\ Len(x) = i - 1 /\ \A j \in 1..(i - 1) : x[j] = s[j]
    OBVIOUS
  <1>2. y \in Seq(S) /\ Len(y) = Len(s) - i /\ \A j \in 1..(Len(s) - i) : y[j] = s[i + j]
    OBVIOUS
  <1> HIDE DEF x, y
  <1>3. /\ x \o y \in Seq(S) /\ Len(x \o y) = Len(x) + Len(y)
        /\ \A j \in 1..Len(x) : (x \o y)[j] = x[j]
        /\ \A j \in (Len(x) + 1)..(Len(x) + Len(y)) : (x \o y)[j] = y[j - Len(x)]
    <2>1. x \in Seq(S) /\ y \in Seq(S)
      BY <1>1, <1>2
    <2> QED BY <2>1, Joined
  <1>4. t = x \o y
    BY DEF x, y, Without
  <1>5. t \in Seq(S) /\ Len(t) = Len(s) - 1
    <2>1. Len(x) + Len(y) = Len(s) - 1
      BY <1>0, <1>1, <1>2
    <2> QED BY <1>3, <1>4, <2>1
  <1>6. \A j \in 1..(i - 1) : t[j] = s[j]
    BY <1>1, <1>3, <1>4
  <1>7. ASSUME NEW j \in i..(Len(s) - 1) PROVE t[j] = s[j + 1]
    <2>1. j - (i - 1) \in 1..(Len(s) - i) /\ j \in (Len(x) + 1)..(Len(x) + Len(y))
          /\ i + (j - (i - 1)) = j + 1
      BY <1>0, <1>1, <1>2
    <2>2. t[j] = y[j - (i - 1)]
      BY <1>1, <1>3, <1>4, <2>1
    <2>3. y[j - (i - 1)] = s[i + (j - (i - 1))]
      BY <1>2, <2>1
    <2> QED BY <2>1, <2>2, <2>3
  <1> QED BY <1>5, <1>6, <1>7

LEMMA BaseInit == Init => BaseType
  <1> SUFFICES ASSUME Init PROVE BaseType
    OBVIOUS
  <1>1. AgentType
    BY DEF Init, AgentType
  <1>2. ListType
    <2>1. <<>> \in Seq(Entry) /\ <<>> \in Seq(Deferral)
      OBVIOUS
    <2> QED BY <2>1 DEF Init, ListType
  <1>3. LoopType
    BY DEF Init, LoopType, Idle
  <1>4. CountType
    <2>1. MaxMailThreads \in Nat
      BY CtldAgentAssumption
    <2>2. mailCnt \in 0..MaxMailThreads /\ pingCount \in 0..2
      BY <2>1 DEF Init
    <2>3. agentCnt \in Int /\ threadCnt \in Int
      BY DEF Init
    <2> QED BY <2>2, <2>3 DEF Init, CountType
  <1>5. NodeType
    BY CtldAgentAssumption DEF Init, NodeType
  <1> QED BY <1>1, <1>2, <1>3, <1>4, <1>5 DEF BaseType

\* Types that a step does not touch.
LEMMA SameAgents == AgentType /\ agent' = agent => AgentType'
  BY DEF AgentType

LEMMA SameLists == ListType /\ UNCHANGED listVars => ListType'
  BY DEF ListType, listVars

LEMMA SameLoop == LoopType /\ UNCHANGED <<loop, trigVars>> => LoopType'
  BY DEF LoopType, trigVars

LEMMA SameCounts ==
    CountType /\ UNCHANGED <<life, cntVars, mailCnt, upd, pingVars>> => CountType'
  BY DEF CountType, cntVars, pingVars

LEMMA SameNodes == NodeType /\ UNCHANGED <<updates, nodeVars, answered>> => NodeType'
  BY DEF NodeType, nodeVars

LEMMA NewType ==
    ASSUME NEW r \in Req, NEW ns \in Targets
    PROVE  New(r, ns) \in Entry /\ (r \in Signals => New(r, ns) \in Deferral)
           /\ New(r, ns).req = r
  BY DEF New, Entry, Deferral

\* _agent_defer: what goes to retry_list is ready, and what stays is not.
LEMMA DeferType ==
    ASSUME ListType, CheckDefer
    PROVE  /\ \E go \in SUBSET (1..Len(defer)) :
                /\ \A i \in go : Ready(defer[i])
                /\ retry' = retry \o Subsequence(defer, go)
                /\ Subsequence(defer, go) \in Seq(Deferral)
           /\ defer' \in Seq(Deferral)
  <1>1. PICK gone \in SUBSET Signals :
           LET left == {i \in DOMAIN defer : defer[i].req \notin gone}
               go == {i \in left : Ready(defer[i])}
           IN  /\ retry' = retry \o Subsequence(defer, go)
               /\ defer' = Subsequence(defer, left \ go)
    BY DEF CheckDefer
  <1> DEFINE left == {i \in DOMAIN defer : defer[i].req \notin gone}
             go == {i \in left : Ready(defer[i])}
             rest == left \ go
  <1>2. defer \in Seq(Deferral) /\ DOMAIN defer = 1..Len(defer)
    BY DEF ListType
  <1>3. /\ retry' = retry \o Subsequence(defer, go)
        /\ defer' = Subsequence(defer, rest)
    BY <1>1
  <1>4. go \in SUBSET (1..Len(defer)) /\ \A i \in go : Ready(defer[i])
    BY <1>2
  <1>5. rest \in SUBSET (1..Len(defer))
    BY <1>2
  <1> HIDE DEF go, rest
  <1>6. Subsequence(defer, go) \in Seq(Deferral) /\ Subsequence(defer, rest) \in Seq(Deferral)
    BY <1>2, <1>4, <1>5, SubsequenceOf
  <1> QED BY <1>3, <1>4, <1>6

LEMMA DeferralIsEntry == Deferral \subseteq Entry /\ Seq(Deferral) \subseteq Seq(Entry)
  <1>1. Signals \subseteq Req
    BY DEF Req, Cmds
  <1>2. Deferral \subseteq Entry
    BY <1>1 DEF Deferral, Entry
  <1> HIDE DEF Deferral, Entry
  <1> QED BY <1>2

\* Requests for pings as ping_nodes makes them.
PingReqs(ping, reg) ==
    (IF ping # {} THEN <<New("ping", ping)>> ELSE <<>>)
      \o (IF reg # {} THEN <<New("reg", reg)>> ELSE <<>>)

LEMMA PingReqsAre ==
    ASSUME NEW ping \in SUBSET Node, NEW reg \in SUBSET Node
    PROVE  /\ PingReqs(ping, reg) \in Seq(Entry)
           /\ Len(PingReqs(ping, reg)) \in 0..2
           /\ \A i \in 1..Len(PingReqs(ping, reg)) : PingReqs(ping, reg)[i].req \in Pings
  <1>1. ASSUME NEW r \in Pings, NEW ns \in SUBSET Node, NEW x,
               x = IF ns # {} THEN <<New(r, ns)>> ELSE <<>>
        PROVE  x \in Seq(Entry) /\ Len(x) \in 0..1 /\ \A i \in 1..Len(x) : x[i].req \in Pings
    <2>1. CASE ns = {}
      BY <1>1, <2>1
    <2>2. CASE ns # {}
      <3>1. r \in Req /\ ns \in Targets
        BY <2>2 DEF Req, Targets
      <3>2. New(r, ns) \in Entry /\ New(r, ns).req \in Pings
        BY <3>1, NewType
      <3>3. x = <<New(r, ns)>>
        BY <1>1, <2>2
      <3> HIDE DEF Entry, New
      <3> QED BY <3>2, <3>3
    <2> QED BY <2>1, <2>2
  <1> DEFINE x == IF ping # {} THEN <<New("ping", ping)>> ELSE <<>>
             y == IF reg # {} THEN <<New("reg", reg)>> ELSE <<>>
  <1>2. "ping" \in Pings /\ "reg" \in Pings
    BY DEF Pings
  <1>3. /\ x \in Seq(Entry) /\ Len(x) \in 0..1 /\ \A i \in 1..Len(x) : x[i].req \in Pings
        /\ y \in Seq(Entry) /\ Len(y) \in 0..1 /\ \A i \in 1..Len(y) : y[i].req \in Pings
    BY <1>1, <1>2
  <1>4. PingReqs(ping, reg) = x \o y
    BY DEF PingReqs
  <1> HIDE DEF x, y
  <1>5. /\ x \o y \in Seq(Entry) /\ Len(x \o y) = Len(x) + Len(y)
        /\ \A i \in 1..Len(x) : (x \o y)[i] = x[i]
        /\ \A i \in (Len(x) + 1)..(Len(x) + Len(y)) : (x \o y)[i] = y[i - Len(x)]
    BY <1>3, Joined
  <1>6. ASSUME NEW i \in 1..(Len(x) + Len(y)) PROVE (x \o y)[i].req \in Pings
    <2>1. CASE i \in 1..Len(x)
      BY <1>3, <1>5, <2>1
    <2>2. CASE i \notin 1..Len(x)
      <3>1. i \in (Len(x) + 1)..(Len(x) + Len(y)) /\ i - Len(x) \in 1..Len(y)
        BY <1>3, <2>2
      <3> QED BY <1>3, <1>5, <3>1
    <2> QED BY <2>1, <2>2
  <1>7. Len(x) + Len(y) \in 0..2
    BY <1>3
  <1> QED BY <1>4, <1>5, <1>6, <1>7

LEMMA RespondedType ==
    ASSUME NodeType, NEW ns \in SUBSET Node, Responded(ns)
    PROVE  silent' \in [Node -> 0..Patience] /\ down' \subseteq Node
  <1>1. Patience \in Nat
    BY CtldAgentAssumption
  <1> QED BY <1>1 DEF NodeType, Responded

\* ping_nodes.
LEMMA PingNodesType ==
    ASSUME BaseType, PingNodes
    PROVE  BaseType'
  <1> DEFINE Bumped(asked) ==
               [n \in Node |-> IF n \in asked /\ silent[n] < Patience
                               THEN silent[n] + 1 ELSE silent[n]]
  <1>1. PICK reg \in SUBSET (Node \ Dead),
             skip \in SUBSET {n \in Node : silent[n] = 0 \/ n \in down} :
           LET ping == Node \ (Dead \cup reg \cup skip)
               asked == ping \cup reg
           IN  /\ pingCount' = pingCount + Len(PingReqs(ping, reg))
               /\ retry' = retry \o PingReqs(ping, reg)
               /\ silent' = Bumped(asked)
               /\ answered' = answered \ asked
               /\ IF asked = {} THEN UNCHANGED trigVars ELSE Trigger(FALSE, FALSE)
    BY DEF PingNodes, PingReqs
  <1> DEFINE ping == Node \ (Dead \cup reg \cup skip)
  <1>2. /\ pingCount' = pingCount + Len(PingReqs(ping, reg))
        /\ retry' = retry \o PingReqs(ping, reg)
        /\ silent' = Bumped(ping \cup reg)
        /\ answered' = answered \ (ping \cup reg)
        /\ \/ UNCHANGED trigVars
           \/ Trigger(FALSE, FALSE)
    BY <1>1
  <1>3. ping \in SUBSET Node /\ reg \in SUBSET Node
    OBVIOUS
  <1> HIDE DEF ping
  <1>4. /\ pingCount = 0 /\ down' = down \cup Dead
        /\ UNCHANGED <<life, defer, prolog, loop, agent, cntVars, mailCnt, upd, updates, updated>>
    BY DEF PingNodes, IsPingDone
  <1>5. PingReqs(ping, reg) \in Seq(Entry) /\ Len(PingReqs(ping, reg)) \in 0..2
    BY <1>3, PingReqsAre
  <1>6. AgentType'
    BY <1>4, SameAgents DEF BaseType
  <1>7. ListType'
    BY <1>2, <1>4, <1>5, Joined DEF BaseType, ListType
  <1>8. LoopType'
    <2>1. CASE UNCHANGED trigVars
      BY <1>4, <2>1, SameLoop DEF BaseType
    <2>2. CASE Trigger(FALSE, FALSE)
      BY <1>4, <2>2, TriggerType DEF BaseType
    <2> QED BY <1>2, <2>1, <2>2
  <1>9. CountType'
    <2>1. pingCount' \in 0..2
      BY <1>2, <1>4, <1>5
    <2> QED BY <1>4, <2>1 DEF BaseType, CountType, cntVars
  <1>10. NodeType'
    <2>1. Patience \in Nat /\ silent \in [Node -> 0..Patience]
      BY CtldAgentAssumption DEF BaseType, NodeType
    <2>2. \A n \in Node : silent[n] \in 0..Patience
      BY <2>1
    <2>3. \A n \in Node : silent[n] < Patience => silent[n] + 1 \in 0..Patience
      BY <2>1, <2>2
    <2>4. silent' \in [Node -> 0..Patience]
      BY <1>2, <2>2, <2>3
    <2>5. down' \subseteq Node
      BY <1>4 DEF Dead, BaseType, NodeType
    <2> QED BY <1>2, <1>4, <2>4, <2>5 DEF BaseType, NodeType
  <1> QED BY <1>6, <1>7, <1>8, <1>9, <1>10 DEF BaseType

\* A new agent takes a request off the list.
LEMMA SpawnMoves ==
    ASSUME BaseType, RetrySpawn
    PROVE  \E i \in 1..Len(retry), a \in Slot :
             /\ agent[a].phase = "free"
             /\ agent'[a].phase = "new" /\ agent'[a].req = retry[i].req
             /\ agent'[a].nodes = retry[i].nodes /\ agent'[a].ok = {}
             /\ agent'[a] \in Active
             /\ \A b \in Slot \ {a} : agent'[b] = agent[b]
             /\ retry' = Without(retry, i)
             /\ AgentType'
  <1>1. PICK i \in Chosen, a \in Slot :
          /\ agent[a].phase = "free"
          /\ agent' = [agent EXCEPT ![a] =
                          [phase |-> "new", req |-> retry[i].req, nodes |-> retry[i].nodes,
                           ok |-> {}]]
          /\ retry' = Without(retry, i)
    BY DEF RetrySpawn, Without, Spawn
  <1>2. retry \in Seq(Entry)
    BY DEF BaseType, ListType
  <1>3. i \in 1..Len(retry)
    BY <1>2 DEF Chosen, Found
  <1>4. retry[i] \in Entry
    BY <1>2, <1>3
  <1> DEFINE r == [phase |-> "new", req |-> retry[i].req, nodes |-> retry[i].nodes, ok |-> {}]
  <1>5. r \in Active /\ r.phase = "new" /\ r.req = retry[i].req /\ r.nodes = retry[i].nodes
        /\ r.ok = {}
    BY <1>4 DEF Entry, Active
  <1>6. agent' = [agent EXCEPT ![a] = r]
    BY <1>1
  <1> HIDE DEF r
  <1>7. agent'[a] = r /\ \A b \in Slot \ {a} : agent'[b] = agent[b]
    BY <1>6 DEF BaseType, AgentType
  <1>8. AgentType'
    BY <1>5, <1>6 DEF BaseType, AgentType
  <1> QED BY <1>1, <1>3, <1>5, <1>7, <1>8

\* An agent for REQUEST_SHUTDOWN has not been in the list.
LEMMA ShutdownMoves ==
    ASSUME BaseType, QueueShutdown
    PROVE  /\ \E a \in Slot :
                /\ agent[a].phase = "free" /\ agent'[a].phase = "new"
                /\ agent'[a].req = "shutdown" /\ agent'[a] \in Active
                /\ \A b \in Slot \ {a} : agent'[b] = agent[b]
           /\ AgentType' /\ "shutdown" \notin Pings \cup Cmds
           /\ UNCHANGED <<life, listVars, loop, trigVars, cntVars, mailCnt, upd, updates,
                          pingVars, nodeVars, answered>>
  <1>1. PICK a \in Slot : Spawn(a, "shutdown", Node)
    BY DEF QueueShutdown
  <1> DEFINE r == [phase |-> "new", req |-> "shutdown", nodes |-> Node, ok |-> {}]
  <1>2. Node \in Targets /\ "shutdown" \in Req
    BY DEF QueueShutdown, Targets, Req
  <1>3. r \in Active /\ r.phase = "new" /\ r.req = "shutdown"
    BY <1>2 DEF Active
  <1>4. agent' = [agent EXCEPT ![a] = r] /\ agent[a].phase = "free"
    BY <1>1 DEF Spawn
  <1> HIDE DEF r
  <1>5. agent'[a] = r /\ \A b \in Slot \ {a} : agent'[b] = agent[b]
    BY <1>4 DEF BaseType, AgentType
  <1>6. AgentType'
    BY <1>3, <1>4 DEF BaseType, AgentType
  <1>7. "shutdown" \notin Pings \cup Cmds
    BY CtldAgentAssumption DEF Pings, Cmds
  <1> QED BY <1>3, <1>4, <1>5, <1>6, <1>7 DEF QueueShutdown

LEMMA BaseStep ==
    ASSUME BaseType, [Next]_vars
    PROVE  BaseType'
  <1>0. AgentType /\ ListType /\ LoopType /\ CountType /\ NodeType
    BY DEF BaseType
  <1> USE DEF BaseType
  <1>1. ASSUME NEW r \in Cmds, NEW n \in Node, QueueRequest(r, {n}) PROVE BaseType'
    <2>1. UNCHANGED <<life, prolog, loop, agent, cntVars, mailCnt, upd, updates, pingVars,
                      nodeVars, answered>>
          /\ Trigger(FALSE, FALSE)
      BY <1>1 DEF QueueRequest
    <2>2. r \in Req /\ {n} \in Targets
      BY DEF Req, Targets
    <2>3. New(r, {n}) \in Entry /\ (r \in Signals => New(r, {n}) \in Deferral)
      BY <2>2, NewType
    <2>4. ListType'
      <3>1. \/ r \in Signals /\ defer' = Append(defer, New(r, {n})) /\ retry' = retry
            \/ retry' = Append(retry, New(r, {n})) /\ defer' = defer
        BY <1>1 DEF QueueRequest
      <3> DEFINE e == New(r, {n})
      <3>2. e \in Entry /\ (r \in Signals => e \in Deferral)
        BY <2>3
      <3> HIDE DEF e
      <3>3. Append(retry, e) \in Seq(Entry)
        BY <1>0, <3>2 DEF ListType
      <3>4. r \in Signals => Append(defer, e) \in Seq(Deferral)
        BY <1>0, <3>2 DEF ListType
      <3>5. \/ r \in Signals /\ defer' = Append(defer, e) /\ retry' = retry
            \/ retry' = Append(retry, e) /\ defer' = defer
        BY <3>1 DEF e
      <3> QED BY <1>0, <2>1, <3>3, <3>4, <3>5 DEF ListType
    <2> QED BY <1>0, <2>1, <2>4, SameAgents, SameCounts, SameNodes, TriggerType
  <1>2. ASSUME NEW r \in Signals, PrologComplete(r) PROVE BaseType'
    <2>1. UNCHANGED <<life, retry, defer, loop, agent, cntVars, mailCnt, upd, updates,
                      pingVars, nodeVars, answered>>
          /\ Trigger(FALSE, TRUE) /\ prolog' = [prolog EXCEPT ![r] = "done"]
      BY <1>2 DEF PrologComplete
    <2>2. ListType'
      BY <1>0, <2>1 DEF ListType
    <2> QED BY <1>0, <2>1, <2>2, SameAgents, SameCounts, SameNodes, TriggerType
  <1>3. CASE PingNodes
    BY <1>3, PingNodesType
  <1>4. CASE LoopEnds
    <2>1. LoopType'
      BY <1>0, <1>4 DEF LoopEnds, LoopType, trigVars
    <2> QED BY <1>0, <1>4, <2>1, SameAgents, SameLists, SameCounts, SameNodes DEF LoopEnds
  <1>5. ASSUME NEW tick \in BOOLEAN, LoopWakes(tick) PROVE BaseType'
    <2>1. UNCHANGED <<life, prolog, agent, cntVars, mailCnt, upd, updates, pingVars, nodeVars,
                      answered>>
          /\ loop' = [at |-> "next", mail |-> tick \/ mailToo, left |-> 0]
          /\ wait' = FALSE /\ mailToo' = FALSE /\ check' = FALSE
          /\ (CheckDefer \/ UNCHANGED <<defer, retry>>)
      BY <1>5 DEF LoopWakes
    <2>2. LoopType'
      <3>1. (tick \/ mailToo) \in BOOLEAN
        OBVIOUS
      <3>2. 0 \in Nat
        OBVIOUS
      <3> QED BY <1>0, <2>1, <3>1, <3>2 DEF LoopType
    <2>3. ListType'
      <3>1. CASE CheckDefer
        <4>1. PICK go \in SUBSET (1..Len(defer)) :
                 /\ retry' = retry \o Subsequence(defer, go)
                 /\ Subsequence(defer, go) \in Seq(Deferral)
          BY <1>0, <3>1, DeferType
        <4>2. defer' \in Seq(Deferral)
          BY <1>0, <3>1, DeferType
        <4>3. retry' \in Seq(Entry)
          BY <1>0, <4>1, DeferralIsEntry, Joined DEF ListType
        <4> QED BY <1>0, <2>1, <4>2, <4>3 DEF ListType
      <3>2. CASE UNCHANGED <<defer, retry>>
        BY <1>0, <2>1, <3>2 DEF ListType
      <3> QED BY <2>1, <3>1, <3>2
    <2> QED BY <1>0, <2>1, <2>2, <2>3, SameAgents, SameCounts, SameNodes
  <1>6. CASE RetryNoRoom
    <2>1. LoopType'
      BY <1>0, <1>6 DEF RetryNoRoom, LoopType, trigVars, Idle
    <2> QED BY <1>0, <1>6, <2>1, SameAgents, SameLists, SameCounts, SameNodes DEF RetryNoRoom
  <1>7. CASE RetrySpawn
    <2>1. PICK i \in 1..Len(retry) :
             retry' = Without(retry, i)
      BY <1>7, SpawnMoves
    <2>2. AgentType'
      BY <1>7, SpawnMoves
    <2>3. UNCHANGED <<life, defer, prolog, trigVars, cntVars, mailCnt, upd, updates, pingVars,
                      nodeVars, answered>>
      BY <1>7 DEF RetrySpawn
    <2>4. ListType'
      <3>1. retry \in Seq(Entry)
        BY <1>0 DEF ListType
      <3>2. retry' \in Seq(Entry)
        BY <2>1, <3>1, RemovedFrom
      <3> QED BY <1>0, <2>3, <3>2 DEF ListType
    <2>5. LoopType'
      <3>1. Left \in Nat
        BY <1>0 DEF Left, LoopType, ListType
      <3>2. Left > 1 => Left - 1 \in Nat
        BY <3>1
      <3>3. Idle \in [at : {"wait", "next", "ended"}, mail : BOOLEAN, left : Nat]
        BY DEF Idle
      <3>4. Left > 1 => [loop EXCEPT !.left = Left - 1]
                \in [at : {"wait", "next", "ended"}, mail : BOOLEAN, left : Nat]
        BY <1>0, <3>2 DEF LoopType
      <3>5. loop' \in {Idle} \cup (IF Left > 1 THEN {[loop EXCEPT !.left = Left - 1]} ELSE {})
        BY <1>7 DEF RetrySpawn
      <3> QED BY <1>0, <2>3, <3>3, <3>4, <3>5 DEF LoopType, trigVars
    <2> QED BY <1>0, <2>2, <2>3, <2>4, <2>5, SameCounts, SameNodes
  <1>8. CASE RetryMail
    <2>1. PICK k \in 0..MaxMailThreads :
             /\ k > 0 => MailFits(k)
             /\ mailCnt' = mailCnt + k /\ threadCnt' = threadCnt + k
      BY <1>8 DEF RetryMail
    <2>2. LoopType'
      BY <1>0, <1>8 DEF RetryMail, LoopType, trigVars, Idle
    <2>3. CountType'
      <3>1. MaxMailThreads \in Nat
        BY CtldAgentAssumption
      <3>2. mailCnt' \in 0..MaxMailThreads /\ threadCnt' \in Int
        BY <1>0, <2>1, <3>1 DEF CountType, MailFits
      <3> QED BY <1>0, <1>8, <3>2 DEF RetryMail, CountType, pingVars
    <2> QED BY <1>0, <1>8, <2>2, <2>3, SameAgents, SameLists, SameNodes DEF RetryMail
  <1>9. CASE MailEnds
    <2>1. CountType'
      <3>1. MaxMailThreads \in Nat
        BY CtldAgentAssumption
      <3>2. mailCnt' \in 0..MaxMailThreads /\ threadCnt' \in Int
        BY <1>0, <1>9, <3>1 DEF CountType, MailEnds
      <3> QED BY <1>0, <1>9, <3>2 DEF MailEnds, CountType, pingVars
    <2> QED BY <1>0, <1>9, <2>1, SameAgents, SameLists, SameLoop, SameNodes DEF MailEnds
  <1>10. ASSUME NEW a \in Slot, AgentStarts(a) PROVE BaseType'
    <2>1. AgentType' /\ agent[a] \in Active
      <3>1. PICK p \in {"end", "send"} : Phase(a, p) /\ agent[a].phase = "new"
        BY <1>10 DEF AgentStarts
      <3>2. p \in Phases
        BY DEF Phases
      <3> QED BY <1>0, <3>1, <3>2, PhaseMoves, ActiveIs
    <2>2. RpcThreadCnt(agent[a].nodes) \in Int
      <3>1. agent[a].nodes \in SUBSET Node
        BY <2>1 DEF Active, Targets
      <3>2. Cardinality(agent[a].nodes) \in Nat
        BY <3>1, CtldAgentAssumption, FS_Subset, FS_CardinalityType
      <3> QED BY <3>2, CtldAgentAssumption DEF RpcThreadCnt
    <2>3. CountType'
      <3>1. agentCnt' \in Int /\ threadCnt' \in Int
        BY <1>0, <1>10, <2>2 DEF AgentStarts, CountType
      <3> QED BY <1>0, <1>10, <3>1 DEF AgentStarts, CountType, pingVars
    <2> QED BY <1>0, <1>10, <2>1, <2>3, SameLists, SameLoop, SameNodes DEF AgentStarts
  <1>11. ASSUME NEW a \in Slot, AgentWaits(a) PROVE BaseType'
    <2>1. AgentType'
      BY <1>0, <1>11, PhaseMoves DEF AgentWaits, Phases
    <2> QED BY <1>0, <1>11, <2>1, SameLists, SameLoop, SameCounts, SameNodes DEF AgentWaits
  <1>12. ASSUME NEW a \in Slot, WdogRetry(a) PROVE BaseType'
    <2>1. PICK ok \in SUBSET agent[a].nodes :
          /\ Answers(a, "note", ok)
          /\ answered' = IF agent[a].req \in Pings THEN answered \cup ok ELSE answered
          /\ retry' = IF agent[a].req \in Cmds /\ Resend(a, ok) # {}
                      THEN Append(retry, [req |-> agent[a].req, nodes |-> Resend(a, ok), tried |-> TRUE])
                      ELSE retry
      BY <1>12 DEF WdogRetry, Answers
    <2>2. agent[a] \in Active
      BY <1>0, <1>12, ActiveIs DEF WdogRetry
    <2>3. AgentType' /\ ok \subseteq Node
      BY <1>0, <1>12, <2>1, AnswersMove DEF WdogRetry, Phases
    <2>4. Resend(a, ok) # {} =>
             [req |-> agent[a].req, nodes |-> Resend(a, ok), tried |-> TRUE] \in Entry
      BY <2>2 DEF Active, Entry, Resend, Targets
    <2>5. ListType'
      BY <1>0, <1>12, <2>1, <2>4 DEF WdogRetry, ListType
    <2>6. NodeType'
      BY <1>0, <1>12, <2>1, <2>3 DEF WdogRetry, NodeType, nodeVars
    <2> QED BY <1>0, <1>12, <2>3, <2>5, <2>6, SameLoop, SameCounts DEF WdogRetry
  <1>13. ASSUME NEW a \in Slot, WdogNotes(a) PROVE BaseType'
    <2>1. agent[a] \in Active
      BY <1>0, <1>13, ActiveIs DEF WdogNotes
    <2>2. AgentType'
      BY <1>0, <1>13, NotesMove
    <2>3. PICK now \in SUBSET agent[a].ok :
              Responded(now) /\ updates' = updates \cup (agent[a].ok \ now)
      BY <1>13 DEF WdogNotes
    <2>4. now \in SUBSET Node /\ agent[a].ok \subseteq Node
      BY <2>1 DEF Active
    <2>5. NodeType'
      BY <1>0, <1>13, <2>3, <2>4, RespondedType DEF WdogNotes, NodeType
    <2> QED BY <1>0, <1>13, <2>2, <2>5, SameLists, SameLoop, SameCounts DEF WdogNotes
  <1>14. ASSUME NEW a \in Slot, PingEnd(a) PROVE BaseType'
    <2>1. AgentType'
      BY <1>0, <1>14, PhaseMoves DEF PingEnd, Phases
    <2>2. CountType'
      <3>1. pingCount' \in 0..2
        BY <1>0, <1>14 DEF PingEnd, CountType
      <3> QED BY <1>0, <1>14, <3>1 DEF PingEnd, CountType, cntVars
    <2> QED BY <1>0, <1>14, <2>1, <2>2, SameLists, SameLoop, SameNodes DEF PingEnd
  <1>15. ASSUME NEW a \in Slot, AgentEnds(a) PROVE BaseType'
    <2>1. agent' = [b \in Slot |-> IF b = a THEN Free ELSE Broadcast(b)]
      BY <1>15 DEF AgentEnds
    <2>2. AgentType'
      BY <1>0, <2>1, BroadcastMoves DEF AgentType
    <2>3. agent[a] \in Active
      BY <1>0, <1>15, ActiveIs DEF AgentEnds
    <2>4. RpcThreadCnt(agent[a].nodes) \in Int
      <3>1. agent[a].nodes \in SUBSET Node
        BY <2>3 DEF Active, Targets
      <3>2. Cardinality(agent[a].nodes) \in Nat
        BY <3>1, CtldAgentAssumption, FS_Subset, FS_CardinalityType
      <3> QED BY <3>2, CtldAgentAssumption DEF RpcThreadCnt
    <2>5. CountType'
      <3>1. agentCnt' \in Int /\ threadCnt' \in Int
        BY <1>0, <1>15, <2>4 DEF AgentEnds, CountType
      <3> QED BY <1>0, <1>15, <3>1 DEF AgentEnds, CountType, pingVars
    <2>6. LoopType'
      <3>1. loop' = loop /\ (Trigger(TRUE, FALSE) \/ UNCHANGED trigVars)
        BY <1>15 DEF AgentEnds
      <3> QED BY <1>0, <3>1, TriggerType, SameLoop
    <2> QED BY <1>0, <1>15, <2>2, <2>5, <2>6, SameLists, SameNodes DEF AgentEnds
  <1>16. CASE UpdateNodes
    <2>1. NodeType'
      BY <1>0, <1>16, RespondedType DEF UpdateNodes, NodeType
    <2>2. CountType'
      BY <1>0, <1>16 DEF UpdateNodes, CountType, cntVars, pingVars
    <2> QED BY <1>0, <1>16, <2>1, <2>2, SameAgents, SameLists, SameLoop DEF UpdateNodes
  <1>17. CASE PingNodesUpdate
    <2>1. CountType'
      BY <1>0, <1>17 DEF PingNodesUpdate, CountType, cntVars
    <2> QED BY <1>0, <1>17, <2>1, SameAgents, SameLists, SameLoop, SameNodes DEF PingNodesUpdate
  <1>18. CASE UpdateEnds
    <2>1. CountType'
      BY <1>0, <1>18 DEF UpdateEnds, CountType, cntVars, pingVars
    <2> QED BY <1>0, <1>18, <2>1, SameAgents, SameLists, SameLoop, SameNodes DEF UpdateEnds
  <1>19. CASE Shutdown
    <2>1. CountType'
      BY <1>0, <1>19 DEF Shutdown, CountType, cntVars, pingVars
    <2> QED BY <1>0, <1>19, <2>1, SameAgents, SameLists, TriggerType, SameNodes DEF Shutdown
  <1>20. CASE AgentFini
    <2>1. CountType'
      BY <1>0, <1>20 DEF AgentFini, CountType, cntVars, pingVars
    <2>2. AgentType'
      BY <1>0, <1>20, BroadcastMoves DEF AgentFini, AgentType
    <2> QED BY <1>0, <1>20, <2>1, <2>2, SameLists, SameLoop, SameNodes DEF AgentFini
  <1>21. CASE Terminated \/ UNCHANGED vars
    BY <1>0, <1>21, SameAgents, SameLists, SameLoop, SameCounts, SameNodes DEF Terminated, vars
  <1>22. CASE QueueShutdown
    BY <1>0, <1>22, ShutdownMoves, SameLists, SameLoop, SameCounts, SameNodes
  <1> QED
    BY <1>1, <1>2, <1>3, <1>4, <1>5, <1>6, <1>7, <1>8, <1>9, <1>10, <1>11, <1>12, <1>13,
       <1>14, <1>15, <1>16, <1>17, <1>18, <1>19, <1>20, <1>21, <1>22
       DEF Next, AgentInitThread, AgentThread, UpdateThread
-----------------------------------------------------------------------------
(* The budget of threads. *)

Busy == {"send", "note", "ping", "end"}

\* The threads of one agent.
Own(a) == {a} \X (1..RpcThreadCnt(agent[a].nodes))

LEMMA RpcThreadCntIs ==
    ASSUME AgentType, NEW a \in Slot, agent[a].phase # "free"
    PROVE  RpcThreadCnt(agent[a].nodes) \in 2..(AgentThreadCount + 2)
  <1>1. agent[a] \in Active
    BY ActiveIs
  <1>2. agent[a].nodes \in SUBSET Node
    BY <1>1 DEF Active, Targets
  <1>3. Cardinality(agent[a].nodes) \in Nat
    BY <1>2, CtldAgentAssumption, FS_Subset, FS_CardinalityType
  <1> QED BY <1>3, CtldAgentAssumption DEF RpcThreadCnt

LEMMA OwnSize ==
    ASSUME AgentType, NEW a \in Slot, agent[a].phase # "free"
    PROVE  IsFiniteSet(Own(a)) /\ Cardinality(Own(a)) = RpcThreadCnt(agent[a].nodes)
  <1> DEFINE k == RpcThreadCnt(agent[a].nodes)
  <1>1. k \in Nat \ {0}
    BY RpcThreadCntIs, CtldAgentAssumption
  <1> HIDE DEF k
  <1>2. IsFiniteSet(1..k) /\ Cardinality(1..k) = k
    BY <1>1, FS_Interval
  <1>3. IsFiniteSet({a}) /\ Cardinality({a}) = 1
    BY FS_Singleton
  <1>4. IsFiniteSet({a} \X (1..k)) /\ Cardinality({a} \X (1..k)) = 1 * k
    BY <1>2, <1>3, FS_Product
  <1>5. Own(a) = {a} \X (1..k)
    BY DEF Own, k
  <1> QED BY <1>1, <1>4, <1>5 DEF k

LEMMA FiniteThreads ==
    IsFiniteSet(Counted) /\ IsFiniteSet(Threads)
  <1>1. Counted \in SUBSET Slot
    BY DEF Counted
  <1>2. IsFiniteSet(Counted)
    BY <1>1, FS_Subset, CtldAgentAssumption
  <1>3. IsFiniteSet(1..(AgentThreadCount + 2))
    BY FS_Interval, CtldAgentAssumption
  <1>4. IsFiniteSet(Counted \X (1..(AgentThreadCount + 2)))
    BY <1>2, <1>3, FS_Product
  <1>5. Threads \in SUBSET (Counted \X (1..(AgentThreadCount + 2)))
    BY DEF Threads
  <1> QED BY <1>2, <1>4, <1>5, FS_Subset

ThreadsAreOwn ==
    /\ Threads = UNION {Own(a) : a \in Counted}
    /\ \A a \in Slot, b \in Slot : a # b => Own(a) \cap Own(b) = {}

LEMMA InThreads == AgentType => ThreadsAreOwn
  <1> SUFFICES ASSUME AgentType PROVE ThreadsAreOwn
    OBVIOUS
  <1>1. ASSUME NEW a \in Counted, NEW i \in Int
        PROVE  <<a, i>> \in Threads <=> i \in 1..RpcThreadCnt(agent[a].nodes)
    <2>1. a \in Slot /\ agent[a].phase # "free"
      BY DEF Counted
    <2>2. RpcThreadCnt(agent[a].nodes) \in 2..(AgentThreadCount + 2)
      BY <2>1, RpcThreadCntIs
    <2> QED BY <2>2, CtldAgentAssumption DEF Threads
  <1>2. \A t \in Threads : \E a \in Counted, i \in Int : t = <<a, i>>
    BY CtldAgentAssumption DEF Threads
  <1>3. \A a \in Counted : Own(a) \subseteq Threads
    <2> TAKE a \in Counted
    <2>1. \A t \in Own(a) : \E i \in 1..RpcThreadCnt(agent[a].nodes) : t = <<a, i>>
      BY DEF Own
    <2>2. RpcThreadCnt(agent[a].nodes) \in Int
      BY RpcThreadCntIs, CtldAgentAssumption DEF Counted
    <2> QED BY <1>1, <2>1, <2>2
  <1>4. ASSUME NEW t \in Threads PROVE \E a \in Counted : t \in Own(a)
    <2>1. PICK a \in Counted, i \in Int : t = <<a, i>>
      BY <1>2
    <2>2. i \in 1..RpcThreadCnt(agent[a].nodes)
      BY <1>1, <2>1
    <2> QED BY <2>1, <2>2 DEF Own
  <1>5. \A a \in Slot, b \in Slot : a # b => Own(a) \cap Own(b) = {}
    BY DEF Own
  <1> QED BY <1>3, <1>4, <1>5 DEF ThreadsAreOwn

\* One more agent is counted, or one less.
LEMMA OneMore ==
    ASSUME AgentType, AgentType', NEW a \in Slot, a \notin Counted,
           Counted' = Counted \cup {a},
           \A b \in Counted' : agent'[b].nodes = agent[b].nodes,
           agent[a].phase # "free"
    PROVE  /\ Cardinality(Counted') = Cardinality(Counted) + 1
           /\ Cardinality(Threads') = Cardinality(Threads) + RpcThreadCnt(agent[a].nodes)
  <1>1. Cardinality(Counted') = Cardinality(Counted) + 1
    BY FiniteThreads, FS_AddElement
  <1>2. Threads = UNION {Own(b) : b \in Counted}
    BY InThreads DEF ThreadsAreOwn
  <1>3. Threads' = UNION {Own(b)' : b \in Counted'}
    <2>1. AgentType' => ThreadsAreOwn'
      BY InThreads, PTL
    <2> QED BY <2>1 DEF ThreadsAreOwn
  <1>4. \A b \in Counted' : Own(b)' = Own(b)
    BY DEF Own, RpcThreadCnt
  <1>5. Threads' = Threads \cup Own(a)
    BY <1>2, <1>3, <1>4
  <1>6. Threads \cap Own(a) = {}
    <2>1. Counted \subseteq Slot
      BY DEF Counted
    <2>2. \A b \in Counted : Own(b) \cap Own(a) = {}
      BY <2>1, InThreads DEF ThreadsAreOwn
    <2> QED BY <1>2, <2>2
  <1>7. IsFiniteSet(Threads) /\ IsFiniteSet(Own(a))
        /\ Cardinality(Own(a)) = RpcThreadCnt(agent[a].nodes)
    BY FiniteThreads, OwnSize
  <1>8. Cardinality(Threads \cup Own(a)) = Cardinality(Threads) + Cardinality(Own(a)) - 0
    BY <1>6, <1>7, FS_Union, FS_EmptySet
  <1>9. Cardinality(Threads) \in Nat /\ Cardinality(Own(a)) \in Nat
    BY <1>7, FS_CardinalityType
  <1> QED BY <1>1, <1>5, <1>7, <1>8, <1>9
LEMMA OneLess ==
    ASSUME AgentType, AgentType', NEW a \in Counted,
           Counted' = Counted \ {a},
           \A b \in Counted' : agent'[b].nodes = agent[b].nodes
    PROVE  /\ Cardinality(Counted') = Cardinality(Counted) - 1
           /\ Cardinality(Threads') = Cardinality(Threads) - RpcThreadCnt(agent[a].nodes)
  <1>0. a \in Slot /\ agent[a].phase # "free" /\ Counted \subseteq Slot
    BY DEF Counted
  <1>1. Cardinality(Counted') = Cardinality(Counted) - 1
    BY FiniteThreads, FS_RemoveElement
  <1>2. Threads = UNION {Own(b) : b \in Counted}
    BY InThreads DEF ThreadsAreOwn
  <1>3. Threads' = UNION {Own(b)' : b \in Counted'}
    <2>1. AgentType' => ThreadsAreOwn'
      BY InThreads, PTL
    <2> QED BY <2>1 DEF ThreadsAreOwn
  <1>4. \A b \in Counted' : Own(b)' = Own(b)
    BY DEF Own, RpcThreadCnt
  <1>5. Threads = Threads' \cup Own(a)
    BY <1>2, <1>3, <1>4
  <1>6. Threads' \cap Own(a) = {}
    <2>1. \A b \in Counted' : Own(b) \cap Own(a) = {}
      BY <1>0, InThreads DEF ThreadsAreOwn
    <2> QED BY <1>3, <1>4, <2>1
  <1>7. IsFiniteSet(Threads') /\ IsFiniteSet(Own(a))
        /\ Cardinality(Own(a)) = RpcThreadCnt(agent[a].nodes)
    <2>1. Threads' \in SUBSET Threads
      BY <1>5
    <2> QED BY <1>0, <2>1, FiniteThreads, OwnSize, FS_Subset
  <1>8. Cardinality(Threads' \cup Own(a)) = Cardinality(Threads') + Cardinality(Own(a)) - 0
    BY <1>6, <1>7, FS_Union, FS_EmptySet
  <1>9. Cardinality(Threads') \in Nat /\ Cardinality(Own(a)) \in Nat
    BY <1>7, FS_CardinalityType
  <1> QED BY <1>1, <1>5, <1>7, <1>8, <1>9

LEMMA NoneMore ==
    ASSUME Counted' = Counted,
           \A b \in Counted : agent'[b].nodes = agent[b].nodes
    PROVE  Threads' = Threads
  <1>1. \A b \in Counted : RpcThreadCnt(agent'[b].nodes) = RpcThreadCnt(agent[b].nodes)
    OBVIOUS
  <1> HIDE DEF RpcThreadCnt
  <1>2. \A t \in Counted \X (1..(AgentThreadCount + 2)) :
           t[2] <= RpcThreadCnt(agent'[t[1]].nodes) <=> t[2] <= RpcThreadCnt(agent[t[1]].nodes)
    BY <1>1
  <1> QED BY <1>2 DEF Threads

\* What the steps do to the agents that are counted.
LEMMA CountedMoves ==
    ASSUME BaseType, [Next]_vars
    PROVE  \/ \E a \in Slot : AgentStarts(a) \/ AgentEnds(a)
           \/ /\ Counted' = Counted
              /\ \A b \in Counted : agent'[b].nodes = agent[b].nodes
              /\ agentCnt' = agentCnt
  <1> DEFINE Keeps == /\ Counted' = Counted
                      /\ \A b \in Counted : agent'[b].nodes = agent[b].nodes
  <1>0. AgentType
    BY DEF BaseType
  <1>1. ASSUME agent' = agent PROVE Keeps
    BY <1>1 DEF Counted
  <1>2. ASSUME RetrySpawn PROVE Keeps
    <2>1. PICK a \in Slot : /\ agent[a].phase = "free" /\ agent'[a].phase = "new"
                            /\ \A b \in Slot \ {a} : agent'[b] = agent[b]
      BY <1>2, SpawnMoves
    <2> QED BY <2>1 DEF Counted
  <1>3. ASSUME NEW a \in Slot, AgentWaits(a) PROVE Keeps
    BY <1>0, <1>3, PhaseMoves DEF AgentWaits, Counted, Phases
  <1>4. ASSUME NEW a \in Slot, WdogRetry(a) PROVE Keeps
    <2>1. PICK ok \in SUBSET agent[a].nodes : Answers(a, "note", ok)
      BY <1>4 DEF WdogRetry, Answers
    <2> QED BY <1>0, <1>4, <2>1, AnswersMove DEF WdogRetry, Counted, Phases
  <1>5. ASSUME NEW a \in Slot, WdogNotes(a) PROVE Keeps
    BY <1>0, <1>5, NotesMove DEF WdogNotes, Counted
  <1>6. ASSUME NEW a \in Slot, PingEnd(a) PROVE Keeps
    BY <1>0, <1>6, PhaseMoves DEF PingEnd, Counted, Phases
  <1>7. ASSUME AgentFini PROVE Keeps
    <2>1. \A b \in Slot : agent'[b] = Broadcast(b)
      BY <1>7 DEF AgentFini
    <2> QED BY <1>0, <2>1, BroadcastMoves DEF Counted
  <1>10. ASSUME QueueShutdown PROVE Keeps
    <2>1. PICK a \in Slot : /\ agent[a].phase = "free" /\ agent'[a].phase = "new"
                            /\ \A b \in Slot \ {a} : agent'[b] = agent[b]
      BY <1>10, ShutdownMoves
    <2> QED BY <2>1 DEF Counted
  <1> HIDE DEF Keeps
  <1>8. \/ \E a \in Slot : AgentStarts(a) \/ AgentEnds(a)
        \/ Keeps
    BY <1>1, <1>2, <1>3, <1>4, <1>5, <1>6, <1>7, <1>10
       DEF Next, AgentInitThread, AgentThread, UpdateThread, QueueRequest, PrologComplete,
           PingNodes, LoopEnds, LoopWakes, RetryNoRoom, RetryMail, MailEnds, UpdateNodes,
           PingNodesUpdate, UpdateEnds, Shutdown, Terminated, vars, Keeps
  <1>9. \/ \E a \in Slot : AgentStarts(a) \/ AgentEnds(a)
        \/ agentCnt' = agentCnt
    BY DEF Next, AgentInitThread, AgentThread, UpdateThread, QueueRequest, PrologComplete,
           PingNodes, LoopEnds, LoopWakes, RetryNoRoom, RetrySpawn, QueueShutdown,
           RetryMail, MailEnds, AgentWaits, WdogRetry, WdogNotes, PingEnd, UpdateNodes, PingNodesUpdate,
           UpdateEnds, Shutdown, AgentFini, Terminated, vars, cntVars
  <1> QED BY <1>8, <1>9 DEF Keeps
\* What they do to the counters.
LEMMA ThreadMoves ==
    ASSUME [Next]_vars
    PROVE  \/ \E a \in Slot : AgentStarts(a) \/ AgentEnds(a)
           \/ UNCHANGED <<threadCnt, mailCnt>>
           \/ RetryMail \/ MailEnds
  BY DEF Next, AgentInitThread, AgentThread, UpdateThread, QueueRequest, PrologComplete,
         PingNodes, LoopEnds, LoopWakes, RetryNoRoom, RetrySpawn, QueueShutdown,
         AgentWaits, WdogRetry,
         WdogNotes, PingEnd, UpdateNodes, PingNodesUpdate, UpdateEnds, Shutdown, AgentFini,
         Terminated, vars, cntVars

LEMMA LifeMoves ==
    ASSUME [Next]_vars
    PROVE  life' = "up" => life = "up"
  BY DEF Next, AgentInitThread, AgentThread, UpdateThread, QueueRequest, PrologComplete,
         PingNodes, LoopEnds, LoopWakes, RetryNoRoom, RetrySpawn, QueueShutdown,
         RetryMail, MailEnds, AgentStarts, AgentWaits, WdogRetry, WdogNotes, PingEnd, AgentEnds, UpdateNodes,
         PingNodesUpdate, UpdateEnds, Shutdown, AgentFini, Terminated, vars

LEMMA StartsCounted ==
    ASSUME AgentType, NEW a \in Slot, AgentStarts(a)
    PROVE  /\ AgentType' /\ a \notin Counted /\ Counted' = Counted \cup {a}
           /\ \A b \in Counted' : agent'[b].nodes = agent[b].nodes
           /\ agent[a].phase # "free"
  <1>1. agent[a].phase = "new"
    BY DEF AgentStarts
  <1>2. PICK p \in {"end", "send"} : Phase(a, p)
    BY DEF AgentStarts
  <1>3. p \in Phases
    BY DEF Phases
  <1>4. /\ AgentType' /\ agent'[a].phase = p /\ agent'[a].nodes = agent[a].nodes
        /\ \A b \in Slot \ {a} : agent'[b] = agent[b]
    BY <1>1, <1>2, <1>3, PhaseMoves
  <1> QED BY <1>1, <1>4 DEF Counted

LEMMA EndsCounted ==
    ASSUME AgentType, NEW a \in Slot, AgentEnds(a)
    PROVE  /\ AgentType' /\ a \in Counted /\ Counted' = Counted \ {a}
           /\ \A b \in Counted' : agent'[b].nodes = agent[b].nodes
           /\ \A b \in Slot : agent'[b].phase # "wait"
  <1>1. agent[a].phase = "end" /\ agent' = [b \in Slot |-> IF b = a THEN Free ELSE Broadcast(b)]
    BY DEF AgentEnds
  <1>2. agent'[a].phase = "free" /\ \A b \in Slot \ {a} : agent'[b] = Broadcast(b)
    BY <1>1 DEF Free
  <1>3. AgentType'
    BY <1>1, BroadcastMoves DEF AgentType
  <1>4. \A b \in Slot \ {a} : /\ b \in Counted' <=> b \in Counted
                              /\ b \in Counted => agent'[b].nodes = agent[b].nodes
                              /\ agent'[b].phase # "wait"
    BY <1>2, BroadcastMoves DEF Counted
  <1> QED BY <1>1, <1>2, <1>3, <1>4 DEF Counted

LEMMA BudgetStep ==
    ASSUME BaseType, ThreadBudget, [Next]_vars
    PROVE  ThreadBudget'
  <1>0. /\ AgentType /\ AgentType' /\ MaxServerThreads \in Nat
        /\ Cardinality(Counted) \in Nat /\ Cardinality(Threads) \in Nat /\ mailCnt \in Nat
    BY BaseStep, FiniteThreads, FS_CardinalityType, CtldAgentAssumption DEF BaseType, CountType
  <1>1. agentCnt = Cardinality(Counted) /\ threadCnt = mailCnt + Cardinality(Threads)
        /\ (life = "up" => threadCnt <= MaxServerThreads)
    BY DEF ThreadBudget
  <1>2. life' = "up" => life = "up"
    BY LifeMoves
  <1>3. ASSUME NEW a \in Slot, AgentStarts(a) PROVE ThreadBudget'
    <2>1. /\ Cardinality(Counted') = Cardinality(Counted) + 1
          /\ Cardinality(Threads') = Cardinality(Threads) + RpcThreadCnt(agent[a].nodes)
      BY <1>0, <1>3, StartsCounted, OneMore
    <2>2. RpcThreadCnt(agent[a].nodes) \in Int
      BY <1>0, <1>3, RpcThreadCntIs, CtldAgentAssumption DEF AgentStarts
    <2>3. /\ agentCnt' = agentCnt + 1 /\ threadCnt' = threadCnt + RpcThreadCnt(agent[a].nodes)
          /\ mailCnt' = mailCnt
          /\ life = "up" => threadCnt + RpcThreadCnt(agent[a].nodes) <= MaxServerThreads
      BY <1>3 DEF AgentStarts, Fits
    <2>4. threadCnt' = mailCnt' + Cardinality(Threads')
      BY <1>0, <1>1, <2>1, <2>2, <2>3
    <2>5. life' = "up" => threadCnt' <= MaxServerThreads
      BY <1>2, <2>3
    <2> QED BY <1>1, <2>1, <2>3, <2>4, <2>5 DEF ThreadBudget
  <1>4. ASSUME NEW a \in Slot, AgentEnds(a) PROVE ThreadBudget'
    <2>1. /\ Cardinality(Counted') = Cardinality(Counted) - 1
          /\ Cardinality(Threads') = Cardinality(Threads) - RpcThreadCnt(agent[a].nodes)
      BY <1>0, <1>4, EndsCounted, OneLess
    <2>2. RpcThreadCnt(agent[a].nodes) \in Nat
      BY <1>0, <1>4, RpcThreadCntIs, CtldAgentAssumption DEF AgentEnds
    <2>3. /\ agentCnt' = agentCnt - 1 /\ threadCnt' = threadCnt - RpcThreadCnt(agent[a].nodes)
          /\ mailCnt' = mailCnt
      BY <1>4 DEF AgentEnds
    <2>4. threadCnt' = mailCnt' + Cardinality(Threads')
      BY <1>0, <1>1, <2>1, <2>2, <2>3
    <2>5. life' = "up" => threadCnt' <= MaxServerThreads
      BY <1>0, <1>1, <1>2, <2>2, <2>3
    <2> QED BY <1>1, <2>1, <2>3, <2>4, <2>5 DEF ThreadBudget
  <1>5. ASSUME Counted' = Counted, \A b \in Counted : agent'[b].nodes = agent[b].nodes,
               agentCnt' = agentCnt
        PROVE  ThreadBudget' \/ \E a \in Slot : AgentStarts(a) \/ AgentEnds(a)
    <2>1. Threads' = Threads
      BY <1>5, NoneMore
    <2>2. CASE UNCHANGED <<threadCnt, mailCnt>>
      BY <1>1, <1>2, <1>5, <2>1, <2>2 DEF ThreadBudget
    <2>3. CASE RetryMail
      <3>1. PICK k \in 0..MaxMailThreads :
               /\ k > 0 => MailFits(k)
               /\ mailCnt' = mailCnt + k /\ threadCnt' = threadCnt + k
        BY <2>3 DEF RetryMail
      <3>2. k \in Nat /\ (k > 0 => threadCnt + k <= MaxServerThreads)
        BY <3>1, CtldAgentAssumption DEF MailFits
      <3>3. threadCnt' = mailCnt' + Cardinality(Threads')
        BY <1>0, <1>1, <2>1, <3>1, <3>2
      <3>4. life' = "up" => threadCnt' <= MaxServerThreads
        BY <1>0, <1>1, <1>2, <3>1, <3>2
      <3> QED BY <1>1, <1>5, <3>3, <3>4 DEF ThreadBudget
    <2>4. CASE MailEnds
      <3>1. mailCnt' = mailCnt - 1 /\ threadCnt' = threadCnt - 1
        BY <2>4 DEF MailEnds
      <3>2. threadCnt' = mailCnt' + Cardinality(Threads')
        BY <1>0, <1>1, <2>1, <3>1
      <3>3. life' = "up" => threadCnt' <= MaxServerThreads
        BY <1>0, <1>1, <1>2, <3>1
      <3> QED BY <1>1, <1>5, <3>2, <3>3 DEF ThreadBudget
    <2> QED BY <2>2, <2>3, <2>4, ThreadMoves
  <1> QED BY <1>3, <1>4, <1>5, CountedMoves

LEMMA BudgetInit == Init => ThreadBudget
  <1> SUFFICES ASSUME Init PROVE ThreadBudget
    OBVIOUS
  <1>1. Counted = {}
    BY DEF Init, Counted, Free
  <1>2. Threads = {}
    BY <1>1 DEF Threads
  <1>3. 0 <= MaxServerThreads
    BY CtldAgentAssumption
  <1> QED BY <1>1, <1>2, <1>3, FS_EmptySet DEF Init, ThreadBudget

\* The statics of agent.c keep their types, and so do the two counters of threads.
THEOREM TypeCorrect == Spec => []TypeOK
  <1>1. Init => BaseType /\ ThreadBudget
    BY BaseInit, BudgetInit
  <1>2. BaseType /\ ThreadBudget /\ [Next]_vars => (BaseType /\ ThreadBudget)'
    BY BaseStep, BudgetStep
  <1>3. BaseType /\ ThreadBudget => TypeOK
    <2> SUFFICES ASSUME BaseType, ThreadBudget PROVE TypeOK
      OBVIOUS
    <2>1. Counted \in SUBSET Slot
      BY DEF Counted
    <2>2. Cardinality(Counted) <= Cardinality(Slot) /\ Cardinality(Counted) \in Nat
          /\ Cardinality(Slot) \in Nat
      BY <2>1, FiniteThreads, FS_Subset, FS_CardinalityType, CtldAgentAssumption
    <2>3. Cardinality(Threads) \in Nat
      BY FiniteThreads, FS_CardinalityType
    <2>4. agentCnt \in 0..Cardinality(Slot)
      BY <2>2 DEF ThreadBudget
    <2>5. threadCnt \in Nat
      BY <2>3, CtldAgentAssumption DEF ThreadBudget, BaseType, CountType
    <2> QED BY <2>4, <2>5 DEF BaseType, AgentType, ListType, LoopType, CountType, NodeType, TypeOK
  <1> QED BY <1>1, <1>2, <1>3, PTL DEF Spec

\* The threads of all agents and e-mails together keep MAX_SERVER_THREADS, although
\* _agent_retry starts agents before they are counted, and agent_cnt and
\* agent_thread_cnt are exact.
THEOREM BudgetKept == Spec => []ThreadBudget
  <1>1. Init => BaseType /\ ThreadBudget
    BY BaseInit, BudgetInit
  <1>2. BaseType /\ ThreadBudget /\ [Next]_vars => (BaseType /\ ThreadBudget)'
    BY BaseStep, BudgetStep
  <1> QED BY <1>1, <1>2, PTL DEF Spec
-----------------------------------------------------------------------------
(* Agents that wait for threads. *)

\* Only an agent that finds too many threads begins to wait, and a broadcast leaves
\* no agent waiting.
LEMMA WaitMoves ==
    ASSUME BaseType, [Next]_vars, NEW b \in Slot, agent'[b].phase = "wait"
    PROVE  /\ agent[b].phase = "wait" \/ AgentWaits(b)
           /\ life = "stop" => life' = "stop"
           /\ ~\E a \in Slot : AgentEnds(a)
  <1>0. AgentType
    BY DEF BaseType
  <1>1. CASE agent' = agent /\ (life = "stop" => life' = "stop")
    <2>1. ASSUME NEW a \in Slot, AgentEnds(a) PROVE FALSE
      BY <1>0, <2>1, EndsCounted
    <2> QED BY <1>1, <2>1
  <1>2. CASE RetrySpawn
    <2>1. PICK a \in Slot : /\ agent'[a].phase = "new"
                            /\ \A c \in Slot \ {a} : agent'[c] = agent[c]
      BY <1>2, SpawnMoves
    <2>2. ASSUME NEW c \in Slot, AgentEnds(c) PROVE FALSE
      BY <1>0, <2>2, EndsCounted
    <2> QED BY <1>2, <2>1, <2>2 DEF RetrySpawn
  <1>5. CASE QueueShutdown
    <2>1. PICK a \in Slot : /\ agent'[a].phase = "new"
                            /\ \A c \in Slot \ {a} : agent'[c] = agent[c]
      BY <1>5, ShutdownMoves
    <2>2. ASSUME NEW c \in Slot, AgentEnds(c) PROVE FALSE
      BY <1>0, <2>2, EndsCounted
    <2> QED BY <1>5, <2>1, <2>2, ShutdownMoves
  <1>3. CASE \E a \in Slot : AgentThread(a)
    <2>1. PICK a \in Slot : AgentThread(a)
      BY <1>3
    <2>2. ASSUME NEW c \in Slot, AgentEnds(c) PROVE FALSE
      BY <1>0, <2>2, EndsCounted
    <2>3. life' = life
      BY <2>1 DEF AgentThread, AgentStarts, AgentWaits, WdogRetry, WdogNotes, PingEnd, AgentEnds
    <2>4. CASE AgentStarts(a)
      <3>1. PICK p \in {"end", "send"} : Phase(a, p)
        BY <2>4 DEF AgentStarts
      <3>2. agent'[a].phase = p /\ \A c \in Slot \ {a} : agent'[c] = agent[c]
        BY <1>0, <2>4, <3>1, PhaseMoves DEF AgentStarts, Phases
      <3> QED BY <2>2, <2>3, <3>2
    <2>5. CASE AgentWaits(a)
      BY <1>0, <2>2, <2>3, <2>5, PhaseMoves DEF AgentWaits, Phases
    <2>6. CASE WdogRetry(a)
      <3>1. PICK ok \in SUBSET agent[a].nodes : Answers(a, "note", ok)
        BY <2>6 DEF WdogRetry, Answers
      <3> QED BY <1>0, <2>2, <2>3, <2>6, <3>1, AnswersMove DEF WdogRetry, Phases
    <2>7. CASE WdogNotes(a)
      BY <1>0, <2>2, <2>3, <2>7, NotesMove
    <2>8. CASE PingEnd(a)
      BY <1>0, <2>2, <2>3, <2>8, PhaseMoves DEF PingEnd, Phases
    <2> QED BY <2>1, <2>2, <2>4, <2>5, <2>6, <2>7, <2>8 DEF AgentThread
  <1>4. CASE AgentFini
    <2>1. agent'[b] = Broadcast(b)
      BY <1>4 DEF AgentFini
    <2>2. agent'[b].phase # "wait"
      BY <1>0, <2>1, BroadcastMoves
    <2> QED BY <2>2
  <1> QED
    BY <1>1, <1>2, <1>3, <1>4, <1>5
       DEF Next, AgentInitThread, UpdateThread, QueueRequest, PrologComplete, PingNodes,
           LoopEnds, LoopWakes, RetryNoRoom, RetryMail, MailEnds, UpdateNodes,
           PingNodesUpdate, UpdateEnds, Shutdown, Terminated, vars

LEMMA WakerStep ==
    ASSUME BaseType, ThreadBudget, WaiterHasWaker, [Next]_vars
    PROVE  WaiterHasWaker'
  <1>0. AgentType
    BY DEF BaseType
  <1> SUFFICES ASSUME NEW b \in Slot, agent'[b].phase = "wait"
               PROVE  life' = "stop" \/ Counted' # {}
    BY DEF WaiterHasWaker
  <1>1. /\ agent[b].phase = "wait" \/ AgentWaits(b)
        /\ life = "stop" => life' = "stop"
        /\ ~\E a \in Slot : AgentEnds(a)
    BY WaitMoves
  <1>2. CASE \E a \in Slot : AgentStarts(a)
    BY <1>0, <1>2, StartsCounted
  <1>3. CASE Counted' = Counted
    <2>1. CASE agent[b].phase = "wait"
      BY <1>1, <1>3, <2>1 DEF WaiterHasWaker
    <2>2. CASE AgentWaits(b)
      <3>1. life = "up" /\ ~(threadCnt + RpcThreadCnt(agent[b].nodes) <= MaxServerThreads)
            /\ agent[b].phase # "free"
        BY <2>2 DEF AgentWaits, Fits
      <3>2. RpcThreadCnt(agent[b].nodes) \in 2..(AgentThreadCount + 2)
        BY <1>0, <3>1, RpcThreadCntIs
      <3>3. ASSUME Counted = {} PROVE FALSE
        <4>1. Threads = {}
          BY <3>3 DEF Threads
        <4>2. Cardinality(Threads) = 0
          BY <4>1, FS_EmptySet
        <4>3. mailCnt \in 0..MaxMailThreads /\ threadCnt = mailCnt + 0
          BY <4>2 DEF ThreadBudget, BaseType, CountType
        <4> QED BY <3>1, <3>2, <4>3, CtldAgentAssumption
      <3> QED BY <1>3, <3>3
    <2> QED BY <1>1, <2>1, <2>2
  <1> QED BY <1>1, <1>2, <1>3, CountedMoves

\* An agent that waits for threads waits for agents that are still to end, as nothing
\* but the end of an agent wakes it: _mail_proc gives threads back without a broadcast.
\* This rests on MAX_MAIL_THREADS leaving room for one agent.
THEOREM WaiterIsWoken == Spec => []WaiterHasWaker
  <1>1. Init => BaseType /\ ThreadBudget /\ WaiterHasWaker
    <2>1. Init => WaiterHasWaker
      BY DEF Init, WaiterHasWaker, Free
    <2> QED BY <2>1, BaseInit, BudgetInit
  <1>2. BaseType /\ ThreadBudget /\ WaiterHasWaker /\ [Next]_vars
          => (BaseType /\ ThreadBudget /\ WaiterHasWaker)'
    BY BaseStep, BudgetStep, WakerStep
  <1> QED BY <1>1, <1>2, PTL DEF Spec

-----------------------------------------------------------------------------
(* Signals and the prolog. *)

\* What is in retry_list is ready to be sent, and so is what the agents send.
ListedReady == \A i \in DOMAIN retry : retry[i].req \in Signals => prolog[retry[i].req] = "done"

LEMMA PrologMoves ==
    ASSUME BaseType, [Next]_vars, NEW r \in Signals, prolog[r] = "done"
    PROVE  prolog'[r] = "done"
  <1>1. \/ prolog' = prolog
        \/ \E q \in Signals : PrologComplete(q)
    BY DEF Next, AgentInitThread, AgentThread, UpdateThread, QueueRequest, PingNodes,
           LoopEnds, LoopWakes, RetryNoRoom, RetrySpawn, QueueShutdown, RetryMail,
           MailEnds, AgentStarts,
           AgentWaits, WdogRetry, WdogNotes, PingEnd, AgentEnds, UpdateNodes, PingNodesUpdate,
           UpdateEnds, Shutdown, AgentFini, Terminated, vars, listVars
  <1> QED BY <1>1 DEF PrologComplete, BaseType, ListType

\* An agent's request stays what it is; a new agent's is one of the list, or
\* REQUEST_SHUTDOWN.
LEMMA ReqMoves ==
    ASSUME BaseType, [Next]_vars, NEW a \in Slot, agent'[a].phase # "free"
    PROVE  \/ agent[a].phase # "free" /\ agent'[a].req = agent[a].req
           \/ RetrySpawn /\ \E i \in DOMAIN retry : agent'[a].req = retry[i].req
           \/ agent'[a].req = "shutdown"
  <1>0. AgentType
    BY DEF BaseType
  <1>1. CASE agent' = agent
    BY <1>1
  <1>2. CASE RetrySpawn
    <2>1. PICK i \in 1..Len(retry), c \in Slot :
                 /\ agent'[c].req = retry[i].req
                 /\ \A b \in Slot \ {c} : agent'[b] = agent[b]
      BY <1>2, SpawnMoves
    <2>2. DOMAIN retry = 1..Len(retry)
      BY DEF BaseType, ListType
    <2> QED BY <1>2, <2>1, <2>2
  <1>3. ASSUME NEW c \in Slot, AgentThread(c), ~AgentEnds(c)
        PROVE  agent[a].phase # "free" /\ agent'[a].req = agent[a].req
    <2>4. CASE AgentStarts(c)
      <3>1. PICK p \in {"end", "send"} : Phase(c, p)
        BY <2>4 DEF AgentStarts
      <3>2. agent'[c].req = agent[c].req /\ \A b \in Slot \ {c} : agent'[b] = agent[b]
        BY <1>0, <2>4, <3>1, PhaseMoves DEF AgentStarts, Phases
      <3> QED BY <2>4, <3>2 DEF AgentStarts
    <2>5. CASE AgentWaits(c)
      BY <1>0, <2>5, PhaseMoves DEF AgentWaits, Phases
    <2>6. CASE WdogRetry(c)
      <3>1. PICK ok \in SUBSET agent[c].nodes : Answers(c, "note", ok)
        BY <2>6 DEF WdogRetry, Answers
      <3> QED BY <1>0, <2>6, <3>1, AnswersMove DEF WdogRetry, Phases
    <2>7. CASE WdogNotes(c)
      BY <1>0, <2>7, NotesMove DEF WdogNotes
    <2>8. CASE PingEnd(c)
      BY <1>0, <2>8, PhaseMoves DEF PingEnd, Phases
    <2> QED BY <1>3, <2>4, <2>5, <2>6, <2>7, <2>8 DEF AgentThread
  <1>4. ASSUME NEW c \in Slot, AgentEnds(c)
        PROVE  agent[a].phase # "free" /\ agent'[a].req = agent[a].req
    <2>1. agent'[a] = IF a = c THEN Free ELSE Broadcast(a)
      BY <1>4 DEF AgentEnds
    <2>2. agent'[a] = Broadcast(a)
      BY <2>1 DEF Free
    <2> QED BY <1>0, <2>2, BroadcastMoves
  <1>5. CASE AgentFini
    <2>1. agent'[a] = Broadcast(a)
      BY <1>5 DEF AgentFini
    <2> QED BY <1>0, <2>1, BroadcastMoves
  <1>6. CASE QueueShutdown
    <2>1. PICK c \in Slot : /\ agent'[c].req = "shutdown"
                            /\ \A b \in Slot \ {c} : agent'[b] = agent[b]
      BY <1>6, ShutdownMoves
    <2> QED BY <2>1
  <1> QED
    BY <1>1, <1>2, <1>3, <1>4, <1>5, <1>6
       DEF Next, AgentInitThread, UpdateThread, QueueRequest, PrologComplete, PingNodes,
           LoopEnds, LoopWakes, RetryNoRoom, RetryMail, MailEnds, UpdateNodes,
           PingNodesUpdate, UpdateEnds, Shutdown, Terminated, vars
\* Where the requests of retry_list come from.
LEMMA ListMoves ==
    ASSUME BaseType, [Next]_vars, NEW j \in DOMAIN retry'
    PROVE  \/ \E i \in DOMAIN retry : retry'[j].req = retry[i].req
           \/ retry'[j].req \in Pings
           \/ retry'[j].req \in Signals => prolog[retry'[j].req] = "done"
           \/ \E a \in Slot : agent[a].phase # "free" /\ retry'[j].req = agent[a].req
  <1>0. /\ retry \in Seq(Entry) /\ retry' \in Seq(Entry) /\ DOMAIN retry = 1..Len(retry)
        /\ DOMAIN retry' = 1..Len(retry')
    <2>1. retry \in Seq(Entry) /\ retry' \in Seq(Entry)
      BY BaseStep DEF BaseType, ListType
    <2> QED BY <2>1
  <1> DEFINE Goal ==
           \/ \E i \in DOMAIN retry : retry'[j].req = retry[i].req
           \/ retry'[j].req \in Pings
           \/ retry'[j].req \in Signals => prolog[retry'[j].req] = "done"
           \/ \E a \in Slot : agent[a].phase # "free" /\ retry'[j].req = agent[a].req
  <1>1. ASSUME retry' = retry PROVE Goal
    BY <1>1
  <1>2. ASSUME NEW e \in Entry, retry' = Append(retry, e) PROVE retry'[j] = e \/ Goal
    <2>1. CASE j \in DOMAIN retry
      <3>1. retry'[j] = retry[j]
        BY <1>0, <1>2, <2>1
      <3> QED BY <2>1, <3>1
    <2>2. CASE j \notin DOMAIN retry
      BY <1>0, <1>2, <2>2
    <2> QED BY <2>1, <2>2
  <1>3. ASSUME NEW y \in Seq(Entry), retry' = retry \o y
        PROVE  (\E k \in 1..Len(y) : retry'[j] = y[k]) \/ Goal
    <2>0. /\ Len(retry') = Len(retry) + Len(y) /\ Len(retry) \in Nat /\ Len(y) \in Nat
          /\ \A i \in 1..Len(retry) : retry'[i] = retry[i]
          /\ \A i \in (Len(retry) + 1)..(Len(retry) + Len(y)) : retry'[i] = y[i - Len(retry)]
      BY <1>0, <1>3, Joined
    <2>1. CASE j \in DOMAIN retry
      <3>1. retry'[j] = retry[j]
        BY <1>0, <2>0, <2>1
      <3> QED BY <2>1, <3>1
    <2>2. CASE j \notin DOMAIN retry
      <3>1. j \in (Len(retry) + 1)..(Len(retry) + Len(y)) /\ j - Len(retry) \in 1..Len(y)
        BY <1>0, <2>0, <2>2
      <3> QED BY <2>0, <3>1
    <2> QED BY <2>1, <2>2
  <1>4. ASSUME NEW r \in Cmds, NEW n \in Node, QueueRequest(r, {n}) PROVE Goal
    <2>1. \/ retry' = retry
          \/ (r \in Signals => prolog[r] = "done") /\ retry' = Append(retry, New(r, {n}))
      BY <1>4 DEF QueueRequest
    <2>2. New(r, {n}) \in Entry /\ New(r, {n}).req = r
      BY NewType DEF Req, Targets
    <2> HIDE DEF New, Entry
    <2> QED BY <1>1, <1>2, <2>1, <2>2
  <1>5. ASSUME PingNodes PROVE Goal
    <2>1. PICK ping \in SUBSET Node, reg \in SUBSET Node : retry' = retry \o PingReqs(ping, reg)
      BY <1>5 DEF PingNodes, PingReqs
    <2>2. PICK y \in Seq(Entry) : retry' = retry \o y /\ \A i \in 1..Len(y) : y[i].req \in Pings
      BY <2>1, PingReqsAre
    <2> QED BY <1>3, <2>2
  <1>6. ASSUME CheckDefer PROVE Goal
    <2>1. ListType
      BY DEF BaseType
    <2>2. PICK go \in SUBSET (1..Len(defer)) :
                /\ \A i \in go : Ready(defer[i])
                /\ retry' = retry \o Subsequence(defer, go)
                /\ Subsequence(defer, go) \in Seq(Deferral)
      BY <1>6, <2>1, DeferType
    <2>3. defer \in Seq(Deferral)
      BY <2>1 DEF ListType
    <2>4. \A k \in 1..Len(Subsequence(defer, go)) :
             \E i \in go : Subsequence(defer, go)[k] = defer[i]
      BY <2>3, SubsequenceOf
    <2>5. \A k \in 1..Len(Subsequence(defer, go)) : Ready(Subsequence(defer, go)[k])
      BY <2>2, <2>4
    <2>6. Subsequence(defer, go) \in Seq(Entry)
      BY <2>2, DeferralIsEntry
    <2>7. (\E k \in 1..Len(Subsequence(defer, go)) : retry'[j] = Subsequence(defer, go)[k]) \/ Goal
      BY <1>3, <2>2, <2>6
    <2> QED BY <2>5, <2>7 DEF Ready
  <1>7. ASSUME RetrySpawn PROVE Goal
    <2>1. PICK i \in 1..Len(retry) :
             retry' = Without(retry, i)
      BY <1>7, SpawnMoves
    <2>2. /\ Len(retry') = Len(retry) - 1 /\ \A k \in 1..(i - 1) : retry'[k] = retry[k]
          /\ \A k \in i..(Len(retry) - 1) : retry'[k] = retry[k + 1]
      <3>1. retry \in Seq(Entry)
        BY <1>0
      <3>2. Len(retry') = Len(retry) - 1
        BY <2>1, <3>1, RemovedFrom
      <3>3. \A k \in 1..(i - 1) : retry'[k] = retry[k]
        BY <2>1, <3>1, RemovedFrom
      <3>4. \A k \in i..(Len(retry) - 1) : retry'[k] = retry[k + 1]
        BY <2>1, <3>1, RemovedFrom, ZenonT(30)
      <3> QED BY <3>2, <3>3, <3>4
    <2>3. Len(retry) \in Nat
      BY <1>0
    <2>4. CASE j < i
      <3>1. j \in 1..(i - 1) /\ j \in DOMAIN retry
        BY <1>0, <2>2, <2>3, <2>4
      <3> QED BY <2>2, <3>1
    <2>5. CASE ~(j < i)
      <3>1. j \in i..(Len(retry) - 1) /\ j + 1 \in DOMAIN retry
        BY <1>0, <2>2, <2>3, <2>5
      <3> QED BY <2>2, <3>1
    <2> QED BY <2>4, <2>5
  <1>8. ASSUME NEW a \in Slot, WdogRetry(a) PROVE Goal
    <2>1. PICK ok \in SUBSET agent[a].nodes :
             retry' = IF agent[a].req \in Cmds /\ Resend(a, ok) # {}
                      THEN Append(retry, [req |-> agent[a].req, nodes |-> Resend(a, ok), tried |-> TRUE])
                      ELSE retry
      BY <1>8 DEF WdogRetry
    <2>2. agent[a] \in Active /\ agent[a].phase # "free"
      BY <1>8, ActiveIs DEF WdogRetry, BaseType
    <2> DEFINE e == [req |-> agent[a].req, nodes |-> Resend(a, ok), tried |-> TRUE]
    <2>3. Resend(a, ok) # {} => e \in Entry
      BY <2>2 DEF Active, Entry, Resend, Targets
    <2>4. e.req = agent[a].req
      OBVIOUS
    <2>5. retry' = retry \/ (Resend(a, ok) # {} /\ retry' = Append(retry, e))
      BY <2>1
    <2> HIDE DEF e
    <2> QED BY <1>1, <1>2, <2>2, <2>3, <2>4, <2>5
  <1> HIDE DEF Goal
  <1>9. Goal
    BY <1>1, <1>4, <1>5, <1>6, <1>7, <1>8
       DEF Next, AgentInitThread, AgentThread, UpdateThread, PrologComplete, LoopEnds,
           LoopWakes, RetryNoRoom, RetryMail, QueueShutdown, MailEnds, AgentStarts,
           AgentWaits, WdogNotes,
           PingEnd, AgentEnds, UpdateNodes, PingNodesUpdate, UpdateEnds, Shutdown, AgentFini,
           Terminated, vars, listVars
  <1> QED BY <1>9 DEF Goal

LEMMA SignalStep ==
    ASSUME BaseType, ListedReady, SignalAfterProlog, [Next]_vars
    PROVE  ListedReady' /\ SignalAfterProlog'
  <1>1. ASSUME NEW j \in DOMAIN retry', retry'[j].req \in Signals
        PROVE  prolog'[retry'[j].req] = "done"
    <2>1. retry'[j].req \notin Pings
      BY <1>1, CtldAgentAssumption DEF Pings
    <2>2. prolog[retry'[j].req] = "done"
      BY <1>1, <2>1, ListMoves DEF ListedReady, SignalAfterProlog
    <2> QED BY <1>1, <2>2, PrologMoves
  <1>2. ASSUME NEW a \in Slot, agent'[a].phase # "free", agent'[a].req \in Signals
        PROVE  prolog'[agent'[a].req] = "done"
    <2>0. agent'[a].req # "shutdown"
      BY <1>2, CtldAgentAssumption
    <2>1. prolog[agent'[a].req] = "done"
      BY <1>2, <2>0, ReqMoves DEF ListedReady, SignalAfterProlog
    <2> QED BY <1>2, <2>1, PrologMoves
  <1> QED BY <1>1, <1>2 DEF ListedReady, SignalAfterProlog

\* A signal for a job is not sent before its prolog has ended, though it be queued,
\* deferred, looked at and retried by different threads.
THEOREM SignalsWaitForProlog == Spec => []SignalAfterProlog
  <1>1. Init => BaseType /\ ListedReady /\ SignalAfterProlog
    <2>1. Init => ListedReady /\ SignalAfterProlog
      BY DEF Init, ListedReady, SignalAfterProlog, Free
    <2> QED BY <2>1, BaseInit
  <1>2. BaseType /\ ListedReady /\ SignalAfterProlog /\ [Next]_vars
          => (BaseType /\ ListedReady /\ SignalAfterProlog)'
    BY BaseStep, SignalStep
  <1> QED BY <1>1, <1>2, PTL DEF Spec
-----------------------------------------------------------------------------
(* The count of pings. *)

\* Where a list has requests for pings.
PingsAt(s) == {i \in DOMAIN s : s[i].req \in Pings}

LEMMA PingsAtFinite ==
    ASSUME NEW s \in Seq(Entry)
    PROVE  IsFiniteSet(PingsAt(s)) /\ Cardinality(PingsAt(s)) \in Nat
  <1>1. Len(s) \in Nat /\ DOMAIN s = 1..Len(s)
    OBVIOUS
  <1>2. IsFiniteSet(1..Len(s)) /\ PingsAt(s) \in SUBSET (1..Len(s))
    BY <1>1, FS_Interval DEF PingsAt
  <1> QED BY <1>2, FS_Subset, FS_CardinalityType

\* Two sets have the same size if a function is one-to-one between them.
LEMMA SameSize ==
    ASSUME NEW S, NEW T, IsFiniteSet(S), NEW f \in [S -> T],
           \A x \in S, y \in S : f[x] = f[y] => x = y,
           \A z \in T : \E x \in S : f[x] = z
    PROVE  Cardinality(T) = Cardinality(S)
  <1>1. f \in Bijection(S, T)
    BY DEF Bijection, Injection, Surjection, IsInjective
  <1>2. ExistsBijection(S, T)
    BY <1>1 DEF ExistsBijection
  <1> QED BY <1>2, FS_Bijection

LEMMA JoinedPings ==
    ASSUME NEW x \in Seq(Entry), NEW y \in Seq(Entry)
    PROVE  Cardinality(PingsAt(x \o y)) = Cardinality(PingsAt(x)) + Cardinality(PingsAt(y))
  <1> DEFINE z == x \o y
             U == PingsAt(z) \ PingsAt(x)
             f == [i \in PingsAt(y) |-> i + Len(x)]
  <1>1. /\ z \in Seq(Entry) /\ Len(z) = Len(x) + Len(y)
        /\ \A i \in 1..Len(x) : z[i] = x[i]
        /\ \A i \in (Len(x) + 1)..(Len(x) + Len(y)) : z[i] = y[i - Len(x)]
    BY Joined
  <1>2. /\ Len(x) \in Nat /\ Len(y) \in Nat /\ DOMAIN x = 1..Len(x) /\ DOMAIN y = 1..Len(y)
    OBVIOUS
  <1>3. DOMAIN z = 1..Len(z)
    BY <1>1
  <1> HIDE DEF z
  <1>4. PingsAt(x) \subseteq PingsAt(z)
    BY <1>1, <1>2, <1>3 DEF PingsAt
  <1>5. PingsAt(y) \subseteq Int /\ U \subseteq Int
    BY <1>2, <1>3 DEF PingsAt
  <1>6. ASSUME NEW i \in PingsAt(y) PROVE i + Len(x) \in U
    <2>1. i \in 1..Len(y) /\ y[i].req \in Pings
      BY <1>2 DEF PingsAt
    <2>2. /\ i + Len(x) \in (Len(x) + 1)..(Len(x) + Len(y)) /\ (i + Len(x)) - Len(x) = i
          /\ i + Len(x) \notin 1..Len(x) /\ i + Len(x) \in 1..Len(z)
      BY <1>1, <1>2, <2>1
    <2>3. z[i + Len(x)] = y[i]
      BY <1>1, <2>2
    <2>4. i + Len(x) \in PingsAt(z)
      BY <1>3, <2>1, <2>2, <2>3 DEF PingsAt
    <2>5. i + Len(x) \notin PingsAt(x)
      BY <1>2, <2>2 DEF PingsAt
    <2> QED BY <2>4, <2>5
  <1>7. ASSUME NEW i \in U PROVE i - Len(x) \in PingsAt(y)
    <2>1. i \in 1..Len(z) /\ z[i].req \in Pings /\ ~(i \in 1..Len(x) /\ x[i].req \in Pings)
      BY <1>2, <1>3 DEF PingsAt
    <2>2. i \notin 1..Len(x)
      BY <1>1, <2>1
    <2>3. i \in (Len(x) + 1)..(Len(x) + Len(y)) /\ i - Len(x) \in 1..Len(y)
      BY <1>1, <1>2, <2>1, <2>2
    <2> QED BY <1>1, <1>2, <2>1, <2>3 DEF PingsAt
  <1>8. Cardinality(U) = Cardinality(PingsAt(y))
    <2>1. f \in [PingsAt(y) -> U]
      BY <1>6
    <2>2. \A i \in PingsAt(y), j \in PingsAt(y) : f[i] = f[j] => i = j
      BY <1>2, <1>5
    <2>3. ASSUME NEW k \in U PROVE \E i \in PingsAt(y) : f[i] = k
      <3>1. k \in Int /\ k - Len(x) \in PingsAt(y)
        BY <1>5, <1>7
      <3>2. (k - Len(x)) + Len(x) = k
        BY <1>2, <3>1
      <3> QED BY <3>1, <3>2
    <2>4. IsFiniteSet(PingsAt(y))
      BY PingsAtFinite
    <2> HIDE DEF f, U
    <2> QED BY <2>1, <2>2, <2>3, <2>4, SameSize
  <1>9. PingsAt(z) = PingsAt(x) \cup U /\ PingsAt(x) \cap U = {}
    BY <1>4
  <1>10. IsFiniteSet(PingsAt(x)) /\ IsFiniteSet(U) /\ Cardinality(PingsAt(x)) \in Nat
        /\ Cardinality(PingsAt(y)) \in Nat
    <2>1. IsFiniteSet(PingsAt(z))
      BY <1>1, PingsAtFinite
    <2>2. U \in SUBSET PingsAt(z)
      OBVIOUS
    <2> QED BY <2>1, <2>2, FS_Subset, PingsAtFinite
  <1>11. Cardinality(PingsAt(z)) = Cardinality(PingsAt(x)) + Cardinality(U) - 0
    BY <1>9, <1>10, FS_Union, FS_EmptySet
  <1> QED BY <1>8, <1>10, <1>11 DEF z

\* A request that is not a ping leaves the count alone.
LEMMA AppendedPings ==
    ASSUME NEW x \in Seq(Entry), NEW e \in Entry, e.req \notin Pings
    PROVE  Cardinality(PingsAt(Append(x, e))) = Cardinality(PingsAt(x))
  <1>1. Len(Append(x, e)) = Len(x) + 1 /\ Len(x) \in Nat
        /\ DOMAIN Append(x, e) = 1..(Len(x) + 1) /\ DOMAIN x = 1..Len(x)
        /\ Append(x, e)[Len(x) + 1] = e /\ \A i \in 1..Len(x) : Append(x, e)[i] = x[i]
    OBVIOUS
  <1>2. PingsAt(Append(x, e)) = PingsAt(x)
    BY <1>1 DEF PingsAt
  <1> QED BY <1>2

LEMMA RemovedPings ==
    ASSUME NEW s \in Seq(Entry), NEW i \in 1..Len(s)
    PROVE  Cardinality(PingsAt(Without(s, i)))
             = IF s[i].req \in Pings THEN Cardinality(PingsAt(s)) - 1 ELSE Cardinality(PingsAt(s))
  <1> DEFINE t == Without(s, i)
             T == PingsAt(t)
             S == PingsAt(s) \ {i}
             f == [j \in T |-> IF j < i THEN j ELSE j + 1]
  <1>1. /\ t \in Seq(Entry) /\ Len(t) = Len(s) - 1
        /\ \A j \in 1..(i - 1) : t[j] = s[j]
        /\ \A j \in i..(Len(s) - 1) : t[j] = s[j + 1]
    BY RemovedFrom
  <1>2. Len(s) \in Nat /\ DOMAIN s = 1..Len(s)
    OBVIOUS
  <1> HIDE DEF t
  <1>3. DOMAIN t = 1..(Len(s) - 1)
    BY <1>1
  <1>4. T \subseteq Int /\ S \subseteq Int
    BY <1>2, <1>3 DEF PingsAt
  <1>5. ASSUME NEW j \in T PROVE f[j] \in S
    <2>1. j \in 1..(Len(s) - 1) /\ t[j].req \in Pings
      BY <1>3 DEF PingsAt
    <2>2. CASE j < i
      <3>1. j \in 1..(i - 1) /\ j \in 1..Len(s) /\ j # i
        BY <1>2, <2>1, <2>2
      <3> QED BY <1>1, <1>2, <2>1, <2>2, <3>1 DEF PingsAt
    <2>3. CASE ~(j < i)
      <3>1. j \in i..(Len(s) - 1) /\ j + 1 \in 1..Len(s) /\ j + 1 # i
        BY <1>2, <2>1, <2>3
      <3>2. t[j] = s[j + 1]
        BY <1>1, <3>1
      <3> QED BY <1>2, <2>1, <2>3, <3>1, <3>2 DEF PingsAt
    <2> QED BY <2>2, <2>3
  <1>6. \A j \in T, k \in T : f[j] = f[k] => j = k
    BY <1>4
  <1>7. ASSUME NEW k \in S PROVE \E j \in T : f[j] = k
    <2>1. k \in 1..Len(s) /\ s[k].req \in Pings /\ k # i
      BY <1>2 DEF PingsAt
    <2>2. CASE k < i
      <3>1. k \in 1..(i - 1) /\ k \in 1..(Len(s) - 1)
        BY <1>2, <2>1, <2>2
      <3>2. k \in T
        BY <1>1, <1>3, <2>1, <3>1 DEF PingsAt
      <3> QED BY <2>2, <3>2
    <2>3. CASE ~(k < i)
      <3>1. k - 1 \in i..(Len(s) - 1) /\ k - 1 \in 1..(Len(s) - 1) /\ (k - 1) + 1 = k
            /\ ~(k - 1 < i)
        BY <1>2, <2>1, <2>3
      <3>2. t[k - 1] = s[(k - 1) + 1]
        BY <1>1, <3>1
      <3>3. k - 1 \in T
        BY <1>3, <2>1, <3>1, <3>2 DEF PingsAt
      <3>4. f[k - 1] = k
        BY <3>1, <3>3
      <3> QED BY <3>3, <3>4
    <2> QED BY <2>2, <2>3
  <1>8. Cardinality(S) = Cardinality(T)
    <2>1. f \in [T -> S]
      BY <1>5
    <2>2. IsFiniteSet(T)
      BY <1>1, PingsAtFinite
    <2> HIDE DEF f, T, S
    <2> QED BY <1>6, <1>7, <2>1, <2>2, SameSize
  <1>9. Cardinality(S) = IF i \in PingsAt(s) THEN Cardinality(PingsAt(s)) - 1
                         ELSE Cardinality(PingsAt(s))
    <2>1. IsFiniteSet(PingsAt(s))
      BY PingsAtFinite
    <2> QED BY <2>1, FS_RemoveElement
  <1>10. i \in PingsAt(s) <=> s[i].req \in Pings
    BY <1>2 DEF PingsAt
  <1> QED BY <1>8, <1>9, <1>10 DEF t

\* What ping_nodes adds.
LEMMA PingReqsCount ==
    ASSUME NEW y \in Seq(Entry), \A i \in 1..Len(y) : y[i].req \in Pings
    PROVE  Cardinality(PingsAt(y)) = Len(y)
  <1>1. Len(y) \in Nat /\ DOMAIN y = 1..Len(y)
    OBVIOUS
  <1>2. PingsAt(y) = 1..Len(y)
    BY <1>1 DEF PingsAt
  <1>3. Cardinality(1..Len(y)) = Len(y)
    BY <1>1, FS_Interval
  <1> QED BY <1>2, <1>3

LEMMA NoPingsCount ==
    ASSUME NEW y \in Seq(Deferral)
    PROVE  y \in Seq(Entry) /\ Cardinality(PingsAt(y)) = 0
  <1>1. y \in Seq(Entry)
    BY DeferralIsEntry
  <1>2. \A i \in DOMAIN y : y[i] \in Deferral
    OBVIOUS
  <1>3. \A i \in DOMAIN y : y[i].req \notin Pings
    BY <1>2, CtldAgentAssumption DEF Deferral, Pings
  <1>4. PingsAt(y) = {}
    BY <1>3 DEF PingsAt
  <1> QED BY <1>1, <1>4, FS_EmptySet
\* The agents with a request for pings for which ping_end has not been called.
Pinging == {a \in Slot : agent[a].phase \notin {"free", "end"} /\ agent[a].req \in Pings}

PingPhase == \A a \in Slot : agent[a].phase = "ping" => agent[a].req \in Pings

LEMMA PingsCountedIs ==
    PingsCounted <=>
      (life = "up" => pingCount = Cardinality(PingsAt(retry)) + Cardinality(Pinging))
  BY DEF PingsCounted, PingsAt, Pinging

LEMMA PingingMoves ==
    ASSUME BaseType, PingPhase, [Next]_vars, life = "up"
    PROVE  /\ RetrySpawn \/ (\E a \in Slot : PingEnd(a)) \/ Pinging' = Pinging
           /\ PingPhase'
  <1>0. AgentType
    BY DEF BaseType
  <1> DEFINE Keeps == Pinging' = Pinging /\ PingPhase'
  <1>1. ASSUME agent' = agent PROVE Keeps
    BY <1>1 DEF Pinging, PingPhase
  <1>2. ASSUME RetrySpawn PROVE PingPhase'
    <2>1. PICK c \in Slot : /\ agent'[c].phase = "new"
                            /\ \A b \in Slot \ {c} : agent'[b] = agent[b]
      BY <1>2, SpawnMoves
    <2> QED BY <2>1 DEF PingPhase
  <1>3. ASSUME NEW c \in Slot, AgentStarts(c) PROVE Keeps
    <2>1. PICK p \in {"send", "end"} : /\ Phase(c, p) /\ agent[c].phase = "new"
                                       /\ p = "end" => agent[c].req = "shutdown"
      BY <1>3 DEF AgentStarts
    <2>2. p \in Phases /\ "shutdown" \notin Pings
      BY DEF Phases, Pings
    <2>3. /\ agent'[c].phase = p /\ agent'[c].req = agent[c].req
          /\ \A b \in Slot \ {c} : agent'[b] = agent[b]
      BY <1>0, <2>1, <2>2, PhaseMoves
    <2> QED BY <2>1, <2>2, <2>3 DEF Pinging, PingPhase
  <1>4. ASSUME NEW c \in Slot, AgentWaits(c) PROVE Keeps
    <2>1. Phase(c, "wait") /\ agent[c].phase = "new"
      BY <1>4 DEF AgentWaits
    <2>2. /\ agent'[c].phase = "wait" /\ agent'[c].req = agent[c].req
          /\ \A b \in Slot \ {c} : agent'[b] = agent[b]
      BY <1>0, <2>1, PhaseMoves DEF Phases
    <2> QED BY <2>1, <2>2 DEF Pinging, PingPhase
  <1>5. ASSUME NEW c \in Slot, WdogRetry(c) PROVE Keeps
    <2>1. PICK ok \in SUBSET agent[c].nodes : Answers(c, "note", ok)
      BY <1>5 DEF WdogRetry, Answers
    <2>2. agent[c].phase = "send"
      BY <1>5 DEF WdogRetry
    <2>3. /\ agent'[c].phase = "note" /\ agent'[c].req = agent[c].req
          /\ \A b \in Slot \ {c} : agent'[b] = agent[b]
      BY <1>0, <2>1, <2>2, AnswersMove DEF Phases
    <2> QED BY <2>2, <2>3 DEF Pinging, PingPhase
  <1>6. ASSUME NEW c \in Slot, WdogNotes(c) PROVE Keeps
    <2>1. agent[c].phase = "note"
      BY <1>6 DEF WdogNotes
    <2> QED BY <1>0, <1>6, <2>1, NotesMove DEF Pinging, PingPhase
  <1>7. ASSUME NEW c \in Slot, PingEnd(c) PROVE PingPhase'
    <2>1. Phase(c, "end") /\ agent[c].phase = "ping"
      BY <1>7 DEF PingEnd
    <2>2. /\ agent'[c].phase = "end" /\ \A b \in Slot \ {c} : agent'[b] = agent[b]
      BY <1>0, <2>1, PhaseMoves DEF Phases
    <2> QED BY <2>2 DEF PingPhase
  <1>8. ASSUME NEW c \in Slot, AgentEnds(c) PROVE Keeps
    <2>1. agent[c].phase = "end" /\ agent'[c].phase = "free"
          /\ \A b \in Slot \ {c} : agent'[b] = Broadcast(b)
      BY <1>8 DEF AgentEnds, Free
    <2> QED BY <1>0, <2>1, BroadcastMoves DEF Pinging, PingPhase
  <1>9. ~AgentFini
    BY DEF AgentFini
  <1>11. ASSUME QueueShutdown PROVE Keeps
    <2>1. PICK c \in Slot : /\ agent[c].phase = "free" /\ agent'[c].phase = "new"
                            /\ agent'[c].req = "shutdown"
                            /\ \A b \in Slot \ {c} : agent'[b] = agent[b]
      BY <1>11, ShutdownMoves
    <2>2. "shutdown" \notin Pings
      BY DEF Pings
    <2> QED BY <2>1, <2>2 DEF Pinging, PingPhase
  <1> HIDE DEF Keeps
  <1>10. \/ RetrySpawn \/ (\E a \in Slot : PingEnd(a))
         \/ Keeps
    BY <1>1, <1>3, <1>4, <1>5, <1>6, <1>8, <1>9, <1>11
       DEF Next, AgentInitThread, AgentThread, UpdateThread, QueueRequest, PrologComplete,
           PingNodes, LoopEnds, LoopWakes, RetryNoRoom, RetryMail, MailEnds, UpdateNodes,
           PingNodesUpdate, UpdateEnds, Shutdown, Terminated, vars
  <1> QED BY <1>2, <1>7, <1>10 DEF Keeps

\* The list of requests: only ping_nodes puts pings there, and only a new agent takes
\* them away.
LEMMA ListedPingsMove ==
    ASSUME BaseType, [Next]_vars
    PROVE  \/ RetrySpawn \/ PingNodes
           \/ Cardinality(PingsAt(retry')) = Cardinality(PingsAt(retry))
  <1>0. retry \in Seq(Entry) /\ AgentType /\ ListType
    BY DEF BaseType, ListType
  <1> DEFINE Keeps == Cardinality(PingsAt(retry')) = Cardinality(PingsAt(retry))
  <1>1. ASSUME retry' = retry PROVE Keeps
    BY <1>1
  <1>2. ASSUME NEW r \in Cmds, NEW n \in Node, QueueRequest(r, {n}) PROVE Keeps
    <2>1. retry' = retry \/ retry' = Append(retry, New(r, {n}))
      BY <1>2 DEF QueueRequest
    <2>2. New(r, {n}) \in Entry /\ New(r, {n}).req = r
      BY NewType DEF Req, Targets
    <2>3. r \notin Pings
      BY CtldAgentAssumption DEF Pings, Cmds
    <2> HIDE DEF New, Entry
    <2> QED BY <1>0, <1>1, <2>1, <2>2, <2>3, AppendedPings
  <1>3. ASSUME CheckDefer PROVE Keeps
    <2>1. PICK y \in Seq(Deferral) : retry' = retry \o y
      BY <1>0, <1>3, DeferType
    <2>2. y \in Seq(Entry) /\ Cardinality(PingsAt(y)) = 0
      BY NoPingsCount
    <2>3. Cardinality(PingsAt(retry)) \in Nat
      BY <1>0, PingsAtFinite
    <2>4. Cardinality(PingsAt(retry \o y)) = Cardinality(PingsAt(retry)) + 0
      BY <1>0, <2>2, JoinedPings
    <2> QED BY <2>1, <2>3, <2>4
  <1>4. ASSUME NEW a \in Slot, WdogRetry(a) PROVE Keeps
    <2>1. PICK ok \in SUBSET agent[a].nodes :
             retry' = IF agent[a].req \in Cmds /\ Resend(a, ok) # {}
                      THEN Append(retry, [req |-> agent[a].req, nodes |-> Resend(a, ok), tried |-> TRUE])
                      ELSE retry
      BY <1>4 DEF WdogRetry
    <2>2. agent[a] \in Active
      BY <1>0, <1>4, ActiveIs DEF WdogRetry
    <2> DEFINE e == [req |-> agent[a].req, nodes |-> Resend(a, ok), tried |-> TRUE]
    <2>3. Resend(a, ok) # {} => e \in Entry
      BY <2>2 DEF Active, Entry, Resend, Targets
    <2>4. agent[a].req \in Cmds => e.req \notin Pings
      BY CtldAgentAssumption DEF Pings, Cmds
    <2>5. \/ retry' = retry
          \/ agent[a].req \in Cmds /\ Resend(a, ok) # {} /\ retry' = Append(retry, e)
      BY <2>1
    <2> HIDE DEF e
    <2> QED BY <1>0, <1>1, <2>3, <2>4, <2>5, AppendedPings
  <1> HIDE DEF Keeps
  <1>5. RetrySpawn \/ PingNodes \/ Keeps
    BY <1>1, <1>2, <1>3, <1>4
       DEF Next, AgentInitThread, AgentThread, UpdateThread, PrologComplete, LoopEnds,
           LoopWakes, RetryNoRoom, RetryMail, QueueShutdown, MailEnds, AgentStarts,
           AgentWaits, WdogNotes,
           PingEnd, AgentEnds, UpdateNodes, PingNodesUpdate, UpdateEnds, Shutdown, AgentFini,
           Terminated, vars, listVars
  <1> QED BY <1>5 DEF Keeps

LEMMA PingCountMoves ==
    ASSUME [Next]_vars
    PROVE  PingNodes \/ (\E a \in Slot : PingEnd(a)) \/ pingCount' = pingCount
  BY DEF Next, AgentInitThread, AgentThread, UpdateThread, QueueRequest, PrologComplete,
         LoopEnds, LoopWakes, RetryNoRoom, RetrySpawn, QueueShutdown, RetryMail,
           MailEnds, AgentStarts,
         AgentWaits, WdogRetry, WdogNotes, AgentEnds, UpdateNodes, PingNodesUpdate,
         UpdateEnds, Shutdown, AgentFini, Terminated, vars, pingVars
LEMMA PingsStep ==
    ASSUME BaseType, PingsCounted, life = "up" => PingPhase, [Next]_vars
    PROVE  PingsCounted' /\ (life' = "up" => PingPhase')
  <1> SUFFICES ASSUME life' = "up"
               PROVE  /\ pingCount' = Cardinality(PingsAt(retry')) + Cardinality(Pinging')
                      /\ PingPhase'
    <2>1. (life' = "up" => pingCount' = Cardinality(PingsAt(retry')) + Cardinality(Pinging'))
             => PingsCounted'
      BY DEF PingsCounted, PingsAt, Pinging
    <2> QED BY <2>1
  <1>1. life = "up" /\ PingPhase
    BY LifeMoves
  <1>2. PingPhase' /\ (RetrySpawn \/ (\E a \in Slot : PingEnd(a)) \/ Pinging' = Pinging)
    BY <1>1, PingingMoves
  <1>3. pingCount = Cardinality(PingsAt(retry)) + Cardinality(Pinging)
    BY <1>1, PingsCountedIs
  <1>4. /\ retry \in Seq(Entry) /\ AgentType
        /\ IsFiniteSet(Pinging) /\ Cardinality(Pinging) \in Nat
        /\ Cardinality(PingsAt(retry)) \in Nat
    <2>1. retry \in Seq(Entry) /\ AgentType
      BY DEF BaseType, ListType
    <2>2. Pinging \in SUBSET Slot
      BY DEF Pinging
    <2>3. IsFiniteSet(Pinging)
      BY <2>2, FS_Subset, CtldAgentAssumption
    <2>4. Cardinality(Pinging) \in Nat
      BY <2>3, FS_CardinalityType
    <2>5. Cardinality(PingsAt(retry)) \in Nat
      BY <2>1, PingsAtFinite
    <2> QED BY <2>1, <2>3, <2>4, <2>5
  <1> DEFINE Goal == pingCount' = Cardinality(PingsAt(retry')) + Cardinality(Pinging')
  <1>5. ASSUME RetrySpawn PROVE Goal
    <2>1. PICK i \in 1..Len(retry), a \in Slot :
             /\ agent[a].phase = "free"
             /\ agent'[a].phase = "new" /\ agent'[a].req = retry[i].req
             /\ \A b \in Slot \ {a} : agent'[b] = agent[b]
             /\ retry' = Without(retry, i)
      BY <1>5, SpawnMoves
    <2>2. Cardinality(PingsAt(retry'))
             = IF retry[i].req \in Pings THEN Cardinality(PingsAt(retry)) - 1
               ELSE Cardinality(PingsAt(retry))
      BY <1>4, <2>1, RemovedPings
    <2>3. pingCount' = pingCount
      BY <1>5 DEF RetrySpawn, pingVars
    <2>4. CASE retry[i].req \in Pings
      <3>1. Pinging' = Pinging \cup {a} /\ a \notin Pinging
        BY <2>1, <2>4 DEF Pinging
      <3>2. Cardinality(Pinging') = Cardinality(Pinging) + 1
        BY <1>4, <3>1, FS_AddElement
      <3> QED BY <1>3, <1>4, <2>2, <2>3, <2>4, <3>2
    <2>5. CASE retry[i].req \notin Pings
      <3>1. Pinging' = Pinging
        BY <2>1, <2>5 DEF Pinging
      <3> QED BY <1>3, <1>4, <2>2, <2>3, <2>5, <3>1
    <2> QED BY <2>4, <2>5
  <1>6. ASSUME NEW a \in Slot, PingEnd(a) PROVE Goal
    <2>1. Phase(a, "end") /\ agent[a].phase = "ping" /\ retry' = retry
          /\ pingCount' = IF pingCount > 0 THEN pingCount - 1 ELSE 0
      BY <1>6 DEF PingEnd, listVars
    <2>2. agent'[a].phase = "end" /\ \A b \in Slot \ {a} : agent'[b] = agent[b]
      BY <1>4, <2>1, PhaseMoves DEF Phases
    <2>3. a \in Pinging /\ Pinging' = Pinging \ {a}
      BY <1>1, <2>1, <2>2 DEF Pinging, PingPhase
    <2>4. Cardinality(Pinging') = Cardinality(Pinging) - 1 /\ Cardinality(Pinging) # 0
      BY <1>4, <2>3, FS_RemoveElement, FS_EmptySet
    <2>5. pingCount > 0
      BY <1>3, <1>4, <2>4
    <2> QED BY <1>3, <1>4, <2>1, <2>4, <2>5
  <1>7. ASSUME PingNodes PROVE Goal
    <2>1. PICK ping \in SUBSET Node, reg \in SUBSET Node :
             retry' = retry \o PingReqs(ping, reg)
             /\ pingCount' = pingCount + Len(PingReqs(ping, reg))
      BY <1>7 DEF PingNodes, PingReqs
    <2>2. PICK y \in Seq(Entry) : /\ retry' = retry \o y /\ pingCount' = pingCount + Len(y)
                                  /\ \A i \in 1..Len(y) : y[i].req \in Pings
      BY <2>1, PingReqsAre
    <2>3. Cardinality(PingsAt(y)) = Len(y) /\ Len(y) \in Nat
      BY <2>2, PingReqsCount
    <2>4. Cardinality(PingsAt(retry')) = Cardinality(PingsAt(retry)) + Len(y)
      BY <1>4, <2>2, <2>3, JoinedPings
    <2>5. Pinging' = Pinging
      BY <1>7 DEF PingNodes, Pinging
    <2> QED BY <1>3, <1>4, <2>2, <2>3, <2>4, <2>5
  <1>8. ASSUME ~RetrySpawn, ~PingNodes, ~\E a \in Slot : PingEnd(a) PROVE Goal
    BY <1>2, <1>3, <1>8, ListedPingsMove, PingCountMoves
  <1> QED BY <1>2, <1>5, <1>6, <1>7, <1>8

PingInv == PingsCounted /\ (life = "up" => PingPhase)

LEMMA PingInit == Init => PingInv
  <1> SUFFICES ASSUME Init PROVE PingInv
    OBVIOUS
  <1>1. Pinging = {} /\ PingPhase
    BY DEF Init, Pinging, PingPhase, Free
  <1>2. PingsAt(retry) = {}
    BY DEF Init, PingsAt
  <1>3. PingsCounted
    <2>1. pingCount = 0
      BY DEF Init
    <2>2. pingCount = Cardinality(PingsAt(retry)) + Cardinality(Pinging)
      BY <1>1, <1>2, <2>1, FS_EmptySet
    <2> QED BY <2>2, PingsCountedIs
  <1> QED BY <1>1, <1>3 DEF PingInv

LEMMA PingInvariant == Spec => [](BaseType /\ PingInv)
  <1>1. Init => BaseType /\ PingInv
    BY BaseInit, PingInit
  <1>2. BaseType /\ PingInv /\ [Next]_vars => (BaseType /\ PingInv)'
    BY BaseStep, PingsStep DEF PingInv
  <1> QED BY <1>1, <1>2, PTL DEF Spec

\* ping_count is the number of requests for pings that are on their way, listed or
\* with an agent: the pings neither stop for good nor overlap.
THEOREM PingsAreCounted == Spec => []PingsCounted
  <1>1. BaseType /\ PingInv => PingsCounted
    BY DEF PingInv
  <1> QED BY <1>1, PingInvariant, PTL
-----------------------------------------------------------------------------
(* Nodes that have answered. *)

\* An answer is in the record of the node, or with the agent that is to note it, or
\* listed for an update that has not yet been reported to ping_nodes.
Noted(n) == silent[n] = 0
WithAgent(n) ==
    \E a \in Slot : agent[a].phase = "note" /\ agent[a].req \in Pings /\ n \in agent[a].ok
Unreported(n) == n \in updates /\ (~updated \/ \E a \in Slot : agent[a].phase = "ping")

AnswersReach ==
    /\ \A n \in answered : Noted(n) \/ WithAgent(n) \/ Unreported(n)
    /\ upd = "hold" => updates = {}

\* Agents whose answers have not been noted, or reported, are where they were.
LEMMA AnswersKept ==
    ASSUME BaseType, [Next]_vars, life = "up", NEW b \in Slot,
           \/ agent[b].phase = "note" /\ ~WdogNotes(b)
           \/ agent[b].phase = "ping" /\ ~PingEnd(b)
    PROVE  agent'[b] = agent[b]
  <1>0. AgentType
    BY DEF BaseType
  <1>1. CASE agent' = agent
    BY <1>1
  <1>2. CASE RetrySpawn
    BY <1>2, SpawnMoves
  <1>3. ASSUME NEW c \in Slot, AgentThread(c), ~AgentEnds(c) PROVE agent'[b] = agent[b]
    <2>1. CASE AgentStarts(c)
      <3>1. PICK p \in {"send", "end"} : Phase(c, p) /\ agent[c].phase = "new"
        BY <2>1 DEF AgentStarts
      <3>2. p \in Phases
        BY DEF Phases
      <3> QED BY <1>0, <3>1, <3>2, PhaseMoves
    <2>2. CASE AgentWaits(c)
      <3>1. Phase(c, "wait") /\ agent[c].phase = "new"
        BY <2>2 DEF AgentWaits
      <3> QED BY <1>0, <3>1, PhaseMoves DEF Phases
    <2>3. CASE WdogRetry(c)
      <3>1. PICK ok \in SUBSET agent[c].nodes : Answers(c, "note", ok)
        BY <2>3 DEF WdogRetry, Answers
      <3>2. agent[c].phase = "send"
        BY <2>3 DEF WdogRetry
      <3> QED BY <1>0, <3>1, <3>2, AnswersMove DEF Phases
    <2>4. CASE WdogNotes(c)
      <3>1. agent[c].phase = "note"
        BY <2>4 DEF WdogNotes
      <3>2. c # b
        BY <2>4, <3>1
      <3> QED BY <1>0, <2>4, <3>2, NotesMove
    <2>5. CASE PingEnd(c)
      <3>1. Phase(c, "end") /\ agent[c].phase = "ping"
        BY <2>5 DEF PingEnd
      <3>2. c # b
        BY <2>5, <3>1
      <3> QED BY <1>0, <3>1, <3>2, PhaseMoves DEF Phases
    <2> QED BY <1>3, <2>1, <2>2, <2>3, <2>4, <2>5 DEF AgentThread
  <1>4. ASSUME NEW c \in Slot, AgentEnds(c) PROVE agent'[b] = agent[b]
    <2>1. agent[c].phase = "end" /\ agent'[b] = IF b = c THEN Free ELSE Broadcast(b)
      BY <1>4 DEF AgentEnds
    <2>2. agent'[b] = Broadcast(b)
      BY <2>1
    <2> QED BY <1>0, <2>2, BroadcastMoves
  <1>5. ~AgentFini
    BY DEF AgentFini
  <1>6. CASE QueueShutdown
    BY <1>6, ShutdownMoves
  <1> QED
    BY <1>1, <1>2, <1>3, <1>4, <1>5, <1>6
       DEF Next, AgentInitThread, UpdateThread, QueueRequest, PrologComplete, PingNodes,
           LoopEnds, LoopWakes, RetryNoRoom, RetryMail, MailEnds, UpdateNodes,
           PingNodesUpdate, UpdateEnds, Shutdown, Terminated, vars

\* What the steps do to the answers and the records of nodes.
LEMMA AnswerMoves ==
    ASSUME [Next]_vars
    PROVE  /\ (\E a \in Slot : WdogRetry(a)) \/ PingNodes \/ answered' = answered
           /\ (\E a \in Slot : WdogNotes(a)) \/ PingNodes \/ UpdateNodes \/ UNCHANGED nodeVars
           /\ (\E a \in Slot : WdogNotes(a)) \/ UpdateNodes \/ updates' = updates
           /\ (\E a \in Slot : PingEnd(a)) \/ PingNodesUpdate \/ updated' = updated
           /\ UpdateNodes \/ UpdateEnds \/ PingNodesUpdate \/ upd' = upd
  BY DEF Next, AgentInitThread, AgentThread, UpdateThread, QueueRequest, PrologComplete,
         PingNodes, LoopEnds, LoopWakes, RetryNoRoom, RetrySpawn, QueueShutdown,
         RetryMail, MailEnds, AgentStarts, AgentWaits, WdogRetry, WdogNotes, PingEnd, AgentEnds, UpdateNodes,
         PingNodesUpdate, UpdateEnds, Shutdown, AgentFini, Terminated, vars, nodeVars, pingVars

LEMMA AnswersStep ==
    ASSUME BaseType, PingPhase, AnswersReach, [Next]_vars, life = "up"
    PROVE  AnswersReach'
  <1>0. AgentType /\ NodeType /\ answered \subseteq Node
    BY DEF BaseType, NodeType
  <1>1. (upd = "hold" => updates = {})'
    BY AnswerMoves DEF AnswersReach, UpdateNodes, UpdateEnds, PingNodesUpdate, WdogNotes
  <1> SUFFICES ASSUME NEW n \in answered' PROVE Noted(n)' \/ WithAgent(n)' \/ Unreported(n)'
    BY <1>1 DEF AnswersReach
  <1> DEFINE Goal == Noted(n)' \/ WithAgent(n)' \/ Unreported(n)'
  <1>2. ASSUME NEW a \in Slot, WdogRetry(a), n \notin answered PROVE Goal
    <2>1. PICK ok \in SUBSET agent[a].nodes :
             /\ Answers(a, "note", ok)
             /\ answered' = IF agent[a].req \in Pings THEN answered \cup ok ELSE answered
      BY <1>2 DEF WdogRetry, Answers
    <2>2. agent[a].phase # "free"
      BY <1>2 DEF WdogRetry
    <2>3. agent'[a].phase = "note" /\ agent'[a].req = agent[a].req /\ agent'[a].ok = ok
      BY <1>0, <2>1, <2>2, AnswersMove DEF Phases
    <2>4. agent[a].req \in Pings /\ n \in ok
      BY <1>2, <2>1
    <2> QED BY <2>3, <2>4 DEF WithAgent
  <1>3. n \in answered \/ Goal
    BY <1>2, AnswerMoves DEF PingNodes
  <1>4. ASSUME n \in answered, Noted(n) PROVE Goal
    <2>1. n \in Node /\ silent[n] = 0
      BY <1>0, <1>4 DEF Noted
    <2>2. CASE PingNodes
      <3>1. silent'[n] = silent[n]
        BY <2>1, <2>2 DEF PingNodes
      <3> QED BY <2>1, <3>1 DEF Noted
    <2>3. ASSUME NEW ns, Responded(ns) PROVE Noted(n)'
      BY <2>1, <2>3 DEF Responded, Noted
    <2>4. CASE UNCHANGED nodeVars
      BY <2>1, <2>4 DEF nodeVars, Noted
    <2> QED BY <2>2, <2>3, <2>4, AnswerMoves DEF WdogNotes, UpdateNodes
  <1>5. ASSUME n \in answered, WithAgent(n) PROVE Goal
    <2>1. PICK b \in Slot : agent[b].phase = "note" /\ agent[b].req \in Pings /\ n \in agent[b].ok
      BY <1>5 DEF WithAgent
    <2>2. CASE WdogNotes(b)
      <3>1. agent'[b].phase = "ping"
        BY <1>0, <2>1, <2>2, NotesMove
      <3>2. PICK now : Responded(now) /\ updates' = updates \cup (agent[b].ok \ now)
        BY <2>2 DEF WdogNotes
      <3>3. CASE n \in now
        BY <1>0, <1>5, <3>2, <3>3 DEF Responded, Noted
      <3>4. CASE n \notin now
        BY <2>1, <3>1, <3>2, <3>4 DEF Unreported
      <3> QED BY <3>3, <3>4
    <2>3. CASE ~WdogNotes(b)
      <3>1. agent'[b] = agent[b]
        BY <2>1, <2>3, AnswersKept
      <3> QED BY <2>1, <3>1 DEF WithAgent
    <2> QED BY <2>2, <2>3
  <1>6. ASSUME n \in answered, Unreported(n) PROVE Goal
    <2>0. n \in updates /\ n \in Node
      BY <1>0, <1>6 DEF Unreported
    <2>1. CASE UpdateNodes
      BY <2>0, <2>1 DEF UpdateNodes, Responded, Noted
    <2>2. CASE PingNodesUpdate
      BY <2>0, <2>2 DEF PingNodesUpdate, AnswersReach
    <2>3. ASSUME NEW a \in Slot, PingEnd(a) PROVE Goal
      BY <2>0, <2>3 DEF PingEnd, Unreported
    <2>4. ASSUME ~UpdateNodes PROVE n \in updates'
      BY <2>0, <2>4, AnswerMoves DEF WdogNotes
    <2>5. ASSUME ~PingNodesUpdate, ~\E a \in Slot : PingEnd(a), ~updated, ~UpdateNodes PROVE Goal
      BY <2>4, <2>5, AnswerMoves DEF Unreported
    <2>6. ASSUME NEW b \in Slot, agent[b].phase = "ping", ~PingEnd(b), ~UpdateNodes PROVE Goal
      <3>1. agent'[b] = agent[b]
        BY <2>6, AnswersKept
      <3> QED BY <2>4, <2>6, <3>1 DEF Unreported
    <2> QED BY <1>6, <2>1, <2>2, <2>3, <2>5, <2>6 DEF Unreported
  <1> QED BY <1>3, <1>4, <1>5, <1>6 DEF AnswersReach

\* When ping_nodes finds the last round done, every answer is in the record of its node.
LEMMA AnswersNoted ==
    ASSUME BaseType, PingInv, AnswersReach, life = "up", IsPingDone, NEW n \in answered
    PROVE  silent[n] = 0
  <1>1. Pinging = {}
    <2>1. pingCount = 0 /\ pingCount = Cardinality(PingsAt(retry)) + Cardinality(Pinging)
      BY PingsCountedIs DEF IsPingDone, PingInv
    <2>2. Pinging \in SUBSET Slot /\ retry \in Seq(Entry)
      BY DEF Pinging, BaseType, ListType
    <2>3. IsFiniteSet(Pinging)
      BY <2>2, FS_Subset, CtldAgentAssumption
    <2>4. Cardinality(Pinging) \in Nat /\ Cardinality(PingsAt(retry)) \in Nat
      BY <2>2, <2>3, FS_CardinalityType, PingsAtFinite
    <2>5. Cardinality(Pinging) = 0
      BY <2>1, <2>4
    <2> QED BY <2>3, <2>5, FS_EmptySet
  <1>2. ~WithAgent(n)
    BY <1>1 DEF WithAgent, Pinging
  <1>3. ~Unreported(n)
    BY <1>1 DEF Unreported, Pinging, IsPingDone, PingInv, PingPhase
  <1> QED BY <1>2, <1>3 DEF AnswersReach, Noted

\* A node that has answered the last ping it was sent is not set DOWN, however the
\* answer reaches its record: noted at once, by _agent_nodes_update, or while the
\* next round is already looked at.
THEOREM AnsweringNodesStayUp == Spec => HealthyNotDown
  <1> DEFINE Reach == life = "up" => AnswersReach
             Healthy == \A n \in Node : n \in down' \ down => n \notin answered
  <1>1. Init => Reach
    BY DEF Init, AnswersReach
  <1>2. BaseType /\ PingInv /\ Reach /\ [Next]_vars => Reach'
    BY LifeMoves, AnswersStep DEF PingInv
  <1>3. BaseType /\ PingInv /\ Reach /\ [Next]_vars => [Healthy]_vars
    <2> SUFFICES ASSUME BaseType, PingInv, Reach, [Next]_vars,
                        NEW n \in Node, n \in down' \ down
                 PROVE  n \notin answered
      OBVIOUS
    <2>1. CASE PingNodes
      <3>1. life = "up" /\ IsPingDone /\ n \in Dead
        BY <2>1 DEF PingNodes
      <3>2. ~(silent[n] = 0)
        BY <3>1, CtldAgentAssumption DEF Dead
      <3> QED BY <3>1, <3>2, AnswersNoted
    <2>2. ~(\E ns : Responded(ns)) /\ ~UNCHANGED nodeVars
      BY DEF Responded, nodeVars
    <2> QED BY <2>1, <2>2, AnswerMoves DEF WdogNotes, UpdateNodes
  <1> HIDE DEF Reach, Healthy
  <1>4. Spec => [](BaseType /\ PingInv /\ Reach)
    <2>1. BaseType /\ PingInv /\ Reach /\ [Next]_vars => Reach'
      BY <1>2
    <2> QED BY <1>1, <2>1, PingInvariant, PTL DEF Spec
  <1>5. Spec => [][Healthy]_vars
    BY <1>3, <1>4, PTL DEF Spec
  <1> QED BY <1>5 DEF HealthyNotDown, Healthy
=============================================================================
