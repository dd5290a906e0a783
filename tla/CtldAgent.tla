------------------------------ MODULE CtldAgent ------------------------------
(***************************************************************************)
(* The requests that slurmctld sends to slurmd: slurmctld/agent.c (the     *)
(* retry list and its thread, the agents with their watchdogs, the budget  *)
(* of threads, the thread that notes responses, e-mail) and the pings of   *)
(* slurmctld/ping_nodes.c that use it.                                     *)
(*                                                                         *)
(* Each critical section is one step.  Of a request the model keeps the    *)
(* nodes it is for and whether it was tried; an attempt may be older than  *)
(* the time to wait whenever that is asked, so of that time the model only *)
(* keeps that one is set.                                                  *)
(***************************************************************************)
EXTENDS Integers, Sequences, Subsequences, FiniteSets, TLC

CONSTANTS
    Node,
    Plain,             \* requests that are retried until a node responds or is DOWN
    Signals,           \* such requests that wait for the prolog (REQUEST_SIGNAL_TASKS)
    AgentThreadCount,  \* AGENT_THREAD_COUNT
    MaxServerThreads,  \* MAX_SERVER_THREADS
    MaxMailThreads,    \* MAX_MAIL_THREADS
    LotsOfAgents,      \* LOTS_OF_AGENTS_CNT
    ReturnToService,   \* ReturnToService: a DOWN node that responds is used again
    Patience,          \* rounds of pings without a response after which a node is DOWN
    Slot,              \* bound: as many agents at a time
    MaxListed          \* bound: requests that wait when the nodes are shut down

ASSUME CtldAgentAssumption ==
    /\ IsFiniteSet(Node) /\ Plain \cap Signals = {}
    /\ {"ping", "reg", "shutdown"} \cap (Plain \cup Signals) = {}
    /\ AgentThreadCount \in Nat \ {0} /\ AgentThreadCount + 2 < MaxServerThreads
    /\ MaxServerThreads \in Nat /\ MaxMailThreads \in Nat
    /\ MaxMailThreads + AgentThreadCount + 2 <= MaxServerThreads /\ LotsOfAgents \in Nat
    /\ ReturnToService \in BOOLEAN /\ Patience \in Nat \ {0}
    /\ IsFiniteSet(Slot) /\ MaxListed \in Nat

Pings == {"ping", "reg"}        \* REQUEST_PING, REQUEST_NODE_REGISTRATION_STATUS
Cmds  == Plain \cup Signals
Req   == Pings \cup Cmds \cup {"shutdown"}

VARIABLES
    life,      \* "up"; "stop": shutdown_time is set; "down": agent_fini has returned
    retry,     \* retry_list
    defer,     \* defer_list
    prolog,    \* of a signal's job: "runs", "done"
    loop,      \* _agent_init: where it is, and the variables of _agent_retry
    wait,      \* pending_wait_time # NO_VAL16
    mailToo,   \* pending_mail
    check,     \* pending_check_defer
    agent,     \* the agents by slot
    agentCnt,  \* agent_cnt
    threadCnt, \* agent_thread_cnt
    mailCnt,   \* mail_thread_cnt
    upd,       \* _agent_nodes_update: "wait", "hold" of update_nodes_mutex, "ended"
    updates,   \* update_node_list
    pingCount, \* ping_count
    updated,   \* ping_updated
    silent,    \* rounds of pings since a node's last_response
    down,      \* nodes in state DOWN
    answered   \* history: nodes that answered the last ping sent to them

trigVars  == <<wait, mailToo, check>>
listVars  == <<retry, defer, prolog>>
cntVars   == <<agentCnt, threadCnt>>
pingVars  == <<pingCount, updated>>
nodeVars  == <<silent, down>>
vars == <<life, listVars, loop, trigVars, agent, cntVars, mailCnt, upd, updates,
          pingVars, nodeVars, answered>>

Free == [phase |-> "free"]
Idle == [at |-> "wait", mail |-> FALSE, left |-> 0]

\* agent_trigger
Trigger(m, d) == wait' = TRUE /\ mailToo' = (mailToo \/ m) /\ check' = (check \/ d)

\* Threads that an agent for so many nodes is counted as.
RpcThreadCnt(nodes) ==
    2 + (IF Cardinality(nodes) < AgentThreadCount THEN Cardinality(nodes) ELSE AgentThreadCount)

\* Somewhere in agent.c there is work for r.
Agents(r) == {a \in Slot : agent[a].phase # "free" /\ agent[a].req = r}
Listed(r) == \E i \in DOMAIN retry : retry[i].req = r
Deferred(r) == \E i \in DOMAIN defer : defer[i].req = r
Pending(r) == Deferred(r) \/ Listed(r) \/ Agents(r) # {}

\* Nobody keeps the write lock of the nodes from being taken: who sends
\* REQUEST_SHUTDOWN holds the read lock until its agent has ended.
NodesFree == Agents("shutdown") = {}

-----------------------------------------------------------------------------
(* Requests: agent_queue_request, ping_nodes, mail_job_info. *)

New(r, nodes) == [req |-> r, nodes |-> nodes, tried |-> FALSE]

\* agent_queue_request of a command for a node.  (The job of a signal runs, and
\* its prolog may.)
QueueRequest(r, nodes) ==
    /\ life = "up" /\ ~Pending(r)
    /\ \/ /\ r \in Signals /\ prolog[r] = "runs"
          /\ defer' = Append(defer, New(r, nodes)) /\ UNCHANGED retry
       \/ /\ r \in Signals => prolog[r] = "done"
          /\ retry' = Append(retry, New(r, nodes)) /\ UNCHANGED defer
    /\ Trigger(FALSE, FALSE)
    /\ UNCHANGED <<life, prolog, loop, agent, cntVars, mailCnt, upd, updates, pingVars, nodeVars, answered>>

\* An agent for r is started.
Spawn(a, r, nodes) ==
    /\ agent[a].phase = "free"
    /\ agent' = [agent EXCEPT ![a] = [phase |-> "new", req |-> r, nodes |-> nodes, ok |-> {}]]

\* agent_queue_request(REQUEST_SHUTDOWN), called when slurmctld is asked to shut down
\* the nodes as well: an agent outside of the lists, which is joined.  Bound: one at
\* a time.
QueueShutdown ==
    /\ life = "up" /\ Node # {} /\ NodesFree /\ Len(retry) + Len(defer) <= MaxListed
    /\ \E a \in Slot : Spawn(a, "shutdown", Node)
    /\ UNCHANGED <<life, listVars, loop, trigVars, cntVars, mailCnt, upd, updates, pingVars,
                   nodeVars, answered>>

\* prolog_complete: agent_trigger(999, false, true).
PrologComplete(r) ==
    /\ prolog[r] = "runs" /\ prolog' = [prolog EXCEPT ![r] = "done"]
    /\ Trigger(FALSE, TRUE)
    /\ UNCHANGED <<life, retry, defer, loop, agent, cntVars, mailCnt, upd, updates, pingVars,
                   nodeVars, answered>>

\* node_did_resp of some nodes
Responded(ns) ==
    /\ silent' = [n \in Node |-> IF n \in ns THEN 0 ELSE silent[n]]
    /\ down' = IF ReturnToService THEN down \ ns ELSE down

\* Mutant: the update of the responses is not waited for.
CountOnly == pingCount = 0

\* is_ping_done
IsPingDone == pingCount = 0 /\ updated

\* last_response <= node_dead_time
Dead == {n \in Node \ down : silent[n] >= Patience}

\* ping_nodes, called by _slurmctld_background.  Nodes that have been silent for
\* too long are DOWN.  Of the others, DOWN or not, some are asked to register and
\* the rest is pinged, except for those that have responded lately and for DOWN
\* ones that do not respond.
PingNodes ==
    /\ life = "up" /\ IsPingDone /\ NodesFree
    /\ down' = down \cup Dead
    /\ \E reg \in SUBSET (Node \ Dead) :
       \E skip \in SUBSET {n \in Node : silent[n] = 0 \/ n \in down} :
          LET ping == Node \ (Dead \cup reg \cup skip)
              asked == ping \cup reg
              reqs == (IF ping # {} THEN <<New("ping", ping)>> ELSE <<>>)
                      \o (IF reg # {} THEN <<New("reg", reg)>> ELSE <<>>)
          IN  /\ pingCount' = pingCount + Len(reqs) /\ retry' = retry \o reqs
              /\ silent' = [n \in Node |-> IF n \in asked /\ silent[n] < Patience
                                           THEN silent[n] + 1 ELSE silent[n]]
              /\ answered' = answered \ asked
              /\ IF asked = {} THEN UNCHANGED trigVars ELSE Trigger(FALSE, FALSE)
    /\ UNCHANGED <<life, defer, prolog, loop, agent, cntVars, mailCnt, upd, updates, updated>>

-----------------------------------------------------------------------------
(* _agent_init. *)

\* With shutdown_time the list is worked off, for AGENT_SHUTDOWN_WAIT seconds.
LoopEnds ==
    /\ loop.at = "wait" /\ life # "up"
    /\ loop' = [loop EXCEPT !.at = "ended"]
    /\ UNCHANGED <<life, listVars, trigVars, agent, cntVars, mailCnt, upd, updates, pingVars,
                   nodeVars, answered>>

\* Mutant: the prolog is not asked for again.
ReadyAnyway(e) == TRUE

\* _signal_defer
Ready(e) == prolog[e.req] = "done"

\* _agent_defer: what is ready goes to retry_list.  A request whose job is gone, or
\* that has waited for too long, is dropped.
CheckDefer ==
    \E gone \in SUBSET Signals :
       LET left == {i \in DOMAIN defer : defer[i].req \notin gone}
           go == {i \in left : Ready(defer[i])}
       IN  /\ retry' = retry \o Subsequence(defer, go)
           /\ defer' = Subsequence(defer, left \ go)

\* The flags are taken and, if asked for, the deferred requests are looked at.  With
\* tick the flags have just been set by _slurmctld_background, "Process any pending
\* agent work", which sets them every second.
LoopWakes(tick) ==
    /\ loop.at = "wait"
    /\ IF life = "up" THEN tick \/ mailToo \/ check \/ wait ELSE ~tick /\ retry # <<>>
    /\ loop' = [at |-> "next", mail |-> tick \/ mailToo, left |-> 0]
    /\ wait' = FALSE /\ mailToo' = FALSE /\ check' = FALSE
    /\ IF tick \/ check THEN CheckDefer ELSE UNCHANGED <<defer, retry>>
    /\ UNCHANGED <<life, prolog, agent, cntVars, mailCnt, upd, updates, pingVars, nodeVars, answered>>

\* _find_request: the first request of those that were tried before, or not.
Found(tried) ==
    LET at == {i \in DOMAIN retry : retry[i].tried = tried}
    IN  {i \in at : \A j \in at : i <= j}

\* A new request, or else one whose last attempt may be old enough.
Chosen == IF Found(FALSE) # {} THEN Found(FALSE) ELSE Found(TRUE)

Room == threadCnt + AgentThreadCount + 2 <= MaxServerThreads

\* list_size - agent_started
Left == IF loop.left = 0 THEN Len(retry) ELSE loop.left

\* "too much work already"
RetryNoRoom ==
    /\ loop.at = "next" /\ ~Room /\ loop' = Idle
    /\ UNCHANGED <<life, listVars, trigVars, agent, cntVars, mailCnt, upd, updates, pingVars,
                   nodeVars, answered>>

\* An agent is started for a request; the threads are only counted when it runs.
RetrySpawn ==
    /\ loop.at = "next" /\ Room
    /\ \E i \in Chosen, a \in Slot :
          /\ Spawn(a, retry[i].req, retry[i].nodes)
          /\ retry' = SubSeq(retry, 1, i - 1) \o SubSeq(retry, i + 1, Len(retry))
    /\ loop' = IF Left > 1 /\ agentCnt <= LotsOfAgents THEN [loop EXCEPT !.left = Left - 1] ELSE Idle
    /\ UNCHANGED <<life, defer, prolog, trigVars, cntVars, mailCnt, upd, updates, pingVars, nodeVars, answered>>

\* Mutant: MAX_MAIL_THREADS is ignored.
MailAnyway(k) == threadCnt + k <= MaxServerThreads

MailFits(k) == threadCnt + k <= MaxServerThreads /\ mailCnt + k <= MaxMailThreads

\* Nothing to send: e-mail, as far as there is some (mail_job_info) and there are
\* threads for it.
RetryMail ==
    /\ loop.at = "next" /\ Room /\ Found(FALSE) = {} /\ loop' = Idle
    /\ \E k \in 0..MaxMailThreads :
          /\ k > 0 => loop.mail /\ MailFits(k)
          /\ mailCnt' = mailCnt + k /\ threadCnt' = threadCnt + k
    /\ UNCHANGED <<life, listVars, trigVars, agent, agentCnt, upd, updates, pingVars, nodeVars,
                   answered>>

\* _mail_proc: nobody is told that there is room again.
MailEnds ==
    /\ mailCnt > 0 /\ mailCnt' = mailCnt - 1 /\ threadCnt' = threadCnt - 1
    /\ UNCHANGED <<life, listVars, loop, trigVars, agent, agentCnt, upd, updates, pingVars, nodeVars,
                   answered>>

-----------------------------------------------------------------------------
(* agent and _wdog. *)

Phase(a, p) == agent' = [agent EXCEPT ![a].phase = p]

\* Mutant: the threads of the agent itself are forgotten.
FitsAlone(a) == life # "up" \/ threadCnt <= MaxServerThreads

Fits(a) == life # "up" \/ threadCnt + RpcThreadCnt(agent[a].nodes) <= MaxServerThreads

\* The agent is counted; with shutdown_time it goes on to its end.  So it does with
\* REQUEST_SHUTDOWN: it sends that, but notes nothing of it.
AgentStarts(a) ==
    /\ agent[a].phase = "new" /\ Fits(a)
    /\ agentCnt' = agentCnt + 1 /\ threadCnt' = threadCnt + RpcThreadCnt(agent[a].nodes)
    /\ Phase(a, IF life # "up" \/ agent[a].req = "shutdown" THEN "end" ELSE "send")
    /\ UNCHANGED <<life, listVars, loop, trigVars, mailCnt, upd, updates, pingVars, nodeVars, answered>>

\* "wait for state change and retry"
AgentWaits(a) ==
    /\ agent[a].phase = "new" /\ ~Fits(a) /\ Phase(a, "wait")
    /\ UNCHANGED <<life, listVars, loop, trigVars, cntVars, mailCnt, upd, updates, pingVars,
                   nodeVars, answered>>

\* _queue_agent_retry: "Do not re-send RPC to DOWN node".
Resend(a, ok) == agent[a].nodes \ (ok \cup down)

\* All threads of the agent (_thread_per_group_rpc) have got an answer from their
\* nodes or given up; the watchdog puts into the list what has to be sent again.
WdogRetry(a) ==
    /\ agent[a].phase = "send"
    /\ \E ok \in SUBSET agent[a].nodes :
          /\ agent' = [agent EXCEPT ![a].phase = "note", ![a].ok = ok]
          /\ answered' = IF agent[a].req \in Pings THEN answered \cup ok ELSE answered
          /\ retry' = IF agent[a].req \in Cmds /\ Resend(a, ok) # {}
                      THEN Append(retry, [req |-> agent[a].req, nodes |-> Resend(a, ok), tried |-> TRUE])
                      ELSE retry
    /\ UNCHANGED <<life, defer, prolog, loop, trigVars, cntVars, mailCnt, upd, updates, pingVars,
                   nodeVars>>

\* Mutant: only REQUEST_PING counts.
OnlyPing(r) == r = "ping"

\* Requests that are counted by ping_begin and ping_end.
EndsPing(r) == r \in Pings

\* The responses are noted (_notify_slurmctld_nodes): at once for nodes that come
\* after one for which the node lock had to be taken, otherwise by
\* _agent_nodes_update.
WdogNotes(a) ==
    /\ agent[a].phase = "note" /\ upd # "hold" /\ (NodesFree \/ agent[a].ok = agent[a].nodes)
    /\ agent' = [agent EXCEPT ![a].phase = IF EndsPing(agent[a].req) THEN "ping" ELSE "end", ![a].ok = {}]
    /\ \E now \in SUBSET agent[a].ok :
          /\ agent[a].ok = agent[a].nodes => now = {}
          /\ Responded(now) /\ updates' = updates \cup (agent[a].ok \ now)
    /\ UNCHANGED <<life, listVars, loop, trigVars, cntVars, mailCnt, upd, pingVars, answered>>

\* ping_end
PingEnd(a) ==
    /\ agent[a].phase = "ping" /\ Phase(a, "end")
    /\ pingCount' = (IF pingCount > 0 THEN pingCount - 1 ELSE 0) /\ updated' = FALSE
    /\ UNCHANGED <<life, listVars, loop, trigVars, cntVars, mailCnt, upd, updates, nodeVars, answered>>

\* Mutant: the waiting agents are not told.
NotTold(b) == agent[b]

\* pthread_cond_broadcast(&agent_cnt_cond)
Broadcast(b) == IF agent[b].phase = "wait" THEN [agent[b] EXCEPT !.phase = "new"] ELSE agent[b]

\* The end of agent, which makes the list be looked at again if there is room.
AgentEnds(a) ==
    LET left == threadCnt - RpcThreadCnt(agent[a].nodes)
    IN  /\ agent[a].phase = "end"
        /\ agent' = [b \in Slot |-> IF b = a THEN Free ELSE Broadcast(b)]
        /\ agentCnt' = agentCnt - 1 /\ threadCnt' = left
        /\ IF left + AgentThreadCount + 2 < MaxServerThreads
           THEN Trigger(TRUE, FALSE) ELSE UNCHANGED trigVars
        /\ UNCHANGED <<life, listVars, loop, mailCnt, upd, updates, pingVars, nodeVars,
                       answered>>

-----------------------------------------------------------------------------
(* _agent_nodes_update. *)

UpdateNodes ==
    /\ upd = "wait" /\ life = "up" /\ (NodesFree \/ updates = {}) /\ upd' = "hold"
    /\ Responded(updates) /\ updates' = {}
    /\ UNCHANGED <<life, listVars, loop, trigVars, agent, cntVars, mailCnt, pingVars, answered>>

\* ping_nodes_update
PingNodesUpdate ==
    /\ upd = "hold" /\ upd' = "wait" /\ updated' = TRUE
    /\ UNCHANGED <<life, listVars, loop, trigVars, agent, cntVars, mailCnt, updates, pingCount,
                   nodeVars, answered>>

UpdateEnds ==
    /\ upd = "wait" /\ life # "up" /\ upd' = "ended"
    /\ UNCHANGED <<life, listVars, loop, trigVars, agent, cntVars, mailCnt, updates, pingVars,
                   nodeVars, answered>>

-----------------------------------------------------------------------------
(* Shutdown and agent_fini. *)

\* shutdown_time is set, and agent_fini begins with agent_trigger(999, true, true).
Shutdown ==
    /\ life = "up" /\ life' = "stop" /\ Trigger(TRUE, TRUE)
    /\ UNCHANGED <<listVars, loop, agent, cntVars, mailCnt, upd, updates, pingVars, nodeVars,
                   answered>>

\* The threads have been joined, and all agents that wait are woken.  The agents
\* are given AGENT_SHUTDOWN_WAIT seconds.
AgentFini ==
    /\ life = "stop" /\ loop.at = "ended" /\ upd = "ended" /\ life' = "down"
    /\ agent' = [b \in Slot |-> Broadcast(b)]
    /\ UNCHANGED <<listVars, loop, trigVars, cntVars, mailCnt, upd, updates, pingVars, nodeVars,
                   answered>>

\* slurmctld has ended, and the agents that it had left.
Terminated ==
    /\ life = "down" /\ mailCnt = 0 /\ \A a \in Slot : agent[a].phase = "free"
    /\ UNCHANGED vars

-----------------------------------------------------------------------------
Init ==
    /\ life = "up" /\ retry = <<>> /\ defer = <<>>
    /\ prolog = [r \in Signals |-> "runs"]
    /\ loop = Idle /\ wait = FALSE /\ mailToo = FALSE /\ check = FALSE
    /\ agent = [a \in Slot |-> Free] /\ agentCnt = 0 /\ threadCnt = 0
    /\ mailCnt = 0
    /\ upd = "wait" /\ updates = {} /\ pingCount = 0 /\ updated = FALSE
    /\ silent = [n \in Node |-> 0] /\ down = {}
    /\ answered = {}

AgentInitThread ==
    \/ LoopEnds \/ LoopWakes(TRUE) \/ LoopWakes(FALSE) \/ RetryNoRoom \/ RetrySpawn \/ RetryMail
AgentThread(a) ==
    \/ AgentStarts(a) \/ AgentWaits(a) \/ WdogRetry(a) \/ WdogNotes(a) \/ PingEnd(a)
    \/ AgentEnds(a)
UpdateThread == UpdateNodes \/ PingNodesUpdate \/ UpdateEnds

Next ==
    \/ AgentInitThread \/ UpdateThread \/ PingNodes
    \/ \E a \in Slot : AgentThread(a)
    \/ \E r \in Cmds, n \in Node : QueueRequest(r, {n})
    \/ QueueShutdown
    \/ \E r \in Signals : PrologComplete(r)
    \/ MailEnds \/ Shutdown \/ AgentFini \/ Terminated

Spec == Init /\ [][Next]_vars

\* Nodes are interchangeable, and so are agents.
Symmetry == Permutations(Node) \cup Permutations(Slot)

-----------------------------------------------------------------------------
(* Properties. *)

Targets  == (SUBSET Node) \ {{}}
Entry    == [req : Req, nodes : Targets, tried : BOOLEAN]
Deferral == [req : Signals, nodes : Targets, tried : BOOLEAN]
Active   == [phase : {"new", "wait", "send", "note", "ping", "end"}, req : Req,
             nodes : Targets, ok : SUBSET Node]

\* Type correctness: the statics of agent.c and ping_nodes.c, the elements of its
\* lists, and agent_info_t.  The counters of agents and threads stay in their range.
TypeOK ==
    /\ life \in {"up", "stop", "down"}
    /\ retry \in Seq(Entry) /\ defer \in Seq(Deferral)
    /\ prolog \in [Signals -> {"runs", "done"}]
    /\ loop \in [at : {"wait", "next", "ended"}, mail : BOOLEAN, left : Nat]
    /\ wait \in BOOLEAN /\ mailToo \in BOOLEAN /\ check \in BOOLEAN
    /\ agent \in [Slot -> {Free} \cup Active]
    /\ agentCnt \in 0..Cardinality(Slot) /\ threadCnt \in Nat
    /\ mailCnt \in 0..MaxMailThreads /\ upd \in {"wait", "hold", "ended"}
    /\ updates \subseteq Node /\ pingCount \in 0..2 /\ updated \in BOOLEAN
    /\ silent \in [Node -> 0..Patience] /\ down \subseteq Node /\ answered \subseteq Node

Counted == {a \in Slot : agent[a].phase \in {"send", "note", "ping", "end"}}

\* The threads of the agents that are counted, numbered for each agent.
Threads == {t \in Counted \X (1..(AgentThreadCount + 2)) : t[2] <= RpcThreadCnt(agent[t[1]].nodes)}

\* The threads of all agents and e-mails together keep MAX_SERVER_THREADS, although
\* _agent_retry starts agents before they are counted; the counters are exact.
ThreadBudget ==
    /\ agentCnt = Cardinality(Counted)
    /\ threadCnt = mailCnt + Cardinality(Threads)
    /\ life = "up" => threadCnt <= MaxServerThreads

\* A node that has answered the last ping it was sent is not set DOWN, however the
\* answer reaches its record ("Otherwise, we could hit a race and incorrectly set
\* responding/healthy nodes to DOWN").
HealthyNotDown == [][\A n \in Node : n \in down' \ down => n \notin answered]_vars

\* An agent that waits for threads waits for agents that are still to end, as
\* nothing but the end of an agent wakes it (_mail_proc does not).
WaiterHasWaker == \A a \in Slot : agent[a].phase = "wait" => life = "stop" \/ Counted # {}

\* ping_count is the number of requests for pings that are on their way, listed or
\* with an agent ("Matching ping_end calls must be made for each"): the pings
\* neither stop for good nor overlap.
PingsCounted ==
    life = "up" =>
       pingCount = Cardinality({i \in DOMAIN retry : retry[i].req \in Pings})
                     + Cardinality({a \in Slot : agent[a].phase \notin {"free", "end"}
                                                 /\ agent[a].req \in Pings})

\* A signal for a job is not sent before its prolog has ended, though it be queued,
\* deferred, looked at and retried by different threads.
SignalAfterProlog ==
    \A a \in Slot : agent[a].phase # "free" /\ agent[a].req \in Signals
                      => prolog[agent[a].req] = "done"
=============================================================================
