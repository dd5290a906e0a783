--------------------------- MODULE DbdAgentProofs ---------------------------
(***************************************************************************)
(* Proofs about DbdAgent, for any number of requesters, messages, faults   *)
(* and crashes: who holds slurmdbd_lock, who will wake the halted agent,   *)
(* that the queue keeps its limit, and that the agent implements the queue *)
(* of AcctQueue.                                                           *)
(***************************************************************************)
EXTENDS DbdAgentMsgProofs, DbdAgentRefinement, TLAPS

\* The places of the agent where it holds slurmdbd_lock.
Holding == {"locked", "ready", "send", "recv", "heavy", "script"}

ControlType ==
    /\ lock \in Requesters \cup {"free", "agent"}
    /\ pc \in AgentPcs \cup {"none", "gone"}
    /\ req \in [Requesters -> {"idle", "halting", "rpc"}]
    /\ halt \in BOOLEAN

\* slurmdbd_lock has the owner it says it has.
LockOwner ==
    /\ pc \in Holding <=> lock = "agent"
    /\ \A r \in Requesters : req[r] = "rpc" <=> lock = r

\* Whoever set halt_agent last has not taken slurmdbd_lock yet.
HaltOwner == halt => \E r \in Requesters : req[r] = "halting"

ControlInv == ControlType /\ LockOwner /\ HaltOwner /\ HaltedAgentHasWaker

LEMMA ControlInit == Init => ControlInv
  BY DbdAssumption DEF Init, ControlInv, ControlType, LockOwner, HaltOwner,
     HaltedAgentHasWaker, Holding, AgentPcs

\* A process that ends leaves nobody waiting.
LEMMA ControlEnds == ProcessEnds => ControlInv'
  BY DbdAssumption DEF ProcessEnds, ControlInv, ControlType, LockOwner, HaltOwner,
     HaltedAgentHasWaker, Holding, AgentPcs

LEMMA ControlStep == ControlInv /\ [Next]_vars => ControlInv'
  <1> SUFFICES ASSUME ControlInv, [Next]_vars PROVE ControlInv'
    OBVIOUS
  <1> USE DbdAssumption DEF ControlInv, ControlType, LockOwner, HaltOwner,
        HaltedAgentHasWaker, Holding, AgentPcs, vars, queueVars, connVars,
        sendVars, histVars, bounds
  <1>1. ASSUME NEW t \in SendTypes, Send(t) PROVE ControlInv'
    <2>1. CASE Overflow(SenderList)
      BY <1>1, <2>1, ControlEnds DEF Send, Fatal
    <2>2. CASE ~Overflow(SenderList)
      <3>1. UNCHANGED <<halt, lock, req>>
        BY <1>1, <2>2 DEF Send
      <3>2. \/ pc' = pc
            \/ pc = "none" /\ pc' = "start"
            \/ pc = "sleep" /\ pc' = "top"
        BY <1>1, <2>2 DEF Send, CreateAgent, WakeSleeper
      <3> QED BY <3>1, <3>2
    <2> QED BY <2>1, <2>2
  <1>2. CASE AgentStart
    BY <1>2 DEF AgentStart
  <1>3. CASE AgentLoop
    BY <1>3 DEF AgentLoop
  <1>4. CASE AgentLock
    BY <1>4 DEF AgentLock
  <1>5. CASE AgentRelock
    BY <1>5 DEF AgentRelock
  <1>6. CASE AgentReconnect
    BY <1>6 DEF AgentReconnect
  <1>7. CASE AgentIdle
    <2>1. CASE Overflow(agent_list)
      BY <1>7, <2>1, ControlEnds DEF AgentIdle, Fatal
    <2>2. CASE ~Overflow(agent_list)
      BY <1>7, <2>2 DEF AgentIdle
    <2> QED BY <2>1, <2>2
  <1>8. CASE AgentTimeout
    BY <1>8 DEF AgentTimeout
  <1>9. CASE AgentTake
    BY <1>9 DEF AgentTake
  <1>10. CASE AgentSent
    BY <1>10 DEF AgentSent
  <1>11. CASE AgentSendFailed
    BY <1>11 DEF AgentSendFailed
  <1>12. CASE AgentMultReply
    BY <1>12 DEF AgentMultReply, Answered
  <1>13. CASE AgentSingleReply
    BY <1>13 DEF AgentSingleReply, Answered
  <1>14. CASE AgentReplyLost
    BY <1>14 DEF AgentReplyLost
  <1>15. CASE AgentHeavy
    <2>1. CASE Overflow(agent_list)
      BY <1>15, <2>1, ControlEnds DEF AgentHeavy, Fatal
    <2>2. CASE ~Overflow(agent_list)
      BY <1>15, <2>2 DEF AgentHeavy, ScriptDone
    <2> QED BY <2>1, <2>2
  <1>16. CASE AgentFinish
    BY <1>16 DEF AgentFinish
  <1>17. CASE AgentExit
    BY <1>17 DEF AgentExit
  <1>18. CASE SendNullConn \/ AgentNullConn \/ MainReturns
    BY <1>18, ControlEnds DEF SendNullConn, AgentNullConn, MainReturns, Dies
  <1>19. CASE DbdProcess
    BY <1>19 DEF DbdProcess
  <1>20. CASE FailExpires
    BY <1>20 DEF FailExpires
  <1>21. ASSUME NEW r \in Requesters, ReqHalt(r) PROVE ControlInv'
    BY <1>21 DEF ReqHalt
  <1>22. ASSUME NEW r \in Requesters, ReqLock(r) PROVE ControlInv'
    BY <1>22 DEF ReqLock, ClearHalt
  <1>23. ASSUME NEW r \in Requesters, ReqRpc(r) PROVE ControlInv'
    BY <1>23 DEF ReqRpc, SignalHalted
  <1>24. CASE OpenConn
    BY <1>24 DEF OpenConn
  <1>25. CASE SetConnAgent
    BY <1>25 DEF SetConnAgent, CreateAgent
  <1>26. CASE ShutdownAgent
    BY <1>26 DEF ShutdownAgent
  <1>27. CASE ShutdownWake
    BY <1>27 DEF ShutdownWake, WakeSleeper
  <1>28. CASE ShutdownJoin
    BY <1>28 DEF ShutdownJoin
  <1>29. CASE RemConn
    BY <1>29 DEF RemConn
  <1>30. CASE Crash
    BY <1>30, ControlEnds DEF Crash, Dies
  <1>31. CASE Terminated \/ UNCHANGED vars
    BY <1>31 DEF Terminated
  <1>32. CASE AgentJobLock \/ AgentJobGone
    BY <1>32 DEF AgentJobLock, AgentJobGone, ScriptDone
  <1> QED
    BY <1>32, <1>1, <1>2, <1>3, <1>4, <1>5, <1>6, <1>7, <1>8, <1>9, <1>10, <1>11,
       <1>12, <1>13, <1>14, <1>15, <1>16, <1>17, <1>18, <1>19, <1>20, <1>21,
       <1>22, <1>23, <1>24, <1>25, <1>26, <1>27, <1>28, <1>29, <1>30, <1>31
       DEF Next, AgentNext, ReqNext, MainNext

\* slurmdbd_agent_send_recv: an agent that waits on slurmdbd_cond always has a
\* requester on the way that will signal it, however many there are.
THEOREM HaltedIsWoken == Spec => []HaltedAgentHasWaker
  <1>1. ControlInv => HaltedAgentHasWaker
    BY DEF ControlInv
  <1> QED
    BY <1>1, ControlInit, ControlStep, PTL DEF Spec

-----------------------------------------------------------------------------
(* The limit of the queue.  No invariant is needed: each step on its own     *)
(* keeps to it, whatever the queue was.                                      *)

LEMMA LimitFatal ==
    ASSUME NEW q \in Seq(Msg), NoLonger(q), NEW also, Fatal(q, also), DataType
    PROVE  WithinLimit
  <1>1. PICK k \in Saveable(q) : SaveDbdState(q, k) /\ ProcessEnds
    BY DEF Fatal
  <1>2. k \in 0..Len(q) /\ Len(q) \in Nat /\ MaxDbdMsgs \in Nat
        /\ Len(agent_list) \in Nat /\ Len(file) \in Nat
    BY DbdAssumption DEF Saveable, DataType
  <1>3. Len(file') = k
    BY <1>1, <1>2, Prefix DEF SaveDbdState
  <1>4. Len(agent_list') = 0
    BY <1>1 DEF ProcessEnds
  <1> QED BY <1>2, <1>3, <1>4 DEF WithinLimit, NoLonger

LEMMA LimitEnqueue ==
    ASSUME DataType, NEW t \in MsgTypes, Enqueue(t), file' = file
    PROVE  WithinLimit
  <1> DEFINE q == Purge(SenderList)
             m == [id |-> nextId, type |-> t]
  <1>1. SenderList \in Seq(Msg) /\ NoLonger(SenderList)
    <2>1. Len(agent_list) \in Nat /\ Len(file) \in Nat
      BY DEF DataType
    <2> QED BY <2>1 DEF SenderList, DataType, NoLonger
  <1>2. q \in Seq(Msg) /\ Len(q) <= Len(SenderList)
    BY <1>1, PurgeType
  <1>3. agent_list' = IF Fits(q) THEN Place(q, m) ELSE q
    BY DEF Enqueue
  <1> HIDE DEF q, m
  <1>4. Len(q) \in Nat /\ Len(SenderList) \in Nat /\ MaxDbdMsgs \in Nat
        /\ Len(agent_list) \in Nat /\ Len(file) \in Nat
    BY <1>1, <1>2, DbdAssumption DEF DataType
  <1>5. Len(Append(q, m)) = Len(q) + 1
    BY <1>2
  <1>6. CASE Fits(q)
    <2>1. Len(agent_list') <= MaxDbdMsgs
      BY <1>3, <1>4, <1>5, <1>6 DEF Fits, Place
    <2> QED BY <2>1 DEF WithinLimit
  <1>7. CASE ~Fits(q)
    <2>1. NoLonger(agent_list')
      BY <1>1, <1>2, <1>3, <1>4, <1>7 DEF NoLonger
    <2> QED BY <2>1 DEF WithinLimit
  <1> QED BY <1>6, <1>7

LEMMA LimitStep ==
    ASSUME DataType, [Next]_vars
    PROVE  WithinLimit
  <1>0. /\ agent_list \in Seq(Msg) /\ file \in Seq(Msg) /\ SenderList \in Seq(Msg)
        /\ Len(agent_list) \in Nat /\ Len(file) \in Nat /\ MaxDbdMsgs \in Nat
    BY DbdAssumption DEF DataType, SenderList
  <1>1. NoLonger(agent_list) /\ NoLonger(SenderList)
    BY <1>0 DEF NoLonger, SenderList
  <1>2. CASE UNCHANGED queueVars
    BY <1>1, <1>2 DEF WithinLimit, NoLonger, queueVars
  <1>3. ASSUME NEW t \in SendTypes, Send(t) PROVE WithinLimit
    <2>1. t \in MsgTypes
      BY DbdAssumption
    <2>2. CASE Overflow(SenderList)
      BY <1>0, <1>1, <1>3, <2>2, LimitFatal DEF Send
    <2>3. CASE ~Overflow(SenderList)
      BY <1>3, <2>1, <2>3, LimitEnqueue DEF Send
    <2> QED BY <2>2, <2>3
  <1>4. CASE AgentIdle
    <2>1. CASE Overflow(agent_list)
      BY <1>0, <1>1, <1>4, <2>1, LimitFatal DEF AgentIdle
    <2>2. CASE ~Overflow(agent_list)
      <3>1. agent_list' = Purge(agent_list) /\ file' = file
        BY <1>4, <2>2 DEF AgentIdle
      <3>2. Len(Purge(agent_list)) <= Len(agent_list)
        BY <1>0, PurgeType
      <3> QED BY <3>1, <3>2 DEF WithinLimit, NoLonger
    <2> QED BY <2>1, <2>2
  <1>5. CASE AgentMultReply
    <2>1. reply \in Nat /\ file' = file
          /\ agent_list' = SubSeq(agent_list, reply + 1, Len(agent_list))
      BY <1>5 DEF AgentMultReply, AfterMultReply, DataType, NoReply
    <2>2. Len(agent_list') <= Len(agent_list)
      BY <1>0, <2>1
    <2> QED BY <2>1, <2>2 DEF WithinLimit, NoLonger
  <1>6. CASE AgentFinish
    <2>1. file' = file /\ agent_list' = AfterRpc
      BY <1>6 DEF AgentFinish
    <2>2. agent_list # <<>> => Len(Tail(agent_list)) = Len(agent_list) - 1
      BY <1>0
    <2>3. Len(AfterRpc) <= Len(agent_list)
      BY <1>0, <2>2 DEF AfterRpc
    <2> QED BY <2>1, <2>3 DEF WithinLimit, NoLonger
  <1>7. CASE AgentHeavy
    <2>1. "other" \in MsgTypes
      BY DEF MsgTypes
    <2>2. CASE Overflow(agent_list)
      BY <1>0, <1>1, <1>7, <2>2, LimitFatal DEF AgentHeavy
    <2>3. CASE ~Overflow(agent_list)
      BY <1>7, <2>1, <2>3, LimitEnqueue DEF AgentHeavy
    <2> QED BY <2>2, <2>3
  <1>8. CASE AgentExit
    <2>1. PICK k \in Saveable(agent_list) : SaveDbdState(agent_list, k)
      BY <1>8 DEF AgentExit
    <2>2. k \in 0..Len(agent_list) /\ Len(file') = k
      BY <1>0, <2>1, Prefix DEF Saveable, SaveDbdState
    <2>3. Len(agent_list') = 0
      BY <1>8 DEF AgentExit
    <2> QED BY <1>0, <2>2, <2>3 DEF WithinLimit, NoLonger
  <1>9. CASE SendNullConn \/ AgentNullConn \/ MainReturns \/ Crash
    <2>1. file' = file /\ Len(agent_list') = 0
      BY <1>9 DEF SendNullConn, AgentNullConn, MainReturns, Crash, Dies, ProcessEnds
    <2> QED BY <1>0, <2>1 DEF WithinLimit
  <1>10. CASE SetConnAgent
    <2>1. file' = file /\ phase = "opening"
          /\ agent_list' \in {SenderList, agent_list \o file}
      BY <1>10 DEF SetConnAgent
    <2> QED BY <1>1, <2>1 DEF WithinLimit
  <1>11. CASE AgentStart \/ AgentLoop \/ AgentLock \/ AgentRelock \/ AgentReconnect
              \/ AgentTimeout \/ AgentTake \/ AgentSent \/ AgentSendFailed
              \/ AgentSingleReply \/ AgentReplyLost \/ AgentJobLock \/ AgentJobGone
    BY <1>2, <1>11
       DEF AgentStart, AgentLoop, AgentLock, AgentRelock, AgentReconnect, AgentTimeout,
           AgentTake, AgentSent, AgentSendFailed, AgentSingleReply, AgentReplyLost,
           AgentJobLock, AgentJobGone
  <1>12. CASE DbdProcess \/ FailExpires \/ OpenConn \/ ShutdownAgent \/ ShutdownWake
              \/ ShutdownJoin \/ RemConn \/ Terminated \/ UNCHANGED vars
    BY <1>2, <1>12
       DEF DbdProcess, FailExpires, OpenConn, ShutdownAgent, ShutdownWake, ShutdownJoin,
           RemConn, Terminated, vars
  <1>13. ASSUME NEW r \in Requesters, ReqNext(r) PROVE WithinLimit
    BY <1>2, <1>13 DEF ReqNext, ReqHalt, ReqLock, ReqRpc
  <1> QED
    BY <1>3, <1>4, <1>5, <1>6, <1>7, <1>8, <1>9, <1>10, <1>11, <1>12, <1>13
       DEF Next, AgentNext, MainNext

\* Nothing but the load of the file behind the queue of an agent that outlived
\* its connection takes the queue beyond MaxDBDMsgs or lets a longer queue grow,
\* whatever max_dbd_msg_action is and whenever the senders send.
THEOREM QueueKeepsLimit == Spec => QueueBounded
  <1>1. TypeOK /\ [Next]_vars => [WithinLimit]_vars
    BY LimitStep DEF TypeOK
  <1> QED BY <1>1, TypeCorrect, PTL DEF Spec, QueueBounded

-----------------------------------------------------------------------------
(* The refinement.  The abstract queue is the list a sender finds: the queue, *)
(* or the file while there is none.                                          *)

Unlisted == ~listed => agent_list = <<>>

LEMMA NumbersOf ==
    ASSUME NEW q \in Seq(Msg)
    PROVE  /\ Numbers(q) \in Seq(Nat) /\ Len(Numbers(q)) = Len(q)
           /\ \A i \in 1..Len(q) : Numbers(q)[i] = q[i].id
           /\ Acct!Members(Numbers(q)) = Ids(q)
  <1>1. DOMAIN q = 1..Len(q) /\ Len(q) \in Nat /\ \A i \in 1..Len(q) : q[i].id \in Nat
    <2>1. DOMAIN q = 1..Len(q) /\ Len(q) \in Nat /\ \A i \in 1..Len(q) : q[i] \in Msg
      OBVIOUS
    <2>2. \A m \in Msg : m.id \in Nat
      BY DEF Msg
    <2> QED BY <2>1, <2>2
  <1>2. Numbers(q) = [i \in 1..Len(q) |-> q[i].id]
    BY <1>1 DEF Numbers
  <1>3. Numbers(q) \in Seq(Nat) /\ Len(Numbers(q)) = Len(q)
    BY <1>1, <1>2
  <1>4. DOMAIN Numbers(q) = 1..Len(q)
    BY <1>2
  <1>5. Acct!Members(Numbers(q)) = {q[i].id : i \in 1..Len(q)}
    BY <1>2, <1>4 DEF Acct!Members
  <1> QED BY <1>2, <1>3, <1>5, IdsDef

LEMMA NoIds ==
    ASSUME NEW q \in Seq(Msg), Len(q) = 0 PROVE Ids(q) = {}
  <1>1. Ids(q) = {q[i].id : i \in 1..Len(q)}
    BY IdsDef
  <1>2. 1..Len(q) = {}
    OBVIOUS
  <1> QED BY <1>1, <1>2

LEMMA NumbersAppend ==
    ASSUME NEW q \in Seq(Msg), NEW m \in Msg
    PROVE  Numbers(Append(q, m)) = Append(Numbers(q), m.id)
  <1> DEFINE s == Append(q, m)
  <1>1. s \in Seq(Msg) /\ Len(s) = Len(q) + 1 /\ s[Len(q) + 1] = m
        /\ Len(q) \in Nat /\ \A i \in 1..Len(q) : s[i] = q[i]
    OBVIOUS
  <1>2. m.id \in Nat
    BY DEF Msg
  <1> HIDE DEF s
  <1>3. /\ Numbers(s) \in Seq(Nat) /\ Len(Numbers(s)) = Len(q) + 1
        /\ Append(Numbers(q), m.id) \in Seq(Nat)
        /\ Len(Append(Numbers(q), m.id)) = Len(q) + 1
    BY <1>1, <1>2, NumbersOf
  <1>4. \A i \in 1..(Len(q) + 1) : Numbers(s)[i] = s[i].id
    BY <1>1, NumbersOf
  <1>5. \A i \in 1..(Len(q) + 1) : Append(Numbers(q), m.id)[i] = s[i].id
    <2>1. Numbers(q) \in Seq(Nat) /\ Len(Numbers(q)) = Len(q)
          /\ \A i \in 1..Len(q) : Numbers(q)[i] = q[i].id
      BY NumbersOf
    <2> QED BY <1>1, <1>2, <2>1
  <1> QED BY <1>3, <1>4, <1>5 DEF s

LEMMA NumbersConcat ==
    ASSUME NEW q \in Seq(Msg), NEW p \in Seq(Msg)
    PROVE  Numbers(q \o p) = Numbers(q) \o Numbers(p)
  <1> DEFINE s == q \o p
             n == Numbers(q)
             m == Numbers(p)
             t == n \o m
             l == Len(q) + Len(p)
  <1>1. /\ Len(q) \in Nat /\ Len(p) \in Nat /\ s \in Seq(Msg) /\ Len(s) = l
        /\ \A i \in 1..l : s[i] = IF i <= Len(q) THEN q[i] ELSE p[i - Len(q)]
    OBVIOUS
  <1>2. /\ n \in Seq(Nat) /\ Len(n) = Len(q) /\ \A i \in 1..Len(q) : n[i] = q[i].id
        /\ m \in Seq(Nat) /\ Len(m) = Len(p) /\ \A i \in 1..Len(p) : m[i] = p[i].id
    BY NumbersOf
  <1> HIDE DEF s, n, m
  <1>3. /\ t \in Seq(Nat) /\ Len(t) = l
        /\ \A i \in 1..l : t[i] = IF i <= Len(q) THEN n[i] ELSE m[i - Len(q)]
    BY <1>1, <1>2
  <1>4. Numbers(s) \in Seq(Nat) /\ Len(Numbers(s)) = l
        /\ \A i \in 1..l : Numbers(s)[i] = s[i].id
    BY <1>1, NumbersOf
  <1> HIDE DEF t
  <1>5. ASSUME NEW i \in 1..l PROVE Numbers(s)[i] = t[i]
    <2>1. CASE i <= Len(q)
      <3>1. i \in 1..Len(q)
        BY <1>1, <2>1
      <3> QED BY <1>1, <1>2, <1>3, <1>4, <2>1, <3>1
    <2>2. CASE ~(i <= Len(q))
      <3>1. i - Len(q) \in 1..Len(p)
        BY <1>1, <2>2
      <3> QED BY <1>1, <1>2, <1>3, <1>4, <2>2, <3>1
    <2> QED BY <2>1, <2>2
  <1>6. Numbers(s) = t
    BY <1>1, <1>3, <1>4, <1>5
  <1> QED BY <1>6 DEF s, n, m, t

\* The numbers of a part of the queue are that part of the numbers.
LEMMA NumbersPrefix ==
    ASSUME NEW q \in Seq(Msg), NEW k \in 0..Len(q)
    PROVE  Numbers(SubSeq(q, 1, k)) = SubSeq(Numbers(q), 1, k)
  <1> DEFINE s == SubSeq(q, 1, k)
             n == Numbers(q)
  <1>1. s \in Seq(Msg) /\ Len(s) = k /\ \A i \in 1..k : s[i] = q[i]
    BY Prefix
  <1>2. n \in Seq(Nat) /\ Len(n) = Len(q) /\ \A i \in 1..Len(q) : n[i] = q[i].id
    BY NumbersOf
  <1> HIDE DEF s, n
  <1>3. Numbers(s) \in Seq(Nat) /\ Len(Numbers(s)) = k
        /\ \A i \in 1..k : Numbers(s)[i] = s[i].id
    BY <1>1, NumbersOf
  <1>4. SubSeq(n, 1, k) \in Seq(Nat) /\ Len(SubSeq(n, 1, k)) = k
        /\ \A i \in 1..k : SubSeq(n, 1, k)[i] = n[i]
    BY <1>2
  <1>5. \A i \in 1..k : Numbers(s)[i] = SubSeq(n, 1, k)[i]
    <2>1. \A i \in 1..k : i \in 1..Len(q)
      OBVIOUS
    <2> QED BY <1>1, <1>2, <1>3, <1>4, <2>1
  <1>6. Numbers(s) = SubSeq(n, 1, k)
    BY <1>3, <1>4, <1>5
  <1> QED BY <1>6 DEF s, n

LEMMA NumbersSuffix ==
    ASSUME NEW q \in Seq(Msg), NEW k \in 0..Len(q)
    PROVE  Numbers(SubSeq(q, k + 1, Len(q))) = SubSeq(Numbers(q), k + 1, Len(q))
  <1> DEFINE s == SubSeq(q, k + 1, Len(q))
             n == Numbers(q)
             l == Len(q) - k
  <1>1. s \in Seq(Msg) /\ Len(s) = l /\ \A i \in 1..l : s[i] = q[k + i]
    BY Suffix
  <1>2. n \in Seq(Nat) /\ Len(n) = Len(q) /\ \A i \in 1..Len(q) : n[i] = q[i].id
    BY NumbersOf
  <1>3. l \in Nat /\ \A i \in 1..l : k + i \in 1..Len(q)
    OBVIOUS
  <1> HIDE DEF s, n
  <1>4. Numbers(s) \in Seq(Nat) /\ Len(Numbers(s)) = l
        /\ \A i \in 1..l : Numbers(s)[i] = s[i].id
    BY <1>1, NumbersOf
  <1>5. SubSeq(n, k + 1, Len(q)) \in Seq(Nat) /\ Len(SubSeq(n, k + 1, Len(q))) = l
        /\ \A i \in 1..l : SubSeq(n, k + 1, Len(q))[i] = n[k + i]
    BY <1>2
  <1>6. \A i \in 1..l : Numbers(s)[i] = SubSeq(n, k + 1, Len(q))[i]
    BY <1>1, <1>2, <1>3, <1>4, <1>5
  <1>7. Numbers(s) = SubSeq(n, k + 1, Len(q))
    BY <1>4, <1>5, <1>6
  <1> QED BY <1>7 DEF s, n

\* Enqueueing is Accept.
LEMMA RefineEnqueue ==
    ASSUME MaxDbdMsgAction = "exit", DataType, NEW t \in MsgTypes, Enqueue(t),
           ~Overflow(SenderList), nextId' = nextId + 1, file' = file,
           delivered' = delivered
    PROVE  Acct!Accept
  <1> DEFINE m == [id |-> nextId, type |-> t]
  <1>1. SenderList \in Seq(Msg) /\ Purge(SenderList) = SenderList /\ m \in Msg
    BY DEF SenderList, Purge, DataType, Msg
  <1>2. Fits(SenderList) /\ Len(SenderList) < MaxDbdMsgs
    <2>1. Len(SenderList) \in Nat /\ MaxDbdMsgs \in Nat
      BY <1>1, DbdAssumption
    <2> QED BY <2>1 DEF Overflow, Fits
  <1>3. agent_list' = Append(SenderList, m) /\ listed' = TRUE /\ lost' = lost
    BY <1>1, <1>2 DEF Enqueue, Place
  <1>4. SenderList' = Append(SenderList, m)
    BY <1>3 DEF SenderList
  <1>5. Numbers(Append(SenderList, m)) = Append(Numbers(SenderList), nextId)
    BY <1>1, NumbersAppend
  <1> HIDE DEF m
  <1>6. Numbers(SenderList') = Append(Numbers(SenderList), nextId)
    BY <1>4, <1>5
  <1>7. Len(Numbers(SenderList)) < MaxDbdMsgs
    BY <1>1, <1>2, NumbersOf
  <1> QED BY <1>3, <1>6, <1>7 DEF Acct!Accept, SenderList, Numbers

\* Saving the queue and forgetting it is Stop.
LEMMA RefineStop ==
    ASSUME DataType, NEW also,
           NEW k \in Saveable(SenderList), SaveDbdState(SenderList, k),
           lost' = lost \cup Unsaved(SenderList, k) \cup also,
           listed' = FALSE, delivered' = delivered,
           nextId' = IF also = {} THEN nextId ELSE nextId + 1,
           also # {} => Len(SenderList) >= MaxDbdMsgs
    PROVE  Acct!Stop(also)
  <1> DEFINE q == SenderList
  <1>1. q \in Seq(Msg)
    BY DEF SenderList, DataType
  <1>2. k \in 0..Len(q) /\ file' = SubSeq(q, 1, k) /\ SenderList' = file'
    BY DEF Saveable, SaveDbdState, SenderList
  <1>3. Unsaved(q, k) = Ids(SubSeq(q, k + 1, Len(q)))
    BY DEF Unsaved
  <1>4. lost' = lost \cup Unsaved(q, k) \cup also /\ (also # {} => Len(q) >= MaxDbdMsgs)
    OBVIOUS
  <1> HIDE DEF q
  <1>5. /\ Len(Numbers(q)) = Len(q)
        /\ Numbers(file') = SubSeq(Numbers(q), 1, k)
        /\ Acct!Members(SubSeq(Numbers(q), k + 1, Len(q))) = Unsaved(q, k)
    <2>1. SubSeq(q, k + 1, Len(q)) \in Seq(Msg)
      BY <1>1, <1>2, Suffix
    <2> QED BY <1>1, <1>2, <1>3, <2>1, NumbersOf, NumbersPrefix, NumbersSuffix
  <1>6. /\ Acct!First(k) = SubSeq(Numbers(q), 1, k)
        /\ Acct!From(k + 1) = SubSeq(Numbers(q), k + 1, Len(Numbers(q)))
    BY DEF Acct!First, Acct!From, q, SenderList
  <1>7. Numbers(IF listed' THEN agent_list' ELSE file') = Numbers(file')
    OBVIOUS
  <1>8. /\ Numbers(file') = Acct!First(k)
        /\ lost' = lost \cup Acct!Members(Acct!From(k + 1)) \cup also
        /\ k \in 0..Len(Numbers(q))
        /\ also # {} => Len(Numbers(q)) >= MaxDbdMsgs
    BY <1>2, <1>4, <1>5, <1>6
  <1> QED BY <1>7, <1>8 DEF Acct!Stop, q, SenderList, Numbers

\* What slurmdbd records of the RPC is Deliver, or nothing.
LEMMA RefineDeliver ==
    ASSUME DataType, listed, IsHead(inflight, agent_list), NEW j \in 0..Len(inflight),
           delivered' = delivered \cup Ids(SubSeq(inflight, 1, j)),
           UNCHANGED <<agent_list, listed, file, nextId, lost>>
    PROVE  Acct!Deliver \/ UNCHANGED Acct!vars
  <1>1. agent_list \in Seq(Msg) /\ inflight \in Seq(Msg)
        /\ Len(agent_list) \in Nat /\ Len(inflight) \in Nat
    BY DEF DataType
  <1>2. j \in 0..Len(agent_list)
    BY <1>1 DEF IsHead
  <1>3. SubSeq(inflight, 1, j) = SubSeq(agent_list, 1, j)
    <2>1. /\ SubSeq(inflight, 1, j) \in Seq(Msg) /\ Len(SubSeq(inflight, 1, j)) = j
          /\ \A i \in 1..j : SubSeq(inflight, 1, j)[i] = inflight[i]
      BY <1>1, Prefix
    <2>2. /\ SubSeq(agent_list, 1, j) \in Seq(Msg) /\ Len(SubSeq(agent_list, 1, j)) = j
          /\ \A i \in 1..j : SubSeq(agent_list, 1, j)[i] = agent_list[i]
      BY <1>1, <1>2, Prefix
    <2>3. \A i \in 1..j : inflight[i] = agent_list[i]
      BY <1>1 DEF IsHead
    <2>4. \A i \in 1..j : SubSeq(inflight, 1, j)[i] = SubSeq(agent_list, 1, j)[i]
      BY <2>1, <2>2, <2>3
    <2> QED BY <2>1, <2>2, <2>4
  <1>4. delivered' = delivered \cup Acct!Members(Acct!First(j))
    <2>1. SubSeq(agent_list, 1, j) \in Seq(Msg)
      BY <1>1, <1>2, Prefix
    <2>2. Acct!First(j) = Numbers(SubSeq(agent_list, 1, j))
      BY <1>1, <1>2, NumbersPrefix DEF Acct!First
    <2> QED BY <1>3, <2>1, <2>2, NumbersOf
  <1>5. CASE j > 0
    <2>1. j \in 1..Len(Numbers(agent_list))
      BY <1>1, <1>2, <1>5, NumbersOf
    <2> QED BY <1>4, <2>1 DEF Acct!Deliver, Numbers
  <1>6. CASE j = 0
    <2>1. Ids(SubSeq(inflight, 1, 0)) = {}
      <3>1. SubSeq(inflight, 1, 0) \in Seq(Msg) /\ Len(SubSeq(inflight, 1, 0)) = 0
        BY <1>1
      <3> QED BY <3>1, NoIds
    <2>2. delivered' = delivered
      BY <1>6, <2>1
    <2> QED BY <2>2 DEF Acct!vars, Numbers
  <1> QED BY <1>5, <1>6

\* Messages taken off the head are Remove, or nothing.
LEMMA RefineRemove ==
    ASSUME DataType, listed, NEW k \in 0..Len(agent_list),
           \A i \in 1..k : agent_list[i].id \in delivered,
           agent_list' = SubSeq(agent_list, k + 1, Len(agent_list)),
           UNCHANGED <<listed, file, nextId, delivered, lost>>
    PROVE  Acct!Remove \/ UNCHANGED Acct!vars
  <1>1. agent_list \in Seq(Msg) /\ Len(agent_list) \in Nat
    BY DEF DataType
  <1>2. Len(Numbers(agent_list)) = Len(agent_list)
    BY <1>1, NumbersOf
  <1>3. Numbers(agent_list') = Acct!From(k + 1)
    <2>1. Acct!From(k + 1) = SubSeq(Numbers(agent_list), k + 1, Len(agent_list))
      BY <1>2 DEF Acct!From
    <2> QED BY <1>1, <2>1, NumbersSuffix
  <1>4. Acct!Members(Acct!First(k)) \subseteq delivered
    <2> DEFINE s == SubSeq(agent_list, 1, k)
    <2>1. s \in Seq(Msg) /\ Len(s) = k /\ \A i \in 1..k : s[i] = agent_list[i]
      BY <1>1, Prefix
    <2>2. Acct!First(k) = Numbers(s)
      BY <1>1, NumbersPrefix DEF Acct!First
    <2> HIDE DEF s
    <2>3. Ids(s) \subseteq delivered
      BY <2>1, IdsDef
    <2> QED BY <2>1, <2>2, <2>3, NumbersOf
  <1>5. CASE k > 0
    <2>1. k \in 1..Len(Numbers(agent_list))
      BY <1>1, <1>2, <1>5
    <2> QED BY <1>3, <1>4, <2>1 DEF Acct!Remove, Numbers
  <1>6. CASE k = 0
    <2>1. agent_list' = agent_list
      BY <1>1, <1>6
    <2> QED BY <2>1 DEF Acct!vars, Numbers
  <1> QED BY <1>5, <1>6

\* The file is loaded behind the queue: Reload.
LEMMA RefineReload ==
    ASSUME DataType, listed, agent_list' = agent_list \o file,
           UNCHANGED <<listed, file, nextId, delivered, lost>>
    PROVE  Acct!Reload
  <1>1. agent_list \in Seq(Msg) /\ file \in Seq(Msg)
    BY DEF DataType
  <1>2. Numbers(agent_list \o file) = Numbers(agent_list) \o Numbers(file)
    BY <1>1, NumbersConcat
  <1> QED BY <1>2 DEF Acct!Reload, Numbers

\* Memory is gone: Crash.
LEMMA RefineCrash ==
    ASSUME DataType, Unlisted, NEW also, Dies(also),
           nextId' = IF also = {} THEN nextId ELSE nextId + 1
    PROVE  Acct!Crash(also)
  <1>1. agent_list \in Seq(Msg) /\ file \in Seq(Msg)
    BY DEF DataType
  <1>2. Acct!Members(Numbers(file)) = Ids(file)
        /\ Acct!Members(Numbers(agent_list)) = Ids(agent_list)
    BY <1>1, NumbersOf
  <1>3. ~listed => Ids(agent_list) = {}
    BY <1>1, NoIds DEF Unlisted
  <1>4. lost' = lost \cup (Acct!Members(Numbers(SenderList)) \ Acct!Members(Numbers(file)))
                    \cup also
    BY <1>2, <1>3 DEF SenderList, Dies
  <1>5. listed' = FALSE /\ file' = file /\ delivered' = delivered
    BY DEF Dies, ProcessEnds
  <1> QED BY <1>4, <1>5 DEF Acct!Crash, SenderList, Numbers

LEMMA UnlistedStep ==
    ASSUME Listed, Unlisted, [Next]_vars
    PROVE  Unlisted'
  <1> USE DEF Unlisted, Listed, AgentAlive, AgentPcs, queueVars
  <1>1. ASSUME NEW t \in SendTypes, Send(t) PROVE Unlisted'
    BY <1>1 DEF Send, Fatal, ProcessEnds, Enqueue
  <1>2. CASE AgentIdle \/ AgentHeavy
    BY <1>2 DEF AgentIdle, AgentHeavy, Fatal, ProcessEnds, Enqueue, Purge
  <1>3. CASE AgentMultReply \/ AgentFinish
    BY <1>3 DEF AgentMultReply, AgentFinish, AfterMultReply, AfterRpc
  <1>4. CASE AgentExit \/ SendNullConn \/ AgentNullConn \/ MainReturns \/ Crash
             \/ SetConnAgent
    BY <1>4 DEF AgentExit, SendNullConn, AgentNullConn, MainReturns, Crash,
       SetConnAgent, Dies, ProcessEnds
  <1>5. CASE AgentStart \/ AgentLoop \/ AgentLock \/ AgentRelock \/ AgentReconnect
             \/ AgentTimeout \/ AgentTake \/ AgentSent \/ AgentSendFailed
             \/ AgentSingleReply \/ AgentReplyLost \/ AgentJobLock \/ AgentJobGone
    BY <1>5
       DEF AgentStart, AgentLoop, AgentLock, AgentRelock, AgentReconnect, AgentTimeout,
           AgentTake, AgentSent, AgentSendFailed, AgentSingleReply, AgentReplyLost,
           AgentJobLock, AgentJobGone
  <1>6. CASE DbdProcess \/ FailExpires \/ OpenConn \/ ShutdownAgent \/ ShutdownWake
              \/ ShutdownJoin \/ RemConn \/ Terminated \/ UNCHANGED vars
    BY <1>6
       DEF DbdProcess, FailExpires, OpenConn, ShutdownAgent, ShutdownWake, ShutdownJoin,
           RemConn, Terminated, vars
  <1>7. ASSUME NEW r \in Requesters, ReqNext(r) PROVE Unlisted'
    BY <1>7 DEF ReqNext, ReqHalt, ReqLock, ReqRpc
  <1> QED
    BY <1>1, <1>2, <1>3, <1>4, <1>5, <1>6, <1>7 DEF Next, AgentNext, MainNext
\* Every step of the agent is a step of the abstract queue, or none.
LEMMA RefineStep ==
    ASSUME MaxDbdMsgAction = "exit", DataType, MsgInv, Unlisted, [Next]_vars
    PROVE  [Acct!Next]_(Acct!vars)
  <1>0. SenderList \in Seq(Msg) /\ Len(SenderList) \in Nat
    BY DEF DataType, SenderList
  <1>1. CASE UNCHANGED <<queueVars, histVars>>
    BY <1>1 DEF Acct!vars, Numbers, queueVars, histVars
  <1>2. ASSUME NEW t \in SendTypes, Send(t) PROVE [Acct!Next]_(Acct!vars)
    <2>1. t \in MsgTypes /\ nextId' = nextId + 1 /\ delivered' = delivered
      BY <1>2, DbdAssumption DEF Send
    <2>2. CASE Overflow(SenderList)
      <3>1. PICK k \in Saveable(SenderList) :
                /\ SaveDbdState(SenderList, k)
                /\ lost' = lost \cup Unsaved(SenderList, k) \cup {nextId}
                /\ ProcessEnds
        BY <1>2, <2>2 DEF Send, Fatal
      <3>2. Len(SenderList) >= MaxDbdMsgs /\ listed' = FALSE
        BY <2>2, <3>1 DEF Overflow, ProcessEnds
      <3>3. Acct!Stop({nextId})
        BY <2>1, <3>1, <3>2, RefineStop
      <3> QED BY <3>3 DEF Acct!Next
    <2>3. CASE ~Overflow(SenderList)
      BY <1>2, <2>1, <2>3, RefineEnqueue DEF Send, Acct!Next
    <2> QED BY <2>2, <2>3
  <1>3. CASE AgentIdle
    <2>1. SenderList = agent_list
      BY <1>3 DEF AgentIdle, MsgInv, Listed, AgentAlive, AgentPcs, SenderList
    <2>2. CASE Overflow(agent_list)
      <3>1. PICK k \in Saveable(agent_list) :
                /\ SaveDbdState(agent_list, k)
                /\ lost' = lost \cup Unsaved(agent_list, k) \cup {}
                /\ ProcessEnds
        BY <1>3, <2>2 DEF AgentIdle, Fatal
      <3>2. listed' = FALSE /\ nextId' = nextId /\ delivered' = delivered
        BY <1>3, <3>1 DEF AgentIdle, ProcessEnds
      <3>3. Acct!Stop({})
        BY <2>1, <3>1, <3>2, RefineStop
      <3> QED BY <3>3 DEF Acct!Next
    <2>3. CASE ~Overflow(agent_list)
      <3>1. agent_list' = agent_list /\ lost' = lost
        BY <1>3, <2>3 DEF AgentIdle, Purge
      <3> QED BY <1>1, <1>3, <2>3, <3>1 DEF AgentIdle, queueVars, histVars
    <2> QED BY <2>2, <2>3
  <1>4. CASE AgentMultReply
    <2>1. pc = "recv" /\ listed
          /\ agent_list' = SubSeq(agent_list, reply + 1, Len(agent_list))
          /\ UNCHANGED <<listed, file, nextId, delivered, lost>>
      BY <1>4 DEF AgentMultReply, AfterMultReply, histVars, MsgInv, Listed, AgentAlive,
         AgentPcs
    <2>2. reply \in 0..Len(agent_list) /\ \A i \in 1..reply : agent_list[i].id \in delivered
      <3>1. reply \in 0..Len(inflight)
        BY <1>4 DEF AgentMultReply, DataType, NoReply
      <3>2. IsHead(inflight, agent_list)
            /\ \A i \in 1..reply : inflight[i].id \in delivered
        BY <2>1 DEF MsgInv, InFlightQueued, RpcInv
      <3>3. Len(inflight) \in Nat /\ Len(agent_list) \in Nat
        BY DEF DataType
      <3>4. reply \in 0..Len(agent_list)
        BY <3>1, <3>2, <3>3 DEF IsHead
      <3>5. \A i \in 1..reply : inflight[i] = agent_list[i]
        BY <3>1, <3>2, <3>3 DEF IsHead
      <3> QED BY <3>2, <3>4, <3>5
    <2> QED BY <2>1, <2>2, RefineRemove DEF Acct!Next
  <1>5. CASE AgentFinish
    <2>1. pc = "finish" /\ listed /\ agent_list' = AfterRpc
          /\ UNCHANGED <<listed, file, nextId, delivered, lost>>
      BY <1>5 DEF AgentFinish, histVars, MsgInv, Listed, AgentAlive, AgentPcs
    <2>2. CASE ok /\ ~mult /\ agent_list # <<>>
      <3>1. agent_list[1].id \in delivered
        BY <2>1, <2>2 DEF MsgInv, InFlightQueued, RpcInv, IsHead
      <3>2. agent_list \in Seq(Msg)
        BY DEF DataType
      <3>3. 1 \in 0..Len(agent_list) /\ Tail(agent_list) = SubSeq(agent_list, 1 + 1, Len(agent_list))
        BY <2>2, <3>2
      <3>4. \A i \in 1..1 : agent_list[i].id \in delivered
        BY <3>1
      <3>5. agent_list' = SubSeq(agent_list, 1 + 1, Len(agent_list))
        BY <2>1, <2>2, <3>3 DEF AfterRpc
      <3> QED BY <2>1, <3>3, <3>4, <3>5, RefineRemove DEF Acct!Next
    <2>3. CASE ~(ok /\ ~mult /\ agent_list # <<>>)
      BY <1>1, <2>1, <2>3 DEF AfterRpc, queueVars, histVars
    <2> QED BY <2>2, <2>3
  <1>6. CASE AgentReplyLost \/ DbdProcess
    <2>1. pc = "recv" /\ UNCHANGED <<agent_list, listed, file, nextId, lost>>
      BY <1>6 DEF AgentReplyLost, DbdProcess, queueVars
    <2>2. PICK j \in 0..Len(inflight) :
              delivered' = delivered \cup Ids(SubSeq(inflight, 1, j))
      BY <1>6 DEF AgentReplyLost, DbdProcess
    <2>3. listed /\ IsHead(inflight, agent_list)
      BY <2>1 DEF MsgInv, InFlightQueued, Listed, AgentAlive, AgentPcs
    <2> QED BY <2>1, <2>2, <2>3, RefineDeliver DEF Acct!Next
  <1>7. CASE AgentHeavy
    <2>1. "other" \in MsgTypes /\ nextId' = nextId + 1 /\ delivered' = delivered
          /\ SenderList = agent_list
      BY <1>7 DEF AgentHeavy, MsgTypes, MsgInv, Listed, AgentAlive, AgentPcs, SenderList
    <2>2. CASE Overflow(agent_list)
      <3>1. PICK k \in Saveable(agent_list) :
                /\ SaveDbdState(agent_list, k)
                /\ lost' = lost \cup Unsaved(agent_list, k) \cup {nextId}
                /\ ProcessEnds
        BY <1>7, <2>2 DEF AgentHeavy, Fatal
      <3>2. Len(agent_list) >= MaxDbdMsgs /\ listed' = FALSE
        BY <2>2, <3>1 DEF Overflow, ProcessEnds
      <3>3. Acct!Stop({nextId})
        BY <2>1, <3>1, <3>2, RefineStop
      <3> QED BY <3>3 DEF Acct!Next
    <2>3. CASE ~Overflow(agent_list)
      BY <1>7, <2>1, <2>3, RefineEnqueue DEF AgentHeavy, Acct!Next
    <2> QED BY <2>2, <2>3
  <1>8. CASE AgentExit
    <2>1. SenderList = agent_list
      BY <1>8 DEF AgentExit, MsgInv, Listed, AgentAlive, AgentPcs, SenderList
    <2>2. PICK k \in Saveable(agent_list) :
              /\ SaveDbdState(agent_list, k)
              /\ lost' = lost \cup Unsaved(agent_list, k)
      BY <1>8 DEF AgentExit
    <2>3. listed' = FALSE /\ nextId' = nextId /\ delivered' = delivered
          /\ lost' = lost \cup Unsaved(agent_list, k) \cup {}
      BY <1>8, <2>2 DEF AgentExit
    <2>4. Acct!Stop({})
      BY <2>1, <2>2, <2>3, RefineStop
    <2> QED BY <2>4 DEF Acct!Next
  <1>9. CASE SendNullConn \/ AgentNullConn \/ MainReturns \/ Crash
    <2>1. PICK also \in {{}, {nextId}} :
              Dies(also) /\ nextId' = IF also = {} THEN nextId ELSE nextId + 1
      BY <1>9 DEF SendNullConn, AgentNullConn, MainReturns, Crash
    <2>2. Acct!Crash(also)
      BY <2>1, RefineCrash
    <2> QED BY <2>2 DEF Acct!Next
  <1>10. CASE SetConnAgent
    <2>1. UNCHANGED <<file, nextId, delivered, lost>>
      BY <1>10 DEF SetConnAgent, histVars
    <2>2. CASE pc = "none" \/ ~listed
      <3>1. agent_list' = SenderList /\ listed' = TRUE
        BY <1>10, <2>2 DEF SetConnAgent
      <3> QED BY <2>1, <3>1 DEF Acct!vars, SenderList, Numbers
    <2>3. CASE ~(pc = "none" \/ ~listed)
      BY <1>10, <2>1, <2>3, RefineReload DEF SetConnAgent, Acct!Next
    <2> QED BY <2>2, <2>3
  <1>11. CASE AgentStart \/ AgentLoop \/ AgentLock \/ AgentRelock \/ AgentReconnect
              \/ AgentTimeout \/ AgentTake \/ AgentSent \/ AgentSendFailed
              \/ AgentSingleReply \/ AgentJobLock \/ AgentJobGone
    BY <1>1, <1>11
       DEF AgentStart, AgentLoop, AgentLock, AgentRelock, AgentReconnect, AgentTimeout,
           AgentTake, AgentSent, AgentSendFailed, AgentSingleReply, AgentJobLock,
           AgentJobGone
  <1>12. CASE FailExpires \/ OpenConn \/ ShutdownAgent \/ ShutdownWake \/ ShutdownJoin
              \/ RemConn \/ Terminated \/ UNCHANGED vars
    BY <1>1, <1>12
       DEF FailExpires, OpenConn, ShutdownAgent, ShutdownWake, ShutdownJoin, RemConn,
           Terminated, vars
  <1>13. ASSUME NEW r \in Requesters, ReqNext(r) PROVE [Acct!Next]_(Acct!vars)
    BY <1>1, <1>13 DEF ReqNext, ReqHalt, ReqLock, ReqRpc
  <1> QED
    BY <1>2, <1>3, <1>4, <1>5, <1>6, <1>7, <1>8, <1>9, <1>10, <1>11, <1>12, <1>13
       DEF Next, AgentNext, MainNext

\* With max_dbd_msg_action=exit slurmdbd_agent.c is the queue of AcctQueue:
\* delivered in order and at least once, saved when it stops and lost in part when
\* it crashes; for every limit, batch size, and number of threads, faults and
\* crashes, and with senders that come while the connection is closed or after.
THEOREM AgentImplementsQueue ==
    ASSUME MaxDbdMsgAction = "exit"
    PROVE  Spec => ImplementsAcctQueue
  <1> DEFINE Inv == PlaceType /\ DataType /\ MsgInv
  <1>1. Init => Acct!Init
    <2> SUFFICES ASSUME Init PROVE Acct!Init
      OBVIOUS
    <2>1. Numbers(<<>>) = <<>>
      BY DEF Numbers
    <2> QED BY <2>1 DEF Init, Acct!Init
  <1>2. Init => Unlisted
    BY DEF Init, Unlisted
  <1>3. Inv /\ Unlisted /\ [Next]_vars => Unlisted'
    BY UnlistedStep DEF MsgInv
  <1>4. Inv /\ Unlisted /\ [Next]_vars => [Acct!Next]_(Acct!vars)
    BY RefineStep
  <1> QED
    BY <1>1, <1>2, <1>3, <1>4, MsgInvariant, PTL
       DEF Spec, ImplementsAcctQueue, Acct!Spec
=============================================================================
