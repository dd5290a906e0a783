-------------------------- MODULE DbdAgentMsgProofs --------------------------
(***************************************************************************)
(* Proofs about the messages of DbdAgent, for any queue limit, batch size  *)
(* and number of threads, faults and crashes.  Type correctness needs no   *)
(* more.  The rest is about max_dbd_msg_action=exit, the setting under     *)
(* which _max_dbd_msg_action never removes a message from the queue behind *)
(* the agent's back: what is being sent stays at the head of the queue, no *)
(* message vanishes, and none overtakes another.                           *)
(***************************************************************************)
EXTENDS DbdAgent, SubsequencesProofs, TLAPS

-----------------------------------------------------------------------------
(* Sequences of messages. *)

\* A prefix of a queue (SubSeq in _save_dbd_state, _get_my_list).
LEMMA Prefix ==
    ASSUME NEW q \in Seq(Msg), NEW k \in 0..Len(q)
    PROVE  /\ SubSeq(q, 1, k) \in Seq(Msg)
           /\ Len(SubSeq(q, 1, k)) = k
           /\ \A i \in 1..k : SubSeq(q, 1, k)[i] = q[i]
  OBVIOUS

\* What follows it.
LEMMA Suffix ==
    ASSUME NEW q \in Seq(Msg), NEW k \in 0..Len(q)
    PROVE  /\ SubSeq(q, k + 1, Len(q)) \in Seq(Msg)
           /\ Len(SubSeq(q, k + 1, Len(q))) = Len(q) - k
           /\ \A i \in 1..(Len(q) - k) : SubSeq(q, k + 1, Len(q))[i] = q[k + i]
  OBVIOUS

LEMMA IdsDef ==
    ASSUME NEW q \in Seq(Msg)
    PROVE  /\ Ids(q) = {q[i].id : i \in 1..Len(q)}
           /\ Ids(q) \subseteq Nat
  <1>1. DOMAIN q = 1..Len(q)
    OBVIOUS
  <1>2. \A i \in 1..Len(q) : q[i] \in Msg
    OBVIOUS
  <1>3. Ids(q) = {q[i].id : i \in 1..Len(q)}
    BY <1>1 DEF Ids
  <1>4. \A i \in 1..Len(q) : q[i].id \in Nat
    BY <1>2 DEF Msg
  <1> QED BY <1>3, <1>4

\* Cutting a queue in two loses no message.
LEMMA IdsCut ==
    ASSUME NEW q \in Seq(Msg), NEW k \in 0..Len(q), NEW x \in Ids(q)
    PROVE  \/ \E i \in 1..k : x = q[i].id
           \/ x \in Ids(SubSeq(q, k + 1, Len(q)))
  <1> DEFINE s == SubSeq(q, k + 1, Len(q))
  <1>1. PICK i \in 1..Len(q) : x = q[i].id
    BY IdsDef
  <1>2. s \in Seq(Msg) /\ Len(s) = Len(q) - k
        /\ \A j \in 1..(Len(q) - k) : s[j] = q[k + j]
    BY Suffix
  <1>3. CASE i > k
    <2>1. i - k \in 1..Len(s) /\ s[i - k] = q[i]
      BY <1>2, <1>3
    <2>2. q[i].id \in {s[j].id : j \in 1..Len(s)}
      BY <2>1
    <2> QED BY <1>1, <1>2, <2>2, IdsDef
  <1> QED BY <1>1, <1>3

\* The messages of a prefix.
LEMMA IdsPrefix ==
    ASSUME NEW q \in Seq(Msg), NEW k \in 0..Len(q)
    PROVE  \A i \in 1..k : q[i].id \in Ids(SubSeq(q, 1, k))
  <1> DEFINE s == SubSeq(q, 1, k)
  <1>1. s \in Seq(Msg) /\ Len(s) = k /\ \A i \in 1..k : s[i] = q[i]
    BY Prefix
  <1>2. Ids(s) = {s[i].id : i \in 1..Len(s)}
    BY <1>1, IdsDef
  <1> QED BY <1>1, <1>2

\* Enqueueing keeps every message and adds one.
LEMMA IdsAppend ==
    ASSUME NEW q \in Seq(Msg), NEW m \in Msg
    PROVE  /\ Append(q, m) \in Seq(Msg)
           /\ Ids(q) \subseteq Ids(Append(q, m))
           /\ m.id \in Ids(Append(q, m))
           /\ IsHead(q, Append(q, m))
  <1>1. /\ Append(q, m) \in Seq(Msg)
        /\ Len(Append(q, m)) = Len(q) + 1
        /\ \A i \in 1..Len(q) : Append(q, m)[i] = q[i]
        /\ Append(q, m)[Len(q) + 1] = m
    OBVIOUS
  <1>2. \A i \in 1..(Len(q) + 1) : Append(q, m)[i].id \in Ids(Append(q, m))
    BY <1>1, IdsDef
  <1>3. Ids(q) \subseteq Ids(Append(q, m))
    BY <1>1, <1>2, IdsDef
  <1>4. m.id \in Ids(Append(q, m))
    BY <1>1, <1>2
  <1> QED BY <1>1, <1>3, <1>4 DEF IsHead

\* Loading the file behind a queue keeps every message of the queue.
LEMMA IdsConcat ==
    ASSUME NEW q \in Seq(Msg), NEW s \in Seq(Msg)
    PROVE  /\ q \o s \in Seq(Msg)
           /\ Ids(q) \subseteq Ids(q \o s)
           /\ IsHead(q, q \o s)
  <1>1. /\ q \o s \in Seq(Msg)
        /\ Len(q \o s) = Len(q) + Len(s)
        /\ \A i \in 1..Len(q) : (q \o s)[i] = q[i]
    OBVIOUS
  <1> DEFINE p == q \o s
  <1>2. Ids(p) = {p[i].id : i \in 1..Len(p)}
    BY <1>1, IdsDef
  <1>3. \A i \in 1..Len(q) : i \in 1..Len(p) /\ q[i] = p[i]
    BY <1>1
  <1>4. Ids(q) \subseteq Ids(p)
    BY <1>2, <1>3, IdsDef
  <1> QED BY <1>1, <1>4 DEF IsHead

LEMMA IdsTail ==
    ASSUME NEW q \in Seq(Msg), q # <<>>
    PROVE  /\ Tail(q) \in Seq(Msg)
           /\ \A x \in Ids(q) : x = q[1].id \/ x \in Ids(Tail(q))
  <1>1. /\ Tail(q) \in Seq(Msg) /\ Len(Tail(q)) = Len(q) - 1
        /\ \A i \in 1..(Len(q) - 1) : Tail(q)[i] = q[i + 1]
    OBVIOUS
  <1>2. ASSUME NEW x \in Ids(q), x # q[1].id PROVE x \in Ids(Tail(q))
    <2>1. PICK i \in 1..Len(q) : x = q[i].id
      BY IdsDef
    <2>2. i - 1 \in 1..Len(Tail(q)) /\ Tail(q)[i - 1] = q[i]
      BY <1>1, <1>2, <2>1
    <2> QED BY <1>1, <2>1, <2>2, IdsDef
  <1> QED BY <1>1, <1>2

\* The head of a queue is the head of what extends the queue.
LEMMA HeadTrans ==
    ASSUME NEW s \in Seq(Msg), NEW q \in Seq(Msg), NEW p \in Seq(Msg),
           IsHead(s, q), IsHead(q, p)
    PROVE  IsHead(s, p)
  BY DEF IsHead

-----------------------------------------------------------------------------
(* Type correctness. *)

\* The values of the RPC variables when there is no RPC.
LEMMA NoRpc == <<>> \in Seq(Msg) /\ NoReply \in NoReply..Len(<<>>)
  BY DEF NoReply

LEMMA PlaceInit == Init => PlaceType
  BY DEF Init, PlaceType

LEMMA DataInit == Init => DataType
  <1> SUFFICES ASSUME Init PROVE DataType
    OBVIOUS
  <1>1. agent_list \in Seq(Msg) /\ file \in Seq(Msg) /\ inflight \in Seq(Msg)
        /\ reply \in NoReply..Len(inflight)
    BY NoRpc DEF Init
  <1>2. /\ nextId \in Nat \ {0} /\ delivered \subseteq Nat /\ lost \subseteq Nat
        /\ faults \in Nat /\ crashes \in Nat /\ reqs \in Nat /\ opens \in Nat
    BY DEF Init
  <1>3. /\ listed \in BOOLEAN /\ conn \in BOOLEAN /\ tls \in BOOLEAN
        /\ fail \in BOOLEAN /\ shutdown \in BOOLEAN /\ halt \in BOOLEAN
        /\ mult \in BOOLEAN /\ ok \in BOOLEAN /\ scripts \subseteq Nat
    BY DEF Init
  <1> QED BY <1>1, <1>2, <1>3 DEF DataType

LEMMA PlaceEnds == ProcessEnds => PlaceType'
  BY DEF ProcessEnds, PlaceType

LEMMA PlaceStep ==
    ASSUME PlaceType, [Next]_vars
    PROVE  PlaceType'
  <1> USE DEF PlaceType, AgentPcs
  <1>1. ASSUME NEW t \in SendTypes, Send(t) PROVE PlaceType'
    <2>1. CASE Overflow(SenderList)
      BY <1>1, <2>1, PlaceEnds DEF Send, Fatal
    <2>2. CASE ~Overflow(SenderList)
      <3>1. UNCHANGED <<lock, jobLock, phase, req>>
        BY <1>1, <2>2 DEF Send
      <3>2. pc' \in {pc, "start", "top"}
        BY <1>1, <2>2 DEF Send, CreateAgent, WakeSleeper
      <3> QED BY <3>1, <3>2
    <2> QED BY <2>1, <2>2
  <1>2. CASE AgentStart \/ AgentLoop \/ AgentLock \/ AgentRelock \/ AgentReconnect
    BY <1>2 DEF AgentStart, AgentLoop, AgentLock, AgentRelock, AgentReconnect
  <1>3. CASE AgentTimeout \/ AgentTake \/ AgentSent \/ AgentSendFailed
    BY <1>3 DEF AgentTimeout, AgentTake, AgentSent, AgentSendFailed
  <1>4. CASE AgentMultReply \/ AgentSingleReply \/ AgentReplyLost
    BY <1>4 DEF AgentMultReply, AgentSingleReply, AgentReplyLost, Answered
  <1>5. CASE AgentFinish \/ AgentExit \/ DbdProcess \/ FailExpires
    BY <1>5 DEF AgentFinish, AgentExit, DbdProcess, FailExpires
  <1>6. CASE AgentIdle
    <2>1. CASE Overflow(agent_list)
      BY <1>6, <2>1, PlaceEnds DEF AgentIdle, Fatal
    <2>2. CASE ~Overflow(agent_list)
      BY <1>6, <2>2 DEF AgentIdle
    <2> QED BY <2>1, <2>2
  <1>7. CASE AgentHeavy
    <2>1. CASE Overflow(agent_list)
      BY <1>7, <2>1, PlaceEnds DEF AgentHeavy, Fatal
    <2>2. CASE ~Overflow(agent_list)
      BY <1>7, <2>2 DEF AgentHeavy, ScriptDone
    <2> QED BY <2>1, <2>2
  <1>15. CASE AgentJobLock \/ AgentJobGone
    BY <1>15 DEF AgentJobLock, AgentJobGone, ScriptDone
  <1>8. CASE SendNullConn \/ AgentNullConn \/ MainReturns \/ Crash
    BY <1>8, PlaceEnds DEF SendNullConn, AgentNullConn, MainReturns, Crash, Dies
  <1>9. ASSUME NEW r \in Requesters, ReqHalt(r) \/ ReqLock(r) PROVE PlaceType'
    BY <1>9 DEF ReqHalt, ReqLock
  <1>10. ASSUME NEW r \in Requesters, ReqRpc(r) PROVE PlaceType'
    BY <1>10 DEF ReqRpc, SignalHalted
  <1>11. CASE OpenConn \/ RemConn
    BY <1>11 DEF OpenConn, RemConn
  <1>12. CASE SetConnAgent
    BY <1>12 DEF SetConnAgent, CreateAgent
  <1>13. CASE ShutdownAgent \/ ShutdownWake \/ ShutdownJoin
    BY <1>13 DEF ShutdownAgent, ShutdownWake, ShutdownJoin, WakeSleeper
  <1>14. CASE Terminated \/ UNCHANGED vars
    BY <1>14 DEF Terminated, vars
  <1> QED
    BY <1>1, <1>2, <1>3, <1>4, <1>5, <1>6, <1>7, <1>8, <1>9, <1>10, <1>11,
       <1>12, <1>13, <1>14, <1>15
       DEF Next, AgentNext, ReqNext, MainNext

\* A queue cut by _save_dbd_state.
LEMMA SaveType ==
    ASSUME DataType, NEW q \in Seq(Msg), NEW k \in Saveable(q), SaveDbdState(q, k)
    PROVE  /\ k \in 0..Len(q)
           /\ file' \in Seq(Msg)
           /\ Unsaved(q, k) \subseteq Nat
           /\ <<faults, crashes, reqs, opens>>' \in Nat \X Nat \X Nat \X Nat
  <1>1. k \in 0..Len(q)
    BY DEF Saveable
  <1>2. file' \in Seq(Msg)
    BY <1>1, Prefix DEF SaveDbdState
  <1>3. Unsaved(q, k) \subseteq Nat
    BY <1>1, Suffix, IdsDef DEF Unsaved
  <1>4. <<faults, crashes, reqs, opens>>' \in Nat \X Nat \X Nat \X Nat
    <2>1. faults \in Nat /\ crashes \in Nat /\ reqs \in Nat /\ opens \in Nat
      BY DEF DataType
    <2>2. UNCHANGED <<crashes, reqs, opens>> /\ (faults' = faults \/ faults' = faults + 1)
      BY DEF SaveDbdState, Fault, bounds
    <2>3. faults' \in Nat /\ crashes' \in Nat /\ reqs' \in Nat /\ opens' \in Nat
      BY <2>1, <2>2
    <2> QED BY <2>3
  <1> QED BY <1>1, <1>2, <1>3, <1>4

\* What the end of the process leaves in memory.
LEMMA EndsType ==
    ASSUME ProcessEnds, file' \in Seq(Msg), nextId' \in Nat \ {0},
           delivered' \subseteq Nat, lost' \subseteq Nat,
           <<faults, crashes, reqs, opens>>' \in Nat \X Nat \X Nat \X Nat
    PROVE  DataType'
  BY NoRpc DEF ProcessEnds, DataType

LEMMA FatalType ==
    ASSUME DataType, NEW q \in Seq(Msg), NEW also \in SUBSET Nat, Fatal(q, also),
           nextId' \in Nat \ {0}, delivered' \subseteq Nat
    PROVE  DataType'
  <1>1. PICK k \in Saveable(q) : /\ SaveDbdState(q, k)
                                 /\ lost' = lost \cup Unsaved(q, k) \cup also
                                 /\ ProcessEnds
    BY DEF Fatal
  <1>2. lost' \subseteq Nat
    BY <1>1, SaveType DEF DataType
  <1> QED BY <1>1, <1>2, SaveType, EndsType

\* _purge_agent_list_req leaves a list of messages, no longer than before.
LEMMA PurgeType ==
    ASSUME NEW q \in Seq(Msg)
    PROVE  /\ Purge(q) \in Seq(Msg)
           /\ Len(Purge(q)) <= Len(q)
  <1> DEFINE I == {i \in DOMAIN q : NotStep(q[i])}
  <1>1. I \in SUBSET (1..Len(q)) /\ Len(q) \in Nat
    OBVIOUS
  <1> HIDE DEF I
  <1>2. Subsequence(q, I) \in Seq(Msg) /\ Len(Subsequence(q, I)) <= Len(q)
    BY <1>1, SubsequenceOf
  <1> QED BY <1>1, <1>2 DEF Purge, I

\* slurmdbd_agent_send leaves a queue of messages behind.
LEMMA EnqueueType ==
    ASSUME DataType, NEW t \in MsgTypes, Enqueue(t)
    PROVE  /\ agent_list' \in Seq(Msg) /\ listed' = TRUE
           /\ lost' \subseteq Nat
  <1> DEFINE q == Purge(SenderList)
             m == [id |-> nextId, type |-> t]
  <1>1. SenderList \in Seq(Msg)
    BY DEF SenderList, DataType
  <1>2. q \in Seq(Msg)
    BY <1>1, PurgeType
  <1>3. m \in Msg
    BY DEF Msg, DataType
  <1>4. /\ agent_list' = IF Fits(q) THEN Place(q, m) ELSE q
        /\ listed' = TRUE
        /\ lost' = lost \cup (Ids(SenderList) \ Ids(q))
                        \cup (IF Fits(q) THEN {} ELSE {nextId})
    BY DEF Enqueue
  <1> HIDE DEF q, m
  <1>5. agent_list' \in Seq(Msg)
    BY <1>2, <1>3, <1>4, IdsAppend DEF Place
  <1>6. Ids(SenderList) \subseteq Nat
    BY <1>1, IdsDef
  <1>7. lost' \subseteq Nat
    BY <1>4, <1>6 DEF DataType
  <1> QED BY <1>4, <1>5, <1>7

\* A batch is no longer than the queue.
LEMMA BatchFits ==
    ASSUME agent_list \in Seq(Msg), NEW k \in BatchSizes
    PROVE  k \in 0..Len(agent_list)
  <1>1. CASE Len(agent_list) = 1
    BY <1>1 DEF BatchSizes
  <1>2. CASE Len(agent_list) # 1
    BY <1>2 DEF BatchSizes
  <1> QED BY <1>1, <1>2

\* The messages whose script slurmdbd wants.
LEMMA AnsweredType ==
    ASSUME DataType, Answered PROVE scripts' \subseteq Nat
  <1>1. reply \in Int /\ scripts \subseteq Nat
    BY DEF DataType, NoReply
  <1>2. 1..reply \subseteq Nat
    BY <1>1
  <1> QED BY <1>1, <1>2 DEF Answered

LEMMA DataStep ==
    ASSUME DataType, [Next]_vars
    PROVE  DataType'
  <1> USE DEF DataType, queueVars, connVars, sendVars, histVars, bounds
  <1>1. ASSUME NEW t \in SendTypes, Send(t) PROVE DataType'
    <2>1. t \in MsgTypes /\ SenderList \in Seq(Msg) /\ {nextId} \in SUBSET Nat
      BY DbdAssumption DEF SenderList
    <2>2. nextId' \in Nat \ {0} /\ delivered' \subseteq Nat
      BY <1>1 DEF Send
    <2>3. CASE Overflow(SenderList)
      BY <1>1, <2>1, <2>2, <2>3, FatalType DEF Send
    <2>4. CASE ~Overflow(SenderList)
      <3>1. /\ Enqueue(t)
            /\ UNCHANGED <<file, connVars, halt, lock, jobLock, sendVars,
                           phase, req, bounds>>
        BY <1>1, <2>4 DEF Send
      <3>2. agent_list' \in Seq(Msg) /\ listed' = TRUE /\ lost' \subseteq Nat
        BY <2>1, <3>1, EnqueueType
      <3>3. shutdown' \in BOOLEAN
        BY <1>1, <2>4 DEF Send, CreateAgent, WakeSleeper
      <3> QED BY <2>2, <3>1, <3>2, <3>3
    <2> QED BY <2>3, <2>4
  <1>2. CASE AgentStart \/ AgentLoop \/ AgentLock \/ AgentRelock \/ AgentTimeout
             \/ AgentSent
    BY <1>2 DEF AgentStart, AgentLoop, AgentLock, AgentRelock, AgentTimeout,
       AgentSent
  <1>3. CASE AgentReconnect
    <2>1. faults' \in Nat /\ crashes' \in Nat /\ reqs' \in Nat /\ opens' \in Nat
      BY <1>3 DEF AgentReconnect, Fault
    <2>2. tls' \in BOOLEAN /\ fail' \in BOOLEAN
      BY <1>3 DEF AgentReconnect
    <2> QED BY <1>3, <2>1, <2>2 DEF AgentReconnect
  <1>4. CASE AgentIdle
    <2>1. CASE Overflow(agent_list)
      BY <1>4, <2>1, FatalType DEF AgentIdle
    <2>2. CASE ~Overflow(agent_list)
      <3>1. /\ agent_list' = Purge(agent_list)
            /\ lost' = lost \cup (Ids(agent_list) \ Ids(agent_list'))
        BY <1>4, <2>2 DEF AgentIdle
      <3>2. agent_list' \in Seq(Msg)
        BY <3>1, PurgeType
      <3>3. lost' \subseteq Nat
        BY <3>1, IdsDef
      <3> QED BY <1>4, <2>2, <3>2, <3>3 DEF AgentIdle
    <2> QED BY <2>1, <2>2
  <1>5. CASE AgentTake
    <2>1. PICK k \in BatchSizes : inflight' = SubSeq(agent_list, 1, k)
      BY <1>5 DEF AgentTake
    <2>2. k \in 0..Len(agent_list)
      BY BatchFits
    <2>3. inflight' \in Seq(Msg) /\ NoReply \in NoReply..Len(inflight')
      BY <2>1, <2>2, Prefix DEF NoReply
    <2>4. mult' \in BOOLEAN /\ reply' = NoReply
      BY <1>5 DEF AgentTake
    <2> QED BY <1>5, <2>3, <2>4 DEF AgentTake
  <1>6. CASE AgentSendFailed
    <2>1. faults' \in Nat /\ crashes' \in Nat /\ reqs' \in Nat /\ opens' \in Nat
      BY <1>6 DEF AgentSendFailed, Fault
    <2> QED BY <1>6, <2>1 DEF AgentSendFailed
  <1>7. CASE AgentMultReply
    <2>1. AfterMultReply \in Seq(Msg)
      BY <1>7 DEF AgentMultReply, AfterMultReply, NoReply
    <2>2. scripts' \subseteq Nat
      BY <1>7, AnsweredType DEF AgentMultReply
    <2> QED BY <1>7, <2>1, <2>2 DEF AgentMultReply
  <1>8. CASE AgentSingleReply
    <2>1. scripts' \subseteq Nat
      <3>1. Answered \/ UNCHANGED scripts
        BY <1>8 DEF AgentSingleReply
      <3>2. UNCHANGED scripts => scripts' \subseteq Nat
        OBVIOUS
      <3> QED BY <3>1, <3>2, AnsweredType
    <2> QED BY <1>8, <2>1 DEF AgentSingleReply
  <1>9. CASE AgentReplyLost
    <2>1. delivered' \subseteq Nat
      BY <1>9, Prefix, IdsDef DEF AgentReplyLost
    <2>2. faults' \in Nat /\ crashes' \in Nat /\ reqs' \in Nat /\ opens' \in Nat
      BY <1>9 DEF AgentReplyLost, Fault
    <2> QED BY <1>9, <2>1, <2>2 DEF AgentReplyLost
  <1>10. CASE AgentHeavy
    <2>1. nextId' \in Nat \ {0} /\ delivered' \subseteq Nat /\ {nextId} \in SUBSET Nat
      BY <1>10 DEF AgentHeavy
    <2>2. CASE Overflow(agent_list)
      BY <1>10, <2>1, <2>2, FatalType DEF AgentHeavy
    <2>3. CASE ~Overflow(agent_list)
      <3>1. Enqueue("other") /\ "other" \in MsgTypes
        BY <1>10, <2>3 DEF AgentHeavy, MsgTypes
      <3>2. agent_list' \in Seq(Msg) /\ listed' = TRUE /\ lost' \subseteq Nat
        BY <3>1, EnqueueType
      <3>3. scripts' \subseteq Nat
        BY <1>10, <2>3 DEF AgentHeavy, ScriptDone
      <3> QED BY <1>10, <2>1, <2>3, <3>2, <3>3 DEF AgentHeavy
    <2> QED BY <2>2, <2>3
  <1>23. CASE AgentJobLock
    BY <1>23 DEF AgentJobLock
  <1>24. CASE AgentJobGone
    <2>1. scripts' \subseteq Nat
      BY <1>24 DEF AgentJobGone, ScriptDone
    <2> QED BY <1>24, <2>1 DEF AgentJobGone
  <1>11. CASE AgentFinish
    <2>1. AfterRpc \in Seq(Msg)
      BY IdsTail DEF AfterRpc
    <2> QED BY <1>11, <2>1, NoRpc DEF AgentFinish, ForgetRpc
  <1>12. CASE AgentExit
    <2>1. PICK k \in Saveable(agent_list) : /\ SaveDbdState(agent_list, k)
                                           /\ lost' = lost \cup Unsaved(agent_list, k)
      BY <1>12 DEF AgentExit
    <2>2. file' \in Seq(Msg) /\ lost' \subseteq Nat
          /\ <<faults, crashes, reqs, opens>>' \in Nat \X Nat \X Nat \X Nat
      BY <2>1, SaveType
    <2> QED BY <1>12, <2>2, NoRpc DEF AgentExit, ForgetRpc
  <1>13. CASE SendNullConn \/ AgentNullConn \/ MainReturns \/ Crash
    <2>1. PICK also \in {{}, {nextId}} : Dies(also)
      BY <1>13 DEF SendNullConn, AgentNullConn, MainReturns, Crash
    <2>2. also \subseteq Nat
      BY <2>1
    <2>3. ProcessEnds /\ UNCHANGED <<file, delivered>>
          /\ lost' = lost \cup (Ids(agent_list) \ Ids(file)) \cup also
      BY <2>1 DEF Dies
    <2>4. lost' \subseteq Nat
      BY <2>2, <2>3, IdsDef
    <2>5. nextId' \in Nat \ {0}
      BY <1>13 DEF SendNullConn, AgentNullConn, MainReturns, Crash
    <2>6. <<faults, crashes, reqs, opens>>' \in Nat \X Nat \X Nat \X Nat
      BY <1>13 DEF SendNullConn, AgentNullConn, MainReturns, Crash
    <2> QED BY <2>3, <2>4, <2>5, <2>6, EndsType
  <1>14. CASE DbdProcess
    <2>1. PICK j \in 0..Len(inflight), k \in 0..Len(inflight) :
             /\ reply' = k
             /\ delivered' = delivered \cup Ids(SubSeq(inflight, 1, j))
      BY <1>14 DEF DbdProcess
    <2>2. SubSeq(inflight, 1, j) \in Seq(Msg)
      BY Prefix
    <2>3. delivered' \subseteq Nat
      BY <2>1, <2>2, IdsDef
    <2>4. reply' \in NoReply..Len(inflight)
      BY <2>1 DEF NoReply
    <2>5. faults' \in Nat /\ crashes' \in Nat /\ reqs' \in Nat /\ opens' \in Nat
      BY <1>14 DEF DbdProcess, Fault
    <2> QED BY <1>14, <2>3, <2>4, <2>5 DEF DbdProcess
  <1>15. CASE FailExpires
    BY <1>15 DEF FailExpires
  <1>16. ASSUME NEW r \in Requesters, ReqHalt(r) PROVE DataType'
    BY <1>16, DbdAssumption DEF ReqHalt
  <1>17. ASSUME NEW r \in Requesters, ReqLock(r) PROVE DataType'
    BY <1>17 DEF ReqLock, ClearHalt
  <1>18. ASSUME NEW r \in Requesters, ReqRpc(r) PROVE DataType'
    <2>1. faults' \in Nat /\ crashes' \in Nat /\ reqs' \in Nat /\ opens' \in Nat
      BY <1>18 DEF ReqRpc, Fault
    <2>2. tls' \in BOOLEAN
      BY <1>18 DEF ReqRpc
    <2> QED BY <1>18, <2>1, <2>2 DEF ReqRpc
  <1>19. CASE OpenConn
    <2>1. faults' \in Nat /\ crashes' \in Nat /\ reqs' \in Nat /\ opens' \in Nat
      BY <1>19 DEF OpenConn
    <2>2. tls' \in BOOLEAN /\ conn' \in BOOLEAN /\ shutdown' \in BOOLEAN
      BY <1>19 DEF OpenConn
    <2> QED BY <1>19, <2>1, <2>2 DEF OpenConn
  <1>20. CASE SetConnAgent
    <2>1. agent_list' \in Seq(Msg) /\ listed' \in BOOLEAN
      BY <1>20, IdsConcat DEF SetConnAgent, SenderList
    <2> QED BY <1>20, <2>1 DEF SetConnAgent, CreateAgent
  <1>21. CASE ShutdownAgent \/ ShutdownWake \/ ShutdownJoin \/ RemConn
    BY <1>21 DEF ShutdownAgent, ShutdownWake, ShutdownJoin, RemConn, SetShutdown,
       WakeSleeper
  <1>22. CASE Terminated \/ UNCHANGED vars
    BY <1>22 DEF Terminated, vars
  <1> QED
    BY <1>1, <1>2, <1>3, <1>4, <1>5, <1>6, <1>7, <1>8, <1>9, <1>10, <1>11,
       <1>12, <1>13, <1>14, <1>15, <1>16, <1>17, <1>18, <1>19, <1>20, <1>21, <1>22,
       <1>23, <1>24
       DEF Next, AgentNext, ReqNext, MainNext

\* Every variable of slurmdbd_agent.c keeps its type, whatever
\* max_dbd_msg_action is; the queue is a sequence of messages throughout.
THEOREM TypeCorrect == Spec => []TypeOK
  <1>1. Init => TypeOK
    BY PlaceInit, DataInit DEF TypeOK
  <1>2. TypeOK /\ [Next]_vars => TypeOK'
    BY PlaceStep, DataStep DEF TypeOK
  <1> QED BY <1>1, <1>2, PTL DEF Spec

-----------------------------------------------------------------------------
(* The messages.  InFlightQueued and NothingVanishes hold each other up: a   *)
(* message only leaves the queue as one of those being sent, and those are   *)
(* the head of the queue; what leaves it is known to be delivered.           *)

RpcInv ==
    /\ pc = "send" => reply = NoReply
    /\ pc \in {"send", "recv"} /\ ~mult => Len(inflight) = 1
    /\ pc = "recv" => \A i \in 1..reply : inflight[i].id \in delivered
    /\ pc \in {"heavy", "script", "finish"} /\ ok /\ ~mult
         => Len(inflight) = 1 /\ inflight[1].id \in delivered

Listed == AgentAlive => listed

MsgInv == Listed /\ RpcInv /\ InFlightQueued /\ NothingVanishes

\* A message that is settled or kept stays so when the queue only grows.
LEMMA StillThere ==
    ASSUME NothingVanishes, nextId' = nextId, delivered \subseteq delivered',
           lost \subseteq lost', Kept \subseteq Kept' \cup lost' \cup delivered'
    PROVE  NothingVanishes'
  BY DEF NothingVanishes

\* The same with one more message, which is kept or openly discarded.
LEMMA StillThereNew ==
    ASSUME DataType, NothingVanishes, nextId' = nextId + 1,
           delivered \subseteq delivered', lost \subseteq lost',
           Kept \subseteq Kept' \cup lost', nextId \in Kept' \cup lost'
    PROVE  NothingVanishes'
  <1>1. \A i \in 1..nextId : i \in 1..(nextId - 1) \/ i = nextId
    BY DEF DataType
  <1>2. nextId' - 1 = nextId
    BY DEF DataType
  <1> QED BY <1>1, <1>2 DEF NothingVanishes

\* After the end of the process there is no RPC to speak of.
LEMMA EndsMsg ==
    ASSUME ProcessEnds
    PROVE  Listed' /\ RpcInv' /\ InFlightQueued'
  BY DEF ProcessEnds, Listed, RpcInv, InFlightQueued, AgentAlive, AgentPcs

\* fatal() after _save_dbd_state: what was queued is in the file or counted.
LEMMA FatalKeeps ==
    ASSUME DataType, NEW q \in Seq(Msg), NEW also, Fatal(q, also),
           Ids(q) = Kept
    PROVE  /\ lost \subseteq lost' /\ also \subseteq lost'
           /\ Kept \subseteq Kept' \cup lost'
           /\ Listed' /\ RpcInv' /\ InFlightQueued'
  <1>1. PICK k \in Saveable(q) : /\ SaveDbdState(q, k)
                                 /\ lost' = lost \cup Unsaved(q, k) \cup also
                                 /\ ProcessEnds
    BY DEF Fatal
  <1>2. k \in 0..Len(q)
    BY DEF Saveable
  <1>3. Kept' = Ids(SubSeq(q, 1, k))
    BY <1>1 DEF Kept, ProcessEnds, SaveDbdState
  <1>4. \A x \in Ids(q) : x \in Ids(SubSeq(q, 1, k)) \/ x \in Unsaved(q, k)
    BY <1>2, IdsCut, IdsPrefix DEF Unsaved
  <1> QED BY <1>1, <1>3, <1>4, EndsMsg

\* A process that dies leaves the file, and counts what it held besides.
LEMMA DiesKeeps ==
    ASSUME NEW also, Dies(also)
    PROVE  /\ lost \subseteq lost' /\ also \subseteq lost' /\ delivered' = delivered
           /\ Kept \subseteq Kept' \cup lost'
           /\ Listed' /\ RpcInv' /\ InFlightQueued'
  <1>1. ProcessEnds /\ file' = file /\ delivered' = delivered
        /\ lost' = lost \cup (Ids(agent_list) \ Ids(file)) \cup also
    BY DEF Dies
  <1>2. Kept \subseteq Kept' \cup lost'
    BY <1>1 DEF Kept, ProcessEnds
  <1> QED BY <1>1, <1>2, EndsMsg

\* slurmdbd_agent_send appends to the queue, or counts the message as lost.
LEMMA EnqueueKeeps ==
    ASSUME MaxDbdMsgAction = "exit", DataType, NEW t \in MsgTypes, Enqueue(t)
    PROVE  /\ lost \subseteq lost'
           /\ Kept \subseteq Kept'
           /\ nextId \in Kept' \cup lost'
           /\ listed => IsHead(agent_list, agent_list')
  <1> DEFINE m == [id |-> nextId, type |-> t]
  <1>1. SenderList \in Seq(Msg) /\ Purge(SenderList) = SenderList /\ m \in Msg
    BY DEF SenderList, Purge, DataType, Msg
  <1>2. /\ Ids(SenderList) \subseteq Ids(Append(SenderList, m))
        /\ nextId \in Ids(Append(SenderList, m))
        /\ IsHead(SenderList, Append(SenderList, m))
    BY <1>1, IdsAppend
  <1>3. Kept = Ids(SenderList)
    BY DEF Kept, SenderList
  <1>4. Kept' = Ids(agent_list')
    BY DEF Kept, Enqueue
  <1>5. IsHead(SenderList, SenderList)
    BY <1>1 DEF IsHead
  <1>6. CASE Fits(SenderList)
    <2>1. agent_list' = Append(SenderList, m) /\ lost' = lost
      BY <1>1, <1>6 DEF Enqueue, Place
    <2> QED BY <1>2, <1>3, <1>4, <2>1 DEF SenderList
  <1>7. CASE ~Fits(SenderList)
    <2>1. agent_list' = SenderList /\ lost' = lost \cup {nextId}
      BY <1>1, <1>7 DEF Enqueue
    <2> QED BY <1>3, <1>4, <1>5, <2>1 DEF SenderList
  <1> QED BY <1>6, <1>7

\* Steps that touch neither the queue nor the RPC nor the histories, and keep
\* the agent where its RPC does not matter.
LEMMA QuietStep ==
    ASSUME MsgInv, UNCHANGED <<queueVars, sendVars, histVars>>,
           pc' = pc \/ /\ pc' \notin {"send", "recv", "heavy", "script", "finish"}
                       /\ pc' \in AgentPcs => pc \in AgentPcs
    PROVE  MsgInv'
  <1> USE DEF queueVars, sendVars, histVars
  <1>1. Listed' /\ RpcInv' /\ InFlightQueued'
    BY DEF MsgInv, Listed, RpcInv, InFlightQueued, AgentAlive, IsHead
  <1>2. NothingVanishes'
    BY DEF MsgInv, NothingVanishes, Kept
  <1> QED BY <1>1, <1>2 DEF MsgInv

LEMMA MsgStep ==
    ASSUME MaxDbdMsgAction = "exit", DataType, DataType', MsgInv, [Next]_vars
    PROVE  MsgInv'
  <1>1. ASSUME NEW t \in SendTypes, Send(t) PROVE MsgInv'
    <2>1. t \in MsgTypes /\ SenderList \in Seq(Msg) /\ Ids(SenderList) = Kept
      BY DbdAssumption DEF SenderList, DataType, Kept
    <2>2. nextId' = nextId + 1 /\ delivered' = delivered
      BY <1>1 DEF Send
    <2>3. CASE Overflow(SenderList)
      <3>1. Fatal(SenderList, {nextId})
        BY <1>1, <2>3 DEF Send
      <3> QED BY <2>1, <2>2, <3>1, FatalKeeps, StillThereNew DEF MsgInv
    <2>4. CASE ~Overflow(SenderList)
      <3>1. /\ Enqueue(t) /\ listed' = TRUE
            /\ UNCHANGED sendVars
            /\ \/ pc' = pc
               \/ pc' \in {"start", "top"}
        BY <1>1, <2>4 DEF Send, Enqueue, CreateAgent, WakeSleeper
      <3>2. NothingVanishes'
        BY <2>1, <2>2, <3>1, EnqueueKeeps, StillThereNew DEF MsgInv
      <3>3. Listed' /\ RpcInv'
        BY <2>2, <3>1 DEF MsgInv, Listed, RpcInv, sendVars
      <3>4. ASSUME pc' \in AgentPcs, pc' = pc, IsHead(inflight, agent_list)
            PROVE  IsHead(inflight', agent_list')
        <4>1. IsHead(agent_list, agent_list')
          BY <2>1, <3>1, <3>4, EnqueueKeeps DEF MsgInv, Listed, AgentAlive
        <4> QED BY <3>1, <3>4, <4>1, HeadTrans DEF DataType, sendVars
      <3>5. InFlightQueued'
        BY <3>1, <3>4 DEF MsgInv, InFlightQueued, AgentPcs, sendVars
      <3> QED BY <3>2, <3>3, <3>5 DEF MsgInv
    <2> QED BY <2>3, <2>4
  <1>2. CASE AgentStart \/ AgentLoop \/ AgentLock \/ AgentRelock \/ AgentTimeout
    BY <1>2, QuietStep DEF AgentStart, AgentLoop, AgentLock, AgentRelock,
       AgentTimeout, AgentPcs
  <1>3. CASE AgentReconnect
    BY <1>3, QuietStep DEF AgentReconnect, AgentPcs
  <1>4. CASE AgentIdle
    <2>1. CASE Overflow(agent_list)
      <3>1. Fatal(agent_list, {}) /\ nextId' = nextId /\ delivered' = delivered
        BY <1>4, <2>1 DEF AgentIdle
      <3>2. Ids(agent_list) = Kept
        BY <1>4 DEF AgentIdle, MsgInv, Listed, AgentAlive, AgentPcs, Kept
      <3> QED BY <3>1, <3>2, FatalKeeps, StillThere DEF MsgInv, DataType
    <2>2. CASE ~Overflow(agent_list)
      <3>1. agent_list' = agent_list /\ lost' = lost
        BY <1>4, <2>2 DEF AgentIdle, Purge
      <3> QED BY <1>4, <2>2, <3>1, QuietStep
            DEF AgentIdle, AgentPcs, queueVars, sendVars, histVars
    <2> QED BY <2>1, <2>2
  <1>5. CASE AgentTake
    <2>1. PICK k \in BatchSizes : inflight' = SubSeq(agent_list, 1, k)
      BY <1>5 DEF AgentTake
    <2>2. k \in 1..Len(agent_list) /\ (~mult' => k = 1)
      <3>1. agent_list \in Seq(Msg) /\ agent_list # <<>>
        BY <1>5 DEF AgentTake, DataType
      <3>2. Len(agent_list) \in Nat /\ Len(agent_list) > 0
        BY <3>1
      <3>3. ~mult' => Len(agent_list) = 1
        <4>1. mult' = (Len(agent_list) > 1)
          BY <1>5 DEF AgentTake
        <4>2. ~mult' => ~(Len(agent_list) > 1)
          BY <4>1
        <4>3. \A n \in Nat : n > 0 /\ ~(n > 1) => n = 1
          OBVIOUS
        <4> QED BY <3>2, <4>2, <4>3
      <3>4. k \in 1..Len(agent_list)
        BY <3>2 DEF BatchSizes
      <3> QED BY <3>2, <3>3, <3>4
    <2>3. /\ Len(inflight') = k
          /\ \A i \in 1..k : inflight'[i] = agent_list[i]
      BY <2>1, <2>2, Prefix DEF DataType
    <2>4. pc' = "send" /\ reply' = NoReply
          /\ UNCHANGED <<agent_list, listed, file, nextId, delivered, lost>>
      BY <1>5 DEF AgentTake, queueVars, histVars
    <2>5. InFlightQueued' /\ RpcInv'
      BY <2>2, <2>3, <2>4 DEF InFlightQueued, RpcInv, IsHead, DataType
    <2>6. Listed'
      BY <1>5, <2>4 DEF AgentTake, MsgInv, Listed, AgentAlive, AgentPcs
    <2>7. NothingVanishes'
      BY <2>4 DEF MsgInv, NothingVanishes, Kept
    <2> QED BY <2>5, <2>6, <2>7 DEF MsgInv
  <1>6. CASE AgentSent
    <2>1. pc = "send" /\ pc' = "recv"
          /\ UNCHANGED <<agent_list, listed, file, nextId, delivered, lost,
                         inflight, mult, reply, ok>>
      BY <1>6 DEF AgentSent, queueVars, sendVars, histVars
    <2>2. InFlightQueued' /\ RpcInv'
      BY <2>1 DEF MsgInv, InFlightQueued, RpcInv, IsHead, NoReply
    <2>3. Listed' /\ NothingVanishes'
      BY <2>1 DEF MsgInv, Listed, AgentAlive, AgentPcs, NothingVanishes, Kept
    <2> QED BY <2>2, <2>3 DEF MsgInv
  <1>7. CASE AgentSendFailed
    <2>1. pc = "send" /\ pc' \in {"exit", "finish"} /\ ok' = FALSE
          /\ UNCHANGED <<agent_list, listed, file, nextId, delivered, lost>>
      BY <1>7 DEF AgentSendFailed, queueVars, histVars
    <2>2. InFlightQueued' /\ RpcInv'
      BY <2>1 DEF InFlightQueued, RpcInv
    <2>3. Listed' /\ NothingVanishes'
      BY <2>1 DEF MsgInv, Listed, AgentAlive, AgentPcs, NothingVanishes, Kept
    <2> QED BY <2>2, <2>3 DEF MsgInv
  <1>8. CASE AgentMultReply
    <2>1. pc = "recv" /\ pc' \in {"finish", "heavy"} /\ mult' /\ mult
          /\ agent_list' = SubSeq(agent_list, reply + 1, Len(agent_list))
          /\ UNCHANGED <<listed, file, nextId, delivered, lost>>
      BY <1>8 DEF AgentMultReply, Answered, AfterMultReply, histVars
    <2>2. listed /\ Listed'
      BY <2>1 DEF MsgInv, Listed, AgentAlive, AgentPcs
    <2>3. reply \in 0..Len(agent_list)
          /\ \A i \in 1..reply : agent_list[i].id \in delivered
      <3>1. reply \in 0..Len(inflight)
        BY <1>8 DEF AgentMultReply, DataType, NoReply
      <3>2. IsHead(inflight, agent_list)
            /\ \A i \in 1..reply : inflight[i].id \in delivered
        BY <2>1 DEF MsgInv, InFlightQueued, RpcInv
      <3>3. Len(inflight) \in Nat /\ Len(agent_list) \in Nat
        BY DEF DataType
      <3>4. reply \in 0..Len(agent_list)
        BY <3>1, <3>2, <3>3 DEF IsHead
      <3>5. \A i \in 1..reply : inflight[i] = agent_list[i]
        BY <3>1, <3>2, <3>3 DEF IsHead
      <3> QED BY <3>2, <3>4, <3>5
    <2>4. \A x \in Ids(agent_list) : x \in delivered \/ x \in Ids(agent_list')
      BY <2>1, <2>3, IdsCut DEF DataType
    <2>5. NothingVanishes'
      BY <2>1, <2>2, <2>4, StillThere DEF MsgInv, Kept
    <2>6. InFlightQueued' /\ RpcInv'
      BY <2>1 DEF InFlightQueued, RpcInv
    <2> QED BY <2>2, <2>5, <2>6 DEF MsgInv
  <1>9. CASE AgentSingleReply
    <2>1. pc = "recv" /\ pc' \in {"finish", "heavy", "exit"} /\ ~mult
          /\ ok' = (reply = 1)
          /\ UNCHANGED <<agent_list, listed, file, nextId, delivered, lost,
                         inflight, mult, reply>>
      BY <1>9 DEF AgentSingleReply, Answered, histVars, queueVars
    <2>2. IsHead(inflight, agent_list) /\ Len(inflight) = 1
      BY <2>1 DEF MsgInv, InFlightQueued, RpcInv
    <2>3. ok' => reply = 1
      BY <2>1
    <2>4. ok' => inflight[1].id \in delivered
      BY <2>1, <2>3 DEF MsgInv, RpcInv
    <2>5. InFlightQueued'
      BY <2>1, <2>2 DEF InFlightQueued, IsHead
    <2>6. RpcInv'
      BY <2>1, <2>2, <2>4 DEF RpcInv
    <2>7. Listed' /\ NothingVanishes'
      BY <2>1 DEF MsgInv, Listed, AgentAlive, AgentPcs, NothingVanishes, Kept
    <2> QED BY <2>5, <2>6, <2>7 DEF MsgInv
  <1>10. CASE AgentReplyLost
    <2>1. pc = "recv" /\ pc' = "finish" /\ ok' = FALSE
          /\ UNCHANGED <<agent_list, listed, file, nextId, lost>>
          /\ delivered \subseteq delivered'
      BY <1>10 DEF AgentReplyLost, queueVars
    <2>2. InFlightQueued' /\ RpcInv'
      BY <2>1 DEF InFlightQueued, RpcInv
    <2>3. Listed'
      BY <2>1 DEF MsgInv, Listed, AgentAlive, AgentPcs
    <2>4. NothingVanishes'
      BY <2>1, StillThere DEF MsgInv, Kept
    <2> QED BY <2>2, <2>3, <2>4 DEF MsgInv
  <1>11. CASE AgentHeavy
    <2>1. pc = "script" /\ listed /\ nextId' = nextId + 1 /\ delivered' = delivered
      BY <1>11 DEF AgentHeavy, MsgInv, Listed, AgentAlive, AgentPcs
    <2>2. CASE Overflow(agent_list)
      <3>1. Fatal(agent_list, {nextId}) /\ Ids(agent_list) = Kept
        BY <1>11, <2>1, <2>2 DEF AgentHeavy, Kept
      <3>2. agent_list \in Seq(Msg)
        BY DEF DataType
      <3> QED BY <2>1, <3>1, <3>2, FatalKeeps, StillThereNew DEF MsgInv
    <2>3. CASE ~Overflow(agent_list)
      <3>1. Enqueue("other") /\ listed' /\ pc' \in {"script", "finish"}
            /\ UNCHANGED <<inflight, mult, reply, ok>>
        BY <1>11, <2>3 DEF AgentHeavy, Enqueue, ScriptDone
      <3>2. "other" \in MsgTypes
        BY DEF MsgTypes
      <3>3. NothingVanishes' /\ IsHead(agent_list, agent_list')
        BY <2>1, <3>1, <3>2, EnqueueKeeps, StillThereNew DEF MsgInv
      <3>4. IsHead(inflight, agent_list) => IsHead(inflight', agent_list')
        BY <3>1, <3>3, HeadTrans DEF DataType
      <3>5. InFlightQueued'
        BY <2>1, <3>1, <3>4 DEF MsgInv, InFlightQueued
      <3>6. Listed' /\ RpcInv'
        BY <2>1, <3>1 DEF MsgInv, Listed, RpcInv
      <3> QED BY <3>3, <3>5, <3>6 DEF MsgInv
    <2> QED BY <2>2, <2>3
  <1>21. CASE AgentJobLock \/ AgentJobGone
    <2>1. pc \in {"heavy", "script"} /\ pc' \in {"script", "finish"}
          /\ UNCHANGED <<agent_list, listed, file, nextId, delivered, lost,
                         inflight, mult, reply, ok>>
      BY <1>21 DEF AgentJobLock, AgentJobGone, ScriptDone, queueVars, sendVars,
         histVars
    <2>2. InFlightQueued' /\ RpcInv'
      BY <2>1 DEF MsgInv, InFlightQueued, RpcInv, IsHead
    <2>3. Listed' /\ NothingVanishes'
      BY <2>1 DEF MsgInv, Listed, AgentAlive, AgentPcs, NothingVanishes, Kept
    <2> QED BY <2>2, <2>3 DEF MsgInv
  <1>12. CASE AgentFinish
    <2>1. pc = "finish" /\ pc' = "top" /\ agent_list' = AfterRpc
          /\ UNCHANGED <<listed, file, nextId, delivered, lost>>
      BY <1>12 DEF AgentFinish, histVars
    <2>2. listed /\ Listed' /\ InFlightQueued' /\ RpcInv'
      BY <2>1 DEF MsgInv, Listed, AgentAlive, AgentPcs, InFlightQueued, RpcInv
    <2>3. CASE ok /\ ~mult /\ agent_list # <<>>
      <3>1. agent_list[1].id \in delivered
        BY <2>1, <2>3 DEF MsgInv, InFlightQueued, RpcInv, IsHead
      <3>2. \A x \in Ids(agent_list) : x \in delivered \/ x \in Ids(agent_list')
        BY <2>1, <2>3, <3>1, IdsTail DEF AfterRpc, DataType
      <3> QED BY <2>1, <2>2, <3>2, StillThere DEF MsgInv, Kept
    <2>4. CASE ~(ok /\ ~mult /\ agent_list # <<>>)
      <3>1. agent_list' = agent_list
        BY <2>1, <2>4 DEF AfterRpc
      <3> QED BY <2>1, <2>2, <3>1, StillThere DEF MsgInv, Kept
    <2> QED BY <2>3, <2>4
  <1>13. CASE AgentExit
    <2>1. PICK k \in Saveable(agent_list) :
              /\ SaveDbdState(agent_list, k)
              /\ lost' = lost \cup Unsaved(agent_list, k)
      BY <1>13 DEF AgentExit
    <2>2. pc = "exit" /\ pc' = "gone" /\ ~listed'
          /\ nextId' = nextId /\ delivered' = delivered
      BY <1>13 DEF AgentExit
    <2>3. listed
      BY <2>2 DEF MsgInv, Listed, AgentAlive, AgentPcs
    <2>4. k \in 0..Len(agent_list)
      BY DEF Saveable
    <2>5. \A x \in Ids(agent_list) : \/ x \in Ids(SubSeq(agent_list, 1, k))
                                     \/ x \in Unsaved(agent_list, k)
      <3>1. agent_list \in Seq(Msg)
        BY DEF DataType
      <3> QED BY <2>4, <3>1, IdsCut, IdsPrefix DEF Unsaved
    <2>6. file' = SubSeq(agent_list, 1, k)
      BY <2>1 DEF SaveDbdState
    <2>7. NothingVanishes'
      BY <2>1, <2>2, <2>3, <2>5, <2>6, StillThere DEF MsgInv, Kept
    <2>8. Listed' /\ InFlightQueued' /\ RpcInv'
      BY <2>2 DEF Listed, AgentAlive, AgentPcs, InFlightQueued, RpcInv
    <2> QED BY <2>7, <2>8 DEF MsgInv
  <1>14. CASE AgentNullConn \/ MainReturns \/ Crash
    <2>1. Dies({}) /\ nextId' = nextId
      BY <1>14 DEF AgentNullConn, MainReturns, Crash
    <2>2. NothingVanishes'
      BY <2>1, DiesKeeps, StillThere DEF MsgInv
    <2> QED BY <2>1, <2>2, DiesKeeps DEF MsgInv
  <1>22. CASE SendNullConn
    <2>1. Dies({nextId}) /\ nextId' = nextId + 1
      BY <1>22 DEF SendNullConn
    <2>2. NothingVanishes'
      BY <2>1, DiesKeeps, StillThereNew DEF MsgInv
    <2> QED BY <2>1, <2>2, DiesKeeps DEF MsgInv
  <1>15. CASE DbdProcess
    <2>1. PICK j \in 0..Len(inflight), k \in 0..Len(inflight) :
              /\ k <= j
              /\ reply' = k
              /\ delivered' = delivered \cup Ids(SubSeq(inflight, 1, j))
      BY <1>15 DEF DbdProcess
    <2>2. pc = "recv" /\ pc' = "recv"
          /\ UNCHANGED <<agent_list, listed, file, nextId, lost, inflight, mult>>
      BY <1>15 DEF DbdProcess, queueVars
    <2>3. \A i \in 1..k : inflight[i].id \in delivered'
      <3>1. \A i \in 1..j : inflight[i].id \in delivered'
        BY <2>1, IdsPrefix DEF DataType
      <3>2. \A i \in 1..k : i \in 1..j
        BY <2>1
      <3> QED BY <3>1, <3>2
    <2>4. InFlightQueued' /\ RpcInv'
      BY <2>1, <2>2, <2>3 DEF MsgInv, InFlightQueued, RpcInv, IsHead
    <2>5. Listed'
      BY <2>2 DEF MsgInv, Listed, AgentAlive
    <2>6. NothingVanishes'
      BY <2>1, <2>2, StillThere DEF MsgInv, Kept
    <2> QED BY <2>4, <2>5, <2>6 DEF MsgInv
  <1>16. CASE FailExpires
    BY <1>16, QuietStep DEF FailExpires
  <1>17. ASSUME NEW r \in Requesters, ReqNext(r) PROVE MsgInv'
    <2>1. CASE ReqHalt(r) \/ ReqLock(r)
      BY <2>1, QuietStep DEF ReqHalt, ReqLock
    <2>2. CASE ReqRpc(r)
      BY <2>2, QuietStep DEF ReqRpc, SignalHalted, AgentPcs
    <2> QED BY <1>17, <2>1, <2>2 DEF ReqNext
  <1>18. CASE OpenConn \/ ShutdownAgent \/ RemConn \/ ShutdownWake \/ ShutdownJoin
    BY <1>18, QuietStep
       DEF OpenConn, ShutdownAgent, RemConn, ShutdownWake, ShutdownJoin,
           WakeSleeper, AgentPcs
  <1>19. CASE SetConnAgent
    <2>1. listed' /\ UNCHANGED <<file, nextId, delivered, lost, sendVars>>
          /\ (pc' = pc \/ pc' = "start")
      BY <1>19 DEF SetConnAgent, CreateAgent, histVars, sendVars
    <2>2. /\ listed => IsHead(agent_list, agent_list')
          /\ Kept \subseteq Kept'
      <3>1. CASE pc = "none" \/ ~listed
        <4>1. agent_list' = SenderList
          BY <1>19, <3>1 DEF SetConnAgent
        <4> QED BY <2>1, <4>1 DEF SenderList, Kept, IsHead, DataType
      <3>2. CASE ~(pc = "none" \/ ~listed)
        <4>1. agent_list' = agent_list \o file
          BY <1>19, <3>2 DEF SetConnAgent
        <4> QED BY <2>1, <3>2, <4>1, IdsConcat DEF Kept, DataType
      <3> QED BY <3>1, <3>2
    <2>3. NothingVanishes'
      BY <2>1, <2>2, StillThere DEF MsgInv
    <2>4. Listed' /\ RpcInv'
      BY <2>1 DEF MsgInv, Listed, RpcInv, sendVars
    <2>5. ASSUME pc' \in AgentPcs, pc' = pc, IsHead(inflight, agent_list)
          PROVE  IsHead(inflight', agent_list')
      <3>1. IsHead(agent_list, agent_list')
        BY <2>2, <2>5 DEF MsgInv, Listed, AgentAlive
      <3> QED BY <2>1, <2>5, <3>1, HeadTrans DEF DataType, sendVars
    <2>6. InFlightQueued'
      BY <2>1, <2>5 DEF MsgInv, InFlightQueued, AgentPcs, sendVars
    <2> QED BY <2>3, <2>4, <2>6 DEF MsgInv
  <1>20. CASE Terminated \/ UNCHANGED vars
    BY <1>20, QuietStep DEF Terminated, vars
  <1> QED
    BY <1>1, <1>2, <1>3, <1>4, <1>5, <1>6, <1>7, <1>8, <1>9, <1>10, <1>11, <1>12,
       <1>13, <1>14, <1>15, <1>16, <1>17, <1>18, <1>19, <1>20, <1>21, <1>22
       DEF Next, AgentNext, MainNext

LEMMA MsgInvariant ==
    ASSUME MaxDbdMsgAction = "exit"
    PROVE  Spec => [](PlaceType /\ DataType /\ MsgInv)
  <1> DEFINE Inv == PlaceType /\ DataType /\ MsgInv
  <1>1. Init => Inv
    <2>1. Init => MsgInv
      BY DEF Init, MsgInv, Listed, RpcInv, InFlightQueued, NothingVanishes,
         AgentAlive, AgentPcs
    <2> QED BY <2>1, PlaceInit, DataInit
  <1>2. Inv /\ [Next]_vars => Inv'
    BY PlaceStep, DataStep, MsgStep
  <1> QED BY <1>1, <1>2, PTL DEF Spec

\* "Leave item on the queue until processing complete" for every queue limit,
\* batch size, number of threads, faults and crashes, when the limit makes
\* slurmctld exit: what is being sent stays at the head of the queue.
THEOREM HeadInFlight ==
    ASSUME MaxDbdMsgAction = "exit" PROVE Spec => []InFlightQueued
  <1>1. MsgInv => InFlightQueued
    BY DEF MsgInv
  <1> QED BY <1>1, MsgInvariant, PTL

\* In the same setting no message leaves slurmctld without being recorded by
\* slurmdbd, written to dbd.messages or counted as lost.
THEOREM NoMessageVanishes ==
    ASSUME MaxDbdMsgAction = "exit" PROVE Spec => []NothingVanishes
  <1>1. MsgInv => NothingVanishes
    BY DEF MsgInv
  <1> QED BY <1>1, MsgInvariant, PTL
-----------------------------------------------------------------------------
(* The order.  A message is delivered from the head of the queue, so it is   *)
(* enough that the queue has no gaps: whatever is older than a message of    *)
(* the queue and not settled stands in the queue before it.  The state file  *)
(* has to have no gaps either, as it becomes the queue of the next start.    *)

Settled == delivered \cup lost

Gapless(q, done) ==
    \A p \in 1..Len(q) : \A i \in 1..(q[p].id - 1) :
        i \in done \/ \E r \in 1..(p - 1) : q[r].id = i

OrderInv == InOrder /\ Gapless(agent_list, Settled) /\ Gapless(file, Settled)

LEMMA GapMore ==
    ASSUME NEW q \in Seq(Msg), NEW D, NEW E, D \subseteq E, Gapless(q, D)
    PROVE  Gapless(q, E)
  BY DEF Gapless

LEMMA GapNone == ASSUME NEW D PROVE Gapless(<<>>, D)
  BY DEF Gapless

\* _save_dbd_state writes a prefix.
LEMMA GapPrefix ==
    ASSUME NEW q \in Seq(Msg), NEW D, NEW k \in 0..Len(q), Gapless(q, D)
    PROVE  Gapless(SubSeq(q, 1, k), D)
  <1> DEFINE s == SubSeq(q, 1, k)
  <1>1. Len(s) = k /\ \A i \in 1..k : s[i] = q[i]
    BY Prefix
  <1> HIDE DEF s
  <1> SUFFICES ASSUME NEW p \in 1..k, NEW i \in 1..(s[p].id - 1), i \notin D
               PROVE  \E r \in 1..(p - 1) : s[r].id = i
    BY <1>1 DEF Gapless, s
  <1>2. p \in 1..Len(q) /\ i \in 1..(q[p].id - 1)
    BY <1>1
  <1>3. PICK r \in 1..(p - 1) : q[r].id = i
    BY <1>2 DEF Gapless
  <1>4. r \in 1..k
    OBVIOUS
  <1> QED BY <1>1, <1>3, <1>4

\* _get_return_codes takes settled messages off the head.
LEMMA GapSuffix ==
    ASSUME NEW q \in Seq(Msg), NEW D, NEW k \in 0..Len(q), Gapless(q, D),
           \A i \in 1..k : q[i].id \in D
    PROVE  Gapless(SubSeq(q, k + 1, Len(q)), D)
  <1> DEFINE s == SubSeq(q, k + 1, Len(q))
  <1>1. Len(s) = Len(q) - k /\ \A i \in 1..(Len(q) - k) : s[i] = q[k + i]
    BY Suffix
  <1> HIDE DEF s
  <1> SUFFICES ASSUME NEW p \in 1..(Len(q) - k), NEW i \in 1..(s[p].id - 1), i \notin D
               PROVE  \E r \in 1..(p - 1) : s[r].id = i
    BY <1>1 DEF Gapless, s
  <1>2. k + p \in 1..Len(q) /\ i \in 1..(q[k + p].id - 1)
    BY <1>1
  <1>3. PICK r \in 1..(k + p - 1) : q[r].id = i
    BY <1>2 DEF Gapless
  <1>4. r > k
    BY <1>3
  <1>5. r - k \in 1..(p - 1) /\ s[r - k] = q[r]
    BY <1>1, <1>4
  <1> QED BY <1>3, <1>5

LEMMA GapTail ==
    ASSUME NEW q \in Seq(Msg), NEW D, q # <<>>, Gapless(q, D), q[1].id \in D
    PROVE  Gapless(Tail(q), D)
  <1>1. Len(q) \in Nat /\ 1 \in 0..Len(q)
    OBVIOUS
  <1>2. Tail(q) = SubSeq(q, 1 + 1, Len(q))
    OBVIOUS
  <1>3. \A i \in 1..1 : q[i].id \in D
    OBVIOUS
  <1> QED BY <1>1, <1>2, <1>3, GapSuffix

\* list_enqueue of the newest message.
LEMMA GapAppend ==
    ASSUME NEW q \in Seq(Msg), NEW m \in Msg, NEW D, Gapless(q, D),
           \A i \in 1..(m.id - 1) : i \in D \cup Ids(q)
    PROVE  Gapless(Append(q, m), D)
  <1> DEFINE s == Append(q, m)
  <1>1. Len(s) = Len(q) + 1 /\ s[Len(q) + 1] = m /\ Len(q) \in Nat
        /\ \A i \in 1..Len(q) : s[i] = q[i]
    OBVIOUS
  <1> HIDE DEF s
  <1> SUFFICES ASSUME NEW p \in 1..(Len(q) + 1), NEW i \in 1..(s[p].id - 1), i \notin D
               PROVE  \E r \in 1..(p - 1) : s[r].id = i
    BY <1>1 DEF Gapless, s
  <1>2. CASE p \in 1..Len(q)
    <2>1. PICK r \in 1..(p - 1) : q[r].id = i
      BY <1>1, <1>2 DEF Gapless
    <2>2. r \in 1..Len(q)
      BY <1>2
    <2> QED BY <1>1, <2>1, <2>2
  <1>3. CASE p = Len(q) + 1
    <2>1. i \in Ids(q)
      BY <1>1, <1>3
    <2>2. PICK r \in 1..Len(q) : q[r].id = i
      BY <2>1, IdsDef
    <2> QED BY <1>1, <1>3, <2>2
  <1> QED BY <1>1, <1>2, <1>3

\* The file is loaded behind a queue.
LEMMA GapConcat ==
    ASSUME NEW q \in Seq(Msg), NEW s \in Seq(Msg), NEW D, Gapless(q, D), Gapless(s, D)
    PROVE  Gapless(q \o s, D)
  <1> DEFINE t == q \o s
  <1>1. Len(t) = Len(q) + Len(s) /\ Len(q) \in Nat /\ Len(s) \in Nat
        /\ \A i \in 1..Len(q) : t[i] = q[i]
    OBVIOUS
  <1>4. ASSUME NEW u \in 1..Len(s) PROVE t[Len(q) + u] = s[u]
    <2>1. Len(q) + u \in 1..(Len(q) + Len(s)) /\ Len(q) + u > Len(q)
      BY <1>1
    <2> QED BY <1>1, <2>1
  <1> HIDE DEF t
  <1> SUFFICES ASSUME NEW p \in 1..Len(t), NEW i \in 1..(t[p].id - 1), i \notin D
               PROVE  \E r \in 1..(p - 1) : t[r].id = i
    BY DEF Gapless, t
  <1>2. CASE p \in 1..Len(q)
    <2>1. PICK r \in 1..(p - 1) : q[r].id = i
      BY <1>1, <1>2 DEF Gapless
    <2>2. r \in 1..Len(q)
      BY <1>2
    <2> QED BY <1>1, <2>1, <2>2
  <1>3. CASE p \notin 1..Len(q)
    <2>1. PICK u \in 1..Len(s) : p = Len(q) + u
      <3>1. p - Len(q) \in 1..Len(s) /\ p = Len(q) + (p - Len(q))
        BY <1>1, <1>3
      <3> QED BY <3>1
    <2>2. t[p] = s[u]
      BY <1>4, <2>1
    <2>3. PICK r \in 1..(u - 1) : s[r].id = i
      BY <2>2 DEF Gapless
    <2>4. r \in 1..Len(s) /\ Len(q) + r \in 1..(p - 1)
      BY <1>1, <2>1
    <2>5. t[Len(q) + r].id = i
      BY <1>4, <2>3, <2>4
    <2> QED BY <2>4, <2>5
  <1> QED BY <1>2, <1>3

\* slurmdbd records a prefix of what is at the head of the queue.
LEMMA DeliverInOrder ==
    ASSUME DataType, OrderInv, IsHead(inflight, agent_list),
           NEW j \in 0..Len(inflight), lost' = lost,
           delivered' = delivered \cup Ids(SubSeq(inflight, 1, j))
    PROVE  InOrder'
  <1> SUFFICES ASSUME NEW d \in delivered', NEW i \in 1..(d - 1)
               PROVE  i \in delivered' \cup lost
    BY DEF InOrder
  <1> DEFINE s == SubSeq(inflight, 1, j)
  <1>1. s \in Seq(Msg) /\ Len(s) = j /\ \A p \in 1..j : s[p] = inflight[p]
    BY Prefix DEF DataType
  <1>2. Ids(s) = {s[p].id : p \in 1..j}
    BY <1>1, IdsDef
  <1> HIDE DEF s
  <1>3. \A p \in 1..j : /\ p \in 1..Len(agent_list) /\ agent_list[p] = s[p]
                        /\ agent_list[p].id \in Ids(s)
    <2>1. Len(inflight) \in Nat /\ Len(agent_list) \in Nat
      BY DEF DataType
    <2> QED BY <1>1, <1>2, <2>1 DEF IsHead
  <1>4. CASE d \in delivered
    BY <1>4 DEF OrderInv, InOrder
  <1>5. CASE d \in Ids(s)
    <2>1. PICK p \in 1..j : d = s[p].id
      BY <1>2, <1>5
    <2>2. \/ i \in Settled
          \/ \E r \in 1..(p - 1) : agent_list[r].id = i
      BY <1>3, <2>1 DEF OrderInv, Gapless
    <2>3. \A r \in 1..(p - 1) : r \in 1..j
      OBVIOUS
    <2> QED BY <1>3, <2>2, <2>3 DEF Settled, s
  <1> QED BY <1>4, <1>5 DEF s

\* A step that delivers nothing.
LEMMA NothingDelivered ==
    ASSUME InOrder, delivered' = delivered, lost \subseteq lost'
    PROVE  InOrder' /\ Settled \subseteq Settled'
  BY DEF InOrder, Settled

LEMMA OrderQuiet ==
    ASSUME OrderInv, UNCHANGED <<queueVars, histVars>>
    PROVE  OrderInv'
  BY DEF OrderInv, InOrder, Gapless, Settled, queueVars, histVars

\* _save_dbd_state, and no queue in memory any more.
LEMMA OrderSaved ==
    ASSUME DataType, OrderInv, NEW q \in Seq(Msg), Gapless(q, Settled),
           NEW k \in Saveable(q), SaveDbdState(q, k), agent_list' = <<>>,
           delivered' = delivered, lost \subseteq lost'
    PROVE  OrderInv'
  <1>1. k \in 0..Len(q) /\ file' = SubSeq(q, 1, k)
    BY DEF Saveable, SaveDbdState
  <1>2. InOrder' /\ Settled \subseteq Settled'
    BY NothingDelivered DEF OrderInv
  <1>3. Gapless(file', Settled) /\ file' \in Seq(Msg)
    BY <1>1, GapPrefix, Prefix
  <1>4. Gapless(file', Settled')
    BY <1>2, <1>3, GapMore
  <1>5. Gapless(agent_list', Settled')
    BY GapNone
  <1> QED BY <1>2, <1>4, <1>5 DEF OrderInv, Gapless

LEMMA OrderFatal ==
    ASSUME DataType, OrderInv, NEW q \in Seq(Msg), Gapless(q, Settled),
           NEW also, Fatal(q, also), delivered' = delivered
    PROVE  OrderInv'
  <1>1. PICK k \in Saveable(q) : /\ SaveDbdState(q, k)
                                 /\ lost' = lost \cup Unsaved(q, k) \cup also
                                 /\ ProcessEnds
    BY DEF Fatal
  <1>2. agent_list' = <<>> /\ lost \subseteq lost'
    BY <1>1 DEF ProcessEnds
  <1> QED BY <1>1, <1>2, OrderSaved

\* slurmdbd_agent_send: everything older is settled or in the queue already.
LEMMA OrderEnqueue ==
    ASSUME MaxDbdMsgAction = "exit", DataType, DataType', MsgInv, OrderInv,
           NEW t \in MsgTypes, Enqueue(t), file' = file, delivered' = delivered
    PROVE  OrderInv'
  <1> DEFINE m == [id |-> nextId, type |-> t]
  <1>1. SenderList \in Seq(Msg) /\ Purge(SenderList) = SenderList /\ m \in Msg
    BY DEF SenderList, Purge, DataType, Msg
  <1>2. Gapless(SenderList, Settled)
    BY DEF OrderInv, SenderList
  <1>3. \A i \in 1..(m.id - 1) : i \in Settled \cup Ids(SenderList)
    BY DEF MsgInv, NothingVanishes, Kept, SenderList, Settled
  <1>4. lost \subseteq lost' /\ agent_list' \in {SenderList, Append(SenderList, m)}
    BY <1>1 DEF Enqueue, Place
  <1>5. InOrder' /\ Settled \subseteq Settled'
    BY <1>4, NothingDelivered DEF OrderInv
  <1>6. Gapless(Append(SenderList, m), Settled)
    BY <1>1, <1>2, <1>3, GapAppend
  <1> HIDE DEF m
  <1>7. Gapless(agent_list', Settled)
    BY <1>2, <1>4, <1>6
  <1>8. Gapless(agent_list', Settled') /\ Gapless(file, Settled')
    BY <1>5, <1>7, GapMore DEF DataType, OrderInv
  <1> QED BY <1>5, <1>8 DEF OrderInv, Gapless

LEMMA OrderStep ==
    ASSUME MaxDbdMsgAction = "exit", DataType, DataType', MsgInv, OrderInv, [Next]_vars
    PROVE  OrderInv'
  <1>0. agent_list \in Seq(Msg) /\ file \in Seq(Msg) /\ SenderList \in Seq(Msg)
        /\ Gapless(agent_list, Settled) /\ Gapless(file, Settled)
        /\ Gapless(SenderList, Settled)
    BY DEF DataType, OrderInv, SenderList
  <1>1. ASSUME NEW t \in SendTypes, Send(t) PROVE OrderInv'
    <2>1. t \in MsgTypes /\ delivered' = delivered
      BY <1>1, DbdAssumption DEF Send
    <2>2. CASE Overflow(SenderList)
      BY <1>0, <1>1, <2>1, <2>2, OrderFatal DEF Send
    <2>3. CASE ~Overflow(SenderList)
      BY <1>1, <2>1, <2>3, OrderEnqueue DEF Send
    <2> QED BY <2>2, <2>3
  <1>2. CASE AgentStart \/ AgentLoop \/ AgentLock \/ AgentRelock \/ AgentTimeout
             \/ AgentReconnect \/ AgentTake \/ AgentSent \/ AgentSendFailed
    BY <1>2, OrderQuiet
       DEF AgentStart, AgentLoop, AgentLock, AgentRelock, AgentTimeout,
           AgentReconnect, AgentTake, AgentSent, AgentSendFailed
  <1>3. CASE AgentSingleReply \/ AgentJobLock \/ AgentJobGone \/ FailExpires
    BY <1>3, OrderQuiet
       DEF AgentSingleReply, AgentJobLock, AgentJobGone, FailExpires
  <1>4. CASE AgentIdle
    <2>1. CASE Overflow(agent_list)
      BY <1>0, <1>4, <2>1, OrderFatal DEF AgentIdle
    <2>2. CASE ~Overflow(agent_list)
      <3>1. agent_list' = agent_list /\ lost' = lost
        BY <1>4, <2>2 DEF AgentIdle, Purge
      <3> QED BY <1>4, <2>2, <3>1, OrderQuiet DEF AgentIdle, queueVars, histVars
    <2> QED BY <2>1, <2>2
  <1>5. CASE AgentMultReply
    <2>1. pc = "recv" /\ agent_list' = SubSeq(agent_list, reply + 1, Len(agent_list))
          /\ UNCHANGED <<file, delivered, lost>>
      BY <1>5 DEF AgentMultReply, AfterMultReply, histVars
    <2>2. reply \in 0..Len(agent_list) /\ \A i \in 1..reply : agent_list[i].id \in Settled
      <3>1. reply \in 0..Len(inflight)
        BY <1>5 DEF AgentMultReply, DataType, NoReply
      <3>2. IsHead(inflight, agent_list)
            /\ \A i \in 1..reply : inflight[i].id \in delivered
        BY <2>1 DEF MsgInv, InFlightQueued, RpcInv
      <3>3. Len(inflight) \in Nat /\ Len(agent_list) \in Nat
        BY DEF DataType
      <3>4. reply \in 0..Len(agent_list)
        BY <3>1, <3>2, <3>3 DEF IsHead
      <3>5. \A i \in 1..reply : inflight[i] = agent_list[i]
        BY <3>1, <3>2, <3>3 DEF IsHead
      <3> QED BY <3>2, <3>4, <3>5 DEF Settled
    <2>3. Gapless(agent_list', Settled)
      BY <1>0, <2>1, <2>2, GapSuffix
    <2>4. InOrder' /\ Settled' = Settled
      BY <2>1, NothingDelivered DEF OrderInv, Settled
    <2>5. Gapless(agent_list', Settled') /\ Gapless(file', Settled')
      BY <1>0, <2>1, <2>3, <2>4
    <2> QED BY <2>4, <2>5 DEF OrderInv, Gapless
  <1>6. CASE AgentFinish
    <2>1. pc = "finish" /\ agent_list' = AfterRpc /\ UNCHANGED <<file, delivered, lost>>
      BY <1>6 DEF AgentFinish, histVars
    <2>2. Gapless(agent_list', Settled)
      <3>1. CASE ok /\ ~mult /\ agent_list # <<>>
        <4>1. agent_list[1].id \in Settled
          BY <2>1, <3>1 DEF MsgInv, InFlightQueued, RpcInv, IsHead, Settled
        <4> QED BY <1>0, <2>1, <3>1, <4>1, GapTail DEF AfterRpc
      <3>2. CASE ~(ok /\ ~mult /\ agent_list # <<>>)
        BY <1>0, <2>1, <3>2 DEF AfterRpc
      <3> QED BY <3>1, <3>2
    <2>3. InOrder' /\ Settled' = Settled
      BY <2>1, NothingDelivered DEF OrderInv, Settled
    <2> QED BY <1>0, <2>1, <2>2, <2>3 DEF OrderInv, Gapless
  <1>7. CASE AgentReplyLost \/ DbdProcess
    <2>1. pc = "recv" /\ lost' = lost /\ UNCHANGED <<agent_list, file>>
      BY <1>7 DEF AgentReplyLost, DbdProcess, queueVars
    <2>2. PICK j \in 0..Len(inflight) :
              delivered' = delivered \cup Ids(SubSeq(inflight, 1, j))
      BY <1>7 DEF AgentReplyLost, DbdProcess
    <2>3. IsHead(inflight, agent_list)
      BY <2>1 DEF MsgInv, InFlightQueued
    <2>4. InOrder'
      BY <2>1, <2>2, <2>3, DeliverInOrder
    <2>5. Settled \subseteq Settled'
      BY <2>1, <2>2 DEF Settled
    <2>6. Gapless(agent_list, Settled') /\ Gapless(file, Settled')
      BY <1>0, <2>5, GapMore
    <2> QED BY <2>1, <2>4, <2>6 DEF OrderInv, Gapless
  <1>8. CASE AgentHeavy
    <2>1. "other" \in MsgTypes /\ delivered' = delivered
      BY <1>8 DEF AgentHeavy, MsgTypes
    <2>2. CASE Overflow(agent_list)
      BY <1>0, <1>8, <2>1, <2>2, OrderFatal DEF AgentHeavy
    <2>3. CASE ~Overflow(agent_list)
      BY <1>8, <2>1, <2>3, OrderEnqueue DEF AgentHeavy
    <2> QED BY <2>2, <2>3
  <1>9. CASE AgentExit
    <2>1. PICK k \in Saveable(agent_list) :
              /\ SaveDbdState(agent_list, k)
              /\ lost' = lost \cup Unsaved(agent_list, k)
      BY <1>9 DEF AgentExit
    <2>2. agent_list' = <<>> /\ delivered' = delivered /\ lost \subseteq lost'
      BY <1>9, <2>1 DEF AgentExit
    <2> QED BY <1>0, <2>1, <2>2, OrderSaved
  <1>10. CASE SendNullConn \/ AgentNullConn \/ MainReturns \/ Crash
    <2>1. agent_list' = <<>> /\ file' = file /\ delivered' = delivered
          /\ lost \subseteq lost'
      BY <1>10 DEF SendNullConn, AgentNullConn, MainReturns, Crash, Dies, ProcessEnds
    <2>2. InOrder' /\ Settled \subseteq Settled'
      BY <2>1, NothingDelivered DEF OrderInv
    <2>3. Gapless(<<>>, Settled') /\ Gapless(file, Settled')
      BY <1>0, <2>2, GapMore, GapNone
    <2> QED BY <2>1, <2>2, <2>3 DEF OrderInv, Gapless
  <1>11. ASSUME NEW r \in Requesters, ReqNext(r) PROVE OrderInv'
    BY <1>11, OrderQuiet DEF ReqNext, ReqHalt, ReqLock, ReqRpc
  <1>12. CASE OpenConn \/ ShutdownAgent \/ RemConn \/ ShutdownWake \/ ShutdownJoin
    BY <1>12, OrderQuiet
       DEF OpenConn, ShutdownAgent, RemConn, ShutdownWake, ShutdownJoin
  <1>13. CASE SetConnAgent
    <2>1. agent_list' \in {SenderList, agent_list \o file}
          /\ UNCHANGED <<file, delivered, lost>>
      BY <1>13 DEF SetConnAgent, histVars
    <2>2. Gapless(agent_list', Settled)
      BY <1>0, <2>1, GapConcat
    <2>3. InOrder' /\ Settled' = Settled
      BY <2>1, NothingDelivered DEF OrderInv, Settled
    <2> QED BY <1>0, <2>1, <2>2, <2>3 DEF OrderInv, Gapless
  <1>14. CASE Terminated \/ UNCHANGED vars
    BY <1>14, OrderQuiet DEF Terminated, vars
  <1> QED
    BY <1>1, <1>2, <1>3, <1>4, <1>5, <1>6, <1>7, <1>8, <1>9, <1>10, <1>11, <1>12,
       <1>13, <1>14
       DEF Next, AgentNext, MainNext

\* slurmdbd learns of the messages in the order they were queued in, for every
\* batch size, with any number of restarts, answers lost and replays of
\* dbd.messages: a message is recorded only when all older ones are recorded or
\* counted as lost.
THEOREM DeliveredInOrder ==
    ASSUME MaxDbdMsgAction = "exit" PROVE Spec => []InOrder
  <1>1. Init => OrderInv
    BY DEF Init, OrderInv, InOrder, Gapless
  <1>2. /\ PlaceType /\ DataType /\ MsgInv
        /\ (PlaceType /\ DataType /\ MsgInv)'
        /\ OrderInv /\ [Next]_vars
        => OrderInv'
    BY OrderStep
  <1>3. OrderInv => InOrder
    BY DEF OrderInv
  <1> QED BY <1>1, <1>2, <1>3, MsgInvariant, PTL DEF Spec
\* max_dbd_msg_action=exit: the test of _max_dbd_msg_action and the one made after
\* it agree for every queue, so a message is in the queue when
\* slurmdbd_agent_send returns, or slurmctld is gone.
THEOREM QueuedOrGone == Spec => SendQueuesOrExits
  <1> DEFINE Inv == PlaceType /\ DataType /\ MsgInv
             Step == nextId' # nextId /\ MaxDbdMsgAction = "exit"
                     => nextId \in Ids(agent_list') \/ phase' = "closed"
  <1>1. ASSUME MaxDbdMsgAction = "exit", Inv, [Next]_vars PROVE Step
    <2> SUFFICES ASSUME nextId' # nextId PROVE nextId \in Ids(agent_list') \/ phase' = "closed"
      OBVIOUS
    <2>1. \A q, also : Fatal(q, also) => phase' = "closed"
      BY DEF Fatal, ProcessEnds
    <2>2. ASSUME NEW t \in MsgTypes, Enqueue(t), ~Overflow(SenderList)
          PROVE  nextId \in Ids(agent_list')
      <3> DEFINE m == [id |-> nextId, type |-> t]
      <3>1. SenderList \in Seq(Msg) /\ Purge(SenderList) = SenderList /\ m \in Msg
        BY <1>1 DEF SenderList, Purge, DataType, Msg
      <3>2. Fits(SenderList)
        <4>1. Len(SenderList) \in Nat /\ MaxDbdMsgs \in Nat
          BY <3>1, DbdAssumption
        <4> QED BY <1>1, <2>2, <4>1 DEF Overflow, Fits
      <3>3. agent_list' = Append(SenderList, m)
        BY <2>2, <3>1, <3>2 DEF Enqueue, Place
      <3> QED BY <3>1, <3>3, IdsAppend
    <2>3. ASSUME NEW t \in SendTypes, Send(t) PROVE nextId \in Ids(agent_list') \/ phase' = "closed"
      <3>1. t \in MsgTypes
        BY DbdAssumption
      <3> QED BY <2>1, <2>2, <2>3, <3>1 DEF Send
    <2>4. CASE AgentHeavy
      <3>1. SenderList = agent_list /\ "other" \in MsgTypes
        BY <1>1, <2>4 DEF AgentHeavy, MsgInv, Listed, AgentAlive, AgentPcs, SenderList,
           MsgTypes
      <3> QED BY <2>1, <2>2, <2>4, <3>1 DEF AgentHeavy
    <2>9. CASE SendNullConn
      BY <2>9 DEF SendNullConn, Dies, ProcessEnds
    <2>5. ASSUME NEW r \in Requesters, ReqNext(r) PROVE FALSE
      BY <2>5 DEF ReqNext, ReqHalt, ReqLock, ReqRpc, histVars
    <2>6. ~MainNext /\ ~DbdProcess /\ ~FailExpires /\ ~Crash /\ ~Terminated
      BY DEF MainNext, OpenConn, SetConnAgent, ShutdownAgent, ShutdownWake, ShutdownJoin,
         RemConn, MainReturns, DbdProcess, FailExpires, Crash, Terminated, histVars, vars
    <2>7. AgentNext => AgentHeavy
      BY DEF AgentNext, AgentStart, AgentLoop, AgentLock, AgentRelock, AgentReconnect,
         AgentIdle, AgentTimeout, AgentTake, AgentSent, AgentSendFailed, AgentMultReply,
         AgentSingleReply, AgentReplyLost, AgentJobLock, AgentJobGone, AgentFinish,
         AgentExit, AgentNullConn, histVars
    <2>8. Next
      BY <1>1 DEF vars, histVars
    <2> QED BY <2>3, <2>4, <2>5, <2>6, <2>7, <2>8, <2>9 DEF Next
  <1>2. CASE MaxDbdMsgAction = "exit"
    <2>1. Inv /\ [Next]_vars => [Step]_vars
      BY <1>1, <1>2
    <2>2. Spec => []Inv
      BY <1>2, MsgInvariant
    <2> QED BY <2>1, <2>2, PTL DEF Spec, SendQueuesOrExits
  <1>3. CASE MaxDbdMsgAction # "exit"
    <2>1. [Next]_vars => [Step]_vars
      BY <1>3
    <2> QED BY <2>1, PTL DEF Spec, SendQueuesOrExits
  <1> QED BY <1>2, <1>3
=============================================================================
