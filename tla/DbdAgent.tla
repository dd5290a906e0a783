------------------------------ MODULE DbdAgent ------------------------------
(***************************************************************************)
(* The accounting agent of slurmctld                                       *)
(* (plugins/accounting_storage/slurmdbd/slurmdbd_agent.c): a queue of      *)
(* accounting messages, the thread that sends it to slurmdbd in batches,   *)
(* the threads that append to it (slurmdbd_agent_send), the threads that   *)
(* borrow the same connection for a synchronous call                       *)
(* (slurmdbd_agent_send_recv), and the main thread that opens and closes   *)
(* the connection.                                                         *)
(*                                                                         *)
(* agent_lock only covers short sections, so every section it covers is    *)
(* one action.  slurmdbd_lock is held across the send and the receive and  *)
(* is a variable.  The two histories delivered and lost are the model's    *)
(* own: what slurmdbd has recorded, and what the code discards on purpose  *)
(* or loses with the process.                                              *)
(***************************************************************************)
EXTENDS Integers, Sequences, Subsequences

CONSTANTS
    Requesters,      \* threads that call slurmdbd_agent_send_recv()
    JobLocked,       \* the ones that hold the job write lock when they do
    SendTypes,       \* types of the messages slurmctld queues
    ScriptReplies,   \* TRUE: slurmdbd may answer JOB_SEND_SCRIPT (SJS/SJE)
    MaxDbdMsgs,      \* slurm_conf.max_dbd_msgs
    MaxDbdMsgAction, \* max_dbd_msg_action: "discard" or "exit"
    MaxBatch,        \* max_rpcs of one DBD_SEND_MULT_MSG
    MaxId,           \* bound: messages ever queued
    MaxFaults,       \* bound: failed connects, sends, replies and writes
    MaxCrashes,      \* bound: crashes of slurmctld
    MaxReqs,         \* bound: synchronous calls
    MaxOpens         \* bound: times the connection is opened

MsgTypes == {"step", "start", "other"}

ASSUME DbdAssumption ==
    /\ "free" \notin Requesters /\ "agent" \notin Requesters
    /\ JobLocked \subseteq Requesters
    /\ SendTypes \subseteq MsgTypes
    /\ ScriptReplies \in BOOLEAN
    /\ MaxDbdMsgs \in Nat \ {0} /\ MaxBatch \in Nat \ {0}
    /\ MaxDbdMsgAction \in {"discard", "exit"}
    /\ MaxId \in Nat /\ MaxFaults \in Nat /\ MaxCrashes \in Nat
    /\ MaxReqs \in Nat /\ MaxOpens \in Nat

VARIABLES
    agent_list, \* the queue, oldest message first
    listed,     \* agent_list # NULL
    file,       \* contents of StateSaveLocation/dbd.messages
    conn,       \* slurmdbd_conn # NULL
    tls,        \* slurmdbd_conn->tls_conn # NULL
    fail,       \* fail_time is less than 10 seconds ago
    shutdown,   \* slurmdbd_shutdown # 0
    halt,       \* halt_agent
    lock,       \* holder of slurmdbd_lock
    jobLock,    \* holder of the job write lock, of those modelled here
    pc,         \* where the agent thread is; "none" when agent_tid = 0
    inflight,   \* the messages of the RPC being sent
    mult,       \* it is a DBD_SEND_MULT_MSG (list_msg.my_list # NULL)
    reply,      \* NoReply, or how many of inflight slurmdbd reports done
    ok,         \* rc = SLURM_SUCCESS
    scripts,    \* id_rc_list: the messages whose job script slurmdbd wants
    phase,      \* where the main thread is in opening and closing
    req,        \* where each requester is
    nextId, delivered, lost,        \* histories
    faults, crashes, reqs, opens    \* counters of the bounds

queueVars == <<agent_list, listed, file>>
connVars  == <<conn, tls, fail>>
sendVars  == <<inflight, mult, reply, ok, scripts>>
histVars  == <<nextId, delivered, lost>>
bounds    == <<faults, crashes, reqs, opens>>
vars == <<queueVars, connVars, shutdown, halt, lock, jobLock, pc, sendVars,
          phase, req, histVars, bounds>>

NoReply == -1
Msg     == [id : Nat \ {0}, type : MsgTypes]
Ids(q)  == {q[i].id : i \in DOMAIN q}

\* The agent thread is between its creation and its return.
AgentPcs == {"start", "top", "want", "halted", "woken", "locked", "ready",
             "sleep", "send", "recv", "heavy", "script", "finish", "exit"}
AgentAlive == pc \in AgentPcs

\* Threads of slurmctld call the plugin: none does before the connection is
\* open, but nothing stops them while it is closed, nor after that (the power
\* save thread ends later, slurmctld/controller.c:1033-1037).
Serving == phase \in {"open", "waking", "joining", "unset", "removed"}

-----------------------------------------------------------------------------
(* Failures the environment may still inject. *)

CanFail == faults < MaxFaults
Fault   == faults' = faults + 1 /\ UNCHANGED <<crashes, reqs, opens>>

\* The lengths of the prefix of q that _save_dbd_state can leave in the file:
\* it stops at the first write that fails.
Saveable(q) == IF CanFail THEN 0..Len(q) ELSE {Len(q)}

\* _save_dbd_state: the file is replaced by the first k messages of q.  (It
\* skips DBD_REGISTER_CTLD, which no caller of slurmdbd_agent_send queues: the
\* registration is a synchronous call, accounting_storage_slurmdbd.c:2574.)
SaveDbdState(q, k) ==
    /\ file' = SubSeq(q, 1, k)
    /\ IF k = Len(q) THEN UNCHANGED bounds ELSE Fault

Unsaved(q, k) == Ids(SubSeq(q, k + 1, Len(q)))

\* Everything slurmctld holds in memory is gone.  The next process starts with
\* its connection closed.
ProcessEnds ==
    /\ agent_list' = <<>> /\ listed' = FALSE
    /\ conn' = FALSE /\ tls' = FALSE /\ fail' = FALSE
    /\ shutdown' = FALSE /\ halt' = FALSE
    /\ lock' = "free" /\ jobLock' = "free"
    /\ pc' = "none" /\ phase' = "closed"
    /\ inflight' = <<>> /\ mult' = FALSE /\ reply' = NoReply /\ ok' = FALSE
    /\ scripts' = {}
    /\ req' = [r \in Requesters |-> "idle"]

\* The process ends without _save_dbd_state.
Dies(also) ==
    /\ lost' = lost \cup (Ids(agent_list) \ Ids(file)) \cup also
    /\ ProcessEnds
    /\ UNCHANGED <<file, delivered>>

-----------------------------------------------------------------------------
(* The queue. *)

\* _purge_agent_list_req with purge_type DBD_STEP_START keeps the others.
NotStep(m) == m.type # "step"

\* Mutant: the limit is only noticed above MaxDBDMsgs.
OverflowLate(q) == MaxDbdMsgAction = "exit" /\ Len(q) > MaxDbdMsgs

\* _max_dbd_msg_action, exit: the process is about to call fatal().
Overflow(q) == MaxDbdMsgAction = "exit" /\ Len(q) >= MaxDbdMsgs

\* _max_dbd_msg_action, discard: step records are purged near the limit.
Purge(q) ==
    IF MaxDbdMsgAction = "discard" /\ Len(q) >= MaxDbdMsgs - 1
    THEN Subsequence(q, {i \in DOMAIN q : NotStep(q[i])})
    ELSE q

\* _max_dbd_msg_action, exit: save the queue and leave.
Fatal(q, also) ==
    \E k \in Saveable(q) :
        /\ SaveDbdState(q, k)
        /\ lost' = lost \cup Unsaved(q, k) \cup also
        /\ ProcessEnds

\* Mutant: the file is loaded although there is a queue already.
SenderListAgain == agent_list \o file

\* The queue a sender finds: _create_agent loads the file when there is none.
SenderList == IF listed THEN agent_list ELSE file

Fits(q) == Len(q) < MaxDbdMsgs

\* Mutant: list_push.
PlaceFirst(q, m) == <<m>> \o q

\* list_enqueue.
Place(q, m) == Append(q, m)

\* slurmdbd_agent_send with the queue not over the limit of "exit".
Enqueue(t) ==
    LET q == Purge(SenderList)
        m == [id |-> nextId, type |-> t]
    IN  /\ agent_list' = IF Fits(q) THEN Place(q, m) ELSE q
        /\ listed' = TRUE
        /\ lost' = lost \cup (Ids(SenderList) \ Ids(q))
                        \cup (IF Fits(q) THEN {} ELSE {nextId})

\* _create_agent in a sender: the thread is started when there is none, and
\* slurmdbd_shutdown is cleared when the thread or the queue is missing.
CreateAgent ==
    /\ pc' = IF pc = "none" THEN "start" ELSE pc
    /\ shutdown' = IF pc = "none" \/ ~listed THEN FALSE ELSE shutdown

\* The agent waiting on agent_cond returns from the wait.
WakeSleeper == pc' = IF pc = "sleep" THEN "top" ELSE pc

\* slurmdbd_agent_send() from agent_lock on.  The message was packed before,
\* so slurmdbd_conn may have been cleared since.
Send(t) ==
    /\ Serving /\ nextId <= MaxId
    /\ nextId' = nextId + 1
    /\ IF Overflow(SenderList)
       THEN Fatal(SenderList, {nextId})
       ELSE /\ Enqueue(t)
            /\ IF pc = "none" \/ ~listed
               THEN CreateAgent
               ELSE WakeSleeper /\ UNCHANGED shutdown
            /\ UNCHANGED <<file, connVars, halt, lock, jobLock, sendVars,
                           phase, req, bounds>>
    /\ UNCHANGED delivered

\* slurmdbd_agent_send() finds slurmdbd_conn = NULL when it packs the message
\* or calls one of the triggers: the process dies of the access.
SendNullConn ==
    /\ Serving /\ ~conn /\ nextId <= MaxId
    /\ nextId' = nextId + 1
    /\ Dies({nextId})
    /\ UNCHANGED bounds

-----------------------------------------------------------------------------
(* The agent thread, _agent(). *)

AgentStart ==
    /\ pc = "start" /\ pc' = "top"
    /\ UNCHANGED <<queueVars, connVars, shutdown, halt, lock, jobLock,
                   sendVars, phase, req, histVars, bounds>>

\* while (*slurmdbd_conn->shutdown == 0)
AgentLoop ==
    /\ pc = "top" /\ conn
    /\ pc' = IF shutdown THEN "exit" ELSE "want"
    /\ UNCHANGED <<queueVars, connVars, shutdown, halt, lock, jobLock,
                   sendVars, phase, req, histVars, bounds>>

\* slurmdbd_lock is taken; when a requester is waiting for it the agent gives
\* it up again in slurm_cond_wait(&slurmdbd_cond).
AgentLock ==
    /\ pc = "want" /\ lock = "free"
    /\ IF halt
       THEN pc' = "halted" /\ UNCHANGED lock
       ELSE pc' = "locked" /\ lock' = "agent"
    /\ UNCHANGED <<queueVars, connVars, shutdown, halt, jobLock, sendVars,
                   phase, req, histVars, bounds>>

\* The wait returns holding slurmdbd_lock; halt_agent is not looked at again.
AgentRelock ==
    /\ pc = "woken" /\ lock = "free"
    /\ pc' = "locked" /\ lock' = "agent"
    /\ UNCHANGED <<queueVars, connVars, shutdown, halt, jobLock, sendVars,
                   phase, req, histVars, bounds>>

\* Mutant: the agent waits for the failure to be recent, not old.
ReopenDueInverted == ~tls /\ fail

ReopenDue == ~tls /\ ~fail

\* dbd_conn_check_and_reopen when disconnected and not failed just now.  An
\* attempt made during the shutdown cannot succeed (_conn_readable).
AgentReconnect ==
    /\ pc = "locked" /\ conn /\ pc' = "ready"
    /\ \/ ~ReopenDue /\ UNCHANGED <<tls, fail, bounds>>
       \/ ReopenDue /\ ~shutdown /\ tls' = TRUE /\ UNCHANGED <<fail, bounds>>
       \/ ReopenDue /\ shutdown /\ fail' = TRUE /\ UNCHANGED <<tls, bounds>>
       \/ ReopenDue /\ ~shutdown /\ CanFail /\ Fault
          /\ fail' = TRUE /\ UNCHANGED tls
    /\ UNCHANGED <<queueVars, conn, shutdown, halt, lock, jobLock, sendVars,
                   phase, req, histVars>>

\* Nothing to send, or nowhere to send it: the agent looks after the limit of
\* the queue, and leaves the loop or waits for up to 10 seconds.
AgentIdle ==
    /\ pc = "ready" /\ (agent_list = <<>> \/ ~tls \/ fail)
    /\ IF Overflow(agent_list)
       THEN Fatal(agent_list, {})
       ELSE /\ agent_list' = Purge(agent_list)
            /\ lost' = lost \cup (Ids(agent_list) \ Ids(agent_list'))
            /\ lock' = "free"
            /\ pc' = IF shutdown THEN "exit" ELSE "sleep"
            /\ UNCHANGED <<listed, file, connVars, shutdown, halt, jobLock,
                           sendVars, phase, req, bounds>>
    /\ UNCHANGED <<nextId, delivered>>

\* The wait on agent_cond times out.
AgentTimeout ==
    /\ pc = "sleep" /\ pc' = "top"
    /\ UNCHANGED <<queueVars, connVars, shutdown, halt, lock, jobLock,
                   sendVars, phase, req, histVars, bounds>>

\* The lengths of a batch: at most MaxBatch messages, or fewer when the next
\* one would exceed MAX_MSG_SIZE; a lone message is sent as it is.
BatchSizes ==
    IF Len(agent_list) = 1 THEN {1}
    ELSE {k \in 1..Len(agent_list) : k <= MaxBatch}

\* The messages are packed, and stay on the queue.
AgentTake ==
    /\ pc = "ready" /\ agent_list # <<>> /\ tls /\ ~fail
    /\ pc' = "send"
    /\ mult' = (Len(agent_list) > 1)
    /\ \E k \in BatchSizes : inflight' = SubSeq(agent_list, 1, k)
    /\ reply' = NoReply
    /\ UNCHANGED <<queueVars, connVars, shutdown, halt, lock, jobLock, ok,
                   scripts, phase, req, histVars, bounds>>

\* slurm_persist_send_msg returned SLURM_SUCCESS.
AgentSent ==
    /\ pc = "send" /\ ~shutdown /\ pc' = "recv"
    /\ UNCHANGED <<queueVars, connVars, shutdown, halt, lock, jobLock,
                   sendVars, phase, req, histVars, bounds>>

\* It failed: the connection was reopened or is gone.  slurmdbd_lock is
\* released; during the shutdown the agent leaves the loop.
AgentSendFailed ==
    /\ pc = "send"
    /\ IF shutdown THEN UNCHANGED bounds ELSE CanFail /\ Fault
    /\ pc' = IF shutdown THEN "exit" ELSE "finish"
    /\ ok' = FALSE /\ tls' \in BOOLEAN
    /\ lock' = "free"
    /\ UNCHANGED <<queueVars, conn, fail, shutdown, halt, jobLock, inflight,
                   mult, reply, scripts, phase, req, histVars>>

\* slurmdbd processes the messages in order up to the first one that fails
\* (proc_req.c _send_mult_msg) and answers.  It goes on after one that changed
\* nothing (SLURM_NO_CHANGE_IN_DATA), which the agent takes for a failure: the
\* agent sees fewer successes (k) than there were messages processed (j).
DbdProcess ==
    /\ pc = "recv" /\ reply = NoReply
    /\ \E j \in 0..Len(inflight), k \in 0..Len(inflight) :
        /\ k <= j
        /\ reply' = k
        /\ delivered' = delivered \cup Ids(SubSeq(inflight, 1, j))
        /\ IF k = Len(inflight) THEN UNCHANGED bounds ELSE CanFail /\ Fault
    /\ UNCHANGED <<queueVars, connVars, shutdown, halt, lock, jobLock, pc,
                   inflight, mult, ok, scripts, phase, req, nextId, lost>>

\* Where the agent goes with the answer: slurmdbd may ask for the scripts of
\* the jobs whose start it has just recorded (_add_sending_script_env).
Answered ==
    \/ pc' = "finish" /\ lock' = "free" /\ UNCHANGED scripts
    \/ /\ ScriptReplies
       /\ scripts' \in SUBSET {i \in 1..reply : inflight[i].type = "start"}
       /\ scripts' # {}
       /\ pc' = "heavy" /\ UNCHANGED lock

\* Mutant: the messages refused leave the queue as well.
AfterMultReplyAll == SubSeq(agent_list, Len(inflight) + 1, Len(agent_list))

\* _get_return_codes: one message leaves the head of the queue for every
\* return code that says success, up to the first that does not.
AfterMultReply == SubSeq(agent_list, reply + 1, Len(agent_list))

\* _handle_mult_rc_ret.
AgentMultReply ==
    /\ pc = "recv" /\ mult /\ reply # NoReply
    /\ agent_list' = AfterMultReply
    /\ ok' = (reply = Len(inflight))
    /\ Answered
    /\ UNCHANGED <<listed, file, connVars, shutdown, halt, jobLock, inflight,
                   mult, reply, phase, req, histVars, bounds>>

\* _get_return_code of a single message; EAGAIN ends the loop in a shutdown.
AgentSingleReply ==
    /\ pc = "recv" /\ ~mult /\ reply # NoReply
    /\ ok' = (reply = 1)
    /\ \/ Answered
       \/ /\ reply = 0 /\ shutdown
          /\ pc' = "exit" /\ lock' = "free" /\ UNCHANGED scripts
    /\ UNCHANGED <<queueVars, connVars, shutdown, halt, jobLock, inflight,
                   mult, reply, phase, req, histVars, bounds>>

\* No answer is read (time out, broken connection, or the shutdown, which
\* _conn_readable notices), whatever slurmdbd has made of the messages.
AgentReplyLost ==
    /\ pc = "recv" /\ reply = NoReply
    /\ IF shutdown THEN UNCHANGED bounds ELSE CanFail /\ Fault
    /\ \E k \in 0..Len(inflight) :
        delivered' = delivered \cup Ids(SubSeq(inflight, 1, k))
    /\ ok' = FALSE /\ tls' \in BOOLEAN
    /\ pc' = "finish" /\ lock' = "free"
    /\ UNCHANGED <<queueVars, conn, fail, shutdown, halt, jobLock, inflight,
                   mult, reply, scripts, phase, req, nextId, lost>>

\* _process_id_rc_list takes the job write lock, still under slurmdbd_lock.
AgentJobLock ==
    /\ pc = "heavy" /\ jobLock = "free"
    /\ pc' = "script" /\ jobLock' = "agent"
    /\ UNCHANGED <<queueVars, connVars, shutdown, halt, lock, sendVars, phase,
                   req, histVars, bounds>>

\* The rest of the agent's pass over id_rc_list is todo.
ScriptDone(todo) ==
    /\ scripts' = todo
    /\ IF todo = {}
       THEN pc' = "finish" /\ lock' = "free" /\ jobLock' = "free"
       ELSE UNCHANGED <<pc, lock, jobLock>>

\* _sending_script_env: find_job_record does not find the job any more, or
\* there is nothing to send for it.
AgentJobGone ==
    /\ pc = "script"
    /\ \E i \in scripts : ScriptDone(scripts \ {i})
    /\ UNCHANGED <<queueVars, connVars, shutdown, halt, inflight, mult, reply,
                   ok, phase, req, histVars, bounds>>

\* _sending_script_env: the script is queued as one more message
\* (DBD_JOB_HEAVY).
AgentHeavy ==
    /\ pc = "script" /\ scripts # {}
    /\ nextId' = nextId + 1
    /\ IF Overflow(agent_list)
       THEN Fatal(agent_list, {nextId})
       ELSE /\ Enqueue("other")
            /\ \E i \in scripts : ScriptDone(scripts \ {i})
            /\ UNCHANGED <<file, connVars, shutdown, halt, inflight, mult,
                           reply, ok, phase, req, bounds>>
    /\ UNCHANGED delivered

\* Mutant: a single message leaves the queue although it failed.
AfterRpcAlways ==
    IF ~mult /\ agent_list # <<>> THEN Tail(agent_list) ELSE agent_list

\* A single message that succeeded leaves the queue.
AfterRpc ==
    IF ok /\ ~mult /\ agent_list # <<>> THEN Tail(agent_list) ELSE agent_list

\* Mutant: the answer is not forgotten.
ForgetRpcButReply ==
    mult' = FALSE /\ inflight' = <<>> /\ ok' = FALSE /\ UNCHANGED reply

ForgetRpc == mult' = FALSE /\ inflight' = <<>> /\ ok' = FALSE /\ reply' = NoReply

\* The end of the loop's body; a failure is remembered for 10 seconds.
AgentFinish ==
    /\ pc = "finish" /\ conn /\ pc' = "top"
    /\ agent_list' = AfterRpc
    /\ fail' = ~ok
    /\ ForgetRpc
    /\ UNCHANGED <<listed, file, conn, tls, shutdown, halt, lock, jobLock,
                   scripts, phase, req, histVars, bounds>>

\* After the loop: the queue is saved and freed, and the thread returns.
AgentExit ==
    /\ pc = "exit" /\ pc' = "gone"
    /\ \E k \in Saveable(agent_list) :
        /\ SaveDbdState(agent_list, k)
        /\ lost' = lost \cup Unsaved(agent_list, k)
    /\ agent_list' = <<>> /\ listed' = FALSE
    /\ ForgetRpc
    /\ UNCHANGED <<connVars, shutdown, halt, lock, jobLock, scripts, phase, req,
                   nextId, delivered>>

\* The time since the last failure reaches 10 seconds.
FailExpires ==
    /\ fail /\ fail' = FALSE
    /\ UNCHANGED <<queueVars, conn, tls, shutdown, halt, lock, jobLock, pc,
                   sendVars, phase, req, histVars, bounds>>

\* Where the agent reads through slurmdbd_conn and rem_conn may have cleared it.
UsesConn == {"top", "locked", "finish"}

\* A thread started by a late sender finds slurmdbd_conn = NULL: the process
\* dies of the access.
AgentNullConn ==
    /\ pc \in UsesConn /\ ~conn
    /\ Dies({})
    /\ UNCHANGED <<nextId, bounds>>

AgentNext ==
    \/ AgentStart \/ AgentLoop \/ AgentLock \/ AgentRelock \/ AgentReconnect
    \/ AgentIdle \/ AgentTimeout \/ AgentTake \/ AgentSent \/ AgentSendFailed
    \/ AgentMultReply \/ AgentSingleReply \/ AgentReplyLost \/ AgentJobLock
    \/ AgentJobGone \/ AgentHeavy \/ AgentFinish \/ AgentExit \/ AgentNullConn

-----------------------------------------------------------------------------
(* The requesters, slurmdbd_agent_send_recv(). *)

\* halt_agent is set before slurmdbd_lock is asked for.
ReqHalt(r) ==
    /\ Serving /\ req[r] = "idle" /\ reqs < MaxReqs
    /\ IF r \in JobLocked
       THEN jobLock = "free" /\ jobLock' = r
       ELSE UNCHANGED jobLock
    /\ req' = [req EXCEPT ![r] = "halting"]
    /\ halt' = TRUE
    /\ reqs' = reqs + 1
    /\ UNCHANGED <<queueVars, connVars, shutdown, lock, pc, sendVars, phase,
                   histVars, faults, crashes, opens>>

\* Mutant: halt_agent stays set.
KeepHalt == UNCHANGED halt

ClearHalt == halt' = FALSE

\* halt_agent is cleared by whoever gets slurmdbd_lock.
ReqLock(r) ==
    /\ req[r] = "halting" /\ lock = "free"
    /\ lock' = r
    /\ ClearHalt
    /\ req' = [req EXCEPT ![r] = "rpc"]
    /\ UNCHANGED <<queueVars, connVars, shutdown, jobLock, pc, sendVars, phase,
                   histVars, bounds>>

\* Mutant: slurmdbd_cond is not signalled.
LeaveHalted == UNCHANGED pc

SignalHalted == pc' = IF pc = "halted" THEN "woken" ELSE pc

\* dbd_conn_send_recv_direct: the connection is reopened if need be, and may
\* break.  Then the halted agent is signalled and the locks are released.
ReqRpc(r) ==
    /\ req[r] = "rpc"
    /\ \/ ~conn /\ UNCHANGED <<tls, bounds>>
       \/ conn /\ ~shutdown /\ tls' = TRUE /\ UNCHANGED bounds
       \/ conn /\ shutdown /\ tls' \in BOOLEAN /\ UNCHANGED bounds
       \/ conn /\ ~shutdown /\ CanFail /\ Fault /\ tls' = FALSE
    /\ SignalHalted
    /\ lock' = "free"
    /\ jobLock' = IF r \in JobLocked THEN "free" ELSE jobLock
    /\ req' = [req EXCEPT ![r] = "idle"]
    /\ UNCHANGED <<queueVars, conn, fail, shutdown, halt, sendVars, phase,
                   histVars>>

-----------------------------------------------------------------------------
(* The main thread opens and closes the connection. *)

\* acct_storage_p_get_connection: dbd_conn_open, then the first half of
\* slurmdbd_agent_set_conn.  A backup that takes over again, or a controller
\* whose reconfiguration failed, opens it anew in the process that closed it.
OpenConn ==
    /\ phase \in {"closed", "removed"} /\ opens < MaxOpens /\ lock = "free"
    /\ conn' = TRUE /\ shutdown' = FALSE
    /\ \/ tls' = TRUE /\ UNCHANGED faults
       \/ tls' = FALSE /\ CanFail /\ faults' = faults + 1
    /\ phase' = "opening" /\ opens' = opens + 1
    /\ UNCHANGED <<queueVars, fail, halt, lock, jobLock, pc, sendVars, req,
                   histVars, crashes, reqs>>

\* The second half of slurmdbd_agent_set_conn: the agent is created, or, when
\* there is one already, the file is loaded behind its queue.
SetConnAgent ==
    /\ phase = "opening" /\ phase' = "open"
    /\ IF pc = "none" \/ ~listed
       THEN agent_list' = SenderList /\ listed' = TRUE /\ CreateAgent
       ELSE agent_list' = agent_list \o file /\ UNCHANGED <<listed, pc, shutdown>>
    /\ UNCHANGED <<file, connVars, halt, lock, jobLock, sendVars, req, histVars,
                   bounds>>

\* Mutant: slurmdbd_shutdown is left alone.
LeaveShutdown == UNCHANGED shutdown

SetShutdown == shutdown' = TRUE

\* acct_storage_p_close_connection: _shutdown_agent sets slurmdbd_shutdown ...
ShutdownAgent ==
    /\ phase = "open"
    /\ IF pc = "none"
       THEN phase' = "unset" /\ UNCHANGED shutdown
       ELSE phase' = "waking" /\ SetShutdown
    /\ UNCHANGED <<queueVars, connVars, halt, lock, jobLock, pc, sendVars, req,
                   histVars, bounds>>

\* ... broadcasts agent_cond ...
ShutdownWake ==
    /\ phase = "waking" /\ phase' = "joining"
    /\ WakeSleeper
    /\ UNCHANGED <<queueVars, connVars, shutdown, halt, lock, jobLock, sendVars,
                   req, histVars, bounds>>

\* ... and joins the thread.
ShutdownJoin ==
    /\ phase = "joining" /\ pc = "gone"
    /\ pc' = "none" /\ phase' = "unset"
    /\ UNCHANGED <<queueVars, connVars, shutdown, halt, lock, jobLock, sendVars,
                   req, histVars, bounds>>

\* slurmdbd_agent_rem_conn forgets the connection; dbd_conn_close ends it.
RemConn ==
    /\ phase = "unset" /\ lock = "free"
    /\ conn' = FALSE /\ tls' = FALSE
    /\ phase' = "removed"
    /\ UNCHANGED <<queueVars, fail, shutdown, halt, lock, jobLock, pc, sendVars,
                   req, histVars, bounds>>

\* The process ends after the connection was closed; what a late sender has
\* left in the queue ends with it.
MainReturns ==
    /\ phase = "removed"
    /\ Dies({})
    /\ UNCHANGED <<nextId, bounds>>

\* slurmctld is killed.
Crash ==
    /\ crashes < MaxCrashes /\ crashes' = crashes + 1
    /\ Dies({})
    /\ UNCHANGED <<nextId, faults, reqs, opens>>

\* slurmctld has closed its connection for good.
Terminated ==
    /\ phase = "closed" /\ opens = MaxOpens /\ pc = "none"
    /\ \A r \in Requesters : req[r] = "idle"
    /\ UNCHANGED vars

-----------------------------------------------------------------------------
Init ==
    /\ agent_list = <<>> /\ listed = FALSE /\ file = <<>>
    /\ conn = FALSE /\ tls = FALSE /\ fail = FALSE
    /\ shutdown = FALSE /\ halt = FALSE
    /\ lock = "free" /\ jobLock = "free"
    /\ pc = "none" /\ phase = "closed"
    /\ inflight = <<>> /\ mult = FALSE /\ reply = NoReply /\ ok = FALSE
    /\ scripts = {}
    /\ req = [r \in Requesters |-> "idle"]
    /\ nextId = 1 /\ delivered = {} /\ lost = {}
    /\ faults = 0 /\ crashes = 0 /\ reqs = 0 /\ opens = 0

MainNext ==
    OpenConn \/ SetConnAgent \/ ShutdownAgent \/ ShutdownWake \/ ShutdownJoin
    \/ RemConn \/ MainReturns

ReqNext(r) == ReqHalt(r) \/ ReqLock(r) \/ ReqRpc(r)

Next ==
    \/ \E t \in SendTypes : Send(t)
    \/ SendNullConn
    \/ AgentNext \/ DbdProcess \/ FailExpires
    \/ \E r \in Requesters : ReqNext(r)
    \/ MainNext \/ Crash \/ Terminated

Spec == Init /\ [][Next]_vars

\* Threads run: the agent, a requester once it has begun its call, slurmdbd,
\* the clock, and the main thread once it has begun to open or to close, and
\* when nothing keeps it from ending the process.  rem_conn gets slurmdbd_lock
\* when it is free again and again: an agent started by a late sender lets go
\* of it for 10 seconds in every round.
Fairness ==
    /\ WF_vars(AgentNext) /\ WF_vars(DbdProcess) /\ WF_vars(FailExpires)
    /\ \A r \in Requesters : WF_vars(ReqLock(r) \/ ReqRpc(r))
    /\ WF_vars(SetConnAgent \/ ShutdownWake \/ ShutdownJoin \/ MainReturns)
    /\ SF_vars(RemConn)

FairSpec == Spec /\ Fairness

-----------------------------------------------------------------------------
(* Properties. *)

\* The control: who holds the locks and where every thread is.
PlaceType ==
    /\ lock \in Requesters \cup {"free", "agent"}
    /\ jobLock \in JobLocked \cup {"free", "agent"}
    /\ pc \in AgentPcs \cup {"none", "gone"}
    /\ phase \in {"closed", "opening", "open", "waking", "joining", "unset",
                 "removed"}
    /\ req \in [Requesters -> {"idle", "halting", "rpc"}]

\* The data: queue, file, RPC, flags, histories and counters.
DataType ==
    /\ agent_list \in Seq(Msg) /\ file \in Seq(Msg) /\ inflight \in Seq(Msg)
    /\ reply \in NoReply..Len(inflight)
    /\ listed \in BOOLEAN /\ conn \in BOOLEAN /\ tls \in BOOLEAN
    /\ fail \in BOOLEAN /\ shutdown \in BOOLEAN /\ halt \in BOOLEAN
    /\ mult \in BOOLEAN /\ ok \in BOOLEAN /\ scripts \subseteq Nat
    /\ nextId \in Nat \ {0} /\ delivered \subseteq Nat /\ lost \subseteq Nat
    /\ faults \in Nat /\ crashes \in Nat /\ reqs \in Nat /\ opens \in Nat

\* Every variable of the agent (slurmdbd_agent.c file statics and locals of
\* _agent) keeps its type.
TypeOK == PlaceType /\ DataType

IsHead(s, q) == Len(s) <= Len(q) /\ \A i \in 1..Len(s) : s[i] = q[i]

\* "Leave item on the queue until processing complete"
\* (slurmdbd_agent.c:748): from the moment the messages are packed to the
\* moment the agent takes them off, they are the first ones of the queue,
\* whatever other threads queue meanwhile.
InFlightQueued ==
    /\ pc \in {"send", "recv"} => IsHead(inflight, agent_list)
    /\ pc \in {"heavy", "script", "finish"} /\ ok /\ ~mult
         => IsHead(inflight, agent_list)

\* Where a message that is not recorded by slurmdbd yet still exists.
Kept == IF listed THEN Ids(agent_list) ELSE Ids(file)

\* Every message queued by slurmdbd_agent_send is recorded by slurmdbd, or
\* still queued, or in the state file while there is no queue; or it was
\* discarded openly (purge, full queue, failed write) or in memory when the
\* process died.  The agent never takes off a message it has not delivered.
NothingVanishes ==
    \A i \in 1..(nextId - 1) : i \in delivered \cup lost \cup Kept

\* slurmdbd learns of the messages in the order they were queued in, resends
\* apart: a job's end never overtakes its start (list order, batches, and the
\* order of replay from dbd.messages).
InOrder ==
    \A d \in delivered : \A i \in 1..(d - 1) : i \in delivered \cup lost

\* q is no longer than the queue, or than the file while there is none.
NoLonger(q) ==
    \/ Len(q) <= Len(agent_list)
    \/ ~listed /\ Len(q) <= Len(file)

\* The queue stays within MaxDBDMsgs or does not grow, unless the file is loaded
\* behind it; what is saved is no longer than the queue was.
WithinLimit ==
    /\ \/ Len(agent_list') <= MaxDbdMsgs \/ NoLonger(agent_list')
       \/ phase = "opening" /\ agent_list' = agent_list \o file
    /\ file' = file \/ NoLonger(file')

\* Nothing takes the queue beyond MaxDBDMsgs, nor makes a queue beyond it any
\* longer, but the load of the file behind the queue of an agent that outlived
\* its connection (slurmdbd_agent_set_conn); and _save_dbd_state saves no more
\* than the queue held (slurmdbd_agent_send, _max_dbd_msg_action).
QueueBounded == [][WithinLimit]_vars

\* With max_dbd_msg_action=exit slurmctld does not go on running after it has
\* refused a message: a call of slurmdbd_agent_send leaves the message in the
\* queue or ends the process (the two tests of MaxDBDMsgs, in
\* _max_dbd_msg_action and after it, agree).
SendQueuesOrExits ==
    [][nextId' # nextId /\ MaxDbdMsgAction = "exit"
       => nextId \in Ids(agent_list') \/ phase' = "closed"]_vars

\* The agent waits on slurmdbd_cond without a time limit, and one who will
\* signal it is on the way (halt_agent in slurmdbd_agent_send_recv).
HaltedAgentHasWaker ==
    pc = "halted" => \E r \in Requesters : req[r] \in {"halting", "rpc"}

\* The agent has a connection object where it uses it, as xassert(pc) in
\* dbd_conn_check_and_reopen (dbd_conn.c:181) says: rem_conn joins the thread
\* before it clears slurmdbd_conn.
AgentHasConn == pc \in UsesConn => conn

\* Nobody waits for slurmdbd_lock with the job write lock held while the
\* agent waits for the job write lock with slurmdbd_lock held.
NoLockCycle ==
    ~ /\ pc = "heavy" /\ lock = "agent"
      /\ jobLock # "free" /\ req[jobLock] = "halting"

\* A queued message reaches slurmdbd, or the state file at the close, or is
\* discarded at the limit, once slurmdbd answers again.
EventuallySettled ==
    \A i \in 1..MaxId :
        i \in Ids(agent_list) ~> i \in delivered \cup lost \cup Ids(file)

\* Closing the connection terminates: pthread_join on the agent returns, with
\* the agent asleep, halted by a requester or in the middle of an RPC.
CloseTerminates == phase = "waking" ~> phase \in {"removed", "closed"}

\* A halted agent goes on: the signal of the requester is not lost.
HaltedAgentResumes == pc = "halted" ~> pc = "locked" \/ pc = "none"
=============================================================================
