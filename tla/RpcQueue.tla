------------------------------ MODULE RpcQueue ------------------------------
(***************************************************************************)
(* slurmctld/rpc_queue.c: one queue of requests with its worker thread,    *)
(* together with the parts of slurmctld/controller.c and of conmgr that    *)
(* bring requests to it (accept, extraction, _service_connection) and that *)
(* take it down (the end of _slurmctld_background, conmgr_quiesce,         *)
(* rpc_queue_shutdown).  A connection carries one request.  Sections under *)
(* one mutex are one step; slurmctld's own locks are modelled in           *)
(* SlurmctldLocks and appear here only in what the worker holds.           *)
(***************************************************************************)
EXTENDS Integers, Sequences, FiniteSets

CONSTANTS
    Clients,       \* connections, each with one request for the queue
    Workers,       \* worker threads of conmgr
    MaxQueued,     \* q->max_queued, 0 for no limit
    MaxPerCycle,   \* q->max_per_cycle, 0 for no limit
    TimeLimited,   \* q->max_usec_per_cycle is set
    None           \* not a client

ASSUME RpcQueueAssumption ==
    /\ None \notin Clients /\ IsFiniteSet(Clients)
    /\ Workers \in Nat \ {0} /\ MaxQueued \in Nat /\ MaxPerCycle \in Nat
    /\ TimeLimited \in BOOLEAN

VARIABLES
    \* conmgr
    listening,  \* the listeners are not quiesced
    accepting,  \* an _attempt_accept is past its checks
    conns,      \* mgr.connections, without the listeners
    mwork,      \* mgr.work: callbacks waiting for a worker of conmgr
    finishing,  \* FLAG_WAIT_ON_FINISH of a connection
    quiesced,   \* mgr.quiesce.active
    \* requests
    cpc,        \* where the request of a connection is
    threads,    \* slurmctld_config.server_thread_count
    answered,   \* requests whose sender got an answer
    \* the queue
    enabled,    \* file variable enabled
    qshutdown,  \* q->shutdown
    work,       \* q->work
    freed,      \* q->work has been freed
    queued,     \* q->queued
    wpc,        \* where the queue's worker is
    cur,        \* the request it handles
    processed,  \* requests handled in this cycle
    stranded,   \* history: requests in q->work when it was freed
    \* the main thread
    mpc         \* where the shutdown is, "run" before it

conmgrVars == <<listening, accepting, conns, mwork, finishing, quiesced>>
queueVars  == <<enabled, qshutdown, work, freed, queued, wpc, cur, processed, stranded>>
vars == <<conmgrVars, cpc, threads, answered, queueVars, mpc>>

CallStates == {"incr", "check", "reserve", "append", "signal", "drop", "direct", "decr"}

\* Requests in _service_connection: the active workers of conmgr.
Serving == {c \in Clients : cpc[c] \in CallStates}

\* Requests that rpc_enqueue has counted and not yet put into the list.
Appending == {c \in Clients : cpc[c] = "append"}

Go(c, pc) == cpc' = [cpc EXCEPT ![c] = pc]

-----------------------------------------------------------------------------
(* conmgr: connections and their callbacks. *)

\* _attempt_accept, up to the unlock before accept4.
AcceptBegin ==
    /\ listening /\ ~accepting /\ accepting' = TRUE
    /\ UNCHANGED <<listening, conns, mwork, finishing, quiesced, cpc, threads, answered, queueVars, mpc>>

\* accept4 returns a connection, or EAGAIN.
AcceptEnd ==
    /\ accepting /\ accepting' = FALSE
    /\ \/ UNCHANGED <<conns, cpc>>
       \/ \E c \in Clients :
              cpc[c] = "idle" /\ conns' = conns \cup {c} /\ Go(c, "open")
    /\ UNCHANGED <<listening, mwork, finishing, quiesced, threads, answered, queueVars, mpc>>

\* Mutant: new work is run before the work that waits.
AddWorkFirst(w) == <<w>> \o mwork

\* add_work_fifo, _handle_work_run.
AddWork(w) == Append(mwork, w)

\* The request has been read: _on_primary_msg, extract_con_fd.
Extract(c) ==
    /\ cpc[c] = "open" /\ ~quiesced
    /\ Go(c, "extracted")
    /\ mwork' = AddWork(<<"serve", c>>)
    /\ UNCHANGED <<listening, accepting, conns, finishing, quiesced, threads, answered, queueVars, mpc>>

\* The connection ends without a request: the peer closes it, the rate limit
\* refuses it, or a quiesce takes too long (_on_quiesce_timeout).
Hangup(c) ==
    /\ cpc[c] = "open" /\ ~quiesced
    /\ Go(c, "done")
    /\ UNCHANGED <<conmgrVars, threads, answered, queueVars, mpc>>

\* A connection without file descriptors is given its _on_finish callback.
QueueFinish(c) ==
    /\ c \in conns \ finishing /\ cpc[c] # "open" /\ ~quiesced
    /\ finishing' = finishing \cup {c}
    /\ mwork' = AddWork(<<"finish", c>>)
    /\ UNCHANGED <<listening, accepting, conns, quiesced, cpc, threads, answered, queueVars, mpc>>

\* _worker takes a callback: _on_finish, after which the connection is removed,
\* or _wrap_on_extract, which runs _service_connection.
WorkerPop ==
    /\ mwork # <<>> /\ ~quiesced /\ Cardinality(Serving) < Workers
    /\ mwork' = Tail(mwork)
    /\ LET c == Head(mwork)[2] IN
        \/ /\ Head(mwork)[1] = "serve" /\ Go(c, "incr")
           /\ UNCHANGED <<conns, finishing>>
        \/ /\ Head(mwork)[1] = "finish"
           /\ conns' = conns \ {c} /\ finishing' = finishing \ {c}
           /\ UNCHANGED cpc
    /\ UNCHANGED <<listening, accepting, quiesced, threads, answered, queueVars, mpc>>

-----------------------------------------------------------------------------
(* _service_connection and rpc_enqueue. *)

ServerThreadIncr(c) ==
    /\ cpc[c] = "incr" /\ Go(c, "check")
    /\ threads' = threads + 1
    /\ UNCHANGED <<conmgrVars, answered, queueVars, mpc>>

\* rpc_enqueue reads enabled without a lock.
CheckEnabled(c) ==
    /\ cpc[c] = "check"
    /\ Go(c, IF ~enabled THEN "direct" ELSE IF MaxQueued # 0 THEN "reserve" ELSE "append")
    /\ UNCHANGED <<conmgrVars, threads, answered, queueVars, mpc>>

\* Mutant: one request too many is let in.
QueueOverfull == queued > MaxQueued

\* The test that drops a request.
QueueFull == queued >= MaxQueued

\* The section of rpc_enqueue that counts the request, or drops it.
Reserve(c) ==
    /\ cpc[c] = "reserve"
    /\ IF QueueFull THEN Go(c, "drop") /\ UNCHANGED queued
                    ELSE Go(c, "append") /\ queued' = queued + 1
    /\ UNCHANGED <<conmgrVars, threads, answered, enabled, qshutdown, work, freed, wpc, cur,
                   processed, stranded, mpc>>

\* list_enqueue, which asserts that there is a list.
ListEnqueue(c) ==
    /\ cpc[c] = "append" /\ ~freed /\ Go(c, "signal")
    /\ work' = Append(work, c)
    /\ UNCHANGED <<conmgrVars, threads, answered, enabled, qshutdown, freed, queued, wpc, cur,
                   processed, stranded, mpc>>

\* slurm_cond_signal(&q->cond).
Awake == IF wpc = "wait" THEN "woken" ELSE wpc

SignalWorker(c) ==
    /\ cpc[c] = "signal" /\ Go(c, "decr")
    /\ wpc' = Awake
    /\ UNCHANGED <<conmgrVars, threads, answered, enabled, qshutdown, work, freed, queued, cur,
                   processed, stranded, mpc>>

\* The sender is told to back off, or the request is handled at once
\* (slurmctld_req).
Reply(c) ==
    /\ cpc[c] \in {"drop", "direct"} /\ Go(c, "decr")
    /\ answered' = answered \cup {c}
    /\ UNCHANGED <<conmgrVars, threads, queueVars, mpc>>

ServerThreadDecr(c) ==
    /\ cpc[c] = "decr" /\ Go(c, "done")
    /\ threads' = IF threads > 0 THEN threads - 1 ELSE threads
    /\ UNCHANGED <<conmgrVars, answered, queueVars, mpc>>

ServiceNext(c) ==
    \/ ServerThreadIncr(c) \/ CheckEnabled(c) \/ Reserve(c) \/ ListEnqueue(c)
    \/ SignalWorker(c) \/ Reply(c) \/ ServerThreadDecr(c)

-----------------------------------------------------------------------------
(* _rpc_queue_worker. *)

\* lock_slurmctld, at the start and after waking up.
WorkerLock ==
    /\ wpc \in {"start", "woken"} /\ wpc' = "take"
    /\ UNCHANGED <<conmgrVars, cpc, threads, answered, enabled, qshutdown, work, freed, queued,
                   cur, processed, stranded, mpc>>

\* The number of requests of a cycle is exhausted.
CycleFull == MaxPerCycle # 0 /\ processed = MaxPerCycle

\* The time of a cycle may be.
CycleLate == TimeLimited /\ processed > 0

WorkerTake ==
    /\ wpc = "take" /\ ~CycleFull /\ work # <<>>
    /\ cur' = Head(work) /\ work' = Tail(work)
    /\ wpc' = IF MaxQueued # 0 THEN "count" ELSE "run"
    /\ UNCHANGED <<conmgrVars, cpc, threads, answered, enabled, qshutdown, freed, queued,
                   processed, stranded, mpc>>

\* q->queued--
WorkerCount ==
    /\ wpc = "count" /\ wpc' = "run"
    /\ queued' = queued - 1
    /\ UNCHANGED <<conmgrVars, cpc, threads, answered, enabled, qshutdown, work, freed, cur,
                   processed, stranded, mpc>>

\* q->func(msg), which answers, and the end of the connection.
WorkerRun ==
    /\ wpc = "run" /\ wpc' = "take"
    /\ answered' = answered \cup {cur} /\ cur' = None
    /\ processed' = processed + 1
    /\ UNCHANGED <<conmgrVars, cpc, threads, enabled, qshutdown, work, freed, queued, stranded, mpc>>

\* Nothing to take or the cycle is over: unlock_slurmctld, q->post_func, and
\* the sleep, with no lock held.
WorkerYield ==
    /\ wpc = "take" /\ (work = <<>> \/ CycleFull \/ CycleLate)
    /\ wpc' = "sleep" /\ processed' = 0
    /\ UNCHANGED <<conmgrVars, cpc, threads, answered, enabled, qshutdown, work, freed, queued,
                   cur, stranded, mpc>>

\* Mutant: the list is not looked at again under the mutex.
WaitAnyway == TRUE

\* "Verify list is empty."
NothingToDo == work = <<>>

\* The section after the sleep.
WorkerCheck ==
    /\ wpc = "sleep"
    /\ wpc' = IF qshutdown THEN "gone" ELSE IF NothingToDo THEN "wait" ELSE "woken"
    /\ UNCHANGED <<conmgrVars, cpc, threads, answered, enabled, qshutdown, work, freed, queued,
                   cur, processed, stranded, mpc>>

\* slurm_cond_wait may return without a signal.
SpuriousWake ==
    /\ wpc = "wait" /\ wpc' = "woken"
    /\ UNCHANGED <<conmgrVars, cpc, threads, answered, enabled, qshutdown, work, freed, queued,
                   cur, processed, stranded, mpc>>

WorkerNext ==
    WorkerLock \/ WorkerTake \/ WorkerCount \/ WorkerRun \/ WorkerYield \/ WorkerCheck

-----------------------------------------------------------------------------
(* The main thread: the end of _slurmctld_background, rpc_queue_shutdown. *)

\* listeners_quiesce.  With slurmctld_config.resume_backup, which the handler of
\* REQUEST_CONTROL sets, that handler itself is one of the server threads.
ListenersQuiesce ==
    /\ mpc = "run" /\ mpc' \in {"flush", "resume_backup"}
    /\ listening' = FALSE
    /\ UNCHANGED <<accepting, conns, mwork, finishing, quiesced, cpc, threads, answered, queueVars>>

\* _flush_rpcs: wait for server_thread_count, without giving up.
FlushRpcs ==
    /\ \/ mpc = "flush" /\ threads = 0
       \/ mpc = "resume_backup" /\ threads <= 1
    /\ mpc' = "quiesce"
    /\ UNCHANGED <<conmgrVars, cpc, threads, answered, queueVars>>

\* Mutant: the watch thread does not wait for the active workers.
NoWaiters == conns = {} /\ ~accepting

\* _watch_loop enters the quiesced state: no connection is a waiter, no worker
\* is active.  It does not look at mgr.work.
QuiesceReached == conns = {} /\ ~accepting /\ Serving = {}

ConmgrQuiesce ==
    /\ mpc = "quiesce" /\ QuiesceReached /\ mpc' = "report"
    /\ quiesced' = TRUE
    /\ UNCHANGED <<listening, accepting, conns, mwork, finishing, cpc, threads, answered, queueVars>>

\* report_locks_set, save_all_state, conmgr_unquiesce; afterwards
\* controller_fini_scheduling.
ConmgrUnquiesce ==
    /\ mpc = "report" /\ mpc' = "disable"
    /\ quiesced' = FALSE
    /\ UNCHANGED <<listening, accepting, conns, mwork, finishing, cpc, threads, answered, queueVars>>

\* rpc_queue_shutdown: return if it was disabled, or disable it.
QueueDisable ==
    /\ mpc = "disable"
    /\ mpc' = IF enabled THEN "mark" ELSE "closed"
    /\ enabled' = FALSE
    /\ UNCHANGED <<conmgrVars, cpc, threads, answered, qshutdown, work, freed, queued, wpc, cur,
                   processed, stranded>>

\* Mutant: the worker is not woken up.
LeaveAsleep == wpc

\* slurm_cond_signal by rpc_queue_shutdown.
AwakeForShutdown == Awake

QueueMark ==
    /\ mpc = "mark" /\ mpc' = "join"
    /\ qshutdown' = TRUE /\ wpc' = AwakeForShutdown
    /\ UNCHANGED <<conmgrVars, cpc, threads, answered, enabled, work, freed, queued, cur,
                   processed, stranded>>

\* "wait for completion and cleanup": the list is freed, its messages are not.
QueueJoin ==
    /\ mpc = "join" /\ wpc = "gone" /\ mpc' = "closed"
    /\ freed' = TRUE /\ work' = <<>>
    /\ stranded' = {work[i] : i \in 1..Len(work)}
    /\ UNCHANGED <<conmgrVars, cpc, threads, answered, enabled, qshutdown, queued, wpc, cur,
                   processed>>

\* The reconfiguration failed, or a backup takes control again: the main loop
\* goes on, with the queue disabled, and listens again.
Resume ==
    /\ mpc = "closed" /\ mpc' = "run"
    /\ listening' = TRUE
    /\ UNCHANGED <<accepting, conns, mwork, finishing, quiesced, cpc, threads, answered, queueVars>>

MainNext ==
    \/ FlushRpcs \/ ConmgrQuiesce \/ ConmgrUnquiesce \/ QueueDisable \/ QueueMark \/ QueueJoin

-----------------------------------------------------------------------------
Init ==
    /\ listening = TRUE /\ accepting = FALSE /\ conns = {} /\ mwork = <<>>
    /\ finishing = {} /\ quiesced = FALSE
    /\ cpc = [c \in Clients |-> "idle"] /\ threads = 0 /\ answered = {}
    /\ enabled = TRUE /\ qshutdown = FALSE /\ work = <<>> /\ freed = FALSE
    /\ queued = 0 /\ wpc = "start" /\ cur = None /\ processed = 0 /\ stranded = {}
    /\ mpc = "run"

Next ==
    \/ AcceptBegin \/ AcceptEnd \/ WorkerPop
    \/ \E c \in Clients : Extract(c) \/ Hangup(c) \/ QueueFinish(c) \/ ServiceNext(c)
    \/ WorkerNext \/ SpuriousWake
    \/ ListenersQuiesce \/ MainNext \/ Resume

Spec == Init /\ [][Next]_vars

\* Threads that can run do run, and a connection that keeps conmgr_quiesce
\* waiting is closed by its time limit.  Nothing makes clients connect, asks
\* for a shutdown or wakes a waiting thread without a signal.
Fairness ==
    /\ WF_vars(WorkerNext) /\ WF_vars(MainNext) /\ WF_vars(WorkerPop) /\ WF_vars(AcceptEnd)
    /\ \A c \in Clients :
           /\ WF_vars(ServiceNext(c)) /\ WF_vars(QueueFinish(c))
           /\ WF_vars(mpc = "quiesce" /\ Hangup(c))

FairSpec == Spec /\ Fairness

-----------------------------------------------------------------------------
(* Properties. *)

\* Every variable of the queue and of conmgr keeps its type; what q->queued
\* counts is in QueueLimit.
TypeOK ==
    /\ listening \in BOOLEAN /\ accepting \in BOOLEAN /\ quiesced \in BOOLEAN
    /\ conns \subseteq Clients /\ finishing \subseteq conns
    /\ mwork \in Seq({"serve", "finish"} \X Clients)
    /\ cpc \in [Clients -> {"idle", "open", "extracted", "done"} \cup CallStates]
    /\ threads \in Nat /\ answered \subseteq Clients
    /\ enabled \in BOOLEAN /\ qshutdown \in BOOLEAN /\ freed \in BOOLEAN
    /\ work \in Seq(Clients) /\ queued \in Int
    /\ wpc \in {"start", "take", "count", "run", "sleep", "wait", "woken", "gone"}
    /\ cur \in Clients \cup {None} /\ (wpc \in {"count", "run"} => cur # None)
    /\ processed \in Nat /\ stranded \subseteq Clients
    /\ mpc \in {"run", "flush", "resume_backup", "quiesce", "report", "disable", "mark",
                "join", "closed"}

\* q->queued is counted in three sections that are apart from the list
\* operations; it is nevertheless exactly the number of requests that are in
\* the list, about to enter it, or just taken from it, and keeps the limit.
QueueLimit ==
    MaxQueued # 0 /\ ~freed =>
        /\ queued = Len(work) + Cardinality(Appending)
                              + (IF wpc = "count" THEN 1 ELSE 0)
        /\ queued <= MaxQueued

\* The worker never waits on q->cond with a request in the list, unless the
\* thread that put it there is about to signal, although it looks at the list
\* for the first time without the mutex.
NoLostWakeup ==
    wpc = "wait" /\ work # <<>> => \E c \in Clients : cpc[c] = "signal"

\* rpc_enqueue never uses q->work once rpc_queue_shutdown has freed it,
\* although it tests enabled without a lock.
QueueAlive ==
    freed => \A c \in Clients : cpc[c] \notin {"reserve", "append", "signal"}

\* The quiesced state is entered without a look at mgr.work, and still no
\* request is left in it that would run after conmgr_unquiesce.
NothingHidden == mpc = "report" => mwork = <<>>

\* A request that conmgr has read is answered, or is thrown away with the list
\* when rpc_queue_shutdown comes first: none is left waiting for ever.
EventuallyAnswered ==
    \A c \in Clients : (cpc[c] = "extracted") ~> (c \in answered \cup stranded)

\* Shutting down, with _flush_rpcs waiting without a limit and rpc_queue_shutdown
\* joining the worker, comes to an end.
ShutdownTerminates == (mpc \in {"flush", "resume_backup"}) ~> (mpc = "closed")
=============================================================================
