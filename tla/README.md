# Verification of the controller that Arketa deploys

Arketa builds HPC clusters: scripts create virtual or real machines, install
Slurm on them and submit jobs. The scripts are short and linear; the program
they deploy is the copy of Slurm 25.11 in `src/iso-workspace/slurm-src`, and its
hard part is the controller, `slurmctld`. This project models the mechanisms
of `slurmctld` in which several threads, files and daemons have to agree, checks
them with TLC on small instances, and proves the most important properties with
TLAPS for all instances.

Paths below are relative to `src/iso-workspace/slurm-src/src/` unless they
begin with `src/`.

## Inventory

| Component | State | Operations | Interacts with | What is hard, what makes it correct | Model |
|---|---|---|---|---|---|
| Accounting agent, `plugins/accounting_storage/slurmdbd/{slurmdbd_agent,dbd_conn}.c` | message queue, file `dbd.messages`, connection, `halt_agent`, `slurmdbd_shutdown`, two mutexes | `slurmdbd_agent_send`, `slurmdbd_agent_send_recv`, `_agent`, `set_conn`, `rem_conn` | every thread of slurmctld that accounts; slurmdbd; job write lock | messages stay queued while they are sent; lost answers and resends; the queue at its limit; a thread halted on a condition; crash and reload. No record may vanish or overtake another | `DbdAgent` |
| Locks, `slurmctld/locks.c` | five read/write locks | `lock_slurmctld`, `unlock_slurmctld`, `report_locks_set` | all threads | exclusion, lock order, a report taken lock by lock while threads move | `SlurmctldLocks` |
| Request queues, `slurmctld/rpc_queue.c` | list, `queued`, `enabled`, `shutdown`, condition | `rpc_enqueue`, `_rpc_queue_worker`, `rpc_queue_shutdown` | conmgr, `_service_connection`, main thread | flags read without a lock, list looked at outside the mutex, freeing at shutdown. No lost wakeup, exact count, every request answered | `RpcQueue` |
| Connection manager, `conmgr/` | connections, work queue, workers, quiesced state | accept, extract, `_on_finish`, `conmgr_quiesce` | all daemons | callbacks in order, quiescing with work under way | partly, in `RpcQueue` |
| State saving, `slurmctld/state_save.c`, `common/state_save.c` | five flags, save thread, three file names per kind of state | `schedule_*_save`, `slurmctld_state_save`, `save_buf_to_state`, loaders | requests, main thread, file system | change during a save, failed save, stop, crash between two system calls. Nothing scheduled is forgotten, a good copy always exists | `StateSave` |
| Main thread, `slurmctld/controller.c` | phase of the shutdown | `_slurmctld_background`, `_flush_rpcs`, shutdown and resumption | all of the above | the order in which things are stopped | partly, in `RpcQueue`, `StateSave` and `ControllerHA` |
| Backup controllers, `slurmctld/{backup,heartbeat}.c` | mode, heartbeat file, time stamps, requests under way, time stamp of `job_state` | `run_backup`, `_heartbeat_thread`, `_shutdown_primary_controller`, `_slurm_rpc_request_control` | other controllers through messages and a shared file | stale heartbeats, a signal and a flag that cross, a handler that waits for the thread that waits for it. No takeover from a live controller, control in the end, two in control do not stay so | `ControllerHA` |
| Outgoing requests, `slurmctld/agent.c` | retry and defer lists, thread counters, pending triggers | `agent_queue_request`, `_agent_init`, `agent`, `_wdog`, `_agent_nodes_update` | slurmd, node records | a budget of threads that are started before they are counted, waiting without a time limit, retries, deferred signals | `CtldAgent` |
| Rate limit, `slurmctld/rate_limit.c` | table of buckets | `rate_limit_exceeded` | requests | 32-bit arithmetic, clock set back, full table | planned |
| `slurmctld/ping_nodes.c` | `ping_count`, last response of each node | `ping_nodes`, `ping_begin`, `ping_end`, `is_ping_done` | agent.c | answers that are noted late; a count that two paths keep. A node that answers is not set DOWN | `CtldAgent` |
| `slurmctld/power_save.c` | node flags | resume and suspend | agent.c, programs of the site | | no |
| Job, node, partition, reservation and license management | the records | thousands of rules | everything | only their state files are modelled (`StateSave`) | no |
| Scheduler and selection plugins | resource maps | backfill, cons_tres | job management | optimisation over large data | no |
| slurmd, slurmstepd | processes | launch, signal | operating system | system calls | no |
| slurmdbd and its SQL storage | database | SQL | MySQL | only what a batch answers is modelled (`DbdAgent`) | no |
| Commands, libraries, REST | none that lasts | one request each | slurmctld | | no |
| Arketa's scripts (`src/qemu-cluster-build.sh`, `src/cluster-manager.sh`, `src/scripts/`, ...) | machines, packages | install, start, stop | QEMU, Vagrant, systemd | linear; each step is another program | no |

`PROJECT.json` lists every component with its sources, and under "hazards" each
place in the code where an order of events that no test produces decides.

## Plan

Written, in this order: `DbdAgent` (the longest chain from a change to its
record), `SlurmctldLocks` (what every thread passes through), `RpcQueue` (how
requests get in and how the controller stops), `StateSave` (what survives),
`ControllerHA` (who is in control), `CtldAgent` (how requests get out),
`AcctQueue` with `DbdAgentRefinement` (what the accounting agent promises).
Every invariant, every action property and the refinement that the passing runs
check is proved, under the hypotheses named below; the liveness properties stay
with TLC.

Next:
1. `RateLimit`: the token bucket of `slurmctld/rate_limit.c` with its 32-bit
   width.
2. conmgr: delayed work, signals and its own shutdown.
3. Composition of `RpcQueue` and `StateSave`: a request that is still in a
   queue changes state after the final save.

## Modules

### DbdAgent

Threads: those that append (`Send`), the agent (`pc`, the `Agent*` actions
follow `_agent` from top to bottom), those that make synchronous calls (`req`),
and the main thread that opens and closes the connection (`phase`). `agent_lock`
covers short sections, so each section is one action; `slurmdbd_lock` is held
across a send and a receive and is the variable `lock`; of the locks of
slurmctld only the job write lock appears (`jobLock`). A message is a number and
one of three types, which is all that the limit actions tell apart. `fail`
stands for `fail_time` being less than 10 seconds old. slurmdbd (`DbdProcess`)
records a prefix of a batch and reports a prefix of that. `delivered` and `lost`
are histories. A crash, and the fatal exit at the limit, end all threads and
leave the file.

Nobody calls the plugin before the connection is open (`Serving`), but closing it
does not stop the callers: `main` closes it (`controller.c:1033`) before it stops
the server of persistent connections and the power save thread (`:1036-1037`).
So `Send` and `ReqHalt` go on in every phase of the closing and after it (phase
`removed`). A late `Send` starts an agent again; that agent, or a sender, that
uses `slurmdbd_conn` after it was cleared takes the process with it
(`AgentNullConn`, `SendNullConn`). From `removed` the process ends
(`MainReturns`) or, as a backup that takes control again or after a
reconfiguration that failed, opens the connection anew; `SetConnAgent` may then
find an agent that outlived the old connection, and loads the file behind its
queue.

Registrations (`DBD_REGISTER_CTLD`), which `_save_dbd_state` and
`_load_dbd_state` leave out, are never in the queue: the only one is made by a
synchronous call (`accounting_storage_slurmdbd.c:2574`), so there is nothing to
leave out and `SaveDbdState` does not mention them.

### SlurmctldLocks

One action per `if` of `lock_slurmctld` and `unlock_slurmctld`, one per probe
of `report_locks_set`. The pthread read/write locks are external: a reader gets
a lock no writer holds, a writer one nobody holds. `MCSlurmctldLocks` gives the
lock sets of three requests from the table in `proc_req.c`.

### RpcQueue

A connection is accepted, its request is read and extracted, a conmgr worker runs
`_service_connection`, `rpc_enqueue` checks, counts, appends and signals in
separate steps, and the queue's worker takes, counts and answers. The main
thread quiesces the listeners, flushes, quiesces conmgr, lets it go on, and
shuts the queue down; it may resume afterwards with the queue disabled, as after
a failed reconfiguration. A controller that resumes as a backup flushes with one
server thread left (`controller.c:2311`), the one whose request it is giving way
to; another one waits for none. `stranded` records what was in the list when it was
freed.

### StateSave

The state of a kind is a version number. `Change` and `ScheduleSave` are two
steps, as in the requests, which schedule after they have unlocked. The save
thread clears a flag, packs, and runs `save_buf_to_state` one system call at a
time. For each kind `file` says what the names `new`, `reg` and `old` stand for
and `same` which of them are names of the `.new` file, because `link` gives one
file two names and `open(O_TRUNC)` empties it under both. A crash may come
between any two steps; `Restart` loads as the loaders do: an incomplete file is
fatal, a missing one for the kinds in `Required` (all but partitions).

### ControllerHA

A controller's main thread is in a `mode`: `down`; in standby `wait` (for a first
heartbeat and the set-up time), `standby`, `ping` (a round of pings without an
answer so far), `pong` (with one) and `check` (reading the heartbeat file);
becoming the one in control (`init`, `load`, `ask`); `control`; and giving it up:
`flush`, `save` and `stop`, in this order. Beside it run its heartbeat thread
(`Beat`), the handlers of requests from other controllers and the administrator,
conmgr's signal handler, and its agent thread, which may still see
`shutdown_time` when `run_backup` resets it. A caller that gives up leaves a
handler behind that nobody waits for (`Forsaken`).

A time stamp is kept as an age in seconds; `Tick` is a second on all clocks at
once. A round of pings takes from no time to `PingTimeout` (MessageTimeout in
`slurm_send_recv_node_msg`), because its threads are joined, and `last_ping` is
set before it; `SetupTime` is the sleep before the listeners are opened.
`Punctual` says that a thread that waits for nothing gets to run within a
second: sleeps, pings that are not all answered, requests without an answer and
the loading and saving of the state are not such steps (`Prompt`). It is the
assumption under which a takeover by timeout can be judged at all. `Patient` says
that a handler's wait only runs out when nothing else can end it, and that the
caller is as patient; it isolates finding 3. The time stamp of `job_state` is
compared, never computed, so `wrote` says whether it is the controller's own.

### CtldAgent

`Req` are the requests: pings, registrations, and commands, some of which wait
for a prolog. A request is in `retry` or `defer`, or with an agent
(`agent[slot]`), which waits for threads, sends, is looked after by its watchdog
and ends. The thread of `_agent_init` (`loop`) is woken by a trigger, by the
clock, or by the shutdown, and works through `_agent_retry` one pass at a time
and with its mutex released in between. Answers go to `updates`, and
`_agent_nodes_update` notes them in the node records under its own mutex while
`ping_nodes` may be asking for the next round. `silent` counts rounds without a
noted answer, in place of `last_response`; `answered` is a history. The periodic
call from `_slurmctld_background` is part of `LoopWakes`. Mail threads take
from the same budget. How long a request waits before it is tried again is not
kept, only that a pass is due (`wait`): a request that was tried may be found in
any pass that finds no fresh one. `QueueShutdown` is `agent_queue_request` of
REQUEST_SHUTDOWN, which starts an agent outside of the lists and joins it while
its caller holds the read lock of the nodes; until that agent has ended nobody
gets the write lock (`NodesFree`).

### AcctQueue and DbdAgentRefinement

`AcctQueue` is what a caller of `slurmdbd_agent_send` may rely on: a bounded queue
from whose head messages are recorded at least once and in order, and which they
leave only when recorded; a stop saves it, a crash returns to the last copy, and
a start that finds a queue puts the copy behind it.
It has six actions and no thread. `DbdAgentRefinement` maps `DbdAgent` to it:
the abstract queue is `agent_list`, or the file while there is no list.

### Subsequences

What `list_delete_all` and `list_transfer_match` of `common/list.c` leave of a
list or take from it: the elements at some of its positions, in their order.
`DbdAgent` purges with it and `CtldAgent` moves deferred requests with it.
`SelectSeq` would do for TLC, but is defined by recursion on the length, which a
proof cannot unfold.

## Runs

| Run | Result | Shows |
|---|---|---|
| `dbd` | passes, 359,000 states | With `max_dbd_msg_action=exit`, a synchronous caller, senders that go on through the closing and the second opening, a fault and a crash: a message being sent is at the head of the queue (`InFlightQueued`), a message is recorded, queued, on file or openly lost (`NothingVanishes`), records arrive in order (`InOrder`), a call of `slurmdbd_agent_send` queues its message or ends the process (`SendQueuesOrExits`), only a reload takes the queue beyond its limit (`QueueBounded`), a halted agent has somebody who will signal it (`HaltedAgentHasWaker`). Module `DbdAgentRefinement`: every step of the agent is a step of `AcctQueue` or changes nothing there (`ImplementsAcctQueue`). Under fair threads every queued message is settled, closing terminates, a halted agent resumes. No step records are sent, as `exit` does not purge |
| `dbd_purge` | violated | see Findings, 1 |
| `dbd_lock_cycle` | violated | see Findings, 2 |
| `dbd_close` | violated | see Findings, 5 |
| `locks` | passes, 2.7 million | Exclusion (`Compatible`), no cycle of waiting threads (`SomeoneMoves`), a lock held throughout a report is reported (`HeldIsReported`) |
| `rpcq` | passes, 73,000 | `q->queued` is exact and bounded (`QueueLimit`), no lost wakeup, the freed list is not used (`QueueAlive`), a quiesced conmgr has no work left (`NothingHidden`). Every request read is answered, or thrown away by the shutdown; the shutdown terminates |
| `save` | passes, 317,000 | What was scheduled is on disk, pending or its save failed (`NoChangeForgotten`), a stop leaves memory on disk (`StopSavesAll`), a complete copy exists at every moment (`OneGoodCopy`), saves and the stop eventually happen |
| `save_window` | violated | see Findings, 4 |
| `ha` | passes, 346,000 | A primary and a backup, or two backups, with starts at any time, pings that take their time and one fault (a crash, a cut link, a stop or a takeover request): the SIGTERM that `run_backup` sends to itself does not hit the controller it has become (`OwnSignalSpent`), one gets control in the end (`ControlEventually`), two in control do not stay so (`SplitBrainEnds`) |
| `ha_takeover` | violated | see Findings, 6 |
| `ha_reply` | violated | see Findings, 3 |
| `ctld_agent` | passes, 4.1 million | Threads of agents and e-mails stay within `MAX_SERVER_THREADS` and are counted exactly (`ThreadBudget`), an agent that waits for threads has another one to wake it (`WaiterHasWaker`), `ping_count` is the number of requests on their way (`PingsCounted`), a signal is not sent before the prolog ends (`SignalAfterProlog`), and a node that answered is not set DOWN (`HealthyNotDown`) |

Every property of a passing run has a mutant in `PROJECT.json`: a definition
(marked "Mutant" in the module) that changes one piece of the code as a plausible
mistake would, and under which the property fails.

### Bounds

- `DbdAgent`: two messages of senders and those the agent adds itself
  (`DBD_JOB_HEAVY`) fill a queue with a limit of two, with a batch of two that can
  be answered fully, in part and not at all. One fault is enough to separate
  "recorded" from "answered"; one crash and two openings to reload the file, once
  behind the queue of an agent that is still there. One synchronous call halts the
  agent; that any number of callers may is proved, not checked. Step records
  matter only for `discard` (`dbd_purge`).
- `SlurmctldLocks`: three threads, the length of a cycle in which a reader is
  between two writers, with lock sets that differ in every data type.
- `RpcQueue`: two connections, two conmgr workers and a limit of one make two
  threads meet in `rpc_enqueue` with the queue full; one request per cycle makes
  the worker yield with work left.
- `StateSave`: two kinds, one that is required and one that is not; one thread,
  one change of each and one failure or crash. The inductive invariant was also
  checked with three failures. `save_window` needs one kind.
- `ControllerHA`: three controllers of which two work, as two backups tell
  priorities apart that a primary and a backup do not. With a `SlurmctldTimeout`
  of 4, beats and rounds of pings come every second, and a round takes up to one.
  `ha_takeover` has the default times in units of ten seconds: a timeout of 12, a
  beat every 3, a round every 4, which takes up to 1. One fault at a time; starts
  and restarts are not bounded.
- `CtldAgent`: two nodes, so that a request may be answered in part; two agents
  at a time with a budget for one and an e-mail, so that one has to wait; a node
  is DOWN after one silent round. The shutdown of the nodes comes when the lists
  are empty (`MaxListed` = 0): what it meets is the agents that run.

`CHECK_DEADLOCK FALSE` is set where the system may really stop: `RpcQueue` and
`StateSave` end in a slurmctld that is down and is not started again, with
bounded inputs. `ControllerHA` and `CtldAgent` do not need it. `DbdAgent` has an explicit step for the final state instead.

### Fairness

Weak fairness of threads that can run: the agent, a caller once it has begun,
the main thread once it has begun to open or to close, and its return from `main`
(`DbdAgent`); workers and
services (`RpcQueue`); the save thread and the main thread (`StateSave`). `RemConn` has
strong fairness: it needs `slurmdbd_lock`, which an agent that a late sender has
started releases for 10 seconds in every round. Of the
clock: `FailExpires`, `TimePasses`. Of slurmdbd: it answers or the connection
times out (`persist_conn.c` polls with a limit). A connection that holds up
`conmgr_quiesce` is closed by its time limit. Weak fairness of `BeginSaveAll`
says that the periodic save comes again. In `ControllerHA`: the main threads,
handlers, heartbeat threads and periodic saves of controllers that are up, and
the clock. `CtldAgent` has no liveness properties: an agent that waits for threads
may be overtaken by others without end, so whatever one would say of it needs
strong fairness of a mutex and a condition variable, which pthreads do not
promise; `WaiterHasWaker` and `PingsCounted` are the safety part. Nothing is assumed of clients, of
changes, of a shutdown request or of a spurious wakeup. Faults are bounded:
liveness is claimed for a slurmdbd that accepts messages eventually and a disk
that works again.

## Proofs

All theorems hold for every value of the constants that satisfies the named
assumption of the module (`DbdAssumption`, `LockAssumption`,
`RpcQueueAssumption`, `StateSaveAssumption`, `ControllerHAAssumption`,
`CtldAgentAssumption`); these give types to the constants, and the last one also
says that e-mails leave room for an agent. In particular the theorems hold for any
number of threads, nodes, controllers, messages, faults and crashes. Hypotheses
beyond that are in the statement of the theorem.

| Module | Theorem | States | Hypotheses |
|---|---|---|---|
| `DbdAgentMsgProofs` | `TypeCorrect` | `TypeOK` | |
| | `HeadInFlight` | `InFlightQueued` | `exit` |
| | `NoMessageVanishes` | `NothingVanishes` | `exit` |
| | `DeliveredInOrder` | `InOrder` | `exit` |
| | `QueuedOrGone` | `SendQueuesOrExits` | |
| `DbdAgentProofs` | `HaltedIsWoken` | `HaltedAgentHasWaker` | |
| | `QueueKeepsLimit` | `QueueBounded` | |
| | `AgentImplementsQueue` | `ImplementsAcctQueue` | `exit` |
| `SlurmctldLocksProofs` | `LocksExclude`, `NoWaitCycle`, `StuckIsReported` | `Compatible`, `SomeoneMoves`, `HeldIsReported` | |
| `RpcQueueProofs` | `LimitIsKept`, `NoWakeupIsLost`, `FreedListUnused`, `QuiesceLeavesNothing` | `QueueLimit`, `NoLostWakeup`, `QueueAlive`, `NothingHidden` | |
| `StateSaveProofs` | `TypeCorrect`, `ScheduledIsNotForgotten`, `CopyOutlivesCrash`, `StopLeavesAll` | `TypeOK`, `NoChangeForgotten`, `OneGoodCopy`, `StopSavesAll` | |
| `ControllerHAProofs` | `TypeCorrect`, `OwnSignalIsSpent` | `TypeOK`, `OwnSignalSpent` | |
| | `TakeoverSparesLive` | `NoTakeoverFromLive` | `Punctual`, `BeatInterval + PingTimeout < PingInterval` |
| `CtldAgentProofs` | `TypeCorrect`, `BudgetKept`, `WaiterIsWoken`, `SignalsWaitForProlog`, `PingsAreCounted`, `AnsweringNodesStayUp` | `TypeOK`, `ThreadBudget`, `WaiterHasWaker`, `SignalAfterProlog`, `PingsCounted`, `HealthyNotDown` | |
| `SubsequencesProofs` | `SubsequenceOf`, `SubsequenceAll`, `SubsequenceInOrder` | what `Subsequence` returns: elements at the given positions, all of them, in their order | |

`exit` stands for `MaxDbdMsgAction = "exit"`: with `discard` the three properties
are false (finding 1). Each inductive invariant was checked by TLC before it was
proved.

The arguments:

- `DbdAgentMsgProofs`. `InFlightQueued` and `NothingVanishes` are proved
  together: a message leaves the queue only as one of those in flight, these
  are its head, and what slurmdbd has confirmed is recorded (`RpcInv`). The
  lemmas `IdsAppend`, `IdsCut`, `IdsTail`, ... say what the sequence operations
  do to the set of ids. `InOrder` alone is not inductive: a message that is
  overtaken may already be gone from the queue. `OrderInv` adds that the queue
  and the file are `Gapless`: whatever lies before an element of either is
  before it in the same list or is recorded or lost. The file counts because a
  crash goes back to it.
- `DbdAgentProofs`. `HaltedAgentHasWaker` needs that a set `halt_agent` belongs to
  a caller that has yet to take the lock (`HaltOwner`) and that `lock` agrees with
  the program counters (`LockOwner`). `QueueBounded` is about steps and needs no
  invariant: a sender finds room or the queue does not grow (`LimitEnqueue`), and
  what is saved is a prefix (`LimitFatal`). An absolute limit is not to be had: a
  late sender starts an agent with the file loaded, and `slurmdbd_agent_set_conn`
  loads it again behind what is queued. For the refinement there is one
  lemma for each abstract action (`RefineEnqueue`, `RefineDeliver`,
  `RefineRemove`, `RefineStop`, `RefineReload`, `RefineCrash`), with `Unlisted`:
  without a list there is nothing in it, so that the mapping may take the file
  instead.
- `SlurmctldLocksProofs`. All three follow from `Owned`: a thread's position
  determines the locks it holds. For `NoWaitCycle`, if every pending call were
  blocked, each would wait for one that is further on, and five steps along the
  order lead to a contradiction without induction.
- `RpcQueueProofs`. The heart is `WorkOrdered`: in conmgr's work queue the
  callback that ends a connection is behind the one that serves its request, so
  that no connection left means no request left, although `_watch_loop` does not
  look at the work queue.
- `StateSaveProofs`. The invariant adds that a packed version
  is no older than the last saved one (`Packed`), that `.new` is complete before
  another name is touched (`Written`), that the state file is good until it is
  replaced (`RegGood`), and what memory, schedule and disk have to do with each
  other (`Ordered`, `OnDisk`).
- `ControllerHAProofs`. `SignalInv` says where a SIGTERM that nobody asked for can
  be: only between `run_backup` and the end of `agent_fini`, pending or handled,
  exactly once. `TakeoverSparesLive` joins two invariants: a controller that has
  beaten beats in time and the file is as young as its beat (`BeatInv`), and a
  standby that saw the file unchanged knows a lower bound of its age
  (`RoundInv`). Two readings are a round apart less the time the earlier
  round of pings took, so a file unchanged between them is at least
  `PingInterval - PingTimeout` old; `TimedOutAlone` is the arithmetic that makes
  this older than a beat. Where `BeatInterval + PingTimeout < PingInterval` fails
  by one second, as it does with the default times, TLC finds the takeover (finding
  6); without `Punctual` it finds one for any times. So neither hypothesis can be
  dropped.
- `CtldAgentProofs`. `ThreadBudget` says of two counters that they are the sizes of
  two sets, the agents that run (`Counted`) and their numbered threads
  (`Threads`); a step adds to them or takes from them what one agent has
  (`OneMore`, `OneLess`), and no sum over agents is needed. `WaiterHasWaker`
  follows from the budget: if no agent ran, only e-mails would hold threads.
  `SignalAfterProlog` needs that what is in `retry` is ready (`ListedReady`).
  `PingsCounted` counts positions of a list; the lemmas `JoinedPings`,
  `RemovedPings` and `NoPingsCount` follow the count through the list
  operations, and only requests for pings come to `ping_end` (`PingPhase`).
  `HealthyNotDown` rests on `AnswersReach`: an answer is in the node record,
  with the agent that is to list it, or listed and not yet reported as noted,
  in which case `is_ping_done` is false.
- `SubsequencesProofs`. `Rank` numbers a finite set of positions without gaps
  (`RankGrows`, `RankTaken`), which needs no induction: ranks are a one-to-one
  function from the positions into as many numbers, so each number is taken.

Only model-checked: the liveness properties `EventuallySettled`,
`CloseTerminates`, `HaltedAgentResumes`, `EventuallyAnswered`,
`ShutdownTerminates`, `EventuallySaved`, `EventuallyStops`, `ControlEventually` and
`SplitBrainEnds`, as fairness and `ENABLED` are out of the prover's reach. What
the agent promises with `max_dbd_msg_action=discard` is proved only as far as types
and the limit of the queue go.

## Findings

Runs that TLC refutes, each stating what a comment or the manual says:

1. `dbd_purge`: with `discard`, a sender purges step records from the queue while
   the agent is sending them. "Leave item on the queue until processing complete"
   (`slurmdbd_agent.c:748`) does not hold; the buffer in use is freed, and
   messages that were never sent are dequeued instead.
2. `dbd_lock_cycle`: the agent asks for the job write lock with `slurmdbd_lock`
   held, while `controller.c:3754` calls slurmdbd with the job write lock held
   and says it is ok.
3. `ha_reply`: `_slurm_rpc_request_control` is to "Wait for the backup to dump
   state and finish up everything" until "we know for sure we are in backup mode
   in run_backup()" (`proc_req.c:3192-3196`). The handler is work of conmgr, and the
   main thread waits for all such work (`controller.c:2474`) before it saves and
   before `run_backup` broadcasts. So the wait always runs out, and success is
   answered before the state has been saved: the new controller may read old
   state, and the late save of the old one looks like a split brain.
4. `save_window`: between `unlink(reg_file)` and `link(new_file, reg_file)` a
   crash leaves no state file under the name the loaders read, although `.new`
   and `.old` are complete. slurmctld then refuses to start.
5. `dbd_close`: `dbd_conn_check_and_reopen` asserts that the agent has a
   connection (`xassert(pc)`, `dbd_conn.c:181`), and `slurmdbd_agent_rem_conn` joins
   the agent before it clears `slurmdbd_conn`. A sender between the two starts a
   new agent, which reads through NULL (`slurmdbd_agent.c:704`). Such a sender
   exists: the power save thread (`power_save.c:584-588`) is stopped after the
   connection is closed (`controller.c:1033-1037`).
6. `ha_takeover`: "If the primary is unresponsive but the heartbeat is getting
   updated, consider the controller still "working" and abort the takeover"
   (`backup.c:225-228`). A round of pings that takes its full time limit and a next
   one that fails at once read the heartbeat `SlurmctldTimeout/3 - MessageTimeout`
   apart, with the defaults 40 - 10 = 30 seconds, which is the beat. Both may read
   the same beat, and a standby that has had no answer for `SlurmctldTimeout`
   then takes over from a controller of lower priority that works and beats; the
   heartbeat of a lower one does not count as an answer (`backup.c:194-197`).

Observations made while modelling, without a run of their own:

- `slurm.conf(5)` (lines 5223-5225) says that with `discard` job start messages
  are purged after step messages. `_max_dbd_msg_action` only purges step
  messages; a full queue refuses what comes.
- The same page (5230-5231) says of `exit` that slurmctld exits "instead of
  discarding any messages". The queue is saved before the message at hand is
  enqueued, so that one is lost (`Send` adds it to `lost`).
- A first message larger than `MAX_MSG_SIZE` makes an empty batch
  (`slurmdbd_agent.c:673`), and a message that slurmdbd refuses every time keeps
  all others behind it (`:244`). The model has neither: a batch holds at least one
  message and slurmdbd accepts each one eventually.
- `rpc_queue_shutdown` frees the list of a queue with requests in it; their
  senders get no answer (`stranded`).
- "no active RPCs" (`controller.c:2469`) is not what `conmgr_quiesce` gives: a
  request in an rpc_queue has left conmgr and `server_thread_count` (`:1796`), and
  its worker goes on.
- A crash between `link(new_file, reg_file)` and `unlink(new_file)` leaves two names
  of one file; the next save truncates it through `.new`
  (`common/state_save.c:95`), so that for a while no complete state file exists.
- `link` that fails for another reason than a missing source (`EMLINK`, `ENOSPC`)
  is only logged, and the save counts as made (`common/state_save.c:120`).
- Two crashes can leave no complete copy of the partition state, whose loader
  goes on without a file; this is why `OneGoodCopy` is about `Required` kinds.
- `heartbeat.c:75` says that a beat every half timeout "should be sufficient". It
  would not be: what has to be more than a beat and a ping's time limit is a third
  of the timeout, not the whole. For a timeout of 4, 5 or 8 seconds beats and
  rounds have the same period, and no time limit of a ping is short enough; with
  MessageTimeout at 10 seconds, `SlurmctldTimeout` has to be 123 or more.
- The handler of REQUEST_SHUTDOWN holds the read lock of the nodes while it joins
  the agent that sends it (`proc_req.c:3239-3242`, `agent.c:1896`). That agent may
  have to wait for threads (`agent.c:312`); if the watchdogs of all agents that
  have them wait for the write lock of the nodes, because a node did not
  respond (`:806`), nobody moves: no agent ends, and `shutdown_time` is set only
  after the join. TLC finds this in `CtldAgent` in eight steps when asked for a
  state in which an agent waits and no other agent can take a step. It is not a
  violation of `WaiterHasWaker`, which says that there is an agent whose end would
  wake the waiting one, not that it ends.
- A crash in the middle of a beat leaves no heartbeat file (`heartbeat.c:133`): no
  standby takes over, and `scontrol takeover` is refused, until the primary or an
  operator intervenes. This is the exception in `ControlEventually`.
- `scontrol takeover` sleeps for a fixed time for the other controller to finish
  (`backup.c:663-671`, with a FIXME); `NoTakeoverFromLive` is about timeouts only.
- A `SIGTERM` handled just before a standby leaves its loop is forgotten when
  `shutdown_time` is reset (`backup.c:298`).
- `run_backup` reads the state (`backup.c:326`) before the other backups are asked
  to give up control (`controller.c:873`).
- `_flush_rpcs` never gives up (`controller.c:2319`).
- `heartbeat_stop` does not wait for its thread; a start right after it would leave
  two. Several sleeps lie between the two in fact.
- With `shutdown_time` set `agent()` throws a request for pings away without
  `ping_end` (`agent.c:317`), and `ping_count` outlives the agent: a backup that
  gives up control and takes it again in the same process may never ping again.
- `_mail_proc` does not signal `agent_cnt_cond`. `WaiterHasWaker` holds because
  e-mails alone cannot use up the budget: `CtldAgentAssumption` says so, and
  `MAX_MAIL_THREADS` is far below `MAX_SERVER_THREADS`.
- `_agent_retry` may start an agent when the budget is exactly used up by it
  (`agent.c:1818`), the end of an agent triggers a pass only when something would
  be left (`:415`); at the boundary a request waits for the clock.
- During a shutdown with only requests that were tried recently, `_agent_init`
  loops without sleeping for up to `AGENT_SHUTDOWN_WAIT` seconds; `agent_fini` may
  return with agents left, and `retry_list` is not emptied when control is given
  up.
- When `start_msg_tree` fails for a list of nodes, nothing of it is sent again
  (`agent.c:999`).
- `pending_check_defer` is cleared outside its mutex (`agent.c:1453`), so a trigger
  that comes at that moment may be lost. The whole list is looked at after the flag
  is cleared, and the next trigger or periodic call looks at it again; no
  property states that: `SignalAfterProlog` is about the order of the signal and
  the prolog only.
- After the clock is set back, `rate_limit.c:179` adds a negative number of tokens
  to an unsigned count, which fills the bucket.

## What the models assume and leave out

- Directory operations (`link`, `unlink`) survive a crash in the order they were
  made, and `link` fails only for a missing source.
- `slurmctld -i`, which ignores damaged state files, is left out. The check for
  two primaries in `dump_all_job_state` is in `ControllerHA`, not in `StateSave`.
- In `StateSave` the requests are over when the final save begins, as the comment
  at `controller.c:2469` intends. As observed above, a queued request may still
  be running; what it changes after the final save is saved only if it
  schedules a save before the thread ends. The planned composition is about that.
- The sizes of accounting messages and the split of a batch by bytes are reduced
  to a choice of its length, at least one.
- A late sender that overtakes the reopening of the connection is left out: while
  `slurmdbd_agent_set_conn` runs (phase `opening`) nobody else calls the plugin.
- slurmdbd answers each batch for the messages of that batch; TLS, packing and
  authentication are left out.
- The priority of readers and writers in pthread locks is left open, so nothing
  is said about starvation in `locks.c`.
- In `ControllerHA` all controllers share one clock and a file system that works, two
  files written in the same second have different stamps, and the shutdown always
  saves (`report_locks_set` finds no lock held). Authentication, reconfiguration
  and the programs run at a change of role are left out.
- In `CtldAgent` an answer is chosen when the watchdog reads it; health checks,
  which are pings by another name, `NODE_STATE_NO_RESPOND`, launches of batch
  jobs (which are requeued by job_mgr.c) and messages to srun are left out. It
  covers one life, from `agent_init` to `agent_fini`.
- A connection carries one request; conmgr's polling, buffering and timers
  appear only as the steps they lead to.
- The rest of slurmctld, the other daemons and the deployment scripts are not
  modelled, for the reasons given with each component in `PROJECT.json`.
