---------------------------- MODULE ControllerHA ----------------------------
(***************************************************************************)
(* The control of a cluster by a primary slurmctld and its backups:        *)
(* slurmctld/backup.c (standby, takeover), slurmctld/heartbeat.c, and the  *)
(* parts of controller.c, proc_req.c and job_mgr.c by which a controller   *)
(* takes control, asks others for it, gives it up, and notices another     *)
(* one.  Controller 0 is the primary; a smaller index is a higher          *)
(* priority.  StateSaveLocation is shared and works, the clocks agree.     *)
(*                                                                         *)
(* A time stamp is kept as its age in seconds, up to Late, from where no   *)
(* test tells two ages apart; Tick lets a second pass.                     *)
(***************************************************************************)
EXTENDS Integers, FiniteSets

CONSTANTS
    N,                 \* slurm_conf.control_cnt
    Working,           \* sets of controllers, the machines of one of which work
    SlurmctldTimeout,  \* slurm_conf.slurmctld_timeout
    PingTimeout,       \* seconds after which a ping is given up: MessageTimeout
    SetupTime,         \* seconds run_backup gives the primary to set up: 5
    Patient,           \* CONTROL_TIMEOUT only runs out while the main thread is stuck
    Punctual,          \* a thread that waits for nothing takes less than a second
    MaxFaults          \* bound on crashes, network faults, and requests of the administrator

ASSUME ControllerHAAssumption ==
    /\ N \in Nat \ {0} /\ Working \subseteq SUBSET (0..(N - 1))
    /\ SlurmctldTimeout \in Nat /\ SlurmctldTimeout >= 3 
    /\ PingTimeout \in Nat /\ SetupTime \in Nat
    /\ Patient \in BOOLEAN /\ Punctual \in BOOLEAN
    /\ MaxFaults \in Nat

Ctld == 0..(N - 1)
Late == SlurmctldTimeout + 1
Older(age) == IF age < Late THEN age + 1 ELSE age

\* Seconds between two beats, and between two rounds of pings of a standby.
BeatInterval == IF SlurmctldTimeout \div 4 < 30 THEN SlurmctldTimeout \div 4 ELSE 30
PingInterval == SlurmctldTimeout \div 3

VARIABLES
    mode,      \* where the main thread of a controller is
    sig,       \* SIGTERMs that conmgr has not handled yet
    shut,      \* slurmctld_config.shutdown_time is set
    resume,    \* slurmctld_config.resume_backup
    takeover,  \* REQUEST_TAKEOVER: "no", "ask" while it is served, "yes"
    pend,      \* <<caller, controller>> requests to others not answered yet
    handler,   \* <<caller, request>> of which _slurm_rpc_request_control waits, or
               \* <<caller, "gone">> when the caller does not wait for the answer any more
    file,      \* the heartbeat file: inx, age, and whether its name exists
    beat,      \* age of the last beat of its heartbeat thread, Late before the first
    prev,      \* prev_heartbeat: "none", "same" as in the file, "old"
    resp,      \* age of last_controller_response
    ping,      \* age of last_ping as far as it counts; before, the setup time used
    wrote,     \* last_file_write_time: "zero", "same" as in job_state, "old"
    hosts,     \* the controllers that can be started
    cut,       \* pairs of controllers that the network separates
    asked,     \* history: somebody asked the controller to stop
    faults     \* how many of MaxFaults there were

mainVars  == <<mode, sig, shut, resume>>
rpcVars   == <<takeover, pend, handler>>
beatVars  == <<file, beat, prev>>
timeVars  == <<resp, ping>>
envVars   == <<hosts, cut, faults>>
vars == <<mainVars, rpcVars, beatVars, timeVars, wrote, envVars, asked>>

Pinging   == {"ping", "pong"}                 \* in ping_controllers
Standby   == {"standby", "check"} \cup Pinging \* the ping loop of run_backup
Listening == Standby \cup {"control"}         \* the listeners are not quiesced
Closing   == {"flush", "save"}                \* gives up control, state not saved yet
Beating   == {"control", "stop"} \cup Closing \* heart_beating

To(c, m) == mode' = [mode EXCEPT ![c] = m]
\* pthread_kill(SIGTERM); more than MaxSigs at a time do what MaxSigs do.
MaxSigs == 2
Raise(n) == IF n < MaxSigs THEN n + 1 ELSE n

Fault == faults < MaxFaults /\ faults' = faults + 1
Reached(c, d) == {c, d} \notin cut /\ mode[d] \in Listening

\* The callers of _shutdown_backup_controller and of
\* _shutdown_primary_controller have their own counts of threads.
Pending(c, k) == {d \in Ctld : <<k, d>> \in pend[c]}
Answered(c, k, d) == pend' = [pend EXCEPT ![c] = @ \ {<<k, d>>}]

BeatDue(c) == mode[c] \in Beating /\ beat[c] >= BeatInterval

\* The handlers of requests for which their caller waits no longer.
Forsaken(h, calls) == {IF e \in calls THEN <<e[1], "gone">> ELSE e : e \in h}

\* What a controller forgets when its process ends, and the others of it.
Ends(c) ==
    /\ To(c, "down")
    /\ sig' = [sig EXCEPT ![c] = 0] /\ shut' = [shut EXCEPT ![c] = FALSE]
    /\ resume' = [resume EXCEPT ![c] = FALSE]
    /\ takeover' = [takeover EXCEPT ![c] = "no"]
    /\ pend' = [pend EXCEPT ![c] = {}]
    /\ handler' = [d \in Ctld |-> IF d = c THEN {} ELSE Forsaken(handler[d], {c} \X {"bu", "tk"})]
    /\ beat' = [beat EXCEPT ![c] = 0] /\ prev' = [prev EXCEPT ![c] = "none"]
    /\ resp' = [resp EXCEPT ![c] = 0] /\ ping' = [ping EXCEPT ![c] = 0]
    /\ wrote' = [wrote EXCEPT ![c] = "zero"] /\ asked' = [asked EXCEPT ![c] = FALSE]

\* exit, where no beat is in progress.
Dies(c) == Ends(c) /\ UNCHANGED file

\* fatal or a crash, which may come between unlink and link of a beat.
Killed(c) ==
    /\ Ends(c)
    /\ \/ UNCHANGED file
       \/ BeatDue(c) /\ mode[c] # "stop" /\ file' = [file EXCEPT !.there = FALSE]

-----------------------------------------------------------------------------
(* Taking control: main, run_backup, _shutdown_backup_controller. *)

\* Mutant: the loop over control_cnt goes one too far.
OneTooMany(c) == {<<"bu", d>> : d \in (1..N) \ {c}}

\* _shutdown_backup_controller starts a thread for each of these; a request to
\* a machine that does not work changes nothing and is left out.
Backups(c) == {<<"bu", d>> : d \in hosts \ {0, c}}

\* main: the primary asks the backups for control, a backup becomes a standby.
Start(c) ==
    /\ mode[c] = "down" /\ c \in hosts /\ To(c, IF c = 0 THEN "ask" ELSE "wait")
    /\ pend' = [pend EXCEPT ![c] = IF c = 0 THEN Backups(c) ELSE {}]
    /\ UNCHANGED <<sig, shut, resume, takeover, handler, beatVars, timeVars, wrote, envVars, asked>>

\* The heartbeat file exists, and five times a second was slept.
SetUp(c) == mode[c] = "wait" /\ ping[c] >= SetupTime /\ (ping[c] = 0 => file.there)

\* run_backup up to listeners_unquiesce, in a controller that was not asked to
\* stop.  The loop sleeps a second before the first ping.
EnterStandby(c) ==
    /\ SetUp(c) /\ To(c, "standby")
    /\ ping' = [ping EXCEPT ![c] = PingInterval - 1]
    /\ UNCHANGED <<sig, shut, resume, rpcVars, beatVars, resp, wrote, envVars, asked>>

\* The loop of run_backup ends because of shutdown_time: exit.
StandbyExit(c) ==
    /\ mode[c] \in {"wait", "standby"} /\ shut[c] /\ Dies(c)
    /\ UNCHANGED envVars

\* The loop is left without shutdown_time: backup_slurmctld_restart and SIGTERM
\* to itself.  (The times of the loop and takeover are not read again before
\* run_backup sets them anew; prev_heartbeat is static.)
TakeControl(c, heartbeat) ==
    /\ To(c, "init") /\ sig' = [sig EXCEPT ![c] = Raise(@)]
    /\ prev' = [prev EXCEPT ![c] = heartbeat]
    /\ resp' = [resp EXCEPT ![c] = 0] /\ ping' = [ping EXCEPT ![c] = 0]
    /\ takeover' = [takeover EXCEPT ![c] = IF @ = "yes" THEN "no" ELSE @]
    /\ wrote' = [wrote EXCEPT ![c] = "zero"]
    /\ UNCHANGED <<shut, resume, pend, handler, file, beat, asked>>

\* The loop sleeps a second, then tests what is left of PingInterval.
PingDue(c) ==
    /\ mode[c] = "standby" /\ ~shut[c] /\ ping[c] > 0
    /\ ping[c] >= PingInterval \/ takeover[c] = "yes"

\* last_ping is set, and ping_controllers(false) starts its threads, one for each
\* controller of higher priority; a standby answers as well.
Responding(c) == \E d \in 0..(c - 1) : Reached(c, d)

StartPing(c) ==
    /\ PingDue(c) /\ To(c, IF Responding(c) THEN "pong" ELSE "ping")
    /\ ping' = [ping EXCEPT ![c] = 0]
    /\ UNCHANGED <<sig, shut, resume, rpcVars, beatVars, resp, wrote, envVars, asked>>

\* An answer that took its time.
LateAnswer(c) ==
    /\ mode[c] = "ping" /\ Responding(c) /\ To(c, "pong")
    /\ UNCHANGED <<sig, shut, resume, rpcVars, beatVars, timeVars, wrote, envVars, asked>>

\* The next test of PingInterval comes after a second of sleep.
Slept(c) == IF ping[c] < PingInterval THEN ping[c] ELSE PingInterval - 1

\* ping_controllers has joined its threads, the ones that got no answer too.
PingControllers(c) ==
    /\ \/ /\ mode[c] = "pong" /\ To(c, "standby")
          /\ resp' = [resp EXCEPT ![c] = 0] /\ ping' = [ping EXCEPT ![c] = Slept(c)]
          /\ UNCHANGED <<sig, shut, resume, rpcVars, beatVars, wrote, asked>>
       \/ /\ mode[c] = "ping"
          /\ \/ takeover[c] = "yes" /\ ~shut[c] /\ TakeControl(c, prev[c])
             \/ takeover[c] = "yes" /\ shut[c] /\ Dies(c)
             \/ /\ takeover[c] # "yes" /\ To(c, "check")
                /\ UNCHANGED <<sig, shut, resume, rpcVars, beatVars, timeVars, wrote, asked>>
    /\ UNCHANGED envVars

\* What get_last_heartbeat may find: nothing between unlink and link of a beat.
HeartbeatReads ==
    {there \in BOOLEAN : there = file.there \/ (~there /\ \E d \in Ctld : BeatDue(d))}

\* abort_takeover: the file cannot be read, was not read in the last round, or
\* has changed since.
AbortTakeover(c, there) == ~there \/ prev[c] # "same"

\* Age of use_time: the heartbeat counts unless a lower priority wrote it.
UseAge(c, there) ==
    IF there /\ file.inx <= c /\ file.age < resp[c] THEN file.age ELSE resp[c]

TimedOut(c, there) == UseAge(c, there) > SlurmctldTimeout /\ ~AbortTakeover(c, there)

\* get_last_heartbeat and the decision.
CheckHeartbeat(c) ==
    /\ mode[c] = "check"
    /\ \E there \in HeartbeatReads :
          \/ TimedOut(c, there) /\ ~shut[c] /\ TakeControl(c, "none")
          \/ TimedOut(c, there) /\ shut[c] /\ Dies(c)
          \/ /\ ~TimedOut(c, there) /\ To(c, "standby")
             /\ prev' = [prev EXCEPT ![c] = IF there THEN "same" ELSE "none"]
             /\ ping' = [ping EXCEPT ![c] = Slept(c)]
             /\ UNCHANGED <<sig, shut, resume, rpcVars, file, beat, resp, wrote, asked>>
    /\ UNCHANGED envVars

\* Mutant: agent_fini does not join the thread of the agent.
NoJoin(c) == TRUE

\* agent_fini joins _agent_init, which only ends once shutdown_time is set.
AgentEnded(c) == shut[c]

\* agent_fini, then shutdown_time is reset.
AgentFini(c) ==
    /\ mode[c] = "init" /\ AgentEnded(c) /\ To(c, "load")
    /\ shut' = [shut EXCEPT ![c] = FALSE]
    /\ UNCHANGED <<sig, resume, rpcVars, beatVars, timeVars, wrote, envVars, asked>>

\* control_time and heartbeat_start, which makes the first beat due.
Controls(c) == To(c, "control") /\ beat' = [beat EXCEPT ![c] = Late]

\* read_slurm_conf.  The primary has asked the backups before, a backup asks
\* the others now.
LoadState(c) ==
    /\ mode[c] = "load"
    /\ \/ c = 0 /\ Controls(c) /\ UNCHANGED pend
       \/ c # 0 /\ To(c, "ask") /\ pend' = [pend EXCEPT ![c] = @ \cup Backups(c)]
          /\ UNCHANGED beat
    /\ UNCHANGED <<sig, shut, resume, takeover, handler, file, prev, timeVars, wrote, envVars, asked>>

\* _shutdown_backup_controller returns.
AskedAll(c) ==
    /\ mode[c] = "ask" /\ Pending(c, "bu") = {}
    /\ \/ c = 0 /\ To(c, "load") /\ UNCHANGED beat
       \/ c # 0 /\ Controls(c)
    /\ UNCHANGED <<sig, shut, resume, rpcVars, file, prev, timeVars, wrote, envVars, asked>>

\* "Reassert this machine as the primary controller."
Reassert ==
    /\ mode[0] = "control" /\ ~shut[0] /\ Pending(0, "bu") = {} /\ Backups(0) # {}
    /\ pend' = [pend EXCEPT ![0] = @ \cup Backups(0)]
    /\ UNCHANGED <<mainVars, takeover, handler, beatVars, timeVars, wrote, envVars, asked>>

-----------------------------------------------------------------------------
(* Requests between controllers.  d < c is sent REQUEST_SHUTDOWN, d > c     *)
(* REQUEST_CONTROL.                                                         *)

\* scontrol takeover, served by a standby (on_backup_msg); refused, which changes
\* nothing, without a heartbeat.
RequestTakeover(c) ==
    /\ mode[c] \in Standby /\ takeover[c] = "no" /\ Fault
    /\ TRUE \in HeartbeatReads /\ takeover' = [takeover EXCEPT ![c] = "ask"]
    /\ pend' = [pend EXCEPT ![c] = @ \cup {<<"tk", d>> : d \in hosts \ {c}}]
    /\ UNCHANGED <<mainVars, handler, beatVars, timeVars, wrote, hosts, cut, asked>>

\* _shutdown_primary_controller returns, after a sleep that nothing checks.
TakeoverServed(c) ==
    /\ takeover[c] = "ask" /\ Pending(c, "tk") = {}
    /\ takeover' = [takeover EXCEPT ![c] = "yes"]
    /\ UNCHANGED <<mainVars, pend, handler, beatVars, timeVars, wrote, envVars, asked>>

\* on_backup_msg and _slurm_rpc_shutdown_controller: SIGTERM, and success.
RequestShutdown(c, k, d) ==
    /\ d < c /\ Reached(c, d) /\ Answered(c, k, d)
    /\ sig' = [sig EXCEPT ![d] = IF mode[d] = "control" /\ shut[d] THEN @ ELSE Raise(@)]
    /\ asked' = [asked EXCEPT ![d] = TRUE]
    /\ UNCHANGED <<mode, shut, resume, takeover, handler, beatVars, timeVars, wrote, envVars>>

\* on_backup_msg: ESLURM_DISABLED.
ControlFromStandby(c, k, d) ==
    /\ d > c /\ Reached(c, d) /\ mode[d] \in Standby /\ Answered(c, k, d)
    /\ resp' = [resp EXCEPT ![d] = 0]
    /\ UNCHANGED <<mainVars, takeover, handler, beatVars, ping, wrote, envVars, asked>>

\* _slurm_rpc_request_control up to the wait for backup_finish_cond.
ControlFromActive(c, k, d) ==
    /\ d > c /\ Reached(c, d) /\ mode[d] = "control" /\ <<c, k>> \notin handler[d]
    /\ resume' = [resume EXCEPT ![d] = TRUE]
    /\ sig' = [sig EXCEPT ![d] = IF shut[d] THEN @ ELSE Raise(@)]
    /\ handler' = [handler EXCEPT ![d] = @ \cup {<<c, k>>}]
    /\ asked' = [asked EXCEPT ![d] = TRUE]
    /\ UNCHANGED <<mode, shut, takeover, pend, beatVars, timeVars, wrote, envVars>>

\* The request does not arrive, or its answer does not come in time: the caller
\* has a time limit of its own, CONTROL_TIMEOUT or, for a takeover, half of
\* MessageTimeout, and the handler goes on without it.
RequestFails(c, k, d) ==
    /\ \/ {c, d} \in cut \/ (mode[d] \notin Listening /\ <<c, k>> \notin handler[d])
       \/ ~Patient /\ <<c, k>> \in handler[d]
    /\ Answered(c, k, d)
    /\ handler' = [handler EXCEPT ![d] = Forsaken(@, {<<c, k>>})]
    /\ UNCHANGED <<mainVars, takeover, beatVars, timeVars, wrote, envVars, asked>>

Request(c, k, d) ==
    /\ <<k, d>> \in pend[c]
    /\ \/ RequestShutdown(c, k, d) \/ ControlFromStandby(c, k, d)
       \/ ControlFromActive(c, k, d) \/ RequestFails(c, k, d)

-----------------------------------------------------------------------------
(* Giving up control: the end of _slurmctld_background and of main's loop. *)

\* _on_sigterm, run by conmgr.
HandleSigterm(c) ==
    /\ sig[c] > 0 /\ sig' = [sig EXCEPT ![c] = @ - 1]
    /\ shut' = [shut EXCEPT ![c] = TRUE]
    /\ UNCHANGED <<mode, resume, rpcVars, beatVars, timeVars, wrote, envVars, asked>>

\* listeners_quiesce.
StopListening(c) ==
    /\ mode[c] = "control" /\ shut[c] /\ Pending(c, "bu") = {} /\ To(c, "flush")
    /\ UNCHANGED <<sig, shut, resume, rpcVars, beatVars, timeVars, wrote, envVars, asked>>

\* _flush_rpcs, which lets one handler of REQUEST_CONTROL go on, and
\* conmgr_quiesce, which waits for pending signals and for every worker, the
\* ones of that handler and of a takeover that is being served too.
Quiesced(c) == handler[c] = {} /\ takeover[c] # "ask" /\ sig[c] = 0

Quiesce(c) ==
    /\ mode[c] = "flush" /\ Quiesced(c) /\ To(c, "save")
    /\ UNCHANGED <<sig, shut, resume, rpcVars, beatVars, timeVars, wrote, envVars, asked>>

\* The main thread has a step to take before it is in run_backup.
MainCanMove(d) ==
    \/ mode[d] = "control" /\ (sig[d] > 0 \/ shut[d])
    \/ mode[d] = "flush" /\ (sig[d] > 0 \/ Quiesced(d))
    \/ mode[d] \in {"save", "stop"}

\* Mutant: the handler waits for the broadcast and for nothing else.
NoTimeLimit(d) == FALSE

\* slurm_cond_timedwait runs out.
WaitExpires(d) == Patient => ~MainCanMove(d)

\* _slurm_rpc_request_control answers with success all the same.
ControlReply(d) ==
    /\ WaitExpires(d)
    /\ \E h \in handler[d] :
           /\ handler' = [handler EXCEPT ![d] = @ \ {h}]
           /\ Answered(h[1], h[2], d)
    /\ UNCHANGED <<mainVars, takeover, beatVars, timeVars, wrote, envVars, asked>>

\* Mutant: the check for a second daemon is gone.
AloneAnyway(c) == FALSE

\* dump_all_job_state: another daemon wrote job_state since this one did.
SplitBrain(c) == wrote[c] = "old"

\* save_buf_to_state, and last_file_write_time.
JobStateWritten(c) ==
    wrote' = [d \in Ctld |-> IF d = c THEN "same" ELSE IF wrote[d] = "same" THEN "old" ELSE wrote[d]]

\* dump_all_job_state by the save thread or by the main thread; a backup that
\* finds another's time stamp ends itself.
DumpJobState(c) ==
    \/ c # 0 /\ SplitBrain(c) /\ Killed(c)
    \/ /\ c = 0 \/ ~SplitBrain(c)
       /\ JobStateWritten(c)
       /\ UNCHANGED <<mainVars, rpcVars, beatVars, timeVars, asked>>

PeriodicSave(c) ==
    /\ mode[c] = "control" /\ DumpJobState(c) /\ UNCHANGED envVars

\* save_all_state, and the rest up to heartbeat_stop.
FinalSave(c) ==
    /\ mode[c] = "save"
    /\ \/ c # 0 /\ SplitBrain(c) /\ Killed(c)
       \/ /\ c = 0 \/ ~SplitBrain(c)
          /\ JobStateWritten(c) /\ To(c, "stop")
          /\ UNCHANGED <<sig, shut, resume, rpcVars, beatVars, timeVars, asked>>
    /\ UNCHANGED envVars

\* heartbeat_stop, which a beat in progress keeps waiting, then the end, or for a
\* backup that was asked for control the way back into run_backup, which resets
\* last_file_write_time before it is read again.
HeartbeatStop(c) ==
    /\ mode[c] = "stop"
    /\ \/ (c = 0 \/ ~resume[c]) /\ Dies(c)
       \/ /\ c # 0 /\ resume[c] /\ To(c, "wait")
          /\ beat' = [beat EXCEPT ![c] = 0]
          /\ shut' = [shut EXCEPT ![c] = FALSE] /\ resume' = [resume EXCEPT ![c] = FALSE]
          /\ takeover' = [takeover EXCEPT ![c] = "no"]
          /\ resp' = [resp EXCEPT ![c] = 0] /\ asked' = [asked EXCEPT ![c] = FALSE]
          /\ wrote' = [wrote EXCEPT ![c] = "zero"]
          /\ UNCHANGED <<sig, pend, handler, file, prev, ping>>
    /\ UNCHANGED envVars

-----------------------------------------------------------------------------
(* The heartbeat, and time. *)

\* _heartbeat_thread.  The stamp differs from the last one unless both are of
\* the same second.
Beat(c) ==
    /\ BeatDue(c)
    /\ file' = [inx |-> c, age |-> 0, there |-> TRUE] /\ beat' = [beat EXCEPT ![c] = 0]
    /\ prev' = [d \in Ctld |-> IF prev[d] = "same" /\ file.age > 0 THEN "old" ELSE prev[d]]
    /\ UNCHANGED <<mainVars, rpcVars, timeVars, wrote, envVars, asked>>

\* A round of pings that is over: the time is up, or nobody is left to wait for.
PingEnds(c) ==
    \/ mode[c] \in Pinging /\ ping[c] >= PingTimeout
    \/ mode[c] = "pong" /\ \A d \in 0..(c - 1) : Reached(c, d)

\* Steps that do not take long: all but the loading and saving of the state, pings
\* and requests that are not answered, sleeps and waits.
Prompt(c) ==
    \/ mode[c] \in {"check", "init", "stop"} \/ sig[c] > 0 \/ PingEnds(c)
    \/ SetUp(c) \/ (mode[c] = "standby" /\ ~shut[c] /\ ping[c] >= PingInterval)
    \/ mode[c] = "ask" /\ Pending(c, "bu") = {}
    \/ mode[c] = "control" /\ shut[c] /\ Pending(c, "bu") = {}
    \/ mode[c] = "flush" /\ Quiesced(c)
    \/ takeover[c] = "ask" /\ Pending(c, "tk") = {}
    \/ \E p \in pend[c] : Reached(c, p[2]) /\ <<c, p[1]>> \notin handler[p[2]]

\* Up to which age of last_ping somebody looks at it.
PingLimit(c) ==
    CASE mode[c] = "wait" /\ (file.there \/ ping[c] > 0) -> SetupTime
      [] mode[c] \in {"standby", "check"} -> PingInterval
      [] mode[c] \in Pinging -> PingTimeout
      [] OTHER -> 0

\* A second passes.  The heartbeat thread is not late.
Tick ==
    /\ \A c \in Ctld : ~BeatDue(c) /\ (Punctual => ~Prompt(c))
    /\ resp' = [c \in Ctld |-> IF mode[c] \in Standby \cup {"wait"} THEN Older(resp[c]) ELSE resp[c]]
    /\ ping' = [c \in Ctld |-> IF ping[c] < PingLimit(c) THEN ping[c] + 1 ELSE ping[c]]
    /\ beat' = [c \in Ctld |-> IF mode[c] \in Beating THEN Older(beat[c]) ELSE beat[c]]
    /\ file' = [file EXCEPT !.age = Older(@)]
    /\ UNCHANGED <<mainVars, rpcVars, prev, wrote, envVars, asked>>

-----------------------------------------------------------------------------
(* Faults. *)

Crash(c) ==
    /\ mode[c] # "down" /\ Fault
    /\ Killed(c) /\ UNCHANGED <<hosts, cut>>

\* scontrol shutdown or a signal.
AdminStop(c) ==
    /\ mode[c] \in Listening /\ ~shut[c] /\ Fault
    /\ sig' = [sig EXCEPT ![c] = Raise(@)] /\ asked' = [asked EXCEPT ![c] = TRUE]
    /\ UNCHANGED <<mode, shut, resume, rpcVars, beatVars, timeVars, wrote, hosts, cut>>

CutLink ==
    /\ Fault
    /\ \E c, d \in Ctld : c < d /\ {c, d} \subseteq hosts /\ {c, d} \notin cut /\ cut' = cut \cup {{c, d}}
    /\ UNCHANGED <<mainVars, rpcVars, beatVars, timeVars, wrote, hosts, asked>>

HealLink ==
    /\ \E l \in cut : cut' = cut \ {l}
    /\ UNCHANGED <<mainVars, rpcVars, beatVars, timeVars, wrote, hosts, faults, asked>>

-----------------------------------------------------------------------------
\* The cluster is started for the first time, or has run before.
Init ==
    /\ mode = [c \in Ctld |-> "down"] /\ sig = [c \in Ctld |-> 0]
    /\ shut = [c \in Ctld |-> FALSE] /\ resume = [c \in Ctld |-> FALSE]
    /\ takeover = [c \in Ctld |-> "no"] /\ pend = [c \in Ctld |-> {}]
    /\ handler = [c \in Ctld |-> {}]
    /\ file \in [inx : {0}, age : {Late}, there : BOOLEAN] /\ hosts \in Working
    /\ beat = [c \in Ctld |-> 0]
    /\ prev = [c \in Ctld |-> "none"]
    /\ resp = [c \in Ctld |-> 0] /\ ping = [c \in Ctld |-> 0]
    /\ wrote = [c \in Ctld |-> "zero"]
    /\ cut = {} /\ asked = [c \in Ctld |-> FALSE]
    /\ faults = 0

\* The main thread of a controller.
MainThread(c) ==
    \/ EnterStandby(c) \/ StandbyExit(c) \/ StartPing(c) \/ LateAnswer(c)
    \/ PingControllers(c) \/ CheckHeartbeat(c)
    \/ AgentFini(c) \/ LoadState(c) \/ AskedAll(c)
    \/ StopListening(c) \/ Quiesce(c) \/ FinalSave(c) \/ HeartbeatStop(c)

\* Its workers and the threads that send its requests.
Workers(c) ==
    \/ HandleSigterm(c) \/ TakeoverServed(c) \/ ControlReply(c)
    \/ \E k \in {"bu", "tk"}, d \in Ctld : Request(c, k, d)

Next ==
    \/ \E c \in Ctld :
          \/ Start(c) \/ MainThread(c) \/ Workers(c) \/ Beat(c) \/ PeriodicSave(c)
          \/ RequestTakeover(c) \/ Crash(c) \/ AdminStop(c)
    \/ Reassert \/ Tick \/ CutLink \/ HealLink

Spec == Init /\ [][Next]_vars

\* Threads that can run do run, time passes, requests come to an end.  Nothing
\* makes a controller start, a takeover be asked for or a link heal.
Fairness ==
    /\ WF_vars(Tick)
    /\ \A c \in Ctld :
          WF_vars(MainThread(c)) /\ WF_vars(Workers(c)) /\ WF_vars(Beat(c)) /\ WF_vars(PeriodicSave(c))

FairSpec == Spec /\ Fairness

-----------------------------------------------------------------------------
(* Properties. *)

\* Every variable keeps its type.
TypeOK ==
    /\ mode \in [Ctld -> {"down", "wait", "standby", "ping", "pong", "check", "init", "load",
                          "ask", "control", "flush", "save", "stop"}]
    /\ sig \in [Ctld -> 0..MaxSigs] /\ shut \in [Ctld -> BOOLEAN] /\ resume \in [Ctld -> BOOLEAN]
    /\ takeover \in [Ctld -> {"no", "ask", "yes"}]
    /\ pend \in [Ctld -> SUBSET ({"bu", "tk"} \X Ctld)]
    /\ handler \in [Ctld -> SUBSET (Ctld \X {"bu", "tk", "gone"})]
    /\ file \in [inx : Ctld, age : 0..Late, there : BOOLEAN]
    /\ beat \in [Ctld -> 0..Late]
    /\ prev \in [Ctld -> {"none", "same", "old"}]
    /\ resp \in [Ctld -> 0..Late] /\ ping \in [Ctld -> 0..(PingInterval + PingTimeout + SetupTime)]
    /\ wrote \in [Ctld -> {"zero", "same", "old"}]
    /\ hosts \in Working /\ cut \subseteq SUBSET Ctld /\ asked \in [Ctld -> BOOLEAN]
    /\ faults \in 0..MaxFaults

\* A controller that has control, or has not yet saved what it had, and whose
\* heart has begun to beat.
Holds(d) == mode[d] \in {"control"} \cup Closing /\ beat[d] < Late

\* "If the primary is unresponsive but the heartbeat is getting updated, consider
\* the controller still working and abort the takeover" (run_backup): a standby
\* whose timeout runs out does not take over from a controller that beats, not even
\* from one of lower priority or one that is saving its state.
NoTakeoverFromLive ==
    [][\A c \in Ctld : mode[c] = "check" /\ mode'[c] = "init" =>
          \A d \in Ctld \ {c} : ~Holds(d)]_vars

\* run_backup sends itself SIGTERM and then clears shutdown_time; the signal is
\* handled by another thread and yet never hits the controller it has become.
OwnSignalSpent ==
    \A c \in Ctld : mode[c] = "control" /\ (sig[c] > 0 \/ shut[c]) => asked[c]

\* Wherever the controllers are, waiting, standing by, asking each other for
\* control or serving a request that waits for them to give it up, one of them
\* gets control in the end, unless all have stopped or a crash in the middle of
\* a beat took the heartbeat file away, without which no standby takes over.
ControlEventually ==
    (\E c \in Ctld : mode[c] # "down") ~>
        \/ \E c \in Ctld : mode[c] = "control"
        \/ \A c \in Ctld : mode[c] = "down"
        \/ ~file.there

\* Two controllers in control do not stay so.
SplitBrainEnds ==
    (\E c, d \in Ctld : c # d /\ mode[c] = "control" /\ mode[d] = "control") ~>
        (\A c, d \in Ctld : mode[c] = "control" /\ mode[d] = "control" => c = d)

\* "This should happen in _slurmctld_background and then release once we know
\* for sure we are in backup mode in run_backup()" (_slurm_rpc_request_control):
\* a caller that waits for the answer gets success after control was given up.
ReplyAfterRelease ==
    [][\A d \in Ctld : \A h \in handler[d] \ handler'[d] :
          h[2] # "gone" /\ <<h[1], "gone">> \notin handler'[d] /\ mode'[d] # "down"
          => mode[d] \notin {"control"} \cup Closing]_vars
=============================================================================
