----------------------------- MODULE StateSave -----------------------------
(***************************************************************************)
(* How slurmctld keeps its state on disk: slurmctld/state_save.c (the save *)
(* thread and the schedule_*_save calls that wake it), common/state_save.c *)
(* (save_buf_to_state: write a .new file, keep the last one as .old), the  *)
(* five dump functions, and the loaders that read the files after a stop   *)
(* or a crash.                                                             *)
(*                                                                         *)
(* The state of a kind is a version number, one more with every change.    *)
(* Of the three names of a kind the model keeps what each stands for, and  *)
(* which of them are names of the .new file: link() gives one file several *)
(* names, and open(O_TRUNC) empties it under all of them.                  *)
(***************************************************************************)
EXTENDS Integers, FiniteSets

CONSTANTS
    NKinds,      \* jobs, nodes, partitions, reservations, triggers: 5
    Required,    \* kinds whose loader is fatal when the file is missing
    Changers,    \* threads that change the state and then schedule a save
    MaxVersion,  \* bound: changes per kind since the last load
    MaxFailures  \* bound: failed system calls and crashes of slurmctld

Kinds == 1..NKinds

ASSUME StateSaveAssumption ==
    /\ NKinds \in Nat \ {0} /\ Required \subseteq Kinds
    /\ MaxVersion \in Nat /\ MaxFailures \in Nat

VARIABLES
    mem,        \* the state in memory, per kind
    owed,       \* per thread: the kind it has changed and not scheduled, or 0
    save,       \* save_jobs, save_nodes, ...: not zero
    run_save_thread,
    aged,       \* SAVE_MAX_WAIT has passed since last_save
    spc,        \* the save thread
    cur,        \* the kind it is saving
    buf,        \* the version it has packed
    file,       \* per kind: what each name stands for
    same,       \* per kind: the names of the .new file
    mpc,        \* the main thread
    mk,         \* save_all_state: the kind to schedule next
    promised,   \* history: the version in memory at the last schedule call
    committed,  \* history: the version last saved or loaded
    failed,     \* history: kinds whose last save failed
    truncated,  \* history: kinds whose state file was opened as a left .new
    failures    \* failed calls and crashes so far

saverVars == <<aged, spc, cur, buf>>
diskVars  == <<file, same>>
mainVars  == <<mpc, mk>>
histVars  == <<promised, committed, failed, truncated>>
vars == <<mem, owed, save, run_save_thread, saverVars, diskVars, mainVars,
          histVars, failures>>

FailureHappens == failures < MaxFailures /\ failures' = failures + 1

Files == {"new", "reg", "old"}
Torn  == -1    \* opened with O_TRUNC and not written to the end
Gone  == -2    \* no file has this name

-----------------------------------------------------------------------------
(* Scheduling a save *)

\* Mutant: nobody is woken up.
LeaveAsleep(pc) == pc

\* slurm_cond_broadcast(&state_save_cond)
Awake(pc) == IF pc \in {"wait", "timedwait"} THEN "check" ELSE pc

\* schedule_job_save and its four siblings
Schedule(k) ==
    /\ save' = [save EXCEPT ![k] = TRUE]
    /\ spc' = Awake(spc)
    /\ promised' = [promised EXCEPT ![k] = mem[k]]

\* A request changes the state under the write lock ...
Change(t, k) ==
    /\ mpc \in {"run", "all"} /\ owed[t] = 0 /\ mem[k] < MaxVersion
    /\ mem' = [mem EXCEPT ![k] = @ + 1]
    /\ owed' = [owed EXCEPT ![t] = k]
    /\ UNCHANGED <<save, run_save_thread, saverVars, diskVars, mainVars, histVars, failures>>

\* ... and schedules the save after it has released the lock.
ScheduleSave(t) ==
    /\ owed[t] # 0 /\ Schedule(owed[t])
    /\ owed' = [owed EXCEPT ![t] = 0]
    /\ UNCHANGED <<mem, run_save_thread, aged, cur, buf, diskVars, mainVars,
                   committed, failed, truncated, failures>>

-----------------------------------------------------------------------------
(* The main thread *)

\* _slurmctld_background: the periodic save, and the one before the end, when
\* the requests have been waited for
BeginSaveAll ==
    /\ mpc = "run" /\ mk' = 1
    /\ \/ mpc' = "all"
       \/ mpc' = "final" /\ \A t \in Changers : owed[t] = 0
    /\ UNCHANGED <<mem, owed, save, run_save_thread, saverVars, diskVars, histVars, failures>>

\* The end is reached without a save if report_locks_set finds a lock.
SkipSaveAll ==
    /\ mpc = "final" /\ mk = 1 /\ mpc' = "stop"
    /\ UNCHANGED <<mem, owed, save, run_save_thread, saverVars, diskVars, mk, histVars, failures>>

\* save_all_state, one schedule call at a time
SaveAllState ==
    /\ mpc \in {"all", "final"} /\ Schedule(mk)
    /\ IF mk < NKinds THEN mk' = mk + 1 /\ mpc' = mpc
       ELSE mk' = 1 /\ mpc' = (IF mpc = "all" THEN "run" ELSE "stop")
    /\ UNCHANGED <<mem, owed, run_save_thread, aged, cur, buf, diskVars,
                   committed, failed, truncated, failures>>

\* The save thread is told to end.
shutdown_state_save ==
    /\ mpc = "stop" /\ mpc' = "join"
    /\ run_save_thread' = FALSE /\ spc' = Awake(spc)
    /\ UNCHANGED <<mem, owed, save, aged, cur, buf, diskVars, mk, histVars, failures>>

\* slurm_thread_join(slurmctld_config.thread_id_save)
JoinSaver ==
    /\ mpc = "join" /\ spc = "gone" /\ mpc' = "joined"
    /\ UNCHANGED <<mem, owed, save, run_save_thread, saverVars, diskVars, mk, histVars, failures>>

-----------------------------------------------------------------------------
(* The save thread: slurmctld_state_save *)

AnySave == \E k \in Kinds : save[k]

\* Mutant: the thread ends without a look at the flags.
QuitAtOnce == ~run_save_thread

\* save_count, and SAVE_MAX_WAIT is over or the thread is to end.
SaveDue == AnySave /\ (~run_save_thread \/ aged)
MayQuit == ~run_save_thread /\ ~AnySave

\* Mutant: all flags are cleared with the one that is taken.
ClearedAll(k) == [j \in Kinds |-> FALSE]

\* The flag of kind k is taken and cleared before its state is packed.
Cleared(k) == [save EXCEPT ![k] = FALSE]

\* Mutant: the last kind has a successor.
TakeFlagPast(k) ==
    IF save[k] THEN save' = Cleared(k) /\ cur' = k /\ spc' = "pack"
    ELSE save' = save /\ cur' = k + 1 /\ spc' = "take"

\* One of the five blocks of the loop, up to the dump.
TakeFlag(k) ==
    IF save[k] THEN save' = Cleared(k) /\ cur' = k /\ spc' = "pack"
    ELSE /\ save' = save
         /\ IF k < NKinds THEN cur' = k + 1 /\ spc' = "take"
            ELSE cur' = 1 /\ spc' = "check"

\* The inner loop ends with state_save_lock held, which also covers the
\* test of save_jobs.
BeginSave ==
    /\ spc = "check" /\ SaveDue /\ aged' = FALSE
    /\ TakeFlag(1)
    /\ UNCHANGED <<mem, owed, run_save_thread, buf, diskVars, mainVars, histVars, failures>>

\* The thread returns when it is told to and nothing is left to save.
Quit ==
    /\ spc = "check" /\ MayQuit /\ spc' = "gone" /\ run_save_thread' = TRUE
    /\ UNCHANGED <<mem, owed, save, aged, cur, buf, diskVars, mainVars, histVars, failures>>

\* slurm_cond_timedwait with a save to make, slurm_cond_wait without
Wait ==
    /\ spc = "check" /\ ~SaveDue /\ ~MayQuit
    /\ spc' = (IF AnySave THEN "timedwait" ELSE "wait")
    /\ UNCHANGED <<mem, owed, save, run_save_thread, aged, cur, buf, diskVars,
                   mainVars, histVars, failures>>

\* slurm_cond_timedwait returns after a second.
WaitTimesOut ==
    /\ spc = "timedwait" /\ spc' = "check"
    /\ UNCHANGED <<mem, owed, save, run_save_thread, aged, cur, buf, diskVars,
                   mainVars, histVars, failures>>

\* SAVE_MAX_WAIT seconds have passed.
TimePasses ==
    /\ ~aged /\ aged' = TRUE
    /\ UNCHANGED <<mem, owed, save, run_save_thread, spc, cur, buf, diskVars,
                   mainVars, histVars, failures>>

\* The blocks after the first take state_save_lock for themselves.
TakeNext ==
    /\ spc = "take" /\ TakeFlag(cur)
    /\ UNCHANGED <<mem, owed, run_save_thread, aged, buf, diskVars, mainVars, histVars, failures>>

\* dump_all_job_state and its siblings pack the state under the read locks.
Pack ==
    /\ spc = "pack" /\ buf' = mem[cur] /\ spc' = "open"
    /\ failed' = failed \ {cur}
    /\ UNCHANGED <<mem, owed, save, run_save_thread, aged, cur, diskVars, mainVars,
                   promised, committed, truncated, failures>>

-----------------------------------------------------------------------------
(* save_buf_to_state, one system call at a time *)

Saving == <<mem, owed, save, run_save_thread, aged, cur, buf, mainVars>>

\* Mutant: a failure is noticed and the names are changed all the same.
GoOn == "unlinkold"

\* goto fail
AfterFailure == "cleanup"

\* A system call fails: the function ends with the removal of the .new file.
Fail ==
    /\ FailureHappens
    /\ failed' = failed \cup {cur} /\ spc' = AfterFailure

\* open(new_file, O_CREAT|O_WRONLY|O_TRUNC): a .new file that a crash has left
\* is emptied, with whatever other name it has.
Open ==
    /\ spc = "open"
    /\ \/ Fail /\ UNCHANGED <<diskVars, truncated>>
       \/ LET S == same[cur] \cup {"new"}
          IN /\ same' = [same EXCEPT ![cur] = S]
             /\ file' = [file EXCEPT ![cur] = [f \in Files |-> IF f \in S THEN Torn ELSE file[cur][f]]]
             /\ truncated' = IF "reg" \in S THEN truncated \cup {cur} ELSE truncated
             /\ spc' = "write" /\ UNCHANGED <<failed, failures>>
    /\ UNCHANGED <<Saving, promised, committed>>

\* _write_file and fsync_and_close
Write ==
    /\ spc = "write"
    /\ \/ (Fail /\ UNCHANGED file)
       \/ /\ file' = [file EXCEPT ![cur] = [f \in Files |-> IF f \in same[cur] THEN buf ELSE file[cur][f]]]
          /\ spc' = "unlinkold" /\ UNCHANGED <<failed, failures>>
    /\ UNCHANGED <<Saving, same, promised, committed, truncated>>

Unlink(f) ==
    /\ file' = [file EXCEPT ![cur][f] = Gone]
    /\ same' = [same EXCEPT ![cur] = @ \ {f}]

\* The name g is free.
Link(f, g) ==
    /\ file' = [file EXCEPT ![cur][g] = file[cur][f]]
    /\ same' = [same EXCEPT ![cur] = IF f \in @ THEN @ \cup {g} ELSE @]

UnlinkOld ==
    /\ spc = "unlinkold" /\ spc' = "linkold"
    /\ Unlink("old")
    /\ UNCHANGED <<Saving, histVars, failures>>

\* link(reg_file, old_file) fails, and that is ignored, when there is no
\* reg_file.
LinkOld ==
    /\ spc = "linkold" /\ spc' = "unlinkreg"
    /\ Link("reg", "old")
    /\ UNCHANGED <<Saving, histVars, failures>>

UnlinkReg ==
    /\ spc = "unlinkreg" /\ spc' = "linkreg"
    /\ Unlink("reg")
    /\ UNCHANGED <<Saving, histVars, failures>>

LinkReg ==
    /\ spc = "linkreg" /\ spc' = "saved"
    /\ Link("new", "reg")
    /\ truncated' = truncated \ {cur}
    /\ committed' = [committed EXCEPT ![cur] = buf]
    /\ UNCHANGED <<Saving, promised, failed, failures>>

\* unlink(new_file), FREE_NULL_BUFFER, and on to the next kind
Cleanup ==
    /\ spc \in {"saved", "cleanup"}
    /\ file' = [file EXCEPT ![cur]["new"] = Gone] /\ same' = [same EXCEPT ![cur] = {}]
    /\ IF cur < NKinds THEN cur' = cur + 1 /\ spc' = "take"
       ELSE cur' = 1 /\ spc' = "check"
    /\ buf' = 0
    /\ UNCHANGED <<mem, owed, save, run_save_thread, aged, mainVars,
                   histVars, failures>>

-----------------------------------------------------------------------------
(* Crash and restart *)

Crash ==
    /\ mpc \notin {"down", "joined", "fatal"}
    /\ FailureHappens
    /\ mpc' = "down" /\ spc' = "gone" /\ owed' = [t \in Changers |-> 0]
    /\ UNCHANGED <<mem, save, run_save_thread, aged, cur, buf, diskVars,
                   mk, histVars>>

\* state_save_open: no file, or one too empty for mmap. Of an incomplete file
\* a crash has left nothing on disk, or a part.
Missing(k, empty) == file[k]["reg"] = Gone \/ (file[k]["reg"] = Torn /\ empty)

Loaded(k, empty) == IF Missing(k, empty) THEN 0 ELSE file[k]["reg"]

\* load_all_job_state and its siblings: an incomplete file is fatal, a missing
\* one for the required kinds. The .old and .new files are not read.
LoadFails(empty) ==
    \E k \in Kinds : IF Missing(k, empty) THEN k \in Required ELSE file[k]["reg"] = Torn

Restart ==
    /\ mpc \in {"down", "joined"}
    /\ \E empty \in BOOLEAN :
        IF LoadFails(empty) THEN mpc' = "fatal" /\ UNCHANGED <<mem, spc, histVars>>
        ELSE /\ mpc' = "run" /\ spc' = "check"
             /\ mem' = [k \in Kinds |-> Loaded(k, empty)]
             /\ promised' = mem' /\ committed' = mem'
             /\ failed' = {} /\ truncated' = truncated
    /\ save' = [k \in Kinds |-> FALSE] /\ owed' = [t \in Changers |-> 0]
    /\ run_save_thread' = TRUE /\ aged' = TRUE /\ cur' = 1 /\ buf' = 0 /\ mk' = 1
    /\ UNCHANGED <<diskVars, failures>>

-----------------------------------------------------------------------------
\* A running slurmctld that has saved every kind once.
Init ==
    /\ mem = [k \in Kinds |-> 0] /\ owed = [t \in Changers |-> 0]
    /\ save = [k \in Kinds |-> FALSE] /\ run_save_thread = TRUE
    /\ aged = TRUE /\ spc = "check" /\ cur = 1 /\ buf = 0
    /\ file = [k \in Kinds |-> [f \in Files |-> IF f = "reg" THEN 0 ELSE Gone]]
    /\ same = [k \in Kinds |-> {}]
    /\ mpc = "run" /\ mk = 1
    /\ promised = [k \in Kinds |-> 0] /\ committed = [k \in Kinds |-> 0]
    /\ failed = {} /\ truncated = {}
    /\ failures = 0

Saver ==
    \/ BeginSave \/ Quit \/ Wait \/ WaitTimesOut \/ TakeNext \/ Pack
    \/ Open \/ Write \/ UnlinkOld \/ LinkOld \/ UnlinkReg \/ LinkReg \/ Cleanup

Main == BeginSaveAll \/ SaveAllState \/ shutdown_state_save \/ JoinSaver

Next ==
    \/ \E t \in Changers : (\E k \in Kinds : Change(t, k)) \/ ScheduleSave(t)
    \/ Main \/ SkipSaveAll \/ Saver \/ TimePasses \/ Crash \/ Restart

Spec == Init /\ [][Next]_vars

\* The threads run, and time goes by.
FairSpec ==
    /\ Spec /\ WF_vars(Saver) /\ WF_vars(TimePasses) /\ WF_vars(Main)
    /\ \A t \in Changers : WF_vars(ScheduleSave(t))

-----------------------------------------------------------------------------
(* Properties *)

SaverPcs == {"check", "wait", "timedwait", "take", "pack", "open", "write", "unlinkold",
             "linkold", "unlinkreg", "linkreg", "saved", "cleanup", "gone"}
MainPcs  == {"run", "all", "final", "stop", "join", "joined", "down", "fatal"}
Versions == 0..MaxVersion

\* Every variable of the save thread, of its callers and of the disk keeps its
\* type; cur stays one of the kinds through the five blocks of the loop.
TypeOK ==
    /\ mem \in [Kinds -> Versions] /\ owed \in [Changers -> {0} \cup Kinds]
    /\ save \in [Kinds -> BOOLEAN] /\ run_save_thread \in BOOLEAN /\ aged \in BOOLEAN
    /\ spc \in SaverPcs /\ cur \in Kinds /\ buf \in Versions
    /\ file \in [Kinds -> [Files -> {Gone, Torn} \cup Versions]]
    /\ same \in [Kinds -> SUBSET Files]
    /\ mpc \in MainPcs /\ mk \in Kinds
    /\ promised \in [Kinds -> Versions] /\ committed \in [Kinds -> Versions]
    /\ failed \subseteq Kinds /\ truncated \subseteq Kinds
    /\ failures \in 0..MaxFailures

\* Between the clearing of its flag and the end of its save
InSave(k) == cur = k /\ spc \in {"open", "write", "unlinkold", "linkold", "unlinkreg", "linkreg"}

\* Kind k will be saved in a version at least as new as the scheduled one.
Pending(k) ==
    \/ save[k]
    \/ cur = k /\ spc = "pack"
    \/ InSave(k) /\ buf >= promised[k]

\* The flags are cleared before the state is packed, and changes and schedule
\* calls go on meanwhile: still, whatever was scheduled is saved, or its save
\* is still to come, or the last save of that kind has failed.
NoChangeForgotten ==
    mpc \notin {"down", "fatal"} =>
        \A k \in Kinds : promised[k] <= committed[k] \/ Pending(k) \/ k \in failed

\* After a stop a loader would find what was in memory, except for kinds whose
\* last save failed (slurmctld_state_save ignores that).
StopSavesAll ==
    mpc = "joined" => \A k \in Kinds : Loaded(k, TRUE) = mem[k] \/ k \in failed

\* At every moment, a crash included, one of the three names of a state file
\* stands for a complete copy no older than the last save, except for a file
\* that was emptied by opening a .new file that a crash had left, and for the
\* kind whose loader goes on without a file (two crashes can leave none of it).
OneGoodCopy ==
    \A k \in Required \ truncated :
        \E f \in Files : file[k][f] >= committed[k]

\* A scheduled version is saved, without a crash and unless the last save
\* before the end fails; a failed save is repeated by the periodic one.
EventuallySaved ==
    \A k \in Kinds, v \in 1..MaxVersion :
        promised[k] = v ~> \/ committed[k] >= v
                           \/ mpc \in {"down", "fatal"}
                           \/ mpc = "joined" /\ k \in failed

\* The end of slurmctld, which joins the save thread, is not held up by it.
EventuallyStops == mpc = "final" ~> mpc \in {"joined", "down"}

\* slurm.conf(5), StateSaveLocation: "Slurm state will saved here to recover
\* from system failures": a restarted slurmctld has the last saved state.
RestartRecovers ==
    [][Restart => /\ mpc' = "run"
                  /\ \A k \in Kinds : mem'[k] >= committed[k]]_vars
=============================================================================
