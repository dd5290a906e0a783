--------------------------- MODULE SlurmctldLocks ---------------------------
(***************************************************************************)
(* slurmctld/locks.c: five read/write locks taken in a fixed order by      *)
(* lock_slurmctld, released in the opposite order by unlock_slurmctld, and *)
(* looked at one after the other by report_locks_set when slurmctld shuts  *)
(* down.  The locks themselves are pthread_rwlocks: a reader gets one that *)
(* no writer holds, a writer one that nobody holds; who is served first    *)
(* is left open.                                                           *)
(***************************************************************************)
EXTENDS Integers

CONSTANTS
    Threads,   \* threads of slurmctld
    LockSets,  \* the slurmctld_lock_t values they use
    None       \* not a thread

\* lock_datatype_t, in the order of the enumeration.
CONF_LOCK == 1
JOB_LOCK  == 2
NODE_LOCK == 3
PART_LOCK == 4
FED_LOCK  == 5
Datatypes == CONF_LOCK..FED_LOCK

\* lock_level_t.
NO_LOCK    == 0
READ_LOCK  == 1
WRITE_LOCK == 2
Levels     == {NO_LOCK, READ_LOCK, WRITE_LOCK}

ASSUME LockAssumption ==
    /\ None \notin Threads
    /\ LockSets \subseteq [Datatypes -> Levels]

VARIABLES
    readers,  \* the threads that hold slurmctld_locks[d] for reading
    writer,   \* the thread that holds it for writing, or None
    levels,   \* lock_levels of each thread's call (thread_locks)
    stage,    \* "idle", "locking", "held" or "unlocking"
    at,       \* the datatype the thread's call looks at next
    probe,    \* the datatype report_locks_set looks at next, 0 outside
    found,    \* the datatypes it has reported
    since     \* history: threads that have held their locks since it began

lockVars == <<readers, writer, levels, stage, at>>
vars == <<lockVars, probe, found, since>>

-----------------------------------------------------------------------------
\* The call of t would get slurmctld_locks[d] at once.
CanTake(t, d) ==
    /\ levels[t][d] # NO_LOCK => writer[d] = None
    /\ levels[t][d] = WRITE_LOCK => readers[d] = {}

\* lock_slurmctld: _store_locks, then the first lock.
LockCall(t, l) ==
    /\ stage[t] = "idle"
    /\ stage' = [stage EXCEPT ![t] = "locking"]
    /\ levels' = [levels EXCEPT ![t] = l]
    /\ at' = [at EXCEPT ![t] = CONF_LOCK]
    /\ UNCHANGED <<readers, writer, probe, found, since>>

\* Mutant: the job lock is asked for after all the others by its writers.
FollowJobLast(t) ==
    CASE levels[t][JOB_LOCK] # WRITE_LOCK -> at[t] + 1
      [] at[t] = CONF_LOCK -> NODE_LOCK
      [] at[t] = FED_LOCK  -> JOB_LOCK
      [] at[t] = JOB_LOCK  -> FED_LOCK + 1
      [] OTHER -> at[t] + 1

\* "Issue the required lock requests in a well defined order".
Follow(t) == at[t] + 1

\* Mutant: a writer does not wait for the readers.
MayPass(t, d) == levels[t][d] # NO_LOCK => writer[d] = None

\* slurm_rwlock_rdlock or slurm_rwlock_wrlock returns.
Granted(t, d) == CanTake(t, d)

\* One if statement of lock_slurmctld.
LockNext(t) ==
    /\ stage[t] = "locking"
    /\ LET d == at[t] IN
        /\ Granted(t, d)
        /\ readers' = IF levels[t][d] = READ_LOCK
                      THEN [readers EXCEPT ![d] = @ \cup {t}] ELSE readers
        /\ writer' = IF levels[t][d] = WRITE_LOCK
                     THEN [writer EXCEPT ![d] = t] ELSE writer
    /\ IF Follow(t) > FED_LOCK
       THEN stage' = [stage EXCEPT ![t] = "held"] /\ UNCHANGED at
       ELSE at' = [at EXCEPT ![t] = Follow(t)] /\ UNCHANGED stage
    /\ UNCHANGED <<levels, probe, found, since>>

\* unlock_slurmctld is called with the levels of the lock_slurmctld call
\* (_clear_locks asserts it).
UnlockCall(t) ==
    /\ stage[t] = "held"
    /\ stage' = [stage EXCEPT ![t] = "unlocking"]
    /\ at' = [at EXCEPT ![t] = FED_LOCK]
    /\ since' = since \ {t}
    /\ UNCHANGED <<readers, writer, levels, probe, found>>

\* One if statement of unlock_slurmctld.
UnlockNext(t) ==
    /\ stage[t] = "unlocking"
    /\ LET d == at[t] IN
        /\ readers' = [readers EXCEPT ![d] = @ \ {t}]
        /\ writer' = IF writer[d] = t THEN [writer EXCEPT ![d] = None] ELSE writer
    /\ IF at[t] = CONF_LOCK
       THEN stage' = [stage EXCEPT ![t] = "idle"] /\ UNCHANGED at
       ELSE at' = [at EXCEPT ![t] = @ - 1] /\ UNCHANGED stage
    /\ UNCHANGED <<levels, probe, found, since>>

-----------------------------------------------------------------------------
(* report_locks_set. *)

ReportCall ==
    /\ probe = 0 /\ probe' = CONF_LOCK
    /\ found' = {}
    /\ since' = {t \in Threads : stage[t] = "held"}
    /\ UNCHANGED lockVars

\* Mutant: only the read attempt is made, which other readers do not disturb.
SetForWriting(d) == writer[d] # None

\* _report_lock_set: an attempt to read and then one to write.  It gives a lock
\* it gets back at once, which delays the others and is left out.
IsSet(d) == writer[d] # None \/ readers[d] # {}

ReportNext ==
    /\ probe \in Datatypes
    /\ found' = IF IsSet(probe) THEN found \cup {probe} ELSE found
    /\ probe' = probe + 1
    /\ UNCHANGED <<lockVars, since>>

\* The count is returned to the shutdown of slurmctld.
ReportReturn ==
    /\ probe > FED_LOCK /\ probe' = 0
    /\ UNCHANGED <<lockVars, found, since>>

-----------------------------------------------------------------------------
Init ==
    /\ readers = [d \in Datatypes |-> {}]
    /\ writer = [d \in Datatypes |-> None]
    /\ levels = [t \in Threads |-> [d \in Datatypes |-> NO_LOCK]]
    /\ stage = [t \in Threads |-> "idle"]
    /\ at = [t \in Threads |-> CONF_LOCK]
    /\ probe = 0 /\ found = {} /\ since = {}

ThreadNext(t) ==
    \/ \E l \in LockSets : LockCall(t, l)
    \/ LockNext(t) \/ UnlockCall(t) \/ UnlockNext(t)

ReportStep == ReportCall \/ ReportNext \/ ReportReturn

Next == (\E t \in Threads : ThreadNext(t)) \/ ReportStep

Spec == Init /\ [][Next]_vars

-----------------------------------------------------------------------------
(* Properties. *)

\* Every variable of locks.c keeps its type.
TypeOK ==
    /\ readers \in [Datatypes -> SUBSET Threads]
    /\ writer \in [Datatypes -> Threads \cup {None}]
    /\ levels \in [Threads -> [Datatypes -> Levels]]
    /\ stage \in [Threads -> {"idle", "locking", "held", "unlocking"}]
    /\ at \in [Threads -> Datatypes]
    /\ probe \in 0..(FED_LOCK + 1)
    /\ found \subseteq Datatypes /\ since \subseteq Threads

\* Two threads between their lock_slurmctld and their unlock_slurmctld never
\* have one of the five data types at conflicting levels.
Compatible ==
    \A t, u \in Threads : t # u /\ stage[t] = "held" /\ stage[u] = "held"
        => \A d \in Datatypes :
               levels[t][d] = WRITE_LOCK => levels[u][d] = NO_LOCK

\* The order of the requests makes a cycle of waiting threads impossible: as
\* long as a call of lock_slurmctld is pending, one of them can go on or some
\* thread holds all the locks it asked for.
SomeoneMoves ==
    (\E t \in Threads : stage[t] = "locking")
        => \E t \in Threads :
               \/ stage[t] \in {"held", "unlocking"}
               \/ stage[t] = "locking" /\ CanTake(t, at[t])

\* report_locks_set looks at the locks one by one while threads go on; a lock
\* that is held from its beginning to its end is nevertheless reported, so
\* that slurmctld does not save its state over a stuck thread.
HeldIsReported ==
    probe > FED_LOCK =>
        \A t \in since : \A d \in Datatypes : levels[t][d] # NO_LOCK => d \in found
=============================================================================
