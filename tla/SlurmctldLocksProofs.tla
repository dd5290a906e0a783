------------------------ MODULE SlurmctldLocksProofs ------------------------
(***************************************************************************)
(* Proofs about slurmctld/locks.c for any set of threads and any lock sets *)
(* they use.  Two of the three properties follow from Owned: a thread's    *)
(* program counter says which of the five locks it holds.  The third,      *)
(* HeldIsReported, adds what a report under way has seen so far.           *)
(***************************************************************************)
EXTENDS SlurmctldLocks, TLAPS

\* The call of t has got the lock of d and has not given it back.
Has(t, d) ==
    \/ stage[t] = "locking" /\ d < at[t]
    \/ stage[t] = "held"
    \/ stage[t] = "unlocking" /\ d <= at[t]

\* The pthread_rwlocks are held by the threads whose position says so.
Owned ==
    \A d \in Datatypes :
        /\ \A t \in Threads :
              /\ t \in readers[d] <=> Has(t, d) /\ levels[t][d] = READ_LOCK
              /\ writer[d] = t <=> Has(t, d) /\ levels[t][d] = WRITE_LOCK
        /\ writer[d] # None => readers[d] = {}

\* A report under way has reported what the threads that have been holding
\* their locks since its beginning hold among the locks it has looked at.
ReportedSoFar ==
    \A t \in since :
        /\ stage[t] = "held"
        /\ \A d \in Datatypes : d < probe /\ levels[t][d] # NO_LOCK => d \in found

IInv == TypeOK /\ Owned /\ ReportedSoFar

-----------------------------------------------------------------------------
\* The lock functions start with no lock held by anyone.
LEMMA InitIInv == Init => IInv
<1> SUFFICES ASSUME Init PROVE IInv
  OBVIOUS
<1> USE DEF Init, Datatypes, Levels, CONF_LOCK, FED_LOCK, NO_LOCK, READ_LOCK, WRITE_LOCK
<1>1. TypeOK
  BY DEF TypeOK
<1>2. Owned
  BY LockAssumption DEF Owned, Has
<1>3. ReportedSoFar
  BY DEF ReportedSoFar
<1> QED
  BY <1>1, <1>2, <1>3 DEF IInv

\* The type invariant survives every step of lock_slurmctld, unlock_slurmctld
\* and report_locks_set.
LEMMA TypeStep == ASSUME TypeOK, [Next]_vars PROVE TypeOK'
<1> USE LockAssumption DEF TypeOK, Datatypes, Levels, CONF_LOCK, FED_LOCK,
      NO_LOCK, READ_LOCK, WRITE_LOCK
<1>1. CASE UNCHANGED vars
  BY <1>1 DEF vars, lockVars
<1>2. ASSUME NEW t \in Threads, NEW l \in LockSets, LockCall(t, l) PROVE TypeOK'
  BY <1>2 DEF LockCall
<1>3. ASSUME NEW t \in Threads, LockNext(t) PROVE TypeOK'
  BY <1>3 DEF LockNext, Follow
<1>4. ASSUME NEW t \in Threads, UnlockCall(t) PROVE TypeOK'
  BY <1>4 DEF UnlockCall
<1>5. ASSUME NEW t \in Threads, UnlockNext(t) PROVE TypeOK'
  BY <1>5 DEF UnlockNext
<1>6. CASE ReportCall
  BY <1>6 DEF ReportCall, lockVars
<1>7. CASE ReportNext
  <2>1. UNCHANGED lockVars /\ since' = since /\ probe' \in 0..6 /\ found' \subseteq Datatypes
    BY <1>7 DEF ReportNext
  <2> QED
    BY <2>1 DEF lockVars
<1>8. CASE ReportReturn
  BY <1>8 DEF ReportReturn, lockVars
<1> QED
  BY <1>1, <1>2, <1>3, <1>4, <1>5, <1>6, <1>7, <1>8 DEF Next, ThreadNext, ReportStep

-----------------------------------------------------------------------------
\* Every step of a thread keeps the locks with the threads that hold them.
LEMMA OwnedStep == ASSUME TypeOK, Owned, [Next]_vars PROVE Owned'
<1> USE LockAssumption DEF TypeOK, Datatypes, Levels, CONF_LOCK, FED_LOCK,
      NO_LOCK, READ_LOCK, WRITE_LOCK
<1>1. CASE UNCHANGED lockVars
  BY <1>1 DEF lockVars, Owned, Has
<1>2. ASSUME NEW t \in Threads, NEW l \in LockSets, LockCall(t, l) PROVE Owned'
  BY <1>2 DEF LockCall, Owned, Has
<1>3. ASSUME NEW t \in Threads, LockNext(t) PROVE Owned'
  <2>1. \A u \in Threads : u # t => \A d \in Datatypes :
           Has(u, d)' = Has(u, d) /\ levels'[u] = levels[u]
    BY <1>3 DEF LockNext, Follow, Has
  <2>2. \A d \in Datatypes : Has(t, d)' <=> Has(t, d) \/ d = at[t]
    BY <1>3 DEF LockNext, Follow, Has
  <2>3. ~Has(t, at[t]) /\ levels' = levels /\ CanTake(t, at[t])
    BY <1>3 DEF LockNext, Has, Granted
  <2>4. ASSUME NEW d \in Datatypes, d # at[t] PROVE readers'[d] = readers[d] /\ writer'[d] = writer[d]
    BY <1>3, <2>4 DEF LockNext
  <2>5. ASSUME NEW d \in Datatypes, d = at[t]
        PROVE /\ readers'[d] = IF levels[t][d] = READ_LOCK THEN readers[d] \cup {t} ELSE readers[d]
              /\ writer'[d] = IF levels[t][d] = WRITE_LOCK THEN t ELSE writer[d]
    BY <1>3, <2>5 DEF LockNext
  <2>6. ASSUME NEW d \in Datatypes, d # at[t], NEW u \in Threads
        PROVE /\ u \in readers'[d] <=> Has(u, d)' /\ levels'[u][d] = READ_LOCK
              /\ writer'[d] = u <=> Has(u, d)' /\ levels'[u][d] = WRITE_LOCK
    BY <2>1, <2>2, <2>3, <2>4, <2>6 DEF Owned
  <2>7. ASSUME NEW d \in Datatypes, d = at[t], NEW u \in Threads
        PROVE /\ u \in readers'[d] <=> Has(u, d)' /\ levels'[u][d] = READ_LOCK
              /\ writer'[d] = u <=> Has(u, d)' /\ levels'[u][d] = WRITE_LOCK
    BY <2>1, <2>2, <2>3, <2>5, <2>7 DEF Owned, CanTake
  <2>8. ASSUME NEW d \in Datatypes PROVE writer'[d] # None => readers'[d] = {}
    BY <2>3, <2>4, <2>5 DEF Owned, CanTake
  <2> QED
    BY <2>6, <2>7, <2>8 DEF Owned
<1>4. ASSUME NEW t \in Threads, UnlockCall(t) PROVE Owned'
  BY <1>4 DEF UnlockCall, Owned, Has
<1>5. ASSUME NEW t \in Threads, UnlockNext(t) PROVE Owned'
  <2>1. \A u \in Threads : u # t => \A d \in Datatypes :
           Has(u, d)' = Has(u, d) /\ levels'[u] = levels[u]
    BY <1>5 DEF UnlockNext, Has
  <2>2. \A d \in Datatypes : Has(t, d)' <=> Has(t, d) /\ d # at[t]
    BY <1>5 DEF UnlockNext, Has
  <2>3. levels' = levels
    BY <1>5 DEF UnlockNext
  <2>4. ASSUME NEW d \in Datatypes, d # at[t] PROVE readers'[d] = readers[d] /\ writer'[d] = writer[d]
    BY <1>5, <2>4 DEF UnlockNext
  <2>5. ASSUME NEW d \in Datatypes, d = at[t]
        PROVE /\ readers'[d] = readers[d] \ {t}
              /\ writer'[d] = IF writer[d] = t THEN None ELSE writer[d]
    BY <1>5, <2>5 DEF UnlockNext
  <2>6. ASSUME NEW d \in Datatypes, d # at[t], NEW u \in Threads
        PROVE /\ u \in readers'[d] <=> Has(u, d)' /\ levels'[u][d] = READ_LOCK
              /\ writer'[d] = u <=> Has(u, d)' /\ levels'[u][d] = WRITE_LOCK
    BY <2>1, <2>2, <2>3, <2>4, <2>6 DEF Owned
  <2>7. ASSUME NEW d \in Datatypes, d = at[t], NEW u \in Threads
        PROVE /\ u \in readers'[d] <=> Has(u, d)' /\ levels'[u][d] = READ_LOCK
              /\ writer'[d] = u <=> Has(u, d)' /\ levels'[u][d] = WRITE_LOCK
    BY <2>1, <2>2, <2>3, <2>5, <2>7 DEF Owned
  <2>8. ASSUME NEW d \in Datatypes PROVE writer'[d] # None => readers'[d] = {}
    BY <2>4, <2>5 DEF Owned
  <2> QED
    BY <2>6, <2>7, <2>8 DEF Owned
<1>6. CASE ReportStep
  BY <1>1, <1>6 DEF ReportStep, ReportCall, ReportNext, ReportReturn
<1> QED
  BY <1>1, <1>2, <1>3, <1>4, <1>5, <1>6 DEF Next, ThreadNext, vars

\* A lock of a thread that holds its lock set is seen by _report_lock_set.
LEMMA HeldIsSet ==
    ASSUME TypeOK, Owned, NEW t \in Threads, stage[t] = "held",
           NEW d \in Datatypes, levels[t][d] # NO_LOCK
    PROVE  IsSet(d)
<1>1. levels[t][d] \in {READ_LOCK, WRITE_LOCK}
  BY DEF TypeOK, Levels
<1>2. t \in readers[d] \/ writer[d] = t
  BY <1>1 DEF Owned, Has
<1> QED
  BY <1>2, LockAssumption DEF IsSet

\* A report keeps track of the threads that hold their locks throughout it.
LEMMA ReportStepInv == ASSUME TypeOK, Owned, ReportedSoFar, [Next]_vars PROVE ReportedSoFar'
<1> USE DEF ReportedSoFar
<1>1. CASE UNCHANGED vars
  BY <1>1 DEF vars, lockVars
<1>2. ASSUME NEW t \in Threads, NEW l \in LockSets, LockCall(t, l) PROVE ReportedSoFar'
  BY <1>2 DEF LockCall, TypeOK
<1>3. ASSUME NEW t \in Threads, LockNext(t) PROVE ReportedSoFar'
  BY <1>3 DEF LockNext, TypeOK
<1>4. ASSUME NEW t \in Threads, UnlockCall(t) PROVE ReportedSoFar'
  BY <1>4 DEF UnlockCall, TypeOK
<1>5. ASSUME NEW t \in Threads, UnlockNext(t) PROVE ReportedSoFar'
  BY <1>5 DEF UnlockNext, TypeOK
<1>6. CASE ReportCall
  BY <1>6 DEF ReportCall, lockVars, Datatypes, CONF_LOCK, FED_LOCK
<1>7. CASE ReportNext
  <2>1. \A t \in since : levels[t][probe] # NO_LOCK => IsSet(probe)
    BY <1>7, HeldIsSet DEF ReportNext, TypeOK
  <2>2. \A d \in Datatypes : d < probe + 1 => d < probe \/ d = probe
    BY <1>7 DEF ReportNext, Datatypes, CONF_LOCK, FED_LOCK
  <2> QED
    BY <1>7, <2>1, <2>2 DEF ReportNext, lockVars
<1>8. CASE ReportReturn
  BY <1>8 DEF ReportReturn, lockVars, Datatypes, CONF_LOCK, FED_LOCK
<1> QED
  BY <1>1, <1>2, <1>3, <1>4, <1>5, <1>6, <1>7, <1>8 DEF Next, ThreadNext, ReportStep

\* The inductive invariant holds in every reachable state.
THEOREM Invariant == Spec => []IInv
<1>1. IInv /\ [Next]_vars => IInv'
  BY TypeStep, OwnedStep, ReportStepInv DEF IInv
<1> QED
  BY InitIInv, <1>1, PTL DEF Spec

-----------------------------------------------------------------------------
\* Two threads that have returned from lock_slurmctld are never at conflicting
\* levels of one data type, whatever the lock sets.
THEOREM LocksExclude == Spec => []Compatible
<1>1. IInv => Compatible
  <2> SUFFICES ASSUME IInv, NEW t \in Threads, NEW u \in Threads, t # u,
                      stage[t] = "held", stage[u] = "held",
                      NEW d \in Datatypes, levels[t][d] = WRITE_LOCK
               PROVE  levels[u][d] = NO_LOCK
    BY DEF Compatible
  <2>1. writer[d] = t /\ readers[d] = {}
    BY LockAssumption DEF IInv, Owned, Has
  <2>2. levels[u][d] # READ_LOCK /\ levels[u][d] # WRITE_LOCK
    BY <2>1 DEF IInv, Owned, Has
  <2> QED
    BY <2>2 DEF IInv, TypeOK, Levels
<1> QED
  BY <1>1, Invariant, PTL

\* The fixed order of lock_slurmctld excludes a cycle of waiting threads: if
\* every pending call were blocked, each would wait for a thread that is
\* further on, and there are only five locks.
THEOREM NoWaitCycle == Spec => []SomeoneMoves
<1>1. IInv => SomeoneMoves
  <2> SUFFICES ASSUME IInv, NEW p \in Threads, stage[p] = "locking",
                      \A t \in Threads :
                          /\ stage[t] \notin {"held", "unlocking"}
                          /\ stage[t] = "locking" => ~CanTake(t, at[t])
               PROVE  FALSE
    BY DEF SomeoneMoves
  <2> DEFINE Pending(t) == t \in Threads /\ stage[t] = "locking"
  <2>1. \A t : Pending(t) => at[t] \in 1..5
    BY DEF IInv, TypeOK, Datatypes, CONF_LOCK, FED_LOCK
  <2>2. ASSUME NEW t, Pending(t) PROVE \E u : Pending(u) /\ at[t] < at[u]
    <3>1. at[t] \in Datatypes
      BY <2>2 DEF IInv, TypeOK
    <3>2. \E u \in Threads : u \in readers[at[t]] \/ writer[at[t]] = u
      BY <2>2, <3>1 DEF IInv, TypeOK, CanTake
    <3>3. \E u \in Threads : Has(u, at[t])
      BY <3>1, <3>2 DEF IInv, Owned
    <3> QED
      BY <3>3 DEF Has
  <2> HIDE DEF Pending
  <2>5. \A t : Pending(t) => at[t] < 5
    BY <2>1, <2>2
  <2>4. \A t : Pending(t) => at[t] < 4
    BY <2>1, <2>2, <2>5
  <2>3. \A t : Pending(t) => at[t] < 3
    BY <2>1, <2>2, <2>4
  <2>6. \A t : Pending(t) => at[t] < 2
    BY <2>1, <2>2, <2>3
  <2>7. \A t : Pending(t) => at[t] < 1
    BY <2>1, <2>2, <2>6
  <2>8. Pending(p)
    BY DEF Pending
  <2> QED
    BY <2>1, <2>7, <2>8
<1> QED
  BY <1>1, Invariant, PTL

\* A lock that is held throughout report_locks_set is reported, although the
\* five locks are looked at one after the other while threads go on.
THEOREM StuckIsReported == Spec => []HeldIsReported
<1>1. IInv => HeldIsReported
  BY DEF IInv, ReportedSoFar, HeldIsReported, Datatypes, TypeOK, CONF_LOCK, FED_LOCK
<1> QED
  BY <1>1, Invariant, PTL
=============================================================================
