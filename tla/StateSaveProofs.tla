-------------------------- MODULE StateSaveProofs --------------------------
(***************************************************************************)
(* Proofs about StateSave: what is scheduled is not forgotten, a stop      *)
(* leaves the memory image on disk, and a complete copy outlives a crash.  *)
(***************************************************************************)
EXTENDS StateSave, TLAPS

Up == mpc \notin {"down", "fatal"}

\* Who runs when: nobody works for a slurmctld that is down, the requests are
\* over when the end begins, and the save thread leaves no flag behind.
Control ==
    /\ ~Up => spc = "gone"
    /\ mpc \notin {"run", "all"} => \A t \in Changers : owed[t] = 0
    /\ Up /\ ~run_save_thread => mpc = "join"
    /\ Up /\ spc = "gone" => /\ mpc \in {"join", "joined"} /\ run_save_thread
                              /\ \A k \in Kinds : ~save[k]
    /\ mpc = "joined" => spc = "gone"

\* Memory is ahead of what was scheduled and of what was saved, and a change
\* that is not scheduled has a thread that will do it.
Ordered ==
    Up => \A k \in Kinds :
        /\ promised[k] <= mem[k] /\ committed[k] <= mem[k]
        /\ promised[k] = mem[k] \/ \E t \in Changers : owed[t] = k

\* A packed version is no older than the last saved one.
Packed == \A k \in Kinds : InSave(k) => committed[k] <= buf /\ buf <= mem[k]

\* The .new file is complete before the other names are touched.
Written ==
    /\ spc = "write" => "new" \in same[cur]
    /\ spc \in {"unlinkold", "linkold", "unlinkreg", "linkreg"} => file[cur]["new"] = buf

\* Between two saves a loader would read the last saved version.
OnDisk ==
    Up => \A k \in Kinds : InSave(k) \/ k \in failed \/ Loaded(k, TRUE) = committed[k]

\* The state file is good until the moment it is replaced.
RegGood ==
    Up => \A k \in Required \ truncated :
        (cur = k /\ spc = "linkreg") \/ file[k]["reg"] >= committed[k]

IInv ==
    /\ TypeOK /\ Control /\ Ordered /\ Packed /\ Written
    /\ NoChangeForgotten /\ OnDisk /\ RegGood /\ OneGoodCopy

\* What the proofs use of the kinds and the versions
LEMMA KindFacts ==
    /\ Kinds \subseteq Int /\ 1 \in Kinds /\ 0 \notin Kinds /\ Required \subseteq Kinds
    /\ \A k \in Kinds : k < NKinds => k + 1 \in Kinds
  BY StateSaveAssumption DEF Kinds

LEMMA VersionFacts ==
    /\ Versions \subseteq Int /\ 0 \in Versions
    /\ Torn \notin Versions /\ Gone \notin Versions /\ Torn # Gone
    /\ \A v \in Versions : v >= 0 /\ (v < MaxVersion => v + 1 \in Versions)
  BY StateSaveAssumption DEF Versions, Torn, Gone

\* A restart that is not fatal has loaded every kind, and the required ones
\* from their files.
LEMMA RestartLoads ==
    TypeOK /\ Restart /\ mpc' # "fatal" =>
        \A k \in Kinds : /\ mem'[k] \in Versions /\ promised'[k] = mem'[k] /\ committed'[k] = mem'[k]
                         /\ k \in Required => file[k]["reg"] = mem'[k]
<1> SUFFICES ASSUME TypeOK, Restart, mpc' # "fatal", NEW k \in Kinds
             PROVE  /\ mem'[k] \in Versions /\ promised'[k] = mem'[k] /\ committed'[k] = mem'[k]
                    /\ k \in Required => file[k]["reg"] = mem'[k]
  OBVIOUS
<1>1. PICK empty \in BOOLEAN : ~LoadFails(empty) /\ mem' = [i \in Kinds |-> Loaded(i, empty)]
                               /\ promised' = mem' /\ committed' = mem'
  BY DEF Restart
<1>2. Loaded(k, empty) \in Versions
  BY <1>1, VersionFacts DEF LoadFails, Missing, Loaded, TypeOK, Files
<1>3. k \in Required => file[k]["reg"] = Loaded(k, empty)
  BY <1>1 DEF LoadFails, Loaded
<1> QED
  BY <1>1, <1>2, <1>3

\* Every action keeps the types.
LEMMA TypeStep == IInv /\ Next => TypeOK'
<1> SUFFICES ASSUME IInv, Next PROVE TypeOK'
  OBVIOUS
<1> USE StateSaveAssumption, KindFacts, VersionFacts DEF saverVars, diskVars, mainVars,
     histVars, TypeOK, SaverPcs, MainPcs, Files, FailureHappens, IInv
<1>1. CASE \E t \in Changers, k \in Kinds : Change(t, k)
  <2>1. PICK t \in Changers, k \in Kinds : Change(t, k)
    BY <1>1
  <2> QED
    BY <2>1 DEF Change
<1>2. CASE \E t \in Changers : ScheduleSave(t)
  <2>1. PICK t \in Changers : ScheduleSave(t)
    BY <1>2
  <2> QED
    BY <2>1 DEF ScheduleSave, Schedule, Awake
<1>3. CASE BeginSaveAll
  BY <1>3 DEF BeginSaveAll
<1>4. CASE SkipSaveAll
  BY <1>4 DEF SkipSaveAll
<1>5. CASE SaveAllState
  BY <1>5 DEF SaveAllState, Schedule, Awake
<1>6. CASE shutdown_state_save
  BY <1>6 DEF shutdown_state_save, Awake
<1>7. CASE JoinSaver
  BY <1>7 DEF JoinSaver
<1>8. CASE BeginSave
  BY <1>8 DEF BeginSave, TakeFlag, Cleared
<1>9. CASE Quit
  BY <1>9 DEF Quit, MayQuit, AnySave
<1>10. CASE Wait
  BY <1>10 DEF Wait
<1>11. CASE WaitTimesOut
  BY <1>11 DEF WaitTimesOut
<1>12. CASE TimePasses
  BY <1>12 DEF TimePasses
<1>13. CASE TakeNext
  BY <1>13 DEF TakeNext, TakeFlag, Cleared
<1>14. CASE Pack
  BY <1>14 DEF Pack
<1>15. CASE Open
  <2>1. file' \in [Kinds -> [Files -> {Gone, Torn} \cup Versions]] /\ same' \in [Kinds -> SUBSET Files]
    <3>1. file[cur] \in [Files -> {Gone, Torn} \cup Versions] /\ same[cur] \cup {"new"} \in SUBSET Files
      BY DEF TypeOK, Files
    <3>2. [f \in Files |-> IF f \in same[cur] \cup {"new"} THEN Torn ELSE file[cur][f]]
             \in [Files -> {Gone, Torn} \cup Versions]
      BY <3>1
    <3> QED
      BY <1>15, <3>1, <3>2 DEF Open, diskVars, TypeOK
  <2>2. failures' \in 0..MaxFailures
    BY <1>15 DEF Open, Fail, FailureHappens, TypeOK
  <2>3. failed' \subseteq Kinds /\ truncated' \subseteq Kinds
    BY <1>15 DEF Open, Fail, TypeOK
  <2>4. spc' \in SaverPcs
    BY <1>15 DEF Open, Fail, AfterFailure, SaverPcs
  <2> QED
    BY <1>15, <2>1, <2>2, <2>3, <2>4 DEF Open, Saving, TypeOK, mainVars
<1>16. CASE Write
  <2>1. file' \in [Kinds -> [Files -> {Gone, Torn} \cup Versions]]
    <3>1. file[cur] \in [Files -> {Gone, Torn} \cup Versions] /\ buf \in Versions
      BY DEF TypeOK
    <3>2. [f \in Files |-> IF f \in same[cur] THEN buf ELSE file[cur][f]]
             \in [Files -> {Gone, Torn} \cup Versions]
      BY <3>1
    <3> QED
      BY <1>16, <3>1, <3>2 DEF Write, TypeOK
  <2>2. failures' \in 0..MaxFailures
    BY <1>16 DEF Write, Fail, FailureHappens, TypeOK
  <2>3. failed' \subseteq Kinds
    BY <1>16 DEF Write, Fail, TypeOK
  <2>4. spc' \in SaverPcs
    BY <1>16 DEF Write, Fail, AfterFailure, SaverPcs
  <2> QED
    BY <1>16, <2>1, <2>2, <2>3, <2>4 DEF Write, Saving, TypeOK, mainVars
<1>17. CASE UnlinkOld
  BY <1>17 DEF UnlinkOld, Unlink, Saving
<1>18. CASE LinkOld
  BY <1>18 DEF LinkOld, Link, Saving
<1>19. CASE UnlinkReg
  BY <1>19 DEF UnlinkReg, Unlink, Saving
<1>20. CASE LinkReg
  BY <1>20 DEF LinkReg, Link, Saving
<1>21. CASE Cleanup
  BY <1>21 DEF Cleanup
<1>22. CASE Crash
  BY <1>22 DEF Crash, FailureHappens
<1>23. CASE Restart
  <2>1. CASE mpc' = "fatal"
    BY <1>23, <2>1 DEF Restart, TypeOK, MainPcs, diskVars, histVars
  <2>2. CASE mpc' # "fatal"
    <3>1. PICK empty \in BOOLEAN : /\ mpc' = "run" /\ spc' = "check"
                                    /\ mem' = [k \in Kinds |-> Loaded(k, empty)]
                                    /\ promised' = mem' /\ committed' = mem'
                                    /\ failed' = {} /\ truncated' = truncated
      BY <1>23, <2>2 DEF Restart
    <3>2. mem' \in [Kinds -> Versions]
      BY <1>23, <2>2, <3>1, RestartLoads
    <3> QED
      BY <1>23, <3>1, <3>2 DEF Restart, TypeOK, SaverPcs, MainPcs, diskVars
  <2> QED
    BY <2>1, <2>2
<1> QED
    BY <1>1, <1>2, <1>3, <1>4, <1>5, <1>6, <1>7, <1>8, <1>9, <1>10, <1>11, <1>12, <1>13, <1>14,
     <1>15, <1>16, <1>17, <1>18, <1>19, <1>20, <1>21, <1>22, <1>23 DEF Next, Main, Saver

\* Every action keeps who may run when.
LEMMA ControlStep == IInv /\ Next => Control'
<1> SUFFICES ASSUME IInv, Next PROVE Control'
  OBVIOUS
<1> USE StateSaveAssumption, KindFacts, VersionFacts DEF saverVars, diskVars, mainVars,
     histVars, Control, Up, IInv
<1>1. CASE \E t \in Changers, k \in Kinds : Change(t, k)
  <2>1. PICK t \in Changers, k \in Kinds : Change(t, k)
    BY <1>1
  <2> QED
    BY <2>1 DEF Change
<1>2. CASE \E t \in Changers : ScheduleSave(t)
  <2>1. PICK t \in Changers : ScheduleSave(t)
    BY <1>2
  <2> QED
    BY <2>1 DEF ScheduleSave, Schedule, Awake
<1>3. CASE BeginSaveAll
  BY <1>3 DEF BeginSaveAll
<1>4. CASE SkipSaveAll
  BY <1>4 DEF SkipSaveAll
<1>5. CASE SaveAllState
  BY <1>5 DEF SaveAllState, Schedule, Awake
<1>6. CASE shutdown_state_save
  BY <1>6 DEF shutdown_state_save, Awake
<1>7. CASE JoinSaver
  BY <1>7 DEF JoinSaver
<1>8. CASE BeginSave
  BY <1>8 DEF BeginSave, TakeFlag, Cleared
<1>9. CASE Quit
  BY <1>9 DEF Quit, MayQuit, AnySave
<1>10. CASE Wait
  BY <1>10 DEF Wait
<1>11. CASE WaitTimesOut
  BY <1>11 DEF WaitTimesOut
<1>12. CASE TimePasses
  BY <1>12 DEF TimePasses
<1>13. CASE TakeNext
  BY <1>13 DEF TakeNext, TakeFlag, Cleared
<1>14. CASE Pack
  BY <1>14 DEF Pack
<1>15. CASE Open
  BY <1>15 DEF Open, Fail, AfterFailure, FailureHappens, Saving
<1>16. CASE Write
  BY <1>16 DEF Write, Fail, AfterFailure, FailureHappens, Saving
<1>17. CASE UnlinkOld
  BY <1>17 DEF UnlinkOld, Unlink, Saving
<1>18. CASE LinkOld
  BY <1>18 DEF LinkOld, Link, Saving
<1>19. CASE UnlinkReg
  BY <1>19 DEF UnlinkReg, Unlink, Saving
<1>20. CASE LinkReg
  BY <1>20 DEF LinkReg, Link, Saving
<1>21. CASE Cleanup
  BY <1>21 DEF Cleanup
<1>22. CASE Crash
  BY <1>22 DEF Crash, FailureHappens
<1>23. CASE Restart
  BY <1>23 DEF Restart, LoadFails, Missing, Loaded
<1> QED
    BY <1>1, <1>2, <1>3, <1>4, <1>5, <1>6, <1>7, <1>8, <1>9, <1>10, <1>11, <1>12, <1>13, <1>14,
     <1>15, <1>16, <1>17, <1>18, <1>19, <1>20, <1>21, <1>22, <1>23 DEF Next, Main, Saver

\* Memory only moves ahead.
LEMMA OrderedStep == IInv /\ Next => Ordered'
<1> SUFFICES ASSUME IInv, Next, Up', NEW j \in Kinds
     PROVE /\ promised'[j] <= mem'[j] /\ committed'[j] <= mem'[j]
           /\ promised'[j] = mem'[j] \/ \E t \in Changers : owed'[t] = j
  BY DEF Ordered
<1> USE StateSaveAssumption, KindFacts, VersionFacts DEF saverVars, diskVars, mainVars,
     histVars, TypeOK, SaverPcs, MainPcs, Control, Up, Ordered, Packed, InSave, IInv
<1>1. CASE \E t \in Changers, k \in Kinds : Change(t, k)
  <2>1. PICK t \in Changers, k \in Kinds : Change(t, k)
    BY <1>1
  <2>2. mem[j] \in Int /\ mem[k] \in Int
    BY DEF TypeOK
  <2>3. mem'[j] = IF j = k THEN mem[k] + 1 ELSE mem[j]
    BY <2>1 DEF Change, TypeOK
  <2>4. promised' = promised /\ committed' = committed /\ Up
    BY <2>1 DEF Change, histVars, Up
  <2>5. promised[j] \in Int /\ committed[j] \in Int
    BY DEF TypeOK
  <2>6. promised'[j] <= mem'[j] /\ committed'[j] <= mem'[j]
    BY <2>2, <2>3, <2>4, <2>5 DEF Ordered
  <2>7. promised'[j] = mem'[j] \/ \E u \in Changers : owed'[u] = j
    <3>1. owed' = [owed EXCEPT ![t] = k] /\ owed[t] = 0 /\ owed \in [Changers -> {0} \cup Kinds]
      BY <2>1 DEF Change, TypeOK
    <3> QED
      BY <2>3, <2>4, <3>1 DEF Ordered
  <2> QED
    BY <2>6, <2>7
<1>2. CASE \E t \in Changers : ScheduleSave(t)
  <2>1. PICK t \in Changers : ScheduleSave(t)
    BY <1>2
  <2>2. /\ mem' = mem /\ committed' = committed /\ Up
        /\ owed[t] \in Kinds /\ owed' = [owed EXCEPT ![t] = 0]
        /\ promised' = [promised EXCEPT ![owed[t]] = mem[owed[t]]]
    BY <2>1 DEF ScheduleSave, Schedule, TypeOK, Control, Up, mainVars
  <2>3. mem[j] \in Int /\ promised \in [Kinds -> Versions] /\ owed \in [Changers -> {0} \cup Kinds]
    BY DEF TypeOK
  <2>4. CASE j = owed[t]
    BY <2>2, <2>3, <2>4 DEF Ordered
  <2>5. CASE j # owed[t]
    BY <2>2, <2>3, <2>5 DEF Ordered
  <2> QED
    BY <2>4, <2>5
<1>3. CASE BeginSaveAll
  BY <1>3 DEF BeginSaveAll
<1>4. CASE SkipSaveAll
  BY <1>4 DEF SkipSaveAll
<1>5. CASE SaveAllState
  <2>1. /\ mem' = mem /\ committed' = committed /\ Up /\ owed' = owed /\ mk \in Kinds
        /\ promised' = [promised EXCEPT ![mk] = mem[mk]]
    BY <1>5 DEF SaveAllState, Schedule, TypeOK, Up
  <2>2. mem[j] \in Int /\ promised \in [Kinds -> Versions]
    BY DEF TypeOK
  <2> QED
    BY <2>1, <2>2 DEF Ordered
<1>6. CASE shutdown_state_save
  BY <1>6 DEF shutdown_state_save, Awake
<1>7. CASE JoinSaver
  BY <1>7 DEF JoinSaver
<1>8. CASE BeginSave
  BY <1>8 DEF BeginSave, TakeFlag, Cleared
<1>9. CASE Quit
  BY <1>9 DEF Quit, MayQuit, AnySave
<1>10. CASE Wait
  BY <1>10 DEF Wait
<1>11. CASE WaitTimesOut
  BY <1>11 DEF WaitTimesOut
<1>12. CASE TimePasses
  BY <1>12 DEF TimePasses
<1>13. CASE TakeNext
  BY <1>13 DEF TakeNext, TakeFlag, Cleared
<1>14. CASE Pack
  BY <1>14 DEF Pack
<1>15. CASE Open
  BY <1>15 DEF Open, Fail, AfterFailure, FailureHappens, Saving
<1>16. CASE Write
  BY <1>16 DEF Write, Fail, AfterFailure, FailureHappens, Saving
<1>17. CASE UnlinkOld
  BY <1>17 DEF UnlinkOld, Unlink, Saving
<1>18. CASE LinkOld
  BY <1>18 DEF LinkOld, Link, Saving
<1>19. CASE UnlinkReg
  BY <1>19 DEF UnlinkReg, Unlink, Saving
<1>20. CASE LinkReg
  BY <1>20 DEF LinkReg, Link, Saving
<1>21. CASE Cleanup
  BY <1>21 DEF Cleanup
<1>22. CASE Crash
  BY <1>22 DEF Crash, FailureHappens
<1>23. CASE Restart
  <2>1. CASE mpc' = "fatal"
    BY <2>1 DEF Up
  <2>2. CASE mpc' # "fatal"
    <3>1. /\ mem'[j] \in Int /\ promised'[j] = mem'[j] /\ committed'[j] = mem'[j]
          /\ j \in Required => file[j]["reg"] = mem'[j]
      BY <1>23, <2>2, RestartLoads
    <3> QED
      BY <3>1
  <2> QED
    BY <2>1, <2>2
<1> QED
    BY <1>1, <1>2, <1>3, <1>4, <1>5, <1>6, <1>7, <1>8, <1>9, <1>10, <1>11, <1>12, <1>13, <1>14,
     <1>15, <1>16, <1>17, <1>18, <1>19, <1>20, <1>21, <1>22, <1>23 DEF Next, Main, Saver

\* A packed version stays ahead of the saved one.
LEMMA PackedStep == IInv /\ Next => Packed'
<1> SUFFICES ASSUME IInv, Next, NEW j \in Kinds, InSave(j)'
     PROVE committed'[j] <= buf' /\ buf' <= mem'[j]
  BY DEF Packed
<1> USE StateSaveAssumption, KindFacts, VersionFacts DEF saverVars, diskVars, mainVars,
     histVars, TypeOK, SaverPcs, MainPcs, Control, Up, Ordered, Packed, InSave, IInv
<1>1. CASE \E t \in Changers, k \in Kinds : Change(t, k)
  <2>1. PICK t \in Changers, k \in Kinds : Change(t, k)
    BY <1>1
  <2>2. mem[j] \in Int /\ mem[k] \in Int
    BY DEF TypeOK
  <2>3. mem'[j] = IF j = k THEN mem[k] + 1 ELSE mem[j]
    BY <2>1 DEF Change, TypeOK
  <2>4. InSave(j) /\ buf' = buf /\ committed' = committed /\ buf \in Int
    BY <2>1 DEF Change, InSave, saverVars, histVars, TypeOK
  <2> QED
    BY <2>2, <2>3, <2>4 DEF Packed
<1>2. CASE \E t \in Changers : ScheduleSave(t)
  <2>1. PICK t \in Changers : ScheduleSave(t)
    BY <1>2
  <2> QED
    BY <2>1 DEF ScheduleSave, Schedule, Awake
<1>3. CASE BeginSaveAll
  BY <1>3 DEF BeginSaveAll
<1>4. CASE SkipSaveAll
  BY <1>4 DEF SkipSaveAll
<1>5. CASE SaveAllState
  BY <1>5 DEF SaveAllState, Schedule, Awake
<1>6. CASE shutdown_state_save
  BY <1>6 DEF shutdown_state_save, Awake
<1>7. CASE JoinSaver
  BY <1>7 DEF JoinSaver
<1>8. CASE BeginSave
  BY <1>8 DEF BeginSave, TakeFlag, Cleared
<1>9. CASE Quit
  BY <1>9 DEF Quit, MayQuit, AnySave
<1>10. CASE Wait
  BY <1>10 DEF Wait
<1>11. CASE WaitTimesOut
  BY <1>11 DEF WaitTimesOut
<1>12. CASE TimePasses
  BY <1>12 DEF TimePasses
<1>13. CASE TakeNext
  BY <1>13 DEF TakeNext, TakeFlag, Cleared
<1>14. CASE Pack
  BY <1>14 DEF Pack
<1>15. CASE Open
  BY <1>15 DEF Open, Fail, AfterFailure, FailureHappens, Saving
<1>16. CASE Write
  BY <1>16 DEF Write, Fail, AfterFailure, FailureHappens, Saving
<1>17. CASE UnlinkOld
  BY <1>17 DEF UnlinkOld, Unlink, Saving
<1>18. CASE LinkOld
  BY <1>18 DEF LinkOld, Link, Saving
<1>19. CASE UnlinkReg
  BY <1>19 DEF UnlinkReg, Unlink, Saving
<1>20. CASE LinkReg
  BY <1>20 DEF LinkReg, Link, Saving
<1>21. CASE Cleanup
  BY <1>21 DEF Cleanup
<1>22. CASE Crash
  BY <1>22 DEF Crash, FailureHappens
<1>23. CASE Restart
  BY <1>23 DEF Restart, LoadFails, Missing, Loaded
<1> QED
    BY <1>1, <1>2, <1>3, <1>4, <1>5, <1>6, <1>7, <1>8, <1>9, <1>10, <1>11, <1>12, <1>13, <1>14,
     <1>15, <1>16, <1>17, <1>18, <1>19, <1>20, <1>21, <1>22, <1>23 DEF Next, Main, Saver

\* The .new file is complete when the names change.
LEMMA WrittenStep == IInv /\ Next => Written'
<1> SUFFICES ASSUME IInv, Next PROVE Written'
  OBVIOUS
<1> USE StateSaveAssumption, KindFacts, VersionFacts DEF saverVars, diskVars, mainVars,
     histVars, TypeOK, SaverPcs, MainPcs, Control, Up, Written, IInv
<1>1. CASE \E t \in Changers, k \in Kinds : Change(t, k)
  <2>1. PICK t \in Changers, k \in Kinds : Change(t, k)
    BY <1>1
  <2> QED
    BY <2>1 DEF Change
<1>2. CASE \E t \in Changers : ScheduleSave(t)
  <2>1. PICK t \in Changers : ScheduleSave(t)
    BY <1>2
  <2> QED
    BY <2>1 DEF ScheduleSave, Schedule, Awake
<1>3. CASE BeginSaveAll
  BY <1>3 DEF BeginSaveAll
<1>4. CASE SkipSaveAll
  BY <1>4 DEF SkipSaveAll
<1>5. CASE SaveAllState
  BY <1>5 DEF SaveAllState, Schedule, Awake
<1>6. CASE shutdown_state_save
  BY <1>6 DEF shutdown_state_save, Awake
<1>7. CASE JoinSaver
  BY <1>7 DEF JoinSaver
<1>8. CASE BeginSave
  BY <1>8 DEF BeginSave, TakeFlag, Cleared
<1>9. CASE Quit
  BY <1>9 DEF Quit, MayQuit, AnySave
<1>10. CASE Wait
  BY <1>10 DEF Wait
<1>11. CASE WaitTimesOut
  BY <1>11 DEF WaitTimesOut
<1>12. CASE TimePasses
  BY <1>12 DEF TimePasses
<1>13. CASE TakeNext
  BY <1>13 DEF TakeNext, TakeFlag, Cleared
<1>14. CASE Pack
  BY <1>14 DEF Pack
<1>15. CASE Open
  BY <1>15 DEF Open, Fail, AfterFailure, FailureHappens, Saving
<1>16. CASE Write
  BY <1>16 DEF Write, Fail, AfterFailure, FailureHappens, Saving
<1>17. CASE UnlinkOld
  BY <1>17 DEF UnlinkOld, Unlink, Saving
<1>18. CASE LinkOld
  BY <1>18 DEF LinkOld, Link, Saving
<1>19. CASE UnlinkReg
  BY <1>19 DEF UnlinkReg, Unlink, Saving
<1>20. CASE LinkReg
  BY <1>20 DEF LinkReg, Link, Saving
<1>21. CASE Cleanup
  BY <1>21 DEF Cleanup
<1>22. CASE Crash
  BY <1>22 DEF Crash, FailureHappens
<1>23. CASE Restart
  BY <1>23 DEF Restart, LoadFails, Missing, Loaded
<1> QED
    BY <1>1, <1>2, <1>3, <1>4, <1>5, <1>6, <1>7, <1>8, <1>9, <1>10, <1>11, <1>12, <1>13, <1>14,
     <1>15, <1>16, <1>17, <1>18, <1>19, <1>20, <1>21, <1>22, <1>23 DEF Next, Main, Saver

\* No action forgets a scheduled change.
LEMMA ForgottenStep == IInv /\ Next => NoChangeForgotten'
<1> SUFFICES ASSUME IInv, Next, mpc' \notin {"down", "fatal"}, NEW j \in Kinds
     PROVE promised'[j] <= committed'[j] \/ Pending(j)' \/ j \in failed'
  BY DEF NoChangeForgotten
<1> USE StateSaveAssumption, KindFacts, VersionFacts DEF saverVars, diskVars, mainVars,
     histVars, TypeOK, SaverPcs, MainPcs, Control, Up, Ordered, Packed, NoChangeForgotten,
     Pending, InSave, IInv
<1>1. CASE \E t \in Changers, k \in Kinds : Change(t, k)
  <2>1. PICK t \in Changers, k \in Kinds : Change(t, k)
    BY <1>1
  <2> QED
    BY <2>1 DEF Change
<1>2. CASE \E t \in Changers : ScheduleSave(t)
  <2>1. PICK t \in Changers : ScheduleSave(t)
    BY <1>2
  <2> QED
    BY <2>1 DEF ScheduleSave, Schedule, Awake
<1>3. CASE BeginSaveAll
  BY <1>3 DEF BeginSaveAll
<1>4. CASE SkipSaveAll
  BY <1>4 DEF SkipSaveAll
<1>5. CASE SaveAllState
  BY <1>5 DEF SaveAllState, Schedule, Awake
<1>6. CASE shutdown_state_save
  BY <1>6 DEF shutdown_state_save, Awake
<1>7. CASE JoinSaver
  BY <1>7 DEF JoinSaver
<1>8. CASE BeginSave
  BY <1>8 DEF BeginSave, TakeFlag, Cleared
<1>9. CASE Quit
  BY <1>9 DEF Quit, MayQuit, AnySave
<1>10. CASE Wait
  BY <1>10 DEF Wait
<1>11. CASE WaitTimesOut
  BY <1>11 DEF WaitTimesOut
<1>12. CASE TimePasses
  BY <1>12 DEF TimePasses
<1>13. CASE TakeNext
  BY <1>13 DEF TakeNext, TakeFlag, Cleared
<1>14. CASE Pack
  BY <1>14 DEF Pack
<1>15. CASE Open
  BY <1>15 DEF Open, Fail, AfterFailure, FailureHappens, Saving
<1>16. CASE Write
  BY <1>16 DEF Write, Fail, AfterFailure, FailureHappens, Saving
<1>17. CASE UnlinkOld
  BY <1>17 DEF UnlinkOld, Unlink, Saving
<1>18. CASE LinkOld
  BY <1>18 DEF LinkOld, Link, Saving
<1>19. CASE UnlinkReg
  BY <1>19 DEF UnlinkReg, Unlink, Saving
<1>20. CASE LinkReg
  <2>1. /\ promised' = promised /\ save' = save /\ failed' = failed /\ cur' = cur /\ mpc' = mpc
        /\ committed' = [committed EXCEPT ![cur] = buf] /\ spc = "linkreg"
    BY <1>20 DEF LinkReg, Saving, mainVars
  <2>2. /\ committed[j] \in Int /\ promised[j] \in Int /\ buf \in Int /\ cur \in Kinds
        /\ committed \in [Kinds -> Versions]
    BY DEF TypeOK
  <2>3. cur = j => committed'[j] = buf /\ committed[j] <= buf
    BY <2>1, <2>2 DEF Packed, InSave
  <2>4. cur # j => committed'[j] = committed[j]
    BY <2>1, <2>2
  <2>5. promised[j] <= committed[j] \/ save[j] \/ (cur = j /\ buf >= promised[j]) \/ j \in failed
    BY <2>1 DEF NoChangeForgotten, Pending, InSave
  <2> QED
    BY <2>1, <2>2, <2>3, <2>4, <2>5 DEF Pending
<1>21. CASE Cleanup
  BY <1>21 DEF Cleanup
<1>22. CASE Crash
  BY <1>22 DEF Crash, FailureHappens
<1>23. CASE Restart
  <2>1. CASE mpc' = "fatal"
    BY <2>1
  <2>2. CASE mpc' # "fatal"
    <3>1. /\ mem'[j] \in Int /\ promised'[j] = mem'[j] /\ committed'[j] = mem'[j]
          /\ j \in Required => file[j]["reg"] = mem'[j]
      BY <1>23, <2>2, RestartLoads
    <3> QED
      BY <3>1
  <2> QED
    BY <2>1, <2>2
<1> QED
    BY <1>1, <1>2, <1>3, <1>4, <1>5, <1>6, <1>7, <1>8, <1>9, <1>10, <1>11, <1>12, <1>13, <1>14,
     <1>15, <1>16, <1>17, <1>18, <1>19, <1>20, <1>21, <1>22, <1>23 DEF Next, Main, Saver

\* The file and the last saved version go together.
LEMMA OnDiskStep == IInv /\ Next => OnDisk'
<1> SUFFICES ASSUME IInv, Next, Up', NEW j \in Kinds
     PROVE InSave(j)' \/ j \in failed' \/ Loaded(j, TRUE)' = committed'[j]
  BY DEF OnDisk
<1> USE StateSaveAssumption, KindFacts, VersionFacts DEF saverVars, diskVars, mainVars,
     histVars, TypeOK, SaverPcs, MainPcs, Files, Control, Up, Written, OnDisk, InSave, Loaded,
     Missing, IInv
<1>1. CASE \E t \in Changers, k \in Kinds : Change(t, k)
  <2>1. PICK t \in Changers, k \in Kinds : Change(t, k)
    BY <1>1
  <2> QED
    BY <2>1 DEF Change
<1>2. CASE \E t \in Changers : ScheduleSave(t)
  <2>1. PICK t \in Changers : ScheduleSave(t)
    BY <1>2
  <2> QED
    BY <2>1 DEF ScheduleSave, Schedule, Awake
<1>3. CASE BeginSaveAll
  BY <1>3 DEF BeginSaveAll
<1>4. CASE SkipSaveAll
  BY <1>4 DEF SkipSaveAll
<1>5. CASE SaveAllState
  BY <1>5 DEF SaveAllState, Schedule, Awake
<1>6. CASE shutdown_state_save
  BY <1>6 DEF shutdown_state_save, Awake
<1>7. CASE JoinSaver
  BY <1>7 DEF JoinSaver
<1>8. CASE BeginSave
  BY <1>8 DEF BeginSave, TakeFlag, Cleared
<1>9. CASE Quit
  BY <1>9 DEF Quit, MayQuit, AnySave
<1>10. CASE Wait
  BY <1>10 DEF Wait
<1>11. CASE WaitTimesOut
  BY <1>11 DEF WaitTimesOut
<1>12. CASE TimePasses
  BY <1>12 DEF TimePasses
<1>13. CASE TakeNext
  BY <1>13 DEF TakeNext, TakeFlag, Cleared
<1>14. CASE Pack
  BY <1>14 DEF Pack
<1>15. CASE Open
  BY <1>15 DEF Open, Fail, AfterFailure, FailureHappens, Saving
<1>16. CASE Write
  BY <1>16 DEF Write, Fail, AfterFailure, FailureHappens, Saving
<1>17. CASE UnlinkOld
  BY <1>17 DEF UnlinkOld, Unlink, Saving
<1>18. CASE LinkOld
  BY <1>18 DEF LinkOld, Link, Saving
<1>19. CASE UnlinkReg
  BY <1>19 DEF UnlinkReg, Unlink, Saving
<1>20. CASE LinkReg
  BY <1>20 DEF LinkReg, Link, Saving
<1>21. CASE Cleanup
  BY <1>21 DEF Cleanup
<1>22. CASE Crash
  BY <1>22 DEF Crash, FailureHappens
<1>23. CASE Restart
  BY <1>23 DEF Restart, LoadFails, Missing, Loaded
<1> QED
    BY <1>1, <1>2, <1>3, <1>4, <1>5, <1>6, <1>7, <1>8, <1>9, <1>10, <1>11, <1>12, <1>13, <1>14,
     <1>15, <1>16, <1>17, <1>18, <1>19, <1>20, <1>21, <1>22, <1>23 DEF Next, Main, Saver

\* The state file stays good.
LEMMA RegGoodStep == IInv /\ Next => RegGood'
<1> SUFFICES ASSUME IInv, Next, Up', NEW j \in Required \ truncated'
     PROVE (cur = j /\ spc = "linkreg")' \/ file'[j]["reg"] >= committed'[j]
  BY DEF RegGood
<1> USE StateSaveAssumption, KindFacts, VersionFacts DEF saverVars, diskVars, mainVars,
     histVars, TypeOK, SaverPcs, MainPcs, Files, Control, Up, Packed, Written, RegGood, InSave,
     IInv
<1>1. CASE \E t \in Changers, k \in Kinds : Change(t, k)
  <2>1. PICK t \in Changers, k \in Kinds : Change(t, k)
    BY <1>1
  <2> QED
    BY <2>1 DEF Change
<1>2. CASE \E t \in Changers : ScheduleSave(t)
  <2>1. PICK t \in Changers : ScheduleSave(t)
    BY <1>2
  <2> QED
    BY <2>1 DEF ScheduleSave, Schedule, Awake
<1>3. CASE BeginSaveAll
  BY <1>3 DEF BeginSaveAll
<1>4. CASE SkipSaveAll
  BY <1>4 DEF SkipSaveAll
<1>5. CASE SaveAllState
  BY <1>5 DEF SaveAllState, Schedule, Awake
<1>6. CASE shutdown_state_save
  BY <1>6 DEF shutdown_state_save, Awake
<1>7. CASE JoinSaver
  BY <1>7 DEF JoinSaver
<1>8. CASE BeginSave
  BY <1>8 DEF BeginSave, TakeFlag, Cleared
<1>9. CASE Quit
  BY <1>9 DEF Quit, MayQuit, AnySave
<1>10. CASE Wait
  BY <1>10 DEF Wait
<1>11. CASE WaitTimesOut
  BY <1>11 DEF WaitTimesOut
<1>12. CASE TimePasses
  BY <1>12 DEF TimePasses
<1>13. CASE TakeNext
  BY <1>13 DEF TakeNext, TakeFlag, Cleared
<1>14. CASE Pack
  BY <1>14 DEF Pack
<1>15. CASE Open
  BY <1>15 DEF Open, Fail, AfterFailure, FailureHappens, Saving
<1>16. CASE Write
  BY <1>16 DEF Write, Fail, AfterFailure, FailureHappens, Saving
<1>17. CASE UnlinkOld
  BY <1>17 DEF UnlinkOld, Unlink, Saving
<1>18. CASE LinkOld
  BY <1>18 DEF LinkOld, Link, Saving
<1>19. CASE UnlinkReg
  BY <1>19 DEF UnlinkReg, Unlink, Saving
<1>20. CASE LinkReg
  BY <1>20 DEF LinkReg, Link, Saving
<1>21. CASE Cleanup
  BY <1>21 DEF Cleanup
<1>22. CASE Crash
  BY <1>22 DEF Crash, FailureHappens
<1>23. CASE Restart
  <2>1. CASE mpc' = "fatal"
    BY <2>1 DEF Up
  <2>2. CASE mpc' # "fatal"
    <3>1. /\ mem'[j] \in Int /\ promised'[j] = mem'[j] /\ committed'[j] = mem'[j]
          /\ j \in Required => file[j]["reg"] = mem'[j]
      BY <1>23, <2>2, RestartLoads
    <3> QED
      <4>1. file' = file
        BY <1>23 DEF Restart, diskVars
      <4> QED
        BY <3>1, <4>1
  <2> QED
    BY <2>1, <2>2
<1> QED
    BY <1>1, <1>2, <1>3, <1>4, <1>5, <1>6, <1>7, <1>8, <1>9, <1>10, <1>11, <1>12, <1>13, <1>14,
     <1>15, <1>16, <1>17, <1>18, <1>19, <1>20, <1>21, <1>22, <1>23 DEF Next, Main, Saver

\* A good copy stays.
LEMMA GoodCopyStep == IInv /\ Next => OneGoodCopy'
<1> SUFFICES ASSUME IInv, Next, NEW j \in Required \ truncated'
     PROVE \E f \in Files : file'[j][f] >= committed'[j]
  BY DEF OneGoodCopy
<1> USE StateSaveAssumption, KindFacts, VersionFacts DEF saverVars, diskVars, mainVars,
     histVars, TypeOK, SaverPcs, MainPcs, Files, Control, Up, Packed, Written, RegGood,
     OneGoodCopy, InSave, IInv
<1>1. CASE \E t \in Changers, k \in Kinds : Change(t, k)
  <2>1. PICK t \in Changers, k \in Kinds : Change(t, k)
    BY <1>1
  <2> QED
    BY <2>1 DEF Change
<1>2. CASE \E t \in Changers : ScheduleSave(t)
  <2>1. PICK t \in Changers : ScheduleSave(t)
    BY <1>2
  <2> QED
    BY <2>1 DEF ScheduleSave, Schedule, Awake
<1>3. CASE BeginSaveAll
  BY <1>3 DEF BeginSaveAll
<1>4. CASE SkipSaveAll
  BY <1>4 DEF SkipSaveAll
<1>5. CASE SaveAllState
  BY <1>5 DEF SaveAllState, Schedule, Awake
<1>6. CASE shutdown_state_save
  BY <1>6 DEF shutdown_state_save, Awake
<1>7. CASE JoinSaver
  BY <1>7 DEF JoinSaver
<1>8. CASE BeginSave
  BY <1>8 DEF BeginSave, TakeFlag, Cleared
<1>9. CASE Quit
  BY <1>9 DEF Quit, MayQuit, AnySave
<1>10. CASE Wait
  BY <1>10 DEF Wait
<1>11. CASE WaitTimesOut
  BY <1>11 DEF WaitTimesOut
<1>12. CASE TimePasses
  BY <1>12 DEF TimePasses
<1>13. CASE TakeNext
  BY <1>13 DEF TakeNext, TakeFlag, Cleared
<1>14. CASE Pack
  BY <1>14 DEF Pack
<1>15. CASE Open
  BY <1>15 DEF Open, Fail, AfterFailure, FailureHappens, Saving
<1>16. CASE Write
  BY <1>16 DEF Write, Fail, AfterFailure, FailureHappens, Saving
<1>17. CASE UnlinkOld
  BY <1>17 DEF UnlinkOld, Unlink, Saving
<1>18. CASE LinkOld
  BY <1>18 DEF LinkOld, Link, Saving
<1>19. CASE UnlinkReg
  BY <1>19 DEF UnlinkReg, Unlink, Saving
<1>20. CASE LinkReg
  BY <1>20 DEF LinkReg, Link, Saving
<1>21. CASE Cleanup
  BY <1>21 DEF Cleanup
<1>22. CASE Crash
  BY <1>22 DEF Crash, FailureHappens
<1>23. CASE Restart
  <2>1. CASE mpc' = "fatal"
    BY <1>23, <2>1 DEF Restart, OneGoodCopy, diskVars, histVars
  <2>2. CASE mpc' # "fatal"
    <3>1. /\ mem'[j] \in Int /\ promised'[j] = mem'[j] /\ committed'[j] = mem'[j]
          /\ j \in Required => file[j]["reg"] = mem'[j]
      BY <1>23, <2>2, RestartLoads
    <3> QED
      <4>1. file' = file
        BY <1>23 DEF Restart, diskVars
      <4> QED
        BY <3>1, <4>1 DEF Files
  <2> QED
    BY <2>1, <2>2
<1> QED
    BY <1>1, <1>2, <1>3, <1>4, <1>5, <1>6, <1>7, <1>8, <1>9, <1>10, <1>11, <1>12, <1>13, <1>14,
     <1>15, <1>16, <1>17, <1>18, <1>19, <1>20, <1>21, <1>22, <1>23 DEF Next, Main, Saver

\* The initial state satisfies the invariant.
LEMMA InitInv == Init => IInv
<1> SUFFICES ASSUME Init PROVE IInv
  OBVIOUS
<1> USE StateSaveAssumption, KindFacts, VersionFacts DEF Init
<1>1. TypeOK
  BY DEF TypeOK, SaverPcs, MainPcs, Files
<1>2. Control /\ Ordered /\ Packed /\ Written
  BY DEF Control, Up, Ordered, Packed, InSave, Written
<1>3. NoChangeForgotten
  BY DEF NoChangeForgotten
<1>4. OnDisk /\ RegGood /\ OneGoodCopy
  BY DEF OnDisk, Loaded, Missing, RegGood, OneGoodCopy, Files, Gone, Torn
<1> QED
  BY <1>1, <1>2, <1>3, <1>4 DEF IInv

\* IInv is an invariant of slurmctld's save thread, its callers and the disk.
THEOREM Invariant == Spec => []IInv
<1>1. IInv /\ [Next]_vars => IInv'
  <2> SUFFICES ASSUME IInv, [Next]_vars PROVE IInv'
    OBVIOUS
  <2>1. CASE Next
    BY <2>1, TypeStep, ControlStep, OrderedStep, PackedStep, WrittenStep, ForgottenStep,
       OnDiskStep, RegGoodStep, GoodCopyStep DEF IInv
  <2>2. CASE UNCHANGED vars
    BY <2>2 DEF vars, saverVars, diskVars, mainVars, histVars, IInv, TypeOK, Control, Up, Ordered,
       Packed, InSave, Written, NoChangeForgotten, Pending, OnDisk, Loaded, Missing, RegGood,
       OneGoodCopy
  <2> QED
    BY <2>1, <2>2
<1> QED
  BY <1>1, InitInv, PTL DEF Spec

\* Every variable keeps its type.
THEOREM TypeCorrect == Spec => []TypeOK
<1>1. IInv => TypeOK
  BY DEF IInv
<1> QED
  BY <1>1, Invariant, PTL

\* A change whose save was scheduled is saved, or will be, or its save failed,
\* although slurmctld_state_save clears the flag before it packs the state.
THEOREM ScheduledIsNotForgotten == Spec => []NoChangeForgotten
<1>1. IInv => NoChangeForgotten
  BY DEF IInv
<1> QED
  BY <1>1, Invariant, PTL

\* Whatever the moment of a crash, a complete copy of the last save is on disk
\* for the required kinds, if save_buf_to_state has not emptied the state file
\* through a .new file left by an earlier crash.
THEOREM CopyOutlivesCrash == Spec => []OneGoodCopy
<1>1. IInv => OneGoodCopy
  BY DEF IInv
<1> QED
  BY <1>1, Invariant, PTL

\* When slurmctld has joined the save thread, the files hold what was in
\* memory, except for kinds whose last save failed.
THEOREM StopLeavesAll == Spec => []StopSavesAll
<1>1. IInv => StopSavesAll
  <2> SUFFICES ASSUME IInv, mpc = "joined", NEW k \in Kinds, k \notin failed
      PROVE Loaded(k, TRUE) = mem[k]
    BY DEF StopSavesAll
  <2>1. Up /\ spc = "gone"
    BY DEF IInv, Control, Up
  <2>2. ~save[k] /\ \A t \in Changers : owed[t] = 0
    BY <2>1 DEF IInv, Control
  <2>3. promised[k] = mem[k] /\ committed[k] <= mem[k]
    BY <2>1, <2>2, KindFacts DEF IInv, Ordered
  <2>4. promised[k] <= committed[k]
    BY <2>1, <2>2 DEF IInv, NoChangeForgotten, Pending, InSave
  <2>5. Loaded(k, TRUE) = committed[k]
    BY <2>1 DEF IInv, OnDisk, InSave
  <2>6. mem[k] \in Int /\ promised[k] \in Int /\ committed[k] \in Int
    BY VersionFacts DEF IInv, TypeOK
  <2>7. committed[k] = mem[k]
    BY <2>3, <2>4, <2>6
  <2> QED
    BY <2>5, <2>7
<1> QED
  BY <1>1, Invariant, PTL
=============================================================================
