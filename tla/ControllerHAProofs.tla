-------------------------- MODULE ControllerHAProofs --------------------------
(***************************************************************************)
(* Proofs about ControllerHA, for any number of controllers, machines that *)
(* work and faults, and any times, SlurmctldTimeout being 3 or more.       *)
(***************************************************************************)
EXTENDS ControllerHA, TLAPS

\* Both intervals are shorter than the timeout.
LEMMA Intervals ==
    /\ Late \in Nat /\ SlurmctldTimeout < Late /\ 3 < Late /\ SlurmctldTimeout \in Nat
    /\ BeatInterval \in Nat /\ BeatInterval < SlurmctldTimeout
    /\ PingInterval \in Nat \ {0} /\ PingInterval < SlurmctldTimeout
    /\ PingTimeout \in Nat /\ SetupTime \in Nat
  <1>1. SlurmctldTimeout \in Nat /\ SlurmctldTimeout >= 3
    BY ControllerHAAssumption
  <1>2. Late \in Nat /\ SlurmctldTimeout < Late /\ 3 < Late
    BY <1>1 DEF Late
  <1>3. /\ SlurmctldTimeout \div 4 \in Nat
        /\ 4 * (SlurmctldTimeout \div 4) <= SlurmctldTimeout
        /\ SlurmctldTimeout < 4 * (SlurmctldTimeout \div 4) + 4
    BY <1>1
  <1>4. /\ SlurmctldTimeout \div 3 \in Nat
        /\ 3 * (SlurmctldTimeout \div 3) <= SlurmctldTimeout
        /\ SlurmctldTimeout < 3 * (SlurmctldTimeout \div 3) + 3
    BY <1>1
  <1> DEFINE q == SlurmctldTimeout \div 4
             t == SlurmctldTimeout \div 3
  <1>5. /\ q \in Nat /\ 4 * q <= SlurmctldTimeout /\ SlurmctldTimeout < 4 * q + 4
        /\ t \in Nat /\ 3 * t <= SlurmctldTimeout /\ SlurmctldTimeout < 3 * t + 3
    BY <1>3, <1>4
  <1>6. BeatInterval = (IF q < 30 THEN q ELSE 30) /\ PingInterval = t
    BY DEF BeatInterval, PingInterval
  <1> HIDE DEF q, t
  <1>7. BeatInterval \in Nat /\ BeatInterval < SlurmctldTimeout /\ BeatInterval <= q
    BY <1>1, <1>5, <1>6
  <1>8. PingInterval \in Nat \ {0} /\ PingInterval < SlurmctldTimeout
    BY <1>1, <1>5, <1>6
  <1> QED BY <1>1, <1>2, <1>7, <1>8, ControllerHAAssumption

-----------------------------------------------------------------------------
(* Types. *)

Modes == {"down", "wait", "standby", "ping", "pong", "check", "init", "load", "ask", "control", "flush",
          "save", "stop"}
MaxPing == PingInterval + PingTimeout + SetupTime

MainType ==
    /\ mode \in [Ctld -> Modes]
    /\ sig \in [Ctld -> 0..MaxSigs] /\ shut \in [Ctld -> BOOLEAN] /\ resume \in [Ctld -> BOOLEAN]
RpcType ==
    /\ takeover \in [Ctld -> {"no", "ask", "yes"}]
    /\ pend \in [Ctld -> SUBSET ({"bu", "tk"} \X Ctld)]
    /\ handler \in [Ctld -> SUBSET (Ctld \X {"bu", "tk", "gone"})]
FileType == file \in [inx : Ctld, age : 0..Late, there : BOOLEAN]
BeatType == beat \in [Ctld -> 0..Late] /\ prev \in [Ctld -> {"none", "same", "old"}]
TimeType == resp \in [Ctld -> 0..Late] /\ ping \in [Ctld -> 0..MaxPing]
WroteType == wrote \in [Ctld -> {"zero", "same", "old"}] /\ asked \in [Ctld -> BOOLEAN]
EnvType == hosts \in Working /\ cut \subseteq SUBSET Ctld /\ faults \in 0..MaxFaults

LEMMA TypeParts ==
    TypeOK <=> /\ MainType /\ RpcType /\ FileType /\ BeatType /\ TimeType /\ WroteType
               /\ EnvType
  BY DEF TypeOK, MainType, RpcType, FileType, BeatType, TimeType, WroteType, EnvType, Modes, MaxPing

\* What the age of last_ping can be.
LEMMA PingRange ==
    /\ MaxPing \in Nat /\ 0 \in 0..MaxPing /\ PingInterval - 1 \in 0..MaxPing
    /\ PingInterval <= MaxPing /\ PingTimeout <= MaxPing /\ SetupTime <= MaxPing
    /\ \A c \in Ctld : TimeType => Slept(c) \in 0..MaxPing
  <1>1. /\ MaxPing \in Nat /\ 0 \in 0..MaxPing /\ PingInterval - 1 \in 0..MaxPing
        /\ PingInterval <= MaxPing /\ PingTimeout <= MaxPing /\ SetupTime <= MaxPing
    BY Intervals DEF MaxPing
  <1>2. ASSUME NEW c \in Ctld, TimeType PROVE Slept(c) \in 0..MaxPing
    <2>1. ping[c] \in 0..MaxPing
      BY <1>2 DEF TimeType
    <2> QED BY <1>1, <2>1 DEF Slept
  <1> QED BY <1>1, <1>2

\* Handlers whose caller has gone stay handlers.
LEMMA ForsakenType ==
    ASSUME NEW h \in SUBSET (Ctld \X {"bu", "tk", "gone"}), NEW calls
    PROVE  Forsaken(h, calls) \in SUBSET (Ctld \X {"bu", "tk", "gone"})
  <1> SUFFICES ASSUME NEW e \in h PROVE <<e[1], "gone">> \in Ctld \X {"bu", "tk", "gone"}
    BY DEF Forsaken
  <1>1. e \in Ctld \X {"bu", "tk", "gone"}
    OBVIOUS
  <1>2. e[1] \in Ctld
    BY <1>1
  <1> QED BY <1>2

LEMMA SameMain == MainType /\ UNCHANGED mainVars => MainType'
  BY DEF MainType, mainVars

LEMMA SameRpc == RpcType /\ UNCHANGED rpcVars => RpcType'
  BY DEF RpcType, rpcVars

LEMMA SameBeat == FileType /\ BeatType /\ UNCHANGED beatVars => FileType' /\ BeatType'
  BY DEF FileType, BeatType, beatVars

LEMMA SameTime == TimeType /\ UNCHANGED timeVars => TimeType'
  BY DEF TimeType, timeVars

LEMMA SameWrote == WroteType /\ UNCHANGED <<wrote, asked>> => WroteType'
  BY DEF WroteType

LEMMA SameEnv == EnvType /\ UNCHANGED envVars => EnvType'
  BY DEF EnvType, envVars

LEMMA TypeInit == Init => TypeOK
  <1> SUFFICES ASSUME Init PROVE TypeOK
    OBVIOUS
  <1>1. MainType
    BY DEF Init, MainType, Modes, MaxSigs
  <1>2. RpcType
    BY DEF Init, RpcType
  <1>3. 0 \in Ctld
    BY ControllerHAAssumption DEF Ctld
  <1>4. FileType /\ BeatType
    BY <1>3, Intervals DEF Init, FileType, BeatType
  <1>5. TimeType
    BY Intervals, PingRange DEF Init, TimeType
  <1>6. WroteType
    BY DEF Init, WroteType
  <1>7. EnvType
    BY ControllerHAAssumption DEF Init, EnvType
  <1> QED BY <1>1, <1>2, <1>4, <1>5, <1>6, <1>7, TypeParts

\* A process has ended.
LEMMA EndsType ==
    ASSUME MainType, RpcType, BeatType, TimeType, WroteType, NEW c \in Ctld, Ends(c)
    PROVE  MainType' /\ RpcType' /\ BeatType' /\ TimeType' /\ WroteType'
  <1>1. MainType'
    BY DEF Ends, To, MainType, Modes, MaxSigs
  <1>2. RpcType'
    <2>1. handler' = [d \in Ctld |-> IF d = c THEN {} ELSE Forsaken(handler[d], {c} \X {"bu", "tk"})]
      BY DEF Ends
    <2>2. handler' \in [Ctld -> SUBSET (Ctld \X {"bu", "tk", "gone"})]
      BY <2>1, ForsakenType DEF RpcType
    <2> QED BY <2>2 DEF Ends, RpcType
  <1>3. BeatType'
    BY Intervals DEF Ends, BeatType
  <1>4. TimeType'
    BY Intervals, PingRange DEF Ends, TimeType
  <1>5. WroteType'
    BY DEF Ends, WroteType
  <1> QED BY <1>1, <1>2, <1>3, <1>4, <1>5

LEMMA KilledType ==
    ASSUME MainType, RpcType, FileType, BeatType, TimeType, WroteType, NEW c \in Ctld, Killed(c)
    PROVE  MainType' /\ RpcType' /\ FileType' /\ BeatType' /\ TimeType' /\ WroteType'
  <1>1. Ends(c)
    BY DEF Killed
  <1>2. FileType'
    BY DEF Killed, FileType
  <1> QED BY <1>1, <1>2, EndsType

LEMMA TakeControlType ==
    ASSUME MainType, RpcType, FileType, BeatType, TimeType, WroteType, NEW c \in Ctld,
           NEW h \in {"none", "same", "old"}, TakeControl(c, h)
    PROVE  MainType' /\ RpcType' /\ FileType' /\ BeatType' /\ TimeType' /\ WroteType'
  <1>1. MainType'
    BY DEF TakeControl, To, Raise, MainType, Modes, MaxSigs
  <1>2. RpcType'
    BY DEF TakeControl, RpcType
  <1>3. FileType' /\ BeatType'
    BY DEF TakeControl, FileType, BeatType
  <1>4. TimeType'
    BY Intervals, PingRange DEF TakeControl, TimeType
  <1>5. WroteType'
    BY DEF TakeControl, WroteType
  <1> QED BY <1>1, <1>2, <1>3, <1>4, <1>5
\* Requests are answered, or sent to other machines that work.
LEMMA AnsweredType ==
    ASSUME RpcType, NEW c, NEW k, NEW d, Answered(c, k, d), UNCHANGED <<takeover, handler>>
    PROVE  RpcType'
  BY DEF RpcType, Answered

LEMMA SentType ==
    ASSUME RpcType, EnvType, NEW c \in Ctld
    PROVE  /\ Backups(c) \subseteq {"bu", "tk"} \X Ctld
           /\ {<<"tk", d>> : d \in hosts \ {c}} \subseteq {"bu", "tk"} \X Ctld
  <1>1. hosts \subseteq Ctld
    BY ControllerHAAssumption DEF EnvType, Ctld
  <1> QED BY <1>1 DEF Backups

LEMMA JobStateType ==
    ASSUME WroteType, NEW c \in Ctld, JobStateWritten(c), asked' = asked
    PROVE  WroteType'
  BY DEF WroteType, JobStateWritten

LEMMA TypeStep == TypeOK /\ [Next]_vars => TypeOK'
  <1> SUFFICES ASSUME TypeOK, [Next]_vars
               PROVE  /\ MainType' /\ RpcType' /\ FileType' /\ BeatType' /\ TimeType'
                      /\ WroteType' /\ EnvType'
    <2>1. (/\ MainType' /\ RpcType' /\ FileType' /\ BeatType' /\ TimeType'
           /\ WroteType' /\ EnvType') => TypeOK'
      BY DEF TypeOK, MainType, RpcType, FileType, BeatType, TimeType, WroteType, EnvType, Modes,
         MaxPing
    <2> QED BY <2>1
  <1>0. /\ MainType /\ RpcType /\ FileType /\ BeatType /\ TimeType /\ WroteType
        /\ EnvType
    BY TypeParts
  <1> DEFINE Goal == /\ MainType' /\ RpcType' /\ FileType' /\ BeatType' /\ TimeType'
                     /\ WroteType' /\ EnvType'
  <1>1. ASSUME NEW c \in Ctld, Start(c) PROVE Goal
    <2>1. MainType'
      BY <1>0, <1>1 DEF Start, To, MainType, Modes
    <2>2. RpcType'
      <3>1. pend' = [pend EXCEPT ![c] = Backups(c)] \/ pend' = [pend EXCEPT ![c] = {}]
        BY <1>1 DEF Start
      <3> QED BY <1>0, <1>1, <3>1, SentType DEF Start, RpcType
    <2> QED BY <1>0, <1>1, <2>1, <2>2, SameBeat, SameTime, SameWrote, SameEnv DEF Start
  <1>2. ASSUME NEW c \in Ctld, EnterStandby(c) PROVE Goal
    <2>1. MainType'
      BY <1>0, <1>2 DEF EnterStandby, To, MainType, Modes
    <2>2. TimeType'
      BY <1>0, <1>2, PingRange DEF EnterStandby, TimeType
    <2> QED BY <1>0, <1>2, <2>1, <2>2, SameRpc, SameBeat, SameWrote, SameEnv DEF EnterStandby
  <1>3. ASSUME NEW c \in Ctld, Dies(c), UNCHANGED envVars PROVE Goal
    <2>1. FileType'
      BY <1>0, <1>3 DEF Dies, FileType
    <2> QED BY <1>0, <1>3, <2>1, EndsType, SameEnv DEF Dies
  <1>4. ASSUME NEW c \in Ctld, Killed(c), UNCHANGED envVars PROVE Goal
    BY <1>0, <1>4, KilledType, SameEnv
  <1>5. ASSUME NEW c \in Ctld, PingControllers(c) PROVE Goal
    <2>0. UNCHANGED envVars
      BY <1>5 DEF PingControllers
    <2>1. CASE /\ To(c, "standby") /\ UNCHANGED <<sig, shut, resume, rpcVars, beatVars, wrote, asked>>
               /\ resp' = [resp EXCEPT ![c] = 0] /\ ping' = [ping EXCEPT ![c] = Slept(c)]
      <3>1. TimeType'
        BY <1>0, <2>1, Intervals, PingRange DEF TimeType
      <3>2. MainType'
        BY <1>0, <2>1 DEF To, MainType, Modes
      <3> QED BY <1>0, <2>0, <2>1, <3>1, <3>2, SameRpc, SameBeat, SameWrote, SameEnv
    <2>2. CASE TakeControl(c, prev[c])
      <3>1. prev[c] \in {"none", "same", "old"}
        BY <1>0 DEF BeatType
      <3> QED BY <1>0, <2>0, <2>2, <3>1, TakeControlType, SameEnv
    <2>3. CASE To(c, "check") /\ UNCHANGED <<sig, shut, resume, rpcVars, beatVars, timeVars, wrote, asked>>
      <3>1. MainType'
        BY <1>0, <2>3 DEF To, MainType, Modes
      <3> QED BY <1>0, <2>0, <2>3, <3>1, SameRpc, SameBeat, SameTime, SameWrote, SameEnv
    <2>4. CASE Dies(c)
      BY <1>3, <2>0, <2>4
    <2> QED BY <1>5, <2>1, <2>2, <2>3, <2>4 DEF PingControllers
  <1>30. ASSUME NEW c \in Ctld, StartPing(c) PROVE Goal
    <2>1. MainType'
      BY <1>0, <1>30 DEF StartPing, To, MainType, Modes
    <2>2. TimeType'
      BY <1>0, <1>30, PingRange DEF StartPing, TimeType
    <2> QED BY <1>0, <1>30, <2>1, <2>2, SameRpc, SameBeat, SameWrote, SameEnv DEF StartPing
  <1>31. ASSUME NEW c \in Ctld, LateAnswer(c) PROVE Goal
    <2>1. MainType'
      BY <1>0, <1>31 DEF LateAnswer, To, MainType, Modes
    <2> QED BY <1>0, <1>31, <2>1, SameRpc, SameBeat, SameTime, SameWrote, SameEnv DEF LateAnswer
  <1>6. ASSUME NEW c \in Ctld, CheckHeartbeat(c) PROVE Goal
    <2>0. UNCHANGED envVars
      BY <1>6 DEF CheckHeartbeat
    <2>1. CASE TakeControl(c, "none")
      BY <1>0, <2>0, <2>1, TakeControlType, SameEnv
    <2>2. CASE Dies(c)
      BY <1>3, <2>0, <2>2
    <2>3. ASSUME NEW h \in {"same", "none"}, To(c, "standby"), prev' = [prev EXCEPT ![c] = h],
                 ping' = [ping EXCEPT ![c] = Slept(c)],
                 UNCHANGED <<sig, shut, resume, rpcVars, file, beat, resp, wrote, asked>>
          PROVE  Goal
      <3>1. MainType'
        BY <1>0, <2>3 DEF To, MainType, Modes
      <3>2. FileType' /\ BeatType'
        BY <1>0, <2>3 DEF FileType, BeatType
      <3>3. TimeType'
        BY <1>0, <2>3, PingRange DEF TimeType
      <3> QED BY <1>0, <2>0, <2>3, <3>1, <3>2, <3>3, SameRpc, SameWrote, SameEnv
    <2> QED BY <1>6, <2>1, <2>2, <2>3 DEF CheckHeartbeat
  <1>7. ASSUME NEW c \in Ctld, AgentFini(c) PROVE Goal
    <2>1. MainType'
      BY <1>0, <1>7 DEF AgentFini, To, MainType, Modes
    <2> QED BY <1>0, <1>7, <2>1, SameRpc, SameBeat, SameTime, SameWrote, SameEnv DEF AgentFini
  <1>8. ASSUME NEW c \in Ctld, LoadState(c) PROVE Goal
    <2>1. MainType'
      BY <1>0, <1>8 DEF LoadState, Controls, To, MainType, Modes
    <2>2. RpcType'
      BY <1>0, <1>8, SentType DEF LoadState, RpcType
    <2>3. FileType' /\ BeatType'
      BY <1>0, <1>8, Intervals DEF LoadState, Controls, FileType, BeatType
    <2> QED BY <1>0, <1>8, <2>1, <2>2, <2>3, SameTime, SameWrote, SameEnv DEF LoadState
  <1>9. ASSUME NEW c \in Ctld, AskedAll(c) PROVE Goal
    <2>1. MainType'
      BY <1>0, <1>9 DEF AskedAll, Controls, To, MainType, Modes
    <2>2. FileType' /\ BeatType'
      BY <1>0, <1>9, Intervals DEF AskedAll, Controls, FileType, BeatType
    <2> QED BY <1>0, <1>9, <2>1, <2>2, SameRpc, SameTime, SameWrote, SameEnv DEF AskedAll
  <1>10. ASSUME Reassert PROVE Goal
    <2>1. 0 \in Ctld
      BY ControllerHAAssumption DEF Ctld
    <2>2. RpcType'
      BY <1>0, <1>10, <2>1, SentType DEF Reassert, RpcType
    <2> QED BY <1>0, <1>10, <2>2, SameMain, SameBeat, SameTime, SameWrote, SameEnv DEF Reassert
  <1>11. ASSUME NEW c \in Ctld, RequestTakeover(c) PROVE Goal
    <2>1. RpcType'
      <3>1. /\ takeover' = [takeover EXCEPT ![c] = "ask"]
            /\ pend' = [pend EXCEPT ![c] = @ \cup {<<"tk", d>> : d \in hosts \ {c}}]
            /\ handler' = handler
        BY <1>11 DEF RequestTakeover
      <3> QED BY <1>0, <3>1, SentType DEF RpcType
    <2>2. EnvType'
      BY <1>0, <1>11, ControllerHAAssumption DEF RequestTakeover, Fault, EnvType
    <2> QED BY <1>0, <1>11, <2>1, <2>2, SameMain, SameBeat, SameTime, SameWrote DEF RequestTakeover
  <1>12. ASSUME NEW c \in Ctld, TakeoverServed(c) PROVE Goal
    <2>1. RpcType'
      BY <1>0, <1>12 DEF TakeoverServed, RpcType
    <2> QED BY <1>0, <1>12, <2>1, SameMain, SameBeat, SameTime, SameWrote, SameEnv DEF TakeoverServed
  <1>13. ASSUME NEW c \in Ctld, NEW k \in {"bu", "tk"}, NEW d \in Ctld, Request(c, k, d) PROVE Goal
    <2>1. CASE RequestShutdown(c, k, d)
      <3>1. MainType'
        BY <1>0, <2>1 DEF RequestShutdown, Raise, MainType, MaxSigs
      <3>2. RpcType'
        BY <1>0, <2>1, AnsweredType DEF RequestShutdown
      <3>3. WroteType'
        BY <1>0, <2>1 DEF RequestShutdown, WroteType
      <3> QED BY <1>0, <2>1, <3>1, <3>2, <3>3, SameBeat, SameTime, SameEnv DEF RequestShutdown
    <2>2. CASE ControlFromStandby(c, k, d)
      <3>1. TimeType'
        BY <1>0, <2>2, Intervals DEF ControlFromStandby, TimeType
      <3>2. RpcType'
        BY <1>0, <2>2, AnsweredType DEF ControlFromStandby
      <3> QED BY <1>0, <2>2, <3>1, <3>2, SameMain, SameBeat, SameWrote, SameEnv DEF ControlFromStandby
    <2>3. CASE ControlFromActive(c, k, d)
      <3>1. MainType'
        BY <1>0, <2>3 DEF ControlFromActive, Raise, MainType, MaxSigs
      <3>2. RpcType'
        BY <1>0, <2>3 DEF ControlFromActive, RpcType
      <3>3. WroteType'
        BY <1>0, <2>3 DEF ControlFromActive, WroteType
      <3> QED BY <1>0, <2>3, <3>1, <3>2, <3>3, SameBeat, SameTime, SameEnv DEF ControlFromActive
    <2>4. CASE RequestFails(c, k, d)
      <3>1. RpcType'
        <4>1. handler' = [handler EXCEPT ![d] = Forsaken(handler[d], {<<c, k>>})]
          BY <2>4 DEF RequestFails
        <4>2. handler' \in [Ctld -> SUBSET (Ctld \X {"bu", "tk", "gone"})]
          BY <1>0, <4>1, ForsakenType DEF RpcType
        <4> QED BY <1>0, <2>4, <4>2 DEF RequestFails, RpcType, Answered
      <3> QED BY <1>0, <2>4, <3>1, SameMain, SameBeat, SameTime, SameWrote, SameEnv DEF RequestFails
    <2> QED BY <1>13, <2>1, <2>2, <2>3, <2>4 DEF Request
  <1>14. ASSUME NEW c \in Ctld, HandleSigterm(c) PROVE Goal
    <2>1. MainType'
      BY <1>0, <1>14 DEF HandleSigterm, MainType, MaxSigs
    <2> QED BY <1>0, <1>14, <2>1, SameRpc, SameBeat, SameTime, SameWrote, SameEnv DEF HandleSigterm
  <1>15. ASSUME NEW c \in Ctld, StopListening(c) \/ Quiesce(c) PROVE Goal
    <2>1. MainType'
      BY <1>0, <1>15 DEF StopListening, Quiesce, To, MainType, Modes
    <2> QED BY <1>0, <1>15, <2>1, SameRpc, SameBeat, SameTime, SameWrote, SameEnv
            DEF StopListening, Quiesce
  <1>16. ASSUME NEW d \in Ctld, ControlReply(d) PROVE Goal
    <2>1. PICK h \in handler[d] :
             handler' = [handler EXCEPT ![d] = @ \ {h}] /\ Answered(h[1], h[2], d)
      BY <1>16 DEF ControlReply
    <2>2. RpcType'
      BY <1>0, <1>16, <2>1 DEF ControlReply, RpcType, Answered
    <2> QED BY <1>0, <1>16, <2>2, SameMain, SameBeat, SameTime, SameWrote, SameEnv DEF ControlReply
  <1>17. ASSUME NEW c \in Ctld, PeriodicSave(c) PROVE Goal
    <2>1. CASE Killed(c)
      BY <1>4, <1>17, <2>1 DEF PeriodicSave
    <2>2. CASE JobStateWritten(c) /\ UNCHANGED <<mainVars, rpcVars, beatVars, timeVars, asked>>
      BY <1>0, <1>17, <2>2, JobStateType, SameMain, SameRpc, SameBeat, SameTime, SameEnv
         DEF PeriodicSave
    <2> QED BY <1>17, <2>1, <2>2 DEF PeriodicSave, DumpJobState
  <1>18. ASSUME NEW c \in Ctld, FinalSave(c) PROVE Goal
    <2>1. CASE Killed(c)
      BY <1>4, <1>18, <2>1 DEF FinalSave
    <2>2. CASE JobStateWritten(c) /\ To(c, "stop")
               /\ UNCHANGED <<sig, shut, resume, rpcVars, beatVars, timeVars, asked>>
      <3>1. MainType'
        BY <1>0, <2>2 DEF To, MainType, Modes
      <3> QED BY <1>0, <1>18, <2>2, <3>1, JobStateType, SameRpc, SameBeat, SameTime, SameEnv
              DEF FinalSave
    <2> QED BY <1>18, <2>1, <2>2 DEF FinalSave
  <1>19. ASSUME NEW c \in Ctld, HeartbeatStop(c) PROVE Goal
    <2>1. CASE Dies(c)
      BY <1>3, <1>19, <2>1 DEF HeartbeatStop
    <2>2. CASE ~Dies(c)
      <3>1. MainType'
        BY <1>0, <1>19, <2>2 DEF HeartbeatStop, To, MainType, Modes
      <3>2. RpcType'
        BY <1>0, <1>19, <2>2 DEF HeartbeatStop, RpcType
      <3>3. FileType' /\ BeatType'
        BY <1>0, <1>19, <2>2, Intervals DEF HeartbeatStop, FileType, BeatType
      <3>4. TimeType'
        BY <1>0, <1>19, <2>2, Intervals DEF HeartbeatStop, TimeType
      <3>5. WroteType'
        BY <1>0, <1>19, <2>2 DEF HeartbeatStop, WroteType
      <3> QED BY <1>0, <1>19, <3>1, <3>2, <3>3, <3>4, <3>5, SameEnv DEF HeartbeatStop
    <2> QED BY <2>1, <2>2
  <1>20. ASSUME NEW c \in Ctld, Beat(c) PROVE Goal
    <2>1. FileType' /\ BeatType'
      BY <1>0, <1>20, Intervals DEF Beat, FileType, BeatType
    <2> QED BY <1>0, <1>20, <2>1, SameMain, SameRpc, SameTime, SameWrote, SameEnv DEF Beat
  <1>21. ASSUME Tick PROVE Goal
    <2>1. \A n \in 0..Late : Older(n) \in 0..Late
      BY Intervals DEF Older
    <2>2. FileType'
      BY <1>0, <1>21, <2>1 DEF Tick, FileType
    <2>3. BeatType'
      BY <1>0, <1>21, <2>1 DEF Tick, BeatType
    <2>4. TimeType'
      <3>1. resp' \in [Ctld -> 0..Late]
        BY <1>0, <1>21, <2>1 DEF Tick, TimeType
      <3>2. ASSUME NEW c \in Ctld PROVE PingLimit(c) \in 0..MaxPing
        BY PingRange, Intervals DEF PingLimit
      <3>3. ASSUME NEW c \in Ctld
            PROVE  (IF ping[c] < PingLimit(c) THEN ping[c] + 1 ELSE ping[c]) \in 0..MaxPing
        <4>1. ping[c] \in 0..MaxPing
          BY <1>0 DEF TimeType
        <4> QED BY <3>2, <4>1, PingRange
      <3>4. ping' \in [Ctld -> 0..MaxPing]
        BY <1>21, <3>3 DEF Tick
      <3> QED BY <3>1, <3>4 DEF TimeType
    <2> QED BY <1>0, <1>21, <2>2, <2>3, <2>4, SameMain, SameRpc, SameWrote, SameEnv DEF Tick
  <1>22. ASSUME NEW c \in Ctld, Crash(c) PROVE Goal
    <2>1. EnvType'
      BY <1>0, <1>22, ControllerHAAssumption DEF Crash, Fault, EnvType
    <2> QED BY <1>0, <1>22, <2>1, KilledType DEF Crash
  <1>23. ASSUME NEW c \in Ctld, AdminStop(c) PROVE Goal
    <2>1. EnvType'
      BY <1>0, <1>23, ControllerHAAssumption DEF AdminStop, Fault, EnvType
    <2>2. MainType'
      BY <1>0, <1>23 DEF AdminStop, Raise, MainType, MaxSigs
    <2>3. WroteType'
      BY <1>0, <1>23 DEF AdminStop, WroteType
    <2> QED BY <1>0, <1>23, <2>1, <2>2, <2>3, SameRpc, SameBeat, SameTime DEF AdminStop
  <1>24. ASSUME CutLink PROVE Goal
    <2>1. EnvType'
      BY <1>0, <1>24, ControllerHAAssumption DEF CutLink, Fault, EnvType
    <2> QED BY <1>0, <1>24, <2>1, SameMain, SameRpc, SameBeat, SameTime, SameWrote DEF CutLink
  <1>25. ASSUME HealLink PROVE Goal
    <2>1. EnvType'
      BY <1>0, <1>25 DEF HealLink, EnvType
    <2> QED BY <1>0, <1>25, <2>1, SameMain, SameRpc, SameBeat, SameTime, SameWrote DEF HealLink
  <1>26. ASSUME UNCHANGED vars PROVE Goal
    BY <1>0, <1>26, SameMain, SameRpc, SameBeat, SameTime, SameWrote, SameEnv DEF vars
  <1> HIDE DEF Goal
  <1>27. ASSUME NEW c \in Ctld, MainThread(c) PROVE Goal
    BY <1>2, <1>3, <1>5, <1>6, <1>7, <1>8, <1>9, <1>15, <1>18, <1>19, <1>27, <1>30, <1>31
       DEF MainThread, StandbyExit
  <1>28. ASSUME NEW c \in Ctld, Workers(c) PROVE Goal
    BY <1>12, <1>13, <1>14, <1>16, <1>28 DEF Workers
  <1>29. Goal
    BY <1>1, <1>10, <1>11, <1>17, <1>20, <1>21, <1>22, <1>23, <1>24, <1>25, <1>26, <1>27,
       <1>28 DEF Next
  <1> QED BY <1>29 DEF Goal

\* The variables of backup.c, heartbeat.c and controller.c keep their types.
THEOREM TypeCorrect == Spec => []TypeOK
  BY TypeInit, TypeStep, PTL DEF Spec
-----------------------------------------------------------------------------
(* The signal that run_backup sends to itself. *)

\* Unless somebody asked the controller to stop, the one SIGTERM that can be on its way
\* is its own, while agent_fini is waited for; shutdown_time is set once it is handled.
\* No signal outlives the quiescing of conmgr.
Signals(c) ==
    /\ mode[c] \in {"down", "wait"} => sig[c] = 0 /\ ~shut[c]
    /\ mode[c] \in {"save", "stop"} => sig[c] = 0
    /\ mode[c] \in Standby \cup {"load", "ask", "control"} /\ ~asked[c]
         => sig[c] = 0 /\ ~shut[c]
    /\ mode[c] = "init" /\ ~asked[c]
         => (sig[c] = 1 /\ ~shut[c]) \/ (sig[c] = 0 /\ shut[c])

SignalInv == \A c \in Ctld : Signals(c)

\* A controller about whose signals a step does nothing.
LEMMA SignalsKept ==
    ASSUME NEW e, Signals(e), mode'[e] = mode[e], sig'[e] = sig[e], shut'[e] = shut[e],
           asked'[e] = asked[e]
    PROVE  Signals(e)'
  BY DEF Signals

LEMMA EndsSignals ==
    ASSUME MainType, WroteType, NEW c \in Ctld, NEW e \in Ctld, Signals(e), Ends(c)
    PROVE  Signals(e)'
  <1>1. CASE e = c
    <2>1. mode'[e] = "down" /\ sig'[e] = 0 /\ shut'[e] = FALSE
      BY <1>1 DEF Ends, To, MainType
    <2> QED BY <2>1 DEF Signals
  <1>2. CASE e # c
    BY <1>2, SignalsKept DEF Ends, To, MainType, WroteType
  <1> QED BY <1>1, <1>2

LEMMA TakeControlSignals ==
    ASSUME MainType, WroteType, NEW c \in Ctld, NEW h, NEW e \in Ctld, Signals(e), ~shut[c],
           mode[c] \in Standby, TakeControl(c, h)
    PROVE  Signals(e)'
  <1>1. CASE e = c
    <2>1. mode'[e] = "init" /\ sig'[e] = Raise(sig[e]) /\ shut'[e] = shut[e] /\ asked'[e] = asked[e]
      BY <1>1 DEF TakeControl, To, MainType
    <2>2. ~asked[e] => sig[e] = 0
      BY <1>1 DEF Signals, Standby
    <2> QED BY <1>1, <2>1, <2>2 DEF Signals, Raise, MaxSigs, Standby, Pinging
  <1>2. CASE e # c
    BY <1>2, SignalsKept DEF TakeControl, To, MainType
  <1> QED BY <1>1, <1>2

\* Only listening controllers get signals, and from then on somebody has asked.
LEMMA RaiseSignals ==
    ASSUME MainType, WroteType, NEW d \in Ctld, NEW e \in Ctld, Signals(e),
           mode[d] \in Listening, UNCHANGED <<mode, shut>>, NEW n,
           sig' = [sig EXCEPT ![d] = n], asked' = [asked EXCEPT ![d] = TRUE]
    PROVE  Signals(e)'
  <1>1. CASE e = d
    <2>1. asked'[e] /\ mode'[e] \in Standby \cup {"control"}
      BY <1>1 DEF WroteType, Listening
    <2> QED BY <2>1 DEF Signals, Standby, Pinging
  <1>2. CASE e # d
    BY <1>2, SignalsKept DEF MainType, WroteType
  <1> QED BY <1>1, <1>2

LEMMA SignalStep ==
    ASSUME TypeOK, SignalInv, [Next]_vars
    PROVE  SignalInv'
  <1> SUFFICES ASSUME NEW e \in Ctld PROVE Signals(e)'
    BY DEF SignalInv
  <1>0. MainType /\ WroteType /\ Signals(e)
    BY TypeParts DEF SignalInv
  <1>1. ASSUME UNCHANGED <<mode, sig, shut, asked>> PROVE Signals(e)'
    BY <1>0, <1>1, SignalsKept
  <1>2. ASSUME NEW c \in Ctld, Start(c) \/ EnterStandby(c) PROVE Signals(e)'
    <2>1. PICK m \in {"ask", "wait", "standby"} :
             To(c, m) /\ mode[c] \in {"down", "wait"} /\ UNCHANGED <<sig, shut, asked>>
      BY <1>2 DEF Start, EnterStandby, SetUp
    <2>2. CASE e = c
      BY <1>0, <2>1, <2>2 DEF To, MainType, Signals, Standby, Pinging
    <2>3. CASE e # c
      BY <1>0, <2>1, <2>3, SignalsKept DEF To, MainType
    <2> QED BY <2>2, <2>3
  <1>3. ASSUME NEW c \in Ctld, Ends(c) PROVE Signals(e)'
    BY <1>0, <1>3, EndsSignals
  <1>4. ASSUME NEW c \in Ctld, StartPing(c) \/ LateAnswer(c) \/ PingControllers(c) PROVE Signals(e)'
    <2>1. mode[c] \in Standby
      BY <1>4 DEF StartPing, LateAnswer, PingControllers, PingDue, Standby, Pinging
    <2>2. CASE ~shut[c] /\ TakeControl(c, prev[c])
      BY <1>0, <2>1, <2>2, TakeControlSignals
    <2>3. ASSUME NEW m \in Standby, To(c, m), UNCHANGED <<sig, shut, asked>> PROVE Signals(e)'
      <3>1. CASE e = c
        <4>1. mode'[e] = m /\ sig'[e] = sig[e] /\ shut'[e] = shut[e] /\ asked'[e] = asked[e]
          BY <1>0, <2>3, <3>1 DEF To, MainType
        <4>2. ~asked[e] => sig[e] = 0 /\ ~shut[e]
          BY <1>0, <2>1, <3>1 DEF Signals
        <4> QED BY <2>3, <4>1, <4>2 DEF Signals, Standby, Pinging
      <3>2. CASE e # c
        BY <1>0, <2>3, <3>2, SignalsKept DEF To, MainType
      <3> QED BY <3>1, <3>2
    <2>4. CASE Dies(c)
      BY <1>3, <2>4 DEF Dies
    <2>5. \A m \in {"standby", "ping", "pong", "check"} : m \in Standby
      BY DEF Standby, Pinging
    <2>6. \/ ~shut[c] /\ TakeControl(c, prev[c])
          \/ Dies(c)
          \/ \E m \in {"standby", "ping", "pong", "check"} : To(c, m) /\ UNCHANGED <<sig, shut, asked>>
      BY <1>4 DEF StartPing, LateAnswer, PingControllers
    <2> QED BY <2>2, <2>3, <2>4, <2>5, <2>6
  <1>5. ASSUME NEW c \in Ctld, CheckHeartbeat(c) PROVE Signals(e)'
    <2>1. mode[c] = "check"
      BY <1>5 DEF CheckHeartbeat
    <2>2. CASE ~shut[c] /\ TakeControl(c, "none")
      BY <1>0, <2>1, <2>2, TakeControlSignals DEF Standby
    <2>3. CASE Dies(c)
      BY <1>3, <2>3 DEF Dies
    <2>4. CASE To(c, "standby") /\ UNCHANGED <<sig, shut, asked>>
      BY <1>0, <2>1, <2>4, SignalsKept DEF To, MainType, Signals, Standby, Pinging
    <2> QED BY <1>5, <2>2, <2>3, <2>4 DEF CheckHeartbeat
  <1>6. ASSUME NEW c \in Ctld, AgentFini(c) PROVE Signals(e)'
    <2>1. /\ mode[c] = "init" /\ shut[c] /\ To(c, "load") /\ shut' = [shut EXCEPT ![c] = FALSE]
          /\ UNCHANGED <<sig, asked>>
      BY <1>6 DEF AgentFini, AgentEnded
    <2>2. CASE e = c
      <3>1. mode'[e] = "load" /\ shut'[e] = FALSE /\ sig'[e] = sig[e] /\ asked'[e] = asked[e]
        BY <1>0, <2>1, <2>2 DEF To, MainType
      <3>2. ~asked[e] => sig[e] = 0
        BY <1>0, <2>1, <2>2 DEF Signals
      <3> QED BY <3>1, <3>2 DEF Signals
    <2>3. CASE e # c
      BY <1>0, <2>1, <2>3, SignalsKept DEF To, MainType
    <2> QED BY <2>2, <2>3
  <1>7. ASSUME NEW c \in Ctld, LoadState(c) \/ AskedAll(c) PROVE Signals(e)'
    <2>1. PICK m \in {"load", "ask", "control"} :
             To(c, m) /\ mode[c] \in {"load", "ask"} /\ UNCHANGED <<sig, shut, asked>>
      BY <1>7 DEF LoadState, AskedAll, Controls
    <2>2. CASE e = c
      BY <1>0, <2>1, <2>2 DEF To, MainType, Signals, Standby, Pinging
    <2>3. CASE e # c
      BY <1>0, <2>1, <2>3, SignalsKept DEF To, MainType
    <2> QED BY <2>2, <2>3
  <1>8. ASSUME NEW c \in Ctld, NEW k, NEW d \in Ctld, Request(c, k, d) PROVE Signals(e)'
    <2>1. CASE RequestShutdown(c, k, d)
      <3>1. PICK n : sig' = [sig EXCEPT ![d] = n]
        BY <2>1 DEF RequestShutdown
      <3> QED BY <1>0, <2>1, <3>1, RaiseSignals DEF RequestShutdown, Reached
    <2>2. CASE ControlFromActive(c, k, d)
      <3>1. PICK n : sig' = [sig EXCEPT ![d] = n]
        BY <2>2 DEF ControlFromActive
      <3> QED BY <1>0, <2>2, <3>1, RaiseSignals DEF ControlFromActive, Reached
    <2>3. CASE ControlFromStandby(c, k, d) \/ RequestFails(c, k, d)
      BY <1>1, <2>3 DEF ControlFromStandby, RequestFails, mainVars
    <2> QED BY <1>8, <2>1, <2>2, <2>3 DEF Request
  <1>9. ASSUME NEW c \in Ctld, HandleSigterm(c) PROVE Signals(e)'
    <2>1. CASE e = c
      <3>1. /\ sig[e] > 0 /\ sig'[e] = sig[e] - 1 /\ shut'[e] = TRUE
            /\ mode'[e] = mode[e] /\ asked'[e] = asked[e]
        BY <1>0, <1>9, <2>1 DEF HandleSigterm, MainType
      <3>2. sig[e] \in 0..2
        BY <1>0 DEF MainType, MaxSigs
      <3> QED BY <1>0, <3>1, <3>2 DEF Signals
    <2>2. CASE e # c
      BY <1>0, <1>9, <2>2, SignalsKept DEF HandleSigterm, MainType
    <2> QED BY <2>1, <2>2
  <1>10. ASSUME NEW c \in Ctld, StopListening(c) \/ Quiesce(c) PROVE Signals(e)'
    <2>1. CASE e = c
      BY <1>0, <1>10, <2>1 DEF StopListening, Quiesce, Quiesced, To, MainType, Signals, Standby,
         Pinging
    <2>2. CASE e # c
      BY <1>0, <1>10, <2>2, SignalsKept DEF StopListening, Quiesce, To, MainType
    <2> QED BY <2>1, <2>2
  <1>11. ASSUME NEW c \in Ctld, PeriodicSave(c) PROVE Signals(e)'
    BY <1>1, <1>3, <1>11 DEF PeriodicSave, DumpJobState, Killed, mainVars
  <1>12. ASSUME NEW c \in Ctld, FinalSave(c) PROVE Signals(e)'
    <2>1. CASE Killed(c)
      BY <1>3, <2>1 DEF Killed
    <2>2. CASE mode[c] = "save" /\ To(c, "stop") /\ UNCHANGED <<sig, shut, asked>>
      BY <1>0, <2>2, SignalsKept DEF To, MainType, Signals, Standby, Pinging
    <2> QED BY <1>12, <2>1, <2>2 DEF FinalSave
  <1>13. ASSUME NEW c \in Ctld, HeartbeatStop(c) PROVE Signals(e)'
    <2>1. CASE Dies(c)
      BY <1>3, <2>1 DEF Dies
    <2>2. CASE ~Dies(c)
      <3>1. /\ mode[c] = "stop" /\ To(c, "wait") /\ shut' = [shut EXCEPT ![c] = FALSE]
            /\ asked' = [asked EXCEPT ![c] = FALSE] /\ sig' = sig
        BY <1>13, <2>2 DEF HeartbeatStop
      <3>2. CASE e = c
        BY <1>0, <3>1, <3>2 DEF To, MainType, WroteType, Signals
      <3>3. CASE e # c
        BY <1>0, <3>1, <3>3, SignalsKept DEF To, MainType, WroteType
      <3> QED BY <3>2, <3>3
    <2> QED BY <2>1, <2>2
  <1>14. ASSUME NEW c \in Ctld, AdminStop(c) PROVE Signals(e)'
    <2>1. PICK n : sig' = [sig EXCEPT ![c] = n]
      BY <1>14 DEF AdminStop
    <2> QED BY <1>0, <1>14, <2>1, RaiseSignals DEF AdminStop
  <1>15. ASSUME NEW c \in Ctld, MainThread(c) PROVE Signals(e)'
    BY <1>2, <1>3, <1>4, <1>5, <1>6, <1>7, <1>10, <1>12, <1>13, <1>15
       DEF MainThread, StandbyExit, Dies
  <1>16. ASSUME NEW c \in Ctld, Workers(c) PROVE Signals(e)'
    BY <1>1, <1>8, <1>9, <1>16 DEF Workers, TakeoverServed, ControlReply, mainVars
  <1> QED
    BY <1>1, <1>2, <1>3, <1>11, <1>14, <1>15, <1>16
       DEF Next, Beat, RequestTakeover, Crash, Killed, Reassert, Tick, CutLink, HealLink,
           mainVars, vars

\* run_backup sends itself SIGTERM and then clears shutdown_time; the signal is handled
\* by another thread and yet never hits the controller it has become, as agent_fini
\* is only done once the signal has been handled.
THEOREM OwnSignalIsSpent == Spec => []OwnSignalSpent
  <1>1. Init => SignalInv
    BY DEF Init, SignalInv, Signals
  <1>2. TypeOK /\ SignalInv /\ [Next]_vars => SignalInv'
    BY SignalStep
  <1>3. TypeOK /\ SignalInv => OwnSignalSpent
    BY DEF SignalInv, Signals, OwnSignalSpent
  <1>4. Spec => []SignalInv
    BY <1>1, <1>2, TypeCorrect, PTL DEF Spec
  <1> QED BY <1>3, <1>4, TypeCorrect, PTL
-----------------------------------------------------------------------------
(* Takeover and the heartbeat. *)

\* Once a controller has beaten it does so in time, and the file is as young as the
\* last beat of any.
BeatsInTime(d) ==
    mode[d] \in Beating /\ beat[d] < Late => beat[d] <= BeatInterval /\ file.age <= beat[d]

BeatInv == \A d \in Ctld : BeatsInTime(d)

\* What a standby knows of the heartbeat file that it has read before.  The file was
\* not changed since anybody last answered, or it is as old as its last reading, which
\* came up to PingTimeout after the last round of pings was started.
Rounds(c) ==
    /\ mode[c] \in Pinging \cup {"check"} => ping[c] <= PingTimeout
    /\ mode[c] \notin Standby \cup {"wait"} => resp[c] = 0
    /\ prev[c] = "same" =>
         \/ file.age >= resp[c]
         \/ mode[c] = "standby" /\ file.age + PingTimeout >= ping[c]
         \/ mode[c] \in Pinging /\ takeover[c] = "yes"
         \/ mode[c] \in Pinging \cup {"check"} /\ file.age + PingTimeout >= PingInterval

RoundInv == \A c \in Ctld : Rounds(c)

LEMMA BeatKept ==
    ASSUME NEW d, BeatsInTime(d), beat'[d] = beat[d], file'.age = file.age,
           mode'[d] \in Beating => mode[d] \in Beating
    PROVE  BeatsInTime(d)'
  BY DEF BeatsInTime

\* A process that ends, or a backup that becomes a standby again, does not beat.
LEMMA BeatStops ==
    ASSUME MainType, BeatType, NEW c \in Ctld, NEW m, m \notin Beating, To(c, m),
           beat' = [beat EXCEPT ![c] = 0], file'.age = file.age,
           NEW d \in Ctld, BeatsInTime(d)
    PROVE  BeatsInTime(d)'
  <1>1. CASE d = c
    BY <1>1 DEF To, MainType, BeatsInTime
  <1>2. CASE d # c
    <2>1. beat'[d] = beat[d] /\ mode'[d] = mode[d]
      BY <1>2 DEF To, MainType, BeatType
    <2> QED BY <2>1, BeatKept
  <1> QED BY <1>1, <1>2

LEMMA BeatStep ==
    ASSUME TypeOK, BeatInv, [Next]_vars
    PROVE  BeatInv'
  <1> SUFFICES ASSUME NEW e \in Ctld PROVE BeatsInTime(e)'
    BY DEF BeatInv
  <1>0. MainType /\ BeatType /\ FileType /\ BeatsInTime(e)
    BY TypeParts DEF BeatInv
  <1>1. ASSUME UNCHANGED <<mode, beat, file>> PROVE BeatsInTime(e)'
    BY <1>0, <1>1, BeatKept
  <1>2. ASSUME NEW c \in Ctld, NEW m, To(c, m), m \in Beating => mode[c] \in Beating,
               UNCHANGED <<beat, file>>
        PROVE  BeatsInTime(e)'
    <2>1. mode'[e] \in Beating => mode[e] \in Beating
      BY <1>0, <1>2 DEF To, MainType
    <2> QED BY <1>0, <1>2, <2>1, BeatKept
  <1>3. ASSUME NEW c \in Ctld, Ends(c), file'.age = file.age PROVE BeatsInTime(e)'
    <2>1. "down" \notin Beating
      BY DEF Beating, Closing
    <2> QED BY <1>0, <1>3, <2>1, BeatStops DEF Ends
  <1>4. ASSUME NEW c \in Ctld, Killed(c) PROVE BeatsInTime(e)'
    <2>1. file'.age = file.age
      BY <1>0, <1>4 DEF Killed, FileType
    <2> QED BY <1>3, <1>4, <2>1 DEF Killed
  <1>5. ASSUME NEW c \in Ctld, Controls(c), file' = file PROVE BeatsInTime(e)'
    <2>1. CASE e = c
      <3>1. beat'[e] = Late
        BY <1>0, <1>5, <2>1 DEF Controls, BeatType
      <3> QED BY <3>1, Intervals DEF BeatsInTime
    <2>2. CASE e # c
      <3>1. beat'[e] = beat[e] /\ mode'[e] = mode[e]
        BY <1>0, <1>5, <2>2 DEF Controls, To, MainType, BeatType
      <3> QED BY <1>0, <1>5, <3>1, BeatKept
    <2> QED BY <2>1, <2>2
  <1>6. ASSUME NEW c \in Ctld, NEW h, TakeControl(c, h) PROVE BeatsInTime(e)'
    <2>1. To(c, "init") /\ UNCHANGED <<beat, file>>
      BY <1>6 DEF TakeControl
    <2> QED BY <1>2, <2>1 DEF Beating, Closing
  <1>7. ASSUME NEW c \in Ctld, HeartbeatStop(c) PROVE BeatsInTime(e)'
    <2>1. CASE Dies(c)
      BY <1>3, <2>1 DEF Dies
    <2>2. CASE ~Dies(c)
      <3>1. To(c, "wait") /\ beat' = [beat EXCEPT ![c] = 0] /\ file' = file
        BY <1>7, <2>2 DEF HeartbeatStop
      <3>2. "wait" \notin Beating
        BY DEF Beating, Closing
      <3> QED BY <1>0, <3>1, <3>2, BeatStops
    <2> QED BY <2>1, <2>2
  <1>8. ASSUME NEW c \in Ctld, Beat(c) PROVE BeatsInTime(e)'
    <2>1. file'.age = 0 /\ mode' = mode /\ beat' = [beat EXCEPT ![c] = 0]
      BY <1>8 DEF Beat, mainVars
    <2>2. beat[e] \in Nat /\ beat'[e] \in {0, beat[e]}
      BY <1>0, <2>1, Intervals DEF BeatType
    <2> QED BY <1>0, <2>1, <2>2, Intervals DEF BeatsInTime
  <1>9. ASSUME Tick PROVE BeatsInTime(e)'
    <2>1. mode' = mode /\ ~BeatDue(e) /\ file'.age = Older(file.age)
          /\ (mode[e] \in Beating => beat'[e] = Older(beat[e]))
      BY <1>0, <1>9 DEF Tick, mainVars, FileType
    <2>2. beat[e] \in 0..Late /\ file.age \in 0..Late
      BY <1>0 DEF BeatType, FileType
    <2>3. ASSUME mode[e] \in Beating PROVE beat[e] < BeatInterval
      BY <2>1, <2>2, <2>3, Intervals DEF BeatDue
    <2>4. ASSUME mode[e] \in Beating
          PROVE  beat'[e] <= BeatInterval /\ file'.age <= beat'[e]
      <3>1. beat[e] < BeatInterval /\ beat[e] < Late /\ file.age <= beat[e]
        BY <1>0, <2>2, <2>3, <2>4, Intervals DEF BeatsInTime
      <3> QED BY <2>1, <2>2, <2>4, <3>1, Intervals DEF Older
    <2> QED BY <2>1, <2>4 DEF BeatsInTime
  <1>10. ASSUME NEW c \in Ctld, MainThread(c) PROVE BeatsInTime(e)'
    <2>1. CASE EnterStandby(c)
      BY <1>2, <2>1 DEF EnterStandby, Beating, Closing, beatVars
    <2>2. CASE StandbyExit(c)
      BY <1>3, <2>2 DEF StandbyExit, Dies
    <2>3. CASE PingControllers(c)
      <3>1. \/ TakeControl(c, prev[c]) \/ Dies(c)
            \/ \E m \in {"standby", "check"} : To(c, m) /\ UNCHANGED <<beat, file>>
        BY <2>3 DEF PingControllers, beatVars
      <3> QED BY <1>2, <1>3, <1>6, <3>1 DEF Beating, Closing, Dies
    <2>4. CASE CheckHeartbeat(c)
      <3>1. \/ TakeControl(c, "none") \/ Dies(c)
            \/ To(c, "standby") /\ UNCHANGED <<beat, file>>
        BY <2>4 DEF CheckHeartbeat
      <3> QED BY <1>2, <1>3, <1>6, <3>1 DEF Beating, Closing, Dies
    <2>5. CASE AgentFini(c)
      BY <1>2, <2>5 DEF AgentFini, Beating, Closing, beatVars
    <2>6. CASE LoadState(c)
      BY <1>2, <1>5, <2>6 DEF LoadState, Beating, Closing
    <2>7. CASE AskedAll(c)
      BY <1>2, <1>5, <2>7 DEF AskedAll, Beating, Closing
    <2>8. CASE StopListening(c)
      BY <1>2, <2>8 DEF StopListening, Beating, Closing, beatVars
    <2>9. CASE Quiesce(c)
      BY <1>2, <2>9 DEF Quiesce, Beating, Closing, beatVars
    <2>10. CASE FinalSave(c)
      BY <1>2, <1>4, <2>10 DEF FinalSave, Beating, Closing, beatVars
    <2>11. CASE StartPing(c) \/ LateAnswer(c)
      <3>1. \E m \in {"ping", "pong"} : To(c, m) /\ UNCHANGED <<beat, file>>
        BY <2>11 DEF StartPing, LateAnswer, beatVars
      <3> QED BY <1>2, <3>1 DEF Beating, Closing
    <2> QED BY <1>7, <1>10, <2>1, <2>2, <2>3, <2>4, <2>5, <2>6, <2>7, <2>8, <2>9, <2>10, <2>11
            DEF MainThread
  <1>11. ASSUME NEW c \in Ctld, Workers(c) PROVE BeatsInTime(e)'
    BY <1>1, <1>11 DEF Workers, HandleSigterm, TakeoverServed, ControlReply, Request,
       RequestShutdown, ControlFromStandby, ControlFromActive, RequestFails, mainVars, beatVars
  <1>12. ASSUME NEW c \in Ctld, Start(c) PROVE BeatsInTime(e)'
    BY <1>2, <1>12 DEF Start, Beating, Closing, beatVars
  <1>13. ASSUME NEW c \in Ctld, PeriodicSave(c) PROVE BeatsInTime(e)'
    BY <1>1, <1>4, <1>13 DEF PeriodicSave, DumpJobState, mainVars, beatVars
  <1> QED
    BY <1>1, <1>4, <1>8, <1>9, <1>10, <1>11, <1>12, <1>13
       DEF Next, RequestTakeover, Crash, AdminStop, Reassert, CutLink, HealLink, mainVars,
           beatVars, vars
\* The rounds of a standby that nobody keeps waiting.
LEMMA RoundsKept ==
    ASSUME NEW e, Rounds(e), mode'[e] = mode[e], prev'[e] = prev[e], resp'[e] = resp[e],
           ping'[e] = ping[e], file'.age = file.age, takeover[e] = "yes" => takeover'[e] = "yes"
    PROVE  Rounds(e)'
  BY DEF Rounds

\* Somebody has just answered, or the controller is no standby.
LEMMA RoundsAnew ==
    ASSUME NEW e, resp'[e] = 0, mode'[e] \notin Pinging \cup {"check"}, file'.age \in Nat
    PROVE  Rounds(e)'
  BY DEF Rounds

LEMMA RoundStep ==
    ASSUME Punctual, TypeOK, TypeOK', RoundInv, [Next]_vars
    PROVE  RoundInv'
  <1> SUFFICES ASSUME NEW e \in Ctld PROVE Rounds(e)'
    BY DEF RoundInv
  <1>0. /\ MainType /\ RpcType /\ BeatType /\ FileType /\ TimeType /\ Rounds(e)
        /\ file.age \in Nat /\ file'.age \in Nat
    <2>1. file.age \in 0..Late /\ file'.age \in 0..Late
      BY DEF TypeOK
    <2>2. file.age \in Nat /\ file'.age \in Nat
      BY <2>1, Intervals
    <2> QED BY <2>2, TypeParts DEF RoundInv
  <1>1. ASSUME UNCHANGED <<mode, prev, timeVars, file>>, takeover[e] = "yes" => takeover'[e] = "yes"
        PROVE  Rounds(e)'
    BY <1>0, <1>1, RoundsKept DEF timeVars
  <1>2. ASSUME NEW c \in Ctld, NEW m, To(c, m), UNCHANGED <<prev, timeVars, file, takeover>>,
               mode[c] \notin Standby \cup {"wait"}, m \notin Pinging \cup {"check"}
        PROVE  Rounds(e)'
    <2>1. CASE e = c
      <3>1. resp'[e] = 0 /\ mode'[e] = m
        BY <1>0, <1>2, <2>1 DEF To, MainType, Rounds, timeVars
      <3> QED BY <1>0, <1>2, <3>1, RoundsAnew
    <2>2. CASE e # c
      BY <1>0, <1>2, <2>2, RoundsKept DEF To, MainType, timeVars
    <2> QED BY <2>1, <2>2
  <1>3. ASSUME NEW c \in Ctld, Ends(c), file'.age = file.age PROVE Rounds(e)'
    <2>1. CASE e = c
      <3>1. resp'[e] = 0 /\ mode'[e] = "down"
        BY <1>0, <1>3, <2>1 DEF Ends, To, MainType, TimeType
      <3> QED BY <1>0, <3>1, RoundsAnew DEF Pinging
    <2>2. CASE e # c
      BY <1>0, <1>3, <2>2, RoundsKept DEF Ends, To, MainType, RpcType, BeatType, TimeType
    <2> QED BY <2>1, <2>2
  <1>4. ASSUME NEW c \in Ctld, Killed(c) PROVE Rounds(e)'
    <2>1. file'.age = file.age
      BY <1>0, <1>4 DEF Killed, FileType
    <2> QED BY <1>3, <1>4, <2>1 DEF Killed
  <1>5. ASSUME NEW c \in Ctld, NEW h, TakeControl(c, h) PROVE Rounds(e)'
    <2>1. CASE e = c
      <3>1. resp'[e] = 0 /\ mode'[e] = "init"
        BY <1>0, <1>5, <2>1 DEF TakeControl, To, MainType, TimeType
      <3> QED BY <1>0, <3>1, RoundsAnew DEF Pinging
    <2>2. CASE e # c
      BY <1>0, <1>5, <2>2, RoundsKept DEF TakeControl, To, MainType, RpcType, BeatType, TimeType
    <2> QED BY <2>1, <2>2
  <1>6. ASSUME NEW c \in Ctld, EnterStandby(c) PROVE Rounds(e)'
    <2>1. /\ mode[c] = "wait" /\ To(c, "standby") /\ UNCHANGED <<prev, file, resp, takeover>>
          /\ ping' = [ping EXCEPT ![c] = PingInterval - 1]
      BY <1>6 DEF EnterStandby, SetUp, beatVars, rpcVars
    <2>2. CASE e = c
      <3>1. mode[e] = "wait" /\ mode'[e] = "standby"
        BY <1>0, <2>1, <2>2 DEF To, MainType
      <3> QED BY <1>0, <2>1, <3>1 DEF Rounds, Standby, Pinging
    <2>3. CASE e # c
      BY <1>0, <2>1, <2>3, RoundsKept DEF To, MainType, TimeType
    <2> QED BY <2>2, <2>3
  <1>7. ASSUME NEW c \in Ctld, PingControllers(c) PROVE Rounds(e)'
    <2>1. mode[c] \in Pinging
      BY <1>7 DEF PingControllers, Pinging
    <2>2. CASE /\ To(c, "standby") /\ resp' = [resp EXCEPT ![c] = 0]
               /\ ping' = [ping EXCEPT ![c] = Slept(c)] /\ UNCHANGED <<prev, file, takeover>>
      <3>1. CASE e = c
        <4>1. resp'[e] = 0 /\ mode'[e] = "standby"
          BY <1>0, <2>2, <3>1 DEF To, MainType, TimeType
        <4> QED BY <1>0, <4>1, RoundsAnew DEF Pinging
      <3>2. CASE e # c
        BY <1>0, <2>2, <3>2, RoundsKept DEF To, MainType, TimeType
      <3> QED BY <3>1, <3>2
    <2>3. CASE TakeControl(c, prev[c])
      BY <1>5, <2>3
    <2>4. CASE takeover[c] # "yes" /\ To(c, "check") /\ UNCHANGED <<prev, file, resp, ping, takeover>>
      <3>1. CASE e = c
        <4>1. mode'[e] = "check" /\ mode[e] \in Pinging /\ takeover[e] # "yes"
          BY <1>0, <2>1, <2>4, <3>1 DEF To, MainType
        <4> QED BY <1>0, <2>4, <4>1 DEF Rounds, Standby, Pinging
      <3>2. CASE e # c
        BY <1>0, <2>4, <3>2, RoundsKept DEF To, MainType
      <3> QED BY <3>1, <3>2
    <2>5. CASE Dies(c)
      BY <1>3, <2>5 DEF Dies
    <2> QED BY <1>7, <2>2, <2>3, <2>4, <2>5 DEF PingControllers, rpcVars, beatVars, timeVars
  <1>17. ASSUME NEW c \in Ctld, StartPing(c) PROVE Rounds(e)'
    <2>1. /\ mode[c] = "standby" /\ ping' = [ping EXCEPT ![c] = 0]
          /\ ping[c] >= PingInterval \/ takeover[c] = "yes"
          /\ UNCHANGED <<prev, file, resp, takeover>>
      BY <1>17 DEF StartPing, PingDue, rpcVars, beatVars
    <2>2. PICK m \in Pinging : To(c, m)
      BY <1>17 DEF StartPing, Pinging
    <2>3. CASE e = c
      <3>1. mode[e] = "standby" /\ mode'[e] \in Pinging /\ ping'[e] = 0
        BY <1>0, <2>1, <2>2, <2>3 DEF To, MainType, TimeType
      <3>2. PingTimeout \in Nat /\ PingInterval \in Nat /\ ping[e] \in Nat
        BY <1>0, Intervals, PingRange DEF TimeType
      <3>3. prev[e] = "same" => file.age >= resp[e] \/ file.age + PingTimeout >= ping[e]
        BY <1>0, <3>1 DEF Rounds, Pinging
      <3>4. (ping[e] >= PingInterval /\ file.age + PingTimeout >= ping[e])
              => file.age + PingTimeout >= PingInterval
        BY <1>0, <3>2
      <3> QED BY <2>1, <2>3, <3>1, <3>2, <3>3, <3>4 DEF Rounds, Standby
    <2>4. CASE e # c
      BY <1>0, <2>1, <2>2, <2>4, RoundsKept DEF To, MainType, TimeType
    <2> QED BY <2>3, <2>4
  <1>18. ASSUME NEW c \in Ctld, LateAnswer(c) PROVE Rounds(e)'
    <2>1. mode[c] = "ping" /\ To(c, "pong") /\ UNCHANGED <<prev, file, resp, ping, takeover>>
      BY <1>18 DEF LateAnswer, rpcVars, beatVars, timeVars
    <2>2. CASE e = c
      <3>1. mode[e] = "ping" /\ mode'[e] = "pong"
        BY <1>0, <2>1, <2>2 DEF To, MainType
      <3> QED BY <1>0, <2>1, <3>1 DEF Rounds, Standby, Pinging
    <2>3. CASE e # c
      BY <1>0, <2>1, <2>3, RoundsKept DEF To, MainType
    <2> QED BY <2>2, <2>3
  <1>8. ASSUME NEW c \in Ctld, CheckHeartbeat(c) PROVE Rounds(e)'
    <2>1. mode[c] = "check"
      BY <1>8 DEF CheckHeartbeat
    <2>2. CASE TakeControl(c, "none")
      BY <1>5, <2>2
    <2>3. CASE Dies(c)
      BY <1>3, <2>3 DEF Dies
    <2>4. ASSUME NEW h, To(c, "standby"), prev' = [prev EXCEPT ![c] = h],
                 ping' = [ping EXCEPT ![c] = Slept(c)], UNCHANGED <<file, resp, takeover>>
          PROVE  Rounds(e)'
      <3>1. CASE e = c
        <4>1. mode[e] = "check" /\ mode'[e] = "standby" /\ ping'[e] = Slept(e)
          BY <1>0, <2>1, <2>4, <3>1 DEF To, MainType, TimeType
        <4>2. ping[e] \in Nat /\ ping[e] <= PingTimeout
          BY <1>0, <4>1, PingRange DEF TimeType, Rounds
        <4>3. Slept(e) <= PingTimeout /\ Slept(e) \in Nat
          BY <4>2, Intervals DEF Slept
        <4>4. file'.age + PingTimeout >= ping'[e]
          BY <1>0, <4>1, <4>3, Intervals
        <4> QED BY <4>1, <4>4 DEF Rounds, Standby, Pinging
      <3>2. CASE e # c
        BY <1>0, <2>4, <3>2, RoundsKept DEF To, MainType, BeatType, TimeType
      <3> QED BY <3>1, <3>2
    <2> QED BY <1>8, <2>2, <2>3, <2>4 DEF CheckHeartbeat, rpcVars
  <1>9. ASSUME NEW c \in Ctld, HeartbeatStop(c) PROVE Rounds(e)'
    <2>1. CASE Dies(c)
      BY <1>3, <2>1 DEF Dies
    <2>2. CASE ~Dies(c)
      <3>1. To(c, "wait") /\ resp' = [resp EXCEPT ![c] = 0] /\ UNCHANGED <<file, prev, ping>>
            /\ takeover' = [takeover EXCEPT ![c] = "no"]
        BY <1>9, <2>2 DEF HeartbeatStop
      <3>2. CASE e = c
        <4>1. resp'[e] = 0 /\ mode'[e] = "wait"
          BY <1>0, <3>1, <3>2 DEF To, MainType, TimeType
        <4> QED BY <1>0, <4>1, RoundsAnew DEF Pinging
      <3>3. CASE e # c
        BY <1>0, <3>1, <3>3, RoundsKept DEF To, MainType, RpcType, TimeType
      <3> QED BY <3>2, <3>3
    <2> QED BY <2>1, <2>2
  <1>10. ASSUME NEW c \in Ctld, MainThread(c) PROVE Rounds(e)'
    <2>1. CASE StandbyExit(c)
      BY <1>3, <2>1 DEF StandbyExit, Dies
    <2>2. CASE AgentFini(c)
      BY <1>2, <2>2 DEF AgentFini, Standby, beatVars, Pinging, rpcVars
    <2>3. CASE LoadState(c)
      BY <1>2, <2>3 DEF LoadState, Controls, Standby, Pinging, rpcVars
    <2>4. CASE AskedAll(c)
      BY <1>2, <2>4 DEF AskedAll, Controls, Standby, Pinging, rpcVars
    <2>5. CASE StopListening(c)
      BY <1>2, <2>5 DEF StopListening, Standby, beatVars, Pinging, rpcVars
    <2>6. CASE Quiesce(c)
      BY <1>2, <2>6 DEF Quiesce, Standby, beatVars, Pinging, rpcVars
    <2>7. CASE FinalSave(c)
      BY <1>2, <1>4, <2>7 DEF FinalSave, Standby, beatVars, Pinging, rpcVars
    <2> QED BY <1>6, <1>7, <1>8, <1>9, <1>10, <1>17, <1>18, <2>1, <2>2, <2>3, <2>4, <2>5, <2>6, <2>7
            DEF MainThread
  <1>11. ASSUME NEW c, NEW k, NEW d \in Ctld, ControlFromStandby(c, k, d) PROVE Rounds(e)'
    <2>1. resp' = [resp EXCEPT ![d] = 0] /\ UNCHANGED <<mode, prev, file, ping, takeover>>
      BY <1>11 DEF ControlFromStandby, mainVars, beatVars
    <2>2. CASE e = d
      <3>1. resp'[e] = 0
        BY <1>0, <2>1, <2>2 DEF TimeType
      <3> QED BY <1>0, <2>1, <3>1 DEF Rounds
    <2>3. CASE e # d
      BY <1>0, <2>1, <2>3, RoundsKept DEF TimeType
    <2> QED BY <2>2, <2>3
  <1>12. ASSUME NEW c \in Ctld, Workers(c) PROVE Rounds(e)'
    <2>1. CASE TakeoverServed(c)
      <3>1. takeover[e] = "yes" => takeover'[e] = "yes"
        BY <1>0, <2>1 DEF TakeoverServed, RpcType
      <3> QED BY <1>1, <2>1, <3>1 DEF TakeoverServed, mainVars, beatVars
    <2> QED BY <1>1, <1>11, <1>12, <2>1 DEF Workers, HandleSigterm, ControlReply, Request,
       RequestShutdown, ControlFromActive, RequestFails, mainVars, rpcVars, beatVars
  <1>13. ASSUME NEW c \in Ctld, Start(c) PROVE Rounds(e)'
    BY <1>2, <1>13 DEF Start, Standby, beatVars, Pinging, rpcVars
  <1>14. ASSUME NEW c \in Ctld, PeriodicSave(c) PROVE Rounds(e)'
    BY <1>1, <1>4, <1>14 DEF PeriodicSave, DumpJobState, mainVars, rpcVars, beatVars
  <1>15. ASSUME NEW c \in Ctld, Beat(c) PROVE Rounds(e)'
    <2>1. file'.age = 0 /\ UNCHANGED <<mode, resp, ping, takeover>>
      BY <1>15 DEF Beat, mainVars, rpcVars, timeVars
    <2>2. prev'[e] = "same" => prev[e] = "same" /\ ~(file.age > 0)
      BY <1>0, <1>15 DEF Beat
    <2>3. prev'[e] = "same" => prev[e] = "same" /\ file.age = 0
      BY <1>0, <2>2
    <2> QED BY <1>0, <2>1, <2>3 DEF Rounds
  <1>16. ASSUME Tick PROVE Rounds(e)'
    <2>1. mode[e] # "check" /\ ~PingEnds(e)
      BY <1>16 DEF Tick, Prompt
    <2>2. /\ UNCHANGED <<mode, prev, takeover>> /\ file'.age = Older(file.age)
          /\ resp'[e] = IF mode[e] \in Standby \cup {"wait"} THEN Older(resp[e]) ELSE resp[e]
          /\ ping'[e] = IF ping[e] < PingLimit(e) THEN ping[e] + 1 ELSE ping[e]
      BY <1>0, <1>16 DEF Tick, mainVars, rpcVars, FileType
    <2>3. file.age \in 0..Late /\ resp[e] \in 0..Late /\ ping[e] \in Nat
      BY <1>0, PingRange DEF FileType, TimeType
    <2>4. file.age >= resp[e] => file'.age >= resp'[e]
      BY <2>2, <2>3, Intervals DEF Older
    <2>5. file'.age >= file.age
      BY <2>2, <2>3, Intervals DEF Older
    <2>6. mode[e] \notin Standby \cup {"wait"} => resp'[e] = 0
      BY <1>0, <2>2 DEF Rounds
    <2>7. ASSUME mode[e] = "standby", file.age + PingTimeout >= ping[e]
          PROVE  file'.age + PingTimeout >= ping'[e]
      <3>1. PingLimit(e) = PingInterval
        BY <2>7 DEF PingLimit, Pinging
      <3>2. CASE file.age = Late
        BY <2>2, <2>3, <2>7, <3>1, <3>2, Intervals DEF Older
      <3>3. CASE file.age < Late
        BY <2>2, <2>3, <2>7, <3>1, <3>3, Intervals DEF Older
      <3> QED BY <2>3, <3>2, <3>3, Intervals
    <2>8. mode[e] \in Pinging => ping'[e] <= PingTimeout
      BY <2>1, <2>2, <2>3, Intervals DEF PingEnds
    <2>9. file.age + PingTimeout >= PingInterval => file'.age + PingTimeout >= PingInterval
      BY <1>0, <2>5, Intervals
    <2> QED BY <1>0, <2>1, <2>2, <2>4, <2>6, <2>7, <2>8, <2>9 DEF Rounds
  <1>19. ASSUME NEW c \in Ctld, RequestTakeover(c) PROVE Rounds(e)'
    <2>1. takeover[e] = "yes" => takeover'[e] = "yes"
      BY <1>0, <1>19 DEF RequestTakeover, RpcType
    <2> QED BY <1>1, <1>19, <2>1 DEF RequestTakeover, mainVars, beatVars
  <1> QED
    BY <1>1, <1>4, <1>10, <1>12, <1>13, <1>14, <1>15, <1>16, <1>19
       DEF Next, AdminStop, Reassert, Crash, CutLink, HealLink, mainVars, rpcVars, beatVars, vars

\* A standby whose timeout has run out sees no live heartbeat.
LEMMA TimedOutAlone ==
    ASSUME TypeOK, BeatInv, RoundInv, BeatInterval + PingTimeout < PingInterval,
           NEW c \in Ctld, mode[c] = "check", NEW there \in BOOLEAN, TimedOut(c, there),
           NEW d \in Ctld, Holds(d)
    PROVE  FALSE
  <1>1. file.age <= BeatInterval /\ file.age \in Nat
    <2>1. mode[d] \in Beating /\ beat[d] < Late
      BY DEF Holds, Beating, Closing
    <2>2. beat[d] <= BeatInterval /\ file.age <= beat[d]
      BY <2>1 DEF BeatInv, BeatsInTime
    <2>3. file.age \in 0..Late /\ beat[d] \in 0..Late
      BY DEF TypeOK
    <2> QED BY <2>2, <2>3, Intervals
  <1>2. UseAge(c, there) > SlurmctldTimeout /\ prev[c] = "same"
    BY DEF TimedOut, AbortTakeover
  <1>3. resp[c] \in 0..Late
    BY DEF TypeOK
  <1>4. resp[c] > SlurmctldTimeout
    <2>1. UseAge(c, there) \in {file.age, resp[c]}
      BY DEF UseAge
    <2>2. ~(file.age > SlurmctldTimeout)
      BY <1>1, Intervals
    <2> QED BY <1>2, <2>1, <2>2
  <1>5. file.age >= resp[c] \/ file.age + PingTimeout >= PingInterval
    BY <1>2 DEF RoundInv, Rounds, Pinging
  <1> QED BY <1>1, <1>3, <1>4, <1>5, Intervals

\* A standby whose timeout runs out never takes over from a controller that beats, not
\* even from one of lower priority, whose heartbeat only counts by having changed, or
\* from one that is saving its state.  This needs a standby that reads the heartbeat as
\* soon as its pings are over, and times for which a beat falls between any two of
\* these readings: T/3 is more than a beat and a ping without answer take together.
\* The defaults (40, 30 and 10 seconds) miss this by one second.
THEOREM TakeoverSparesLive ==
    ASSUME Punctual, BeatInterval + PingTimeout < PingInterval
    PROVE  Spec => NoTakeoverFromLive
  <1> DEFINE Spares == \A c \in Ctld : mode[c] = "check" /\ mode'[c] = "init" =>
                          \A d \in Ctld \ {c} : ~Holds(d)
  <1>1. Init => BeatInv /\ RoundInv
    <2> SUFFICES ASSUME Init, NEW c \in Ctld PROVE BeatsInTime(c) /\ Rounds(c)
      BY DEF BeatInv, RoundInv
    <2>1. mode[c] = "down" /\ prev[c] = "none" /\ resp[c] = 0
      BY DEF Init
    <2> QED BY <2>1 DEF BeatsInTime, Rounds, Beating, Closing, Pinging
  <1>2. TypeOK /\ BeatInv /\ [Next]_vars => BeatInv'
    BY BeatStep
  <1>3. TypeOK /\ TypeOK' /\ RoundInv /\ [Next]_vars => RoundInv'
    BY RoundStep
  <1>4. TypeOK /\ BeatInv /\ RoundInv /\ [Next]_vars => [Spares]_vars
    <2> SUFFICES ASSUME TypeOK, BeatInv, RoundInv, [Next]_vars,
                        NEW c \in Ctld, mode[c] = "check", mode'[c] = "init",
                        NEW d \in Ctld \ {c}, Holds(d)
                 PROVE  FALSE
      OBVIOUS
    <2>1. \A e \in Ctld : \A m : To(e, m) => e = c /\ m = "init"
      BY DEF To, TypeOK
    <2>2. ~UNCHANGED mode
      OBVIOUS
    <2>3. ASSUME NEW e \in Ctld PROVE ~Ends(e)
      BY <2>1 DEF Ends
    <2>4. ASSUME NEW e \in Ctld, MainThread(e) PROVE CheckHeartbeat(c)
      <3>1. ~PingControllers(e)
        <4>1. PingControllers(e) => mode[e] \in {"ping", "pong"} /\ e = c
          BY <2>1, <2>3 DEF PingControllers, TakeControl, Dies
        <4> QED BY <4>1
      <3>2. ~EnterStandby(e) /\ ~StandbyExit(e) /\ ~AgentFini(e) /\ ~LoadState(e)
            /\ ~AskedAll(e) /\ ~StopListening(e) /\ ~Quiesce(e) /\ ~StartPing(e) /\ ~LateAnswer(e)
        BY <2>1, <2>3 DEF EnterStandby, StartPing, LateAnswer, StandbyExit, Dies, AgentFini, LoadState, AskedAll,
           Controls, StopListening, Quiesce
      <3>3. ~FinalSave(e) /\ ~HeartbeatStop(e)
        BY <2>1, <2>3 DEF FinalSave, HeartbeatStop, Killed, Dies
      <3>4. CheckHeartbeat(e) => e = c
        BY <2>1, <2>3 DEF CheckHeartbeat, Dies, TakeControl
      <3> QED BY <2>4, <3>1, <3>2, <3>3, <3>4 DEF MainThread
    <2>5. CheckHeartbeat(c)
      <3>1. ASSUME NEW e \in Ctld PROVE ~Workers(e)
        BY <2>2 DEF Workers, HandleSigterm, TakeoverServed, ControlReply, Request, RequestShutdown,
           ControlFromStandby, ControlFromActive, RequestFails, mainVars
      <3>2. ASSUME NEW e \in Ctld PROVE ~Start(e) /\ ~Crash(e) /\ ~PeriodicSave(e)
        BY <2>1, <2>2, <2>3 DEF Start, Crash, Killed, PeriodicSave, DumpJobState, mainVars
      <3>3. ASSUME NEW e \in Ctld PROVE ~Beat(e) /\ ~RequestTakeover(e) /\ ~AdminStop(e)
        BY <2>2 DEF Beat, RequestTakeover, AdminStop, mainVars
      <3>4. ~Reassert /\ ~Tick /\ ~CutLink /\ ~HealLink /\ ~UNCHANGED vars
        BY <2>2 DEF Reassert, Tick, CutLink, HealLink, mainVars, vars
      <3> QED BY <2>4, <3>1, <3>2, <3>3, <3>4 DEF Next
    <2>6. PICK there \in BOOLEAN : TimedOut(c, there)
      BY <2>1, <2>3, <2>5 DEF CheckHeartbeat, HeartbeatReads, Dies
    <2> QED BY <2>6, TimedOutAlone
  <1> HIDE DEF Spares
  <1>5. Spec => [](TypeOK /\ BeatInv /\ RoundInv)
    BY <1>1, <1>2, <1>3, TypeCorrect, PTL DEF Spec
  <1>6. Spec => [][Spares]_vars
    BY <1>4, <1>5, PTL DEF Spec
  <1> QED BY <1>6 DEF NoTakeoverFromLive, Spares
=============================================================================
