--------------------------- MODULE RpcQueueProofs ---------------------------
(***************************************************************************)
(* Proofs about the request queue of slurmctld for any number of           *)
(* connections and workers and any limits: no lost wakeup, nothing left in *)
(* mgr.work by a quiesce, and no use of the freed list.  The last two rest *)
(* on the order of mgr.work: the callback that ends a connection is behind *)
(* the one that serves its request.                                        *)
(***************************************************************************)
EXTENDS RpcQueue, FiniteSetTheorems, TLAPS

\* Between the quiesced state and the next time slurmctld listens.
Down == {"report", "disable", "mark", "join", "closed"}

\* conmgr has the connection of a request it has yet to read.
ConnsOpen ==
    \A c \in Clients :
        /\ cpc[c] = "idle" => c \notin conns
        /\ cpc[c] = "open" => c \in conns \ finishing

\* Every callback in mgr.work belongs to a connection that conmgr still has;
\* a request is served once and before its connection is finished.
WorkOrdered ==
    \A i \in 1..Len(mwork) :
        /\ mwork[i][2] \in conns
        /\ mwork[i][1] = "serve" => cpc[mwork[i][2]] = "extracted"
        /\ mwork[i][1] = "finish" => mwork[i][2] \in finishing
        /\ \A j \in 1..Len(mwork) :
               /\ j # i => mwork[j] # mwork[i]
               /\ mwork[i][1] = "serve" /\ mwork[j] = <<"finish", mwork[i][2]>> => i < j

\* While slurmctld is down nothing reaches the queue.
QuietWhenDown ==
    /\ mpc \in {"flush", "resume_backup", "quiesce"} \cup Down => ~listening
    /\ mpc \in Down => conns = {} /\ ~accepting /\ Serving = {}
    /\ mpc \in {"mark", "join", "closed"} => ~enabled
    /\ freed => ~enabled

IInv == TypeOK /\ ConnsOpen /\ WorkOrdered /\ QuietWhenDown /\ QueueAlive /\ NoLostWakeup

-----------------------------------------------------------------------------
\* The initial state satisfies the inductive invariant.
LEMMA InitIInv == Init => IInv
<1> SUFFICES ASSUME Init PROVE IInv
  OBVIOUS
<1>1. TypeOK
  <2>1. cpc \in [Clients -> {"idle", "open", "extracted", "done"} \cup CallStates]
    BY DEF Init
  <2>2. mwork \in Seq({"serve", "finish"} \X Clients) /\ work \in Seq(Clients)
    BY DEF Init
  <2>3. conns \subseteq Clients /\ finishing \subseteq conns /\ answered \subseteq Clients
        /\ stranded \subseteq Clients
    BY DEF Init
  <2>4. /\ listening \in BOOLEAN /\ accepting \in BOOLEAN /\ quiesced \in BOOLEAN
        /\ enabled \in BOOLEAN /\ qshutdown \in BOOLEAN /\ freed \in BOOLEAN
    BY DEF Init
  <2>5. threads \in Nat /\ queued \in Int /\ processed \in Nat
    BY DEF Init
  <2>6. /\ wpc \in {"start", "take", "count", "run", "sleep", "wait", "woken", "gone"}
        /\ wpc \notin {"count", "run"} /\ cur \in Clients \cup {None}
        /\ mpc \in {"run", "flush", "resume_backup", "quiesce", "report", "disable", "mark",
                  "join", "closed"}
    BY DEF Init
  <2> QED
    BY <2>1, <2>2, <2>3, <2>4, <2>5, <2>6, Zenon DEF TypeOK
<1>2. ConnsOpen /\ WorkOrdered
  BY DEF Init, ConnsOpen, WorkOrdered
<1>3. QuietWhenDown /\ QueueAlive /\ NoLostWakeup
  BY DEF Init, QuietWhenDown, QueueAlive, NoLostWakeup, Down
<1> QED
  BY <1>1, <1>2, <1>3 DEF IInv

\* Steps of conmgr keep the types.
LEMMA TypeConmgr ==
    ASSUME TypeOK,
           \/ AcceptBegin \/ AcceptEnd \/ WorkerPop
           \/ \E c \in Clients : Extract(c) \/ Hangup(c) \/ QueueFinish(c)
    PROVE  TypeOK'
<1> USE DEF TypeOK, Go
<1>1. CASE AcceptBegin
  BY <1>1 DEF AcceptBegin, queueVars
<1>2. CASE AcceptEnd
  <2>1. conns' \subseteq Clients /\ finishing \subseteq conns'
    BY <1>2 DEF AcceptEnd
  <2>2. cpc' \in [Clients -> {"idle", "open", "extracted", "done"} \cup CallStates]
    BY <1>2 DEF AcceptEnd
  <2>3. /\ accepting' \in BOOLEAN
        /\ UNCHANGED <<listening, mwork, finishing, quiesced, threads, answered, mpc>>
        /\ UNCHANGED queueVars
    BY <1>2 DEF AcceptEnd
  <2>4. /\ mwork' \in Seq({"serve", "finish"} \X Clients) /\ work' \in Seq(Clients)
        /\ threads' \in Nat /\ answered' \subseteq Clients
        /\ cur' \in Clients \cup {None} /\ (wpc' \in {"count", "run"} => cur' # None)
    BY <2>3 DEF queueVars
  <2> QED
    BY <2>1, <2>2, <2>3, <2>4 DEF queueVars
<1>3. CASE WorkerPop
  <2>1. Head(mwork) \in {"serve", "finish"} \X Clients /\ mwork' \in Seq({"serve", "finish"} \X Clients)
    BY <1>3 DEF WorkerPop
  <2>2. Head(mwork)[2] \in Clients
    BY <2>1
  <2>3. conns' \subseteq Clients /\ finishing' \subseteq conns'
    BY <1>3 DEF WorkerPop
  <2>4. cpc' \in [Clients -> {"idle", "open", "extracted", "done"} \cup CallStates]
    BY <1>3, <2>2 DEF WorkerPop, CallStates
  <2> QED
    BY <1>3, <2>1, <2>3, <2>4 DEF WorkerPop, queueVars
<1>4. ASSUME NEW c \in Clients, Extract(c) PROVE TypeOK'
  <2>1. mwork' \in Seq({"serve", "finish"} \X Clients)
    BY <1>4 DEF Extract, AddWork
  <2> QED
    BY <1>4, <2>1 DEF Extract, queueVars
<1>5. ASSUME NEW c \in Clients, Hangup(c) PROVE TypeOK'
  BY <1>5 DEF Hangup, queueVars, conmgrVars
<1>6. ASSUME NEW c \in Clients, QueueFinish(c) PROVE TypeOK'
  <2>1. mwork' \in Seq({"serve", "finish"} \X Clients)
    BY <1>6 DEF QueueFinish, AddWork
  <2> QED
    BY <1>6, <2>1 DEF QueueFinish, queueVars
<1> QED
  BY <1>1, <1>2, <1>3, <1>4, <1>5, <1>6

\* The steps of _service_connection keep the types.
LEMMA TypeService == ASSUME TypeOK, NEW c \in Clients, ServiceNext(c) PROVE TypeOK'
<1> USE DEF TypeOK, Go, CallStates
<1>1. CASE ServerThreadIncr(c)
  BY <1>1 DEF ServerThreadIncr, queueVars, conmgrVars
<1>2. CASE CheckEnabled(c)
  BY <1>2 DEF CheckEnabled, queueVars, conmgrVars
<1>3. CASE Reserve(c)
  BY <1>3 DEF Reserve, conmgrVars
<1>4. CASE ListEnqueue(c)
  <2>1. work' \in Seq(Clients)
    BY <1>4 DEF ListEnqueue
  <2> QED
    BY <1>4, <2>1 DEF ListEnqueue, conmgrVars
<1>5. CASE SignalWorker(c)
  BY <1>5 DEF SignalWorker, Awake, conmgrVars
<1>6. CASE Reply(c)
  BY <1>6 DEF Reply, queueVars, conmgrVars
<1>7. CASE ServerThreadDecr(c)
  BY <1>7 DEF ServerThreadDecr, queueVars, conmgrVars
<1> QED
  BY <1>1, <1>2, <1>3, <1>4, <1>5, <1>6, <1>7 DEF ServiceNext

\* The steps of the queue's worker keep the types.
LEMMA TypeWorker == ASSUME TypeOK, WorkerNext \/ SpuriousWake PROVE TypeOK'
<1> USE DEF TypeOK
<1>1. CASE WorkerLock
  BY <1>1 DEF WorkerLock, conmgrVars
<1>2. CASE WorkerTake
  <2>1. Head(work) \in Clients /\ work' \in Seq(Clients)
    BY <1>2 DEF WorkerTake
  <2>2. Head(work) # None
    BY <2>1, RpcQueueAssumption
  <2> QED
    BY <1>2, <2>1, <2>2 DEF WorkerTake, conmgrVars
<1>3. CASE WorkerCount
  BY <1>3 DEF WorkerCount, conmgrVars
<1>7. CASE WorkerRun
  <2>1. answered' \subseteq Clients
    BY <1>7 DEF WorkerRun
  <2> QED
    BY <1>7, <2>1 DEF WorkerRun, conmgrVars
<1>4. CASE WorkerYield
  BY <1>4 DEF WorkerYield, conmgrVars
<1>5. CASE WorkerCheck
  BY <1>5 DEF WorkerCheck, conmgrVars
<1>6. CASE SpuriousWake
  BY <1>6 DEF SpuriousWake, conmgrVars
<1> QED
  BY <1>1, <1>2, <1>3, <1>4, <1>5, <1>6, <1>7 DEF WorkerNext

\* The steps of the main thread keep the types.
LEMMA TypeMain == ASSUME TypeOK, ListenersQuiesce \/ MainNext \/ Resume PROVE TypeOK'
<1> USE DEF TypeOK
<1>1. CASE ListenersQuiesce
  BY <1>1 DEF ListenersQuiesce, queueVars
<1>2. CASE FlushRpcs
  BY <1>2 DEF FlushRpcs, queueVars, conmgrVars
<1>3. CASE ConmgrQuiesce
  BY <1>3 DEF ConmgrQuiesce, queueVars
<1>4. CASE ConmgrUnquiesce
  BY <1>4 DEF ConmgrUnquiesce, queueVars
<1>5. CASE QueueDisable
  BY <1>5 DEF QueueDisable, conmgrVars
<1>6. CASE QueueMark
  BY <1>6 DEF QueueMark, AwakeForShutdown, Awake, conmgrVars
<1>7. CASE QueueJoin
  <2>1. work' \in Seq(Clients) /\ stranded' \subseteq Clients
    BY <1>7 DEF QueueJoin
  <2> QED
    BY <1>7, <2>1 DEF QueueJoin, conmgrVars
<1>8. CASE Resume
  BY <1>8 DEF Resume, queueVars
<1> QED
  BY <1>1, <1>2, <1>3, <1>4, <1>5, <1>6, <1>7, <1>8 DEF MainNext

\* Every step keeps the types.
LEMMA TypeStep == ASSUME TypeOK, [Next]_vars PROVE TypeOK'
<1>1. CASE UNCHANGED vars
  BY <1>1 DEF vars, conmgrVars, queueVars, TypeOK
<1> QED
  BY <1>1, TypeConmgr, TypeService, TypeWorker, TypeMain DEF Next

-----------------------------------------------------------------------------
\* What a step of the queue's worker or of the main thread leaves alone.
LEMMA OthersKeepConns ==
    ASSUME WorkerNext \/ SpuriousWake \/ ListenersQuiesce \/ MainNext \/ Resume
    PROVE  UNCHANGED <<conns, mwork, finishing, accepting, cpc>>
BY DEF WorkerNext, WorkerLock, WorkerTake, WorkerCount, WorkerRun, WorkerYield, WorkerCheck,
       SpuriousWake, ListenersQuiesce, MainNext, FlushRpcs, ConmgrQuiesce, ConmgrUnquiesce,
       QueueDisable, QueueMark, QueueJoin, Resume, conmgrVars

\* What a step of _service_connection leaves alone.
LEMMA ServiceKeepsConns ==
    ASSUME TypeOK, NEW c \in Clients, ServiceNext(c)
    PROVE  /\ UNCHANGED <<conns, mwork, finishing, accepting, listening, mpc, enabled, freed>>
           /\ cpc[c] \in CallStates /\ cpc'[c] \in CallStates \cup {"done"}
           /\ \A d \in Clients : d # c => cpc'[d] = cpc[d]
BY DEF TypeOK, ServiceNext, ServerThreadIncr, CheckEnabled, Reserve, ListEnqueue, SignalWorker,
       Reply, ServerThreadDecr, conmgrVars, queueVars, Go, CallStates

\* ConnsOpen is kept by every step.
LEMMA ConnsStep == ASSUME TypeOK, WorkOrdered, ConnsOpen, [Next]_vars PROVE ConnsOpen'
<1> USE DEF ConnsOpen
<1>1. CASE UNCHANGED vars
  BY <1>1 DEF vars, conmgrVars
<1>2. CASE AcceptBegin
  BY <1>2 DEF AcceptBegin
<1>3. CASE AcceptEnd
  <2>1. CASE UNCHANGED <<conns, cpc>>
    BY <1>3, <2>1 DEF AcceptEnd
  <2>2. CASE \E c \in Clients : cpc[c] = "idle" /\ conns' = conns \cup {c} /\ Go(c, "open")
    BY <1>3, <2>2 DEF AcceptEnd, Go, TypeOK
  <2> QED
    BY <1>3, <2>1, <2>2 DEF AcceptEnd
<1>4. CASE WorkerPop
  <2>1. 1 \in 1..Len(mwork) /\ Head(mwork) = mwork[1] /\ mwork[1] \in {"serve", "finish"} \X Clients
    BY <1>4 DEF WorkerPop, TypeOK
  <2>2. CASE Head(mwork)[1] = "serve"
    BY <1>4, <2>1, <2>2 DEF WorkerPop, WorkOrdered, Go, TypeOK
  <2>3. CASE Head(mwork)[1] = "finish"
    BY <1>4, <2>1, <2>3 DEF WorkerPop, WorkOrdered
  <2> QED
    BY <2>1, <2>2, <2>3
<1>5. ASSUME NEW c \in Clients, Extract(c) PROVE ConnsOpen'
  BY <1>5 DEF Extract, Go, TypeOK
<1>6. ASSUME NEW c \in Clients, Hangup(c) PROVE ConnsOpen'
  BY <1>6 DEF Hangup, Go, TypeOK, conmgrVars
<1>7. ASSUME NEW c \in Clients, QueueFinish(c) PROVE ConnsOpen'
  BY <1>7 DEF QueueFinish
<1>8. ASSUME NEW c \in Clients, ServiceNext(c) PROVE ConnsOpen'
  BY <1>8, ServiceKeepsConns DEF CallStates
<1>9. CASE WorkerNext \/ SpuriousWake \/ ListenersQuiesce \/ MainNext \/ Resume
  BY <1>9, OthersKeepConns
<1> QED
  BY <1>1, <1>2, <1>3, <1>4, <1>5, <1>6, <1>7, <1>8, <1>9 DEF Next

-----------------------------------------------------------------------------
\* A step that adds no callback and removes no connection keeps the order.
LEMMA OrderKept ==
    ASSUME TypeOK, WorkOrdered, mwork' = mwork, conns \subseteq conns', finishing' = finishing,
           \A c \in Clients : cpc[c] = "extracted" => cpc'[c] = "extracted"
    PROVE  WorkOrdered'
<1>1. \A i \in 1..Len(mwork) : mwork[i] \in {"serve", "finish"} \X Clients
  BY DEF TypeOK
<1> QED
  BY <1>1 DEF WorkOrdered

\* A callback that is put at the end keeps the order, if it is new and does
\* not serve a connection whose end is queued.
LEMMA OrderAppend ==
    ASSUME TypeOK, WorkOrdered, NEW k \in {"serve", "finish"}, NEW c \in conns,
           mwork' = Append(mwork, <<k, c>>), conns' = conns, finishing \subseteq finishing',
           k = "serve" => c \notin finishing /\ cpc[c] = "open" /\ cpc'[c] = "extracted",
           k = "finish" => c \in finishing' \ finishing,
           \A d \in Clients : cpc[d] = "extracted" => cpc'[d] = "extracted"
    PROVE  WorkOrdered'
<1> DEFINE n == Len(mwork)
<1>1. n \in Nat /\ \A i \in 1..n : mwork[i] \in {"serve", "finish"} \X Clients
  BY DEF TypeOK
<1>2. /\ Len(mwork') = n + 1 /\ mwork'[n + 1] = <<k, c>>
      /\ \A i \in 1..n : mwork'[i] = mwork[i]
  BY DEF TypeOK
<1>3. \A i \in 1..n : mwork[i] # <<k, c>>
  BY <1>1 DEF WorkOrdered
<1>4. ASSUME NEW i \in 1..(n + 1)
      PROVE  /\ mwork'[i][2] \in conns'
             /\ mwork'[i][1] = "serve" => cpc'[mwork'[i][2]] = "extracted"
             /\ mwork'[i][1] = "finish" => mwork'[i][2] \in finishing'
  <2>1. CASE i = n + 1
    BY <1>2, <2>1
  <2>2. CASE i \in 1..n
    BY <1>1, <1>2, <2>2 DEF WorkOrdered
  <2> QED
    BY <1>1, <2>1, <2>2
<1>5. ASSUME NEW i \in 1..(n + 1), NEW j \in 1..(n + 1), j # i PROVE mwork'[j] # mwork'[i]
  <2>1. CASE i \in 1..n /\ j \in 1..n
    BY <1>2, <1>5, <2>1 DEF WorkOrdered
  <2>2. CASE i = n + 1 /\ j \in 1..n
    BY <1>2, <1>3, <2>2
  <2>3. CASE j = n + 1 /\ i \in 1..n
    BY <1>2, <1>3, <2>3
  <2> QED
    BY <1>1, <1>5, <2>1, <2>2, <2>3
<1>6. ASSUME NEW i \in 1..(n + 1), NEW j \in 1..(n + 1),
             mwork'[i][1] = "serve", mwork'[j] = <<"finish", mwork'[i][2]>>
      PROVE  i < j
  <2>1. CASE i \in 1..n /\ j \in 1..n
    BY <1>2, <1>6, <2>1 DEF WorkOrdered
  <2>2. CASE j = n + 1
    <3>1. i # j
      BY <1>6
    <3> QED
      BY <1>1, <2>2, <3>1
  <2>3. CASE i = n + 1 /\ j \in 1..n
    <3>1. k = "serve" /\ mwork[j] = <<"finish", c>>
      BY <1>2, <1>6, <2>3
    <3> QED
      BY <2>3, <3>1 DEF WorkOrdered
  <2> QED
    BY <1>1, <2>1, <2>2, <2>3
<1> QED
  BY <1>2, <1>4, <1>5, <1>6 DEF WorkOrdered

\* Taking the first callback keeps the order: what it ends or starts to serve
\* has no callback of the same kind behind it, and an ended connection has
\* nothing left to serve.
LEMMA OrderPop == ASSUME TypeOK, WorkOrdered, WorkerPop PROVE WorkOrdered'
<1> DEFINE n == Len(mwork)
           c == mwork[1][2]
<1>1. n \in Nat \ {0} /\ \A i \in 1..n : mwork[i] \in {"serve", "finish"} \X Clients
  BY DEF TypeOK, WorkerPop
<1>2. Head(mwork) = mwork[1]
  BY DEF TypeOK, WorkerPop
<1>3. Len(mwork') = n - 1 /\ \A i \in 1..(n - 1) : mwork'[i] = mwork[i + 1]
  BY DEF TypeOK, WorkerPop
<1>4. \A i \in 1..(n - 1) : i + 1 \in 1..n /\ i + 1 # 1 /\ 1 \in 1..n
  BY <1>1
<1>5. \A i \in 1..(n - 1) : mwork[i + 1] # mwork[1]
  BY <1>4 DEF WorkOrdered
<1>6. ASSUME mwork[1][1] = "finish", NEW i \in 1..(n - 1) PROVE mwork[i + 1][2] # c
  <2>1. SUFFICES ASSUME mwork[i + 1][2] = c PROVE FALSE
    OBVIOUS
  <2>2. mwork[1] = <<"finish", c>> /\ mwork[i + 1] \in {<<"serve", c>>, <<"finish", c>>}
    BY <1>1, <1>4, <1>6, <2>1
  <2>3. mwork[i + 1] = <<"serve", c>>
    BY <1>5, <2>2
  <2>4. i + 1 < 1
    BY <1>4, <2>2, <2>3 DEF WorkOrdered
  <2> QED
    BY <2>4
<1>7. ASSUME mwork[1][1] = "serve", NEW i \in 1..(n - 1), mwork[i + 1][1] = "serve"
      PROVE  mwork[i + 1][2] # c
  BY <1>1, <1>4, <1>5, <1>7
<1>8. ASSUME NEW i \in 1..(n - 1)
      PROVE  /\ mwork'[i][2] \in conns'
             /\ mwork'[i][1] = "serve" => cpc'[mwork'[i][2]] = "extracted"
             /\ mwork'[i][1] = "finish" => mwork'[i][2] \in finishing'
  <2>1. /\ mwork[i + 1][2] \in conns
        /\ mwork[i + 1][1] = "serve" => cpc[mwork[i + 1][2]] = "extracted"
        /\ mwork[i + 1][1] = "finish" => mwork[i + 1][2] \in finishing
    BY <1>4 DEF WorkOrdered
  <2>2. c \in Clients /\ mwork[i + 1][2] \in Clients
    BY <1>1, <1>4
  <2>3. CASE Head(mwork)[1] = "serve"
    BY <1>2, <1>3, <1>7, <2>1, <2>2, <2>3 DEF WorkerPop, Go, TypeOK
  <2>4. CASE Head(mwork)[1] = "finish"
    BY <1>2, <1>3, <1>6, <2>1, <2>4 DEF WorkerPop
  <2> QED
    BY <2>3, <2>4 DEF WorkerPop
<1>9. ASSUME NEW i \in 1..(n - 1), NEW j \in 1..(n - 1)
      PROVE  /\ j # i => mwork'[j] # mwork'[i]
             /\ mwork'[i][1] = "serve" /\ mwork'[j] = <<"finish", mwork'[i][2]>> => i < j
  <2>1. i + 1 \in 1..n /\ j + 1 \in 1..n /\ (j # i => j + 1 # i + 1) /\ (i + 1 < j + 1 => i < j)
    BY <1>1
  <2> QED
    BY <1>3, <2>1 DEF WorkOrdered
<1> QED
  BY <1>3, <1>8, <1>9 DEF WorkOrdered

\* WorkOrdered is kept by every step.
LEMMA OrderStep == ASSUME TypeOK, WorkOrdered, ConnsOpen, [Next]_vars PROVE WorkOrdered'
<1>1. CASE UNCHANGED vars
  BY <1>1, OrderKept DEF vars, conmgrVars
<1>2. CASE AcceptBegin
  BY <1>2, OrderKept DEF AcceptBegin
<1>3. CASE AcceptEnd
  <2>1. mwork' = mwork /\ finishing' = finishing /\ conns \subseteq conns'
    BY <1>3 DEF AcceptEnd
  <2>2. \A c \in Clients : cpc[c] = "extracted" => cpc'[c] = "extracted"
    BY <1>3 DEF AcceptEnd, Go, TypeOK
  <2> QED
    BY <2>1, <2>2, OrderKept
<1>4. CASE WorkerPop
  BY <1>4, OrderPop
<1>5. ASSUME NEW c \in Clients, Extract(c) PROVE WorkOrdered'
  <2>1. c \in conns /\ c \notin finishing /\ cpc[c] = "open" /\ cpc'[c] = "extracted"
    BY <1>5 DEF Extract, ConnsOpen, Go, TypeOK
  <2>2. \A d \in Clients : cpc[d] = "extracted" => cpc'[d] = "extracted"
    BY <1>5 DEF Extract, Go, TypeOK
  <2>3. mwork' = Append(mwork, <<"serve", c>>) /\ conns' = conns /\ finishing' = finishing
    BY <1>5 DEF Extract, AddWork
  <2> QED
    BY <2>1, <2>2, <2>3, OrderAppend
<1>6. ASSUME NEW c \in Clients, Hangup(c) PROVE WorkOrdered'
  BY <1>6, OrderKept DEF Hangup, Go, TypeOK, conmgrVars
<1>7. ASSUME NEW c \in Clients, QueueFinish(c) PROVE WorkOrdered'
  <2>1. c \in conns /\ c \in finishing' \ finishing /\ finishing \subseteq finishing' /\ conns' = conns
    BY <1>7 DEF QueueFinish
  <2>2. mwork' = Append(mwork, <<"finish", c>>) /\ cpc' = cpc
    BY <1>7 DEF QueueFinish, AddWork
  <2> QED
    BY <2>1, <2>2, OrderAppend
<1>8. ASSUME NEW c \in Clients, ServiceNext(c) PROVE WorkOrdered'
  BY <1>8, ServiceKeepsConns, OrderKept DEF CallStates
<1>9. CASE WorkerNext \/ SpuriousWake \/ ListenersQuiesce \/ MainNext \/ Resume
  BY <1>9, OthersKeepConns, OrderKept
<1> QED
  BY <1>1, <1>2, <1>3, <1>4, <1>5, <1>6, <1>7, <1>8, <1>9 DEF Next

-----------------------------------------------------------------------------
\* Nothing starts again between the quiesced state and the next listening.
LEMMA QuietStep ==
    ASSUME TypeOK, WorkOrdered, ConnsOpen, QuietWhenDown, [Next]_vars
    PROVE  QuietWhenDown'
<1> USE DEF QuietWhenDown, Down
<1>0. \A c \in Clients : cpc[c] \in CallStates => c \in Serving
  BY DEF Serving
<1>1. CASE UNCHANGED vars
  BY <1>1 DEF vars, conmgrVars, queueVars, Serving
<1>2. CASE AcceptBegin
  BY <1>2 DEF AcceptBegin, queueVars, Serving
<1>3. CASE AcceptEnd
  BY <1>3 DEF AcceptEnd, queueVars
<1>4. CASE WorkerPop
  <2>1. conns # {}
    BY <1>4 DEF WorkerPop, WorkOrdered, TypeOK
  <2> QED
    BY <1>4, <2>1 DEF WorkerPop, queueVars
<1>5. ASSUME NEW c \in Clients, Extract(c) PROVE QuietWhenDown'
  BY <1>5 DEF Extract, ConnsOpen, queueVars
<1>6. ASSUME NEW c \in Clients, Hangup(c) PROVE QuietWhenDown'
  BY <1>6 DEF Hangup, ConnsOpen, queueVars, conmgrVars
<1>7. ASSUME NEW c \in Clients, QueueFinish(c) PROVE QuietWhenDown'
  BY <1>7 DEF QueueFinish, queueVars
<1>8. ASSUME NEW c \in Clients, ServiceNext(c) PROVE QuietWhenDown'
  BY <1>0, <1>8, ServiceKeepsConns
<1>9. CASE WorkerNext \/ SpuriousWake
  <2>1. UNCHANGED <<listening, conns, accepting, cpc, mpc, enabled, freed>>
    BY <1>9 DEF WorkerNext, WorkerLock, WorkerTake, WorkerCount, WorkerRun, WorkerYield,
                WorkerCheck, SpuriousWake, conmgrVars
  <2> QED
    BY <2>1 DEF Serving
<1>10. CASE ListenersQuiesce \/ FlushRpcs \/ Resume
  BY <1>10 DEF ListenersQuiesce, FlushRpcs, Resume, conmgrVars, queueVars, Serving
<1>11. CASE ConmgrQuiesce \/ ConmgrUnquiesce
  BY <1>11 DEF ConmgrQuiesce, ConmgrUnquiesce, QuiesceReached, queueVars, Serving
<1>12. CASE QueueDisable \/ QueueMark \/ QueueJoin
  BY <1>12 DEF QueueDisable, QueueMark, QueueJoin, conmgrVars, Serving
<1> QED
  BY <1>1, <1>2, <1>3, <1>4, <1>5, <1>6, <1>7, <1>8, <1>9, <1>10, <1>11, <1>12 DEF Next, MainNext

\* rpc_enqueue keeps away from the freed list.
LEMMA AliveStep == ASSUME TypeOK, QuietWhenDown, QueueAlive, [Next]_vars PROVE QueueAlive'
<1> USE DEF QueueAlive
<1>1. CASE UNCHANGED vars
  BY <1>1 DEF vars, queueVars
<1>2. CASE AcceptBegin \/ AcceptEnd
  BY <1>2 DEF AcceptBegin, AcceptEnd, queueVars, Go, TypeOK
<1>3. CASE WorkerPop
  BY <1>3 DEF WorkerPop, queueVars, Go, TypeOK
<1>4. ASSUME NEW c \in Clients, Extract(c) \/ Hangup(c) \/ QueueFinish(c) PROVE QueueAlive'
  BY <1>4 DEF Extract, Hangup, QueueFinish, queueVars, Go, TypeOK
<1>5. ASSUME NEW c \in Clients, ServiceNext(c) PROVE QueueAlive'
  <2>1. CASE CheckEnabled(c)
    BY <2>1 DEF CheckEnabled, QuietWhenDown, queueVars, Go, TypeOK
  <2>2. CASE Reserve(c) \/ ListEnqueue(c) \/ SignalWorker(c)
    BY <2>2 DEF Reserve, ListEnqueue, SignalWorker, Go, TypeOK
  <2>3. CASE ServerThreadIncr(c) \/ Reply(c) \/ ServerThreadDecr(c)
    BY <2>3 DEF ServerThreadIncr, Reply, ServerThreadDecr, queueVars, Go, TypeOK
  <2> QED
    BY <1>5, <2>1, <2>2, <2>3 DEF ServiceNext
<1>6. CASE WorkerNext \/ SpuriousWake
  BY <1>6 DEF WorkerNext, WorkerLock, WorkerTake, WorkerCount, WorkerRun, WorkerYield,
              WorkerCheck, SpuriousWake
<1>7. CASE QueueJoin
  BY <1>7 DEF QueueJoin, QuietWhenDown, Down, Serving, CallStates
<1>8. CASE \/ ListenersQuiesce \/ FlushRpcs \/ ConmgrQuiesce \/ ConmgrUnquiesce
           \/ QueueDisable \/ QueueMark \/ Resume
  BY <1>8 DEF ListenersQuiesce, FlushRpcs, ConmgrQuiesce, ConmgrUnquiesce, QueueDisable, QueueMark,
              Resume, queueVars
<1> QED
  BY <1>1, <1>2, <1>3, <1>4, <1>5, <1>6, <1>7, <1>8 DEF Next, MainNext

\* The worker's second look at the list, under the mutex, closes the race.
LEMMA WakeupStep == ASSUME TypeOK, WorkOrdered, NoLostWakeup, [Next]_vars PROVE NoLostWakeup'
<1> USE DEF NoLostWakeup
<1>1. CASE UNCHANGED vars
  BY <1>1 DEF vars, queueVars
<1>2. CASE AcceptBegin
  BY <1>2 DEF AcceptBegin, queueVars
<1>3. CASE AcceptEnd
  <2>1. \A c \in Clients : cpc[c] = "signal" => cpc'[c] = "signal"
    BY <1>3 DEF AcceptEnd, Go, TypeOK
  <2> QED
    BY <1>3, <2>1 DEF AcceptEnd, queueVars
<1>4. CASE WorkerPop
  <2>1. 1 \in 1..Len(mwork) /\ Head(mwork) = mwork[1] /\ mwork[1] \in {"serve", "finish"} \X Clients
    BY <1>4 DEF WorkerPop, TypeOK
  <2>2. Head(mwork)[1] = "serve" => cpc[Head(mwork)[2]] = "extracted"
    BY <2>1 DEF WorkOrdered
  <2>3. \A d \in Clients : cpc[d] = "signal" => cpc'[d] = "signal"
    BY <1>4, <2>2 DEF WorkerPop, Go, TypeOK
  <2> QED
    BY <1>4, <2>3 DEF WorkerPop, queueVars
<1>5. ASSUME NEW c \in Clients, Extract(c) \/ Hangup(c) \/ QueueFinish(c) PROVE NoLostWakeup'
  <2>1. \A d \in Clients : cpc[d] = "signal" => cpc'[d] = "signal"
    BY <1>5 DEF Extract, Hangup, QueueFinish, Go, TypeOK
  <2>2. UNCHANGED <<wpc, work>>
    BY <1>5 DEF Extract, Hangup, QueueFinish, queueVars
  <2> QED
    BY <2>1, <2>2
<1>6. ASSUME NEW c \in Clients, ServiceNext(c) PROVE NoLostWakeup'
  <2>1. CASE SignalWorker(c)
    BY <2>1 DEF SignalWorker, Awake, TypeOK
  <2>2. CASE ListEnqueue(c)
    BY <2>2 DEF ListEnqueue, Go, TypeOK
  <2>3. CASE CheckEnabled(c) \/ Reserve(c) \/ ServerThreadIncr(c) \/ Reply(c) \/ ServerThreadDecr(c)
    <3>1. \A d \in Clients : cpc[d] = "signal" => cpc'[d] = "signal"
      BY <2>3 DEF CheckEnabled, Reserve, ServerThreadIncr, Reply, ServerThreadDecr, Go, TypeOK
    <3>2. UNCHANGED <<wpc, work>>
      BY <2>3 DEF CheckEnabled, Reserve, ServerThreadIncr, Reply, ServerThreadDecr, queueVars
    <3> QED
      BY <3>1, <3>2
  <2> QED
    BY <1>6, <2>1, <2>2, <2>3 DEF ServiceNext
<1>7. CASE WorkerNext \/ SpuriousWake
  BY <1>7 DEF WorkerNext, WorkerLock, WorkerTake, WorkerCount, WorkerRun, WorkerYield,
              WorkerCheck, NothingToDo, SpuriousWake
<1>8. CASE QueueMark \/ QueueJoin
  BY <1>8 DEF QueueMark, QueueJoin, AwakeForShutdown, Awake
<1>9. CASE \/ ListenersQuiesce \/ FlushRpcs \/ ConmgrQuiesce \/ ConmgrUnquiesce
           \/ QueueDisable \/ Resume
  BY <1>9 DEF ListenersQuiesce, FlushRpcs, ConmgrQuiesce, ConmgrUnquiesce, QueueDisable, Resume, queueVars
<1> QED
  BY <1>1, <1>2, <1>3, <1>4, <1>5, <1>6, <1>7, <1>8, <1>9 DEF Next, MainNext

-----------------------------------------------------------------------------
\* The inductive invariant holds in every reachable state.
THEOREM Invariant == Spec => []IInv
<1>1. IInv /\ [Next]_vars => IInv'
  BY TypeStep, ConnsStep, OrderStep, QuietStep, AliveStep, WakeupStep DEF IInv
<1> QED
  BY InitIInv, <1>1, PTL DEF Spec

\* All variables of the queue, of conmgr and of the shutdown keep their types.
THEOREM TypeCorrect == Spec => []TypeOK
<1>1. IInv => TypeOK
  BY DEF IInv
<1> QED
  BY <1>1, Invariant, PTL

\* The worker of a request queue never sleeps on a request, whatever the
\* number of threads that enqueue.
THEOREM NoWakeupIsLost == Spec => []NoLostWakeup
<1>1. IInv => NoLostWakeup
  BY DEF IInv
<1> QED
  BY <1>1, Invariant, PTL

\* rpc_enqueue never touches the list that rpc_queue_shutdown has freed.
THEOREM FreedListUnused == Spec => []QueueAlive
<1>1. IInv => QueueAlive
  BY DEF IInv
<1> QED
  BY <1>1, Invariant, PTL

\* A quiesced conmgr has no callback left in mgr.work.
THEOREM QuiesceLeavesNothing == Spec => []NothingHidden
<1>1. IInv => NothingHidden
  <2> SUFFICES ASSUME IInv, mpc = "report", mwork # <<>> PROVE FALSE
    BY DEF NothingHidden
  <2>1. conns = {}
    BY DEF IInv, QuietWhenDown, Down
  <2>2. 1 \in 1..Len(mwork)
    BY DEF IInv, TypeOK
  <2> QED
    BY <2>1, <2>2 DEF IInv, WorkOrdered
<1> QED
  BY <1>1, Invariant, PTL

-----------------------------------------------------------------------------
\* A step that leaves the list, the count and the requests on their way into
\* the list alone keeps the limit.
LEMMA LimitKept ==
    ASSUME QueueLimit, Appending' = Appending, UNCHANGED <<work, queued, freed>>,
           wpc' = "count" <=> wpc = "count"
    PROVE  QueueLimit'
BY DEF QueueLimit

\* Reserve counts a request before it is in the list, WorkerCount after it has
\* left it; in between it is on its way, and counted.
LEMMA LimitStep == ASSUME TypeOK, WorkOrdered, QueueLimit, [Next]_vars PROVE QueueLimit'
<1>0. IsFiniteSet(Appending)
  BY RpcQueueAssumption, FS_Subset DEF Appending
<1>1. CASE UNCHANGED vars
  BY <1>1, LimitKept DEF vars, queueVars, Appending
<1>2. CASE AcceptBegin \/ AcceptEnd
  <2>1. Appending' = Appending
    BY <1>2 DEF AcceptBegin, AcceptEnd, Go, TypeOK, Appending
  <2> QED
    BY <1>2, <2>1, LimitKept DEF AcceptBegin, AcceptEnd, queueVars
<1>3. CASE WorkerPop
  <2>1. 1 \in 1..Len(mwork) /\ Head(mwork) = mwork[1] /\ mwork[1] \in {"serve", "finish"} \X Clients
    BY <1>3 DEF WorkerPop, TypeOK
  <2>2. Head(mwork)[1] = "serve" => cpc[Head(mwork)[2]] = "extracted"
    BY <2>1 DEF WorkOrdered
  <2>3. Appending' = Appending
    BY <1>3, <2>2 DEF WorkerPop, Go, TypeOK, Appending
  <2> QED
    BY <1>3, <2>3, LimitKept DEF WorkerPop, queueVars
<1>4. ASSUME NEW c \in Clients, Extract(c) \/ Hangup(c) \/ QueueFinish(c) PROVE QueueLimit'
  <2>1. Appending' = Appending
    BY <1>4 DEF Extract, Hangup, QueueFinish, Go, TypeOK, Appending
  <2> QED
    BY <1>4, <2>1, LimitKept DEF Extract, Hangup, QueueFinish, queueVars
<1>5. ASSUME NEW c \in Clients, CheckEnabled(c) PROVE QueueLimit'
  <2>1. MaxQueued # 0 => Appending' = Appending
    BY <1>5 DEF CheckEnabled, Go, TypeOK, Appending
  <2> QED
    BY <1>5, <2>1 DEF CheckEnabled, queueVars, QueueLimit
<1>6. ASSUME NEW c \in Clients, Reserve(c) PROVE QueueLimit'
  <2>1. CASE QueueFull
    <3>1. Appending' = Appending
      BY <1>6, <2>1 DEF Reserve, Go, TypeOK, Appending
    <3> QED
      BY <1>6, <2>1, <3>1, LimitKept DEF Reserve
  <2>2. CASE ~QueueFull
    <3>1. Appending' = Appending \cup {c} /\ c \notin Appending
      BY <1>6, <2>2 DEF Reserve, Go, TypeOK, Appending
    <3>2. Cardinality(Appending') = Cardinality(Appending) + 1
      BY <1>0, <3>1, FS_AddElement
    <3>3. Cardinality(Appending) \in Nat /\ Len(work) \in Nat
      BY <1>0, FS_CardinalityType DEF TypeOK
    <3> HIDE DEF Appending
    <3> QED
      BY <1>6, <2>2, <3>2, <3>3, RpcQueueAssumption DEF Reserve, QueueFull, QueueLimit, TypeOK
  <2> QED
    BY <2>1, <2>2
<1>7. ASSUME NEW c \in Clients, ListEnqueue(c) PROVE QueueLimit'
  <2>1. Appending' = Appending \ {c} /\ c \in Appending
    BY <1>7 DEF ListEnqueue, Go, TypeOK, Appending
  <2>2. Cardinality(Appending') = Cardinality(Appending) - 1
    BY <1>0, <2>1, FS_RemoveElement
  <2>3. Cardinality(Appending) \in Nat /\ Len(work) \in Nat /\ Len(work') = Len(work) + 1
    BY <1>0, <1>7, FS_CardinalityType DEF TypeOK, ListEnqueue
  <2> QED
    BY <1>7, <2>2, <2>3 DEF ListEnqueue, QueueLimit, TypeOK
<1>8. ASSUME NEW c \in Clients, SignalWorker(c) PROVE QueueLimit'
  <2>1. Appending' = Appending
    BY <1>8 DEF SignalWorker, Go, TypeOK, Appending
  <2> QED
    BY <1>8, <2>1, LimitKept DEF SignalWorker, Awake
<1>9. ASSUME NEW c \in Clients, ServerThreadIncr(c) \/ Reply(c) \/ ServerThreadDecr(c)
      PROVE  QueueLimit'
  <2>1. Appending' = Appending
    BY <1>9 DEF ServerThreadIncr, Reply, ServerThreadDecr, Go, TypeOK, Appending
  <2> QED
    BY <1>9, <2>1, LimitKept DEF ServerThreadIncr, Reply, ServerThreadDecr, queueVars
<1>10. CASE WorkerTake
  <2>1. Appending' = Appending /\ Len(work') = Len(work) - 1 /\ Len(work) \in Nat
    BY <1>10 DEF WorkerTake, Appending, TypeOK
  <2>2. Cardinality(Appending) \in Nat
    BY <1>0, FS_CardinalityType
  <2> QED
    BY <1>10, <2>1, <2>2 DEF WorkerTake, QueueLimit, TypeOK
<1>11. CASE WorkerCount
  <2>1. Appending' = Appending /\ Len(work) \in Nat
    BY <1>11 DEF WorkerCount, Appending, TypeOK
  <2>2. Cardinality(Appending) \in Nat
    BY <1>0, FS_CardinalityType
  <2> QED
    BY <1>11, <2>1, <2>2, RpcQueueAssumption DEF WorkerCount, QueueLimit, TypeOK
<1>12. CASE WorkerLock \/ WorkerRun \/ WorkerYield \/ WorkerCheck \/ SpuriousWake
  BY <1>12, LimitKept DEF WorkerLock, WorkerRun, WorkerYield, WorkerCheck, SpuriousWake, Appending
<1>13. CASE QueueJoin
  BY <1>13 DEF QueueJoin, QueueLimit
<1>14. CASE \/ ListenersQuiesce \/ FlushRpcs \/ ConmgrQuiesce \/ ConmgrUnquiesce
            \/ QueueDisable \/ QueueMark \/ Resume
  BY <1>14, LimitKept DEF ListenersQuiesce, FlushRpcs, ConmgrQuiesce, ConmgrUnquiesce, QueueDisable,
                QueueMark, AwakeForShutdown, Awake, Resume, queueVars, Appending
<1> QED
  BY <1>1, <1>2, <1>3, <1>4, <1>5, <1>6, <1>7, <1>8, <1>9, <1>10, <1>11, <1>12, <1>13, <1>14
  DEF Next, ServiceNext, WorkerNext, MainNext

\* q->queued is exact and keeps q->max_queued, for every limit and any number
\* of threads in rpc_enqueue.
THEOREM LimitIsKept == Spec => []QueueLimit
<1>1. Init => QueueLimit
  <2> SUFFICES ASSUME Init PROVE QueueLimit
    OBVIOUS
  <2>1. Appending = {}
    BY DEF Init, Appending
  <2>2. Cardinality(Appending) = 0
    BY <2>1, FS_EmptySet
  <2> QED
    BY <2>2, RpcQueueAssumption DEF Init, QueueLimit
<1>2. IInv /\ QueueLimit /\ [Next]_vars => QueueLimit'
  BY LimitStep DEF IInv
<1> QED
  BY <1>1, <1>2, Invariant, PTL DEF Spec
=============================================================================
