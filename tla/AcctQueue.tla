------------------------------ MODULE AcctQueue ------------------------------
(***************************************************************************)
(* What slurmctld may expect of its accounting agent: a queue of bounded   *)
(* length whose messages reach slurmdbd in the order they were given in,   *)
(* each at least once, and leave the queue no earlier.  When the agent     *)
(* stops, the queue is saved, and the saved copy is the queue of the next  *)
(* start.  A crash goes back to the copy that was saved last, so messages  *)
(* since then are lost and messages of the copy are sent again.  A start   *)
(* that finds a queue already puts the copy behind it.  There are no       *)
(* threads, locks, connections, batches or answers here.                   *)
(***************************************************************************)
EXTENDS Naturals, Sequences

CONSTANT Capacity       \* of the queue

VARIABLES
    queue,      \* what is still to be sent, oldest first
    saved,      \* the copy on disk
    next,       \* number of the next message
    delivered,  \* what slurmdbd has recorded
    lost        \* what will not be recorded any more, or not on account of the queue

vars == <<queue, saved, next, delivered, lost>>

First(k) == SubSeq(queue, 1, k)
From(k)  == SubSeq(queue, k, Len(queue))
Members(s) == {s[i] : i \in DOMAIN s}

Init == queue = <<>> /\ saved = <<>> /\ next = 1 /\ delivered = {} /\ lost = {}

\* A message is taken.
Accept ==
    /\ Len(queue) < Capacity
    /\ queue' = Append(queue, next) /\ next' = next + 1
    /\ UNCHANGED <<saved, delivered, lost>>

\* slurmdbd records messages from the head of the queue, which may have been
\* recorded before.
Deliver ==
    /\ \E k \in 1..Len(queue) : delivered' = delivered \cup Members(First(k))
    /\ UNCHANGED <<queue, saved, next, lost>>

\* Messages leave the queue once they have been recorded.
Remove ==
    /\ \E k \in 1..Len(queue) : Members(First(k)) \subseteq delivered /\ queue' = From(k + 1)
    /\ UNCHANGED <<saved, next, delivered, lost>>

\* The agent stops: the queue is saved, up to the first message that cannot be.
\* A message that came when the queue was full goes with it.
Stop(refused) ==
    /\ refused # {} => Len(queue) >= Capacity
    /\ \E k \in 0..Len(queue) :
          /\ saved' = First(k) /\ queue' = First(k)
          /\ lost' = lost \cup Members(From(k + 1)) \cup refused
    /\ next' = IF refused = {} THEN next ELSE next + 1
    /\ UNCHANGED delivered

\* The process ends without saving, and with a message it was about to take.
Crash(refused) ==
    /\ queue' = saved
    /\ lost' = lost \cup (Members(queue) \ Members(saved)) \cup refused
    /\ next' = IF refused = {} THEN next ELSE next + 1
    /\ UNCHANGED <<saved, delivered>>

\* The saved copy is loaded once more, behind the queue.
Reload ==
    /\ queue' = queue \o saved
    /\ UNCHANGED <<saved, next, delivered, lost>>

Next ==
    \/ Accept \/ Deliver \/ Remove \/ Reload
    \/ \E refused \in {{}, {next}} : Stop(refused) \/ Crash(refused)

Spec == Init /\ [][Next]_vars
=============================================================================
