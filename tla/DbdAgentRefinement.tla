-------------------------- MODULE DbdAgentRefinement --------------------------
(***************************************************************************)
(* The accounting agent implements the queue of AcctQueue.                 *)
(***************************************************************************)
EXTENDS DbdAgent

Numbers(q) == [i \in DOMAIN q |-> q[i].id]

\* The queue is agent_list; while there is none, it is the file that _create_agent
\* will load.
Acct == INSTANCE AcctQueue WITH
            Capacity <- MaxDbdMsgs,
            queue <- Numbers(IF listed THEN agent_list ELSE file),
            saved <- Numbers(file),
            next <- nextId

\* With max_dbd_msg_action=exit the agent with its batches, answers, reconnections,
\* halts, late senders and restarts (slurmdbd_agent.c) is a queue that delivers in
\* order and at least once: every step of it is a step of AcctQueue or changes
\* nothing there.
ImplementsAcctQueue == Acct!Spec
=============================================================================
