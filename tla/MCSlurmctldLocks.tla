-------------------------- MODULE MCSlurmctldLocks --------------------------
(* Lock sets that rpc_queue workers really use (slurmctld_rpcs in           *)
(* proc_req.c), and the save of the job state.                              *)
EXTENDS SlurmctldLocks

\* conf, job, node, part, fed
Locks(c, j, n, p, f) == <<c, j, n, p, f>>

MCLockSets ==
    { Locks(1, 1, 0, 1, 1),    \* REQUEST_JOB_INFO
      Locks(1, 0, 2, 1, 0),    \* REQUEST_NODE_INFO
      Locks(1, 2, 2, 2, 1) }   \* MESSAGE_NODE_REGISTRATION_STATUS
=============================================================================
