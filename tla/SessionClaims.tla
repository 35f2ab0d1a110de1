---------------------------- MODULE SessionClaims ----------------------------
(* What a comment of the repository says of a stopped session, stated over   *)
(* SessionLifecycle.  TLC refutes it with a run of the code.                 *)
EXTENDS SessionLifecycle

(* service.py: a user's abort is not COMPLETED, "reporting an abort as a     *)
(* success would corrupt every completion statistic".  Yet docker stop makes *)
(* the runner exit 0, and the finalizer that was waiting for it may write    *)
(* COMPLETED over the committed CANCELLED it read as RUNNING.                *)
AbortIsNoSuccess ==
  \A r \in Stops : st[r].pc = "stopped" => row[st[r].sid].status # "completed"

=============================================================================
