-------------------------- MODULE SessionContract --------------------------
(* What the API promises about the status of a container session, whatever   *)
(* its requests, finalizers and maintenance jobs do concurrently, and across *)
(* crashes:                                                                  *)
(*   - a session is created once and starts running at most once;            *)
(*   - it is reported a success only after its container exited with zero,   *)
(*     and a container exits once;                                           *)
(*   - a deleted session is gone for good.                                   *)
(* It does not promise that an end is final: a later writer may replace one  *)
(* ending by another, and a late start may follow an end.                    *)
CONSTANT Sessions

VARIABLES
  status,   \* "absent", or the status the API reports
  started,  \* sessions that have been RUNNING
  born,     \* sessions that have been created
  exit      \* how the container ended: "none", "ok" or "bad"

contract == <<status, started, born, exit>>

Endings == {"completed", "failed", "timeout", "cancelled"}

ContractInit ==
  /\ status = [s \in Sessions |-> "absent"]
  /\ exit = [s \in Sessions |-> "none"]
  /\ started = {}
  /\ born = {}

Create(s) ==
  /\ s \notin born
  /\ born' = born \cup {s}
  /\ status' = [status EXCEPT ![s] = "pending"]
  /\ UNCHANGED <<started, exit>>

Start(s) ==
  /\ status[s] # "absent"
  /\ s \notin started
  /\ started' = started \cup {s}
  /\ status' = [status EXCEPT ![s] = "running"]
  /\ UNCHANGED <<born, exit>>

Exit(s) ==
  /\ exit[s] = "none"
  /\ \E k \in {"ok", "bad"} : exit' = [exit EXCEPT ![s] = k]
  /\ UNCHANGED <<status, started, born>>

(* One finalizer or stop ends one session, a maintenance job several. *)
End(S, verdict) ==
  /\ \A s \in S : status[s] # "absent"
  /\ verdict = "completed" => \A s \in S : exit[s] = "ok"
  /\ status' = [s \in Sessions |-> IF s \in S THEN verdict ELSE status[s]]
  /\ UNCHANGED <<started, born, exit>>

Drop(s) ==
  /\ status' = [status EXCEPT ![s] = "absent"]
  /\ started' = started \ {s}
  /\ s \in born
  /\ UNCHANGED <<born, exit>>

ContractNext ==
  \/ \E s \in Sessions : Create(s) \/ Start(s) \/ Exit(s) \/ Drop(s)
  \/ \E S \in SUBSET Sessions, verdict \in Endings : End(S, verdict)

ContractSpec == ContractInit /\ [][ContractNext]_contract
=============================================================================
