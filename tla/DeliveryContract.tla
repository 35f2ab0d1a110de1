-------------------------- MODULE DeliveryContract --------------------------
(* What the webhook queue promises about a delivery, whoever looks for it,   *)
(* redelivers it or claims it.  While nothing goes wrong,                    *)
(*   - it is recorded once;                                                  *)
(*   - only one invocation holds it at a time, and only that one records the *)
(*     outcome;                                                              *)
(*   - a failure is counted, and the last one allowed gives it up;           *)
(*   - an outcome is final.                                                  *)
(* After a crash, an error of the database or a claim that outlived its time *)
(* this much is left: what was recorded stays recorded, what was done stays  *)
(* done, and nothing is called processed that was not.                       *)
EXTENDS Naturals

CONSTANTS Events, Invocations, MaxRetries

VARIABLES
  status,  \* of each delivery
  tries,   \* its failures
  held,    \* the invocations that hold it
  done,    \* deliveries that a handler has worked on to the end
  calm     \* nothing has gone wrong yet

queue == <<status, tries, held, done, calm>>

QueueInit ==
  /\ status = [e \in Events |-> "absent"]
  /\ tries = [e \in Events |-> 0]
  /\ held = [e \in Events |-> {}]
  /\ done = {}
  /\ calm = TRUE

Record(e) ==
  /\ status[e] = "absent"
  /\ status' = [status EXCEPT ![e] = "pending"]
  /\ UNCHANGED <<tries, held, done>>

Hold(e, i) ==
  /\ status[e] \in {"pending", "failed"}
  /\ tries[e] < MaxRetries
  /\ held[e] = {}
  /\ status' = [status EXCEPT ![e] = "processing"]
  /\ held' = [held EXCEPT ![e] = {i}]
  /\ UNCHANGED <<tries, done>>

(* A handler commits before the outcome is recorded, or together with it.    *)
Work(e, i) ==
  /\ held[e] = {i}
  /\ status[e] = "processing"
  /\ done' = done \cup {e}
  /\ UNCHANGED <<status, tries, held>>

Finish(e, i, outcome) ==
  /\ held[e] = {i}
  /\ status[e] = "processing"
  /\ status' = [status EXCEPT ![e] = outcome]
  /\ held' = [held EXCEPT ![e] = {}]
  /\ done' = IF outcome = "processed" THEN done \cup {e} ELSE done
  /\ UNCHANGED tries

GiveBack(e, i) ==
  /\ held[e] = {i}
  /\ status[e] = "processing"
  /\ tries' = [tries EXCEPT ![e] = @ + 1]
  /\ status' = [status EXCEPT ![e] = IF tries[e] + 1 >= MaxRetries THEN "abandoned" ELSE "failed"]
  /\ held' = [held EXCEPT ![e] = {}]
  /\ UNCHANGED done

Promised(e) ==
  \/ Record(e)
  \/ \E i \in Invocations :
       \/ Hold(e, i) \/ Work(e, i) \/ GiveBack(e, i)
       \/ \E outcome \in {"processed", "ignored"} : Finish(e, i, outcome)

(* Something goes wrong, or went wrong before. *)
Astray ==
  /\ ~calm'
  /\ \A e \in Events : status[e] # "absent" => status'[e] # "absent"
  /\ done \subseteq done'
  /\ \A e \in Events : status'[e] = "processed" => e \in done'

QueueNext ==
  \/ calm /\ UNCHANGED calm /\ \E e \in Events : Promised(e)
  \/ Astray

QueueSpec == QueueInit /\ [][QueueNext]_queue
=============================================================================
