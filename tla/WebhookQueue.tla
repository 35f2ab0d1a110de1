---------------------------- MODULE WebhookQueue ----------------------------
(* The queue behind the GitHub webhook: rows of webhook_events, written by   *)
(* the receiver, and the invocations of process_webhook_event that claim a   *)
(* row, run its handler and record how that went.                            *)
(*                                                                           *)
(* An invocation comes from the request that recorded the delivery, from the *)
(* replay at a worker's boot, or from the reaper's tick; several of them, in *)
(* several workers, may be about the same row.  The claim is one conditional *)
(* UPDATE.  Everything else -- the row an invocation loads, the failure it   *)
(* records -- is read in one statement and written in a later one, and an    *)
(* ORM write sets only the columns that differ from what was read.           *)
(*                                                                           *)
(* A graceful shutdown waits for the invocations of its process, so it is no *)
(* step of its own.                                                          *)
EXTENDS Naturals, FiniteSets

CONSTANTS
  Events,        \* deliveries, named by X-GitHub-Delivery
  PullRequests,  \* those whose handler creates a session
  Unhandled,     \* those for which no handler is registered
  Tasks,         \* slots for invocations: how many there are at a time
  Workers,       \* API processes
  Slots,         \* replays a worker runs at a time
  MaxRetries,    \* recorded failures after which an event is abandoned
  MaxFaults,     \* how many crashes, database errors and overruns may happen
  None           \* no event, no worker

ASSUME KindsAssumption == /\ PullRequests \subseteq Events
                          /\ Unhandled \subseteq Events
                          /\ PullRequests \cap Unhandled = {}
ASSUME NobodyAssumption == None \notin Events \cup Workers
ASSUME BoundsAssumption == /\ MaxRetries \in Nat \ {0}
                           /\ MaxFaults \in Nat
                           /\ Slots \in Nat \ {0}

VARIABLES
  ev,     \* the committed row of each delivery
  age,    \* how long ago the row was updated
  task,   \* the invocations
  made,   \* how many sessions the handler has committed for the delivery
  ran,    \* deliveries a handler has run for, to its end and committed
  fails,  \* how many failures have been recorded for the delivery
  faults  \* faults left

vars == <<ev, age, task, made, ran, fails, faults>>

-----------------------------------------------------------------------------
(* Types *)

Settled  == {"processed", "ignored", "abandoned"}
Status   == Settled \cup {"absent", "pending", "processing", "failed"}
Row      == [status : Status, tries : Nat]

(* Only three ages are told apart: within the grace period of 30 s, past it, *)
(* and past the 60 s after which a claim counts as stale.                    *)
Fresh == 0
Idle  == 1
Stale == 2

TaskPC == {"free", "queued", "load", "claim", "dispatch", "handled", "ignored",
           "failing", "fail"}
Task == [pc    : TaskPC,
         of    : Events \cup {None},
         at    : Workers \cup {None},
         slot  : BOOLEAN,          \* holds a replay slot of its worker
         mine  : BOOLEAN,          \* has claimed the row
         saw   : Status,           \* the status of the row object it holds
         tries : Nat]              \* the retry_count mark_failed has read

Free == [pc |-> "free", of |-> None, at |-> None, slot |-> FALSE, mine |-> FALSE,
         saw |-> "absent", tries |-> 0]

TypeOK ==
  /\ ev \in [Events -> Row]
  /\ age \in [Events -> {Fresh, Idle, Stale}]
  /\ task \in [Tasks -> Task]
  /\ made \in [Events -> Nat]
  /\ ran \in SUBSET Events
  /\ fails \in [Events -> Nat]
  /\ faults \in 0..MaxFaults

-----------------------------------------------------------------------------
Fault == faults > 0 /\ faults' = faults - 1
NoFault == UNCHANGED faults

(* An ORM write: a column is set when it differs from what the session read, *)
(* and is otherwise left as it has become.  Any write renews updated_at.     *)
Set(e, saw, status) ==
  /\ ev' = [ev EXCEPT ![e].status = IF saw = status THEN @ ELSE status]
  /\ age' = [age EXCEPT ![e] = Fresh]

Release(t) == task' = [task EXCEPT ![t] = Free]
Move(t, pc) == task' = [task EXCEPT ![t].pc = pc]

(* The invocations that have claimed e and not yet recorded an outcome. *)
Holders(e) == {t \in Tasks : task[t].of = e /\ task[t].mine}

Spawn(t, e, w, pc) == task' = [task EXCEPT ![t] = [Free EXCEPT !.pc = pc, !.of = e, !.at = w]]

(* Mutant of Deliver: a redelivery resets the row. *)
DeliverAgain(e, w) ==
  /\ ev' = [ev EXCEPT ![e].status = "pending"]
  /\ age' = [age EXCEPT ![e] = Fresh]
  /\ \E t \in Tasks : task[t].pc = "free" /\ Spawn(t, e, w, "load")
  /\ UNCHANGED <<made, ran, fails, faults>>

(* A delivery arrives.  The unique index makes a redelivery a no-op.  The    *)
(* row is committed before the 200 and before the background task is added,  *)
(* and the request may fail in between.                                      *)
Deliver(e, w) ==
  /\ ev[e].status = "absent"
  /\ ev' = [ev EXCEPT ![e].status = "pending"]
  /\ age' = [age EXCEPT ![e] = Fresh]
  /\ \/ /\ \E t \in Tasks : task[t].pc = "free" /\ Spawn(t, e, w, "load")
        /\ NoFault
     \/ Fault /\ UNCHANGED task
  /\ UNCHANGED <<made, ran, fails>>

(* Mutant of Replayable: a failed event is not looked for. *)
ReplayableUnlessFailed(e) == /\ ev[e].status \in {"pending", "processing"}
                             /\ age[e] # Fresh
                             /\ ev[e].tries < MaxRetries

Replayable(e) == /\ ev[e].status \in {"pending", "processing", "failed"}
                 /\ age[e] # Fresh
                 /\ ev[e].tries < MaxRetries

(* Boot replay and reaper: an invocation for each replayable row, whether or *)
(* not another one is already waiting for it.                                *)
Replay(e, w) ==
  /\ Replayable(e)
  /\ \E t \in Tasks : task[t].pc = "free" /\ Spawn(t, e, w, "queued")
  /\ UNCHANGED <<ev, age, made, ran, fails, faults>>

TakeSlot(t) ==
  /\ task[t].pc = "queued"
  /\ Cardinality({u \in Tasks : task[u].slot /\ task[u].at = task[t].at}) < Slots
  /\ task' = [task EXCEPT ![t].pc = "load", ![t].slot = TRUE]
  /\ UNCHANGED <<ev, age, made, ran, fails, faults>>

(* session.get: the row object every later write of this session goes through. *)
Load(t) ==
  /\ task[t].pc = "load"
  /\ \/ /\ task' = [task EXCEPT ![t].pc = "claim", ![t].saw = ev[task[t].of].status]
        /\ NoFault
     \/ Fault /\ Move(t, "failing")
  /\ UNCHANGED <<ev, age, made, ran, fails>>

(* Mutant of Claimable: a claim need not be stale to be taken over. *)
ClaimableAny(e) ==
  /\ ev[e].tries < MaxRetries
  /\ ev[e].status \in {"pending", "failed", "processing"}

Claimable(e) ==
  /\ ev[e].tries < MaxRetries
  /\ \/ ev[e].status \in {"pending", "failed"}
     \/ ev[e].status = "processing" /\ age[e] = Stale

(* Mutant of Claim: the event is marked processed before its handler runs. *)
ClaimSettles(t) ==
  LET e == task[t].of IN
  /\ task[t].pc = "claim"
  /\ Claimable(e)
  /\ ev' = [ev EXCEPT ![e].status = "processed"]
  /\ age' = [age EXCEPT ![e] = Fresh]
  /\ task' = [task EXCEPT ![t].pc = "dispatch", ![t].mine = TRUE]
  /\ UNCHANGED <<made, ran, fails, faults>>

(* mark_processing: a conditional UPDATE, committed at once, that bypasses   *)
(* the row object.  An error here is recorded as a failure of the event, by  *)
(* an invocation that may not hold it.                                       *)
Claim(t) ==
  LET e == task[t].of IN
  /\ task[t].pc = "claim"
  /\ \/ /\ Claimable(e)
        /\ ev' = [ev EXCEPT ![e].status = "processing"]
        /\ age' = [age EXCEPT ![e] = Fresh]
        /\ task' = [task EXCEPT ![t].pc = "dispatch", ![t].mine = TRUE]
        /\ NoFault
     \/ /\ ~Claimable(e)
        /\ Release(t)
        /\ NoFault
        /\ UNCHANGED <<ev, age>>
     \/ /\ Fault
        /\ Move(t, "failing")
        /\ UNCHANGED <<ev, age>>
  /\ UNCHANGED <<made, ran, fails>>

(* dispatch_webhook.  A handler may raise, and may find nothing to do (an    *)
(* unknown installation, a suppressed pull request).  pull_request.opened    *)
(* commits its session before it announces it; the installation handlers     *)
(* only flush, and are committed with the status of the event.               *)
Dispatch(t) ==
  LET e == task[t].of IN
  /\ task[t].pc = "dispatch"
  /\ \/ /\ e \in Unhandled
        /\ Move(t, "ignored")
        /\ UNCHANGED <<made, ran>>
     \/ /\ e \notin Unhandled
        /\ \/ Move(t, "failing") /\ UNCHANGED <<made, ran>>
           \/ Move(t, "handled") /\ UNCHANGED <<made, ran>>
           \/ /\ e \in PullRequests
              /\ Move(t, "handled")
              /\ made' = [made EXCEPT ![e] = @ + 1]
              /\ ran' = ran \cup {e}
  /\ UNCHANGED <<ev, age, fails, faults>>

(* mark_processed and mark_ignored. *)
Settle(t) ==
  LET e == task[t].of IN
  /\ task[t].pc \in {"handled", "ignored"}
  /\ \/ /\ Set(e, task[t].saw, IF task[t].pc = "handled" THEN "processed" ELSE "ignored")
        /\ ran' = IF task[t].pc = "handled" THEN ran \cup {e} ELSE ran
        /\ Release(t)
        /\ NoFault
     \/ /\ Fault
        /\ Move(t, "failing")
        /\ UNCHANGED <<ev, age, ran>>
  /\ UNCHANGED <<made, fails>>

(* _record_failure, mark_failed: a session of its own reads the row ...      *)
FailRead(t) ==
  LET e == task[t].of IN
  /\ task[t].pc = "failing"
  /\ \/ /\ task' = [task EXCEPT ![t].pc = "fail", ![t].saw = ev[e].status, ![t].tries = ev[e].tries]
        /\ NoFault
     \/ Fault /\ Release(t)
  /\ UNCHANGED <<ev, age, made, ran, fails>>

(* Mutant of FailWrite: gives up one failure too early. *)
FailWriteEarly(t) ==
  LET e == task[t].of
      tries == task[t].tries + 1 IN
  /\ task[t].pc = "fail"
  /\ ev' = [ev EXCEPT ![e] = [status |-> IF tries + 1 >= MaxRetries THEN "abandoned" ELSE "failed",
                              tries  |-> tries]]
  /\ age' = [age EXCEPT ![e] = Fresh]
  /\ fails' = [fails EXCEPT ![e] = @ + 1]
  /\ Release(t)
  /\ UNCHANGED <<made, ran, faults>>

(* ... and writes the incremented count it has read; an error is swallowed.  *)
FailWrite(t) ==
  LET e == task[t].of
      tries == task[t].tries + 1
      status == IF tries >= MaxRetries THEN "abandoned" ELSE "failed" IN
  /\ task[t].pc = "fail"
  /\ \/ /\ ev' = [ev EXCEPT ![e] = [status |-> IF task[t].saw = status THEN @.status ELSE status,
                                    tries  |-> tries]]
        /\ age' = [age EXCEPT ![e] = Fresh]
        /\ fails' = [fails EXCEPT ![e] = @ + 1]
        /\ NoFault
     \/ Fault /\ UNCHANGED <<ev, age, fails>>
  /\ Release(t)
  /\ UNCHANGED <<made, ran>>

(* Time passes.  That a claim outlives the 60 s under a live holder -- GitHub*)
(* may take three attempts of 10 s each with pauses, the database longer --  *)
(* is counted as a fault.                                                    *)
Grow(e) ==
  /\ ev[e].status # "absent"
  /\ age[e] # Stale
  /\ age' = [age EXCEPT ![e] = @ + 1]
  /\ IF age[e] = Idle /\ Holders(e) # {} THEN Fault ELSE NoFault
  /\ UNCHANGED <<ev, task, made, ran, fails>>

(* A worker is killed and restarted: its invocations are gone.               *)
Crash(w) ==
  /\ Fault
  /\ task' = [t \in Tasks |-> IF task[t].at = w THEN Free ELSE task[t]]
  /\ UNCHANGED <<ev, age, made, ran, fails>>

-----------------------------------------------------------------------------
Init ==
  /\ ev = [e \in Events |-> [status |-> "absent", tries |-> 0]]
  /\ age = [e \in Events |-> Fresh]
  /\ task = [t \in Tasks |-> Free]
  /\ made = [e \in Events |-> 0]
  /\ ran = {}
  /\ fails = [e \in Events |-> 0]
  /\ faults = MaxFaults

Working(t) == TakeSlot(t) \/ Load(t) \/ Claim(t) \/ Dispatch(t) \/ Settle(t)
                \/ FailRead(t) \/ FailWrite(t)

Next ==
  \/ \E e \in Events : Grow(e)
  \/ \E e \in Events, w \in Workers : Deliver(e, w) \/ Replay(e, w)
  \/ \E t \in Tasks : Working(t)
  \/ \E w \in Workers : Crash(w)

Spec == Init /\ [][Next]_vars

(* asyncio resumes every invocation, and the reaper of each worker ticks     *)
(* every 300 s.  GitHub need not deliver anything.                           *)
Fairness ==
  /\ \A e \in Events : WF_vars(Grow(e)) /\ \A w \in Workers : WF_vars(Replay(e, w))
  /\ \A t \in Tasks : WF_vars(Working(t))

FairSpec == Spec /\ Fairness

-----------------------------------------------------------------------------
(* What holds *)

Calm == faults = MaxFaults

(* As long as nothing has gone wrong, an event is never dispatched by two    *)
(* invocations at a time, and makes one session and so one announcement on   *)
(* the pull request: for any redeliveries, replays and ticks of any number of*)
(* workers, and although handlers may raise and be retried.                  *)
CalmOnce ==
  Calm => \A e \in Events :
    /\ \A t, u \in Holders(e) : t = u
    /\ made[e] <= 1

(* An event is PROCESSED only when its handler has run to its end and been   *)
(* committed, and ignored only when there is none for it.                    *)
SettledTruly ==
  \A e \in Events :
    /\ ev[e].status = "processed" => e \in ran
    /\ ev[e].status = "ignored" => e \in Unhandled

(* The retry count never exceeds the failures recorded, counts all of them   *)
(* as long as nothing goes wrong, and an event is given up only after        *)
(* MaxRetries of them.                                                       *)
RetriesCounted ==
  \A e \in Events :
    /\ ev[e].tries <= fails[e]
    /\ Calm => ev[e].tries = fails[e]
    /\ ev[e].status = "abandoned" => fails[e] >= MaxRetries

(* As long as nothing goes wrong the three outcomes are terminal: no late    *)
(* claim, settlement or failure of another invocation overwrites one.        *)
CalmTerminal ==
  [][\A e \in Events : Calm' /\ ev[e].status \in Settled => ev'[e].status = ev[e].status]_vars

(* The queue implements the contract of DeliveryContract: a row is held by   *)
(* the invocations that have claimed it and not yet recorded an outcome.     *)
Contract == INSTANCE DeliveryContract
  WITH Invocations <- Tasks,
       status <- [e \in Events |-> ev[e].status],
       tries  <- [e \in Events |-> ev[e].tries],
       held   <- [e \in Events |-> Holders(e)],
       done   <- ran,
       calm   <- Calm

KeepsQueueContract == Contract!QueueSpec

-----------------------------------------------------------------------------
(* Why it holds: the inductive invariant                                     *)

(* An invocation is about an event; it holds the row from its claim until it *)
(* records an outcome; unless something goes wrong, only a holder fails.     *)
TaskOK(t) ==
  /\ task[t].pc = "free" <=> task[t].of = None
  /\ task[t].mine => task[t].pc \in {"dispatch", "handled", "ignored", "failing", "fail"}
  /\ task[t].pc \in {"dispatch", "handled", "ignored"} => task[t].mine
  /\ Calm /\ task[t].pc \in {"failing", "fail"} => task[t].mine
  /\ task[t].pc = "ignored" => task[t].of \in Unhandled

TaskInv == \A t \in Tasks : TaskOK(t)

(* While nothing goes wrong, a row is PROCESSING exactly as long as one      *)
(* invocation holds it, and has no session before its handler has made one.  *)
CalmEvent(e) ==
  /\ \A t, u \in Holders(e) : t = u
  /\ ev[e].status = "processing" <=> Holders(e) # {}
  /\ Holders(e) # {} => age[e] # Stale
  /\ ev[e].status \in {"absent", "pending", "failed"} => made[e] = 0
  /\ made[e] <= 1

(* ... and a settled row stays settled, so that whoever has seen it settled  *)
(* does not claim it, and every outcome is written.                          *)
CalmTask(t) ==
  LET e == task[t].of IN
  /\ task[t].pc = "claim" /\ task[t].saw \in Settled => ev[e].status \in Settled
  /\ task[t].pc \in {"dispatch", "handled", "ignored"} => task[t].saw \notin Settled
  /\ task[t].pc \in {"dispatch", "failing", "fail"} => made[e] = 0
  /\ task[t].pc = "fail" => task[t].saw = "processing" /\ task[t].tries = fails[e]

CalmInv == Calm => (\A e \in Events : CalmEvent(e)) /\ (\A t \in Tasks : CalmTask(t))

RetryInv ==
  /\ RetriesCounted
  /\ \A t \in Tasks : task[t].pc = "fail" => task[t].tries <= fails[task[t].of]

QInv == TypeOK /\ TaskInv /\ CalmInv /\ RetryInv /\ SettledTruly

-----------------------------------------------------------------------------
(* No recorded delivery is lost or retried for ever: it is settled in the    *)
(* end, for good.                                                            *)
EventsSettle ==
  \A e \in Events : ev[e].status # "absent" ~> [](ev[e].status \in Settled)

=============================================================================
