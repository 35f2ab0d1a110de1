---------------------------- MODULE Installations ----------------------------
(* The row of one GitHub installation, written by the deliveries that tell   *)
(* its life and by the administrators who change its settings.               *)
(*                                                                           *)
(* The queue promises to dispatch each delivery until it is processed or     *)
(* abandoned, in no order, and twice at a time when a dispatch overruns its  *)
(* claim (WebhookQueue).  A handler reads the row in one statement, and      *)
(* writes in a later one the columns that differ from what it has read.  A   *)
(* delivery whose action has no handler is ignored: GitHub calls a           *)
(* suspension "suspend", and the handler is registered for "suspended".      *)
EXTENDS Naturals, Sequences

CONSTANTS
  Tasks,       \* how many dispatches there are at a time
  Requests,    \* requests that change a setting
  MaxEvents,   \* how many deliveries GitHub sends
  MaxRetries,  \* recorded failures after which an event is abandoned
  MaxFaults,   \* how many crashes, errors and overruns may happen
  None         \* no setting

ASSUME InstallationsAssumption == /\ MaxRetries \in Nat \ {0}
                                  /\ MaxEvents \in Nat
                                  /\ MaxFaults \in Nat

VARIABLES
  event,    \* the deliveries, in the order in which things happened at GitHub
  row,      \* the row of the installation, as committed
  task,     \* the dispatches under way
  req,      \* the settings requests
  orderly,  \* so far each event was dispatched after the one before was over
  faults

vars == <<event, row, task, req, orderly, faults>>

-----------------------------------------------------------------------------
(* Types *)

(* _HANDLERS: the actions of an installation that have a handler. *)
Handled == {"created", "suspended", "unsuspended", "deleted"}
Action == Handled \cup {"suspend", "unsuspend"}

(* What there is to know of an installation. *)
Life == {"none", "active", "suspended", "deleted"}

Event == [action : Action,
          life   : Life,     \* at GitHub, after it happened
          before : Life,     \* what the handled deliveries have told without it
          after  : Life,     \* and with it
          status : {"pending", "processing", "processed", "ignored", "failed", "abandoned"},
          tries  : Nat]      \* recorded failures

Row == [exists : BOOLEAN, deleted : BOOLEAN, suspended : BOOLEAN, setting : Requests \cup {None}]

Task == [pc : {"free", "read"}, of : Nat, seen : Row]
Request == [pc : {"idle", "checking", "found", "done"}, seen : Row]

(* A dispatch under way is of an event that is there, and one that failed    *)
(* for the last time is abandoned.                                           *)
TypeOK ==
  /\ event \in Seq(Event)
  /\ row \in Row
  /\ task \in [Tasks -> Task]
  /\ req \in [Requests -> Request]
  /\ orderly \in BOOLEAN
  /\ faults \in 0..MaxFaults
  /\ \A t \in Tasks : task[t].pc = "read" => task[t].of \in DOMAIN event
  /\ \A e \in DOMAIN event : event[e].status = "failed" => event[e].tries < MaxRetries

Blank == [exists |-> FALSE, deleted |-> FALSE, suspended |-> FALSE, setting |-> None]
Free == [pc |-> "free", of |-> 0, seen |-> Blank]
Done == [pc |-> "done", seen |-> Blank]

-----------------------------------------------------------------------------
Fault == faults > 0 /\ faults' = faults - 1

(* The predicate every query shares. *)
Active(r) == r.exists /\ ~r.deleted

(* What the program takes the installation for. *)
Shows(r) == IF ~r.exists THEN "none"
            ELSE IF r.deleted THEN "deleted"
            ELSE IF r.suspended THEN "suspended" ELSE "active"

-----------------------------------------------------------------------------
(* GitHub *)

(* What can happen to an installation in a state, and what becomes of it.    *)
(* One that is installed again gets another number.                          *)
Happens == {<<"none", "created", "active">>,
            <<"active", "suspend", "suspended">>,
            <<"active", "suspended", "suspended">>,
            <<"suspended", "unsuspend", "active">>,
            <<"suspended", "unsuspended", "active">>,
            <<"active", "deleted", "deleted">>,
            <<"suspended", "deleted", "deleted">>}

(* What GitHub says, and what it has told those who do not know all of its   *)
(* words.                                                                    *)
Truth == IF event = <<>> THEN "none" ELSE event[Len(event)].life
Told == IF event = <<>> THEN "none" ELSE event[Len(event)].after

Emit ==
  /\ Len(event) < MaxEvents
  /\ \E h \in Happens :
       /\ h[1] = Truth
       /\ event' = Append(event, [action |-> h[2], life |-> h[3], before |-> Told,
                                  after |-> IF h[2] \in Handled THEN h[3] ELSE Told,
                                  status |-> "pending", tries |-> 0])
  /\ UNCHANGED <<row, task, req, orderly, faults>>

-----------------------------------------------------------------------------
(* Dispatching a delivery *)

At(e) == {t \in Tasks : task[t].pc = "read" /\ task[t].of = e}

Settled(e) == event[e].status \in {"processed", "ignored"}

InOrder(e) ==
  /\ \A i \in 1..e-1 : Settled(i)
  /\ \A i \in e+1..Len(event) : event[i].status = "pending"
  /\ \A t \in Tasks : task[t].pc = "read" => task[t].of = e

(* Mutant of Begin: a dispatch that died is not taken for stale. *)
BeginUnlessClaimed(t, e) ==
  /\ task[t].pc = "free"
  /\ event[e].tries < MaxRetries
  /\ event[e].status \in {"pending", "failed"}
  /\ event' = [event EXCEPT ![e].status = "processing"]
  /\ task' = [task EXCEPT ![t] = [pc |-> "read", of |-> e, seen |-> row]]
  /\ orderly' = (orderly /\ InOrder(e))
  /\ UNCHANGED <<row, req, faults>>

(* The claim, and the handler's first SELECT.  The dispatch of an event that *)
(* is processing is stale when its task is dead, or slow.                    *)
Begin(t, e) ==
  /\ task[t].pc = "free"
  /\ event[e].tries < MaxRetries
  /\ \/ /\ \/ event[e].status \in {"pending", "failed"}
           \/ event[e].status = "processing" /\ At(e) = {}
        /\ UNCHANGED faults
     \/ event[e].status = "processing" /\ At(e) # {} /\ Fault
  /\ event' = [event EXCEPT ![e].status = "processing"]
  /\ task' = [task EXCEPT ![t] = [pc |-> "read", of |-> e, seen |-> row]]
  /\ orderly' = (orderly /\ InOrder(e))
  /\ UNCHANGED <<row, req>>

Release(t) == task' = [task EXCEPT ![t] = Free]

Processed(t) ==
  /\ event' = [event EXCEPT ![task[t].of].status = "processed"]
  /\ Release(t)

Failed(t) ==
  LET tries == event[task[t].of].tries + 1 IN
  /\ event' = [event EXCEPT ![task[t].of].tries = tries,
                            ![task[t].of].status = IF tries < MaxRetries THEN "failed" ELSE "abandoned"]
  /\ Release(t)

(* dispatch_webhook finds no handler, and the queue settles the delivery. *)
Ignored(t) ==
  /\ task[t].pc = "read" /\ event[task[t].of].action \notin Handled
  /\ event' = [event EXCEPT ![task[t].of].status = "ignored"]
  /\ Release(t)
  /\ UNCHANGED <<row, req, orderly, faults>>

Handles(t, action) == task[t].pc = "read" /\ event[task[t].of].action = action

(* create_installation: the row is inserted unless an active one was found.  *)
(* Against another row, whether it was there before or a concurrent delivery *)
(* has inserted it, the unique index raises; after the rollback the dispatch *)
(* ends with an error in either case, and is tried again.                    *)
Created(t) ==
  /\ Handles(t, "created")
  /\ \/ Active(task[t].seen) /\ Processed(t) /\ UNCHANGED row
     \/ /\ ~Active(task[t].seen) /\ ~row.exists
        /\ row' = [Blank EXCEPT !.exists = TRUE]
        /\ Processed(t)
     \/ ~Active(task[t].seen) /\ row.exists /\ Failed(t) /\ UNCHANGED row
  /\ UNCHANGED <<req, orderly, faults>>

(* Mutant of Changed: no value to set is taken for no change. *)
ChangedUnlessNull(action, seen) ==
  CASE action = "deleted"     -> [row EXCEPT !.deleted = TRUE]
    [] action = "suspended"   -> [row EXCEPT !.suspended = TRUE]
    [] action = "unsuspended" -> row

(* The columns that the handler sets, and that differ from what it has read. *)
Changed(action, seen) ==
  CASE action = "deleted"     -> [row EXCEPT !.deleted = TRUE]
    [] action = "suspended"   -> [row EXCEPT !.suspended = TRUE]
    [] action = "unsuspended" -> IF seen.suspended THEN [row EXCEPT !.suspended = FALSE] ELSE row

(* Mutant of Change: every column of the object that was read is written. *)
ChangeWhole(t, action) ==
  /\ Handles(t, action)
  /\ row' = CASE ~Active(task[t].seen)   -> row
              [] action = "deleted"     -> [task[t].seen EXCEPT !.deleted = TRUE]
              [] action = "suspended"   -> [task[t].seen EXCEPT !.suspended = TRUE]
              [] action = "unsuspended" -> [task[t].seen EXCEPT !.suspended = FALSE]
  /\ Processed(t)
  /\ UNCHANGED <<req, orderly, faults>>

(* _apply_lifecycle_change: without an active row there is nothing to do. *)
Change(t, action) ==
  /\ Handles(t, action)
  /\ row' = IF Active(task[t].seen) THEN Changed(action, task[t].seen) ELSE row
  /\ Processed(t)
  /\ UNCHANGED <<req, orderly, faults>>

(* The handler or a commit fails: what it has written is rolled back. *)
DispatchFails(t) ==
  /\ task[t].pc = "read"
  /\ Fault
  /\ Failed(t)
  /\ UNCHANGED <<row, req, orderly>>

(* Its process dies, or the failure cannot be recorded either. *)
DispatchDies(t) ==
  /\ task[t].pc = "read"
  /\ Fault
  /\ Release(t)
  /\ UNCHANGED <<event, row, req, orderly>>

-----------------------------------------------------------------------------
(* Settings: suppression labels, and whether results are posted *)

(* The installation is looked up, and GitHub asked whether the user may. *)
Ask(r) ==
  /\ req[r].pc = "idle"
  /\ Active(row)
  /\ req' = [req EXCEPT ![r].pc = "checking"]
  /\ UNCHANGED <<event, row, task, orderly, faults>>

(* _get_active_or_404 looks again, after GitHub's answer. *)
LookAgain(r) ==
  /\ req[r].pc = "checking"
  /\ req' = [req EXCEPT ![r] = IF Active(row) THEN [pc |-> "found", seen |-> row]
                                              ELSE Done]
  /\ UNCHANGED <<event, row, task, orderly, faults>>

(* Mutant of Save: every column of the object that was read is written. *)
SaveWhole(r) ==
  /\ req[r].pc = "found"
  /\ row' = [req[r].seen EXCEPT !.setting = r]
  /\ req' = [req EXCEPT ![r] = Done]
  /\ UNCHANGED <<event, task, orderly, faults>>

Save(r) ==
  /\ req[r].pc = "found"
  /\ row' = [row EXCEPT !.setting = r]
  /\ req' = [req EXCEPT ![r] = Done]
  /\ UNCHANGED <<event, task, orderly, faults>>

(* The user may not, or the transaction is rolled back. *)
RequestEnds(r) ==
  /\ req[r].pc \in {"checking", "found"}
  /\ req' = [req EXCEPT ![r] = Done]
  /\ UNCHANGED <<event, row, task, orderly, faults>>

-----------------------------------------------------------------------------
(* Specification *)

Init ==
  /\ event = <<>>
  /\ row = Blank
  /\ task = [t \in Tasks |-> Free]
  /\ req = [r \in Requests |-> [pc |-> "idle", seen |-> Blank]]
  /\ orderly = TRUE
  /\ faults = MaxFaults

Handle(t) == \/ Ignored(t)
             \/ Created(t)
             \/ \E action \in Handled \ {"created"} : Change(t, action)

Next ==
  \/ Emit
  \/ \E t \in Tasks, e \in DOMAIN event : Begin(t, e)
  \/ \E t \in Tasks : Handle(t) \/ DispatchFails(t) \/ DispatchDies(t)
  \/ \E r \in Requests : Ask(r) \/ LookAgain(r) \/ Save(r) \/ RequestEnds(r)

Spec == Init /\ [][Next]_vars

(* Handlers run on, and the reaper dispatches what is left. *)
Fairness ==
  /\ \A t \in Tasks : WF_vars(Handle(t))
  /\ \A e \in 1..MaxEvents : WF_vars(e \in DOMAIN event /\ \E t \in Tasks : Begin(t, e))

FairSpec == Spec /\ Fairness

-----------------------------------------------------------------------------
(* Properties *)

AllSettled == \A e \in DOMAIN event : Settled(e)

(* The row shows what the program was told, and the program takes the        *)
(* installation for its own just as long as GitHub has it.                   *)
Mirrors == /\ Shows(row) = Told
           /\ Active(row) <=> Truth \in {"active", "suspended"}

(* Duplicates, retries, crashes and dispatches that overrun their claim do   *)
(* not make the row differ from what GitHub has told: as long as no event    *)
(* was dispatched before the one before was over, the row shows all that     *)
(* deliveries with a handler say, and that the installation is there or gone *)
(* (handlers.py, dispatch_webhook).                                          *)
OrderlyMirrors == orderly /\ AllSettled => Mirrors

(* Whichever deliveries come late or twice, and whatever a request has read  *)
(* before: nothing makes a deleted installation active again (repository's   *)
(* _active, create_installation).                                            *)
GoneStaysGone == [][row.deleted => row'.deleted]_vars

(* Only a request that saves a setting changes it: a handler that has read   *)
(* the row before does not undo it (_apply_lifecycle_change).                *)
SettingsKept ==
  [][row'.setting # row.setting =>
       \E r \in Requests : req[r].pc = "found" /\ req'[r].pc = "done" /\ row'.setting = r]_vars

(* In the end the row is what GitHub has told, unless the order was broken   *)
(* or an event was given up (handlers.py, dispatch_webhook, the queue).      *)
MirrorsInTheEnd ==
  <>[]\/ ~orderly
      \/ \E e \in DOMAIN event : event[e].status = "abandoned"
      \/ Mirrors
=============================================================================
