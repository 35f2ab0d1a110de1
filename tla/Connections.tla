---------------------------- MODULE Connections ----------------------------
(* The database connections of one worker, and what holds them: requests     *)
(* that deliver a webhook, whose background task runs before the request's   *)
(* session is closed; replays of deliveries, of which a semaphore lets some  *)
(* run at a time; finalizers of sessions.  Who finds no free connection      *)
(* waits for one until the pool's timeout.  Of a delivery's processing this  *)
(* module keeps when it takes and returns connections; see WebhookQueue for  *)
(* the rest.                                                                 *)
(*                                                                           *)
(* Announcements and results are posted to GitHub in a few attempts.         *)
EXTENDS Naturals, FiniteSets

CONSTANTS
  Replays,     \* replayed deliveries
  Hooks,       \* requests that deliver a webhook
  Finalizers,  \* sessions whose stream has ended
  PoolSize,    \* connections: DB_POOL_SIZE + DB_MAX_OVERFLOW
  Slots,       \* replays at a time
  Attempts     \* to post a comment

Tasks == Replays \cup Hooks \cup Finalizers

ASSUME ConnectionsAssumption ==
  /\ IsFiniteSet(Tasks)
  /\ Replays \cap Hooks = {} /\ Replays \cap Finalizers = {} /\ Hooks \cap Finalizers = {}
  /\ PoolSize \in Nat /\ Slots \in Nat /\ Slots < PoolSize
  /\ Attempts \in Nat \ {0}

VARIABLES
  pc,    \* where each task is
  calls  \* the attempts of the comment it is posting, and what came of them

vars == <<pc, calls>>

-----------------------------------------------------------------------------
(* Types *)

(* Those that wait for a connection, and what they do when they have it. *)
Granted ==
  [asked |-> "receive", claim |-> "claiming", dispatch |-> "handling", settle |-> "settling",
   record |-> "recording", second |-> "both", read |-> "reading", finish |-> "post"]

Waiting == DOMAIN Granted

PC == Waiting \cup {Granted[p] : p \in Waiting} \cup {"idle", "queued", "announce", "watch", "done"}

Calls == [tries : 0 .. Attempts, posted : Nat, lost : Nat, over : BOOLEAN]

-----------------------------------------------------------------------------
(* The pool *)

(* A request's session has begun a transaction once more when it has         *)
(* committed the delivery: it reads it back.                                 *)
Requesting == {t \in Hooks : pc[t] \notin {"idle", "asked", "done"}}

(* One that waits for a second connection has its first one.                 *)
First == {t \in Tasks : pc[t] \in
            {"claiming", "handling", "settling", "recording", "second", "both", "reading", "post"}}
Second == {t \in Tasks : pc[t] = "both"}

InUse == Cardinality(Requesting) + Cardinality(First) + Cardinality(Second)

Holders == Requesting \cup First

TypeOK ==
  /\ pc \in [Tasks -> PC]
  /\ calls \in [Tasks -> Calls]
  /\ InUse <= PoolSize

To(t, p) == pc' = [pc EXCEPT ![t] = p] /\ UNCHANGED calls

(* Mutant of Connect: no limit. *)
ConnectAnyhow(t) == pc[t] \in Waiting /\ To(t, Granted[pc[t]])

Connect(t) ==
  /\ pc[t] \in Waiting
  /\ InUse < PoolSize
  /\ To(t, Granted[pc[t]])

(* Mutant of TimeOut: a failure that was not recorded is tried again. *)
TimeOutAgain(t) ==
  /\ pc[t] \in Waiting
  /\ InUse >= PoolSize
  /\ To(t, IF pc[t] \in {"claim", "dispatch", "settle", "record"} THEN "record"
           ELSE IF pc[t] = "second" THEN "second" ELSE "done")

(* process_webhook_event records that its event has failed; who cannot       *)
(* record that gives up, as do requests and finalizers.                      *)
TimeOut(t) ==
  /\ pc[t] \in Waiting
  /\ InUse >= PoolSize
  /\ To(t, IF pc[t] \in {"claim", "dispatch", "settle"} THEN "record" ELSE "done")

-----------------------------------------------------------------------------
(* Deliveries *)

Arrive(t) ==
  /\ pc[t] = "idle"
  /\ To(t, IF t \in Replays THEN "queued" ELSE IF t \in Hooks THEN "asked" ELSE "read")

Started == {t \in Replays : pc[t] \notin {"idle", "queued", "done"}}

(* Mutant of TakeSlot: one too many. *)
TakeAnySlot(t) ==
  /\ pc[t] = "queued"
  /\ Cardinality(Started) <= Slots
  /\ To(t, "claim")

TakeSlot(t) ==
  /\ pc[t] = "queued"
  /\ Cardinality(Started) < Slots
  /\ To(t, "claim")

(* The delivery is recorded, or it is one that was before. *)
Receive(t) == pc[t] = "receive" /\ \E p \in {"claim", "done"} : To(t, p)

(* The claim is committed: won or lost, or it fails. *)
Claim(t) == pc[t] = "claiming" /\ \E p \in {"dispatch", "done", "record"} : To(t, p)

(* No handler, or one that raises before it has asked the database. *)
Undone(t) == pc[t] = "dispatch" /\ \E p \in {"settle", "record"} : To(t, p)

(* A handler's changes are committed with the outcome, or, if it has a       *)
(* session to announce, before that.  If it raises, its connection is held   *)
(* while the failure is recorded with another.                               *)
Handle(t) == pc[t] = "handling" /\ \E p \in {"done", "announce", "second"} : To(t, p)

(* Mutant of Settle: a handler whose outcome was not stored runs again. *)
SettleAgain(t) == pc[t] = "settling" /\ \E p \in {"done", "dispatch"} : To(t, p)

Settle(t) == pc[t] = "settling" /\ \E p \in {"done", "record"} : To(t, p)

Recorded(t) == pc[t] \in {"recording", "both"} /\ To(t, "done")

-----------------------------------------------------------------------------
(* Finalizers *)

(* The row is read, and the container waited for without a connection. *)
Look(t) == pc[t] = "reading" /\ \E p \in {"watch", "done"} : To(t, p)
Exited(t) == pc[t] = "watch" /\ To(t, "finish")

-----------------------------------------------------------------------------
(* Comments *)

NoCalls == [tries |-> 0, posted |-> 0, lost |-> 0, over |-> FALSE]

(* "created" and "rejected" (4xx) are final; "failed" (5xx, no connection)   *)
(* and "lost" (no answer) are tried again.                                   *)
Outcome(c, answer) ==
  [tries  |-> c.tries + 1,
   posted |-> c.posted + (IF answer \in {"created", "lost"} THEN 1 ELSE 0),
   lost   |-> c.lost + (IF answer = "lost" THEN 1 ELSE 0),
   over   |-> answer \in {"created", "rejected"} \/ c.tries + 1 = Attempts]

(* Mutant of Attempt: an attempt that was answered is followed by the next. *)
AttemptOn(t) ==
  /\ pc[t] \in {"announce", "post"}
  /\ ~calls[t].over
  /\ \E answer \in {"created", "rejected", "failed", "lost"} :
       calls' = [calls EXCEPT ![t] =
         [Outcome(calls[t], answer) EXCEPT !.over = calls[t].tries + 1 = Attempts]]
  /\ UNCHANGED pc

Attempt(t) ==
  /\ pc[t] \in {"announce", "post"}
  /\ ~calls[t].over
  /\ \E answer \in {"created", "rejected", "failed", "lost"} :
       calls' = [calls EXCEPT ![t] = Outcome(calls[t], answer)]
  /\ UNCHANGED pc

(* Whether the comment was posted changes nothing.  A finalizer may have     *)
(* none to post.                                                             *)
GoOn(t) ==
  /\ \/ pc[t] = "announce" /\ calls[t].over /\ pc' = [pc EXCEPT ![t] = "settle"]
     \/ pc[t] = "post" /\ (calls[t].tries > 0 => calls[t].over) /\ pc' = [pc EXCEPT ![t] = "done"]
  /\ calls' = [calls EXCEPT ![t] = NoCalls]

-----------------------------------------------------------------------------
(* Specification *)

Init ==
  /\ pc = [t \in Tasks |-> "idle"]
  /\ calls = [t \in Tasks |-> NoCalls]

Step(t) ==
  \/ Connect(t) \/ TimeOut(t) \/ TakeSlot(t)
  \/ Receive(t) \/ Claim(t) \/ Undone(t) \/ Handle(t) \/ Settle(t) \/ Recorded(t)
  \/ Look(t) \/ Exited(t) \/ Attempt(t) \/ GoOn(t)

Next == \E t \in Tasks : Arrive(t) \/ Step(t)

Spec == Init /\ [][Next]_vars

(* Something goes on: a connection that is free is given, a wait that is too *)
(* long times out, calls to GitHub and containers end.                       *)
Fairness == WF_vars(\E t \in Tasks : Step(t))

FairSpec == Spec /\ Fairness

-----------------------------------------------------------------------------
(* Properties *)

(* Everyone who holds a connection waits for one, and none is left. *)
Blocked == InUse = PoolSize /\ \A t \in Holders : pc[t] \in Waiting

(* Replays and finalizers never block each other: the semaphore leaves one   *)
(* connection for the second of a replay.  Only among webhook requests, of   *)
(* which any number may be under way, is there nothing but the timeout.      *)
OnlyHooksBlock == Blocked => \E t \in Hooks : t \in Holders

(* A task has posted more than one comment only if the answer to one was     *)
(* lost, and never more than Attempts.                                       *)
CommentsAccounted ==
  \A t \in Tasks :
    LET c == calls[t] IN
    /\ c.posted <= c.lost + 1
    /\ c.posted <= Attempts
    /\ c.posted = c.lost + 1 => c.over

(* How many steps a task can still take at most. *)
Stage ==
  [done |-> 0,
   both |-> 1, second |-> 2, recording |-> 1, record |-> 2, settling |-> 3, settle |-> 4,
   announce |-> Attempts + 5, handling |-> Attempts + 6, dispatch |-> Attempts + 7,
   claiming |-> Attempts + 8, claim |-> Attempts + 9, queued |-> Attempts + 10,
   receive |-> Attempts + 10, asked |-> Attempts + 11,
   post |-> Attempts + 1, finish |-> Attempts + 2, watch |-> Attempts + 3,
   reading |-> Attempts + 4, read |-> Attempts + 5,
   idle |-> Attempts + 12]

Rank(t) == Stage[pc[t]] + (Attempts - calls[t].tries)

NearerItsEnd(t) == Rank(t)' < Rank(t) /\ \A u \in Tasks \ {t} : Rank(u)' = Rank(u)

(* No failure, timeout or retry leads a task round in a circle: each step    *)
(* brings the task that takes it nearer to its end, and no other one further *)
(* away from it.                                                             *)
EveryStepCounts == [][\E t \in Tasks : NearerItsEnd(t)]_vars

(* Whatever is blocked, all tasks come to an end, and connections and slots  *)
(* are free again.                                                           *)
TasksEnd == <>[](\A t \in Tasks : pc[t] \in {"idle", "done"})
=============================================================================
