------------------------- MODULE WebhookQueueProofs -------------------------
(* Proofs about WebhookQueue, for any number of deliveries, invocations,     *)
(* workers, replay slots, retries and faults.                                *)
(*                                                                           *)
(* Every step but a crash touches one invocation and one row.  LocalStep     *)
(* says once what such a step owes to the inductive invariant; there is then *)
(* one lemma per action, and the theorems combine them.                      *)
EXTENDS WebhookQueue, TLAPS

(* The parts of RetryInv and SettledTruly about one event, one invocation.   *)
RetryEvent(e) ==
  /\ ev[e].tries <= fails[e]
  /\ Calm => ev[e].tries = fails[e]
  /\ ev[e].status = "abandoned" => fails[e] >= MaxRetries

RetryTask(t) == task[t].pc = "fail" => task[t].tries <= fails[task[t].of]

SettledEvent(e) ==
  /\ ev[e].status = "processed" => e \in ran
  /\ ev[e].status = "ignored" => e \in Unhandled

(* A step that touches at most invocation t and the row of e. *)
OnlyTask(t, e) ==
  /\ task' \in [Tasks -> Task]
  /\ \A s \in Tasks : s # t => task'[s] = task[s]
  /\ task[t].of \in {None, e}
  /\ task'[t].of \in {None, e}

OnlyEvent(e) ==
  /\ ev' \in [Events -> Row]
  /\ age' \in [Events -> {Fresh, Idle, Stale}]
  /\ made' \in [Events -> Nat]
  /\ fails' \in [Events -> Nat]
  /\ \A f \in Events : f # e => /\ ev'[f] = ev[f]
                                /\ age'[f] = age[f]
                                /\ made'[f] = made[f]
                                /\ fails'[f] = fails[f]
  /\ fails[e] <= fails'[e]
  /\ ran \subseteq ran' /\ ran' \subseteq Events
  /\ faults' \in 0..faults

(* What holds of an invocation and its event, spelt out once. *)
LEMMA Shape ==
  ASSUME QInv, NEW t \in Tasks, task[t].pc # "free"
  PROVE  /\ task[t] \in Task
         /\ task[t].of \in Events
         /\ ev[task[t].of] \in Row
         /\ task[t].of # None
BY NobodyAssumption DEF QInv, TypeOK, TaskInv, TaskOK, Task

(* Calm is lost for good. *)
LEMMA CalmBefore ==
  ASSUME QInv, faults' \in 0..faults
  PROVE  /\ Calm' => Calm /\ faults' = faults
         /\ faults' \in 0..MaxFaults
BY BoundsAssumption DEF QInv, TypeOK, Calm

(* A step that touches t and e changes the holders of e by t alone. *)
LEMMA HoldersAfter ==
  ASSUME QInv, NEW t \in Tasks, NEW e \in Events, OnlyTask(t, e)
  PROVE  /\ Holders(e)' = IF task'[t].of = e /\ task'[t].mine
                          THEN Holders(e) \cup {t} ELSE Holders(e) \ {t}
         /\ \A f \in Events : f # e => Holders(f)' = Holders(f)
BY NobodyAssumption DEF OnlyTask, Holders

(* The obligations of a local step: it keeps what concerns t and e, and the  *)
(* other invocations about e, and then the whole invariant holds.            *)
LEMMA LocalStep ==
  ASSUME QInv, NEW t \in Tasks, NEW e \in Events, OnlyTask(t, e), OnlyEvent(e),
         TaskOK(t)',
         Calm' => CalmEvent(e)' /\ CalmTask(t)',
         Calm' => \A s \in Tasks : s # t /\ task[s].of = e => CalmTask(s)',
         RetryEvent(e)', RetryTask(t)', SettledEvent(e)'
  PROVE  QInv'
<1>1. /\ Calm' => Calm /\ faults' = faults
      /\ faults' \in 0..MaxFaults
  BY CalmBefore DEF OnlyEvent
<1>2. TypeOK'
  BY <1>1 DEF OnlyTask, OnlyEvent, TypeOK
<1>3. TaskInv'
  BY <1>1 DEF OnlyTask, QInv, TaskInv, TaskOK
<1>4. CalmInv'
  <2> SUFFICES ASSUME Calm'
               PROVE  (\A f \in Events : CalmEvent(f)') /\ (\A s \in Tasks : CalmTask(s)')
    BY DEF CalmInv
  <2>1. (\A f \in Events : CalmEvent(f)) /\ (\A s \in Tasks : CalmTask(s))
    BY <1>1 DEF QInv, CalmInv
  <2>2. ASSUME NEW f \in Events, f # e PROVE CalmEvent(f)'
    <3>1. Holders(f)' = Holders(f)
      BY <2>2, HoldersAfter
    <3> QED BY <2>1, <2>2, <3>1 DEF OnlyEvent, CalmEvent
  <2>3. ASSUME NEW s \in Tasks, s # t, task[s].of # e PROVE CalmTask(s)'
    <3>1. task[s].pc = "free" \/ task[s].of \in Events
      BY Shape
    <3> QED BY <2>1, <2>3, <3>1 DEF OnlyTask, OnlyEvent, CalmTask
  <2> QED BY <2>2, <2>3
<1>5. RetryInv'
  <2>1. ASSUME NEW f \in Events PROVE RetryEvent(f)'
    BY <1>1 DEF OnlyEvent, QInv, RetryInv, RetriesCounted, RetryEvent
  <2>2. ASSUME NEW s \in Tasks, s # t PROVE RetryTask(s)'
    <3> SUFFICES ASSUME task[s].pc = "fail" PROVE task[s].tries <= fails'[task[s].of]
      BY <2>2 DEF OnlyTask, RetryTask
    <3>1. task[s] \in Task /\ task[s].of \in Events
      BY Shape
    <3>2. task[s].tries <= fails[task[s].of]
      BY DEF QInv, RetryInv
    <3>3. fails[task[s].of] <= fails'[task[s].of]
      BY <3>1 DEF OnlyEvent, QInv, TypeOK
    <3> QED BY <3>1, <3>2, <3>3 DEF OnlyEvent, QInv, TypeOK, Task
  <2> QED BY <2>1, <2>2 DEF RetryEvent, RetryTask, RetryInv, RetriesCounted
<1>6. SettledTruly'
  BY DEF OnlyEvent, QInv, SettledTruly, SettledEvent
<1> QED BY <1>2, <1>3, <1>4, <1>5, <1>6 DEF QInv

(* A step that touches an invocation t about e and no row. *)
LEMMA TaskStep ==
  ASSUME QInv, NEW t \in Tasks, NEW e \in Events, OnlyTask(t, e),
         UNCHANGED <<ev, age, made, ran, fails>>, faults' \in 0..faults,
         TaskOK(t)',
         Calm' => CalmEvent(e)' /\ CalmTask(t)',
         RetryTask(t)'
  PROVE  QInv'
<1>1. OnlyEvent(e)
  BY BoundsAssumption DEF QInv, TypeOK, OnlyEvent
<1>2. Calm' => Calm /\ faults' = faults
  BY CalmBefore
<1>3. Calm' => \A s \in Tasks : s # t /\ task[s].of = e => CalmTask(s)'
  BY <1>2 DEF OnlyTask, QInv, CalmInv, CalmTask
<1>4. RetryEvent(e)' /\ SettledEvent(e)'
  BY <1>2 DEF QInv, RetryInv, RetriesCounted, RetryEvent, SettledTruly, SettledEvent
<1> QED BY <1>1, <1>3, <1>4, LocalStep

(* Replacing the record of one invocation. *)
LEMMA Replaced ==
  ASSUME QInv, NEW t \in Tasks, NEW e \in Events, task[t].of \in {None, e},
         NEW v \in Task, v.of \in {None, e}, task' = [task EXCEPT ![t] = v]
  PROVE  task'[t] = v /\ OnlyTask(t, e)
BY DEF QInv, TypeOK, OnlyTask

(* Replacing the row of one event. *)
LEMMA Rewritten ==
  ASSUME QInv, NEW e \in Events, NEW r \in Row, NEW m \in Nat, NEW k \in Nat,
         fails[e] <= k,
         ev' = [ev EXCEPT ![e] = r], age' = [age EXCEPT ![e] = Fresh],
         made' = [made EXCEPT ![e] = m], fails' = [fails EXCEPT ![e] = k],
         ran \subseteq ran', ran' \subseteq Events, faults' \in 0..faults
  PROVE  /\ ev'[e] = r
         /\ age'[e] = Fresh
         /\ made'[e] = m
         /\ fails'[e] = k
         /\ OnlyEvent(e)
BY DEF QInv, TypeOK, OnlyEvent

(* What a fault, and no fault, do to calm. *)
LEMMA Faults ==
  ASSUME QInv
  PROVE  /\ Fault => ~Calm' /\ faults' \in 0..faults
         /\ NoFault => faults' \in 0..faults /\ (Calm' <=> Calm)
BY BoundsAssumption DEF QInv, TypeOK, Fault, NoFault, Calm

(* A free slot is a well-formed record. *)
LEMMA FreeTask == Free \in Task
BY DEF Free, Task, TaskPC, Status, Settled

(* An invocation that gives up: because it holds nothing, or on a fault. *)
LEMMA ReleaseKeeps ==
  ASSUME QInv, NEW t \in Tasks, task[t].pc # "free", Release(t),
         UNCHANGED <<ev, age, made, ran, fails>>,
         Fault \/ (NoFault /\ ~task[t].mine)
  PROVE  QInv'
<1>0. PICK e \in Events : e = task[t].of /\ e # None
  BY Shape
<1>1. Free.of = None /\ ~Free.mine /\ task' = [task EXCEPT ![t] = Free]
  BY DEF Release, Free
<1>2. task'[t] = Free /\ OnlyTask(t, e)
  BY <1>0, <1>1, FreeTask, Replaced
<1>3. TaskOK(t)' /\ RetryTask(t)' /\ CalmTask(t)'
  BY <1>2 DEF Free, TaskOK, RetryTask, CalmTask
<1>4. faults' \in 0..faults /\ (Calm' => Calm /\ ~task[t].mine)
  BY Faults
<1>5. Calm' => CalmEvent(e)'
  <2> SUFFICES ASSUME Calm' PROVE CalmEvent(e)'
    OBVIOUS
  <2>1. t \notin Holders(e)
    BY <1>4 DEF Holders
  <2>2. Holders(e)' = Holders(e)
    BY <1>0, <1>1, <1>2, <2>1, HoldersAfter
  <2> QED BY <1>0, <1>4, <2>2 DEF QInv, CalmInv, CalmEvent
<1> QED BY <1>0, <1>2, <1>3, <1>4, <1>5, TaskStep

(* An invocation that goes on to record a failure: as the holder of the row, *)
(* or on a fault.                                                            *)
LEMMA FailingKeeps ==
  ASSUME QInv, NEW t \in Tasks, task[t].pc # "free", Move(t, "failing"),
         UNCHANGED <<ev, age, made, ran, fails>>,
         Fault \/ (NoFault /\ task[t].pc = "dispatch")
  PROVE  QInv'
<1>0. PICK e \in Events : /\ e = task[t].of
                      /\ e # None
                      /\ task[t] \in Task
                      /\ ev[e] \in Row
  BY Shape
<1> DEFINE v == [task[t] EXCEPT !.pc = "failing"]
<1>1. /\ v \in Task
      /\ v.pc = "failing"
      /\ v.of = e
      /\ v.mine = task[t].mine
  BY <1>0 DEF Task, TaskPC
<1>2. task' = [task EXCEPT ![t] = v]
  BY DEF Move
<1> HIDE DEF v
<1>3. task'[t] = v /\ OnlyTask(t, e)
  BY <1>0, <1>1, <1>2, Replaced
<1>4. faults' \in 0..faults /\ (Calm' => Calm /\ task[t].pc = "dispatch")
  BY Faults
<1>5. TaskOK(t)' /\ RetryTask(t)'
  BY <1>0, <1>1, <1>3, <1>4 DEF QInv, TaskInv, TaskOK, RetryTask
<1>6. Calm' => CalmEvent(e)' /\ CalmTask(t)'
  <2> SUFFICES ASSUME Calm' PROVE CalmEvent(e)' /\ CalmTask(t)'
    OBVIOUS
  <2>1. t \in Holders(e) <=> v.mine
    BY <1>0, <1>1 DEF Holders
  <2>2. Holders(e)' = Holders(e)
    BY <1>0, <1>1, <1>3, <2>1, HoldersAfter
  <2> QED BY <1>0, <1>1, <1>3, <1>4, <2>2 DEF QInv, CalmInv, CalmEvent, CalmTask
<1> QED BY <1>0, <1>3, <1>4, <1>5, <1>6, TaskStep

(* Deliver keeps the inductive invariant. *)
LEMMA DeliverKeeps ==
  ASSUME QInv, NEW e \in Events, NEW w \in Workers, Deliver(e, w)
  PROVE  QInv'
<1> DEFINE r == [ev[e] EXCEPT !.status = "pending"]
<1>0. /\ r \in Row
      /\ r.status = "pending"
      /\ r.tries = ev[e].tries
      /\ ev' = [ev EXCEPT ![e] = r]
  BY DEF Deliver, QInv, TypeOK, Row, Status
<1> HIDE DEF r
<1>1. faults' \in 0..faults
  BY Faults DEF Deliver
<1>2. /\ ev'[e] = r
      /\ age'[e] = Fresh
      /\ made'[e] = made[e]
      /\ fails'[e] = fails[e]
      /\ OnlyEvent(e)
  <2>1. made[e] \in Nat /\ fails[e] \in Nat /\ fails[e] <= fails[e]
    BY DEF QInv, TypeOK
  <2>2. /\ age' = [age EXCEPT ![e] = Fresh]
        /\ made' = [made EXCEPT ![e] = made[e]]
        /\ fails' = [fails EXCEPT ![e] = fails[e]]
        /\ ran \subseteq ran'
        /\ ran' \subseteq Events
    BY DEF Deliver, QInv, TypeOK
  <2> QED BY <1>0, <1>1, <2>1, <2>2, Rewritten
<1>3. RetryEvent(e)' /\ SettledEvent(e)'
  BY <1>0, <1>1, <1>2, CalmBefore DEF QInv, RetryInv, RetriesCounted, RetryEvent, SettledEvent
<1>4. Calm => Holders(e) = {} /\ made[e] = 0
  BY DEF Deliver, QInv, CalmInv, CalmEvent
<1>5. CASE \E t \in Tasks : task[t].pc = "free" /\ Spawn(t, e, w, "load")
  <2>1. PICK t \in Tasks : task[t].pc = "free" /\ Spawn(t, e, w, "load")
    BY <1>5
  <2> DEFINE v == [Free EXCEPT !.pc = "load", !.of = e, !.at = w]
  <2>2. /\ v \in Task
        /\ v.pc = "load"
        /\ v.of = e
        /\ ~v.mine
    BY FreeTask DEF Free, Task, TaskPC
  <2>3. task' = [task EXCEPT ![t] = v] /\ task[t].of = None
    BY <2>1 DEF Spawn, QInv, TaskInv, TaskOK
  <2> HIDE DEF v
  <2>4. task'[t] = v /\ OnlyTask(t, e)
    BY <2>2, <2>3, Replaced
  <2>5. TaskOK(t)' /\ RetryTask(t)' /\ CalmTask(t)'
    BY <2>2, <2>4, NobodyAssumption DEF TaskOK, RetryTask, CalmTask
  <2>6. Calm' => CalmEvent(e)'
    BY <1>0, <1>1, <1>2, <1>4, <2>2, <2>4, CalmBefore, HoldersAfter DEF CalmEvent, Fresh, Stale
  <2>7. Calm' => \A s \in Tasks : s # t /\ task[s].of = e => CalmTask(s)'
    BY <1>1, <1>2, <2>4, CalmBefore DEF Deliver, QInv, CalmInv, CalmTask, OnlyTask, Settled
  <2> QED BY <1>2, <1>3, <2>4, <2>5, <2>6, <2>7, LocalStep
<1>6. CASE Fault /\ UNCHANGED task
  <2>1. ~Calm'
    BY <1>6, Faults
  <2>2. TypeOK'
    BY <1>1, <1>2, <1>6, CalmBefore DEF OnlyEvent, QInv, TypeOK
  <2>3. TaskInv'
    BY <1>6, <2>1 DEF QInv, TaskInv, TaskOK
  <2>4. CalmInv'
    BY <2>1 DEF CalmInv
  <2>5. RetryInv'
    BY <1>2, <1>3, <1>6, <2>1 DEF Deliver, OnlyEvent, QInv, RetryInv, RetriesCounted, RetryEvent
  <2>6. SettledTruly'
    BY <1>2, <1>3 DEF OnlyEvent, QInv, SettledTruly, SettledEvent
  <2> QED BY <2>2, <2>3, <2>4, <2>5, <2>6 DEF QInv
<1> QED BY <1>5, <1>6 DEF Deliver

(* Replay keeps the inductive invariant. *)
LEMMA ReplayKeeps ==
  ASSUME QInv, NEW e \in Events, NEW w \in Workers, Replay(e, w)
  PROVE  QInv'
<1>1. PICK t \in Tasks : task[t].pc = "free" /\ Spawn(t, e, w, "queued")
  BY DEF Replay
<1> DEFINE v == [Free EXCEPT !.pc = "queued", !.of = e, !.at = w]
<1>2. /\ v \in Task
      /\ v.pc = "queued"
      /\ v.of = e
      /\ ~v.mine
  BY FreeTask DEF Free, Task, TaskPC
<1>3. task' = [task EXCEPT ![t] = v] /\ task[t].of = None
  BY <1>1 DEF Spawn, QInv, TaskInv, TaskOK
<1> HIDE DEF v
<1>4. task'[t] = v /\ OnlyTask(t, e)
  BY <1>2, <1>3, Replaced
<1>5. TaskOK(t)' /\ RetryTask(t)' /\ CalmTask(t)'
  BY <1>2, <1>4, NobodyAssumption DEF TaskOK, RetryTask, CalmTask
<1>6. faults' \in 0..faults /\ (Calm' <=> Calm)
  BY Faults DEF Replay, NoFault
<1>7. Holders(e)' = Holders(e)
  BY <1>2, <1>3, <1>4, HoldersAfter, NobodyAssumption DEF Holders
<1>8. Calm' => CalmEvent(e)'
  BY <1>6, <1>7 DEF Replay, QInv, CalmInv, CalmEvent
<1> QED BY <1>4, <1>5, <1>6, <1>8, TaskStep DEF Replay

(* A step of an invocation that touches nothing but its own record, keeps    *)
(* its hold and costs no fault.                                              *)
LEMMA QuietKeeps ==
  ASSUME QInv, NEW t \in Tasks, task[t].pc # "free", NEW v \in Task,
         task' = [task EXCEPT ![t] = v], v.of = task[t].of, v.mine = task[t].mine,
         NoFault, UNCHANGED <<ev, age, made, ran, fails>>,
         TaskOK(t)', RetryTask(t)', Calm => CalmTask(t)'
  PROVE  QInv'
<1>0. PICK e \in Events : /\ e = task[t].of
                      /\ e # None
                      /\ task[t] \in Task
                      /\ ev[e] \in Row
  BY Shape
<1>1. task'[t] = v /\ OnlyTask(t, e)
  BY <1>0, Replaced
<1>2. faults' \in 0..faults /\ (Calm' => Calm)
  BY Faults
<1>3. v.of = e /\ (t \in Holders(e) <=> v.mine)
  BY <1>0 DEF Holders, Task
<1>4. Holders(e)' = Holders(e)
  <2>1. Holders(e)' = IF v.mine THEN Holders(e) \cup {t} ELSE Holders(e) \ {t}
    BY <1>1, <1>3, HoldersAfter
  <2> QED BY <1>3, <2>1
<1>5. Calm' => CalmEvent(e)'
  BY <1>0, <1>2, <1>4 DEF QInv, CalmInv, CalmEvent
<1> QED BY <1>0, <1>1, <1>2, <1>5, TaskStep

(* TakeSlot keeps the inductive invariant. *)
LEMMA TakeSlotKeeps ==
  ASSUME QInv, NEW t \in Tasks, TakeSlot(t)
  PROVE  QInv'
<1>0. PICK e \in Events : /\ e = task[t].of
                      /\ e # None
                      /\ task[t] \in Task
                      /\ ev[e] \in Row
  BY Shape DEF TakeSlot
<1> DEFINE v == [task[t] EXCEPT !.pc = "load", !.slot = TRUE]
<1>1. /\ v \in Task
      /\ v.pc = "load"
      /\ v.of = e
      /\ v.mine = task[t].mine
  BY <1>0 DEF Task, TaskPC
<1>2. task' = [task EXCEPT ![t] = v] /\ task[t].pc = "queued"
  BY DEF TakeSlot
<1> HIDE DEF v
<1>3. task'[t] = v
  BY <1>2 DEF QInv, TypeOK
<1>4. NoFault /\ UNCHANGED <<ev, age, made, ran, fails>>
  BY DEF TakeSlot, NoFault
<1>5. TaskOK(t)' /\ RetryTask(t)' /\ CalmTask(t)'
  BY <1>0, <1>1, <1>2, <1>3, <1>4 DEF QInv, TaskInv, TaskOK, RetryTask, CalmTask, NoFault, Calm
<1> QED BY <1>0, <1>1, <1>2, <1>4, <1>5, QuietKeeps

(* Load keeps the inductive invariant. *)
LEMMA LoadKeeps ==
  ASSUME QInv, NEW t \in Tasks, Load(t)
  PROVE  QInv'
<1>0. PICK e \in Events : /\ e = task[t].of
                      /\ e # None
                      /\ task[t] \in Task
                      /\ ev[e] \in Row
  BY Shape DEF Load
<1>1. task[t].pc = "load" /\ UNCHANGED <<ev, age, made, ran, fails>>
  BY DEF Load
<1>2. CASE task' = [task EXCEPT ![t].pc = "claim", ![t].saw = ev[task[t].of].status] /\ NoFault
  <2> DEFINE v == [task[t] EXCEPT !.pc = "claim", !.saw = ev[e].status]
  <2>1. /\ v \in Task
        /\ v.pc = "claim"
        /\ v.of = e
        /\ v.mine = task[t].mine
        /\ v.saw = ev[e].status
    BY <1>0 DEF Task, TaskPC, Row
  <2>2. task' = [task EXCEPT ![t] = v]
    BY <1>0, <1>2
  <2> HIDE DEF v
  <2>3. task'[t] = v
    BY <2>2 DEF QInv, TypeOK
  <2>4. TaskOK(t)' /\ RetryTask(t)' /\ CalmTask(t)'
    BY <1>0, <1>1, <1>2, <2>1, <2>3 DEF QInv, TaskInv, TaskOK, RetryTask, CalmTask, NoFault, Calm
  <2> QED BY <1>0, <1>1, <1>2, <2>1, <2>2, <2>4, QuietKeeps
<1>3. CASE Fault /\ Move(t, "failing")
  BY <1>1, <1>3, FailingKeeps
<1> QED BY <1>2, <1>3 DEF Load

(* Claim keeps the inductive invariant. *)
LEMMA ClaimKeeps ==
  ASSUME QInv, NEW t \in Tasks, Claim(t)
  PROVE  QInv'
<1>0. PICK e \in Events : /\ e = task[t].of
                      /\ e # None
                      /\ task[t] \in Task
                      /\ ev[e] \in Row
  BY Shape DEF Claim
<1>1. task[t].pc = "claim" /\ ~task[t].mine /\ UNCHANGED <<made, ran, fails>>
  BY DEF Claim, QInv, TaskInv, TaskOK
<1>2. CASE /\ Claimable(e)
           /\ ev' = [ev EXCEPT ![e].status = "processing"]
           /\ age' = [age EXCEPT ![e] = Fresh]
           /\ task' = [task EXCEPT ![t].pc = "dispatch", ![t].mine = TRUE]
           /\ NoFault
  <2> DEFINE v == [task[t] EXCEPT !.pc = "dispatch", !.mine = TRUE]
             r == [ev[e] EXCEPT !.status = "processing"]
  <2>1. /\ v \in Task
        /\ v.pc = "dispatch"
        /\ v.of = e
        /\ v.mine
        /\ v.saw = task[t].saw
    BY <1>0 DEF Task, TaskPC
  <2>2. /\ r \in Row
        /\ r.status = "processing"
        /\ r.tries = ev[e].tries
    BY <1>0 DEF Row, Status
  <2>3. task' = [task EXCEPT ![t] = v] /\ ev' = [ev EXCEPT ![e] = r]
    BY <1>2
  <2> HIDE DEF v, r
  <2>4. task'[t] = v /\ OnlyTask(t, e)
    BY <1>0, <2>1, <2>3, Replaced
  <2>5. faults' \in 0..faults /\ (Calm' => Calm)
    BY <1>2, Faults
  <2>6. /\ ev'[e] = r
        /\ age'[e] = Fresh
        /\ made'[e] = made[e]
        /\ fails'[e] = fails[e]
        /\ OnlyEvent(e)
    <3>1. made[e] \in Nat /\ fails[e] \in Nat /\ fails[e] <= fails[e]
      BY DEF QInv, TypeOK
    <3>2. /\ made' = [made EXCEPT ![e] = made[e]]
          /\ fails' = [fails EXCEPT ![e] = fails[e]]
          /\ ran \subseteq ran'
          /\ ran' \subseteq Events
      BY <1>1 DEF QInv, TypeOK
    <3> QED BY <1>2, <2>2, <2>3, <2>5, <3>1, <3>2, Rewritten
  <2>7. TaskOK(t)' /\ RetryTask(t)' /\ RetryEvent(e)' /\ SettledEvent(e)'
    BY <1>0, <1>1, <2>1, <2>2, <2>4, <2>5, <2>6
       DEF TaskOK, RetryTask, RetryEvent, SettledEvent, QInv, RetryInv, RetriesCounted
  <2>8. Calm => Holders(e) = {} /\ made[e] = 0 /\ ev[e].status \notin Settled
    BY <1>2 DEF Claimable, QInv, CalmInv, CalmEvent, Settled
  <2>9. Calm' => CalmEvent(e)' /\ CalmTask(t)'
    <3> SUFFICES ASSUME Calm' PROVE CalmEvent(e)' /\ CalmTask(t)'
      OBVIOUS
    <3>1. Holders(e)' = {t} /\ made[e] = 0
      BY <2>1, <2>4, <2>5, <2>8, HoldersAfter
    <3>2. task[t].saw \notin Settled
      BY <1>0, <1>1, <2>5, <2>8 DEF QInv, CalmInv, CalmTask
    <3> QED BY <2>1, <2>2, <2>4, <2>6, <3>1, <3>2 DEF CalmEvent, CalmTask, Fresh, Stale
  <2>10. Calm' => \A s \in Tasks : s # t /\ task[s].of = e => CalmTask(s)'
    BY <2>4, <2>5, <2>6, <2>8 DEF OnlyTask, QInv, CalmInv, CalmTask
  <2> QED BY <2>4, <2>6, <2>7, <2>9, <2>10, LocalStep
<1>3. CASE Release(t) /\ NoFault /\ UNCHANGED <<ev, age>>
  BY <1>1, <1>3, ReleaseKeeps
<1>4. CASE Fault /\ Move(t, "failing") /\ UNCHANGED <<ev, age>>
  BY <1>1, <1>4, FailingKeeps
<1> QED BY <1>0, <1>2, <1>3, <1>4 DEF Claim

(* Dispatch keeps the inductive invariant. *)
LEMMA DispatchKeeps ==
  ASSUME QInv, NEW t \in Tasks, Dispatch(t)
  PROVE  QInv'
<1>0. PICK e \in Events : /\ e = task[t].of
                      /\ e # None
                      /\ task[t] \in Task
                      /\ ev[e] \in Row
  BY Shape DEF Dispatch
<1>1. task[t].pc = "dispatch" /\ task[t].mine /\ UNCHANGED <<ev, age, fails>> /\ NoFault
  BY DEF Dispatch, NoFault, QInv, TaskInv, TaskOK
<1>2. CASE /\ \/ e \in Unhandled /\ Move(t, "ignored")
              \/ Move(t, "handled")
           /\ UNCHANGED <<made, ran>>
  <2>1. PICK pc \in {"ignored", "handled"} : /\ Move(t, pc)
                                             /\ pc = "ignored" => e \in Unhandled
    BY <1>2
  <2> DEFINE v == [task[t] EXCEPT !.pc = pc]
  <2>2. /\ v \in Task
        /\ v.pc = pc
        /\ v.of = e
        /\ v.mine = task[t].mine
        /\ v.saw = task[t].saw
    BY <1>0, <2>1 DEF Task, TaskPC
  <2>3. task' = [task EXCEPT ![t] = v]
    BY <2>1 DEF Move
  <2> HIDE DEF v
  <2>4. task'[t] = v
    BY <2>3 DEF QInv, TypeOK
  <2>5. TaskOK(t)' /\ RetryTask(t)'
    BY <1>0, <1>1, <2>1, <2>2, <2>4 DEF TaskOK, RetryTask
  <2>6. Calm => CalmTask(t)'
    BY <1>0, <1>1, <2>1, <2>2, <2>4 DEF QInv, CalmInv, CalmTask
  <2> QED BY <1>0, <1>1, <1>2, <2>2, <2>3, <2>5, <2>6, QuietKeeps
<1>3. CASE Move(t, "failing") /\ UNCHANGED <<made, ran>>
  BY <1>1, <1>3, FailingKeeps
<1>4. CASE /\ Move(t, "handled")
           /\ made' = [made EXCEPT ![e] = @ + 1]
           /\ ran' = ran \cup {e}
  <2> DEFINE v == [task[t] EXCEPT !.pc = "handled"]
  <2>1. /\ v \in Task
        /\ v.pc = "handled"
        /\ v.of = e
        /\ v.mine
        /\ v.saw = task[t].saw
    BY <1>0, <1>1 DEF Task, TaskPC
  <2>2. task' = [task EXCEPT ![t] = v]
    BY <1>4 DEF Move
  <2> HIDE DEF v
  <2>3. task'[t] = v /\ OnlyTask(t, e)
    BY <1>0, <2>1, <2>2, Replaced
  <2>4. faults' \in 0..faults /\ (Calm' => Calm)
    BY <1>1, Faults
  <2>5. OnlyEvent(e) /\ made'[e] = made[e] + 1
    BY <1>1, <1>4, <2>4 DEF OnlyEvent, QInv, TypeOK
  <2>6. TaskOK(t)' /\ RetryTask(t)' /\ RetryEvent(e)' /\ SettledEvent(e)'
    BY <1>0, <1>1, <1>4, <2>1, <2>3, <2>4
       DEF TaskOK, RetryTask, RetryEvent, SettledEvent, QInv, RetryInv, RetriesCounted, SettledTruly
  <2>7. Calm => /\ Holders(e) = {t}
                /\ made[e] = 0
                /\ ev[e].status = "processing"
                /\ age[e] # Stale
                /\ task[t].saw \notin Settled
    <3>1. t \in Holders(e)
      BY <1>0, <1>1 DEF Holders
    <3> QED BY <1>0, <1>1, <3>1 DEF QInv, CalmInv, CalmEvent, CalmTask
  <2>8. Calm' => CalmEvent(e)' /\ CalmTask(t)'
    <3> SUFFICES ASSUME Calm' PROVE CalmEvent(e)' /\ CalmTask(t)'
      OBVIOUS
    <3>1. Holders(e)' = {t}
      BY <2>1, <2>3, <2>4, <2>7, HoldersAfter
    <3> QED BY <1>0, <1>1, <2>1, <2>3, <2>4, <2>5, <2>7, <3>1 DEF CalmEvent, CalmTask
  <2>9. Calm' => \A s \in Tasks : s # t /\ task[s].of = e => CalmTask(s)'
    <3> SUFFICES ASSUME Calm', NEW s \in Tasks, s # t, task[s].of = e PROVE CalmTask(s)'
      OBVIOUS
    <3>1. ~task[s].mine
      BY <2>4, <2>7 DEF Holders
    <3> QED BY <1>1, <2>3, <2>4, <3>1 DEF OnlyTask, QInv, TaskInv, TaskOK, CalmInv, CalmTask
  <2> QED BY <2>3, <2>5, <2>6, <2>8, <2>9, LocalStep
<1> QED BY <1>0, <1>2, <1>3, <1>4 DEF Dispatch

(* An invocation that records an outcome and is done. *)
LEMMA Recorded ==
  ASSUME QInv, NEW t \in Tasks, NEW e \in Events, e = task[t].of, task[t].pc # "free",
         Release(t), OnlyEvent(e), age'[e] = Fresh, made'[e] = made[e],
         RetryEvent(e)', SettledEvent(e)', Calm' => Calm /\ task[t].mine,
         Calm' => \/ ev'[e].status \in Settled
                  \/ ev'[e].status = "failed" /\ made[e] = 0
  PROVE  QInv'
<1>1. Free.of = None /\ ~Free.mine /\ task' = [task EXCEPT ![t] = Free]
  BY DEF Release, Free
<1>2. task'[t] = Free /\ OnlyTask(t, e)
  BY <1>1, FreeTask, Replaced
<1>3. TaskOK(t)' /\ RetryTask(t)' /\ CalmTask(t)'
  BY <1>2 DEF Free, TaskOK, RetryTask, CalmTask
<1>4. Calm' => Holders(e) = {t} /\ made[e] <= 1 /\ ev[e].status \notin Settled
  <2> SUFFICES ASSUME Calm' PROVE Holders(e) = {t} /\ made[e] <= 1 /\ ev[e].status \notin Settled
    OBVIOUS
  <2>1. t \in Holders(e)
    BY DEF Holders
  <2> QED BY <2>1 DEF QInv, CalmInv, CalmEvent, Settled
<1>5. Calm' => CalmEvent(e)'
  <2> SUFFICES ASSUME Calm' PROVE CalmEvent(e)'
    OBVIOUS
  <2>1. Holders(e)' = {}
    BY <1>1, <1>2, <1>4, HoldersAfter
  <2> QED BY <1>4, <2>1 DEF CalmEvent, Settled, Fresh, Stale
<1>6. Calm' => \A s \in Tasks : s # t /\ task[s].of = e => CalmTask(s)'
  <2> SUFFICES ASSUME Calm', NEW s \in Tasks, s # t, task[s].of = e PROVE CalmTask(s)'
    OBVIOUS
  <2>1. ~task[s].mine
    BY <1>4 DEF Holders
  <2> QED BY <1>2, <1>4, <2>1 DEF OnlyTask, QInv, TaskInv, TaskOK, CalmInv, CalmTask
<1> QED BY <1>2, <1>3, <1>5, <1>6, LocalStep

(* Settle keeps the inductive invariant. *)
LEMMA SettleKeeps ==
  ASSUME QInv, NEW t \in Tasks, Settle(t)
  PROVE  QInv'
<1>0. PICK e \in Events : /\ e = task[t].of
                      /\ e # None
                      /\ task[t] \in Task
                      /\ ev[e] \in Row
  BY Shape DEF Settle
<1>1. task[t].pc \in {"handled", "ignored"} /\ task[t].mine /\ UNCHANGED <<made, fails>>
  BY DEF Settle, QInv, TaskInv, TaskOK
<1> DEFINE outcome == IF task[t].pc = "handled" THEN "processed" ELSE "ignored"
<1>2. CASE /\ Set(e, task[t].saw, outcome)
           /\ ran' = IF task[t].pc = "handled" THEN ran \cup {e} ELSE ran
           /\ Release(t)
           /\ NoFault
  <2> DEFINE r == [ev[e] EXCEPT !.status = IF task[t].saw = outcome THEN ev[e].status ELSE outcome]
  <2>1. /\ r \in Row
        /\ r.tries = ev[e].tries
        /\ r.status = IF task[t].saw = outcome THEN ev[e].status ELSE outcome
    BY <1>0 DEF Row, Status, Settled
  <2>2. ev' = [ev EXCEPT ![e] = r] /\ age' = [age EXCEPT ![e] = Fresh]
    BY <1>2 DEF Set
  <2> HIDE DEF r
  <2>3. faults' \in 0..faults /\ (Calm' => Calm)
    BY <1>2, Faults
  <2>4. /\ ev'[e] = r
        /\ age'[e] = Fresh
        /\ made'[e] = made[e]
        /\ fails'[e] = fails[e]
        /\ OnlyEvent(e)
    <3>1. made[e] \in Nat /\ fails[e] \in Nat /\ fails[e] <= fails[e]
      BY DEF QInv, TypeOK
    <3>2. /\ made' = [made EXCEPT ![e] = made[e]]
          /\ fails' = [fails EXCEPT ![e] = fails[e]]
          /\ ran \subseteq ran'
          /\ ran' \subseteq Events
      BY <1>1, <1>2 DEF QInv, TypeOK
    <3> QED BY <2>1, <2>2, <2>3, <3>1, <3>2, Rewritten
  <2>5. RetryEvent(e)'
    BY <2>1, <2>3, <2>4 DEF QInv, RetryInv, RetriesCounted, RetryEvent
  <2>6. SettledEvent(e)'
    BY <1>0, <1>1, <1>2, <2>1, <2>4 DEF QInv, TaskInv, TaskOK, SettledTruly, SettledEvent
  <2>7. Calm' => ev'[e].status \in Settled
    BY <1>0, <1>1, <2>1, <2>3, <2>4 DEF QInv, CalmInv, CalmTask, Settled
  <2> QED BY <1>0, <1>1, <1>2, <2>3, <2>4, <2>5, <2>6, <2>7, Recorded
<1>3. CASE Fault /\ Move(t, "failing") /\ UNCHANGED <<ev, age, ran>>
  BY <1>1, <1>3, FailingKeeps
<1> QED BY <1>0, <1>2, <1>3 DEF Settle

(* FailRead keeps the inductive invariant. *)
LEMMA FailReadKeeps ==
  ASSUME QInv, NEW t \in Tasks, FailRead(t)
  PROVE  QInv'
<1>0. PICK e \in Events : /\ e = task[t].of
                      /\ e # None
                      /\ task[t] \in Task
                      /\ ev[e] \in Row
  BY Shape DEF FailRead
<1>1. task[t].pc = "failing" /\ UNCHANGED <<ev, age, made, ran, fails>>
  BY DEF FailRead
<1>2. CASE /\ task' = [task EXCEPT ![t].pc = "fail", ![t].saw = ev[task[t].of].status,
                                   ![t].tries = ev[task[t].of].tries]
           /\ NoFault
  <2> DEFINE v == [task[t] EXCEPT !.pc = "fail", !.saw = ev[e].status, !.tries = ev[e].tries]
  <2>1. /\ v \in Task
        /\ v.pc = "fail"
        /\ v.of = e
        /\ v.mine = task[t].mine
        /\ v.saw = ev[e].status
        /\ v.tries = ev[e].tries
    BY <1>0 DEF Task, TaskPC, Row
  <2>2. task' = [task EXCEPT ![t] = v]
    BY <1>0, <1>2
  <2> HIDE DEF v
  <2>3. task'[t] = v
    BY <2>2 DEF QInv, TypeOK
  <2>4. TaskOK(t)' /\ RetryTask(t)'
    BY <1>0, <1>1, <1>2, <2>1, <2>3
       DEF QInv, TaskInv, TaskOK, RetryInv, RetriesCounted, RetryTask, NoFault, Calm
  <2>5. Calm => CalmTask(t)'
    <3> SUFFICES ASSUME Calm PROVE CalmTask(t)'
      OBVIOUS
    <3>1. t \in Holders(e)
      BY <1>0, <1>1 DEF Holders, QInv, TaskInv, TaskOK
    <3> QED BY <1>0, <1>1, <2>1, <2>3, <3>1
            DEF QInv, CalmInv, CalmEvent, CalmTask, RetryInv, RetriesCounted
  <2> QED BY <1>0, <1>1, <1>2, <2>1, <2>2, <2>4, <2>5, QuietKeeps
<1>3. CASE Fault /\ Release(t)
  BY <1>1, <1>3, ReleaseKeeps
<1> QED BY <1>2, <1>3 DEF FailRead

(* FailWrite keeps the inductive invariant. *)
LEMMA FailWriteKeeps ==
  ASSUME QInv, NEW t \in Tasks, FailWrite(t)
  PROVE  QInv'
<1>0. PICK e \in Events : /\ e = task[t].of
                      /\ e # None
                      /\ task[t] \in Task
                      /\ ev[e] \in Row
  BY Shape DEF FailWrite
<1>1. task[t].pc = "fail" /\ Release(t) /\ UNCHANGED <<made, ran>>
  BY DEF FailWrite
<1> DEFINE tries  == task[t].tries + 1
           status == IF tries >= MaxRetries THEN "abandoned" ELSE "failed"
<1>2. CASE /\ ev' = [ev EXCEPT ![e] = [status |-> IF task[t].saw = status THEN @.status ELSE status,
                                       tries  |-> tries]]
           /\ age' = [age EXCEPT ![e] = Fresh]
           /\ fails' = [fails EXCEPT ![e] = @ + 1]
           /\ NoFault
  <2> DEFINE r == [status |-> IF task[t].saw = status THEN ev[e].status ELSE status,
                   tries  |-> tries]
  <2>0. /\ tries = task[t].tries + 1
        /\ task[t].tries \in Nat
        /\ fails[e] \in Nat
        /\ status = IF tries >= MaxRetries THEN "abandoned" ELSE "failed"
    BY <1>0 DEF Task, QInv, TypeOK
  <2>1. /\ r.status = IF task[t].saw = status THEN ev[e].status ELSE status
        /\ r.tries = tries
        /\ ev' = [ev EXCEPT ![e] = r]
    BY <1>2
  <2> HIDE DEF tries, status
  <2>2. r \in Row
    BY <1>0, <2>0 DEF Row, Status, Settled
  <2> HIDE DEF r
  <2>3. faults' \in 0..faults /\ (Calm' => Calm)
    BY <1>2, Faults
  <2>4. /\ ev'[e] = r
        /\ age'[e] = Fresh
        /\ made'[e] = made[e]
        /\ fails'[e] = fails[e] + 1
        /\ OnlyEvent(e)
    <3>1. made[e] \in Nat /\ fails[e] + 1 \in Nat /\ fails[e] <= fails[e] + 1
      BY DEF QInv, TypeOK
    <3>2. /\ made' = [made EXCEPT ![e] = made[e]]
          /\ fails' = [fails EXCEPT ![e] = fails[e] + 1]
          /\ ran \subseteq ran'
          /\ ran' \subseteq Events
      BY <1>1, <1>2 DEF QInv, TypeOK
    <3> QED BY <1>2, <2>1, <2>2, <2>3, <3>1, <3>2, Rewritten
  <2>5. RetryEvent(e)'
    <3>1. task[t].tries <= fails[e] /\ (Calm => task[t].tries = fails[e])
      BY <1>0, <1>1 DEF QInv, RetryInv, CalmInv, CalmTask
    <3>2. ev[e].status = "abandoned" => fails[e] >= MaxRetries
      BY DEF QInv, RetryInv, RetriesCounted
    <3> QED BY <2>0, <2>1, <2>3, <2>4, <3>1, <3>2, BoundsAssumption DEF RetryEvent
  <2>6. SettledEvent(e)'
    BY <1>0, <1>1, <2>0, <2>1, <2>4 DEF QInv, SettledTruly, SettledEvent
  <2>7. Calm' => task[t].mine /\ made[e] = 0 /\ ev'[e].status \in {"abandoned", "failed"}
    BY <1>0, <1>1, <2>0, <2>1, <2>3, <2>4 DEF QInv, TaskInv, TaskOK, CalmInv, CalmTask
  <2> QED BY <1>0, <1>1, <2>3, <2>4, <2>5, <2>6, <2>7, Recorded DEF Settled
<1>3. CASE Fault /\ UNCHANGED <<ev, age, fails>>
  BY <1>1, <1>3, ReleaseKeeps
<1> QED BY <1>0, <1>2, <1>3 DEF FailWrite

(* Grow keeps the inductive invariant. *)
LEMMA GrowKeeps ==
  ASSUME QInv, NEW e \in Events, Grow(e)
  PROVE  QInv'
BY BoundsAssumption, KindsAssumption, NobodyAssumption
   DEF Grow, QInv, TypeOK, Fresh, Idle, Stale, TaskInv, TaskOK, CalmInv, CalmEvent, CalmTask,
       Calm, Holders, RetryInv, RetriesCounted, SettledTruly, Fault, NoFault

(* Crash keeps the inductive invariant. *)
LEMMA CrashKeeps ==
  ASSUME QInv, NEW w \in Workers, Crash(w)
  PROVE  QInv'
<1>1. ~Calm' /\ faults' \in 0..MaxFaults
  BY Faults, CalmBefore DEF Crash
<1>2. /\ task' \in [Tasks -> Task]
      /\ \A t \in Tasks : task'[t] = task[t] \/ task'[t] = Free
  BY FreeTask DEF Crash, QInv, TypeOK
<1>3. TypeOK'
  BY <1>1, <1>2 DEF Crash, QInv, TypeOK
<1>4. TaskInv'
  BY <1>1, <1>2 DEF QInv, TaskInv, TaskOK, Free
<1>5. CalmInv'
  BY <1>1 DEF CalmInv
<1>6. RetryInv'
  BY <1>1, <1>2 DEF Crash, QInv, RetryInv, RetriesCounted, Free
<1>7. SettledTruly'
  BY DEF Crash, QInv, SettledTruly
<1> QED BY <1>3, <1>4, <1>5, <1>6, <1>7 DEF QInv

-----------------------------------------------------------------------------
(* The theorems *)

(* The inductive invariant holds initially ... *)
LEMMA InitHolds == Init => QInv
<1> SUFFICES ASSUME Init PROVE QInv
  OBVIOUS
<1>1. TypeOK
  BY FreeTask, BoundsAssumption DEF Init, TypeOK, Row, Status, Settled, Fresh
<1>2. \A t \in Tasks : task[t].pc = "free" /\ task[t].of = None /\ ~task[t].mine
  BY DEF Init, Free
<1>3. \A e \in Events : Holders(e) = {}
  BY <1>2 DEF Holders
<1>4. TaskInv
  BY <1>2 DEF TaskInv, TaskOK
<1>5. CalmInv
  BY <1>2, <1>3 DEF Init, CalmInv, CalmEvent, CalmTask
<1>6. RetryInv /\ SettledTruly
  BY <1>2, BoundsAssumption DEF Init, RetryInv, RetriesCounted, SettledTruly
<1> QED BY <1>1, <1>4, <1>5, <1>6 DEF QInv

(* ... and every step keeps it. *)
LEMMA StepHolds == QInv /\ [Next]_vars => QInv'
<1> SUFFICES ASSUME QInv, [Next]_vars PROVE QInv'
  OBVIOUS
<1>1. CASE \E e \in Events : Grow(e)
  BY <1>1, GrowKeeps
<1>2. CASE \E e \in Events, w \in Workers : Deliver(e, w) \/ Replay(e, w)
  BY <1>2, DeliverKeeps, ReplayKeeps
<1>3. CASE \E t \in Tasks : Working(t)
  BY <1>3, TakeSlotKeeps, LoadKeeps, ClaimKeeps, DispatchKeeps, SettleKeeps, FailReadKeeps,
     FailWriteKeeps DEF Working
<1>4. CASE \E w \in Workers : Crash(w)
  BY <1>4, CrashKeeps
<1>5. CASE UNCHANGED vars
  BY <1>5 DEF vars, QInv, TypeOK, TaskInv, TaskOK, CalmInv, CalmEvent, CalmTask, Calm, Holders,
     RetryInv, RetriesCounted, SettledTruly
<1> QED BY <1>1, <1>2, <1>3, <1>4, <1>5 DEF Next

(* The inductive invariant holds of every reachable state of the queue.      *)
THEOREM QueueInvariance == Spec => []QInv
BY InitHolds, StepHolds, PTL DEF Spec

(* Rows, ages, invocations and counters keep their types: an invocation      *)
(* always is about a recorded delivery and at a place of its program.        *)
THEOREM QueueTypes == Spec => []TypeOK
<1>1. QInv => TypeOK
  BY DEF QInv
<1> QED BY <1>1, QueueInvariance, PTL

(* While nothing goes wrong a delivery is never dispatched by two            *)
(* invocations at a time and makes at most one session, for any number of    *)
(* redeliveries, replays, reapers and workers.                               *)
THEOREM CalmDispatchesOnce == Spec => []CalmOnce
<1>1. QInv => CalmOnce
  BY DEF QInv, CalmInv, CalmEvent, CalmOnce
<1> QED BY <1>1, QueueInvariance, PTL

(* processed is only ever written for an event whose handler has run and was *)
(* committed, ignored only for one without a handler; with crashes, lost     *)
(* claims and stale row objects.                                             *)
THEOREM SettledOnlyTruly == Spec => []SettledTruly
<1>1. QInv => SettledTruly
  BY DEF QInv
<1> QED BY <1>1, QueueInvariance, PTL

(* No event is abandoned before MaxRetries failures have been recorded, and  *)
(* the retry count never exceeds the failures.                               *)
THEOREM RetriesAreCounted == Spec => []RetriesCounted
<1>1. QInv => RetriesCounted
  BY DEF QInv, RetryInv
<1> QED BY <1>1, QueueInvariance, PTL

(* A settled row is written by nobody while nothing goes wrong: a claim      *)
(* needs an open row, and who settles it or fails it holds it.               *)
LEMMA TerminalStep ==
  ASSUME QInv, Next, NEW e \in Events, Calm', ev[e].status \in Settled
  PROVE  ev'[e].status = ev[e].status
<1>1. Calm /\ faults' = faults
  <2>1. faults' \in 0..faults
    BY Faults DEF Next, Grow, Deliver, Replay, Working, TakeSlot, Load, Claim, Dispatch, Settle,
       FailRead, FailWrite, Crash, NoFault
  <2> QED BY <2>1, CalmBefore
<1>2. Holders(e) = {}
  BY <1>1 DEF QInv, CalmInv, CalmEvent, Settled
<1>3. ev \in [Events -> Row]
  BY DEF QInv, TypeOK
<1>4. ASSUME NEW f \in Events, NEW w \in Workers, Deliver(f, w)
      PROVE  ev'[e].status = ev[e].status
  BY <1>3, <1>4 DEF Deliver, Settled
<1>5. ASSUME NEW t \in Tasks, Claim(t) PROVE ev'[e].status = ev[e].status
  BY <1>3, <1>5 DEF Claim, Claimable, Settled
<1>6. ASSUME NEW t \in Tasks, Settle(t) PROVE ev'[e].status = ev[e].status
  <2>1. task[t].mine
    BY <1>6 DEF Settle, QInv, TaskInv, TaskOK
  <2>2. task[t].of # e
    BY <1>2, <2>1 DEF Holders
  <2> QED BY <1>3, <1>6, <2>2 DEF Settle, Set
<1>7. ASSUME NEW t \in Tasks, FailWrite(t) PROVE ev'[e].status = ev[e].status
  <2>1. task[t].mine
    BY <1>1, <1>7 DEF FailWrite, QInv, TaskInv, TaskOK
  <2>2. task[t].of # e
    BY <1>2, <2>1 DEF Holders
  <2> QED BY <1>3, <1>7, <2>2 DEF FailWrite
<1>8. CASE UNCHANGED ev
  BY <1>8
<1> QED BY <1>4, <1>5, <1>6, <1>7, <1>8
        DEF Next, Grow, Replay, Working, TakeSlot, Load, Dispatch, FailRead, Crash

(* processed, ignored and abandoned are terminal while nothing goes wrong; a *)
(* fault is enough to lose this.                                             *)
THEOREM CalmKeepsOutcome == Spec => CalmTerminal
<1>1. QInv /\ [Next]_vars => [\A e \in Events : Calm' /\ ev[e].status \in Settled
                                               => ev'[e].status = ev[e].status]_vars
  BY TerminalStep
<1> QED BY <1>1, QueueInvariance, PTL DEF Spec, CalmTerminal

-----------------------------------------------------------------------------
(* The refinement of DeliveryContract                                        *)

(* What the contract sees of the queue. *)
Statuses == [e \in Events |-> ev[e].status]
Tries    == [e \in Events |-> ev[e].tries]
Held     == [e \in Events |-> Holders(e)]

Hidden == UNCHANGED <<Statuses, Tries, Held, ran>>

(* A step that changes one row, or none. *)
LEMMA RowAfter ==
  ASSUME QInv, NEW e \in Events, NEW r \in Row, ev' = [ev EXCEPT ![e] = r]
  PROVE  /\ Statuses' = [Statuses EXCEPT ![e] = r.status]
         /\ Tries' = [Tries EXCEPT ![e] = r.tries]
<1>1. \A f \in Events : ev'[f] = IF f = e THEN r ELSE ev[f]
  BY DEF QInv, TypeOK
<1>2. Statuses' = [f \in Events |-> IF f = e THEN r.status ELSE ev[f].status]
  BY <1>1 DEF Statuses
<1>3. Tries' = [f \in Events |-> IF f = e THEN r.tries ELSE ev[f].tries]
  BY <1>1 DEF Tries
<1> QED BY <1>2, <1>3 DEF Statuses, Tries

LEMMA StatusAfter ==
  ASSUME QInv, NEW e \in Events, NEW st, ev' = [ev EXCEPT ![e].status = st]
  PROVE  /\ Statuses' = [Statuses EXCEPT ![e] = st]
         /\ Tries' = Tries
<1>1. \A f \in Events : /\ ev'[f].status = IF f = e THEN st ELSE ev[f].status
                        /\ ev'[f].tries = ev[f].tries
  BY DEF QInv, TypeOK, Row
<1>2. Statuses' = [f \in Events |-> IF f = e THEN st ELSE ev[f].status]
  BY <1>1 DEF Statuses
<1>3. Tries' = [f \in Events |-> ev[f].tries]
  BY <1>1 DEF Tries
<1> QED BY <1>2, <1>3 DEF Statuses, Tries

(* Who holds what changes only where an invocation takes or drops a row. *)
LEMMA HeldKept ==
  ASSUME \A s \in Tasks : \A f \in Events : s \in Holders(f)' <=> s \in Holders(f)
  PROVE  Held' = Held
<1>1. \A f \in Events : Holders(f)' = Holders(f)
  BY DEF Holders
<1> QED BY <1>1 DEF Held

LEMMA HeldAfter ==
  ASSUME QInv, NEW t \in Tasks, NEW e \in Events, OnlyTask(t, e)
  PROVE  Held' = [Held EXCEPT ![e] = Holders(e)']
<1>1. \A f \in Events : f # e => Holders(f)' = Holders(f)
  BY HoldersAfter
<1> QED BY <1>1 DEF Held

(* A step of an invocation that stays what it was to its row. *)
LEMMA StaysQuiet ==
  ASSUME QInv, NEW t \in Tasks, NEW v, task' = [task EXCEPT ![t] = v],
         v.mine <=> task[t].mine, v.mine => v.of = task[t].of, UNCHANGED <<ev, ran>>
  PROVE  Hidden
<1>1. task'[t] = v /\ \A s \in Tasks : s # t => task'[s] = task[s]
  BY DEF QInv, TypeOK
<1>2. \A s \in Tasks : \A f \in Events : s \in Holders(f)' <=> s \in Holders(f)
  BY <1>1 DEF Holders
<1>3. Held' = Held
  BY <1>2, HeldKept
<1> QED BY <1>3 DEF Hidden, Statuses, Tries

(* An invocation that holds its row while nothing goes wrong. *)
LEMMA HolderAlone ==
  ASSUME QInv, Calm, NEW t \in Tasks, task[t].mine
  PROVE  /\ task[t].of \in Events
         /\ Holders(task[t].of) = {t}
         /\ ev[task[t].of].status = "processing"
         /\ task[t] \in Task
<1>1. task[t].pc # "free"
  BY DEF QInv, TaskInv, TaskOK
<1>2. task[t].of \in Events /\ task[t] \in Task
  BY <1>1, Shape
<1>3. t \in Holders(task[t].of)
  BY DEF Holders
<1>4. Holders(task[t].of) \subseteq Tasks /\ CalmEvent(task[t].of)
  BY <1>2 DEF QInv, CalmInv, Holders
<1> QED BY <1>2, <1>3, <1>4 DEF CalmEvent

(* Giving a held row up leaves it to nobody. *)
LEMMA LetsGo ==
  ASSUME QInv, Calm, NEW t \in Tasks, task[t].mine, Release(t)
  PROVE  Held' = [Held EXCEPT ![task[t].of] = {}]
<1>1. PICK e \in Events : e = task[t].of /\ Holders(e) = {t}
  BY HolderAlone
<1>2. task[t].of = e
  BY <1>1
<1>3. task'[t] = Free /\ OnlyTask(t, e)
  <2>1. Free.of = None
    BY DEF Free
  <2> QED BY <1>2, <2>1, FreeTask, Replaced DEF Release
<1>4. Holders(e)' = Holders(e) \ {t}
  <2>1. ~Free.mine
    BY DEF Free
  <2> QED BY <1>3, <2>1, HoldersAfter
<1>5. Held' = [Held EXCEPT ![e] = {}]
  BY <1>1, <1>3, <1>4, HeldAfter
<1> QED BY <1>2, <1>5

-----------------------------------------------------------------------------
(* One lemma per action, for a step without a fault in calm. *)

LEMMA DeliverRecords ==
  ASSUME QInv, NoFault, NEW e \in Events, NEW w \in Workers, Deliver(e, w), Calm'
  PROVE  Contract!Record(e)
<1>3. /\ Statuses' = [Statuses EXCEPT ![e] = "pending"]
      /\ Tries' = Tries
  BY StatusAfter DEF Deliver
<1>4. PICK t \in Tasks : task[t].pc = "free" /\ Spawn(t, e, w, "load")
  BY Faults DEF Deliver
<1>5. ~task[t].mine
  BY <1>4 DEF QInv, TaskInv, TaskOK
<1>6. task'[t] = [Free EXCEPT !.pc = "load", !.of = e, !.at = w]
      /\ \A s \in Tasks : s # t => task'[s] = task[s]
  BY <1>4 DEF Spawn, QInv, TypeOK
<1>7. \A s \in Tasks : \A f \in Events : s \in Holders(f)' <=> s \in Holders(f)
  BY <1>5, <1>6 DEF Holders, Free
<1>8. Held' = Held
  BY <1>7, HeldKept
<1>9. Statuses[e] = "absent" /\ UNCHANGED ran
  BY DEF Deliver, Statuses
<1> QED BY <1>3, <1>8, <1>9 DEF Contract!Record, Statuses, Tries, Held

LEMMA ReplayHidden ==
  ASSUME QInv, NEW e \in Events, NEW w \in Workers, Replay(e, w)
  PROVE  Hidden
<1>1. PICK t \in Tasks : task[t].pc = "free" /\ Spawn(t, e, w, "queued")
  BY DEF Replay
<1>2. ~task[t].mine
  BY <1>1 DEF QInv, TaskInv, TaskOK
<1>3. ~[Free EXCEPT !.pc = "queued", !.of = e, !.at = w].mine
  BY DEF Free
<1>4. UNCHANGED <<ev, ran>>
  BY DEF Replay
<1> QED BY <1>1, <1>2, <1>3, <1>4, StaysQuiet DEF Spawn

LEMMA WaitingHidden ==
  ASSUME QInv, Calm', NEW t \in Tasks, TakeSlot(t) \/ Load(t) \/ FailRead(t)
  PROVE  Hidden
<1>0. task[t] \in Task
  BY DEF QInv, TypeOK
<1>1. CASE TakeSlot(t)
  <2>1. task' = [task EXCEPT ![t] = [task[t] EXCEPT !.pc = "load", !.slot = TRUE]]
    BY <1>1 DEF TakeSlot, QInv, TypeOK
  <2> QED BY <1>0, <1>1, <2>1, StaysQuiet DEF TakeSlot, Task
<1>2. CASE Load(t)
  <2>1. task' = [task EXCEPT ![t] = [task[t] EXCEPT !.pc = "claim", !.saw = ev[task[t].of].status]]
    BY <1>2, Faults DEF Load, QInv, TypeOK
  <2> QED BY <1>0, <1>2, <2>1, StaysQuiet DEF Load, Task
<1>3. CASE FailRead(t)
  <2>1. task' = [task EXCEPT ![t] = [task[t] EXCEPT !.pc = "fail", !.saw = ev[task[t].of].status,
                                                    !.tries = ev[task[t].of].tries]]
    BY <1>3, Faults DEF FailRead, QInv, TypeOK
  <2> QED BY <1>0, <1>3, <2>1, StaysQuiet DEF FailRead, Task
<1> QED BY <1>1, <1>2, <1>3

LEMMA ClaimHolds ==
  ASSUME QInv, Calm, Calm', NEW t \in Tasks, Claim(t)
  PROVE  Hidden \/ \E e \in Events : Contract!Hold(e, t)
<1>0. PICK e \in Events : e = task[t].of /\ e # None /\ task[t] \in Task /\ ev[e] \in Row
  BY Shape DEF Claim
<1>1. ~task[t].mine
  BY DEF Claim, QInv, TaskInv, TaskOK
<1>2. CASE Claimable(e)
  <2>1. /\ ev' = [ev EXCEPT ![e].status = "processing"]
        /\ task' = [task EXCEPT ![t].pc = "dispatch", ![t].mine = TRUE]
        /\ UNCHANGED ran
    BY <1>0, <1>2, Faults DEF Claim
  <2>2. Holders(e) = {} /\ ev[e].status \in {"pending", "failed"}
    BY <1>2 DEF Claimable, QInv, CalmInv, CalmEvent
  <2>4. Statuses' = [Statuses EXCEPT ![e] = "processing"] /\ Tries' = Tries
    BY <2>1, StatusAfter
  <2>5. PICK v \in Task : v.of = e /\ v.mine /\ task' = [task EXCEPT ![t] = v]
    <3> DEFINE v == [task[t] EXCEPT !.pc = "dispatch", !.mine = TRUE]
    <3>1. v \in Task /\ v.of = e /\ v.mine
      BY <1>0 DEF Task, TaskPC
    <3>2. task' = [task EXCEPT ![t] = v]
      BY <2>1 DEF QInv, TypeOK
    <3> QED BY <3>1, <3>2
  <2>6. OnlyTask(t, e) /\ task'[t] = v
    BY <1>0, <2>5, Replaced
  <2>7. Holders(e)' = {t}
    BY <2>2, <2>5, <2>6, HoldersAfter
  <2>8. Held' = [Held EXCEPT ![e] = {t}]
    BY <2>6, <2>7, HeldAfter
  <2>9. Statuses[e] \in {"pending", "failed"} /\ Held[e] = {} /\ Tries[e] < MaxRetries
    BY <1>2, <2>2 DEF Claimable, Statuses, Held, Tries
  <2>10. Contract!Hold(e, t)
    BY <2>1, <2>4, <2>8, <2>9 DEF Contract!Hold, Statuses, Tries, Held
  <2> QED BY <2>10
<1>3. CASE ~Claimable(e)
  <2>1. Release(t) /\ UNCHANGED <<ev, ran>>
    BY <1>0, <1>3, Faults DEF Claim
  <2>2. ~Free.mine
    BY DEF Free
  <2> QED BY <1>1, <2>1, <2>2, StaysQuiet DEF Release
<1> QED BY <1>2, <1>3

LEMMA DispatchWorks ==
  ASSUME QInv, Calm, NEW t \in Tasks, Dispatch(t)
  PROVE  Hidden \/ \E e \in Events : Contract!Work(e, t)
<1>0. task[t].mine /\ task[t] \in Task
  BY DEF Dispatch, QInv, TypeOK, TaskInv, TaskOK
<1>1. PICK pc : Move(t, pc)
  BY DEF Dispatch
<1>2. task' = [task EXCEPT ![t] = [task[t] EXCEPT !.pc = pc]]
  BY <1>1 DEF Move, QInv, TypeOK
<1>3. CASE UNCHANGED ran
  BY <1>0, <1>2, <1>3, StaysQuiet DEF Dispatch, Task
<1>4. CASE ran' = ran \cup {task[t].of}
  <2>1. /\ task[t].of \in Events
        /\ Holders(task[t].of) = {t}
        /\ ev[task[t].of].status = "processing"
    BY <1>0, HolderAlone
  <2>2. task'[t].mine = task[t].mine /\ task'[t].of = task[t].of
        /\ \A s \in Tasks : s # t => task'[s] = task[s]
    BY <1>0, <1>2 DEF Task, QInv, TypeOK
  <2>3. \A s \in Tasks : \A f \in Events : s \in Holders(f)' <=> s \in Holders(f)
    BY <2>2 DEF Holders
  <2>4. Held' = Held
    BY <2>3, HeldKept
  <2>5. Statuses' = Statuses /\ Tries' = Tries
    BY DEF Dispatch, Statuses, Tries
  <2>6. Held[task[t].of] = {t} /\ Statuses[task[t].of] = "processing"
    BY <2>1 DEF Held, Statuses
  <2>7. Contract!Work(task[t].of, t)
    BY <1>4, <2>4, <2>5, <2>6 DEF Contract!Work, Statuses, Tries, Held
  <2> QED BY <2>1, <2>7
<1> QED BY <1>3, <1>4 DEF Dispatch

LEMMA SettleFinishes ==
  ASSUME QInv, Calm, Calm', NEW t \in Tasks, Settle(t)
  PROVE  \E e \in Events : \E outcome \in {"processed", "ignored"} : Contract!Finish(e, t, outcome)
<1>0. task[t].mine
  BY DEF Settle, QInv, TaskInv, TaskOK
<1>1. PICK e \in Events : /\ e = task[t].of
                          /\ Holders(e) = {t}
                          /\ ev[e].status = "processing"
                          /\ task[t] \in Task
                          /\ ev[e] \in Row
  BY <1>0, HolderAlone DEF QInv, TypeOK
<1>2. PICK outcome \in {"processed", "ignored"} :
         outcome = IF task[t].pc = "handled" THEN "processed" ELSE "ignored"
  OBVIOUS
<1>3. /\ Set(e, task[t].saw, outcome)
      /\ ran' = IF task[t].pc = "handled" THEN ran \cup {e} ELSE ran
      /\ Release(t)
  BY <1>1, <1>2, Faults DEF Settle
<1>4. task[t].saw # outcome
  BY DEF Settle, QInv, CalmInv, CalmTask, Settled
<1>5. ev' = [ev EXCEPT ![e].status = outcome]
  BY <1>3, <1>4 DEF Set
<1>6. Statuses' = [Statuses EXCEPT ![e] = outcome] /\ Tries' = Tries
  BY <1>5, StatusAfter
<1>7. Held' = [Held EXCEPT ![e] = {}]
  BY <1>0, <1>1, <1>3, LetsGo
<1>8. ran' = IF outcome = "processed" THEN ran \cup {e} ELSE ran
  BY <1>2, <1>3
<1>9. Held[e] = {t} /\ Statuses[e] = "processing"
  BY <1>1 DEF Held, Statuses
<1>10. Contract!Finish(e, t, outcome)
  BY <1>6, <1>7, <1>8, <1>9 DEF Contract!Finish, Statuses, Tries, Held
<1> QED BY <1>10

LEMMA FailGivesBack ==
  ASSUME QInv, Calm, Calm', NEW t \in Tasks, FailWrite(t)
  PROVE  \E e \in Events : Contract!GiveBack(e, t)
<1>0. task[t].mine
  BY DEF FailWrite, QInv, TaskInv, TaskOK
<1>1. PICK e \in Events : /\ e = task[t].of
                          /\ Holders(e) = {t}
                          /\ ev[e].status = "processing"
                          /\ task[t] \in Task
                          /\ ev[e] \in Row
  BY <1>0, HolderAlone DEF QInv, TypeOK
<1>2. task[t].saw = "processing" /\ task[t].tries = ev[e].tries
  BY <1>1 DEF FailWrite, QInv, CalmInv, CalmTask, RetryInv, RetriesCounted
<1> DEFINE r == [status |-> IF ev[e].tries + 1 >= MaxRetries THEN "abandoned" ELSE "failed",
                 tries |-> ev[e].tries + 1]
<1>3. ev' = [ev EXCEPT ![e] = r] /\ Release(t) /\ UNCHANGED ran
  BY <1>1, <1>2, Faults DEF FailWrite
<1>4. r \in Row
  BY <1>1 DEF Row, Status, Settled
<1>5. Statuses' = [Statuses EXCEPT ![e] = r.status] /\ Tries' = [Tries EXCEPT ![e] = r.tries]
  BY <1>3, <1>4, RowAfter
<1>6. Held' = [Held EXCEPT ![e] = {}]
  BY <1>0, <1>1, <1>3, LetsGo
<1>7. Held[e] = {t} /\ Statuses[e] = "processing" /\ Tries[e] = ev[e].tries
  BY <1>1 DEF Held, Statuses, Tries
<1>8. /\ Statuses' = [Statuses EXCEPT ![e] = IF Tries[e] + 1 >= MaxRetries
                                             THEN "abandoned" ELSE "failed"]
      /\ Tries' = [Tries EXCEPT ![e] = @ + 1]
  BY <1>5, <1>7 DEF r
<1>9. Contract!GiveBack(e, t)
  BY <1>3, <1>6, <1>7, <1>8 DEF Contract!GiveBack, Statuses, Tries, Held
<1> QED BY <1>9

-----------------------------------------------------------------------------

(* In calm every step is one that was promised, or hidden. *)
LEMMA CalmStep ==
  ASSUME QInv, Next, Calm'
  PROVE  \/ Calm /\ \E e \in Events : Contract!Promised(e)
         \/ Calm /\ Hidden
<1>1. Calm
  <2>1. faults' \in 0..faults
    BY Faults DEF Next, Grow, Deliver, Replay, Working, TakeSlot, Load, Claim, Dispatch, Settle,
       FailRead, FailWrite, Crash, NoFault
  <2> QED BY <2>1, CalmBefore
<1>2. ASSUME NEW e \in Events, Grow(e) PROVE Hidden
  BY <1>2 DEF Grow, Hidden, Statuses, Tries, Held, Holders
<1>3. ASSUME NEW e \in Events, NEW w \in Workers, Deliver(e, w) PROVE Contract!Promised(e)
  <2>1. NoFault
    BY <1>3, Faults DEF Deliver
  <2>2. Contract!Record(e)
    BY <1>3, <2>1, DeliverRecords
  <2> QED BY <2>2 DEF Contract!Promised
<1>4. ASSUME NEW t \in Tasks, Working(t)
      PROVE  Hidden \/ \E e \in Events : Contract!Promised(e)
  BY <1>1, <1>4, WaitingHidden, ClaimHolds, DispatchWorks, SettleFinishes, FailGivesBack
     DEF Working, Contract!Promised
<1>5. ASSUME NEW w \in Workers, Crash(w) PROVE FALSE
  BY <1>5, Faults DEF Crash
<1> QED BY <1>1, <1>2, <1>3, <1>4, <1>5, ReplayHidden DEF Next

(* Whatever goes wrong, no row disappears. *)
LEMMA RowsStay ==
  ASSUME QInv, Next, NEW e \in Events, ev[e].status # "absent"
  PROVE  ev'[e].status # "absent"
<1>0. ev \in [Events -> Row]
  BY DEF QInv, TypeOK
<1>1. ASSUME NEW f \in Events, NEW w \in Workers, Deliver(f, w) PROVE ev'[e].status # "absent"
  BY <1>0, <1>1 DEF Deliver
<1>2. ASSUME NEW t \in Tasks, Claim(t) PROVE ev'[e].status # "absent"
  <2>1. CASE UNCHANGED ev
    BY <2>1
  <2>2. CASE ev' = [ev EXCEPT ![task[t].of].status = "processing"]
    BY <1>0, <2>2
  <2> QED BY <1>2, <2>1, <2>2 DEF Claim
<1>3. ASSUME NEW t \in Tasks, Settle(t) PROVE ev'[e].status # "absent"
  <2>1. CASE UNCHANGED ev
    BY <2>1
  <2>2. ASSUME NEW outcome \in {"processed", "ignored"}, Set(task[t].of, task[t].saw, outcome)
        PROVE  ev'[e].status # "absent"
    BY <1>0, <2>2 DEF Set
  <2> QED BY <1>3, <2>1, <2>2 DEF Settle
<1>4. ASSUME NEW t \in Tasks, FailWrite(t) PROVE ev'[e].status # "absent"
  BY <1>0, <1>4 DEF FailWrite
<1>5. CASE UNCHANGED ev
  BY <1>5
<1> QED BY <1>1, <1>2, <1>3, <1>4, <1>5
        DEF Next, Grow, Replay, Working, TakeSlot, Load, Dispatch, FailRead, Crash

LEMMA AstrayStep ==
  ASSUME QInv, Next, ~Calm'
  PROVE  Contract!Astray
<1>1. ran \subseteq ran'
  BY DEF Next, Grow, Deliver, Replay, Working, TakeSlot, Load, Claim, Dispatch, Settle, FailRead,
     FailWrite, Crash
<1>2. SettledTruly'
  BY StepHolds DEF QInv
<1>3. \A e \in Events : ev[e].status # "absent" => ev'[e].status # "absent"
  BY RowsStay
<1> QED BY <1>1, <1>2, <1>3 DEF Contract!Astray, SettledTruly

(* Each step of the queue is one of the contract, or hidden from it. *)
LEMMA ContractStep ==
  ASSUME QInv, [Next]_vars
  PROVE  [Contract!QueueNext]_(Contract!queue)
<1>1. CASE Next /\ Calm'
  <2>1. CASE Calm /\ \E e \in Events : Contract!Promised(e)
    BY <1>1, <2>1 DEF Contract!QueueNext
  <2>2. CASE Calm /\ Hidden
    BY <1>1, <2>2 DEF Contract!queue, Hidden, Statuses, Tries, Held
  <2> QED BY <1>1, <2>1, <2>2, CalmStep
<1>2. CASE Next /\ ~Calm'
  BY <1>2, AstrayStep DEF Contract!QueueNext
<1>3. CASE UNCHANGED vars
  BY <1>3 DEF vars, Contract!queue, Holders, Calm
<1> QED BY <1>1, <1>2, <1>3

(* The queue implements the contract of a delivery: while nothing goes wrong *)
(* one invocation at a time holds it, and that one finishes it for good or   *)
(* gives it back with its failure counted; and whatever goes wrong, nothing  *)
(* is forgotten, nor called processed before it was.                         *)
THEOREM QueueContractKept == Spec => KeepsQueueContract
<1>1. Init => Contract!QueueInit
  <2> SUFFICES ASSUME Init PROVE Contract!QueueInit
    OBVIOUS
  <2>1. \A e \in Events : Holders(e) = {} /\ ev[e].status = "absent" /\ ev[e].tries = 0
    BY DEF Init, Holders, Free
  <2>2. ran = {} /\ Calm
    BY DEF Init, Calm
  <2> QED BY <2>1, <2>2 DEF Contract!QueueInit
<1>2. QInv /\ [Next]_vars => [Contract!QueueNext]_(Contract!queue)
  BY ContractStep
<1> QED BY <1>1, <1>2, QueueInvariance, PTL DEF Spec, KeepsQueueContract, Contract!QueueSpec

=============================================================================
