------------------------- MODULE InstallationsProofs -------------------------
(* Proofs about Installations, for any number of dispatches, requests,       *)
(* deliveries, retries and faults.                                           *)
EXTENDS Installations, SequenceTheorems, TLAPS

(* What a delivery tells those who have been told b, and what they know then: *)
(* a suspension without a handler tells nothing, and one that was not told   *)
(* may be told to have ended.                                                *)
Tells == {<<"none", "created", "active">>}
         \cup {<<b, a, b>> : b \in {"active", "suspended"}, a \in {"suspend", "unsuspend"}}
         \cup {<<b, "suspended", "suspended">> : b \in {"active", "suspended"}}
         \cup {<<b, "unsuspended", "active">> : b \in {"active", "suspended"}}
         \cup {<<b, "deleted", "deleted">> : b \in {"active", "suspended"}}

(* What GitHub sends is one life of an installation, and whoever is told of  *)
(* it knows when it has come to be and when it is gone.                      *)
HistoryInv == \A e \in DOMAIN event :
  /\ <<event[e].before, event[e].action, event[e].after>> \in Tells
  /\ event[e].before = IF e = 1 THEN "none" ELSE event[e-1].after
  /\ event[e].life = "deleted" <=> event[e].after = "deleted"
  /\ event[e].life # "none"

(* A row that is there is never taken away. *)
RowInv ==
  /\ ~row.exists => row = Blank
  /\ \A t \in Tasks : task[t].pc = "read" /\ task[t].seen.exists => row.exists
  /\ \A r \in Requests : req[r].pc = "found" => row.exists

Started(e) == event[e].status # "pending"
Current(e) == Started(e) /\ \A i \in DOMAIN event : e < i => ~Started(i)

StartInv == \A t \in Tasks : task[t].pc = "read" => Started(task[t].of)

(* As long as the order is kept, all there is under way is one event: what   *)
(* came before it is settled, and the row shows the state before it or     *)
(* after it.  Whoever has seen it done need not do it.                       *)
OrderInv == orderly =>
  /\ \A i, j \in DOMAIN event : i < j /\ Started(j) => Settled(i)
  /\ (\A e \in DOMAIN event : ~Started(e)) => Shows(row) = "none"
  /\ \A e \in DOMAIN event : Current(e) =>
       /\ Shows(row) \in {event[e].before, event[e].after}
       /\ Settled(e) => Shows(row) = event[e].after
  /\ \A t \in Tasks : task[t].pc = "read" =>
       /\ Current(task[t].of)
       /\ Shows(task[t].seen) \in {event[task[t].of].before, event[task[t].of].after}
       /\ Shows(task[t].seen) = event[task[t].of].after => Shows(row) = event[task[t].of].after

IInv == TypeOK /\ HistoryInv /\ RowInv /\ StartInv /\ OrderInv

-----------------------------------------------------------------------------
(* What is known before a step. *)
LEMMA Types ==
  ASSUME TypeOK
  PROVE  /\ event \in Seq(Event)
         /\ Len(event) \in Nat
         /\ DOMAIN event = 1..Len(event)
         /\ \A e \in DOMAIN event : event[e] \in Event
         /\ row \in Row
         /\ task \in [Tasks -> Task]
         /\ req \in [Requests -> Request]
         /\ orderly \in BOOLEAN
         /\ faults \in 0..MaxFaults
         /\ \A t \in Tasks : task[t].seen \in Row
         /\ \A r \in Requests : req[r].seen \in Row
         /\ \A t \in Tasks : task[t].pc = "read" => task[t].of \in DOMAIN event
         /\ \A e \in DOMAIN event : event[e].status = "failed" => event[e].tries < MaxRetries
<1>1. event \in Seq(Event)
  BY DEF TypeOK
<1>2. Len(event) \in Nat /\ DOMAIN event = 1..Len(event)
  BY <1>1
<1>3. \A e \in DOMAIN event : event[e] \in Event
  BY <1>1, <1>2, ElementOfSeq
<1> QED BY <1>1, <1>2, <1>3 DEF TypeOK, Task, Request

LEMMA Shapes == Blank \in Row /\ Free \in Task /\ Done \in Request
BY DEF Blank, Free, Done, Row, Task, Request

LEMMA InstallationsInit == Init => IInv
<1> SUFFICES ASSUME Init PROVE IInv
  OBVIOUS
<1>1. event = <<>> /\ DOMAIN event = {} /\ event \in Seq(Event)
  BY DEF Init
<1>2. TypeOK
  <2>1. task \in [Tasks -> Task] /\ req \in [Requests -> Request] /\ row \in Row
    BY Shapes DEF Init, Request
  <2> QED BY <1>1, <2>1, InstallationsAssumption DEF Init, TypeOK, Free
<1>3. HistoryInv /\ StartInv /\ RowInv
  BY <1>1 DEF Init, HistoryInv, StartInv, RowInv, Free
<1>4. OrderInv
  BY <1>1 DEF Init, OrderInv, Free, Shows, Blank
<1> QED BY <1>2, <1>3, <1>4 DEF IInv

(* An event of which nothing but the bookkeeping changes. *)
Only(e, status) ==
  /\ event' \in Seq(Event)
  /\ Len(event') = Len(event) /\ DOMAIN event' = DOMAIN event
  /\ \A i \in DOMAIN event : i # e => event'[i] = event[i]
  /\ event'[e].action = event[e].action
  /\ event'[e].life = event[e].life
  /\ event'[e].before = event[e].before
  /\ event'[e].after = event[e].after
  /\ event'[e].status = status
  /\ status = "failed" => event'[e].tries < MaxRetries

LEMMA Written ==
  ASSUME TypeOK, NEW e \in DOMAIN event, NEW x \in Event,
         event' = [event EXCEPT ![e] = x],
         x.action = event[e].action, x.life = event[e].life,
         x.before = event[e].before, x.after = event[e].after,
         x.status = "failed" => x.tries < MaxRetries
  PROVE  Only(e, x.status)
<1>1. e \in 1..Len(event) /\ event \in Seq(Event)
  BY Types
<1>2. /\ event' \in Seq(Event) /\ Len(event') = Len(event)
      /\ \A j \in 1..Len(event) : event'[j] = IF j = e THEN x ELSE event[j]
  BY <1>1, ExceptSeq
<1>3. DOMAIN event' = DOMAIN event
  BY <1>1, <1>2
<1> QED BY <1>1, <1>2, <1>3, Types DEF Only

LEMMA OnlyHistory ==
  ASSUME IInv, NEW e \in DOMAIN event, NEW s, Only(e, s)
  PROVE  HistoryInv'
<1>1. \A i \in DOMAIN event : /\ event'[i].action = event[i].action
                              /\ event'[i].life = event[i].life
                              /\ event'[i].before = event[i].before
                              /\ event'[i].after = event[i].after
  BY DEF Only
<1>2. \A i \in DOMAIN event : i # 1 => i-1 \in DOMAIN event
  BY Types DEF IInv
<1>3. DOMAIN event' = DOMAIN event
  BY DEF Only
<1>4. ASSUME NEW i \in DOMAIN event'
      PROVE  /\ <<event'[i].before, event'[i].action, event'[i].after>> \in Tells
             /\ event'[i].before = IF i = 1 THEN "none" ELSE event'[i-1].after
             /\ event'[i].life = "deleted" <=> event'[i].after = "deleted"
             /\ event'[i].life # "none"
  <2>1. /\ <<event[i].before, event[i].action, event[i].after>> \in Tells
        /\ event[i].before = IF i = 1 THEN "none" ELSE event[i-1].after
        /\ event[i].life = "deleted" <=> event[i].after = "deleted"
        /\ event[i].life # "none"
    BY <1>3, <1>4 DEF IInv, HistoryInv
  <2>2. i # 1 => event'[i-1].after = event[i-1].after
    BY <1>1, <1>2, <1>3, <1>4
  <2> QED BY <1>1, <1>3, <1>4, <2>1, <2>2
<1> QED BY <1>4 DEF HistoryInv

-----------------------------------------------------------------------------
(* Deliveries arrive. *)

LEMMA TellsTruth ==
  ASSUME IInv
  PROVE  /\ Told \in Life
         /\ Truth = "none" <=> Told = "none"
         /\ Truth = "deleted" <=> Told = "deleted"
<1>1. event \in Seq(Event) /\ Len(event) \in Nat /\ DOMAIN event = 1..Len(event)
  BY Types DEF IInv
<1>2. CASE event = <<>>
  BY <1>2 DEF Truth, Told, Life
<1>3. CASE event # <<>>
  <2>1. Len(event) \in DOMAIN event
    BY <1>1, <1>3, EmptySeq
  <2>2. event[Len(event)].after # "none"
    BY <2>1 DEF IInv, HistoryInv, Tells
  <2>3. event[Len(event)].after \in Life
    BY <2>1, Types DEF IInv, Event
  <2>4. /\ event[Len(event)].life = "deleted" <=> event[Len(event)].after = "deleted"
        /\ event[Len(event)].life # "none"
    BY <2>1 DEF IInv, HistoryInv
  <2>5. Told = event[Len(event)].after /\ Truth = event[Len(event)].life
    BY <1>3 DEF Told, Truth
  <2> QED BY <2>2, <2>3, <2>4, <2>5
<1> QED BY <1>2, <1>3

LEMMA EmitStep ==
  ASSUME IInv, Emit
  PROVE  IInv'
<1> DEFINE n == Len(event)
<1>1. PICK h \in Happens :
        /\ h[1] = Truth
        /\ event' = Append(event, [action |-> h[2], life |-> h[3], before |-> Told,
                                   after |-> IF h[2] \in Handled THEN h[3] ELSE Told,
                                   status |-> "pending", tries |-> 0])
  BY DEF Emit
<1> DEFINE after == IF h[2] \in Handled THEN h[3] ELSE Told
           x == [action |-> h[2], life |-> h[3], before |-> Told, after |-> after,
                 status |-> "pending", tries |-> 0]
<1>0. h = <<h[1], h[2], h[3]>> /\ h[1] \in Life /\ h[2] \in Action /\ h[3] \in Life
  BY DEF Happens, Life, Action, Handled
<1>2. /\ x.status = "pending" /\ x.before = Told /\ x.life = h[3]
      /\ <<x.before, x.action, x.after>> \in Tells
      /\ (x.life = "deleted" <=> x.after = "deleted") /\ x.life # "none"
      /\ x \in Event
  <2>1. Told \in Life
    BY TellsTruth
  <2>2. after \in Life
    BY <1>0, <2>1
  <2>3. /\ Truth = "none" <=> Told = "none"
        /\ Truth = "deleted" <=> Told = "deleted"
    BY TellsTruth
  <2>4. /\ <<Told, h[2], after>> \in Tells
        /\ h[3] = "deleted" <=> after = "deleted"
        /\ h[3] # "none"
    BY <1>0, <1>1, <2>1, <2>3 DEF Happens, Tells, Handled, Life
  <2> HIDE DEF after
  <2> QED BY <1>0, <2>1, <2>2, <2>4 DEF Event
<1>3. event' = Append(event, x) /\ UNCHANGED <<row, task, req, orderly, faults>>
  BY <1>1 DEF Emit
<1> HIDE DEF x, after
<1>4. /\ event \in Seq(Event) /\ n \in Nat
      /\ DOMAIN event = 1..n
  BY Types DEF IInv
<1>5. /\ event' \in Seq(Event) /\ Len(event') = n + 1
      /\ \A i \in DOMAIN event : event'[i] = event[i]
      /\ event'[n+1] = x
  BY <1>2, <1>3, <1>4, AppendProperties
<1>6. DOMAIN event' = 1..(n+1)
  BY <1>5
<1>7. TypeOK'
  <2>1. \A t \in Tasks : task'[t].pc = "read" => task'[t].of \in DOMAIN event'
    BY <1>3, <1>4, <1>6, Types DEF IInv
  <2>2. \A e \in DOMAIN event' : event'[e].status = "failed" => event'[e].tries < MaxRetries
    BY <1>2, <1>4, <1>5, <1>6, Types DEF IInv
  <2> QED BY <1>3, <1>5, <2>1, <2>2 DEF IInv, TypeOK
<1>8. HistoryInv'
  <2> SUFFICES ASSUME NEW e \in DOMAIN event'
               PROVE  /\ <<event'[e].before, event'[e].action, event'[e].after>> \in Tells
                      /\ event'[e].before = IF e = 1 THEN "none" ELSE event'[e-1].after
                      /\ event'[e].life = "deleted" <=> event'[e].after = "deleted"
                      /\ event'[e].life # "none"
    BY DEF HistoryInv
  <2>1. CASE e \in DOMAIN event
    <3>1. e # 1 => e-1 \in DOMAIN event
      BY <1>4, <2>1
    <3> QED BY <1>5, <2>1, <3>1 DEF IInv, HistoryInv
  <2>2. CASE e = n+1
    <3>1. x.before = IF e = 1 THEN "none" ELSE event'[e-1].after
      <4>1. CASE n = 0
        BY <1>2, <1>4, <2>2, <4>1, EmptySeq DEF Told
      <4>2. CASE n # 0
        <5>1. n \in DOMAIN event /\ event # <<>> /\ e # 1 /\ e-1 = n
          BY <1>4, <2>2, <4>2
        <5> QED BY <1>2, <1>5, <5>1 DEF Told
      <4> QED BY <4>1, <4>2
    <3> QED BY <1>2, <1>5, <2>2, <3>1
  <2> QED BY <1>4, <1>6, <2>1, <2>2
<1>9. RowInv'
  BY <1>3 DEF IInv, RowInv
<1>10. \A t \in Tasks : task[t].pc = "read" => event'[task[t].of] = event[task[t].of]
  BY <1>5, Types DEF IInv
<1>11. StartInv'
  BY <1>3, <1>10 DEF IInv, StartInv, Started
<1>12. OrderInv'
  <2> SUFFICES ASSUME orderly PROVE OrderInv'
    BY <1>3 DEF OrderInv
  <2> DEFINE S(e) == event'[e].status # "pending"
             C(e) == S(e) /\ \A i \in DOMAIN event' : e < i => ~S(i)
  <2>1. \A e : (Started(e)' <=> S(e)) /\ (Current(e)' <=> C(e))
    BY DEF Started, Current
  <2>2. ~S(n+1) /\ \A e \in DOMAIN event : S(e) <=> Started(e)
    BY <1>2, <1>5 DEF Started
  <2>3. \A e \in DOMAIN event' : S(e) => e \in DOMAIN event
    BY <1>4, <1>6, <2>2
  <2>4. DOMAIN event \subseteq DOMAIN event'
    BY <1>4, <1>6
  <2> HIDE DEF S
  <2>5. \A e \in DOMAIN event : C(e) <=> Current(e)
    BY <2>2, <2>3, <2>4 DEF Current
  <2>6. \A e \in DOMAIN event' : C(e) => e \in DOMAIN event
    BY <2>3
  <2> HIDE DEF C
  <2>7. \A i, j \in DOMAIN event' : i < j /\ S(j) => event'[i].status \in {"processed", "ignored"}
    <3>1. \A i \in DOMAIN event', j \in DOMAIN event : i < j => i \in DOMAIN event
      BY <1>4, <1>6
    <3> QED BY <1>5, <2>2, <2>3, <3>1 DEF IInv, OrderInv, Settled
  <2>8. (\A e \in DOMAIN event' : ~S(e)) => Shows(row) = "none"
    BY <2>2, <2>4 DEF IInv, OrderInv
  <2>9. \A e \in DOMAIN event' : C(e) =>
          /\ Shows(row) \in {event'[e].before, event'[e].after}
          /\ event'[e].status \in {"processed", "ignored"} => Shows(row) = event'[e].after
    BY <1>5, <2>5, <2>6 DEF IInv, OrderInv, Settled
  <2>10. \A t \in Tasks : task[t].pc = "read" =>
          /\ C(task[t].of)
          /\ Shows(task[t].seen) \in {event'[task[t].of].before, event'[task[t].of].after}
          /\ Shows(task[t].seen) = event'[task[t].of].after => Shows(row) = event'[task[t].of].after
    BY <1>10, <2>5, Types DEF IInv, OrderInv
  <2> QED BY <1>3, <2>1, <2>7, <2>8, <2>9, <2>10 DEF OrderInv, Shows, Settled
<1> QED BY <1>7, <1>8, <1>9, <1>11, <1>12 DEF IInv

-----------------------------------------------------------------------------
(* Dispatches. *)

(* Bookkeeping does not start or finish an event that has been started.      *)
LEMMA OnlyOrder ==
  ASSUME IInv, NEW e \in DOMAIN event, NEW s, s # "pending", Only(e, s)
  PROVE  \A i \in DOMAIN event : i # e \/ Started(e) =>
           /\ Started(i)' <=> Started(i)
           /\ Started(e) => (Current(i)' <=> Current(i))
<1> DEFINE S(i) == event'[i].status # "pending"
           C(i) == S(i) /\ \A j \in DOMAIN event' : i < j => ~S(j)
<1>1. \A i : (Started(i)' <=> S(i)) /\ (Current(i)' <=> C(i))
  BY DEF Started, Current
<1>2. \A i \in DOMAIN event : i # e \/ Started(e) => (S(i) <=> Started(i))
  BY DEF Started, Only
<1>3. DOMAIN event' = DOMAIN event
  BY DEF Only
<1> HIDE DEF S
<1>4. ASSUME Started(e), NEW i \in DOMAIN event PROVE C(i) <=> Current(i)
  BY <1>2, <1>3, <1>4 DEF Current
<1> HIDE DEF C
<1> QED BY <1>1, <1>2, <1>4

LEMMA OneCurrent ==
  ASSUME IInv, NEW i \in DOMAIN event, NEW j \in DOMAIN event, Current(i), Current(j)
  PROVE  i = j
<1>1. i \in Nat /\ j \in Nat
  BY Types DEF IInv
<1> QED BY <1>1 DEF Current

(* A dispatch that ends, well or not. *)
LEMMA Finishes ==
  ASSUME IInv, NEW t \in Tasks, task[t].pc = "read",
         NEW s \in {"processed", "ignored", "failed", "abandoned"}, Only(task[t].of, s),
         task' = [task EXCEPT ![t] = Free],
         UNCHANGED <<req, orderly>>,
         faults' \in 0..MaxFaults, row' \in Row,
         ~row'.exists => row' = Blank,
         row.exists => row'.exists,
         s \in {"processed", "ignored"} /\ orderly => Shows(row') = event[task[t].of].after,
         s \notin {"processed", "ignored"} => row' = row
  PROVE  IInv'
<1> DEFINE e == task[t].of
<1>1. /\ e \in DOMAIN event /\ Started(e) /\ DOMAIN event' = DOMAIN event
      /\ event'[e].status = s /\ s # "pending"
      /\ \A i \in DOMAIN event : i # e => event'[i] = event[i]
      /\ \A i \in DOMAIN event : event'[i].before = event[i].before /\ event'[i].after = event[i].after
  BY Types DEF IInv, StartInv, Only
<1>2. /\ task' \in [Tasks -> Task] /\ task'[t].pc = "free"
      /\ \A u \in Tasks : task'[u].pc = "read" => u # t /\ task'[u] = task[u]
  BY Types, Shapes DEF IInv, Free
<1>3. TypeOK'
  <2>1. \A u \in Tasks : task'[u].pc = "read" => task'[u].of \in DOMAIN event'
    BY <1>1, <1>2, Types DEF IInv
  <2>2. \A i \in DOMAIN event' : event'[i].status = "failed" => event'[i].tries < MaxRetries
    BY <1>1, Types DEF IInv, Only
  <2> QED BY <1>2, <2>1, <2>2 DEF IInv, TypeOK, Only
<1>4. HistoryInv'
  BY <1>1, OnlyHistory
<1>5. RowInv'
  BY <1>2 DEF IInv, RowInv
<1>6. \A i \in DOMAIN event : (Started(i)' <=> Started(i)) /\ (Current(i)' <=> Current(i))
  BY <1>1, OnlyOrder
<1>7. StartInv'
  BY <1>2, <1>6, Types DEF IInv, StartInv
<1>8. OrderInv'
  <2> DEFINE S(i) == event'[i].status # "pending"
             C(i) == S(i) /\ \A j \in DOMAIN event' : i < j => ~S(j)
  <2>1. \A i : (Started(i)' <=> S(i)) /\ (Current(i)' <=> C(i))
    BY DEF Started, Current
  <2>2. \A i \in DOMAIN event : (S(i) <=> Started(i)) /\ (C(i) <=> Current(i))
    BY <1>6, <2>1
  <2> HIDE DEF S, C
  <2> SUFFICES ASSUME orderly PROVE OrderInv'
    BY DEF OrderInv
  <2>3. Current(e)
    BY DEF IInv, OrderInv
  <2>4. ASSUME NEW i \in DOMAIN event, NEW j \in DOMAIN event, i < j, S(j)
        PROVE  event'[i].status \in {"processed", "ignored"}
    BY <1>1, <2>2, <2>3, <2>4 DEF IInv, OrderInv, Current, Settled
  <2>5. ~(\A i \in DOMAIN event : ~S(i))
    BY <1>1, <2>2
  <2>6. Shows(row') \in {event[e].before, event[e].after}
    BY <1>1, <2>3 DEF IInv, OrderInv
  <2>7. ASSUME NEW i \in DOMAIN event, C(i)
        PROVE  /\ Shows(row') \in {event'[i].before, event'[i].after}
               /\ event'[i].status \in {"processed", "ignored"} => Shows(row') = event'[i].after
    <3>1. i = e
      BY <1>1, <2>2, <2>3, <2>7, OneCurrent
    <3> QED BY <1>1, <2>6, <3>1
  <2>8. ASSUME NEW u \in Tasks, task'[u].pc = "read"
        PROVE  /\ C(task'[u].of)
               /\ Shows(task'[u].seen) \in {event'[task'[u].of].before, event'[task'[u].of].after}
               /\ Shows(task'[u].seen) = event'[task'[u].of].after => Shows(row') = event'[task'[u].of].after
    <3>1. /\ task'[u] = task[u] /\ task[u].pc = "read"
          /\ task[u].of \in DOMAIN event /\ Current(task[u].of)
      BY <1>2, <2>8, Types DEF IInv, OrderInv
    <3>2. task[u].of = e
      BY <1>1, <2>3, <3>1, OneCurrent
    <3>3. /\ Shows(task[u].seen) \in {event[e].before, event[e].after}
          /\ Shows(task[u].seen) = event[e].after => Shows(row) = event[e].after
      BY <3>1, <3>2 DEF IInv, OrderInv
    <3>4. Shows(task[u].seen) = event[e].after => Shows(row') = event[e].after
      BY <3>3
    <3> QED BY <1>1, <2>2, <2>3, <3>1, <3>2, <3>3, <3>4
  <2> QED BY <1>1, <2>1, <2>4, <2>5, <2>7, <2>8 DEF OrderInv, Shows, Settled
<1> QED BY <1>3, <1>4, <1>5, <1>7, <1>8 DEF IInv

LEMMA ProcessedOnly ==
  ASSUME IInv, NEW t \in Tasks, task[t].pc = "read", Processed(t)
  PROVE  Only(task[t].of, "processed") /\ task' = [task EXCEPT ![t] = Free]
<1> DEFINE e == task[t].of
           x == [event[e] EXCEPT !.status = "processed"]
<1>1. e \in DOMAIN event /\ event[e] \in Event /\ TypeOK
  BY Types DEF IInv
<1>2. /\ x \in Event /\ x.status = "processed"
      /\ x.action = event[e].action /\ x.life = event[e].life
      /\ x.before = event[e].before /\ x.after = event[e].after
  BY <1>1 DEF Event
<1>3. event' = [event EXCEPT ![e] = x] /\ task' = [task EXCEPT ![t] = Free]
  BY DEF Processed, Release
<1> HIDE DEF x
<1> QED BY <1>1, <1>2, <1>3, Written

LEMMA FailedOnly ==
  ASSUME IInv, NEW t \in Tasks, task[t].pc = "read", Failed(t)
  PROVE  /\ task' = [task EXCEPT ![t] = Free]
         /\ \E s \in {"failed", "abandoned"} : Only(task[t].of, s)
<1> DEFINE e == task[t].of
           n == event[e].tries + 1
           s == IF n < MaxRetries THEN "failed" ELSE "abandoned"
           x == [event[e] EXCEPT !.tries = n, !.status = s]
<1>1. e \in DOMAIN event /\ event[e] \in Event /\ TypeOK
  BY Types DEF IInv
<1>2. /\ n \in Nat /\ s \in {"failed", "abandoned"}
      /\ s = "failed" => n < MaxRetries
  BY <1>1 DEF Event
<1>3. event' = [event EXCEPT ![e] = x] /\ task' = [task EXCEPT ![t] = Free]
  BY DEF Failed, Release
<1> HIDE DEF s, n
<1>4. /\ x \in Event /\ x.status = s /\ x.tries = n
      /\ x.action = event[e].action /\ x.life = event[e].life
      /\ x.before = event[e].before /\ x.after = event[e].after
  BY <1>1, <1>2 DEF Event
<1> HIDE DEF x
<1> QED BY <1>1, <1>2, <1>3, <1>4, Written

(* What the lifecycle handlers make of the row, when the one that reads and  *)
(* the one that is to be written are those before or after the event.        *)
LEMMA HandlerTruth ==
  ASSUME NEW b, NEW a \in Handled \ {"created"}, NEW c, <<b, a, c>> \in Tells,
         NEW seen \in Row, row \in Row,
         Shows(seen) \in {b, c}, Shows(row) \in {b, c},
         Shows(seen) = c => Shows(row) = c,
         NEW r, r = IF Active(seen) THEN Changed(a, seen) ELSE row
  PROVE  Shows(r) = c
<1>1. /\ \A x \in Row : Shows(x) = "active" <=> x.exists /\ ~x.deleted /\ ~x.suspended
      /\ \A x \in Row : Shows(x) = "suspended" <=> x.exists /\ ~x.deleted /\ x.suspended
      /\ \A x \in Row : Shows(x) = "deleted" <=> x.exists /\ x.deleted
  BY DEF Shows, Row
<1>2. /\ b \in {"active", "suspended"}
      /\ \/ a = "suspended" /\ c = "suspended"
         \/ a = "unsuspended" /\ c = "active"
         \/ a = "deleted" /\ c = "deleted"
  BY DEF Tells, Handled
<1>3. CASE a = "suspended"
  <2>1. Active(seen) /\ r = [row EXCEPT !.suspended = TRUE]
    BY <1>1, <1>2, <1>3 DEF Active, Changed
  <2>2. r \in Row /\ r.suspended /\ r.exists = row.exists /\ r.deleted = row.deleted
    BY <2>1 DEF Row
  <2> QED BY <1>1, <1>2, <1>3, <2>2
<1>4. CASE a = "unsuspended"
  <2>1. Active(seen) /\ r = IF seen.suspended THEN [row EXCEPT !.suspended = FALSE] ELSE row
    BY <1>1, <1>2, <1>4 DEF Active, Changed
  <2>2. CASE seen.suspended
    <3>1. r \in Row /\ ~r.suspended /\ r.exists = row.exists /\ r.deleted = row.deleted
      BY <2>1, <2>2 DEF Row
    <3> QED BY <1>1, <1>2, <1>4, <3>1
  <2>3. CASE ~seen.suspended
    BY <1>1, <1>2, <1>4, <2>1, <2>3
  <2> QED BY <2>2, <2>3
<1>5. CASE a = "deleted"
  <2>1. CASE Active(seen)
    <3>1. r = [row EXCEPT !.deleted = TRUE]
      BY <1>5, <2>1 DEF Changed
    <3>2. r \in Row /\ r.deleted /\ r.exists = row.exists
      BY <3>1 DEF Row
    <3> QED BY <1>1, <1>2, <1>5, <3>2
  <2>2. CASE ~Active(seen)
    BY <1>1, <1>2, <1>5, <2>2 DEF Active
  <2> QED BY <2>1, <2>2
<1> QED BY <1>3, <1>4, <1>5 DEF Handled

LEMMA ChangedRow ==
  ASSUME NEW a \in Handled \ {"created"}, NEW seen \in Row, row \in Row
  PROVE  /\ Changed(a, seen) \in Row
         /\ Changed(a, seen).exists = row.exists
         /\ row.deleted => Changed(a, seen).deleted
         /\ Changed(a, seen).setting = row.setting
<1>1. CASE a = "deleted"
  BY <1>1 DEF Changed, Row
<1>2. CASE a = "suspended"
  BY <1>2 DEF Changed, Row
<1>3. CASE a = "unsuspended"
  BY <1>3 DEF Changed, Row
<1> QED BY <1>1, <1>2, <1>3 DEF Handled

LEMMA ChangeStep ==
  ASSUME IInv, NEW t \in Tasks, NEW a \in Handled \ {"created"}, Change(t, a)
  PROVE  IInv'
<1> DEFINE e == task[t].of
           seen == task[t].seen
<1>1. /\ task[t].pc = "read" /\ event[e].action = a /\ Processed(t)
      /\ row' = IF Active(seen) THEN Changed(a, seen) ELSE row
      /\ UNCHANGED <<req, orderly, faults>>
  BY DEF Change, Handles
<1>2. Only(e, "processed") /\ task' = [task EXCEPT ![t] = Free]
  BY <1>1, ProcessedOnly
<1>3. /\ row \in Row /\ seen \in Row /\ faults \in 0..MaxFaults
      /\ ~row.exists => row = Blank
      /\ seen.exists => row.exists
  BY <1>1, Types DEF IInv, RowInv
<1>4. row' \in Row /\ row'.exists = row.exists
  BY <1>1, <1>3, ChangedRow
<1>5. ~row'.exists => row' = Blank
  <2>1. ~row.exists => ~Active(seen)
    BY <1>3 DEF Active
  <2> QED BY <1>1, <1>3, <1>4, <2>1
<1>6. ASSUME orderly PROVE Shows(row') = event[e].after
  <2>1. e \in DOMAIN event
    BY <1>1, Types DEF IInv
  <2>2. <<event[e].before, a, event[e].after>> \in Tells
    BY <1>1, <2>1 DEF IInv, HistoryInv
  <2>3. /\ Shows(row) \in {event[e].before, event[e].after}
        /\ Shows(seen) \in {event[e].before, event[e].after}
        /\ Shows(seen) = event[e].after => Shows(row) = event[e].after
    BY <1>1, <1>6, <2>1 DEF IInv, OrderInv
  <2> QED BY <1>1, <1>3, <2>2, <2>3, HandlerTruth
<1> QED BY <1>1, <1>2, <1>3, <1>4, <1>5, <1>6, Finishes

(* A delivery without a handler tells nothing: what the row shows before it  *)
(* is what it shows after it.                                                *)
LEMMA IgnoredStep ==
  ASSUME IInv, NEW t \in Tasks, Ignored(t)
  PROVE  IInv'
<1> DEFINE e == task[t].of
           x == [event[e] EXCEPT !.status = "ignored"]
<1>1. /\ task[t].pc = "read" /\ event[e].action \notin Handled
      /\ event' = [event EXCEPT ![e] = x] /\ task' = [task EXCEPT ![t] = Free]
      /\ UNCHANGED <<row, req, orderly, faults>>
  BY DEF Ignored, Release
<1>2. /\ e \in DOMAIN event /\ event[e] \in Event /\ TypeOK
      /\ row \in Row /\ faults \in 0..MaxFaults
      /\ ~row.exists => row = Blank
  BY <1>1, Types DEF IInv, RowInv
<1>3. /\ x \in Event /\ x.status = "ignored"
      /\ x.action = event[e].action /\ x.life = event[e].life
      /\ x.before = event[e].before /\ x.after = event[e].after
  BY <1>2 DEF Event
<1> HIDE DEF x
<1>4. Only(e, "ignored")
  BY <1>1, <1>2, <1>3, Written
<1>5. event[e].before = event[e].after
  BY <1>1, <1>2 DEF IInv, HistoryInv, Tells, Handled
<1>6. ASSUME orderly PROVE Shows(row) = event[e].after
  BY <1>1, <1>2, <1>5, <1>6 DEF IInv, OrderInv
<1>7. ASSUME orderly PROVE Shows(row') = event[e].after
  BY <1>1, <1>6, <1>7 DEF Shows
<1> QED BY <1>1, <1>2, <1>4, <1>7, Finishes

LEMMA CreatedStep ==
  ASSUME IInv, NEW t \in Tasks, Created(t)
  PROVE  IInv'
<1> DEFINE e == task[t].of
           seen == task[t].seen
<1>1. /\ task[t].pc = "read" /\ event[e].action = "created"
      /\ UNCHANGED <<req, orderly, faults>>
  BY DEF Created, Handles
<1>2. /\ row \in Row /\ seen \in Row /\ faults \in 0..MaxFaults
      /\ ~row.exists => row = Blank
      /\ seen.exists => row.exists
      /\ e \in DOMAIN event
  BY <1>1, Types DEF IInv, RowInv
<1>3. event[e].before = "none" /\ event[e].after = "active"
  BY <1>1, <1>2 DEF IInv, HistoryInv, Tells
<1>4. CASE Active(seen) /\ Processed(t) /\ UNCHANGED row
  <2>1. Only(e, "processed") /\ task' = [task EXCEPT ![t] = Free]
    BY <1>1, <1>4, ProcessedOnly
  <2>2. ASSUME orderly PROVE Shows(row) = event[e].after
    BY <1>1, <1>2, <1>3, <1>4, <2>2 DEF IInv, OrderInv, Active, Shows
  <2> QED BY <1>1, <1>2, <1>4, <2>1, <2>2, Finishes DEF Shows
<1>5. CASE ~row.exists /\ row' = [Blank EXCEPT !.exists = TRUE] /\ Processed(t)
  <2>1. Only(e, "processed") /\ task' = [task EXCEPT ![t] = Free]
    BY <1>1, <1>5, ProcessedOnly
  <2>2. row' \in Row /\ row'.exists /\ ~row'.deleted /\ ~row'.suspended
    BY <1>5, Shapes DEF Blank, Row
  <2>3. Shows(row') = event[e].after
    BY <1>3, <2>2 DEF Shows
  <2> QED BY <1>1, <1>2, <2>1, <2>2, <2>3, Finishes
<1>6. CASE Failed(t) /\ UNCHANGED row
  <2>1. PICK s \in {"failed", "abandoned"} : Only(e, s)
    BY <1>1, <1>6, FailedOnly
  <2>2. task' = [task EXCEPT ![t] = Free]
    BY <1>1, <1>6, FailedOnly
  <2> QED BY <1>1, <1>2, <1>6, <2>1, <2>2, Finishes
<1> QED BY <1>4, <1>5, <1>6 DEF Created

LEMMA DispatchFailsStep ==
  ASSUME IInv, NEW t \in Tasks, DispatchFails(t)
  PROVE  IInv'
<1>1. task[t].pc = "read" /\ Failed(t) /\ UNCHANGED <<row, req, orderly>>
  BY DEF DispatchFails
<1>2. PICK s \in {"failed", "abandoned"} : Only(task[t].of, s)
  BY <1>1, FailedOnly
<1>3. task' = [task EXCEPT ![t] = Free]
  BY <1>1, FailedOnly
<1>4. faults' \in 0..MaxFaults /\ row \in Row /\ (~row.exists => row = Blank)
  BY Types, InstallationsAssumption DEF DispatchFails, Fault, IInv, RowInv
<1> QED BY <1>1, <1>2, <1>3, <1>4, Finishes

LEMMA DispatchDiesStep ==
  ASSUME IInv, NEW t \in Tasks, DispatchDies(t)
  PROVE  IInv'
<1>1. task' = [task EXCEPT ![t] = Free] /\ UNCHANGED <<event, row, req, orderly>>
  BY DEF DispatchDies, Release
<1>2. /\ task' \in [Tasks -> Task]
      /\ \A u \in Tasks : task'[u].pc = "read" => task'[u] = task[u] /\ task[u].pc = "read"
  BY <1>1, Types, Shapes DEF IInv, Free
<1>3. faults' \in 0..MaxFaults
  BY Types, InstallationsAssumption DEF DispatchDies, Fault, IInv
<1>4. TypeOK'
  BY <1>1, <1>2, <1>3 DEF IInv, TypeOK
<1>5. HistoryInv' /\ RowInv' /\ StartInv'
  BY <1>1, <1>2 DEF IInv, HistoryInv, RowInv, StartInv, Started
<1>6. OrderInv'
  BY <1>1, <1>2 DEF IInv, OrderInv, Current, Started, Settled, Shows
<1> QED BY <1>4, <1>5, <1>6 DEF IInv

LEMMA BeginStep ==
  ASSUME IInv, NEW t \in Tasks, NEW e \in DOMAIN event, Begin(t, e)
  PROVE  IInv'
<1> DEFINE x == [event[e] EXCEPT !.status = "processing"]
           b == [pc |-> "read", of |-> e, seen |-> row]
<1>1. /\ task[t].pc = "free"
      /\ event[e].status \in {"pending", "failed", "processing"}
      /\ event' = [event EXCEPT ![e] = x]
      /\ task' = [task EXCEPT ![t] = b]
      /\ orderly' = (orderly /\ InOrder(e))
      /\ UNCHANGED <<row, req>>
  BY DEF Begin
<1>2. faults' \in 0..MaxFaults
  BY Types, InstallationsAssumption DEF Begin, Fault, IInv
<1>3. event[e] \in Event /\ TypeOK /\ e \in Nat /\ row \in Row
  BY Types DEF IInv
<1>4. /\ x \in Event /\ x.status = "processing"
      /\ x.action = event[e].action /\ x.life = event[e].life
      /\ x.before = event[e].before /\ x.after = event[e].after
  BY <1>3 DEF Event
<1>5. b \in Task /\ b.pc = "read" /\ b.of = e /\ b.seen = row
  BY <1>3 DEF Task
<1> HIDE DEF x, b
<1>6. Only(e, "processing")
  BY <1>1, <1>3, <1>4, Written
<1>7. /\ DOMAIN event' = DOMAIN event
      /\ event'[e].status = "processing"
      /\ \A i \in DOMAIN event : i # e => event'[i] = event[i]
      /\ \A i \in DOMAIN event : event'[i].before = event[i].before /\ event'[i].after = event[i].after
  BY <1>6 DEF Only
<1>8. /\ task' \in [Tasks -> Task] /\ task'[t] = b
      /\ \A u \in Tasks : u # t => task'[u] = task[u]
  BY <1>1, <1>5, Types DEF IInv
<1>9. TypeOK'
  <2>1. \A u \in Tasks : task'[u].pc = "read" => task'[u].of \in DOMAIN event'
    BY <1>5, <1>7, <1>8, Types DEF IInv
  <2>2. \A i \in DOMAIN event' : event'[i].status = "failed" => event'[i].tries < MaxRetries
    BY <1>7, Types DEF IInv
  <2>3. orderly' \in BOOLEAN
    BY <1>1, Types DEF IInv, InOrder
  <2> QED BY <1>1, <1>2, <1>3, <1>6, <1>8, <2>1, <2>2, <2>3 DEF IInv, TypeOK, Only
<1>10. HistoryInv'
  BY <1>6, OnlyHistory
<1>11. RowInv'
  BY <1>1, <1>5, <1>8 DEF IInv, RowInv
<1>12. StartInv'
  BY <1>5, <1>7, <1>8, Types DEF IInv, StartInv, Started
<1>13. OrderInv'
  <2> DEFINE S(i) == event'[i].status # "pending"
             C(i) == S(i) /\ \A j \in DOMAIN event' : i < j => ~S(j)
  <2>1. \A i : (Started(i)' <=> S(i)) /\ (Current(i)' <=> C(i))
    BY DEF Started, Current
  <2> SUFFICES ASSUME orderly, InOrder(e) PROVE OrderInv'
    BY <1>1 DEF OrderInv
  <2>2. /\ \A i \in DOMAIN event : i < e => event[i].status \in {"processed", "ignored"}
        /\ \A i \in DOMAIN event : e < i => event[i].status = "pending"
        /\ \A u \in Tasks : task[u].pc = "read" => task[u].of = e
    BY <1>3, Types DEF InOrder, Settled
  <2>3. /\ S(e)
        /\ \A i \in DOMAIN event : e < i => ~S(i)
        /\ \A i \in DOMAIN event : i < e => event'[i].status \in {"processed", "ignored"}
    BY <1>7, <2>2
  <2>4. C(e)
    BY <1>7, <2>3
  <2>5. \A i \in DOMAIN event : C(i) => i = e
    <3>1. \A i \in DOMAIN event : i \in Nat
      BY Types DEF IInv
    <3> QED BY <1>3, <1>7, <2>3, <3>1
  <2>6. ASSUME NEW i \in DOMAIN event, NEW j \in DOMAIN event, i < j, S(j)
        PROVE  event'[i].status \in {"processed", "ignored"}
    <3>1. i \in Nat /\ j \in Nat /\ ~(e < j)
      BY <2>3, <2>6, Types DEF IInv
    <3> QED BY <1>3, <2>3, <2>6, <3>1
  <2> HIDE DEF S, C
  <2>7. Shows(row) \in {event[e].before, event[e].after}
    <3>1. CASE Started(e)
      <4>1. Current(e)
        BY <2>2, <3>1 DEF Current, Started
      <4> QED BY <4>1 DEF IInv, OrderInv
    <3>2. CASE ~Started(e)
      <4>1. CASE e = 1
        <5>1. \A i \in DOMAIN event : ~Started(i)
          <6>1. \A i \in DOMAIN event : i = e \/ e < i
            BY <4>1, Types DEF IInv
          <6> QED BY <2>2, <3>2, <6>1 DEF Started
        <5> QED BY <4>1, <5>1 DEF IInv, OrderInv, HistoryInv
      <4>2. CASE e # 1
        <5>1. e-1 \in DOMAIN event /\ e-1 < e
          BY <4>2, Types DEF IInv
        <5>2. \A i \in DOMAIN event : e-1 < i => i = e \/ e < i
          BY <1>3, Types DEF IInv
        <5>3. Current(e-1) /\ Settled(e-1)
          BY <2>2, <3>2, <5>1, <5>2 DEF Current, Started, Settled
        <5> QED BY <4>2, <5>1, <5>3 DEF IInv, OrderInv, HistoryInv
      <4> QED BY <4>1, <4>2
    <3> QED BY <3>1, <3>2
  <2>8. ASSUME NEW u \in Tasks, task'[u].pc = "read"
        PROVE  /\ C(task'[u].of)
               /\ Shows(task'[u].seen) \in {event'[task'[u].of].before, event'[task'[u].of].after}
               /\ Shows(task'[u].seen) = event'[task'[u].of].after => Shows(row) = event'[task'[u].of].after
    <3>1. CASE u = t
      BY <1>5, <1>7, <1>8, <2>4, <2>7, <3>1
    <3>2. CASE u # t
      <4>1. task'[u] = task[u] /\ task[u].pc = "read" /\ task[u].of = e
        BY <1>8, <2>2, <2>8, <3>2
      <4> QED BY <1>7, <2>4, <4>1 DEF IInv, OrderInv
    <3> QED BY <3>1, <3>2
  <2>9. \A i \in DOMAIN event' : C(i) =>
          /\ Shows(row) \in {event'[i].before, event'[i].after}
          /\ event'[i].status \in {"processed", "ignored"} => Shows(row) = event'[i].after
    BY <1>7, <2>5, <2>7
  <2> QED BY <1>1, <1>7, <2>1, <2>3, <2>6, <2>8, <2>9 DEF OrderInv, Shows, Settled
<1> QED BY <1>9, <1>10, <1>11, <1>12, <1>13 DEF IInv

-----------------------------------------------------------------------------
(* Settings. *)

(* A request neither touches the deliveries nor what the row shows. *)
LEMMA RequestStep ==
  ASSUME IInv, NEW r \in Requests, NEW q \in Request,
         req' = [req EXCEPT ![r] = q],
         q.pc = "found" => row.exists,
         row' \in Row, row'.exists = row.exists, row'.deleted = row.deleted,
         row'.suspended = row.suspended,
         ~row.exists => row' = row,
         UNCHANGED <<event, task, orderly, faults>>
  PROVE  IInv'
<1>1. req' \in [Requests -> Request] /\ \A s \in Requests : req'[s] = req[s] \/ req'[s] = q
  BY Types DEF IInv
<1>2. TypeOK'
  BY <1>1 DEF IInv, TypeOK
<1>3. Shows(row') = Shows(row)
  BY DEF Shows
<1>4. HistoryInv' /\ RowInv' /\ StartInv'
  BY <1>1 DEF IInv, HistoryInv, RowInv, StartInv, Started
<1>5. OrderInv'
  BY <1>3 DEF IInv, OrderInv, Current, Started, Settled, Shows
<1> QED BY <1>2, <1>4, <1>5 DEF IInv

LEMMA RequestSteps ==
  ASSUME IInv, NEW r \in Requests, Ask(r) \/ LookAgain(r) \/ Save(r) \/ RequestEnds(r)
  PROVE  IInv'
<1>1. row \in Row /\ req[r] \in Request /\ Done \in Request /\ Done.pc = "done"
  BY Types, Shapes DEF IInv, Done
<1>2. CASE Ask(r)
  <2> DEFINE q == [req[r] EXCEPT !.pc = "checking"]
  <2>1. q \in Request /\ q.pc = "checking"
    BY <1>1 DEF Request
  <2>2. req' = [req EXCEPT ![r] = q] /\ UNCHANGED <<event, row, task, orderly, faults>>
    BY <1>2 DEF Ask
  <2> HIDE DEF q
  <2> QED BY <1>1, <2>1, <2>2, RequestStep
<1>3. CASE LookAgain(r)
  <2>1. CASE Active(row)
    <3> DEFINE q == [pc |-> "found", seen |-> row]
    <3>1. q \in Request /\ row.exists
      BY <1>1, <2>1 DEF Request, Active
    <3>2. req' = [req EXCEPT ![r] = q] /\ UNCHANGED <<event, row, task, orderly, faults>>
      BY <1>3, <2>1 DEF LookAgain
    <3> HIDE DEF q
    <3> QED BY <1>1, <3>1, <3>2, RequestStep
  <2>2. CASE ~Active(row)
    <3>1. req' = [req EXCEPT ![r] = Done] /\ UNCHANGED <<event, row, task, orderly, faults>>
      BY <1>3, <2>2 DEF LookAgain
    <3> QED BY <1>1, <3>1, RequestStep
  <2> QED BY <2>1, <2>2
<1>4. CASE Save(r)
  <2>1. /\ req[r].pc = "found" /\ row' = [row EXCEPT !.setting = r]
        /\ req' = [req EXCEPT ![r] = Done] /\ UNCHANGED <<event, task, orderly, faults>>
    BY <1>4 DEF Save
  <2>2. /\ row' \in Row /\ row'.exists = row.exists /\ row'.deleted = row.deleted
        /\ row'.suspended = row.suspended
    BY <1>1, <2>1 DEF Row
  <2>3. row.exists
    BY <2>1 DEF IInv, RowInv
  <2> QED BY <1>1, <2>1, <2>2, <2>3, RequestStep
<1>5. CASE RequestEnds(r)
  <2>1. req' = [req EXCEPT ![r] = Done] /\ UNCHANGED <<event, row, task, orderly, faults>>
    BY <1>5 DEF RequestEnds
  <2> QED BY <1>1, <2>1, RequestStep
<1> QED BY <1>2, <1>3, <1>4, <1>5

-----------------------------------------------------------------------------
LEMMA InstallationsNext == IInv /\ [Next]_vars => IInv'
<1> SUFFICES ASSUME IInv, [Next]_vars PROVE IInv'
  OBVIOUS
<1>1. CASE UNCHANGED vars
  <2>1. TypeOK' /\ HistoryInv'
    BY <1>1 DEF vars, IInv, TypeOK, HistoryInv
  <2>2. RowInv' /\ StartInv'
    BY <1>1 DEF vars, IInv, RowInv, StartInv, Started
  <2>3. OrderInv'
    BY <1>1 DEF vars, IInv, OrderInv, Current, Started, Settled, Shows
  <2> QED BY <2>1, <2>2, <2>3 DEF IInv
<1> QED BY <1>1, EmitStep, BeginStep, IgnoredStep, CreatedStep, ChangeStep, DispatchFailsStep, DispatchDiesStep,
           RequestSteps DEF Next, Handle

LEMMA InstallationsInvariance == Spec => []IInv
BY InstallationsInit, InstallationsNext, PTL DEF Spec

(* Every variable keeps its type, and every failed event may be tried again. *)
THEOREM InstallationsTypeCorrect == Spec => []TypeOK
<1>1. IInv => TypeOK
  BY DEF IInv
<1> QED BY <1>1, InstallationsInvariance, PTL

(* Duplicates, retries, crashes and overruns do no harm while the order is   *)
(* kept: when all is settled, the row shows what GitHub has told, and the    *)
(* installation is active just as long as GitHub has it.                     *)
THEOREM OrderSuffices == Spec => []OrderlyMirrors
<1>1. IInv => OrderlyMirrors
  <2> SUFFICES ASSUME IInv, orderly, AllSettled PROVE Mirrors
    BY DEF OrderlyMirrors
  <2>1. event \in Seq(Event) /\ Len(event) \in Nat /\ DOMAIN event = 1..Len(event)
    BY Types DEF IInv
  <2>2. Shows(row) = Told
    <3>1. CASE event = <<>>
      BY <2>1, <3>1 DEF IInv, OrderInv, Told
    <3>2. CASE event # <<>>
      <4>1. Len(event) \in DOMAIN event
        BY <2>1, <3>2, EmptySeq
      <4>2. \A i \in DOMAIN event : ~(Len(event) < i)
        BY <2>1
      <4>3. Current(Len(event)) /\ Settled(Len(event))
        BY <4>1, <4>2 DEF AllSettled, Current, Started, Settled
      <4> QED BY <3>2, <4>1, <4>3 DEF IInv, OrderInv, Told
    <3> QED BY <3>1, <3>2
  <2>3. Active(row) <=> Shows(row) \in {"active", "suspended"}
    BY DEF Active, Shows
  <2>4. Truth \in Life
    <3>1. CASE event = <<>>
      BY <3>1 DEF Truth, Life
    <3>2. CASE event # <<>>
      <4>1. Len(event) \in DOMAIN event
        BY <2>1, <3>2, EmptySeq
      <4> QED BY <3>2, <4>1, Types DEF IInv, Event, Truth
    <3> QED BY <3>1, <3>2
  <2>5. Told \in {"active", "suspended"} <=> Truth \in {"active", "suspended"}
    BY <2>4, TellsTruth DEF Life
  <2> QED BY <2>2, <2>3, <2>5 DEF Mirrors
<1> QED BY <1>1, InstallationsInvariance, PTL

(* Nothing makes a deleted installation active again.                        *)
THEOREM GoneForGood == Spec => GoneStaysGone
<1>1. IInv /\ [Next]_vars => [row.deleted => row'.deleted]_vars
  <2> SUFFICES ASSUME IInv, Next, row.deleted PROVE row'.deleted
    BY DEF vars
  <2>1. row \in Row /\ row.exists
    BY Types DEF IInv, RowInv, Blank
  <2>2. ASSUME NEW t \in Tasks, NEW a \in Handled \ {"created"}, Change(t, a) PROVE row'.deleted
    BY <2>1, <2>2, ChangedRow, Types DEF IInv, Change
  <2>3. ASSUME NEW t \in Tasks, Created(t) PROVE row'.deleted
    BY <2>1, <2>3 DEF Created
  <2>4. ASSUME NEW r \in Requests, Save(r) PROVE row'.deleted
    BY <2>1, <2>4 DEF Save, Row
  <2> QED BY <2>2, <2>3, <2>4 DEF Next, Handle, Ignored, Emit, Begin, DispatchFails, DispatchDies, Ask,
             LookAgain, RequestEnds
<1> QED BY <1>1, InstallationsInvariance, PTL DEF Spec, GoneStaysGone

(* Handlers keep the settings they have read before.                         *)
THEOREM SettingsAreKept == Spec => SettingsKept
<1>1. IInv /\ [Next]_vars =>
        [row'.setting # row.setting =>
           \E r \in Requests : req[r].pc = "found" /\ req'[r].pc = "done" /\ row'.setting = r]_vars
  <2> SUFFICES ASSUME IInv, Next, row'.setting # row.setting
               PROVE  \E r \in Requests : req[r].pc = "found" /\ req'[r].pc = "done" /\ row'.setting = r
    BY DEF vars
  <2>1. row \in Row /\ (~row.exists => row = Blank) /\ req \in [Requests -> Request]
    BY Types DEF IInv, RowInv
  <2>2. ASSUME NEW t \in Tasks, NEW a \in Handled \ {"created"}, Change(t, a) PROVE FALSE
    BY <2>1, <2>2, ChangedRow, Types DEF IInv, Change
  <2>3. ASSUME NEW t \in Tasks, Created(t) PROVE FALSE
    BY <2>1, <2>3 DEF Created, Blank
  <2>4. ASSUME NEW r \in Requests, Save(r)
        PROVE  req[r].pc = "found" /\ req'[r].pc = "done" /\ row'.setting = r
    BY <2>1, <2>4 DEF Save, Row, Done
  <2> QED BY <2>2, <2>3, <2>4 DEF Next, Handle, Ignored, Emit, Begin, DispatchFails, DispatchDies, Ask,
             LookAgain, RequestEnds
<1> QED BY <1>1, InstallationsInvariance, PTL DEF Spec, SettingsKept

=============================================================================
