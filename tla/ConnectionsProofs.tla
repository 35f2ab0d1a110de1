------------------------- MODULE ConnectionsProofs -------------------------
(* Proofs about Connections, for any pool, number of slots and of tasks.     *)
EXTENDS Connections, FiniteSetTheorems, TLAPS

(* Who goes where: a finalizer never records a failure. *)
RoleInv == \A t \in Finalizers : pc[t] \in {"idle", "read", "reading", "watch", "finish", "post", "done"}

(* The semaphore. *)
SlotInv == Cardinality(Started) <= Slots

(* Of each attempt at most one comment comes, and after the last there is    *)
(* none.                                                                     *)
CallsInv == \A t \in Tasks : /\ calls[t].posted <= calls[t].tries
                             /\ ~calls[t].over => calls[t].tries < Attempts

IInv == TypeOK /\ RoleInv /\ SlotInv /\ CallsInv /\ CommentsAccounted

-----------------------------------------------------------------------------
LEMMA Finite ==
  /\ IsFiniteSet(Requesting) /\ IsFiniteSet(First) /\ IsFiniteSet(Second) /\ IsFiniteSet(Started)
  /\ Cardinality(Requesting) \in Nat /\ Cardinality(First) \in Nat
  /\ Cardinality(Second) \in Nat /\ Cardinality(Started) \in Nat
<1>1. /\ Requesting \subseteq Tasks /\ First \subseteq Tasks
      /\ Second \subseteq Tasks /\ Started \subseteq Tasks
  BY DEF Requesting, First, Second, Started, Tasks
<1> QED BY <1>1, ConnectionsAssumption, FS_Subset, FS_CardinalityType

LEMMA Smaller ==
  ASSUME NEW S, NEW T, IsFiniteSet(T), S \subseteq T
  PROVE  IsFiniteSet(S) /\ Cardinality(S) <= Cardinality(T) /\ Cardinality(S) \in Nat
BY FS_Subset, FS_CardinalityType

LEMMA OneMore ==
  ASSUME NEW S, NEW T, NEW x, IsFiniteSet(T), S \subseteq T \cup {x}
  PROVE  Cardinality(S) <= Cardinality(T) + 1 /\ Cardinality(S) \in Nat
<1>1. IsFiniteSet(T \cup {x}) /\ Cardinality(T \cup {x}) <= Cardinality(T) + 1
  <2>1. /\ IsFiniteSet(T \cup {x}) /\ Cardinality(T) \in Nat
        /\ Cardinality(T \cup {x}) = IF x \in T THEN Cardinality(T) ELSE Cardinality(T) + 1
    BY FS_AddElement, FS_CardinalityType
  <2> QED BY <2>1
<1>2. Cardinality(S) <= Cardinality(T \cup {x}) /\ Cardinality(S) \in Nat
  BY <1>1, Smaller
<1>3. Cardinality(T) \in Nat /\ Cardinality(T \cup {x}) \in Nat
  BY <1>1, FS_CardinalityType
<1> QED BY <1>1, <1>2, <1>3

(* A step that takes no connection. *)
LEMMA NoneTaken ==
  ASSUME Requesting' \subseteq Requesting, First' \subseteq First, Second' \subseteq Second,
         InUse <= PoolSize
  PROVE  InUse' <= PoolSize
<1>1. /\ Cardinality(Requesting') <= Cardinality(Requesting) /\ Cardinality(Requesting') \in Nat
      /\ Cardinality(First') <= Cardinality(First) /\ Cardinality(First') \in Nat
      /\ Cardinality(Second') <= Cardinality(Second) /\ Cardinality(Second') \in Nat
  BY Finite, Smaller
<1> QED BY <1>1, Finite, ConnectionsAssumption DEF InUse

LEMMA PCs ==
  /\ Waiting = {"asked", "claim", "dispatch", "settle", "record", "second", "read", "finish"}
  /\ PC = Waiting \cup {"receive", "claiming", "handling", "settling", "recording", "both", "reading",
                        "post"} \cup {"idle", "queued", "announce", "watch", "done"}
  /\ Granted["asked"] = "receive" /\ Granted["claim"] = "claiming"
  /\ Granted["dispatch"] = "handling" /\ Granted["settle"] = "settling"
  /\ Granted["record"] = "recording" /\ Granted["second"] = "both"
  /\ Granted["read"] = "reading" /\ Granted["finish"] = "post"
<1>1. Waiting = {"asked", "claim", "dispatch", "settle", "record", "second", "read", "finish"}
  BY DEF Waiting, Granted
<1>2. /\ Granted["asked"] = "receive" /\ Granted["claim"] = "claiming"
      /\ Granted["dispatch"] = "handling" /\ Granted["settle"] = "settling"
      /\ Granted["record"] = "recording" /\ Granted["second"] = "both"
      /\ Granted["read"] = "reading" /\ Granted["finish"] = "post"
  BY DEF Granted
<1>3. {Granted[p] : p \in Waiting} = {"receive", "claiming", "handling", "settling", "recording",
                                      "both", "reading", "post"}
  BY <1>1, <1>2
<1> QED BY <1>1, <1>2, <1>3 DEF PC

-----------------------------------------------------------------------------
LEMMA ConnectionsInit == Init => IInv
<1> SUFFICES ASSUME Init PROVE IInv
  OBVIOUS
<1>1. \A t \in Tasks : pc[t] = "idle" /\ calls[t] = NoCalls
  BY DEF Init
<1>2. Requesting = {} /\ First = {} /\ Second = {} /\ Started = {}
  BY <1>1 DEF Requesting, First, Second, Started, Tasks
<1>3. InUse = 0 /\ Cardinality(Started) = 0
  BY <1>2, FS_EmptySet DEF InUse
<1>4. NoCalls \in Calls
  BY ConnectionsAssumption DEF NoCalls, Calls
<1>5. pc \in [Tasks -> PC]
  BY PCs DEF Init
<1>6. TypeOK
  BY <1>3, <1>4, <1>5, ConnectionsAssumption DEF TypeOK, Init
<1>7. SlotInv /\ RoleInv
  BY <1>1, <1>3, ConnectionsAssumption DEF SlotInv, RoleInv, Tasks
<1>8. CommentsAccounted
  BY <1>1, ConnectionsAssumption DEF CommentsAccounted, NoCalls
<1>9. CallsInv
  BY <1>1, ConnectionsAssumption DEF CallsInv, NoCalls
<1> QED BY <1>6, <1>7, <1>8, <1>9 DEF IInv

(* A task moves, and its calls stay or are forgotten. *)
LEMMA Moves ==
  ASSUME IInv, NEW t \in Tasks, NEW p \in PC, pc' = [pc EXCEPT ![t] = p],
         calls' = calls \/ calls' = [calls EXCEPT ![t] = NoCalls],
         InUse' <= PoolSize,
         t \in Finalizers => p \in {"idle", "read", "reading", "watch", "finish", "post", "done"},
         t \in Replays /\ pc[t] \in {"idle", "queued", "done"}
           => p \in {"idle", "queued", "done"} \/ Cardinality(Started) < Slots
  PROVE  IInv'
<1>1. pc' \in [Tasks -> PC] /\ pc'[t] = p /\ \A u \in Tasks : u # t => pc'[u] = pc[u]
  BY DEF IInv, TypeOK
<1>2. NoCalls \in Calls
  BY ConnectionsAssumption DEF NoCalls, Calls
<1>3. calls' \in [Tasks -> Calls] /\ \A u \in Tasks : calls'[u] = calls[u] \/ calls'[u] = NoCalls
  BY <1>2 DEF IInv, TypeOK
<1>4. TypeOK'
  BY <1>1, <1>3 DEF TypeOK
<1>5. RoleInv'
  BY <1>1 DEF IInv, RoleInv, Tasks
<1>6. SlotInv'
  <2>1. CASE Started' \subseteq Started
    <3>1. Cardinality(Started') <= Cardinality(Started) /\ Cardinality(Started') \in Nat
      BY <2>1, Finite, Smaller
    <3> QED BY <3>1, Finite, ConnectionsAssumption DEF IInv, SlotInv
  <2>2. CASE ~(Started' \subseteq Started)
    <3>1. PICK u \in Replays : u \in Started' /\ u \notin Started
      BY <2>2 DEF Started
    <3>2. u = t
      BY <1>1, <3>1 DEF Started, Tasks
    <3>3. pc[t] \in {"idle", "queued", "done"} /\ p \notin {"idle", "queued", "done"} /\ t \in Replays
      BY <1>1, <3>1, <3>2 DEF Started
    <3>4. Cardinality(Started) < Slots
      BY <3>3
    <3>5. Started' \subseteq Started \cup {t}
      BY <1>1 DEF Started, Tasks
    <3>6. Cardinality(Started') <= Cardinality(Started) + 1 /\ Cardinality(Started') \in Nat
      BY <3>5, Finite, OneMore
    <3> QED BY <3>4, <3>6, Finite, ConnectionsAssumption DEF SlotInv
  <2> QED BY <2>1, <2>2
<1>7. CommentsAccounted'
  <2> SUFFICES ASSUME NEW u \in Tasks
               PROVE  /\ calls'[u].posted <= calls'[u].lost + 1
                      /\ calls'[u].posted <= Attempts
                      /\ calls'[u].posted = calls'[u].lost + 1 => calls'[u].over
    BY DEF CommentsAccounted
  <2>1. CASE calls'[u] = NoCalls
    BY <2>1, ConnectionsAssumption DEF NoCalls
  <2>2. CASE calls'[u] = calls[u]
    BY <2>2 DEF IInv, CommentsAccounted
  <2> QED BY <1>3, <2>1, <2>2
<1>8. CallsInv'
  <2> SUFFICES ASSUME NEW u \in Tasks
               PROVE  /\ calls'[u].posted <= calls'[u].tries
                      /\ ~calls'[u].over => calls'[u].tries < Attempts
    BY DEF CallsInv
  <2>1. CASE calls'[u] = NoCalls
    BY <2>1, ConnectionsAssumption DEF NoCalls
  <2>2. CASE calls'[u] = calls[u]
    BY <2>2 DEF IInv, CallsInv
  <2> QED BY <1>3, <2>1, <2>2
<1> QED BY <1>4, <1>5, <1>6, <1>7, <1>8 DEF IInv

(* What a task that moves from where it holds something may do.              *)
LEMMA Sets ==
  ASSUME IInv, NEW t \in Tasks, NEW p \in PC, pc' = [pc EXCEPT ![t] = p]
  PROVE  /\ (t \in Hooks /\ p \notin {"idle", "asked", "done"} => pc[t] \notin {"idle", "asked", "done"})
              => Requesting' \subseteq Requesting
         /\ (p \in {"claiming", "handling", "settling", "recording", "second", "both", "reading", "post"}
             => pc[t] \in {"claiming", "handling", "settling", "recording", "second", "both", "reading", "post"})
              => First' \subseteq First
         /\ p # "both" => Second' \subseteq Second
         /\ Requesting' \subseteq Requesting \cup {t}
         /\ First' \subseteq First \cup {t}
         /\ Second' \subseteq Second \cup {t}
<1>1. pc'[t] = p /\ \A u \in Tasks : u # t => pc'[u] = pc[u]
  BY DEF IInv, TypeOK
<1> QED BY <1>1 DEF Requesting, First, Second, Tasks

(* A move that takes no connection. *)
LEMMA FreeMove ==
  ASSUME IInv, NEW t \in Tasks, NEW p \in PC, pc' = [pc EXCEPT ![t] = p],
         calls' = calls \/ calls' = [calls EXCEPT ![t] = NoCalls],
         p # "both",
         t \in Hooks /\ p \notin {"idle", "asked", "done"} => pc[t] \notin {"idle", "asked", "done"},
         p \in {"claiming", "handling", "settling", "recording", "second", "both", "reading", "post"}
           => pc[t] \in {"claiming", "handling", "settling", "recording", "second", "both", "reading", "post"},
         t \in Finalizers => p \in {"idle", "read", "reading", "watch", "finish", "post", "done"},
         t \in Replays /\ pc[t] \in {"idle", "queued", "done"}
           => p \in {"idle", "queued", "done"} \/ Cardinality(Started) < Slots
  PROVE  IInv'
<1>1. Requesting' \subseteq Requesting /\ First' \subseteq First /\ Second' \subseteq Second
  BY Sets
<1>2. InUse' <= PoolSize
  BY <1>1, NoneTaken DEF IInv, TypeOK
<1> QED BY <1>2, Moves

-----------------------------------------------------------------------------
LEMMA ConnectStep ==
  ASSUME IInv, NEW t \in Tasks, Connect(t)
  PROVE  IInv'
<1> DEFINE p == Granted[pc[t]]
<1>1. pc[t] \in Waiting /\ pc' = [pc EXCEPT ![t] = p] /\ calls' = calls /\ InUse < PoolSize
  BY DEF Connect, To
<1>2. p \in PC /\ p # "done" /\ pc[t] \notin {"idle", "queued", "done"}
  BY <1>1, PCs
<1>3. t \in Finalizers => p \in {"idle", "read", "reading", "watch", "finish", "post", "done"}
  BY <1>1, PCs DEF IInv, RoleInv
<1>4. CASE pc[t] = "asked"
  <2>1. p = "receive"
    BY <1>4, PCs
  <2>2. First' \subseteq First /\ Second' \subseteq Second /\ Requesting' \subseteq Requesting \cup {t}
    BY <1>1, <1>2, <2>1, Sets
  <2>3. /\ Cardinality(First') <= Cardinality(First) /\ Cardinality(First') \in Nat
        /\ Cardinality(Second') <= Cardinality(Second) /\ Cardinality(Second') \in Nat
    BY <2>2, Finite, Smaller
  <2>4. Cardinality(Requesting') <= Cardinality(Requesting) + 1 /\ Cardinality(Requesting') \in Nat
    BY <2>2, Finite, OneMore
  <2>5. InUse' <= PoolSize
    BY <1>1, <2>3, <2>4, Finite, ConnectionsAssumption DEF InUse
  <2> HIDE DEF p
  <2> QED BY <1>1, <1>2, <1>3, <2>5, Moves
<1>5. CASE pc[t] = "second"
  <2>1. p = "both"
    BY <1>5, PCs
  <2>2. First' \subseteq First /\ Requesting' \subseteq Requesting /\ Second' \subseteq Second \cup {t}
    BY <1>1, <1>2, <1>5, <2>1, Sets
  <2>3. /\ Cardinality(First') <= Cardinality(First) /\ Cardinality(First') \in Nat
        /\ Cardinality(Requesting') <= Cardinality(Requesting) /\ Cardinality(Requesting') \in Nat
    BY <2>2, Finite, Smaller
  <2>4. Cardinality(Second') <= Cardinality(Second) + 1 /\ Cardinality(Second') \in Nat
    BY <2>2, Finite, OneMore
  <2>5. InUse' <= PoolSize
    BY <1>1, <2>3, <2>4, Finite, ConnectionsAssumption DEF InUse
  <2> HIDE DEF p
  <2> QED BY <1>1, <1>2, <1>3, <2>5, Moves
<1>6. CASE pc[t] \notin {"asked", "second"}
  <2>1. p # "both" /\ pc[t] \notin {"idle", "asked", "done"}
    BY <1>1, <1>6, PCs
  <2>2. Second' \subseteq Second /\ Requesting' \subseteq Requesting /\ First' \subseteq First \cup {t}
    BY <1>1, <1>2, <2>1, Sets
  <2>3. /\ Cardinality(Second') <= Cardinality(Second) /\ Cardinality(Second') \in Nat
        /\ Cardinality(Requesting') <= Cardinality(Requesting) /\ Cardinality(Requesting') \in Nat
    BY <2>2, Finite, Smaller
  <2>4. Cardinality(First') <= Cardinality(First) + 1 /\ Cardinality(First') \in Nat
    BY <2>2, Finite, OneMore
  <2>5. InUse' <= PoolSize
    BY <1>1, <2>3, <2>4, Finite, ConnectionsAssumption DEF InUse
  <2> HIDE DEF p
  <2> QED BY <1>1, <1>2, <1>3, <2>5, Moves
<1> QED BY <1>4, <1>5, <1>6

LEMMA ArriveStep ==
  ASSUME IInv, NEW t \in Tasks, Arrive(t)
  PROVE  IInv'
<1>1. PICK p \in {"queued", "asked", "read"} :
        /\ pc[t] = "idle" /\ pc' = [pc EXCEPT ![t] = p] /\ calls' = calls
        /\ (t \in Replays => p = "queued") /\ (t \in Hooks => p = "asked")
        /\ (t \in Finalizers => p = "read")
  BY ConnectionsAssumption DEF Arrive, To, Tasks
<1> QED BY <1>1, PCs, FreeMove

LEMMA TakeSlotStep ==
  ASSUME IInv, NEW t \in Tasks, TakeSlot(t)
  PROVE  IInv'
<1>1. /\ pc[t] = "queued" /\ pc' = [pc EXCEPT ![t] = "claim"] /\ calls' = calls
      /\ Cardinality(Started) < Slots
  BY DEF TakeSlot, To
<1>2. t \notin Finalizers
  BY <1>1 DEF IInv, RoleInv
<1> QED BY <1>1, <1>2, PCs, FreeMove

(* The moves of a task that is under way. *)
LEMMA WayStep ==
  ASSUME IInv, NEW t \in Tasks,
         TimeOut(t) \/ Receive(t) \/ Claim(t) \/ Undone(t) \/ Handle(t) \/ Settle(t) \/ Recorded(t)
         \/ Look(t) \/ Exited(t)
  PROVE  IInv'
<1>1. PICK p \in {"record", "done", "claim", "dispatch", "settle", "announce", "second", "watch", "finish"} :
        /\ pc' = [pc EXCEPT ![t] = p] /\ calls' = calls
        /\ pc[t] \in Waiting \cup {"receive", "claiming", "handling", "settling", "recording", "both",
                                   "reading", "watch"}
        /\ p = "record" => pc[t] \in {"claim", "dispatch", "settle", "claiming", "settling"}
        /\ p = "claim" => pc[t] = "receive"
        /\ p = "dispatch" => pc[t] = "claiming"
        /\ p = "settle" => pc[t] = "dispatch"
        /\ p \in {"announce", "second"} => pc[t] = "handling"
        /\ p = "watch" => pc[t] = "reading"
        /\ p = "finish" => pc[t] = "watch"
  BY PCs DEF TimeOut, Receive, Claim, Undone, Handle, Settle, Recorded, Look, Exited, To
<1>2. pc[t] \notin {"idle", "queued", "done"} /\ p \in PC
  BY <1>1, PCs
<1>3. p \notin {"done"} => pc[t] # "asked"
  BY <1>1
<1>4. t \in Finalizers => p \in {"done", "watch", "finish"}
  BY <1>1 DEF IInv, RoleInv
<1> QED BY <1>1, <1>2, <1>3, <1>4, FreeMove

LEMMA GoOnStep ==
  ASSUME IInv, NEW t \in Tasks, GoOn(t)
  PROVE  IInv'
<1>1. PICK p \in {"settle", "done"} :
        /\ pc' = [pc EXCEPT ![t] = p] /\ calls' = [calls EXCEPT ![t] = NoCalls]
        /\ pc[t] \in {"announce", "post"}
        /\ p = "settle" => pc[t] = "announce"
  BY DEF GoOn
<1>2. t \in Finalizers => p = "done"
  BY <1>1 DEF IInv, RoleInv
<1> QED BY <1>1, <1>2, PCs, FreeMove

LEMMA AttemptStep ==
  ASSUME IInv, NEW t \in Tasks, Attempt(t)
  PROVE  IInv'
<1>1. PICK answer \in {"created", "rejected", "failed", "lost"} :
        calls' = [calls EXCEPT ![t] = Outcome(calls[t], answer)] /\ ~calls[t].over /\ pc' = pc
  BY DEF Attempt
<1>2. PICK c \in Calls : c = calls[t]
  BY DEF IInv, TypeOK
<1>3. /\ c.tries \in 0 .. Attempts /\ c.posted \in Nat /\ c.lost \in Nat /\ ~c.over
      /\ c.posted <= c.lost + 1 /\ (c.posted = c.lost + 1 => c.over)
      /\ c.posted <= c.tries /\ c.tries < Attempts
  BY <1>1, <1>2 DEF IInv, Calls, CommentsAccounted, CallsInv
<1>11. c.posted <= c.lost
  BY <1>3
<1>4. PICK d : d = Outcome(c, answer)
  OBVIOUS
<1>5. /\ d \in Calls /\ d.posted <= d.lost + 1 /\ d.posted <= Attempts
      /\ d.posted = d.lost + 1 => d.over
      /\ d.posted <= d.tries
      /\ ~d.over => d.tries < Attempts
  <2>1. CASE answer = "created"
    <3>1. /\ d.tries = c.tries + 1 /\ d.posted = c.posted + 1 /\ d.lost = c.lost + 0
          /\ d.over = TRUE
          /\ d = [tries |-> d.tries, posted |-> d.posted, lost |-> d.lost, over |-> d.over]
      BY <1>4, <2>1 DEF Outcome
    <3>2. d.tries \in 0 .. Attempts /\ d.posted \in Nat /\ d.lost \in Nat
      BY <1>3, <3>1, ConnectionsAssumption
    <3>3. d.over \in BOOLEAN
      BY <3>1
    <3>4. d \in Calls
      BY <3>1, <3>2, <3>3 DEF Calls
    <3>5. d.posted <= d.lost + 1 /\ d.posted <= Attempts /\ d.posted <= d.tries
      BY <1>3, <1>11, <3>1, ConnectionsAssumption
    <3>6. d.posted = d.lost + 1 => d.over
      BY <1>3, <1>11, <3>1
    <3>7. ~d.over => d.tries < Attempts
      <4> SUFFICES ASSUME ~d.over PROVE d.tries < Attempts
        OBVIOUS
      <4>1. c.tries + 1 # Attempts
        BY <3>1
      <4>2. d.tries = c.tries + 1
        BY <3>1
      <4> QED BY <1>3, <4>1, <4>2, <3>2, ConnectionsAssumption
    <3> QED BY <3>4, <3>5, <3>6, <3>7
  <2>2. CASE answer = "rejected"
    <3>1. /\ d.tries = c.tries + 1 /\ d.posted = c.posted + 0 /\ d.lost = c.lost + 0
          /\ d.over = TRUE
          /\ d = [tries |-> d.tries, posted |-> d.posted, lost |-> d.lost, over |-> d.over]
      BY <1>4, <2>2 DEF Outcome
    <3>2. d.tries \in 0 .. Attempts /\ d.posted \in Nat /\ d.lost \in Nat
      BY <1>3, <3>1, ConnectionsAssumption
    <3>3. d.over \in BOOLEAN
      BY <3>1
    <3>4. d \in Calls
      BY <3>1, <3>2, <3>3 DEF Calls
    <3>5. d.posted <= d.lost + 1 /\ d.posted <= Attempts /\ d.posted <= d.tries
      BY <1>3, <1>11, <3>1, ConnectionsAssumption
    <3>6. d.posted = d.lost + 1 => d.over
      BY <1>3, <1>11, <3>1
    <3>7. ~d.over => d.tries < Attempts
      <4> SUFFICES ASSUME ~d.over PROVE d.tries < Attempts
        OBVIOUS
      <4>1. c.tries + 1 # Attempts
        BY <3>1
      <4>2. d.tries = c.tries + 1
        BY <3>1
      <4> QED BY <1>3, <4>1, <4>2, <3>2, ConnectionsAssumption
    <3> QED BY <3>4, <3>5, <3>6, <3>7
  <2>3. CASE answer = "failed"
    <3>1. /\ d.tries = c.tries + 1 /\ d.posted = c.posted + 0 /\ d.lost = c.lost + 0
          /\ d.over = (c.tries + 1 = Attempts)
          /\ d = [tries |-> d.tries, posted |-> d.posted, lost |-> d.lost, over |-> d.over]
      BY <1>4, <2>3 DEF Outcome
    <3>2. d.tries \in 0 .. Attempts /\ d.posted \in Nat /\ d.lost \in Nat
      BY <1>3, <3>1, ConnectionsAssumption
    <3>3. d.over \in BOOLEAN
      BY <3>1
    <3>4. d \in Calls
      BY <3>1, <3>2, <3>3 DEF Calls
    <3>5. d.posted <= d.lost + 1 /\ d.posted <= Attempts /\ d.posted <= d.tries
      BY <1>3, <1>11, <3>1, ConnectionsAssumption
    <3>6. d.posted = d.lost + 1 => d.over
      BY <1>3, <1>11, <3>1
    <3>7. ~d.over => d.tries < Attempts
      <4> SUFFICES ASSUME ~d.over PROVE d.tries < Attempts
        OBVIOUS
      <4>1. c.tries + 1 # Attempts
        BY <3>1
      <4>2. d.tries = c.tries + 1
        BY <3>1
      <4> QED BY <1>3, <4>1, <4>2, <3>2, ConnectionsAssumption
    <3> QED BY <3>4, <3>5, <3>6, <3>7
  <2>4. CASE answer = "lost"
    <3>1. /\ d.tries = c.tries + 1 /\ d.posted = c.posted + 1 /\ d.lost = c.lost + 1
          /\ d.over = (c.tries + 1 = Attempts)
          /\ d = [tries |-> d.tries, posted |-> d.posted, lost |-> d.lost, over |-> d.over]
      BY <1>4, <2>4 DEF Outcome
    <3>2. d.tries \in 0 .. Attempts /\ d.posted \in Nat /\ d.lost \in Nat
      BY <1>3, <3>1, ConnectionsAssumption
    <3>3. d.over \in BOOLEAN
      BY <3>1
    <3>4. d \in Calls
      BY <3>1, <3>2, <3>3 DEF Calls
    <3>5. d.posted <= d.lost + 1 /\ d.posted <= Attempts /\ d.posted <= d.tries
      BY <1>3, <1>11, <3>1, ConnectionsAssumption
    <3>6. d.posted = d.lost + 1 => d.over
      BY <1>3, <1>11, <3>1
    <3>7. ~d.over => d.tries < Attempts
      <4> SUFFICES ASSUME ~d.over PROVE d.tries < Attempts
        OBVIOUS
      <4>1. c.tries + 1 # Attempts
        BY <3>1
      <4>2. d.tries = c.tries + 1
        BY <3>1
      <4> QED BY <1>3, <4>1, <4>2, <3>2, ConnectionsAssumption
    <3> QED BY <3>4, <3>5, <3>6, <3>7
  <2> QED BY <1>1, <2>1, <2>2, <2>3, <2>4
<1>6. calls' = [calls EXCEPT ![t] = d]
  BY <1>1, <1>2, <1>4
<1>7. calls' \in [Tasks -> Calls] /\ calls'[t] = d /\ \A u \in Tasks : u # t => calls'[u] = calls[u]
  BY <1>5, <1>6 DEF IInv, TypeOK
<1>8. InUse' = InUse /\ Started' = Started
  BY <1>1 DEF InUse, Requesting, First, Second, Started
<1>9. TypeOK' /\ RoleInv' /\ SlotInv'
  BY <1>1, <1>7, <1>8 DEF IInv, TypeOK, RoleInv, SlotInv
<1>10. CallsInv' /\ CommentsAccounted'
  BY <1>5, <1>7 DEF IInv, CallsInv, CommentsAccounted
<1> QED BY <1>9, <1>10 DEF IInv

LEMMA ConnectionsNext == IInv /\ [Next]_vars => IInv'
<1> SUFFICES ASSUME IInv, [Next]_vars PROVE IInv'
  OBVIOUS
<1>1. CASE UNCHANGED vars
  <2>1. InUse' = InUse /\ Started' = Started
    BY <1>1 DEF vars, InUse, Requesting, First, Second, Started
  <2> QED BY <1>1, <2>1 DEF vars, IInv, TypeOK, RoleInv, SlotInv, CallsInv, CommentsAccounted
<1>2. ASSUME NEW t \in Tasks, Arrive(t) \/ Step(t) PROVE IInv'
  BY <1>2, ArriveStep, ConnectStep, TakeSlotStep, WayStep, GoOnStep, AttemptStep DEF Step
<1> QED BY <1>1, <1>2 DEF Next

LEMMA ConnectionsInvariance == Spec => []IInv
BY ConnectionsInit, ConnectionsNext, PTL DEF Spec

-----------------------------------------------------------------------------
(* The tasks of a worker, whatever they are at, have no more connections     *)
(* than the pool holds.                                                      *)
THEOREM ConnectionsTypeCorrect == Spec => []TypeOK
<1>1. IInv => TypeOK
  BY DEF IInv
<1> QED BY <1>1, ConnectionsInvariance, PTL

(* Replays and finalizers, any number of them, never block each other, as    *)
(* long as there are fewer slots than connections.                           *)
THEOREM SemaphoreSuffices == Spec => []OnlyHooksBlock
<1>1. IInv => OnlyHooksBlock
  <2> SUFFICES ASSUME IInv, Blocked, \A t \in Hooks : t \notin Holders PROVE FALSE
    BY DEF OnlyHooksBlock
  <2>1. Requesting = {}
    BY DEF Holders, Requesting
  <2>2. \A t \in First : pc[t] = "second"
    BY PCs DEF Blocked, Holders, First
  <2>3. Second = {}
    BY <2>2 DEF Second, First
  <2>4. First \subseteq Started
    <3> SUFFICES ASSUME NEW t \in First PROVE t \in Started
      OBVIOUS
    <3>1. t \in Tasks /\ t \notin Hooks /\ t \notin Finalizers
      BY <2>2 DEF Holders, First, IInv, RoleInv
    <3> QED BY <2>2, <3>1 DEF Started, Tasks
  <2>5. Cardinality(First) <= Cardinality(Started)
    BY <2>4, Finite, Smaller
  <2>6. InUse = Cardinality(First)
    BY <2>1, <2>3, Finite, FS_EmptySet DEF InUse
  <2> QED BY <2>5, <2>6, Finite, ConnectionsAssumption DEF IInv, SlotInv, Blocked
<1> QED BY <1>1, ConnectionsInvariance, PTL

(* Comments are accounted for, whatever becomes of each attempt.             *)
THEOREM CommentsAreAccounted == Spec => []CommentsAccounted
<1>1. IInv => CommentsAccounted
  BY DEF IInv
<1> QED BY <1>1, ConnectionsInvariance, PTL

-----------------------------------------------------------------------------
(* Ranks *)

LEMMA Stages ==
  /\ Stage["done"] = 0 /\ Stage["both"] = 1 /\ Stage["second"] = 2 /\ Stage["recording"] = 1
  /\ Stage["record"] = 2 /\ Stage["settling"] = 3 /\ Stage["settle"] = 4
  /\ Stage["announce"] = Attempts + 5 /\ Stage["handling"] = Attempts + 6
  /\ Stage["dispatch"] = Attempts + 7 /\ Stage["claiming"] = Attempts + 8
  /\ Stage["claim"] = Attempts + 9 /\ Stage["queued"] = Attempts + 10
  /\ Stage["receive"] = Attempts + 10 /\ Stage["asked"] = Attempts + 11
  /\ Stage["post"] = Attempts + 1 /\ Stage["finish"] = Attempts + 2
  /\ Stage["watch"] = Attempts + 3 /\ Stage["reading"] = Attempts + 4
  /\ Stage["read"] = Attempts + 5 /\ Stage["idle"] = Attempts + 12
BY DEF Stage

LEMMA StageNat == \A p \in PC : Stage[p] \in Nat
<1>1. Attempts \in Nat
  BY ConnectionsAssumption
<1> QED BY <1>1, Stages, PCs

LEMMA TriesBounded ==
  ASSUME IInv, NEW t \in Tasks
  PROVE  calls[t].tries \in 0 .. Attempts /\ Attempts \in Nat /\ pc[t] \in PC
BY ConnectionsAssumption DEF IInv, TypeOK, Calls

(* A task that goes on to a lower stage, and forgets at most its calls when  *)
(* the stages make up for it.                                                *)
LEMMA Falls ==
  ASSUME IInv, NEW t \in Tasks, NEW p \in PC, pc' = [pc EXCEPT ![t] = p],
         \/ calls' = calls /\ Stage[p] < Stage[pc[t]]
         \/ calls' = [calls EXCEPT ![t] = NoCalls] /\ Stage[p] + Attempts < Stage[pc[t]]
  PROVE  NearerItsEnd(t)
<1>1. pc'[t] = p /\ \A u \in Tasks \ {t} : pc'[u] = pc[u]
  BY DEF IInv, TypeOK
<1>2. \A u \in Tasks \ {t} : calls'[u] = calls[u]
  BY DEF IInv, TypeOK
<1>3. \A u \in Tasks \ {t} : Rank(u)' = Rank(u)
  BY <1>1, <1>2 DEF Rank
<1>4. /\ Stage[p] \in Nat /\ Stage[pc[t]] \in Nat
      /\ calls[t].tries \in 0 .. Attempts /\ Attempts \in Nat
  BY StageNat, TriesBounded
<1>5. CASE calls' = calls /\ Stage[p] < Stage[pc[t]]
  <2>1. Rank(t)' = Stage[p] + (Attempts - calls[t].tries)
    BY <1>1, <1>5 DEF Rank
  <2> QED BY <1>3, <1>4, <1>5, <2>1 DEF Rank, NearerItsEnd
<1>6. CASE calls' = [calls EXCEPT ![t] = NoCalls] /\ Stage[p] + Attempts < Stage[pc[t]]
  <2>1. calls'[t].tries = 0
    BY <1>6 DEF IInv, TypeOK, NoCalls
  <2>2. Rank(t)' = Stage[p] + (Attempts - 0)
    BY <1>1, <2>1 DEF Rank
  <2> QED BY <1>3, <1>4, <1>6, <2>2 DEF Rank, NearerItsEnd
<1> QED BY <1>5, <1>6

LEMMA RankFalls ==
  ASSUME IInv, NEW t \in Tasks, Arrive(t) \/ Step(t)
  PROVE  NearerItsEnd(t)
<1>0. Attempts \in Nat /\ pc[t] \in PC
  BY TriesBounded
<1>1. CASE Attempt(t)
  <2>1. PICK answer \in {"created", "rejected", "failed", "lost"} :
          calls' = [calls EXCEPT ![t] = Outcome(calls[t], answer)]
    BY <1>1 DEF Attempt
  <2>2. pc' = pc
    BY <1>1 DEF Attempt
  <2>3. calls'[t].tries = calls[t].tries + 1 /\ \A u \in Tasks \ {t} : calls'[u] = calls[u]
    BY <2>1 DEF IInv, TypeOK, Outcome
  <2>4. \A u \in Tasks \ {t} : Rank(u)' = Rank(u)
    BY <2>2, <2>3 DEF Rank
  <2>5. Rank(t)' = Stage[pc[t]] + (Attempts - (calls[t].tries + 1))
    BY <2>2, <2>3 DEF Rank
  <2>6. Stage[pc[t]] \in Nat /\ calls[t].tries \in 0 .. Attempts
    BY <1>0, StageNat, TriesBounded
  <2> QED BY <1>0, <2>4, <2>5, <2>6 DEF Rank, NearerItsEnd
<1>2. CASE Arrive(t)
  <2>1. PICK p \in {"queued", "asked", "read"} : pc[t] = "idle" /\ To(t, p)
    BY <1>2 DEF Arrive
  <2>2. p \in PC /\ Stage[p] < Stage[pc[t]]
    BY <1>0, <2>1, Stages, PCs
  <2> QED BY <2>1, <2>2, Falls DEF To
<1>3. CASE Connect(t)
  <2>1. pc[t] \in Waiting /\ To(t, Granted[pc[t]])
    BY <1>3 DEF Connect
  <2>2. Granted[pc[t]] \in PC /\ Stage[Granted[pc[t]]] < Stage[pc[t]]
    BY <1>0, <2>1, Stages, PCs
  <2> QED BY <2>1, <2>2, Falls DEF To
<1>4. CASE TimeOut(t)
  <2>1. PICK p \in {"record", "done"} :
          pc[t] \in Waiting /\ (p = "record" => pc[t] \in {"claim", "dispatch", "settle"}) /\ To(t, p)
    BY <1>4 DEF TimeOut
  <2>2. p \in PC /\ Stage[p] < Stage[pc[t]]
    BY <1>0, <2>1, Stages, PCs
  <2> QED BY <2>1, <2>2, Falls DEF To
<1>5. CASE TakeSlot(t) \/ Receive(t)
  <2>1. PICK p \in {"claim", "done"} : pc[t] \in {"queued", "receive"} /\ To(t, p)
    BY <1>5 DEF TakeSlot, Receive
  <2>2. p \in PC /\ Stage[p] < Stage[pc[t]]
    BY <1>0, <2>1, Stages, PCs
  <2> QED BY <2>1, <2>2, Falls DEF To
<1>6. CASE Claim(t) \/ Undone(t)
  <2>1. PICK p \in {"dispatch", "done", "record", "settle"} :
          pc[t] \in {"claiming", "dispatch"} /\ (p = "dispatch" => pc[t] = "claiming") /\ To(t, p)
    BY <1>6 DEF Claim, Undone
  <2>2. p \in PC /\ Stage[p] < Stage[pc[t]]
    BY <1>0, <2>1, Stages, PCs
  <2> QED BY <2>1, <2>2, Falls DEF To
<1>7. CASE Handle(t) \/ Settle(t) \/ Recorded(t)
  <2>1. PICK p \in {"done", "announce", "second", "record"} :
          /\ pc[t] \in {"handling", "settling", "recording", "both"}
          /\ p \in {"announce", "second"} => pc[t] = "handling"
          /\ p = "record" => pc[t] = "settling"
          /\ To(t, p)
    BY <1>7 DEF Handle, Settle, Recorded
  <2>2. p \in PC /\ Stage[p] < Stage[pc[t]]
    BY <1>0, <2>1, Stages, PCs
  <2> QED BY <2>1, <2>2, Falls DEF To
<1>8. CASE Look(t) \/ Exited(t)
  <2>1. PICK p \in {"watch", "done", "finish"} :
          /\ pc[t] \in {"reading", "watch"} /\ (p = "watch" => pc[t] = "reading")
          /\ To(t, p)
    BY <1>8 DEF Look, Exited
  <2>2. p \in PC /\ Stage[p] < Stage[pc[t]]
    BY <1>0, <2>1, Stages, PCs
  <2> QED BY <2>1, <2>2, Falls DEF To
<1>9. CASE GoOn(t)
  <2>1. PICK p \in {"settle", "done"} :
          /\ pc' = [pc EXCEPT ![t] = p] /\ calls' = [calls EXCEPT ![t] = NoCalls]
          /\ (p = "settle" => pc[t] = "announce") /\ pc[t] \in {"announce", "post"}
    BY <1>9 DEF GoOn
  <2>2. p \in PC /\ Stage[p] + Attempts < Stage[pc[t]]
    BY <1>0, <2>1, Stages, PCs
  <2> QED BY <2>1, <2>2, Falls
<1> QED BY <1>1, <1>2, <1>3, <1>4, <1>5, <1>6, <1>7, <1>8, <1>9 DEF Step

(* No task goes round in a circle: of all the steps tasks take, whatever     *)
(* times out or is tried again, each lowers a rank and none raises one, so   *)
(* that their number is bounded beforehand.                                  *)
THEOREM StepsAreBounded == Spec => EveryStepCounts
<1>1. IInv /\ [Next]_vars => [\E t \in Tasks : NearerItsEnd(t)]_vars
  BY RankFalls DEF Next
<1> QED BY <1>1, ConnectionsInvariance, PTL DEF Spec, EveryStepCounts

(* Ranks are natural numbers: they cannot fall for ever. *)
THEOREM RanksAreNatural == Spec => [](\A t \in Tasks : Rank(t) \in Nat)
<1>1. ASSUME IInv PROVE \A t \in Tasks : Rank(t) \in Nat
  <2> TAKE t \in Tasks
  <2>1. Stage[pc[t]] \in Nat /\ calls[t].tries \in 0 .. Attempts /\ Attempts \in Nat
    BY <1>1, StageNat, TriesBounded
  <2> QED BY <2>1 DEF Rank
<1> QED BY <1>1, ConnectionsInvariance, PTL

=============================================================================
