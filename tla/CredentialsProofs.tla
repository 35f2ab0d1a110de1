-------------------------- MODULE CredentialsProofs --------------------------
(* Proofs about Credentials, for any number of credentials and requests.     *)
EXTENDS Credentials, TLAPS

(* New values are read by the key they were written with. *)
RingInv == ring.primary \in ring.all

(* Whatever the script has not seen was stored since, under the primary key. *)
UnseenInv == rot.pc # "idle" =>
  \A o \in Owners : stored[o].there /\ ~rot.seen[o].there => stored[o].key = ring.primary

IInv == TypeOK /\ RingInv /\ UnseenInv /\ FallbacksUnused

-----------------------------------------------------------------------------
LEMMA Types ==
  ASSUME TypeOK
  PROVE  /\ stored \in [Owners -> Row]
         /\ ring.primary \in Key /\ ring.all \in SUBSET Key
         /\ ring = [primary |-> ring.primary, all |-> ring.all]
         /\ req \in [Requests -> Request]
         /\ rot.pc \in {"idle", "tokens", "all"} /\ rot.seen \in [Owners -> Row]
         /\ report \in {"none", "ok", "failed"}
         /\ \A r \in Requests : req[r].of \in Owners \cup {None} /\ req[r].id \in Nat
BY DEF TypeOK, Ring, Script, Request

LEMMA Shapes == /\ NoRow \in Row /\ Over \in Request
                /\ Idle \in Script /\ Idle.pc = "idle"
<1>1. NoRow \in Row /\ Over \in Request
  BY DEF NoRow, Row, Key, Over, Request
<1>2. [o \in Owners |-> NoRow] \in [Owners -> Row]
  BY <1>1
<1> QED BY <1>1, <1>2 DEF Idle, Script

LEMMA RowEdits ==
  ASSUME NEW row \in Row, NEW v \in Requests, NEW k \in Key
  PROVE  /\ [row EXCEPT !.value = v, !.key = k] \in Row
         /\ [row EXCEPT !.value = v, !.key = k].key = k
         /\ [row EXCEPT !.there = FALSE] \in Row
         /\ ~[row EXCEPT !.there = FALSE].there
BY DEF Row

LEMMA RingEdit ==
  ASSUME NEW r \in Ring
  PROVE  [r EXCEPT !.all = @ \cup {"older"}] =
           [primary |-> r.primary, all |-> r.all \cup {"older"}]
BY DEF Ring

LEMMA CredentialsInit == Init => IInv
<1> SUFFICES ASSUME Init PROVE IInv
  OBVIOUS
<1>1. stored \in [Owners -> Row]
  BY DEF Init, Row, Key
<1>2. ring \in Ring /\ RingInv
  BY DEF Init, Ring, Key, RingInv
<1>3. req \in [Requests -> Request]
  <2>1. [Over EXCEPT !.pc = "idle"] \in Request
    BY Shapes DEF Request
  <2> QED BY <2>1 DEF Init
<1>4. TypeOK
  BY <1>1, <1>2, <1>3, Shapes DEF Init, TypeOK
<1> QED BY <1>2, <1>4, Shapes DEF Init, IInv, UnseenInv, FallbacksUnused

(* A request that moves on, and leaves the rows alone. *)
LEMMA RequestMoves ==
  ASSUME IInv, NEW r \in Requests, NEW q \in Request,
         req' = [req EXCEPT ![r] = q], UNCHANGED <<stored, ring, rot, report>>
  PROVE  IInv'
<1>1. req' \in [Requests -> Request]
  BY Types DEF IInv
<1> QED BY <1>1 DEF IInv, TypeOK, RingInv, UnseenInv, FallbacksUnused

(* A request that writes one row, or deletes it. *)
LEMMA RowWritten ==
  ASSUME IInv, NEW r \in Requests, NEW o \in Owners, NEW x \in Row,
         stored' = [stored EXCEPT ![o] = x],
         x.there => x.key = ring.primary,
         req' = [req EXCEPT ![r] = Over], UNCHANGED <<ring, rot, report>>
  PROVE  IInv'
<1>1. req' \in [Requests -> Request]
  BY Types, Shapes DEF IInv
<1>2. /\ stored' \in [Owners -> Row]
      /\ \A p \in Owners : stored'[p] = stored[p] \/ stored'[p] = x
  BY Types DEF IInv
<1>3. TypeOK' /\ RingInv'
  BY <1>1, <1>2 DEF IInv, TypeOK, RingInv
<1>4. UnseenInv' /\ FallbacksUnused'
  BY <1>2 DEF IInv, UnseenInv, FallbacksUnused
<1> QED BY <1>3, <1>4 DEF IInv

LEMMA ReadStep ==
  ASSUME IInv, NEW r \in Requests, Ask(r)
  PROVE  IInv'
<1>1. PICK kind \in {"store", "remove"}, o \in Owners : Read(r, kind, o)
  BY DEF Ask, Owners
<1> DEFINE q == [pc |-> kind, of |-> o, found |-> stored[o].there, id |-> stored[o].id]
<1>2. q \in Request
  BY Types DEF IInv, Request, Row
<1>3. req' = [req EXCEPT ![r] = q] /\ UNCHANGED <<stored, ring, rot, report>>
  BY <1>1 DEF Read
<1> HIDE DEF q
<1> QED BY <1>2, <1>3, RequestMoves

LEMMA StoreStep ==
  ASSUME IInv, NEW r \in Requests, Store(r)
  PROVE  IInv'
<1> DEFINE o == req[r].of
<1>1. req' = [req EXCEPT ![r] = Over] /\ UNCHANGED <<ring, rot, report>>
  BY DEF Store
<1>2. CASE UNCHANGED stored
  BY <1>1, <1>2, Shapes, RequestMoves
<1>3. CASE stored' = [stored EXCEPT ![o].value = r, ![o].key = EncryptionKey]
  <2>1. CASE o \in Owners
    <3> DEFINE x == [stored[o] EXCEPT !.value = r, !.key = EncryptionKey]
    <3>1. x \in Row /\ x.key = ring.primary
      <4>1. stored[o] \in Row /\ EncryptionKey = ring.primary /\ ring.primary \in Key
        BY <2>1, Types DEF IInv, EncryptionKey
      <4>2. ASSUME NEW row \in Row, NEW k \in Key
            PROVE  /\ [row EXCEPT !.value = r, !.key = k] \in Row
                   /\ [row EXCEPT !.value = r, !.key = k].key = k
        BY RowEdits
      <4>3. PICK k \in Key : k = EncryptionKey
        BY <4>1
      <4>4. PICK row \in Row : row = stored[o]
        BY <4>1
      <4>5. x = [row EXCEPT !.value = r, !.key = k]
        BY <4>3, <4>4
      <4> HIDE DEF x
      <4> QED BY <4>1, <4>2, <4>3, <4>5
    <3>2. stored' = [stored EXCEPT ![o] = x]
      BY <1>3
    <3> HIDE DEF x
    <3> QED BY <1>1, <2>1, <3>1, <3>2, RowWritten
  <2>2. CASE o \notin Owners
    <3>1. stored' = stored
      BY <1>3, <2>2, Types DEF IInv
    <3> QED BY <1>1, <3>1, Shapes, RequestMoves
  <2> QED BY <2>1, <2>2
<1>4. CASE stored' = [stored EXCEPT ![o] = [there |-> TRUE, id |-> @.id + 1,
                                            value |-> r, key |-> EncryptionKey]]
  <2>1. CASE o \in Owners
    <3> DEFINE x == [there |-> TRUE, id |-> stored[o].id + 1, value |-> r, key |-> EncryptionKey]
    <3>1. stored[o].id \in Nat
      BY <2>1, Types DEF IInv, Row
    <3>2. x \in Row /\ x.key = ring.primary
      BY <2>1, <3>1, Types DEF IInv, Row, EncryptionKey
    <3>3. stored' = [stored EXCEPT ![o] = x]
      BY <1>4
    <3> HIDE DEF x
    <3> QED BY <1>1, <2>1, <3>2, <3>3, RowWritten
  <2>2. CASE o \notin Owners
    <3>1. stored' = stored
      BY <1>4, <2>2, Types DEF IInv
    <3> QED BY <1>1, <3>1, Shapes, RequestMoves
  <2> QED BY <2>1, <2>2
<1> QED BY <1>2, <1>3, <1>4 DEF Store

LEMMA RemoveStep ==
  ASSUME IInv, NEW r \in Requests, Remove(r)
  PROVE  IInv'
<1> DEFINE o == req[r].of
<1>1. req' = [req EXCEPT ![r] = Over] /\ UNCHANGED <<ring, rot, report>>
  BY DEF Remove
<1>2. CASE stored' = stored
  BY <1>1, <1>2, Shapes, RequestMoves
<1>3. CASE stored' = [stored EXCEPT ![o].there = FALSE]
  <2>1. CASE o \in Owners
    <3> DEFINE x == [stored[o] EXCEPT !.there = FALSE]
    <3>1. x \in Row /\ ~x.there
      <4>1. stored[o] \in Row /\ EncryptionKey = ring.primary /\ ring.primary \in Key
        BY <2>1, Types DEF IInv, EncryptionKey
      <4> QED BY <4>1, RowEdits
    <3>2. stored' = [stored EXCEPT ![o] = x]
      BY <1>3
    <3> HIDE DEF x
    <3> QED BY <1>1, <2>1, <3>1, <3>2, RowWritten
  <2>2. CASE o \notin Owners
    <3>1. stored' = stored
      BY <1>3, <2>2, Types DEF IInv
    <3> QED BY <1>1, <3>1, Shapes, RequestMoves
  <2> QED BY <2>1, <2>2
<1> QED BY <1>2, <1>3 DEF Remove

-----------------------------------------------------------------------------
LEMMA ReadTokensStep ==
  ASSUME IInv, ReadTokens
  PROVE  IInv'
<1>1. /\ rot' = [pc |-> "tokens", seen |-> stored] /\ report' = "none"
      /\ UNCHANGED <<stored, ring, req>>
  BY DEF ReadTokens
<1>2. rot' \in Script
  BY <1>1, Types DEF IInv, Script
<1>3. TypeOK'
  BY <1>1, <1>2 DEF IInv, TypeOK
<1> QED BY <1>1, <1>3 DEF IInv, RingInv, UnseenInv, FallbacksUnused

LEMMA ReadByokKeysStep ==
  ASSUME IInv, ReadByokKeys
  PROVE  IInv'
<1> DEFINE s == [o \in Owners |-> IF o \in Tokens THEN rot.seen[o] ELSE stored[o]]
<1>1. /\ rot.pc = "tokens" /\ rot' = [pc |-> "all", seen |-> s]
      /\ UNCHANGED <<stored, ring, req, report>>
  BY DEF ReadByokKeys
<1>2. /\ s \in [Owners -> Row]
      /\ \A o \in Owners : s[o] = rot.seen[o] \/ s[o] = stored[o]
  BY Types DEF IInv
<1> HIDE DEF s
<1>3. rot' \in Script /\ rot'.seen = s /\ rot'.pc = "all"
  BY <1>1, <1>2 DEF Script
<1>4. TypeOK'
  BY <1>1, <1>3 DEF IInv, TypeOK
<1>5. UnseenInv'
  BY <1>1, <1>2, <1>3 DEF IInv, UnseenInv
<1> QED BY <1>1, <1>4, <1>5 DEF IInv, RingInv, FallbacksUnused

LEMMA CommitStep ==
  ASSUME IInv, Commit
  PROVE  IInv'
<1>1. /\ rot.pc = "all" /\ rot' = Idle /\ UNCHANGED <<ring, req>>
      /\ report' = IF Rotated = Listed THEN "ok" ELSE "failed"
  BY DEF Commit
<1>2. ASSUME NEW o \in Owners
      PROVE  /\ stored'[o] \in Row
             /\ o \in Rotated => stored'[o].key = ring.primary
             /\ o \notin Rotated => stored'[o] = stored[o]
  <2> DEFINE x == [rot.seen[o] EXCEPT !.key = EncryptionKey]
  <2>1. x \in Row /\ x.key = ring.primary
    BY Types DEF IInv, Row, EncryptionKey
  <2>2. stored'[o] = IF o \in Rotated THEN x ELSE stored[o]
    BY DEF Commit
  <2> HIDE DEF x
  <2> QED BY <2>1, <2>2, Types DEF IInv
<1>3. stored' \in [Owners -> Row]
  BY <1>2 DEF Commit
<1>4. TypeOK'
  BY <1>1, <1>3, Shapes DEF IInv, TypeOK
<1>5. FallbacksUnused'
  <2> SUFFICES ASSUME report' = "ok", NEW o \in Owners, stored'[o].there
               PROVE  stored'[o].key = ring.primary
    BY <1>1 DEF FallbacksUnused
  <2>1. Rotated = Listed
    BY <1>1
  <2>2. CASE o \in Rotated
    BY <1>2, <2>2
  <2>3. CASE o \notin Rotated
    <3>1. ~rot.seen[o].there /\ stored'[o] = stored[o]
      BY <1>2, <2>1, <2>3 DEF Listed
    <3> QED BY <1>1, <3>1 DEF IInv, UnseenInv
  <2> QED BY <2>2, <2>3
<1> QED BY <1>1, <1>4, <1>5, Shapes DEF IInv, RingInv, UnseenInv

LEMMA ScriptFailsStep ==
  ASSUME IInv, ScriptFails
  PROVE  IInv'
<1>1. rot' = Idle /\ report' = "failed" /\ UNCHANGED <<stored, ring, req>>
  BY DEF ScriptFails
<1> QED BY <1>1, Shapes DEF IInv, TypeOK, RingInv, UnseenInv, FallbacksUnused

LEMMA DeployStep ==
  ASSUME IInv, NEW r \in Ring, r.primary \in r.all, Deploy(r)
  PROVE  IInv'
<1>1. /\ ring' = r /\ rot' = Idle /\ report' = "none" /\ UNCHANGED stored
      /\ req' = [q \in Requests |-> IF req[q].pc \in {"store", "remove"} THEN Over ELSE req[q]]
  BY DEF Deploy
<1>2. req' \in [Requests -> Request]
  BY <1>1, Types, Shapes DEF IInv
<1>3. TypeOK'
  BY <1>1, <1>2, Shapes DEF IInv, TypeOK
<1> QED BY <1>1, <1>3, Shapes DEF IInv, RingInv, UnseenInv, FallbacksUnused

(* Each deployment is of a ring that reads what it writes. *)
LEMMA Rings ==
  ASSUME IInv, Operate
  PROVE  \E r \in Ring : r.primary \in r.all /\ Deploy(r)
<1>1. CASE DeployNewKey
  <2> DEFINE r == [primary |-> "new", all |-> ring.all \cup {"new"}]
  <2>1. r \in Ring /\ r.primary \in r.all
    BY Types DEF IInv, Ring, Key
  <2> QED BY <1>1, <2>1 DEF DeployNewKey
<1>2. CASE DeployMissingKey
  <2> DEFINE r == [ring EXCEPT !.all = @ \cup {"older"}]
  <2>1. r = [primary |-> ring.primary, all |-> ring.all \cup {"older"}]
    BY RingEdit DEF IInv, TypeOK
  <2>2. r \in Ring /\ r.primary \in r.all
    BY <2>1, Types DEF IInv, RingInv, Ring, Key
  <2> QED BY <1>2, <2>2 DEF DeployMissingKey
<1>3. CASE EmptyFallbacks
  <2> DEFINE r == [primary |-> "new", all |-> {"new"}]
  <2>1. r \in Ring /\ r.primary \in r.all
    BY DEF Ring, Key
  <2> QED BY <1>3, <2>1 DEF EmptyFallbacks
<1> QED BY <1>1, <1>2, <1>3 DEF Operate

-----------------------------------------------------------------------------
LEMMA CredentialsNext == IInv /\ [Next]_vars => IInv'
<1> SUFFICES ASSUME IInv, [Next]_vars PROVE IInv'
  OBVIOUS
<1>1. CASE UNCHANGED vars
  BY <1>1 DEF vars, IInv, TypeOK, RingInv, UnseenInv, FallbacksUnused
<1>2. ASSUME NEW r \in Requests, RequestFails(r) PROVE IInv'
  BY <1>2, Shapes, RequestMoves DEF RequestFails
<1>3. CASE Operate
  BY <1>3, Rings, DeployStep
<1> QED BY <1>1, <1>2, <1>3, ReadStep, StoreStep, RemoveStep, ReadTokensStep, ReadByokKeysStep,
           CommitStep, ScriptFailsStep DEF Next, Run

LEMMA CredentialsInvariance == Spec => []IInv
BY CredentialsInit, CredentialsNext, PTL DEF Spec

(* Every variable keeps its type, and no report outlives its run. *)
THEOREM CredentialsTypeCorrect == Spec => []TypeOK
<1>1. IInv => TypeOK
  BY DEF IInv
<1> QED BY <1>1, CredentialsInvariance, PTL

(* A successful run leaves nothing under a key that is to be dropped. *)
THEOREM RotationCompletes == Spec => []FallbacksUnused
<1>1. IInv => FallbacksUnused
  BY DEF IInv
<1> QED BY <1>1, CredentialsInvariance, PTL

(* No step, of the operator's or of anyone's, locks a credential away. *)
THEOREM NothingLocked == Spec => NoneLost
<1>1. IInv /\ [Next]_vars =>
        [\A o \in Owners : stored[o].there /\ Readable(stored[o]) /\ stored'[o].there
           => stored'[o].key \in ring'.all]_vars
  <2> SUFFICES ASSUME IInv, Next, NEW o \in Owners,
                      stored[o].there, stored[o].key \in ring.all, stored'[o].there
               PROVE  stored'[o].key \in ring'.all
    BY DEF vars, Readable
  <2>1. ring.primary \in ring.all /\ stored \in [Owners -> Row]
    BY Types DEF IInv, RingInv
  <2>2. ASSUME stored' = stored, ring' = ring PROVE stored'[o].key \in ring'.all
    BY <2>2
  <2>3. ASSUME NEW r \in Requests, Store(r) PROVE stored'[o].key \in ring'.all
    <3>1. stored'[o] = stored[o] \/ stored'[o].key = ring.primary
      BY <2>1, <2>3 DEF Store, EncryptionKey, Row
    <3> QED BY <2>1, <2>3, <3>1 DEF Store
  <2>4. ASSUME NEW r \in Requests, Remove(r) PROVE stored'[o].key \in ring'.all
    <3>1. stored'[o].key = stored[o].key
      BY <2>1, <2>4 DEF Remove, Row
    <3> QED BY <2>1, <2>4, <3>1 DEF Remove
  <2>5. CASE Commit
    <3>1. stored'[o] = stored[o] \/ stored'[o].key = ring.primary
      BY <2>5, Types DEF Commit, EncryptionKey, IInv, Row
    <3> QED BY <2>1, <2>5, <3>1 DEF Commit
  <2>6. CASE DeployNewKey \/ DeployMissingKey
    BY <2>6, Types DEF DeployNewKey, DeployMissingKey, Deploy, IInv
  <2>7. CASE EmptyFallbacks
    BY <2>7 DEF EmptyFallbacks, Deploy, IInv, FallbacksUnused
  <2> QED BY <2>2, <2>3, <2>4, <2>5, <2>6, <2>7 DEF Next, Ask, Read, RequestFails, Run, ReadTokens,
             ReadByokKeys, ScriptFails, Operate
<1> QED BY <1>1, CredentialsInvariance, PTL DEF Spec, NoneLost

=============================================================================
