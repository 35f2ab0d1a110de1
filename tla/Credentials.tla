----------------------------- MODULE Credentials -----------------------------
(* The encrypted credentials of the database -- users' GitHub tokens and     *)
(* installations' Claude keys -- while an operator rotates the Fernet key:   *)
(* deploy the new key in front of the old one, rewrite what is stored with   *)
(* rotate_credentials.py, empty the fallbacks and deploy again.  Meanwhile   *)
(* users log in, and administrators store and remove keys.                   *)
(*                                                                           *)
(* Requests and script read a row in one statement and write it in a later   *)
(* one.  A deployment replaces the process: what was under way in it is cut. *)
EXTENDS Naturals

CONSTANTS
  Tokens,    \* users, each with a GitHub token
  ByokKeys,  \* installations, each with room for a Claude key
  Deleted,   \* those of them that were uninstalled: no request reaches them
  Requests,  \* logins, and requests to store or to remove a key
  None       \* no value, no owner

Owners == Tokens \cup ByokKeys

ASSUME CredentialsAssumption == /\ Deleted \subseteq ByokKeys
                                /\ Tokens \cap ByokKeys = {}
                                /\ None \notin Owners \cup Requests

VARIABLES
  stored,  \* the rows
  ring,    \* the keys of the deployed process
  req,     \* the requests
  rot,     \* the script
  report   \* how its last run went

vars == <<stored, ring, req, rot, report>>

-----------------------------------------------------------------------------
(* Types *)

(* "new" is the key to rotate to, "old" the one before.  Some rows are under *)
(* an older one still, that was dropped too early.                           *)
Key == {"older", "old", "new"}

(* A key ring: new values are written with primary, and any key is good to   *)
(* read with.                                                                *)
Ring == [primary : Key, all : SUBSET Key]

(* The value is named for the request that stored it. *)
Row == [there : BOOLEAN, id : Nat, value : Requests \cup {None}, key : Key]

Request == [pc : {"idle", "store", "remove", "done"}, of : Owners \cup {None}, found : BOOLEAN, id : Nat]
Script == [pc : {"idle", "tokens", "all"}, seen : [Owners -> Row]]

(* A report is about a run that is over. *)
TypeOK ==
  /\ stored \in [Owners -> Row]
  /\ ring \in Ring
  /\ req \in [Requests -> Request]
  /\ rot \in Script
  /\ report \in {"none", "ok", "failed"}
  /\ rot.pc # "idle" => report = "none"

-----------------------------------------------------------------------------
(* Encryption: MultiFernet *)

(* Mutant of EncryptionKey: a new value is written with the last key. *)
LastKey == IF "old" \in ring.all THEN "old" ELSE ring.primary

EncryptionKey == ring.primary

Readable(row) == row.key \in ring.all

-----------------------------------------------------------------------------
(* Requests *)

Over == [pc |-> "done", of |-> None, found |-> FALSE, id |-> 0]

Read(r, kind, o) ==
  /\ req[r].pc = "idle"
  /\ req' = [req EXCEPT ![r] =
       [pc |-> kind, of |-> o, found |-> stored[o].there, id |-> stored[o].id]]
  /\ UNCHANGED <<stored, ring, rot, report>>

(* A login stores its token; configure_byok a key that Anthropic accepts;    *)
(* delete_byok_config removes one.                                           *)
Ask(r) == \/ \E o \in Owners \ Deleted : Read(r, "store", o)
          \/ \E o \in ByokKeys \ Deleted : Read(r, "remove", o)

(* Rows the script has written and not committed. *)
Locked(o) == rot.pc = "all" /\ o \in Tokens /\ Readable(rot.seen[o])

(* The row that was found is still there. *)
Still(r) == stored[req[r].of].there /\ stored[req[r].of].id = req[r].id

(* The row that was found is updated, or a new one inserted.  Otherwise, as  *)
(* others were faster, the statement fails.                                  *)
Store(r) ==
  LET o == req[r].of IN
  /\ req[r].pc = "store"
  /\ ~Locked(o)
  /\ IF req[r].found
     THEN stored' = IF Still(r) THEN [stored EXCEPT ![o].value = r, ![o].key = EncryptionKey] ELSE stored
     ELSE stored' = IF stored[o].there THEN stored
                    ELSE [stored EXCEPT ![o] = [there |-> TRUE, id |-> @.id + 1,
                                                value |-> r, key |-> EncryptionKey]]
  /\ req' = [req EXCEPT ![r] = Over]
  /\ UNCHANGED <<ring, rot, report>>

(* To delete a row that is gone is no error. *)
Remove(r) ==
  /\ req[r].pc = "remove"
  /\ stored' = IF req[r].found /\ Still(r) THEN [stored EXCEPT ![req[r].of].there = FALSE] ELSE stored
  /\ req' = [req EXCEPT ![r] = Over]
  /\ UNCHANGED <<ring, rot, report>>

(* The credential is invalid, or the transaction is rolled back. *)
RequestFails(r) ==
  /\ req[r].pc \in {"store", "remove"}
  /\ req' = [req EXCEPT ![r] = Over]
  /\ UNCHANGED <<stored, ring, rot, report>>

-----------------------------------------------------------------------------
(* rotate_credentials.py *)

NoRow == [there |-> FALSE, id |-> 0, value |-> None, key |-> "old"]
Idle == [pc |-> "idle", seen |-> [o \in Owners |-> NoRow]]

ReadTokens ==
  /\ rot.pc = "idle"
  /\ rot' = [pc |-> "tokens", seen |-> stored]
  /\ report' = "none"
  /\ UNCHANGED <<stored, ring, req>>

(* The second SELECT flushes the tokens first. *)
ReadByokKeys ==
  /\ rot.pc = "tokens"
  /\ rot' = [pc |-> "all", seen |-> [o \in Owners |-> IF o \in Tokens THEN rot.seen[o] ELSE stored[o]]]
  /\ UNCHANGED <<stored, ring, req, report>>

(* Mutant of Listed: those of uninstalled installations are left alone. *)
ListedActive == {o \in Owners \ Deleted : rot.seen[o].there}

(* list_all, list_all_byok_configs *)
Listed == {o \in Owners : rot.seen[o].there}

Rotated == {o \in Listed : Readable(rot.seen[o])}

(* A row that is updated must be there. *)
Missing == {o \in Rotated : ~stored[o].there \/ stored[o].id # rot.seen[o].id}

(* All rows that a key can read are written anew, in one transaction; the    *)
(* others are reported.                                                      *)
Commit ==
  /\ rot.pc = "all"
  /\ Missing = {}
  /\ stored' = [o \in Owners |-> IF o \in Rotated
                                 THEN [rot.seen[o] EXCEPT !.key = EncryptionKey] ELSE stored[o]]
  /\ report' = IF Rotated = Listed THEN "ok" ELSE "failed"
  /\ rot' = Idle
  /\ UNCHANGED <<ring, req>>

(* A row is gone, or the database: nothing is written. *)
ScriptFails ==
  /\ rot.pc # "idle"
  /\ rot' = Idle
  /\ report' = "failed"
  /\ UNCHANGED <<stored, ring, req>>

-----------------------------------------------------------------------------
(* The operator *)

Deploy(r) ==
  /\ ring' = r
  /\ rot' = Idle
  /\ report' = "none"
  /\ req' = [q \in Requests |-> IF req[q].pc \in {"store", "remove"} THEN Over ELSE req[q]]
  /\ UNCHANGED stored

(* Step 1: the new key in front. *)
DeployNewKey == ring.primary = "old" /\ Deploy([primary |-> "new", all |-> ring.all \cup {"new"}])

(* A run has named rows it could not read: the missing key is added. *)
DeployMissingKey ==
  /\ report = "failed"
  /\ "older" \notin ring.all
  /\ Deploy([ring EXCEPT !.all = @ \cup {"older"}])

(* Step 4: "FERNET_KEY_FALLBACKS can now be emptied." *)
EmptyFallbacks == report = "ok" /\ ring.primary = "new" /\ Deploy([primary |-> "new", all |-> {"new"}])

-----------------------------------------------------------------------------
(* Specification *)

Init ==
  /\ stored \in [Owners -> [there : BOOLEAN, id : {0}, value : {None}, key : {"older", "old"}]]
  /\ \A o \in Tokens \cup Deleted : stored[o].there
  /\ ring = [primary |-> "old", all |-> {"old"}]
  /\ req = [r \in Requests |-> [Over EXCEPT !.pc = "idle"]]
  /\ rot = Idle
  /\ report = "none"

Run == ReadTokens \/ ReadByokKeys \/ Commit \/ ScriptFails
Operate == DeployNewKey \/ DeployMissingKey \/ EmptyFallbacks

Next ==
  \/ \E r \in Requests : Ask(r) \/ Store(r) \/ Remove(r) \/ RequestFails(r)
  \/ Run
  \/ Operate

Spec == Init /\ [][Next]_vars

-----------------------------------------------------------------------------
(* Properties *)

(* When a run has reported success, every credential is under the primary    *)
(* key, whatever was stored or removed while it ran: the others can go.      *)
FallbacksUnused ==
  report = "ok" => \A o \in Owners : stored[o].there => stored[o].key = ring.primary

(* No step -- a login, a new key, a run of the script, a deployment that     *)
(* follows the four steps -- makes a credential that could be read one that  *)
(* cannot be.                                                                *)
NoneLost ==
  [][\A o \in Owners : stored[o].there /\ Readable(stored[o]) /\ stored'[o].there
       => stored'[o].key \in ring'.all]_vars
=============================================================================
