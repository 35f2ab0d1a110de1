-------------------------- MODULE CredentialsClaims --------------------------
(* What is said of the rotation of keys, and TLC refutes.                    *)
EXTENDS Credentials

(* rotate_credentials.py: "rotating a value already under the primary key    *)
(* just rewrites it"; self-hosting.md: the rotation "needs no downtime".     *)
(* The script writes back the values it has read.  A key that was stored     *)
(* meanwhile, under the primary key and acknowledged, is replaced by the one *)
(* before it.                                                                *)
OnlyRequestsStore ==
  [][\A o \in Owners : stored[o].there /\ stored'[o].value # stored[o].value =>
       \E r \in Requests : req[r].pc = "store" /\ req[r].of = o /\ req'[r].pc = "done"]_vars

=============================================================================
