---------------------------- MODULE TokensProofs ----------------------------
(* Proofs about Tokens, for any number of pages, calls, logouts and faults.  *)
EXTENDS Tokens, TLAPS

(* What a logout revokes stays revoked because no write can bring the        *)
(* version back: whoever is between its read and its write has read at       *)
(* least what a logout that began alone has read.                            *)
RevokedInv ==
  /\ \A v \in revoked : v < version
  /\ \A l \in Logouts : logout[l].pc = "read" => \A v \in revoked : v <= logout[l].ver
  /\ \A l \in Logouts : logout[l].pc = "read" /\ logout[l].alone =>
       /\ logout[l].ver <= version
       /\ \A k \in Logouts : logout[k].pc = "read" => logout[l].ver <= logout[k].ver

(* While nothing happens, whoever has a token has a cookie that is honoured. *)
PeaceInv == Peace =>
  /\ cookie \in {Nothing, version}
  /\ \A p \in Pages :
       /\ refresh[p].pc \in {"asked", "granted"} => refresh[p].ver = version
       /\ refresh[p].pc # "denied"
       /\ page[p].token # "none" => cookie = version
  /\ \A c \in Calls : call[c].token # "none" => cookie = version

(* A page that was left has no calls. *)
AwayInv == \A c \in Calls : page[PageOf[c]].at # "app" => call[c].pc \notin InFlight

TInv == TypeOK /\ RevokedInv /\ PeaceInv /\ AwayInv

-----------------------------------------------------------------------------
LEMMA TokensInit == Init => TInv
<1> SUFFICES ASSUME Init PROVE TInv
  OBVIOUS
<1>1. TypeOK
  BY TokensAssumption DEF Init, TypeOK, Logout, Page, AccessToken, Refresh, NoRefresh, Nothing, Call,
     InFlight
<1>2. RevokedInv
  BY DEF Init, RevokedInv
<1>3. PeaceInv
  BY DEF Init, PeaceInv, NoRefresh
<1>4. AwayInv
  BY DEF Init, AwayInv, InFlight
<1> QED BY <1>1, <1>2, <1>3, <1>4 DEF TInv

(* A fault ends the peace. *)
LEMMA FaultEndsPeace ==
  ASSUME TypeOK, Fault
  PROVE  faults' \in 0..MaxFaults /\ ~Peace'
BY TokensAssumption DEF TypeOK, Fault, Peace

(* All there is to show when no logout takes a step. *)
LEMMA RevokedKept ==
  ASSUME RevokedInv, UNCHANGED server
  PROVE  RevokedInv'
BY DEF RevokedInv, server

LEMMA LogoutReadStep ==
  ASSUME TInv, NEW l \in Logouts, LogoutRead(l)
  PROVE  TInv'
<1> DEFINE r == [pc |-> "read", ver |-> version, alone |-> ~Overlapped(l)]
<1>1. /\ logout' = [logout EXCEPT ![l] = r]
      /\ UNCHANGED <<version, cookie, page, refresh, call, revoked, faults>>
      /\ logout \in [Logouts -> Logout] /\ version \in Nat
      /\ revoked \in SUBSET Nat
  BY DEF LogoutRead, TInv, TypeOK
<1>2. r \in Logout /\ r.pc = "read" /\ r.ver = version /\ r.alone = ~Overlapped(l)
  BY <1>1 DEF Logout, Overlapped
<1> HIDE DEF r
<1>3. TypeOK'
  BY <1>1, <1>2 DEF TInv, TypeOK
<1>4. RevokedInv'
  <2>1. \A v \in revoked : v < version /\ v <= version
    BY <1>1 DEF TInv, RevokedInv
  <2>2. \A k \in Logouts : logout[k].pc = "read" => \A v \in revoked : v <= logout[k].ver
    BY DEF TInv, RevokedInv
  <2>3. ASSUME NEW k \in Logouts, logout'[k].pc = "read", logout'[k].alone
        PROVE  /\ logout'[k].ver <= version
               /\ \A m \in Logouts : logout'[m].pc = "read" => logout'[k].ver <= logout'[m].ver
    <3>1. CASE k = l
      <4>1. \A m \in Logouts : m # l => logout'[m].pc # "read"
        BY <1>1, <1>2, <2>3, <3>1 DEF Overlapped
      <4> QED BY <1>1, <1>2, <3>1, <4>1
    <3>2. CASE k # l
      <4>1. /\ logout'[k] = logout[k]
            /\ logout[k].ver <= version
            /\ \A m \in Logouts : logout[m].pc = "read" => logout[k].ver <= logout[m].ver
        BY <1>1, <2>3, <3>2 DEF TInv, RevokedInv
      <4> QED BY <1>1, <1>2, <4>1
    <3> QED BY <3>1, <3>2
  <2>4. \A k \in Logouts : logout'[k].pc = "read" => \A v \in revoked : v <= logout'[k].ver
    BY <1>1, <1>2, <2>1, <2>2
  <2> QED BY <1>1, <2>1, <2>3, <2>4 DEF RevokedInv
<1>5. ~Peace'
  BY <1>1, <1>2 DEF Peace
<1>6. AwayInv'
  BY <1>1 DEF TInv, AwayInv
<1> QED BY <1>3, <1>4, <1>5, <1>6 DEF TInv, PeaceInv

LEMMA LogoutWriteStep ==
  ASSUME TInv, NEW l \in Logouts, LogoutWrite(l)
  PROVE  TInv'
<1>1. /\ logout[l].pc = "read" /\ version' = logout[l].ver + 1
      /\ revoked' = IF logout[l].alone THEN revoked \cup 0..logout[l].ver ELSE revoked
      /\ logout' = [logout EXCEPT ![l] = LoggedOut]
      /\ UNCHANGED <<cookie, page, refresh, call, faults>>
      /\ logout \in [Logouts -> Logout] /\ logout[l].ver \in Nat
      /\ revoked \in SUBSET Nat
  BY DEF LogoutWrite, TInv, TypeOK, Logout
<1>2. /\ logout' \in [Logouts -> Logout]
      /\ logout'[l].pc = "done"
      /\ \A k \in Logouts : k # l => logout'[k] = logout[k]
  BY <1>1 DEF Logout, LoggedOut
<1>3. TypeOK'
  <2>1. 0..logout[l].ver \subseteq Nat
    BY <1>1
  <2>2. version' \in Nat
    BY <1>1
  <2>3. revoked' \subseteq Nat
    BY <1>1, <2>1
  <2> QED BY <1>1, <1>2, <2>2, <2>3 DEF TInv, TypeOK
<1>4. RevokedInv'
  <2>1. \A v \in revoked : v <= logout[l].ver
    BY <1>1 DEF TInv, RevokedInv
  <2>2. \A v \in revoked' : v \in revoked \/ (logout[l].alone /\ v \in 0..logout[l].ver)
    BY <1>1
  <2>3. \A v \in revoked' : v < version'
    BY <1>1, <2>1, <2>2
  <2>4. ASSUME NEW k \in Logouts, logout'[k].pc = "read", NEW v \in revoked'
        PROVE  v <= logout'[k].ver
    <3>1. k # l /\ logout'[k] = logout[k] /\ logout[k].ver \in Nat
      BY <1>1, <1>2, <2>4 DEF Logout
    <3>2. logout[l].alone => logout[l].ver <= logout[k].ver
      BY <1>1, <2>4, <3>1 DEF TInv, RevokedInv
    <3>3. v \in revoked => v <= logout[k].ver
      BY <2>4, <3>1 DEF TInv, RevokedInv
    <3> QED BY <1>1, <2>2, <3>1, <3>2, <3>3
  <2>5. ASSUME NEW k \in Logouts, logout'[k].pc = "read", logout'[k].alone
        PROVE  /\ logout'[k].ver <= version'
               /\ \A m \in Logouts : logout'[m].pc = "read" => logout'[k].ver <= logout'[m].ver
    <3>1. k # l /\ logout'[k] = logout[k] /\ logout[k].ver \in Nat
      BY <1>1, <1>2, <2>5 DEF Logout
    <3>2. \A m \in Logouts : logout[m].pc = "read" => logout[k].ver <= logout[m].ver
      BY <2>5, <3>1 DEF TInv, RevokedInv
    <3>3. \A m \in Logouts : logout'[m].pc = "read" => logout'[m] = logout[m]
      BY <1>2
    <3> QED BY <1>1, <3>1, <3>2, <3>3
  <2> QED BY <2>3, <2>4, <2>5 DEF RevokedInv
<1>5. ~Peace'
  BY <1>2 DEF Peace
<1>6. AwayInv'
  BY <1>1 DEF TInv, AwayInv
<1> QED BY <1>3, <1>4, <1>5, <1>6 DEF TInv, PeaceInv

LEMMA LogoutFailsStep ==
  ASSUME TInv, NEW l \in Logouts, LogoutFails(l)
  PROVE  TInv'
<1>1. /\ logout' = [logout EXCEPT ![l] = LoggedOut]
      /\ UNCHANGED <<version, cookie, page, refresh, call, revoked>>
      /\ faults' \in 0..MaxFaults /\ ~Peace'
      /\ logout \in [Logouts -> Logout]
  BY FaultEndsPeace DEF LogoutFails, TInv, TypeOK
<1>2. /\ logout' \in [Logouts -> Logout]
      /\ logout'[l].pc = "done"
      /\ \A k \in Logouts : k # l => logout'[k] = logout[k]
  BY <1>1 DEF Logout, LoggedOut
<1>3. TypeOK'
  BY <1>1, <1>2 DEF TInv, TypeOK
<1>4. RevokedInv'
  BY <1>1, <1>2 DEF TInv, RevokedInv
<1>6. AwayInv'
  BY <1>1 DEF TInv, AwayInv
<1> QED BY <1>1, <1>3, <1>4, <1>6 DEF TInv, PeaceInv

-----------------------------------------------------------------------------
(* The browser's steps. *)

LEMMA Shapes ==
  /\ NoRefresh \in Refresh
  /\ \A v \in Nat \cup {Nothing} :
       /\ [pc |-> "asked", ver |-> v] \in Refresh
       /\ [pc |-> "granted", ver |-> v] \in Refresh
       /\ [pc |-> "denied", ver |-> v] \in Refresh
  /\ \A t \in AccessToken : \A pc \in {"answered", "failed", "gone"} \cup InFlight :
       [pc |-> pc, token |-> t] \in Call
BY DEF NoRefresh, Refresh, Call, Nothing, InFlight

(* What is known before a step. *)
LEMMA Types ==
  ASSUME TInv
  PROVE  /\ version \in Nat
         /\ logout \in [Logouts -> Logout]
         /\ cookie \in Nat \cup {Nothing}
         /\ page \in [Pages -> Page]
         /\ refresh \in [Pages -> Refresh]
         /\ call \in [Calls -> Call]
         /\ revoked \in SUBSET Nat
         /\ faults \in 0..MaxFaults
         /\ \A p \in Pages : page[p].token \in AccessToken /\ page[p].at \in {"app", "login", "callback"}
         /\ \A p \in Pages : refresh[p].ver \in Nat \cup {Nothing}
         /\ \A c \in Calls : call[c].token \in AccessToken /\ PageOf[c] \in Pages
         /\ \A c \in Calls : call[c].pc = "waiting" => refresh[PageOf[c]].pc # "none"
BY TokensAssumption DEF TInv, TypeOK, Page, Refresh, Call

(* What the browser's steps owe to the invariant. *)
LEMMA BrowserStep ==
  ASSUME TInv, UNCHANGED server,
         cookie' \in Nat \cup {Nothing},
         page' \in [Pages -> Page],
         refresh' \in [Pages -> Refresh],
         call' \in [Calls -> Call],
         faults' \in 0..MaxFaults,
         \A c \in Calls : call'[c].pc = "waiting" => refresh'[PageOf[c]].pc # "none",
         PeaceInv',
         AwayInv'
  PROVE  TInv'
<1>1. TypeOK'
  BY Types DEF TypeOK, server
<1> QED BY <1>1, RevokedKept DEF TInv

LEMMA RefreshServedStep ==
  ASSUME TInv, NEW p \in Pages, RefreshServed(p)
  PROVE  TInv'
<1> DEFINE r == IF Honoured(refresh[p].ver) THEN [pc |-> "granted", ver |-> version]
                                            ELSE [pc |-> "denied", ver |-> Nothing]
<1>1. /\ refresh[p].pc = "asked" /\ refresh' = [refresh EXCEPT ![p] = r]
      /\ UNCHANGED <<version, logout, revoked, cookie, page, call, faults>>
  BY DEF RefreshServed, server
<1>2. /\ r \in Refresh /\ r.pc # "none"
      /\ r.pc = "granted" => r.ver = version
      /\ r.pc # "asked"
      /\ refresh[p].ver = version => r.pc # "denied"
  BY Types, Shapes DEF Honoured
<1> HIDE DEF r
<1>3. refresh' \in [Pages -> Refresh]
  BY <1>1, <1>2, Types
<1>4. PeaceInv'
  BY <1>1, <1>2, Types DEF PeaceInv, Peace, TInv
<1>5. \A c \in Calls : call'[c].pc = "waiting" => refresh'[PageOf[c]].pc # "none"
  BY <1>1, <1>2, Types
<1>6. AwayInv'
  BY <1>1 DEF TInv, AwayInv
<1> QED BY <1>1, <1>3, <1>4, <1>5, <1>6, Types, BrowserStep DEF server

LEMMA RefreshRefusedStep ==
  ASSUME TInv, NEW p \in Pages, RefreshRefused(p)
  PROVE  TInv'
<1>1. /\ refresh' = [refresh EXCEPT ![p] = [pc |-> "denied", ver |-> Nothing]]
      /\ UNCHANGED <<version, logout, revoked, cookie, page, call>>
      /\ faults' \in 0..MaxFaults /\ ~Peace'
  BY FaultEndsPeace DEF RefreshRefused, server, TInv
<1>2. refresh' \in [Pages -> Refresh]
  BY <1>1, Types, Shapes
<1>3. \A c \in Calls : call'[c].pc = "waiting" => refresh'[PageOf[c]].pc # "none"
  BY <1>1, Types
<1>4. AwayInv'
  BY <1>1 DEF TInv, AwayInv
<1> QED BY <1>1, <1>2, <1>3, <1>4, Types, BrowserStep DEF server, PeaceInv

LEMMA RefreshGrantedStep ==
  ASSUME TInv, NEW p \in Pages, RefreshGranted(p)
  PROVE  TInv'
<1> DEFINE r == [at |-> "app", token |-> "fresh"]
           d == [pc |-> "resent", token |-> "fresh"]
<1>1. /\ refresh[p].pc = "granted" /\ cookie' = refresh[p].ver
      /\ refresh' = [refresh EXCEPT ![p] = NoRefresh]
      /\ page' = [page EXCEPT ![p] = r]
      /\ call' = [c \in Calls |-> IF c \in CallsOf(p) /\ call[c].pc = "waiting" THEN d ELSE call[c]]
      /\ UNCHANGED <<version, logout, revoked, faults>>
  BY DEF RefreshGranted, CallsBecome, server
<1>2. r \in Page /\ r.at = "app" /\ r.token = "fresh" /\ d \in Call /\ d.pc = "resent"
  BY Shapes DEF Page, AccessToken, InFlight
<1> HIDE DEF r, d
<1>3. /\ refresh' \in [Pages -> Refresh]
      /\ page' \in [Pages -> Page]
      /\ call' \in [Calls -> Call]
      /\ cookie' \in Nat \cup {Nothing}
  BY <1>1, <1>2, Types, Shapes
<1>4. \A c \in Calls : call'[c].pc = "waiting" => refresh'[PageOf[c]].pc # "none"
  BY <1>1, <1>2, Types DEF CallsOf
<1>5. PeaceInv'
  <2> SUFFICES ASSUME Peace' PROVE PeaceInv'
    BY DEF PeaceInv
  <2>1. Peace
    BY <1>1 DEF Peace
  <2>2. cookie' = version'
    BY <1>1, <2>1 DEF TInv, PeaceInv
  <2>3. \A q \in Pages : refresh'[q].pc \in {"asked", "granted"} => refresh'[q].ver = version'
    BY <1>1, <2>1, Types DEF TInv, PeaceInv, NoRefresh
  <2>4. \A q \in Pages : refresh'[q].pc # "denied"
    BY <1>1, <2>1, Types DEF TInv, PeaceInv, NoRefresh
  <2> QED BY <2>2, <2>3, <2>4 DEF PeaceInv
<1>6. AwayInv'
  <2> SUFFICES ASSUME NEW c \in Calls, page'[PageOf[c]].at # "app"
               PROVE  call'[c].pc \notin InFlight
    BY DEF AwayInv
  <2>1. PageOf[c] # p
    BY <1>1, <1>2, Types
  <2>2. page'[PageOf[c]] = page[PageOf[c]] /\ call'[c] = call[c]
    BY <1>1, <2>1, Types DEF CallsOf
  <2> QED BY <2>2 DEF TInv, AwayInv
<1> QED BY <1>1, <1>3, <1>4, <1>5, <1>6, Types, BrowserStep DEF server

(* The calls of a page that is left. *)
LEMMA CallsGone ==
  ASSUME TInv, NEW p \in Pages,
         call' = [c \in Calls |-> IF c \in CallsOf(p) /\ call[c].pc \in InFlight
                                   THEN Over("gone") ELSE call[c]]
  PROVE  /\ call' \in [Calls -> Call]
         /\ \A c \in CallsOf(p) : call'[c].pc \notin InFlight
         /\ \A c \in Calls : call'[c] = call[c] \/ (call'[c].pc = "gone" /\ call'[c].token = "none")
<1> DEFINE d == Over("gone")
<1>1. d \in Call /\ d.pc = "gone" /\ d.token = "none"
  BY Shapes DEF AccessToken, Over
<1>2. call' = [c \in Calls |-> IF c \in CallsOf(p) /\ call[c].pc \in InFlight THEN d ELSE call[c]]
  OBVIOUS
<1>3. CallsOf(p) \subseteq Calls
  BY DEF CallsOf
<1> HIDE DEF d
<1>4. call' \in [Calls -> Call]
  BY <1>1, <1>2, Types
<1>5. \A c \in CallsOf(p) : call'[c].pc \notin InFlight
  BY <1>1, <1>2, <1>3 DEF InFlight
<1>6. \A c \in Calls : call'[c] = call[c] \/ call'[c] = d
  BY <1>2
<1>7. \A c \in Calls : call'[c] = call[c] \/ (call'[c].pc = "gone" /\ call'[c].token = "none")
  BY <1>1, <1>6
<1> QED BY <1>4, <1>5, <1>7

LEMMA RefreshDeniedStep ==
  ASSUME TInv, NEW p \in Pages, RefreshDenied(p)
  PROVE  TInv'
<1>1. /\ refresh[p].pc = "denied" /\ refresh' = [refresh EXCEPT ![p] = NoRefresh]
      /\ UNCHANGED <<version, logout, revoked, cookie, faults>>
  BY DEF RefreshDenied, server
<1>2. refresh' \in [Pages -> Refresh]
  BY <1>1, Types, Shapes
<1>3. ~Peace /\ ~Peace'
  BY <1>1 DEF TInv, PeaceInv, Peace
<1>4. CASE page[p].at = "callback"
  <2>1. page' = [page EXCEPT ![p] = [at |-> "app", token |-> "none"]] /\ UNCHANGED call
    BY <1>4 DEF RefreshDenied
  <2>2. page' \in [Pages -> Page]
    BY <2>1, Types DEF Page, AccessToken
  <2>3. \A c \in Calls : call'[c].pc = "waiting" => refresh'[PageOf[c]].pc # "none"
    BY <1>1, <1>4, <2>1, Types DEF TInv, AwayInv, InFlight
  <2>4. AwayInv'
    BY <2>1, Types DEF TInv, AwayInv
  <2> QED BY <1>1, <1>2, <1>3, <2>1, <2>2, <2>3, <2>4, Types, BrowserStep DEF server, PeaceInv
<1>5. CASE page[p].at = "app"
  <2>1. /\ page' = [page EXCEPT ![p] = [at |-> "login", token |-> "none"]]
        /\ call' = [c \in Calls |-> IF c \in CallsOf(p) /\ call[c].pc \in InFlight
                                     THEN Over("gone") ELSE call[c]]
    BY <1>5 DEF RefreshDenied
  <2>2. page' \in [Pages -> Page]
    BY <2>1, Types DEF Page, AccessToken
  <2>3. \A c \in Calls : call'[c].pc = "waiting" => refresh'[PageOf[c]].pc # "none"
    BY <1>1, <2>1, CallsGone, Types DEF CallsOf, InFlight
  <2>4. call' \in [Calls -> Call]
    BY <2>1, CallsGone
  <2>5. AwayInv'
    BY <2>1, CallsGone, Types DEF TInv, AwayInv, CallsOf, InFlight
  <2> QED BY <1>1, <1>2, <1>3, <2>2, <2>3, <2>4, <2>5, Types, BrowserStep DEF server, PeaceInv
<1> QED BY <1>4, <1>5 DEF RefreshDenied

LEMMA RefreshLostStep ==
  ASSUME TInv, NEW p \in Pages, RefreshLost(p)
  PROVE  TInv'
<1> DEFINE d == Over("failed")
<1>1. /\ refresh' = [refresh EXCEPT ![p] = NoRefresh]
      /\ page' = [page EXCEPT ![p].at = "app"]
      /\ call' = [c \in Calls |-> IF c \in CallsOf(p) /\ call[c].pc = "waiting" THEN d ELSE call[c]]
      /\ UNCHANGED <<version, logout, revoked, cookie>>
      /\ faults' \in 0..MaxFaults /\ ~Peace'
  BY FaultEndsPeace DEF RefreshLost, CallsBecome, server, TInv
<1>2. d \in Call /\ d.pc = "failed"
  BY Shapes DEF AccessToken, Over
<1> HIDE DEF d
<1>3. /\ refresh' \in [Pages -> Refresh]
      /\ page' \in [Pages -> Page]
      /\ call' \in [Calls -> Call]
  <2>1. page' \in [Pages -> Page]
    BY <1>1, Types DEF Page
  <2> QED BY <1>1, <1>2, <2>1, Types, Shapes
<1>4. \A c \in Calls : call'[c].pc = "waiting" => refresh'[PageOf[c]].pc # "none"
  BY <1>1, <1>2, Types DEF CallsOf
<1>5. AwayInv'
  <2>1. \A q \in Pages : page'[q].at = page[q].at \/ page'[q].at = "app"
    BY <1>1, Types DEF Page
  <2> QED BY <1>1, <1>2, <2>1, Types DEF TInv, AwayInv, CallsOf, InFlight
<1> QED BY <1>1, <1>3, <1>4, <1>5, Types, BrowserStep DEF server, PeaceInv

LEMMA SendStep ==
  ASSUME TInv, NEW c \in Calls, Send(c)
  PROVE  TInv'
<1> DEFINE d == [pc |-> "sent", token |-> page[PageOf[c]].token]
<1>1. /\ page[PageOf[c]].at = "app"
      /\ call' = [call EXCEPT ![c] = d]
      /\ UNCHANGED <<version, logout, revoked, cookie, page, refresh, faults>>
  BY DEF Send, server
<1>2. d \in Call /\ d.pc = "sent" /\ d.token = page[PageOf[c]].token
  BY Types, Shapes DEF InFlight
<1> HIDE DEF d
<1>3. call' \in [Calls -> Call]
  BY <1>1, <1>2, Types
<1>4. \A b \in Calls : call'[b].pc = "waiting" => refresh'[PageOf[b]].pc # "none"
  BY <1>1, <1>2, Types
<1>5. PeaceInv'
  BY <1>1, <1>2, Types DEF TInv, PeaceInv, Peace
<1>6. AwayInv'
  BY <1>1, <1>2, Types DEF TInv, AwayInv
<1> QED BY <1>1, <1>3, <1>4, <1>5, <1>6, Types, BrowserStep DEF server

(* A call that ends, with an answer or with an error. *)
LEMMA CallEnds ==
  ASSUME TInv, NEW c \in Calls, NEW pc \in {"answered", "failed"},
         call' = [call EXCEPT ![c] = Over(pc)],
         UNCHANGED <<version, logout, revoked, cookie, page, refresh>>,
         \/ UNCHANGED faults
         \/ Fault
  PROVE  TInv'
<1>1. /\ call' \in [Calls -> Call]
      /\ call'[c].pc = pc /\ call'[c].token = "none"
      /\ \A b \in Calls : b # c => call'[b] = call[b]
  <2> DEFINE d == Over(pc)
  <2>1. d \in Call /\ d.pc = pc /\ d.token = "none"
    BY Shapes DEF AccessToken, Over
  <2>2. call' = [call EXCEPT ![c] = d]
    OBVIOUS
  <2> HIDE DEF d
  <2> QED BY <2>1, <2>2, Types
<1>2. \A b \in Calls : call'[b].pc = "waiting" => refresh'[PageOf[b]].pc # "none"
  BY <1>1, Types
<1>3. faults' \in 0..MaxFaults
  BY Types, FaultEndsPeace DEF TInv
<1>4. PeaceInv'
  <2>1. CASE UNCHANGED faults
    BY <1>1, <2>1 DEF TInv, PeaceInv, Peace
  <2>2. CASE Fault
    BY <2>2, FaultEndsPeace DEF TInv, PeaceInv
  <2> QED BY <2>1, <2>2
<1>5. AwayInv'
  BY <1>1 DEF TInv, AwayInv, InFlight
<1> QED BY <1>1, <1>2, <1>3, <1>4, <1>5, Types, BrowserStep DEF server

LEMMA UnauthorizedStep ==
  ASSUME TInv, NEW c \in Calls, Unauthorized(c)
  PROVE  TInv'
<1> DEFINE p == PageOf[c]
           a == [pc |-> "asked", ver |-> cookie]
<1>1. /\ call[c].pc = "sent" /\ call[c].token = "stale"
      /\ call' = [call EXCEPT ![c].pc = "waiting"]
      /\ refresh' = IF refresh[p].pc # "none" THEN refresh ELSE [refresh EXCEPT ![p] = a]
      /\ UNCHANGED <<version, logout, revoked, cookie, page, faults>>
  BY DEF Unauthorized, server
<1>2. /\ call' \in [Calls -> Call]
      /\ call'[c].pc = "waiting"
      /\ \A b \in Calls : call'[b].token = call[b].token
      /\ \A b \in Calls : b # c => call'[b] = call[b]
  BY <1>1, Types DEF Call, InFlight
<1>3. a \in Refresh /\ a.pc = "asked" /\ a.ver = cookie /\ p \in Pages
  BY Types, Shapes
<1> HIDE DEF a, p
<1>4. /\ refresh' \in [Pages -> Refresh]
      /\ refresh'[p].pc # "none"
      /\ \A q \in Pages : refresh'[q] = refresh[q] \/ refresh'[q] = a
  BY <1>1, <1>3, Types
<1>5. \A b \in Calls : call'[b].pc = "waiting" => refresh'[PageOf[b]].pc # "none"
  BY <1>2, <1>3, <1>4, Types DEF p
<1>6. PeaceInv'
  <2> SUFFICES ASSUME Peace' PROVE PeaceInv'
    BY DEF PeaceInv
  <2>1. Peace
    BY <1>1 DEF Peace
  <2>2. cookie = version
    BY <1>1, <2>1 DEF TInv, PeaceInv
  <2> QED BY <1>1, <1>2, <1>3, <1>4, <2>1, <2>2 DEF TInv, PeaceInv
<1>7. AwayInv'
  BY <1>1, <1>2 DEF TInv, AwayInv, InFlight
<1> QED BY <1>1, <1>2, <1>4, <1>5, <1>6, <1>7, Types, BrowserStep DEF server

LEMMA ExpireStep ==
  ASSUME TInv, NEW p \in Pages, Expire(p)
  PROVE  TInv'
<1>1. /\ page[p].token = "fresh"
      /\ page' = [page EXCEPT ![p].token = "stale"]
      /\ call' = [c \in Calls |-> IF c \in CallsOf(p) THEN [call[c] EXCEPT !.token = Stale(@)]
                                                         ELSE call[c]]
      /\ UNCHANGED <<version, logout, revoked, cookie, refresh, faults>>
  BY DEF Expire, server
<1>2. /\ page' \in [Pages -> Page]
      /\ \A q \in Pages : page'[q].at = page[q].at
      /\ \A q \in Pages : page'[q].token # "none" => page[q].token # "none"
  BY <1>1, Types DEF Page, AccessToken
<1>3. \A t \in AccessToken : Stale(t) \in AccessToken /\ (Stale(t) # "none" => t # "none")
  BY DEF Stale, AccessToken
<1>4. ASSUME NEW c \in Calls
      PROVE  /\ call'[c] \in Call
             /\ call'[c].pc = call[c].pc
             /\ call'[c].token # "none" => call[c].token # "none"
  <2>1. call'[c] = call[c] \/ call'[c] = [call[c] EXCEPT !.token = Stale(call[c].token)]
    BY <1>1
  <2>2. call[c] \in Call /\ call[c].token \in AccessToken
    BY Types
  <2> QED BY <1>3, <2>1, <2>2 DEF Call
<1>5. call' \in [Calls -> Call]
  BY <1>1, <1>4
<1>6. \A c \in Calls : call'[c].pc = "waiting" => refresh'[PageOf[c]].pc # "none"
  BY <1>1, <1>4, Types
<1>7. PeaceInv'
  BY <1>1, <1>2, <1>4 DEF TInv, PeaceInv, Peace
<1>8. AwayInv'
  BY <1>2, <1>4, Types DEF TInv, AwayInv
<1> QED BY <1>1, <1>2, <1>5, <1>6, <1>7, <1>8, Types, BrowserStep DEF server

LEMMA CookieExpiresStep ==
  ASSUME TInv, CookieExpires
  PROVE  TInv'
<1>1. /\ cookie' = Nothing
      /\ UNCHANGED <<version, logout, revoked, page, refresh, call>>
      /\ faults' \in 0..MaxFaults /\ ~Peace'
  BY FaultEndsPeace DEF CookieExpires, server, TInv
<1>2. AwayInv'
  BY <1>1 DEF TInv, AwayInv
<1> QED BY <1>1, <1>2, Types, BrowserStep DEF server, PeaceInv

LEMMA SignOutStep ==
  ASSUME TInv, NEW p \in Pages, SignOut(p)
  PROVE  TInv'
<1>1. /\ page' = [page EXCEPT ![p].token = "none"]
      /\ UNCHANGED <<version, logout, revoked, cookie, refresh, call, faults>>
  BY DEF SignOut, server
<1>2. /\ page' \in [Pages -> Page]
      /\ \A q \in Pages : page'[q].at = page[q].at
      /\ \A q \in Pages : page'[q].token # "none" => page[q].token # "none"
  BY <1>1, Types DEF Page, AccessToken
<1>3. PeaceInv'
  BY <1>1, <1>2 DEF TInv, PeaceInv, Peace
<1>4. AwayInv'
  BY <1>1, <1>2, Types DEF TInv, AwayInv
<1> QED BY <1>1, <1>2, <1>3, <1>4, Types, BrowserStep DEF server

LEMMA GoToLoginStep ==
  ASSUME TInv, NEW p \in Pages, GoToLogin(p)
  PROVE  TInv'
<1>1. /\ page' = [page EXCEPT ![p].at = "login"]
      /\ refresh' = [refresh EXCEPT ![p] = NoRefresh]
      /\ call' = [c \in Calls |-> IF c \in CallsOf(p) /\ call[c].pc \in InFlight
                                   THEN Over("gone") ELSE call[c]]
      /\ UNCHANGED <<version, logout, revoked, cookie, faults>>
  BY DEF GoToLogin, server
<1>2. /\ page' \in [Pages -> Page]
      /\ \A q \in Pages : q # p => page'[q] = page[q]
      /\ \A q \in Pages : page'[q].token = page[q].token
  BY <1>1, Types DEF Page
<1>3. /\ call' \in [Calls -> Call]
      /\ \A c \in CallsOf(p) : call'[c].pc \notin InFlight
      /\ \A c \in Calls : call'[c] = call[c] \/ (call'[c].pc = "gone" /\ call'[c].token = "none")
  BY <1>1, CallsGone
<1>4. /\ refresh' \in [Pages -> Refresh]
      /\ refresh'[p].pc = "none"
      /\ \A q \in Pages : q # p => refresh'[q] = refresh[q]
  BY <1>1, Types, Shapes DEF NoRefresh
<1>5. \A c \in Calls : call'[c].pc = "waiting" => refresh'[PageOf[c]].pc # "none"
  BY <1>3, <1>4, Types DEF CallsOf, InFlight
<1>6. PeaceInv'
  BY <1>1, <1>2, <1>3, <1>4 DEF TInv, PeaceInv, Peace
<1>7. AwayInv'
  BY <1>2, <1>3, Types DEF TInv, AwayInv, CallsOf, InFlight
<1> QED BY <1>1, <1>2, <1>3, <1>4, <1>5, <1>6, <1>7, Types, BrowserStep DEF server

LEMMA LoginStep ==
  ASSUME TInv, NEW p \in Pages, Login(p)
  PROVE  TInv'
<1> DEFINE a == [pc |-> "asked", ver |-> version]
<1>1. /\ page[p].at = "login"
      /\ cookie' = version
      /\ page' = [page EXCEPT ![p].at = "callback"]
      /\ refresh' = [refresh EXCEPT ![p] = a]
      /\ UNCHANGED <<version, logout, revoked, call, faults>>
  BY DEF Login, server
<1>2. /\ page' \in [Pages -> Page]
      /\ \A q \in Pages : q # p => page'[q] = page[q]
      /\ \A q \in Pages : page'[q].token = page[q].token
  BY <1>1, Types DEF Page
<1>3. a \in Refresh /\ a.pc = "asked" /\ a.ver = version
  BY Types, Shapes
<1> HIDE DEF a
<1>4. /\ refresh' \in [Pages -> Refresh]
      /\ refresh'[p] = a
      /\ \A q \in Pages : q # p => refresh'[q] = refresh[q]
  BY <1>1, <1>3, Types
<1>5. \A c \in Calls : call'[c].pc = "waiting" => refresh'[PageOf[c]].pc # "none"
  BY <1>1, <1>3, <1>4, Types
<1>6. PeaceInv'
  BY <1>1, <1>2, <1>3, <1>4 DEF TInv, PeaceInv, Peace
<1>7. AwayInv'
  BY <1>1, <1>2, Types DEF TInv, AwayInv
<1> QED BY <1>1, <1>2, <1>4, <1>5, <1>6, <1>7, Types, BrowserStep DEF server

-----------------------------------------------------------------------------
LEMMA TokensNext == TInv /\ [Next]_vars => TInv'
<1> SUFFICES ASSUME TInv, [Next]_vars PROVE TInv'
  OBVIOUS
<1>1. ASSUME NEW c \in Calls, Replied(c) \/ CallFails(c) PROVE TInv'
  <2>1. CASE Answer(c)
    BY <2>1, CallEnds DEF Answer, server
  <2>2. CASE CallFails(c)
    BY <2>2, CallEnds DEF CallFails, server
  <2> QED BY <1>1, <2>1, <2>2, UnauthorizedStep DEF Replied
<1>2. CASE UNCHANGED vars
  <2>1. AwayInv' /\ PeaceInv'
    BY <1>2 DEF vars, TInv, AwayInv, PeaceInv, Peace
  <2> QED BY <1>2, <2>1, Types, BrowserStep DEF vars, server
<1> QED BY <1>1, <1>2, LogoutReadStep, LogoutWriteStep, LogoutFailsStep, RefreshServedStep,
           RefreshGrantedStep, RefreshDeniedStep, RefreshRefusedStep, RefreshLostStep, SendStep,
           ExpireStep, SignOutStep, GoToLoginStep, LoginStep, CookieExpiresStep
        DEF Next, Served

LEMMA TokensInvariance == Spec => []TInv
BY TokensInit, TokensNext, PTL DEF Spec

(* The variables stay within their types, and no call waits for a refresh    *)
(* that nobody makes.                                                        *)
THEOREM TokensTypeCorrect == Spec => []TypeOK
<1>1. TInv => TypeOK
  BY DEF TInv
<1> QED BY <1>1, TokensInvariance, PTL

(* Pages that refresh at once never cost one another the login.              *)
THEOREM NoNeedlessLogin == Spec => []SentToLoginForCause
<1>1. TInv => SentToLoginForCause
  BY DEF TInv, PeaceInv, SentToLoginForCause
<1> QED BY <1>1, TokensInvariance, PTL

(* What a logout revokes that began alone is never granted a refresh again,  *)
(* however many logouts overlap later: they all have read its version.       *)
THEOREM RevocationLasts == Spec => RevokedForGood
<1>1. TInv /\ [Next]_vars =>
        [\A p \in Pages : refresh[p].pc = "asked" /\ refresh'[p].pc = "granted"
           => refresh[p].ver \notin revoked]_vars
  <2> SUFFICES ASSUME TInv, Next, NEW p \in Pages,
                      refresh[p].pc = "asked", refresh'[p].pc = "granted"
               PROVE  refresh[p].ver \notin revoked
    BY DEF vars
  <2>1. RefreshServed(p)
    BY Types DEF Next, LogoutRead, LogoutWrite, LogoutFails, Served, RefreshServed, RefreshGranted,
       RefreshDenied, RefreshRefused, RefreshLost, Send, Replied, Answer, Unauthorized, CallFails,
       Expire, SignOut, GoToLogin, Login, CookieExpires, NoRefresh
  <2>2. refresh[p].ver = version
    BY <2>1, Types DEF RefreshServed, Honoured
  <2>3. version \in Nat /\ \A v \in revoked : v < version
    BY Types DEF TInv, RevokedInv
  <2> QED BY <2>2, <2>3
<1> QED BY <1>1, TokensInvariance, PTL DEF Spec, RevokedForGood

=============================================================================
