------------------------------- MODULE Tokens -------------------------------
(* One user's tokens: the row that says which refresh tokens are honoured,   *)
(* the requests that mint and revoke them, and the pages of one browser that *)
(* call the API with them (identity/service.py, client.ts).                  *)
(*                                                                           *)
(* A refresh token is the token_version it was minted under; the browser     *)
(* keeps the last one it was sent in a cookie that all its pages share.  An  *)
(* access token is good until it expires, whatever the version says.         *)
EXTENDS Integers, FiniteSets

CONSTANTS
  Pages,     \* pages of the browser
  Calls,     \* calls of apiFetch
  PageOf,    \* the page that makes a call
  Logouts,   \* logout requests, of any client of this user
  MaxFaults  \* how many requests fail or expire

ASSUME TokensAssumption == /\ PageOf \in [Calls -> Pages]
                           /\ MaxFaults \in Nat

VARIABLES
  version,  \* token_version
  logout,   \* the logout requests
  cookie,   \* the refresh token in the browser
  page,     \* store.ts, one for each page
  refresh,  \* POST /auth/refresh, one at a time for each page
  call,     \* the calls of apiFetch
  revoked,  \* versions that a logout has revoked, see LogoutWrite
  faults

vars == <<version, logout, cookie, page, refresh, call, revoked, faults>>
server == <<version, logout, revoked>>

-----------------------------------------------------------------------------
(* Types *)

Nothing == -1   \* no cookie

AccessToken == {"none", "fresh", "stale"}

(* A page is in use, at GitHub to log in, or back from there, where it       *)
(* trades its cookie for an access token.                                    *)
Page == [at : {"app", "login", "callback"}, token : AccessToken]

Logout == [pc : {"idle", "read", "done"}, ver : Nat, alone : BOOLEAN]

(* A request to refresh: with which token; after the answer was made, ver is *)
(* the version of the new one.                                               *)
Refresh == [pc : {"none", "asked", "granted", "denied"}, ver : Nat \cup {Nothing}]

(* A call waits for an answer, for a refresh, or for its second answer.      *)
InFlight == {"sent", "waiting", "resent"}
Call == [pc : {"idle", "answered", "failed", "gone"} \cup InFlight, token : AccessToken]

(* A call that waits has a refresh to wait for. *)
TypeOK ==
  /\ version \in Nat
  /\ logout \in [Logouts -> Logout]
  /\ cookie \in Nat \cup {Nothing}
  /\ page \in [Pages -> Page]
  /\ refresh \in [Pages -> Refresh]
  /\ call \in [Calls -> Call]
  /\ revoked \in SUBSET Nat
  /\ faults \in 0..MaxFaults
  /\ \A c \in Calls : call[c].pc = "waiting" => refresh[PageOf[c]].pc # "none"

-----------------------------------------------------------------------------
Fault == faults > 0 /\ faults' = faults - 1

CallsOf(p) == {c \in Calls : PageOf[c] = p}

(* What happens to every call of page p that is in state pc. *)
CallsBecome(p, pc, r) ==
  call' = [c \in Calls |-> IF c \in CallsOf(p) /\ call[c].pc = pc THEN r ELSE call[c]]

(* A call that has come to its end. *)
Over(pc) == [pc |-> pc, token |-> "none"]

-----------------------------------------------------------------------------
(* Logging out *)

Overlapped(l) == \E k \in Logouts \ {l} : logout[k].pc = "read"

(* authenticate_token loads the user's row. *)
LogoutRead(l) ==
  /\ logout[l].pc = "idle"
  /\ logout' = [logout EXCEPT ![l] = [pc |-> "read", ver |-> version, alone |-> ~Overlapped(l)]]
  /\ UNCHANGED <<version, cookie, page, refresh, call, revoked, faults>>

LoggedOut == [pc |-> "done", ver |-> 0, alone |-> FALSE]

(* revoke_refresh_tokens writes the version it has read, plus one.  What a   *)
(* logout revokes is noted when no other was under way as it began.  The     *)
(* client that logs out clears a cookie of its own: no page of the browser   *)
(* calls /auth/logout.                                                       *)
LogoutWrite(l) ==
  /\ logout[l].pc = "read"
  /\ version' = logout[l].ver + 1
  /\ revoked' = IF logout[l].alone THEN revoked \cup 0..logout[l].ver ELSE revoked
  /\ logout' = [logout EXCEPT ![l] = LoggedOut]
  /\ UNCHANGED <<cookie, page, refresh, call, faults>>

(* The commit fails, and the transaction is rolled back. *)
LogoutFails(l) ==
  /\ logout[l].pc = "read"
  /\ Fault
  /\ logout' = [logout EXCEPT ![l] = LoggedOut]
  /\ UNCHANGED <<version, cookie, page, refresh, call, revoked>>

-----------------------------------------------------------------------------
(* POST /auth/refresh *)

(* Mutant of Honoured: a refresh token is honoured until it expires. *)
HonouredAlways(ver) == ver # Nothing

(* refresh_tokens compares the version in the token with the user's. *)
Honoured(ver) == ver = version

(* Mutant of RefreshServed: a refresh token is good for one refresh. *)
RefreshServedOnce(p) ==
  /\ refresh[p].pc = "asked"
  /\ refresh' = [refresh EXCEPT ![p] =
       IF Honoured(refresh[p].ver) THEN [pc |-> "granted", ver |-> version + 1]
                                   ELSE [pc |-> "denied", ver |-> Nothing]]
  /\ version' = IF Honoured(refresh[p].ver) THEN version + 1 ELSE version
  /\ UNCHANGED <<logout, cookie, page, call, revoked, faults>>

(* The server mints a token of the version it has read. *)
RefreshServed(p) ==
  /\ refresh[p].pc = "asked"
  /\ refresh' = [refresh EXCEPT ![p] =
       IF Honoured(refresh[p].ver) THEN [pc |-> "granted", ver |-> version]
                                   ELSE [pc |-> "denied", ver |-> Nothing]]
  /\ UNCHANGED <<server, cookie, page, call, faults>>

(* The rate limit is reached, or the server fails. *)
RefreshRefused(p) ==
  /\ refresh[p].pc = "asked"
  /\ Fault
  /\ refresh' = [refresh EXCEPT ![p] = [pc |-> "denied", ver |-> Nothing]]
  /\ UNCHANGED <<server, cookie, page, call>>

NoRefresh == [pc |-> "none", ver |-> Nothing]

(* The answer sets the cookie, resolves the promise, and every call that     *)
(* waits for it stores the token and is sent again.                          *)
RefreshGranted(p) ==
  /\ refresh[p].pc = "granted"
  /\ cookie' = refresh[p].ver
  /\ refresh' = [refresh EXCEPT ![p] = NoRefresh]
  /\ page' = [page EXCEPT ![p] = [at |-> "app", token |-> "fresh"]]
  /\ CallsBecome(p, "waiting", [pc |-> "resent", token |-> "fresh"])
  /\ UNCHANGED <<server, faults>>

(* A page with calls that wait signs itself out and leaves for the login:    *)
(* all its calls are gone with it.  The page of the callback shows the home  *)
(* page.                                                                     *)
RefreshDenied(p) ==
  /\ refresh[p].pc = "denied"
  /\ refresh' = [refresh EXCEPT ![p] = NoRefresh]
  /\ \/ /\ page[p].at = "callback"
        /\ page' = [page EXCEPT ![p] = [at |-> "app", token |-> "none"]]
        /\ UNCHANGED call
     \/ /\ page[p].at = "app"
        /\ page' = [page EXCEPT ![p] = [at |-> "login", token |-> "none"]]
        /\ call' = [c \in Calls |-> IF c \in CallsOf(p) /\ call[c].pc \in InFlight
                                    THEN Over("gone") ELSE call[c]]
  /\ UNCHANGED <<server, cookie, faults>>

(* Mutant of RefreshLost: the promise is cleared, the calls are forgotten.   *)
RefreshLostSilently(p) ==
  /\ refresh[p].pc \in {"asked", "granted", "denied"}
  /\ Fault
  /\ refresh' = [refresh EXCEPT ![p] = NoRefresh]
  /\ page' = [page EXCEPT ![p].at = "app"]
  /\ UNCHANGED <<server, cookie, call>>

(* No answer arrives: the promise rejects, for every call that waits.        *)
RefreshLost(p) ==
  /\ refresh[p].pc \in {"asked", "granted", "denied"}
  /\ Fault
  /\ refresh' = [refresh EXCEPT ![p] = NoRefresh]
  /\ page' = [page EXCEPT ![p].at = "app"]
  /\ CallsBecome(p, "waiting", Over("failed"))
  /\ UNCHANGED <<server, cookie>>

-----------------------------------------------------------------------------
(* apiFetch *)

Send(c) ==
  /\ call[c].pc = "idle"
  /\ page[PageOf[c]].at = "app"
  /\ call' = [call EXCEPT ![c] = [pc |-> "sent", token |-> page[PageOf[c]].token]]
  /\ UNCHANGED <<server, cookie, page, refresh, faults>>

(* Anything but a 401 to a call that had a token is the caller's. *)
Answer(c) ==
  /\ \/ call[c].pc = "sent" /\ call[c].token # "stale"
     \/ call[c].pc = "resent"
  /\ call' = [call EXCEPT ![c] = Over("answered")]
  /\ UNCHANGED <<server, cookie, page, refresh, faults>>

(* handleTokenRefresh: a call joins the refresh that is under way, or begins *)
(* one.                                                                      *)
Unauthorized(c) ==
  LET p == PageOf[c] IN
  /\ call[c].pc = "sent" /\ call[c].token = "stale"
  /\ call' = [call EXCEPT ![c].pc = "waiting"]
  /\ refresh' = IF refresh[p].pc # "none" THEN refresh
                ELSE [refresh EXCEPT ![p] = [pc |-> "asked", ver |-> cookie]]
  /\ UNCHANGED <<server, cookie, page, faults>>

(* fetch rejects. *)
CallFails(c) ==
  /\ call[c].pc \in {"sent", "resent"}
  /\ Fault
  /\ call' = [call EXCEPT ![c] = Over("failed")]
  /\ UNCHANGED <<server, cookie, page, refresh>>

-----------------------------------------------------------------------------
(* The user *)

Stale(token) == IF token = "fresh" THEN "stale" ELSE token

(* The access tokens of a page are fifteen minutes old. *)
Expire(p) ==
  /\ page[p].token = "fresh"
  /\ page' = [page EXCEPT ![p].token = "stale"]
  /\ call' = [c \in Calls |-> IF c \in CallsOf(p) THEN [call[c] EXCEPT !.token = Stale(@)]
                                                  ELSE call[c]]
  /\ UNCHANGED <<server, cookie, refresh, faults>>

(* The refresh token is seven days old, and the browser drops it. *)
CookieExpires ==
  /\ cookie # Nothing
  /\ Fault
  /\ cookie' = Nothing
  /\ UNCHANGED <<server, page, refresh, call>>

(* Topbar: the page forgets its token, and tells nobody. *)
SignOut(p) ==
  /\ page[p].at = "app" /\ page[p].token # "none"
  /\ page' = [page EXCEPT ![p].token = "none"]
  /\ UNCHANGED <<server, cookie, refresh, call, faults>>

(* A page without a token is sent to log in (ProtectedRoute). *)
GoToLogin(p) ==
  /\ page[p] = [at |-> "app", token |-> "none"]
  /\ page' = [page EXCEPT ![p].at = "login"]
  /\ refresh' = [refresh EXCEPT ![p] = NoRefresh]
  /\ call' = [c \in Calls |-> IF c \in CallsOf(p) /\ call[c].pc \in InFlight
                              THEN Over("gone") ELSE call[c]]
  /\ UNCHANGED <<server, cookie, faults>>

(* github_callback mints a token; OAuthCallback trades the cookie at once.   *)
Login(p) ==
  /\ page[p].at = "login"
  /\ cookie' = version
  /\ page' = [page EXCEPT ![p].at = "callback"]
  /\ refresh' = [refresh EXCEPT ![p] = [pc |-> "asked", ver |-> version]]
  /\ UNCHANGED <<server, call, faults>>

-----------------------------------------------------------------------------
(* Specification *)

Init ==
  /\ version = 0
  /\ logout = [l \in Logouts |-> [pc |-> "idle", ver |-> 0, alone |-> FALSE]]
  /\ cookie = Nothing
  /\ page = [p \in Pages |-> [at |-> "app", token |-> "none"]]
  /\ refresh = [p \in Pages |-> NoRefresh]
  /\ call = [c \in Calls |-> [pc |-> "idle", token |-> "none"]]
  /\ revoked = {}
  /\ faults = MaxFaults

Served(p) == RefreshServed(p) \/ RefreshGranted(p) \/ RefreshDenied(p)
Replied(c) == Answer(c) \/ Unauthorized(c)

Next ==
  \/ \E l \in Logouts : LogoutRead(l) \/ LogoutWrite(l) \/ LogoutFails(l)
  \/ \E p \in Pages : Served(p) \/ RefreshRefused(p) \/ RefreshLost(p)
  \/ \E c \in Calls : Send(c) \/ Replied(c) \/ CallFails(c)
  \/ \E p \in Pages : Expire(p) \/ SignOut(p) \/ GoToLogin(p) \/ Login(p)
  \/ CookieExpires

Spec == Init /\ [][Next]_vars

(* Requests are answered, or fail. *)
Fairness == /\ \A p \in Pages : WF_vars(Served(p))
            /\ \A c \in Calls : WF_vars(Replied(c))

FairSpec == Spec /\ Fairness

-----------------------------------------------------------------------------
(* Properties *)

(* No refresh is granted to a token that was revoked by a logout which no    *)
(* other was overlapping as it began: whatever later logouts overlap, and    *)
(* whatever was minted or stored meanwhile (refresh_tokens,                  *)
(* revoke_refresh_tokens).                                                   *)
RevokedForGood ==
  [][\A p \in Pages : refresh[p].pc = "asked" /\ refresh'[p].pc = "granted"
       => refresh[p].ver \notin revoked]_vars

(* No logout has begun, and nothing has failed. *)
Peace == (\A l \in Logouts : logout[l].pc = "idle") /\ faults = MaxFaults

(* A page is only sent to log in by a refresh when there has been a reason:  *)
(* a logout, or something that failed or expired.  Pages that share a cookie *)
(* and refresh at the same time do not invalidate one another's tokens.      *)
SentToLoginForCause == Peace =>
    \A p \in Pages : refresh[p].pc # "denied"

(* Every call comes to an end, though it waits for a refresh that another    *)
(* call began, and that may fail (handleTokenRefresh).                       *)
CallsSettle == \A c \in Calls : call[c].pc \in InFlight ~> call[c].pc \notin InFlight
=============================================================================
