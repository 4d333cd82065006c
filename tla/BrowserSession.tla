---------------------------- MODULE BrowserSession ----------------------------
(***************************************************************************)
(* Signing in to the test runner and the requests a session is good for    *)
(* (test_runner_service/auth.py and the calls it makes of oidc.py).        *)
(*                                                                         *)
(* The service keeps no sessions: all there is of one is a signed cookie   *)
(* with the roles, the time it was issued and the expiry of the ID token.  *)
(* One browser has several tabs that share its cookies.  A request carries *)
(* the cookies of the moment it is sent, a response changes them when it   *)
(* arrives, and in between other tabs, the identity provider, which grants *)
(* and withdraws roles, and the clock move on.                             *)
(***************************************************************************)
EXTENDS Integers

CONSTANTS
    Tabs,            \* tabs of the browser
    Clients,         \* those with an API client that sets headers
    None,            \* no cookie, no header, no expiry, no principal
    Deployments,     \* settings.auth_mode and the provider's clock minus
                     \* the runner's, as pairs of mode and drift
    Grants,          \* the sets of roles the provider may give the account
    FirstGrants,     \* those it starts with
    SessionTtl,      \* settings.auth_session_ttl_seconds
    TransactionTtl,  \* max_age of the transaction cookie: 600
    TokenLife,       \* the provider's lifetime of a token
    Skew,            \* settings.oidc_clock_skew_seconds
    MaxTime,         \* bound: seconds that pass
    MaxChanges       \* bound: changes of the account's roles

ASSUME SessionAssumption ==
    /\ Clients \subseteq Tabs
    /\ None \notin Int
    /\ Deployments \subseteq
          {"disabled", "local", "keycloak", "keycloak_ui_local_api"} \X Int
    /\ Grants \subseteq SUBSET {"viewer", "operator"}
    /\ FirstGrants \subseteq Grants
    /\ SessionTtl \in Nat \ {0}
    /\ TransactionTtl \in Nat \ {0}
    /\ Skew \in Nat
    /\ TokenLife \in Nat
    /\ MaxTime \in Nat
    /\ MaxChanges \in Nat

VARIABLES
    mode,      \* settings.auth_mode
    drift,     \* how far the provider's clock is ahead
    now,       \* int(time.time()) of the runner
    held,      \* the roles the account has at the provider
    changes,   \* how often the provider has changed them
    lastHeld,  \* history: when it last had what each role requires
    session,   \* the browser's SESSION_COOKIE
    tx,        \* the browser's OIDC_TRANSACTION_COOKIE
    tab,       \* the tabs, with what is in flight for each
    round      \* history: how the logins that overlap have gone so far

settings == <<mode, drift>>
provider == <<held, changes, lastHeld>>
cookies == <<session, tx>>
vars == <<settings, now, provider, cookies, tab, round>>

------------------------------------------------------------------------------
(* The data.                                                               *)
Roles == {"viewer", "operator"}

Times == 0..MaxTime
Tokens == [roles : SUBSET Roles, iat : Int, exp : Int]
Sessions == [roles : SUBSET Roles, method : {"local", "oidc_session"},
             iat : Times, exp : Int \cup {None}]
Transactions == [login : Tabs, iat : Times, exp : {None}]

(* What the browser stores besides the value: when its max_age is over.    *)
Until == 0..(MaxTime + SessionTtl + TransactionTtl)
Kept(Values) == [value : Values, until : Until] \cup {None}

ASSUME NoneAssumption ==
    None \notin Transactions /\ None \notin [value : Transactions, until : Until]

(* The Authorization header: the configured static token, an access token  *)
(* of the provider, another bearer token, or another scheme.               *)
Headers == {"none", "static", "access", "other", "basic"}
Operations == {"page", "get", "post"}

(* Where a tab is, and what waits for what:                                *)
(*   requesting  a page or API request is on its way, with the cookie      *)
(*   asking      GET /login is on its way or awaits the provider           *)
(*   redirected  its response with the transaction cookie is on its way    *)
(*   provider    the provider's sign-in page; form: the runner's own       *)
(*   calling     GET /auth/callback is on its way, with the cookie         *)
(*   exchanging, verifying: it awaits exchange_code, verify_id_token       *)
(*   welcomed    a response with a session cookie is on its way            *)
(*   leaving     POST /auth/logout or its response is on its way           *)
(* and at rest: page (the request was served), refused (the transaction is *)
(* invalid: 401), idle (nothing, or an answer 401, 403 or 500).            *)
LoginSteps == {"asking", "redirected", "provider", "calling", "exchanging",
               "verifying", "welcomed"}
Resting == {"idle", "page", "refused"}
Steps == LoginSteps \cup Resting \cup {"requesting", "form", "leaving"}

Blank == [pc |-> "idle", op |-> "page", header |-> "none", cookie |-> None,
          transaction |-> None, token |-> None, keep |-> 0]
At(pc) == [Blank EXCEPT !.pc = pc]

(* Every variable has its type. *)
SessionTypeOK ==
    /\ <<mode, drift>> \in Deployments
    /\ now \in Times
    /\ held \in Grants
    /\ changes \in 0..MaxChanges
    /\ lastHeld \in [Roles -> -1..MaxTime]
    /\ session \in Kept(Sessions)
    /\ tx \in Kept(Transactions)
    /\ tab \in [Tabs -> [pc : Steps, op : Operations, header : Headers,
                         cookie : Sessions \cup {None},
                         transaction : Transactions \cup {None},
                         token : Tokens \cup {None},
                         keep : 0..SessionTtl]]
    /\ round \in {"open", "in", "excused"}

(* _uses_keycloak_ui. *)
UsesKeycloak == mode \in {"keycloak", "keycloak_ui_local_api"}

(* _has_role, for the roles of a token: operator implies viewer.           *)
HasRole(roles, role) ==
    IF role = "operator" THEN "operator" \in roles ELSE roles # {}

Held(roles, time, before) ==
    [r \in Roles |-> IF HasRole(roles, r) THEN time ELSE before[r]]

Init ==
    /\ \E d \in Deployments : mode = d[1] /\ drift = d[2]
    /\ now = 0
    /\ held \in FirstGrants
    /\ changes = 0
    /\ lastHeld = Held(held, 0, [r \in Roles |-> -1])
    /\ session = None
    /\ tx = None
    /\ tab = [t \in Tabs |-> Blank]
    /\ round = "open"

------------------------------------------------------------------------------
(* Signed cookies.                                                         *)

(* The value the browser sends, and the cookie it still has at a time.     *)
Sent(kept) == IF kept = None THEN None ELSE kept.value
Unless(kept, time) == IF kept = None \/ kept.until < time THEN None ELSE kept

(* _decode_signed, for a cookie with the runner's own signature.           *)
(* Mutant: the expiry of the token is left to the browser's max_age.       *)
MutantNoExpiry(value, maxAge) ==
    value # None /\ now - value.iat \in 0..maxAge
Valid(value, maxAge) ==
    /\ value # None
    /\ now - value.iat \in 0..maxAge
    /\ value.exp # None => now <= value.exp

(* _set_session_cookie: the browser keeps the cookie no longer than the    *)
(* token is good for.                                                      *)
Least(a, b) == IF a < b THEN a ELSE b
MaxAge(exp) ==
    IF exp = None THEN SessionTtl
    ELSE Least(SessionTtl, IF exp < now THEN 0 ELSE exp - now)

(* A response that sets a session cookie, on its way to the browser; the   *)
(* cookie is stamped with the runner's clock (_encode_signed).             *)
(* Mutant: it is stamped with the time of the provider that is in the      *)
(* token.                                                                  *)
WelcomeAt(time, roles, method, exp) ==
    [At("welcomed") EXCEPT
        !.cookie = [roles |-> roles, method |-> method, iat |-> time, exp |-> exp],
        !.keep = MaxAge(exp)]
MutantProviderTime(roles, method, exp) == WelcomeAt(now + drift, roles, method, exp)
Welcome(roles, method, exp) == WelcomeAt(now, roles, method, exp)

(* Set-Cookie in the browser; a max_age of 0 deletes the cookie.           *)
Stored(value, maxAge) ==
    IF maxAge = 0 THEN None ELSE [value |-> value, until |-> now + maxAge]

------------------------------------------------------------------------------
(* AuthenticationMiddleware.                                               *)
Principal(roles, method) == [roles |-> roles, method |-> method]

(* _decode_session: the principals (one at most) a session cookie names.   *)
BySession(cookie) ==
    IF Valid(cookie, SessionTtl) THEN {Principal(cookie.roles, cookie.method)}
    ELSE {None}

(* _valid_static_bearer_token. *)
ByStaticToken == {Principal(Roles, "api_token")}

(* _verify: a token is good from its iat to its exp, give or take the      *)
(* clock skew, which nothing compares with the life of a token.            *)
Accepted(token) == token.iat <= now + Skew /\ now < token.exp + Skew

(* verify_access_token awaits the provider's keys, which may fail.         *)
ByAccessToken(token) ==
    IF token # None /\ Accepted(token)
    THEN {None, Principal(token.roles, "oidc_bearer")}
    ELSE {None}

(* The authenticators of the four modes: what authenticate may return for  *)
(* a request with this cookie and Authorization header.                    *)
Authenticate(v) ==
    CASE mode = "disabled" -> {Principal(Roles, "disabled")}
      [] mode = "local" ->
            IF v.header = "static" THEN ByStaticToken ELSE BySession(v.cookie)
      [] mode = "keycloak" ->
            IF v.header \in {"none", "basic"} THEN BySession(v.cookie)
            ELSE ByAccessToken(v.token)
      [] mode = "keycloak_ui_local_api" ->
            IF v.op = "page" \/ v.header = "none" THEN BySession(v.cookie)
            ELSE IF v.header = "static" THEN ByStaticToken
            ELSE {None}

(* _required_role. *)
RequiredRole(op) == IF op = "post" THEN "operator" ELSE "viewer"

(* _has_role for a principal.                                              *)
Allowed(p, op) ==
    \/ p.method \in {"disabled", "local", "api_token"}
    \/ HasRole(p.roles, RequiredRole(op))

(* The answer to a request.  Without a principal a page redirects to       *)
(* /login, and so does the script of a page that is answered with 401.     *)
Answer(v, p) ==
    IF p = None THEN At(IF v.header = "none" THEN "asking" ELSE "idle")
    ELSE IF ~Allowed(p, v.op) THEN At("idle")
    ELSE At("page")

------------------------------------------------------------------------------
(* The history of overlapping logins: a round begins with a login when no  *)
(* other is going on; it is "in" once one of them has succeeded, "excused" *)
(* if the provider, the user or the time has ended one of them.            *)
Others(t) == {u \in Tabs \ {t} : tab[u].pc \in LoginSteps}

Begin(t) == IF Others(t) = {} THEN "open" ELSE round
Excuse == IF round = "open" THEN "excused" ELSE round

Become(t, v) == tab' = [tab EXCEPT ![t] = v]

(* A token of the provider has the roles of the moment it is issued.       *)
Issued == [roles |-> held, iat |-> now + drift, exp |-> now + drift + TokenLife]

(* A page is opened, or its script calls an API, with the browser's        *)
(* cookie; reading an API is answered as reading a page is.                *)
Send(t, op) ==
    /\ tab[t].pc \in Resting
    /\ Become(t, [At("requesting") EXCEPT !.op = op, !.cookie = Sent(session)])
    /\ UNCHANGED <<settings, now, provider, cookies, round>>

(* An API client calls with an access token that it has just been issued;  *)
(* the call may be under way for as long as a client would have kept the   *)
(* token.                                                                  *)
SendToken(t, op) ==
    /\ tab[t].pc \in Resting /\ t \in Clients /\ mode = "keycloak"
    /\ Become(t, [At("requesting") EXCEPT !.op = op, !.header = "access",
                                          !.token = Issued])
    /\ UNCHANGED <<settings, now, provider, cookies, round>>

(* An API client in the browser calls with another Authorization header    *)
(* and the cookie; how long that takes makes no difference.                *)
ApiCall(t, op, header) ==
    /\ tab[t].pc \in Resting /\ t \in Clients
    /\ LET v == [Blank EXCEPT !.op = op, !.header = header, !.cookie = Sent(session)]
       IN  \E p \in Authenticate(v) : Become(t, Answer(v, p))
    /\ UNCHANGED <<settings, now, provider, cookies, round>>

Serve(t) ==
    /\ tab[t].pc = "requesting"
    /\ \E p \in Authenticate(tab[t]) :
          /\ Become(t, Answer(tab[t], p))
          /\ round' = IF Answer(tab[t], p).pc = "asking" THEN Begin(t) ELSE round
    /\ UNCHANGED <<settings, now, provider, cookies>>

(* GET /login: the password form, or the redirect to the provider with a   *)
(* new transaction, unless the discovery of its endpoints fails.           *)
LoginPage(t) ==
    /\ tab[t].pc = "asking"
    /\ \/ /\ mode = "local"
          /\ Become(t, At("form"))
          /\ UNCHANGED round
       \/ /\ UsesKeycloak
          /\ Become(t, [At("redirected") EXCEPT
                          !.transaction = [login |-> t, iat |-> now, exp |-> None]])
          /\ UNCHANGED round
       \/ /\ UsesKeycloak
          /\ Become(t, At("idle"))
          /\ round' = Excuse
    /\ UNCHANGED <<settings, now, provider, cookies>>

(* The browser follows the redirect; the transaction cookie of another tab *)
(* is overwritten.                                                         *)
Redirected(t) ==
    /\ tab[t].pc = "redirected"
    /\ tx' = Stored(tab[t].transaction, TransactionTtl)
    /\ Become(t, At("provider"))
    /\ UNCHANGED <<settings, now, provider, session, round>>

(* The provider knows the user, or has let them sign in, and redirects the *)
(* browser to the callback with the state and a code of this login.        *)
Authorize(t) ==
    /\ tab[t].pc = "provider"
    /\ Become(t, [At("calling") EXCEPT !.transaction = Sent(tx)])
    /\ UNCHANGED <<settings, now, provider, cookies, round>>

(* The user leaves the sign-in page. *)
Abandon(t) ==
    /\ tab[t].pc \in {"provider", "form"}
    /\ Become(t, Blank)
    /\ round' = Excuse
    /\ UNCHANGED <<settings, now, provider, cookies>>

(* GET /auth/callback up to its first await: the transaction of the cookie *)
(* must be the one of this login.                                          *)
(* Mutant: a refusal deletes the transaction cookie as a success does.     *)
Expired(value, maxAge) == value # None /\ ~Valid(value, maxAge)

RefuseWith(t, v, left) ==
    IF Valid(v.transaction, TransactionTtl) /\ v.transaction.login = t
    THEN /\ Become(t, At("exchanging"))
         /\ UNCHANGED <<tx, round>>
    ELSE /\ Become(t, At("refused"))
         /\ tx' = left
         /\ round' = IF Expired(v.transaction, TransactionTtl) THEN Excuse ELSE round
MutantRefusalDeletes(t, v) == RefuseWith(t, v, None)
CheckTransaction(t, v) == RefuseWith(t, v, tx)

Callback(t) ==
    /\ tab[t].pc = "calling"
    /\ CheckTransaction(t, tab[t])
    /\ UNCHANGED <<settings, now, provider, session>>

(* exchange_code: the provider answers the code and the PKCE verifier of   *)
(* the same login with an ID token that has the roles of that moment.      *)
Exchanged(t) ==
    /\ tab[t].pc = "exchanging"
    /\ Become(t, [At("verifying") EXCEPT
                    !.token = Issued])
    /\ UNCHANGED <<settings, now, provider, cookies, round>>

(* verify_id_token returns, and the principal becomes a session if it may  *)
(* view anything at all.                                                   *)
Verified(t) ==
    LET token == tab[t].token IN
    /\ tab[t].pc = "verifying"
    /\ Accepted(token)
    /\ IF HasRole(token.roles, "viewer")
       THEN /\ Become(t, Welcome(token.roles, "oidc_session", token.exp))
            /\ UNCHANGED round
       ELSE /\ Become(t, At("idle"))
            /\ round' = Excuse
    /\ UNCHANGED <<settings, now, provider, cookies>>

(* exchange_code or verify_id_token raises: the provider cannot be reached *)
(* or refuses the code, or the token is invalid, too old or too new.       *)
LoginFails(t) ==
    /\ tab[t].pc \in {"exchanging", "verifying"}
    /\ Become(t, At("idle"))
    /\ round' = Excuse
    /\ UNCHANGED <<settings, now, provider, cookies>>

(* POST /auth/login: a wrong password leaves the form where it is.         *)
PasswordLogin(t) ==
    /\ tab[t].pc = "form"
    /\ Become(t, Welcome(Roles, "local", None))
    /\ UNCHANGED <<settings, now, provider, cookies, round>>

(* The response with the session cookie arrives and the browser goes to /. *)
(* The callback has also deleted the transaction cookie, whose ever it is  *)
(* by now.  A token that only the skew has let through is past already:    *)
(* its cookie has a max_age of 0, and nobody is in.                        *)
Welcomed(t) ==
    LET kept == Stored(tab[t].cookie, tab[t].keep) IN
    /\ tab[t].pc = "welcomed"
    /\ session' = kept
    /\ tx' = IF UsesKeycloak THEN None ELSE tx
    /\ Become(t, [At("requesting") EXCEPT
                    !.cookie = IF kept = None THEN None ELSE kept.value])
    /\ round' = IF kept = None THEN Excuse ELSE "in"
    /\ UNCHANGED <<settings, now, provider>>

(* POST /auth/logout awaits the provider's endpoints in the Keycloak       *)
(* modes; if they cannot be had, the session cookie is not deleted.  The   *)
(* service has nothing to forget: the response does it all.                *)
SignOut(t) ==
    /\ tab[t].pc = "page" /\ mode # "disabled"
    /\ Become(t, At("leaving"))
    /\ UNCHANGED <<settings, now, provider, cookies, round>>

Logout(t) ==
    /\ tab[t].pc = "leaving"
    /\ \/ /\ session' = None
          /\ Become(t, At("asking"))
          /\ round' = Begin(t)
       \/ /\ UsesKeycloak
          /\ Become(t, At("idle"))
          /\ UNCHANGED <<session, round>>
    /\ UNCHANGED <<settings, now, provider, tx>>

------------------------------------------------------------------------------
(* The provider and the clock.                                             *)
ChangeRoles(roles) ==
    /\ roles # held /\ changes < MaxChanges
    /\ changes' = changes + 1
    /\ held' = roles
    /\ lastHeld' = Held(roles, now, lastHeld)
    /\ UNCHANGED <<settings, now, cookies, tab, round>>

Tick ==
    /\ now < MaxTime
    /\ now' = now + 1
    /\ lastHeld' = Held(held, now + 1, lastHeld)
    /\ round' = IF tx # None /\ now + 1 > tx.value.iat + TransactionTtl
                THEN Excuse ELSE round
    /\ session' = Unless(session, now + 1)
    /\ tx' = Unless(tx, now + 1)
    /\ UNCHANGED <<settings, held, changes, tab>>

(* Every step of a tab but those its user decides on.                      *)
Progress(t) ==
    \/ Serve(t) \/ LoginPage(t) \/ Redirected(t) \/ Authorize(t) \/ Callback(t)
    \/ Exchanged(t) \/ Verified(t) \/ LoginFails(t) \/ Welcomed(t)
    \/ Logout(t)

Next ==
    \/ \E t \in Tabs, op \in {"page", "post"} : Send(t, op)
    \/ \E t \in Tabs, op \in {"get", "post"} : SendToken(t, op)
    \/ \E t \in Tabs, op \in Operations, header \in {"static", "other", "basic"} :
          ApiCall(t, op, header)
    \/ \E t \in Tabs : Progress(t) \/ Abandon(t) \/ PasswordLogin(t) \/ SignOut(t)
    \/ \E roles \in Grants : ChangeRoles(roles)
    \/ Tick

Spec == Init /\ [][Next]_vars

(* Requests and responses arrive, the calls of the provider have a timeout *)
(* and the provider redirects a user whom it knows.                        *)
FairSpec == Spec /\ \A t \in Tabs : WF_vars(Progress(t))
------------------------------------------------------------------------------
(* A request is served to an account of the provider only if it had the    *)
(* required role no longer ago than a token is good for, on the provider's *)
(* clock, and less than the skew longer for access tokens: neither a       *)
(* request or a response that was long under way, nor a cookie the browser *)
(* keeps, nor the lifetime of the session extends a role that was          *)
(* withdrawn (auth.py:326).                                                *)
RolesAreFresh ==
    [][\A t \in Tabs :
          tab[t].pc = "requesting" /\ tab'[t].pc = "page" =>
              LET until == lastHeld[RequiredRole(tab[t].op)] + TokenLife + drift IN
              /\ UsesKeycloak /\ tab[t].header = "none" => now <= until
              /\ tab[t].header = "access" => now < until + Skew]_vars

(* Tabs that sign in at the same time share one transaction cookie, and    *)
(* all but one may be refused for it (auth.py:217); but when the logins    *)
(* are over, and neither the provider nor the user nor the time ended one  *)
(* of them, some tab has got in.                                           *)
SomeTabGetsIn ==
    /\ \E t \in Tabs : tab[t].pc = "refused"
    /\ \A t \in Tabs : tab[t].pc \notin LoginSteps
    => round # "open"

(* A tab that has asked for a page comes to rest at it, at an error or at  *)
(* the password form: a login never ends in a session that the very next   *)
(* request is refused with and sent back to /login, for ever               *)
(* (auth.py:133, auth.py:272).  The exception is a deployment whose tokens *)
(* are past, on the runner's clock, from the moment they are issued, and   *)
(* accepted all the same, the skew being larger than that (settings.py:54  *)
(* sets no limit to it): there the redirects need not end.                 *)
PastButAccepted ==
    UsesKeycloak /\ drift + TokenLife <= 0 /\ 0 < drift + TokenLife + Skew
OpenSettles ==
    \A t \in Tabs :
       tab[t].pc = "requesting" /\ ~PastButAccepted ~> tab[t].pc \in Resting \cup {"form"}
==============================================================================
