------------------------- MODULE BrowserSessionProofs -------------------------
(***************************************************************************)
(* That a role the provider has withdrawn ends with the tokens that carry  *)
(* it, for any number of tabs, seconds and changes of roles and any drift  *)
(* between the two clocks.                                                 *)
(*                                                                         *)
(* The argument follows a set of roles from the token to the request.  A   *)
(* token is issued with the roles of that moment, so that its expiry lies  *)
(* no later than one lifetime after the account last had them; what is     *)
(* derived from it - the session cookie of a response, the browser's       *)
(* cookie, the cookie of a request - has the same roles and the same       *)
(* expiry; and lastHeld only grows, so the bound persists while any of     *)
(* them is under way.                                                      *)
(*                                                                         *)
(* And that of the tabs that sign in at the same time one gets in.         *)
(***************************************************************************)
EXTENDS BrowserSession, TLAPS

(* The roles and the expiry of a token or a cookie: it is good for no more *)
(* than a lifetime after the account last had what the roles allow.        *)
Young(v) ==
    /\ v.exp \in Int
    /\ \A r \in Roles :
          HasRole(v.roles, r) => v.exp <= lastHeld[r] + TokenLife + drift

(* A session cookie of the Keycloak modes stems from a token.              *)
Fresh(cookie) ==
    UsesKeycloak => cookie.method = "oidc_session" /\ Young(cookie)

(* What is under way for a tab. *)
TabInv(v) ==
    /\ v.cookie # None => Fresh(v.cookie)
    /\ v.token # None => Young(v.token)
    /\ v.pc = "welcomed" => Fresh(v.cookie)
    /\ v.pc = "verifying" => Young(v.token)
    /\ v.pc = "form" => mode = "local"
    /\ v.header = "access" => mode = "keycloak"

(* The parts of the state the argument is about have their types.          *)
ShapeInv ==
    /\ drift \in Int
    /\ now \in Int
    /\ lastHeld \in [Roles -> Int]
    /\ DOMAIN tab = Tabs

(* lastHeld is the last moment the account had each role.                  *)
HeldInv ==
    \A r \in Roles :
        /\ lastHeld[r] <= now
        /\ HasRole(held, r) => lastHeld[r] = now

(* The inductive invariant. *)
RolesInv ==
    /\ ShapeInv
    /\ HeldInv
    /\ session # None => Fresh(session.value)
    /\ \A t \in Tabs : TabInv(tab[t])

------------------------------------------------------------------------------
(* A tab with nothing but a step under way satisfies its invariant.        *)
LEMMA RestInv ==
    /\ TabInv(Blank)
    /\ TabInv(At("idle")) /\ TabInv(At("page")) /\ TabInv(At("refused"))
    /\ TabInv(At("asking")) /\ TabInv(At("provider"))
    /\ TabInv(At("exchanging")) /\ TabInv(At("leaving"))
BY DEF TabInv, At, Blank

(* The initial states satisfy the invariant.                               *)
LEMMA RolesInit == Init => RolesInv
<1> SUFFICES ASSUME Init PROVE RolesInv
    OBVIOUS
<1>1. ShapeInv
  <2>1. drift \in Int
    BY SessionAssumption DEF Init
  <2>2. lastHeld \in [Roles -> Int]
    BY DEF Init, Held
  <2> QED
    BY <2>1, <2>2 DEF Init, ShapeInv
<1>2. HeldInv
    BY DEF Init, Held, HeldInv
<1>3. \A t \in Tabs : TabInv(tab[t])
    BY DEF Init, TabInv, Blank
<1> QED
    BY <1>1, <1>2, <1>3 DEF Init, RolesInv

(* A step that gives one tab something that satisfies the invariant, and   *)
(* leaves the clock, the provider and the session cookie alone.            *)
LEMMA OneTab ==
    ASSUME RolesInv, NEW t \in Tabs, NEW v, TabInv(v), Become(t, v),
           UNCHANGED <<settings, now, provider, session>>
    PROVE  RolesInv'
<1> USE DEF settings, provider
<1>1. ShapeInv' /\ HeldInv'
    BY DEF RolesInv, ShapeInv, HeldInv, Become
<1>2. (session # None => Fresh(session.value))'
    BY DEF RolesInv, Fresh, Young, UsesKeycloak
<1>3. ASSUME NEW u \in Tabs PROVE TabInv(tab[u])'
  <2>1. TabInv(tab'[u])
      BY DEF RolesInv, ShapeInv, Become
  <2> QED
      BY <2>1 DEF TabInv, Fresh, Young, UsesKeycloak
<1> QED
    BY <1>1, <1>2, <1>3 DEF RolesInv

(* A step of the provider or of the clock: what is under way satisfies the *)
(* invariant when lastHeld has grown.                                      *)
LEMMA LaterHeld ==
    ASSUME RolesInv, ShapeInv', HeldInv', UNCHANGED <<settings, tab>>,
           \A r \in Roles : lastHeld[r] <= lastHeld'[r],
           session' \in {None, session}
    PROVE  RolesInv'
<1> USE DEF settings
<1>1. ASSUME NEW c, Young(c) PROVE c.exp \in Int /\ \A r \in Roles :
          HasRole(c.roles, r) => c.exp <= lastHeld'[r] + TokenLife + drift
    BY <1>1, SessionAssumption DEF RolesInv, ShapeInv, Young
<1>2. ASSUME NEW t \in Tabs PROVE TabInv(tab[t])'
  <2>1. TabInv(tab[t])
      BY DEF RolesInv
  <2> QED
      BY <1>1, <2>1 DEF TabInv, Fresh, Young, UsesKeycloak
<1>3. (session # None => Fresh(session.value))'
    BY <1>1 DEF RolesInv, Fresh, Young, UsesKeycloak
<1> QED
    BY <1>2, <1>3 DEF RolesInv

(* A token that is issued now carries the roles of now.                    *)
LEMMA IssuedYoung == RolesInv => Young(Issued)
BY SessionAssumption DEF RolesInv, ShapeInv, HeldInv, Young, Issued

(* The cookie a request takes with it is the browser's.                    *)
LEMMA SentFresh == RolesInv /\ Sent(session) # None => Fresh(Sent(session))
BY DEF RolesInv, Sent

(* An answer to a request carries nothing.                                 *)
LEMMA AnswerInv ==
    ASSUME NEW v, NEW p PROVE TabInv(Answer(v, p))
BY RestInv DEF Answer

------------------------------------------------------------------------------
(* Every step of a tab preserves the invariant, by the source of what it   *)
(* puts under way.                                                         *)
LEMMA TabStep ==
    ASSUME RolesInv, NEW t \in Tabs,
           \/ Progress(t) \/ Abandon(t) \/ PasswordLogin(t) \/ SignOut(t)
           \/ \E op \in Operations : Send(t, op) \/ SendToken(t, op)
           \/ \E op \in Operations, header \in {"static", "other", "basic"} :
                 ApiCall(t, op, header)
    PROVE  RolesInv'
<1>0. TabInv(tab[t])
    BY DEF RolesInv
<1>1. ASSUME NEW op \in Operations, Send(t, op) PROVE RolesInv'
  <2> DEFINE v == [At("requesting") EXCEPT !.op = op, !.cookie = Sent(session)]
  <2>1. TabInv(v)
      BY SentFresh DEF TabInv, At, Blank
  <2> QED
      BY <1>1, <2>1, OneTab DEF Send, cookies
<1>2. ASSUME NEW op \in Operations, SendToken(t, op) PROVE RolesInv'
  <2> DEFINE v == [At("requesting") EXCEPT !.op = op, !.header = "access",
                                           !.token = Issued]
  <2>1. TabInv(v)
      BY <1>2, IssuedYoung DEF SendToken, TabInv, At, Blank
  <2> QED
      BY <1>2, <2>1, OneTab DEF SendToken, cookies
<1>3. ASSUME NEW op \in Operations, NEW header \in {"static", "other", "basic"},
             ApiCall(t, op, header)
      PROVE  RolesInv'
  <2> DEFINE v == [Blank EXCEPT !.op = op, !.header = header,
                                !.cookie = Sent(session)]
  <2>1. PICK p \in Authenticate(v) : Become(t, Answer(v, p))
      BY <1>3 DEF ApiCall
  <2> QED
      BY <1>3, <2>1, AnswerInv, OneTab DEF ApiCall, cookies
<1>4. ASSUME Serve(t) PROVE RolesInv'
  <2>1. PICK p \in Authenticate(tab[t]) : Become(t, Answer(tab[t], p))
      BY <1>4 DEF Serve
  <2> QED
      BY <1>4, <2>1, AnswerInv, OneTab DEF Serve, cookies
<1>5. ASSUME LoginPage(t) PROVE RolesInv'
  <2> DEFINE v == [At("redirected") EXCEPT
                     !.transaction = [login |-> t, iat |-> now, exp |-> None]]
  <2>1. TabInv(v) /\ TabInv(At("idle"))
      BY RestInv DEF TabInv, At, Blank
  <2>2. mode = "local" => TabInv(At("form"))
      BY DEF TabInv, At, Blank
  <2>3. \E w : Become(t, w) /\ TabInv(w)
      BY <1>5, <2>1, <2>2 DEF LoginPage
  <2> QED
      BY <1>5, <2>3, OneTab DEF LoginPage, cookies
<1>6. ASSUME Redirected(t) PROVE RolesInv'
    BY <1>6, RestInv, OneTab DEF Redirected
<1>7. ASSUME Authorize(t) PROVE RolesInv'
  <2> DEFINE v == [At("calling") EXCEPT !.transaction = Sent(tx)]
  <2>1. TabInv(v)
      BY DEF TabInv, At, Blank
  <2> QED
      BY <1>7, <2>1, OneTab DEF Authorize, cookies
<1>8. ASSUME Callback(t) PROVE RolesInv'
    BY <1>8, RestInv, OneTab DEF Callback, CheckTransaction, RefuseWith
<1>9. ASSUME Exchanged(t) PROVE RolesInv'
  <2> DEFINE v == [At("verifying") EXCEPT !.token = Issued]
  <2>1. TabInv(v)
      BY IssuedYoung DEF TabInv, At, Blank
  <2> QED
      BY <1>9, <2>1, OneTab DEF Exchanged, cookies
<1>10. ASSUME Verified(t) PROVE RolesInv'
  <2> DEFINE token == tab[t].token
             v == Welcome(token.roles, "oidc_session", token.exp)
  <2>1. Young(token)
      BY <1>0, <1>10 DEF Verified, TabInv
  <2>2. TabInv(v)
      BY <2>1 DEF Welcome, WelcomeAt, TabInv, At, Blank, Fresh, Young
  <2> QED
      BY <1>10, <2>2, RestInv, OneTab DEF Verified, cookies
<1>11. ASSUME PasswordLogin(t) PROVE RolesInv'
  <2>1. ~UsesKeycloak
      BY <1>0, <1>11 DEF PasswordLogin, TabInv, UsesKeycloak
  <2>2. TabInv(Welcome(Roles, "local", None))
      BY <2>1 DEF Welcome, WelcomeAt, TabInv, At, Blank, Fresh
  <2> QED
      BY <1>11, <2>2, OneTab DEF PasswordLogin, cookies
<1>12. ASSUME Welcomed(t) PROVE RolesInv'
  <2> USE DEF settings, provider
  <2> DEFINE kept == Stored(tab[t].cookie, tab[t].keep)
             v == [At("requesting") EXCEPT
                     !.cookie = IF kept = None THEN None ELSE kept.value]
  <2>1. kept # None => Fresh(kept.value)
      BY <1>0, <1>12 DEF Welcomed, TabInv, Stored
  <2>2. TabInv(v)
      BY <2>1 DEF TabInv, At, Blank
  <2>3. ShapeInv' /\ HeldInv'
      BY <1>12 DEF RolesInv, ShapeInv, HeldInv, Welcomed, Become
  <2>4. (session # None => Fresh(session.value))'
      BY <1>12, <2>1 DEF Welcomed, Fresh, Young, UsesKeycloak
  <2>5. ASSUME NEW u \in Tabs PROVE TabInv(tab[u])'
    <3>1. TabInv(tab'[u])
        BY <1>12, <2>2 DEF RolesInv, ShapeInv, Welcomed, Become
    <3> QED
        BY <1>12, <3>1 DEF Welcomed, TabInv, Fresh, Young, UsesKeycloak
  <2> QED
      BY <2>3, <2>4, <2>5 DEF RolesInv
<1>13. ASSUME Logout(t) PROVE RolesInv'
  <2>1. CASE session' = session
    <3>1. \E w : Become(t, w) /\ TabInv(w)
        BY <1>13, RestInv DEF Logout
    <3> QED
        BY <1>13, <2>1, <3>1, OneTab DEF Logout
  <2>2. CASE session' = None
    <3> USE DEF settings, provider
    <3>1. ShapeInv' /\ HeldInv'
        BY <1>13 DEF RolesInv, ShapeInv, HeldInv, Logout, Become
    <3>2. ASSUME NEW u \in Tabs PROVE TabInv(tab[u])'
      <4>1. TabInv(tab'[u])
          BY <1>13, RestInv DEF RolesInv, ShapeInv, Logout, Become
      <4> QED
          BY <1>13, <4>1 DEF Logout, TabInv, Fresh, Young, UsesKeycloak
    <3> QED
        BY <2>2, <3>1, <3>2 DEF RolesInv
  <2> QED
      BY <1>13, <2>1, <2>2 DEF Logout
<1>14. ASSUME LoginFails(t) \/ Abandon(t) PROVE RolesInv'
    BY <1>14, RestInv, OneTab DEF LoginFails, Abandon, cookies
<1>15. ASSUME SignOut(t) PROVE RolesInv'
    BY <1>15, RestInv, OneTab DEF SignOut, cookies
<1> QED
    BY <1>1, <1>2, <1>3, <1>4, <1>5, <1>6, <1>7, <1>8, <1>9, <1>10, <1>11,
       <1>12, <1>13, <1>14, <1>15 DEF Progress

(* The provider changes the account's roles.                               *)
LEMMA ChangeStep ==
    ASSUME RolesInv, NEW roles, ChangeRoles(roles) PROVE RolesInv'
<1>1. ShapeInv'
    BY DEF RolesInv, ShapeInv, ChangeRoles, Held, settings
<1>2. HeldInv'
    BY DEF RolesInv, ShapeInv, HeldInv, ChangeRoles, Held
<1>3. \A r \in Roles : lastHeld[r] <= lastHeld'[r]
    BY DEF RolesInv, ShapeInv, HeldInv, ChangeRoles, Held
<1> QED
    BY <1>1, <1>2, <1>3, LaterHeld DEF ChangeRoles, cookies

(* The clock moves on. *)
LEMMA TickStep == RolesInv /\ Tick => RolesInv'
<1> SUFFICES ASSUME RolesInv, Tick PROVE RolesInv'
    OBVIOUS
<1>1. ShapeInv'
    BY DEF RolesInv, ShapeInv, Tick, Held, settings
<1>2. HeldInv'
    BY DEF RolesInv, ShapeInv, HeldInv, Tick, Held
<1>3. \A r \in Roles : lastHeld[r] <= lastHeld'[r]
    BY DEF RolesInv, ShapeInv, HeldInv, Tick, Held
<1>4. session' \in {None, session}
    BY DEF Tick, Unless
<1> QED
    BY <1>1, <1>2, <1>3, <1>4, LaterHeld DEF Tick

(* The invariant is inductive. *)
LEMMA RolesStep == RolesInv /\ [Next]_vars => RolesInv'
<1> SUFFICES ASSUME RolesInv, [Next]_vars PROVE RolesInv'
    OBVIOUS
<1>1. CASE UNCHANGED vars
    BY <1>1 DEF vars, settings, provider, cookies, RolesInv, ShapeInv, HeldInv,
                TabInv, Fresh, Young, UsesKeycloak
<1>2. CASE Next
    BY <1>2, TabStep, ChangeStep, TickStep DEF Next, Operations
<1> QED
    BY <1>1, <1>2

------------------------------------------------------------------------------
(* A request that is served was allowed by what it carries, at a moment    *)
(* that this is still good for (auth.py:111-128).                          *)
LEMMA ServedFresh ==
    ASSUME RolesInv, NEW t \in Tabs, Serve(t), tab'[t].pc = "page"
    PROVE  LET until == lastHeld[RequiredRole(tab[t].op)] + TokenLife + drift IN
           /\ UsesKeycloak /\ tab[t].header = "none" => now <= until
           /\ tab[t].header = "access" => now < until + Skew
<1> DEFINE v == tab[t]
           role == RequiredRole(v.op)
           until == lastHeld[role] + TokenLife + drift
<1>0. TabInv(v) /\ role \in Roles
    BY DEF RolesInv, RequiredRole, Roles
<1>1. PICK p \in Authenticate(v) : Become(t, Answer(v, p))
    BY DEF Serve
<1>2. Answer(v, p).pc = "page"
    BY <1>1 DEF Become, RolesInv, ShapeInv
<1>3. p # None /\ Allowed(p, v.op)
    BY <1>2 DEF Answer, At, Blank
<1>4. until \in Int /\ now \in Int /\ Skew \in Int
    BY <1>0, SessionAssumption DEF RolesInv, ShapeInv
<1>5. ASSUME UsesKeycloak, v.header = "none" PROVE now <= until
  <2>1. p \in BySession(v.cookie)
      BY <1>1, <1>5 DEF Authenticate, UsesKeycloak
  <2>2. Valid(v.cookie, SessionTtl) /\ p = Principal(v.cookie.roles, v.cookie.method)
      BY <1>3, <2>1 DEF BySession
  <2>3. v.cookie.method = "oidc_session" /\ Young(v.cookie)
      BY <1>0, <1>5, <2>2 DEF TabInv, Fresh, Valid
  <2>4. HasRole(v.cookie.roles, role)
      BY <1>3, <2>2, <2>3 DEF Allowed, Principal
  <2>5. v.cookie.exp \in Int /\ v.cookie.exp <= until
      BY <1>0, <2>3, <2>4 DEF Young
  <2>6. now <= v.cookie.exp
      BY <2>2, <2>5, SessionAssumption DEF Valid
  <2> QED
      BY <1>4, <2>5, <2>6
<1>6. ASSUME v.header = "access" PROVE now < until + Skew
  <2>1. mode = "keycloak"
      BY <1>0, <1>6 DEF TabInv
  <2>2. p \in ByAccessToken(v.token)
      BY <1>1, <1>6, <2>1 DEF Authenticate
  <2>3. /\ v.token # None /\ now < v.token.exp + Skew
        /\ p = Principal(v.token.roles, "oidc_bearer")
      BY <1>3, <2>2 DEF ByAccessToken, Accepted
  <2>4. HasRole(v.token.roles, role)
      BY <1>3, <2>3 DEF Allowed, Principal
  <2>5. v.token.exp \in Int /\ v.token.exp <= until
      BY <1>0, <2>3, <2>4 DEF TabInv, Young
  <2> QED
      BY <1>4, <2>3, <2>5
<1> QED
    BY <1>5, <1>6

(* No other step serves a request.                                         *)
LEMMA OnlyServe ==
    ASSUME RolesInv, [Next]_vars, NEW t \in Tabs,
           tab[t].pc = "requesting", tab'[t].pc = "page"
    PROVE  Serve(t)
<1>1. ASSUME NEW u \in Tabs, NEW v, Become(u, v), ~Serve(t) PROVE u = t
    BY <1>1 DEF Become, RolesInv, ShapeInv
<1>2. ASSUME NEW v, Become(t, v) PROVE v.pc = "page"
    BY <1>2 DEF Become, RolesInv, ShapeInv
<1>3. tab' # tab
    OBVIOUS
<1>4. PICK u \in Tabs :
          \/ Progress(u) \/ Abandon(u) \/ PasswordLogin(u) \/ SignOut(u)
          \/ \E op \in {"page", "post"} : Send(u, op)
          \/ \E op \in {"get", "post"} : SendToken(u, op)
          \/ \E op \in Operations, header \in {"static", "other", "basic"} :
                ApiCall(u, op, header)
    BY <1>3 DEF Next, vars, ChangeRoles, Tick
<1>5. \E v : Become(u, v)
    BY <1>4 DEF Progress, Abandon, PasswordLogin, SignOut, Send, SendToken, ApiCall,
                Serve, LoginPage, Redirected, Authorize, Callback, CheckTransaction,
                RefuseWith, Exchanged, Verified, LoginFails, Welcomed, Logout
<1>6. CASE u = t
    BY <1>4, <1>6 DEF Progress, Abandon, PasswordLogin, SignOut, Send, SendToken,
                ApiCall, LoginPage, Redirected, Authorize, Callback, Exchanged,
                Verified, LoginFails, Welcomed, Logout, Resting
<1> QED
    BY <1>1, <1>5, <1>6

(* A role that the provider has withdrawn ends with the tokens that carry  *)
(* it: neither a late request or response, nor the browser, nor the        *)
(* lifetime of the session extends it (auth.py:326).                       *)
THEOREM RolesFresh == Spec => RolesAreFresh
<1>1. RolesInv /\ [Next]_vars =>
      [\A t \in Tabs :
          tab[t].pc = "requesting" /\ tab'[t].pc = "page" =>
              LET until == lastHeld[RequiredRole(tab[t].op)] + TokenLife + drift IN
              /\ UsesKeycloak /\ tab[t].header = "none" => now <= until
              /\ tab[t].header = "access" => now < until + Skew]_vars
    BY OnlyServe, ServedFresh
<1> QED
    BY <1>1, RolesInit, RolesStep, PTL DEF Spec, RolesAreFresh

------------------------------------------------------------------------------
(* Logins that overlap. A login is on course while it can still get its    *)
(* own transaction cookie, has it, or has passed the check of it; in every *)
(* open round some login is, since each redirect that overwrites the       *)
(* cookie of another tab sets its own. A cookie the browser drops had a    *)
(* transaction that was over before.                                       *)
OnCourse(t) ==
    \/ tab[t].pc \in {"asking", "redirected", "exchanging", "verifying", "welcomed"}
    \/ tab[t].pc = "provider" /\ tx # None /\ tx.value.login = t
    \/ /\ tab[t].pc = "calling"
       /\ tab[t].transaction # None /\ tab[t].transaction.login = t
Entered(v) == v.pc \in LoginSteps \cup {"refused"}
LoginInv ==
    /\ round = "open" /\ (\E t \in Tabs : Entered(tab[t])) =>
          \E t \in Tabs : OnCourse(t)
    /\ \A t \in Tabs :
          /\ tab[t].pc \in {"redirected", "provider", "calling", "refused"} => UsesKeycloak
          /\ tab[t].pc = "redirected" =>
                /\ tab[t].transaction \in Transactions
                /\ tab[t].transaction.login = t /\ tab[t].transaction.iat <= now
    /\ tx # None =>
          /\ tx \in [value : Transactions, until : Until]
          /\ tx.value.iat + TransactionTtl <= tx.until

(* LoginInv is inductive, given the range of the clock. *)
LoginsInv == now \in Times /\ DOMAIN tab = Tabs /\ LoginInv

(* A step of one tab, by what it leaves: the login on course is this one,  *)
(* or another one, or the round is no longer open.                         *)
LEMMA OneLogin ==
    ASSUME LoginsInv, NEW t \in Tabs, NEW v, Become(t, v),
           UNCHANGED <<settings, now>>,
           v.pc \in {"redirected", "provider", "calling", "refused"} => UsesKeycloak,
           v.pc = "redirected" =>
               /\ v.transaction \in Transactions
               /\ v.transaction.login = t /\ v.transaction.iat <= now,
           tx' # None =>
               /\ tx' \in [value : Transactions, until : Until]
               /\ tx'.value.iat + TransactionTtl <= tx'.until,
           \/ round' # "open"
           \/ OnCourse(t)'
           \/ /\ ~OnCourse(t) /\ tx' = tx /\ round' = round
              /\ Entered(v) => Entered(tab[t])
           \/ ~UsesKeycloak
    PROVE  LoginsInv'
<1> USE DEF LoginsInv
<1>1. tab'[t] = v /\ \A u \in Tabs : u # t => tab'[u] = tab[u]
    BY DEF Become
<1>2. now' = now /\ (UsesKeycloak' <=> UsesKeycloak) /\ DOMAIN tab' = Tabs
    BY DEF settings, UsesKeycloak, Become
<1>3. ASSUME NEW u \in Tabs
      PROVE  /\ tab'[u].pc \in {"redirected", "provider", "calling", "refused"}
                   => UsesKeycloak'
             /\ tab'[u].pc = "redirected" =>
                   /\ tab'[u].transaction \in Transactions
                   /\ tab'[u].transaction.login = u /\ tab'[u].transaction.iat <= now'
  <2>1. CASE u = t
      BY <1>1, <1>2, <2>1
  <2>2. CASE u # t
      BY <1>1, <1>2, <2>2 DEF LoginInv
  <2> QED
      BY <2>1, <2>2
<1>4. ASSUME round' = "open", NEW w \in Tabs, Entered(tab'[w])
      PROVE  \E u \in Tabs : OnCourse(u)'
  <2>1. CASE OnCourse(t)'
      BY <2>1
  <2>2. CASE /\ ~OnCourse(t) /\ tx' = tx /\ round' = round
             /\ Entered(v) => Entered(tab[t])
    <3>1. Entered(tab[w])
        BY <1>1, <1>4, <2>2
    <3>2. PICK u \in Tabs : OnCourse(u)
        BY <1>4, <2>2, <3>1 DEF LoginInv
    <3>3. tab'[u] = tab[u]
        BY <1>1, <2>2, <3>2
    <3>4. OnCourse(u)'
        BY <2>2, <3>2, <3>3 DEF OnCourse
    <3> QED
        BY <3>4
  <2>3. CASE ~UsesKeycloak
    <3>1. OnCourse(w)'
        BY <1>2, <1>3, <1>4, <2>3 DEF OnCourse, Entered, LoginSteps
    <3> QED
        BY <3>1
  <2> QED
      BY <1>4, <2>1, <2>2, <2>3
<1>5. LoginInv'
    BY <1>3, <1>4 DEF LoginInv
<1> QED
    BY <1>2, <1>5

(* A response of the login is stored as the transaction it carries.        *)
LEMMA StoredTransaction ==
    ASSUME now \in Times, NEW x \in Transactions, x.iat <= now
    PROVE  LET kept == Stored(x, TransactionTtl) IN
           /\ kept # None /\ kept.value = x
           /\ kept \in [value : Transactions, until : Until]
           /\ kept.value.iat + TransactionTtl <= kept.until
<1>1. /\ TransactionTtl \in Nat \ {0} /\ SessionTtl \in Nat /\ MaxTime \in Nat
      /\ now \in Nat /\ now <= MaxTime /\ x.iat \in Nat
    BY SessionAssumption DEF Times, Transactions
<1>2. Stored(x, TransactionTtl) = [value |-> x, until |-> now + TransactionTtl]
    BY <1>1 DEF Stored
<1>3. now + TransactionTtl \in Until /\ x.iat + TransactionTtl <= now + TransactionTtl
    BY <1>1 DEF Until
<1>4. Stored(x, TransactionTtl) \in [value : Transactions, until : Until]
    BY <1>2, <1>3
<1> QED
    BY <1>2, <1>3, <1>4, NoneAssumption

(* Every step of a tab keeps a login on course, or the round is over.      *)
LEMMA LoginTabStep ==
    ASSUME LoginsInv, NEW t \in Tabs,
           \/ Progress(t) \/ Abandon(t) \/ PasswordLogin(t) \/ SignOut(t)
           \/ \E op \in Operations : Send(t, op) \/ SendToken(t, op)
           \/ \E op \in Operations, header \in {"static", "other", "basic"} :
                 ApiCall(t, op, header)
    PROVE  LoginsInv'
<1> USE DEF cookies
<1>0. /\ tx # None => /\ tx \in [value : Transactions, until : Until]
                      /\ tx.value.iat + TransactionTtl <= tx.until
      /\ Excuse # "open"
      /\ \A v : Become(t, v) => tab'[t] = v
      /\ tab[t].pc \in {"redirected", "provider", "calling", "refused"} => UsesKeycloak
    BY DEF LoginsInv, LoginInv, Excuse, Become
<1>1. ASSUME NEW op \in Operations, Send(t, op) PROVE LoginsInv'
  <2> DEFINE v == [At("requesting") EXCEPT !.op = op, !.cookie = Sent(session)]
  <2>1. v.pc = "requesting"
      BY DEF At, Blank
  <2>2. Become(t, v) /\ tab[t].pc \in Resting /\ UNCHANGED <<settings, now, tx, round>>
      BY <1>1 DEF Send
  <2> HIDE DEF v
  <2> QED
      BY <1>0, <2>1, <2>2, OneLogin DEF OnCourse, Entered, Resting, LoginSteps
<1>2. ASSUME NEW op \in Operations, SendToken(t, op) PROVE LoginsInv'
  <2> DEFINE v == [At("requesting") EXCEPT !.op = op, !.header = "access",
                                           !.token = Issued]
  <2>1. v.pc = "requesting"
      BY DEF At, Blank
  <2>2. Become(t, v) /\ tab[t].pc \in Resting /\ UNCHANGED <<settings, now, tx, round>>
      BY <1>2 DEF SendToken
  <2> HIDE DEF v
  <2> QED
      BY <1>0, <2>1, <2>2, OneLogin DEF OnCourse, Entered, Resting, LoginSteps
<1>3. ASSUME NEW op \in Operations, NEW header \in {"static", "other", "basic"},
             ApiCall(t, op, header)
      PROVE  LoginsInv'
  <2> DEFINE r == [Blank EXCEPT !.op = op, !.header = header, !.cookie = Sent(session)]
  <2>1. PICK p \in Authenticate(r) : Become(t, Answer(r, p))
      BY <1>3 DEF ApiCall
  <2> DEFINE v == Answer(r, p)
  <2>2. r.header # "none"
      BY DEF Blank
  <2>3. v.pc \in {"idle", "page"}
      BY <2>2 DEF Answer, At, Blank
  <2>4. Become(t, v) /\ tab[t].pc \in Resting /\ UNCHANGED <<settings, now, tx, round>>
      BY <1>3, <2>1 DEF ApiCall
  <2> HIDE DEF v
  <2> QED
      BY <1>0, <2>3, <2>4, OneLogin DEF OnCourse, Entered, Resting, LoginSteps
<1>4. ASSUME Serve(t) PROVE LoginsInv'
  <2>1. PICK p \in Authenticate(tab[t]) :
            /\ Become(t, Answer(tab[t], p))
            /\ round' = IF Answer(tab[t], p).pc = "asking" THEN Begin(t) ELSE round
      BY <1>4 DEF Serve
  <2> DEFINE v == Answer(tab[t], p)
  <2>2. v.pc \in {"idle", "page", "asking"}
      BY DEF Answer, At, Blank
  <2>3. /\ Become(t, v) /\ tab[t].pc = "requesting" /\ UNCHANGED <<settings, now, tx>>
        /\ v.pc # "asking" => round' = round
      BY <1>4, <2>1 DEF Serve
  <2> HIDE DEF v
  <2>4. tab'[t] = v
      BY <1>0, <2>3
  <2>5. v.pc = "asking" => OnCourse(t)'
      BY <2>4 DEF OnCourse
  <2>6. v.pc # "asking" => ~OnCourse(t) /\ ~Entered(v)
      BY <2>2, <2>3 DEF OnCourse, Entered, LoginSteps
  <2> QED
      BY <1>0, <2>2, <2>3, <2>5, <2>6, OneLogin
<1>5. ASSUME LoginPage(t) PROVE LoginsInv'
  <2> DEFINE x == [login |-> t, iat |-> now, exp |-> None]
  <2>1. CASE mode = "local" /\ Become(t, At("form"))
    <3>1. ~UsesKeycloak /\ At("form").pc = "form"
        BY <2>1 DEF UsesKeycloak, At, Blank
    <3> QED
        BY <1>0, <1>5, <2>1, <3>1, OneLogin DEF LoginPage
  <2>2. CASE UsesKeycloak /\ Become(t, [At("redirected") EXCEPT !.transaction = x])
    <3> DEFINE v == [At("redirected") EXCEPT !.transaction = x]
    <3>1. v.pc = "redirected" /\ v.transaction = x
        BY DEF At, Blank
    <3>2. x \in Transactions /\ x.login = t /\ x.iat <= now
        BY SessionAssumption DEF LoginsInv, Transactions, Times
    <3>3. Become(t, v)
        BY <2>2
    <3> HIDE DEF v, x
    <3>4. OnCourse(t)'
        BY <1>0, <3>1, <3>3 DEF OnCourse
    <3> QED
        BY <1>0, <1>5, <2>2, <3>1, <3>2, <3>3, <3>4, OneLogin DEF LoginPage
  <2>3. CASE Become(t, At("idle")) /\ round' = Excuse
    <3>1. At("idle").pc = "idle"
        BY DEF At, Blank
    <3> QED
        BY <1>0, <1>5, <2>3, <3>1, OneLogin DEF LoginPage
  <2> QED
      BY <1>5, <2>1, <2>2, <2>3 DEF LoginPage
<1>6. ASSUME Redirected(t) PROVE LoginsInv'
  <2> DEFINE x == tab[t].transaction
  <2>1. /\ tab[t].pc = "redirected" /\ tx' = Stored(x, TransactionTtl)
        /\ Become(t, At("provider")) /\ UNCHANGED <<settings, now>>
      BY <1>6 DEF Redirected
  <2>2. x \in Transactions /\ x.login = t /\ x.iat <= now /\ now \in Times
      BY <2>1 DEF LoginsInv, LoginInv
  <2> HIDE DEF x
  <2>3. /\ tx' # None /\ tx'.value = x
        /\ tx' \in [value : Transactions, until : Until]
        /\ tx'.value.iat + TransactionTtl <= tx'.until
      BY <2>1, <2>2, StoredTransaction
  <2>4. At("provider").pc = "provider"
      BY DEF At, Blank
  <2>5. OnCourse(t)'
      BY <1>0, <2>1, <2>2, <2>3, <2>4 DEF OnCourse
  <2> QED
      BY <1>0, <2>1, <2>3, <2>4, <2>5, OneLogin
<1>7. ASSUME Authorize(t) PROVE LoginsInv'
  <2> DEFINE v == [At("calling") EXCEPT !.transaction = Sent(tx)]
  <2>1. v.pc = "calling" /\ v.transaction = Sent(tx)
      BY DEF At, Blank
  <2>2. /\ Become(t, v) /\ tab[t].pc = "provider"
        /\ UNCHANGED <<settings, now, tx, round>>
      BY <1>7 DEF Authorize
  <2> HIDE DEF v
  <2>3. tx # None => Sent(tx) = tx.value /\ tx.value # None
      BY <1>0, NoneAssumption DEF Sent
  <2>4. OnCourse(t) => OnCourse(t)'
      BY <1>0, <2>1, <2>2, <2>3 DEF OnCourse
  <2>5. Entered(tab[t])
      BY <2>2 DEF Entered, LoginSteps
  <2> QED
      BY <1>0, <2>1, <2>2, <2>4, <2>5, OneLogin
<1>8. ASSUME Callback(t) PROVE LoginsInv'
  <2> DEFINE x == tab[t].transaction
  <2>1. /\ tab[t].pc = "calling" /\ UNCHANGED <<settings, now, tx>> /\ UsesKeycloak
      BY <1>0, <1>8 DEF Callback, CheckTransaction, RefuseWith
  <2>2. CASE Become(t, At("exchanging"))
    <3>1. At("exchanging").pc = "exchanging"
        BY DEF At, Blank
    <3>2. OnCourse(t)'
        BY <1>0, <2>2, <3>1 DEF OnCourse
    <3> QED
        BY <1>0, <2>1, <2>2, <3>1, <3>2, OneLogin
  <2>3. CASE /\ ~(Valid(x, TransactionTtl) /\ x.login = t)
             /\ Become(t, At("refused"))
             /\ round' = IF Expired(x, TransactionTtl) THEN Excuse ELSE round
    <3>1. At("refused").pc = "refused"
        BY DEF At, Blank
    <3>2. CASE Expired(x, TransactionTtl)
        BY <1>0, <2>1, <2>3, <3>1, <3>2, OneLogin
    <3>3. CASE ~Expired(x, TransactionTtl)
      <4>1. ~OnCourse(t)
          BY <2>1, <2>3, <3>3 DEF OnCourse, Expired
      <4>2. Entered(tab[t])
          BY <2>1 DEF Entered, LoginSteps
      <4> QED
          BY <1>0, <2>1, <2>3, <3>1, <3>3, <4>1, <4>2, OneLogin
    <3> QED
        BY <3>2, <3>3
  <2> QED
      BY <1>8, <2>2, <2>3 DEF Callback, CheckTransaction, RefuseWith
<1>9. ASSUME Exchanged(t) PROVE LoginsInv'
  <2> DEFINE v == [At("verifying") EXCEPT !.token = Issued]
  <2>1. v.pc = "verifying"
      BY DEF At, Blank
  <2>2. Become(t, v) /\ UNCHANGED <<settings, now, tx>>
      BY <1>9 DEF Exchanged
  <2> HIDE DEF v
  <2>3. OnCourse(t)'
      BY <1>0, <2>1, <2>2 DEF OnCourse
  <2> QED
      BY <1>0, <2>1, <2>2, <2>3, OneLogin
<1>10. ASSUME NEW roles, NEW method, NEW exp, Become(t, Welcome(roles, method, exp)),
              UNCHANGED <<settings, now, tx>>
       PROVE  LoginsInv'
  <2> DEFINE v == Welcome(roles, method, exp)
  <2>1. v.pc = "welcomed"
      BY DEF Welcome, WelcomeAt, At, Blank
  <2>2. Become(t, v)
      BY <1>10
  <2> HIDE DEF v
  <2>3. OnCourse(t)'
      BY <1>0, <2>1, <2>2 DEF OnCourse
  <2> QED
      BY <1>0, <1>10, <2>1, <2>2, <2>3, OneLogin
<1>11. ASSUME Become(t, At("idle")) \/ Become(t, Blank), round' = Excuse,
              UNCHANGED <<settings, now, tx>>
       PROVE  LoginsInv'
  <2>1. At("idle").pc = "idle" /\ Blank.pc = "idle"
      BY DEF At, Blank
  <2> QED
      BY <1>0, <1>11, <2>1, OneLogin
<1>12. ASSUME Welcomed(t) PROVE LoginsInv'
  <2> DEFINE kept == Stored(tab[t].cookie, tab[t].keep)
             v == [At("requesting") EXCEPT
                      !.cookie = IF kept = None THEN None ELSE kept.value]
  <2>1. v.pc = "requesting"
      BY DEF At, Blank
  <2>2. /\ Become(t, v) /\ UNCHANGED <<settings, now>> /\ round' \in {"in", Excuse}
        /\ tx' \in {None, tx}
      BY <1>12 DEF Welcomed
  <2> HIDE DEF v
  <2> QED
      BY <1>0, <2>1, <2>2, OneLogin
<1>13. ASSUME Logout(t) PROVE LoginsInv'
  <2>1. At("asking").pc = "asking" /\ At("idle").pc = "idle"
      BY DEF At, Blank
  <2>2. CASE Become(t, At("asking"))
    <3>1. OnCourse(t)'
        BY <1>0, <2>1, <2>2 DEF OnCourse
    <3> QED
        BY <1>0, <1>13, <2>1, <2>2, <3>1, OneLogin DEF Logout
  <2>3. CASE Become(t, At("idle")) /\ UNCHANGED round
    <3>1. ~OnCourse(t) /\ ~Entered(At("idle"))
        BY <1>13, <2>1 DEF Logout, OnCourse, Entered, LoginSteps
    <3> QED
        BY <1>0, <1>13, <2>1, <2>3, <3>1, OneLogin DEF Logout
  <2> QED
      BY <1>13, <2>2, <2>3 DEF Logout
<1>14. ASSUME SignOut(t) PROVE LoginsInv'
  <2>1. At("leaving").pc = "leaving"
      BY DEF At, Blank
  <2>2. ~OnCourse(t) /\ ~Entered(At("leaving"))
      BY <1>14, <2>1 DEF SignOut, OnCourse, Entered, LoginSteps
  <2> QED
      BY <1>0, <1>14, <2>1, <2>2, OneLogin DEF SignOut
<1>15. ASSUME Verified(t) \/ PasswordLogin(t) PROVE LoginsInv'
    BY <1>10, <1>11, <1>15 DEF Verified, PasswordLogin
<1>16. ASSUME LoginFails(t) \/ Abandon(t) PROVE LoginsInv'
    BY <1>11, <1>16 DEF LoginFails, Abandon
<1> QED
    BY <1>1, <1>2, <1>3, <1>4, <1>5, <1>6, <1>7, <1>8, <1>9,
       <1>12, <1>13, <1>14, <1>15, <1>16 DEF Progress

(* The initial states. *)
LEMMA LoginsInit == Init => LoginsInv
BY SessionAssumption
   DEF Init, LoginsInv, LoginInv, Entered, LoginSteps, Blank, Times

(* The clock: the browser drops a transaction cookie only after the        *)
(* transaction is over, which excuses the round.                           *)
LEMMA LoginTick == LoginsInv /\ Tick => LoginsInv'
<1> SUFFICES ASSUME LoginsInv, Tick PROVE LoginsInv'
    OBVIOUS
<1>1. /\ now' = now + 1 /\ now' \in Times /\ now \in Int /\ tab' = tab
      /\ (UsesKeycloak' <=> UsesKeycloak)
    BY SessionAssumption DEF LoginsInv, Tick, Times, settings, UsesKeycloak
<1>2. tx # None => /\ tx.value.iat \in Nat /\ tx.until \in Nat /\ TransactionTtl \in Nat
                   /\ tx.value.iat + TransactionTtl <= tx.until
    BY SessionAssumption DEF LoginsInv, LoginInv, Transactions, Until, Times
<1>3. tx' \in {None, tx} /\ (tx' # tx => round' # "open")
    BY <1>1, <1>2 DEF Tick, Unless, Excuse
<1>4. round' = "open" => round = "open"
    BY DEF Tick, Excuse
<1>5. ASSUME round' = "open", NEW w \in Tabs, Entered(tab'[w])
      PROVE  \E u \in Tabs : OnCourse(u)'
  <2>1. tx' = tx /\ \E u \in Tabs : OnCourse(u)
      BY <1>1, <1>3, <1>4, <1>5 DEF LoginsInv, LoginInv
  <2> QED
      BY <1>1, <2>1 DEF OnCourse
<1>6. \A t \in Tabs :
          /\ tab'[t].pc \in {"redirected", "provider", "calling", "refused"} => UsesKeycloak'
          /\ tab'[t].pc = "redirected" =>
                /\ tab'[t].transaction \in Transactions
                /\ tab'[t].transaction.login = t /\ tab'[t].transaction.iat <= now'
  <2>1. \A x \in Transactions : x.iat \in Int
      BY DEF Transactions, Times
  <2> QED
      BY <1>1, <2>1 DEF LoginsInv, LoginInv
<1>7. tx' # None => /\ tx' \in [value : Transactions, until : Until]
                    /\ tx'.value.iat + TransactionTtl <= tx'.until
    BY <1>3 DEF LoginsInv, LoginInv
<1> QED
    BY <1>1, <1>5, <1>6, <1>7 DEF LoginsInv, LoginInv

LEMMA LoginsStep == LoginsInv /\ [Next]_vars => LoginsInv'
<1> SUFFICES ASSUME LoginsInv, [Next]_vars PROVE LoginsInv'
    OBVIOUS
<1>1. ASSUME UNCHANGED <<mode, now, tx, tab, round>> PROVE LoginsInv'
    BY <1>1 DEF LoginsInv, LoginInv, OnCourse, UsesKeycloak
<1>2. CASE UNCHANGED vars
    BY <1>1, <1>2 DEF vars, settings, cookies
<1>3. ASSUME NEW roles, ChangeRoles(roles) PROVE LoginsInv'
    BY <1>1, <1>3 DEF ChangeRoles, settings, cookies
<1>4. CASE Next
    BY <1>3, <1>4, LoginTabStep, LoginTick DEF Next, Operations
<1> QED
    BY <1>2, <1>4

(* Of the tabs that sign in at the same time with one transaction cookie   *)
(* between them, one gets in unless the provider, the user or the time     *)
(* ends a login (auth.py:217): the refusals never use the cookie up.       *)
THEOREM OneTabGetsIn == Spec => []SomeTabGetsIn
<1>1. LoginsInv => SomeTabGetsIn
    BY DEF LoginsInv, LoginInv, SomeTabGetsIn, Entered, OnCourse, LoginSteps
<1> QED
    BY <1>1, LoginsInit, LoginsStep, PTL DEF Spec
==============================================================================
