----------------------------- MODULE AccessTokens -----------------------------
(* API tokens, browser sessions and the OpenID Connect login.                *)
(*                                                                            *)
(* A request is admitted in steps: LookupAPIToken selects the row, the same   *)
(* call rolls the expiry of a session, and the handler then works with the    *)
(* principal it was given, whatever has happened to the row since.            *)
(* Time is counted in ticks; expiries are ticks.                              *)
EXTENDS Naturals, FiniteSets, Authority

CONSTANTS Users, Bootstrap,    \* people with an OIDC subject; the recovery admin
          Teams,
          TokenIds, LoginIds, RequestIds,
          Grants,              \* the scope sets a caller asks for
          Expiries,            \* the lifetimes a caller asks for
          SessionTTL,          \* AUTH session lifetime, rolled by every use
          LoginTTL,            \* lifetime of the session an OIDC login creates
          StateTTL,            \* lifetime of the signed login state
          DefaultTTL,          \* lifetime of a token created without an expiry
          MaxClock,            \* bound on time
          MaxRequests          \* bound on the requests that are admitted

ASSUME TokenAssumption ==
  /\ Bootstrap \notin Users
  /\ {SessionTTL, LoginTTL, StateTTL, DefaultTTL, MaxClock, MaxRequests} \subseteq Nat \ {0}
  /\ Expiries \subseteq Nat \ {0} /\ \A g \in Grants : g \subseteq AllScopes

VARIABLES
  account,    \* the users table: "absent", "user" or "admin" for each person
  tokens,     \* api_tokens: a record for each id in use
  request,    \* per request slot: the principal the handler works with
  login,      \* per login: the signed state and what the identity provider knows
  callback,   \* callbacks in progress: state of l, code of c, arrived at `came`
  clock,
  admitted    \* how many requests were admitted, for the bound

tokenVars == <<account, tokens, request, login, callback, clock, admitted>>

People == Users \cup {Bootstrap}
None == [at |-> "none"]
Never == 0                     \* expires_at is null

Live(t) == t.expires = Never \/ t.expires > clock
\* A request may take slot r.
Admits(r) ==
  /\ request[r] = None
  /\ admitted < MaxRequests
  /\ admitted' = admitted + 1

FreeIds == TokenIds \ DOMAIN tokens

\* CreateUserAPIToken: the row; "line" is history, the authority of every restricted
\* token this one descends from.
Insert(id, row) == tokens' = [i \in DOMAIN tokens \cup {id} |-> IF i = id THEN row ELSE tokens[i]]
Remove(ids) == tokens' = [i \in DOMAIN tokens \ ids |-> tokens[i]]

\* CreateSessionAPIToken: no scopes, no team, the reserved name.
SessionRow(u, ttl) ==
  [user |-> u, name |-> "session", scopes |-> {}, team |-> NoTeam,
   expires |-> clock + ttl, line |-> {}, login |-> None]

\* The principal LookupAPIToken and authenticate build from a row.
PrincipalOf(id) ==
  [user |-> tokens[id].user, scopes |-> tokens[id].scopes, team |-> tokens[id].team,
   expires |-> tokens[id].expires, line |-> tokens[id].line, id |-> id,
   admin |-> account[tokens[id].user] = "admin"]

\* EnsureBootstrapAdmin, at every start of the server: the recovery admin is an admin
\* again and the bootstrap token is replaced.
EnsureBootstrapAdmin ==
  \E id \in FreeIds :
     /\ account' = [account EXCEPT ![Bootstrap] = "admin"]
     /\ LET kept == {i \in DOMAIN tokens : tokens[i].name # "bootstrap"}
        IN tokens' = [i \in kept \cup {id} |->
             IF i = id THEN [user |-> Bootstrap, name |-> "bootstrap", scopes |-> {}, team |-> NoTeam,
                             expires |-> Never, line |-> {}, login |-> None]
                       ELSE tokens[i]]
     /\ request' = [r \in RequestIds |-> None]       \* requests die with the process
     /\ callback' = {}
     /\ UNCHANGED <<login, clock, admitted>>

\* UpsertOIDCUserWithPicture: the first person who is not the recovery admin becomes
\* an administrator.
UpsertOIDCUser(u) ==
  account' = IF account[u] # "absent" THEN account
             ELSE [account EXCEPT ![u] =
                     IF \A v \in Users : account[v] = "absent" THEN "admin" ELSE "user"]

----------------------------------------------------------------------------
(* Admission *)

\* LookupAPIToken, the select: a row that has expired is not found.
LookupAPIToken(r, id) ==
  /\ Admits(r)
  /\ Live(tokens[id])
  /\ request' = [request EXCEPT ![r] = [at |-> "roll", p |-> PrincipalOf(id)]]
  /\ UNCHANGED <<account, tokens, login, callback, clock>>

\* LookupAPIToken, the update: it rolls a session that is still there.
RollSession(r) ==
  /\ request[r].at = "roll"
  /\ LET id == request[r].p.id
     IN tokens' = IF id \in DOMAIN tokens /\ tokens[id].name = "session"
                  THEN [tokens EXCEPT ![id].expires = clock + SessionTTL] ELSE tokens
  /\ request' = [request EXCEPT ![r].at = "handler"]
  /\ UNCHANGED <<account, login, callback, clock, admitted>>

\* authenticate with an ID token instead of an API token: no row, full authority.
AuthenticateIDToken(r, u) ==
  /\ Admits(r)
  /\ UpsertOIDCUser(u)
  /\ request' = [request EXCEPT ![r] =
       [at |-> "handler", p |-> [user |-> u, scopes |-> {}, team |-> NoTeam,
                                 expires |-> Never, line |-> {}, id |-> "none",
                                 admin |-> account'[u] = "admin"]]]
  /\ UNCHANGED <<tokens, login, callback, clock>>

Ends(r) == request' = [request EXCEPT ![r] = None]

\* The requests of slot r whose handler may run, given the route's class.
Handles(r, class) == request[r].at = "handler" /\ tokenRouteAllows(request[r].p, class, NoTeam)

\* The caller is refused or only reads.
Leaves(r) ==
  /\ request[r].at = "handler"
  /\ Ends(r)
  /\ UNCHANGED <<account, tokens, login, callback, clock, admitted>>

----------------------------------------------------------------------------
(* Handlers *)

\* The expiry that is stored: what was asked for, or the default.
Resolved(ttl) == clock + IF ttl = Never THEN DefaultTTL ELSE ttl

\* A plausible slip: the cap compares what was asked for and forgets the default.
WithinParentIfAsked(p, ttl) == ttl = Never \/ Unrestricted(p) \/ p.expires = Never \/ Resolved(ttl) <= p.expires

\* A restricted caller whose token expires cannot create one that lasts longer.
WithinParent(p, ttl) == Unrestricted(p) \/ p.expires = Never \/ Resolved(ttl) <= p.expires

handleCreateMyAPIToken(r, id, scopes, team, ttl) ==
  LET p == request[r].p
  IN /\ Handles(r, "tokens")
     /\ PrincipalCanManageAPIToken(p, scopes, team)
     /\ WithinParent(p, ttl)
     /\ Insert(id, [user |-> p.user, name |-> "api", scopes |-> scopes, team |-> team,
                    expires |-> Resolved(ttl), login |-> None,
                    line |-> p.line \cup IF Unrestricted(p) THEN {}
                                         ELSE {[scopes |-> p.scopes, team |-> p.team, expires |-> p.expires]}])
     /\ Ends(r)
     /\ UNCHANGED <<account, login, callback, clock, admitted>>

\* ListUserAPITokens sweeps the caller's expired sessions.
Swept(u) == {i \in DOMAIN tokens : tokens[i].user = u /\ tokens[i].name = "session" /\ ~Live(tokens[i])}

handleListMyAPITokens(r) ==
  /\ Handles(r, "read")
  /\ Remove(Swept(request[r].p.user))
  /\ Ends(r)
  /\ UNCHANGED <<account, login, callback, clock, admitted>>

handleRevokeMyAPIToken(r, id) ==
  LET p == request[r].p
  IN /\ Handles(r, "tokens")
     /\ id \in DOMAIN tokens \ Swept(p.user)
     /\ tokens[id].user = p.user
     /\ PrincipalCanManageAPIToken(p, tokens[id].scopes, tokens[id].team)
     /\ Remove(Swept(p.user) \cup {id})
     /\ Ends(r)
     /\ UNCHANGED <<account, login, callback, clock, admitted>>

\* Sign-out deletes the row that authenticated the request.
handleLogout(r) ==
  /\ Handles(r, "read")
  /\ Remove({request[r].p.id})
  /\ Ends(r)
  /\ UNCHANGED <<account, login, callback, clock, admitted>>

\* A token of full authority is exchanged for a browser session.
handleCreateSessionFromToken(id, new) ==
  /\ Live(tokens[id])
  /\ Unrestricted(tokens[id])
  /\ Insert(new, SessionRow(tokens[id].user, SessionTTL))
  /\ UNCHANGED <<account, request, login, callback, clock, admitted>>

\* RequireAdmin looks at the user row of the lookup and at the token.
SetUserAdmin(r, u, admin) ==
  /\ Handles(r, "admin")
  /\ request[r].p.admin
  /\ account[u] # "absent"
  /\ account' = [account EXCEPT ![u] = IF admin THEN "admin" ELSE "user"]
  /\ Ends(r)
  /\ UNCHANGED <<tokens, login, callback, clock, admitted>>

----------------------------------------------------------------------------
(* OpenID Connect *)

\* handleStartOIDCLogin: nonce, PKCE verifier and expiry go into the signed state.
handleStartOIDCLogin(l) ==
  /\ login[l] = None
  /\ login' = [login EXCEPT ![l] = [at |-> "started", until |-> clock + StateTTL]]
  /\ UNCHANGED <<account, tokens, request, callback, clock, admitted>>

\* The identity provider (external): a person signs in and the browser gets a code
\* that is bound to the nonce and the challenge of this login and works once.
SignIn(l, u) ==
  /\ login[l].at = "started"
  /\ login' = [login EXCEPT ![l] = [at |-> "code", until |-> login[l].until, user |-> u]]
  /\ UNCHANGED <<account, tokens, request, callback, clock, admitted>>

\* parseOIDCLoginState: the signature holds for states this server made; it expires.
parseOIDCLoginState(l) == login[l] # None /\ clock <= login[l].until

\* handleOIDCLoginCallback: state of login l, code of login c (a browser can have
\* several logins open, and call back again).  The age of the state is looked at once,
\* on arrival; everything after it takes its time.
handleOIDCLoginCallback(l, c) ==
  /\ login[c] # None /\ login[c].at \in {"code", "used"}
  /\ parseOIDCLoginState(l)
  /\ callback' = callback \cup {[at |-> "exchange", l |-> l, c |-> c, came |-> clock]}
  /\ UNCHANGED <<account, tokens, request, login, clock, admitted>>

Proceeds(b, stage) == callback' = (callback \ {b}) \cup {[b EXCEPT !.at = stage]}

\* A plausible slip: neither the nonce nor the verifier is compared.
ExchangeAnyCode(l, c) == login[c].at = "code"

\* The code of login c is redeemed with the verifier of login l, and the ID token has
\* to carry the nonce of l.
ExchangeOK(l, c) == login[c].at = "code" /\ l = c

\* OIDCExchangeCode, over the network: the code works once.
OIDCExchangeCode(b) ==
  /\ b.at = "exchange" /\ ExchangeOK(b.l, b.c)
  /\ login' = [login EXCEPT ![b.c].at = "used"]
  /\ Proceeds(b, "upsert")
  /\ UNCHANGED <<account, tokens, request, clock, admitted>>

UpsertClaimedUser(b) ==
  /\ b.at = "upsert"
  /\ UpsertOIDCUser(login[b.c].user)
  /\ Proceeds(b, "session")
  /\ UNCHANGED <<tokens, request, login, clock, admitted>>

CreateSessionAPIToken(b, id) ==
  /\ b.at = "session"
  /\ Insert(id, [SessionRow(login[b.c].user, LoginTTL) EXCEPT !.login = [at |-> b.l, came |-> b.came]])
  /\ callback' = callback \ {b}
  /\ UNCHANGED <<account, request, login, clock, admitted>>

\* Any of these steps fails and the browser is sent back with an error; an exchange
\* whose answer is lost may have used up the code.
redirectOIDCLoginFailure(b) ==
  /\ callback' = callback \ {b}
  /\ \/ UNCHANGED login
     \/ /\ b.at = "exchange" /\ login[b.c].at = "code"
        /\ login' = [login EXCEPT ![b.c].at = "used"]
  /\ UNCHANGED <<account, tokens, request, clock, admitted>>

CallbackStep(b) ==
  \/ OIDCExchangeCode(b) \/ UpsertClaimedUser(b) \/ redirectOIDCLoginFailure(b)
  \/ \E id \in FreeIds : CreateSessionAPIToken(b, id)

TickTokens ==
  /\ clock < MaxClock
  /\ clock' = clock + 1
  /\ UNCHANGED <<account, tokens, request, login, callback, admitted>>

----------------------------------------------------------------------------
TokensInit ==
  /\ account = [u \in People |-> "absent"]
  /\ tokens = <<>>
  /\ request = [r \in RequestIds |-> None]
  /\ login = [l \in LoginIds |-> None]
  /\ callback = {}
  /\ clock = 1
  /\ admitted = 0

Caller(r) ==
  \/ \E id \in DOMAIN tokens : LookupAPIToken(r, id)
  \/ RollSession(r)
  \/ \E u \in Users : AuthenticateIDToken(r, u)
  \/ Leaves(r)
  \/ \E id \in FreeIds, s \in Grants, t \in Teams \cup {NoTeam}, ttl \in Expiries \cup {Never} :
        handleCreateMyAPIToken(r, id, s, t, ttl)
  \/ handleListMyAPITokens(r)
  \/ \E id \in DOMAIN tokens : handleRevokeMyAPIToken(r, id)
  \/ handleLogout(r)
  \/ \E u \in People, b \in BOOLEAN : SetUserAdmin(r, u, b)

TokensNext ==
  \/ EnsureBootstrapAdmin
  \/ \E r \in RequestIds : Caller(r)
  \/ \E id \in DOMAIN tokens, new \in FreeIds : handleCreateSessionFromToken(id, new)
  \/ \E l \in LoginIds : handleStartOIDCLogin(l)
  \/ \E l \in LoginIds, u \in Users : SignIn(l, u)
  \/ \E l, c \in LoginIds : handleOIDCLoginCallback(l, c)
  \/ \E b \in callback : CallbackStep(b)
  \/ TickTokens

\* A token that was created with a restricted token can do no more than that token
\* and does not outlast it, through any number of generations, however its ancestors
\* are used, revoked or left to expire in between (handleCreateMyAPIToken,
\* PrincipalCanManageAPIToken).
DelegationNarrows ==
  \A id \in DOMAIN tokens : \A a \in tokens[id].line :
     /\ Power(tokens[id], Teams) \subseteq Power(a, Teams)
     /\ a.expires # Never => tokens[id].expires \in 1..a.expires

\* A session that an OIDC login created belongs to the person who signed in for that
\* very login and is the only one of its login, and the callback that brought it arrived
\* while the signed state was valid - the session itself may come later, after an
\* exchange of any length -, whatever callbacks are repeated, crossed, late or given up
\* halfway (handleOIDCLoginCallback, OIDCExchangeCode).
LoginsHold ==
  \A id \in DOMAIN tokens : tokens[id].login # None =>
     LET l == tokens[id].login.at
     IN /\ login[l].at = "used" /\ tokens[id].user = login[l].user
        /\ tokens[id].login.came <= login[l].until
        /\ \A other \in DOMAIN tokens \ {id} : tokens[other].login # None => tokens[other].login.at # l

TokensSpec == TokensInit /\ [][TokensNext]_tokenVars
==============================================================================
