---------------------------- MODULE AccessProofs ----------------------------
(***************************************************************************)
(* Tokens, logins, teams and the audited transaction each request runs in, *)
(* for any number of people, tokens, logins, teams, accounts, posts,       *)
(* callers and steps: delegation narrows, a session of a login is its      *)
(* owner's and unique, a post shares the team of its accounts, a bound     *)
(* token changes its own team only, and an audited request is atomic.      *)
(***************************************************************************)
EXTENDS AccessTokens, TeamAccess, Transactions, TLAPS

\* A row or a principal is within each of its ancestors, and they are restricted.
Within(t) ==
  /\ t.expires \in Nat
  /\ \A a \in t.line :
       /\ a.expires \in Nat /\ ~Unrestricted(a)
       /\ Power(t, Teams) \subseteq Power(a, Teams)
       /\ a.expires # Never => t.expires \in 1..a.expires

\* A row has the columns of api_tokens and its history. Sessions, the only rows whose
\* expiry is ever moved, have no ancestors.
Columns(t) ==
  t \in [user : {t.user}, name : {t.name}, scopes : {t.scopes}, team : {t.team},
         expires : {t.expires}, line : {t.line}, login : {t.login}]
Sound(t) == Columns(t) /\ Within(t) /\ (t.name = "session" => t.line = {})

RowsWithin == \A id \in DOMAIN tokens : Sound(tokens[id])

\* A request works with the authority its token had when it was looked up.
RequestsWithin ==
  /\ request = [r \in RequestIds |-> request[r]]
  /\ \A r \in RequestIds : request[r].at \in {"roll", "handler"} =>
       /\ request[r] \in [at : {"roll", "handler"}, p : {request[r].p}]
       /\ Within(request[r].p)

TokenInv == clock \in Nat \ {0} /\ RowsWithin /\ RequestsWithin

-----------------------------------------------------------------------------
\* Scopes compose: what a granted scope includes is included by what includes it.
LEMMA IncludesTransitive ==
  ASSUME NEW s, NEW g, NEW h, s \in Includes(g), g \in Includes(h)
  PROVE  s \in Includes(h)
<1>1. CASE h = "write"
  BY <1>1 DEF Includes
<1>2. CASE h = "delete"
  BY <1>2 DEF Includes
<1>3. CASE h \notin {"write", "delete"}
  BY <1>3 DEF Includes
<1> QED BY <1>1, <1>2, <1>3

\* What a restricted caller may create (PrincipalCanManageAPIToken) can do no more than
\* the caller.
LEMMA ManagedIsWeaker ==
  ASSUME NEW p, NEW new, ~Unrestricted(p),
         PrincipalCanManageAPIToken(p, new.scopes, new.team)
  PROVE  Power(new, Teams) \subseteq Power(p, Teams) /\ ~Unrestricted(new)
<1>1. /\ p.team = new.team
      /\ p.scopes # {} => /\ new.scopes # {}
                          /\ \A s \in new.scopes : ScopeSatisfied(p.scopes, s)
  BY DEF PrincipalCanManageAPIToken
<1>2. ~Unrestricted(new)
  BY <1>1 DEF Unrestricted
<1>3. ASSUME NEW s, PrincipalAllows(new, s) PROVE PrincipalAllows(p, s)
  <2>1. CASE p.scopes = {}
    BY <2>1 DEF PrincipalAllows
  <2>2. CASE p.scopes # {}
    <3>1. PICK g \in new.scopes : s \in Includes(g)
      BY <1>1, <1>3, <2>2 DEF PrincipalAllows, ScopeSatisfied
    <3>2. PICK h \in p.scopes : g \in Includes(h)
      BY <1>1, <2>2 DEF ScopeSatisfied
    <3> QED BY <3>1, <3>2, IncludesTransitive DEF PrincipalAllows, ScopeSatisfied
  <2> QED BY <2>1, <2>2
<1> QED BY <1>1, <1>2, <1>3 DEF Power

\* A caller that is unrestricted has no ancestors: an ancestor would be unrestricted too.
LEMMA UnrestrictedHasNoLine ==
  ASSUME NEW p, Within(p), Unrestricted(p)
  PROVE  p.line = {}
<1> SUFFICES ASSUME NEW a \in p.line PROVE FALSE
  OBVIOUS
<1>1. <<"admin", NoTeam>> \in Power(p, Teams)
  BY DEF Power
<1>2. <<"admin", NoTeam>> \notin Power(a, Teams)
  BY DEF Within, Power, AllScopes
<1> QED BY <1>1, <1>2 DEF Within

\* The row that handleCreateMyAPIToken inserts.
LEMMA CreatedWithin ==
  ASSUME TokenInv, NEW p, Within(p), NEW ttl \in Expiries \cup {Never}, NEW row,
         PrincipalCanManageAPIToken(p, row.scopes, row.team), WithinParent(p, ttl),
         row.expires = Resolved(ttl),
         row.line = p.line \cup IF Unrestricted(p) THEN {}
                                ELSE {[scopes |-> p.scopes, team |-> p.team, expires |-> p.expires]}
  PROVE  Within(row)
<1>1. row.expires \in Nat \ {0}
  <2>1. clock \in Nat
    BY DEF TokenInv
  <2>2. DefaultTTL \in Nat \ {0} /\ (ttl # 0 => ttl \in Nat \ {0})
    BY TokenAssumption DEF Never
  <2> QED BY <2>1, <2>2 DEF Resolved, Never
<1>2. CASE Unrestricted(p)
  BY <1>1, <1>2, UnrestrictedHasNoLine DEF Within
<1>3. CASE ~Unrestricted(p)
  <2> DEFINE self == [scopes |-> p.scopes, team |-> p.team, expires |-> p.expires]
  <2>1. Power(row, Teams) \subseteq Power(p, Teams)
    BY <1>3, ManagedIsWeaker
  <2>2. p.expires \in Nat /\ (p.expires # Never => row.expires \in 1..p.expires)
    BY <1>1, <1>3 DEF WithinParent, Within, Never
  <2>3. Power(self, Teams) = Power(p, Teams) /\ ~Unrestricted(self)
    BY <1>3 DEF Power, Unrestricted, PrincipalAllows
  <2>4. ASSUME NEW a \in p.line
        PROVE  /\ a.expires \in Nat /\ ~Unrestricted(a)
               /\ Power(row, Teams) \subseteq Power(a, Teams)
               /\ a.expires # Never => row.expires \in 1..a.expires
    <3>1. /\ a.expires \in Nat /\ ~Unrestricted(a) /\ Power(p, Teams) \subseteq Power(a, Teams)
          /\ a.expires # Never => p.expires \in 1..a.expires
      BY DEF Within
    <3>2. a.expires # Never => row.expires \in 1..a.expires
      BY <1>1, <2>2, <3>1 DEF Never
    <3> QED BY <2>1, <3>1, <3>2
  <2>5. row.line = p.line \cup {self}
    BY <1>3
  <2> QED BY <1>1, <2>1, <2>2, <2>3, <2>4, <2>5 DEF Within
<1> QED BY <1>2, <1>3

-----------------------------------------------------------------------------
\* Rows are added, removed and left alone (Insert, Remove).
LEMMA InsertKeeps ==
  ASSUME RowsWithin, NEW id, NEW row, Sound(row), Insert(id, row)
  PROVE  RowsWithin'
<1>1. \A i \in DOMAIN tokens' : tokens'[i] = row \/ (i \in DOMAIN tokens /\ tokens'[i] = tokens[i])
  BY DEF Insert
<1> QED BY <1>1 DEF RowsWithin, Sound, Columns, Within

LEMMA RemoveKeeps ==
  ASSUME RowsWithin, NEW ids, Remove(ids)
  PROVE  RowsWithin'
<1>1. \A i \in DOMAIN tokens' : i \in DOMAIN tokens /\ tokens'[i] = tokens[i]
  BY DEF Remove
<1> QED BY <1>1 DEF RowsWithin, Sound, Columns, Within

\* A session row has no ancestors and an expiry.
LEMMA SessionSound ==
  ASSUME TokenInv, NEW u, NEW ttl \in Nat
  PROVE  Sound(SessionRow(u, ttl))
BY DEF SessionRow, Sound, Columns, Within, TokenInv

\* The login a row remembers has no authority.
LEMMA LoginMarked ==
  ASSUME NEW t, Sound(t), NEW m
  PROVE  Sound([t EXCEPT !.login = m])
<1>1. [t EXCEPT !.login = m] = [user |-> t.user, name |-> t.name, scopes |-> t.scopes, team |-> t.team,
                                expires |-> t.expires, line |-> t.line, login |-> m]
  BY DEF Sound, Columns
<1>2. Power([t EXCEPT !.login = m], Teams) = Power(t, Teams)
  BY <1>1 DEF Power, PrincipalAllows, Unrestricted
<1> QED BY <1>1, <1>2 DEF Sound, Columns, Within

\* The slot of a request is emptied (Ends).
LEMMA EndsKeeps ==
  ASSUME RequestsWithin, NEW r \in RequestIds, Ends(r)
  PROVE  RequestsWithin'
BY DEF RequestsWithin, Ends, None

LEMMA TokenInvInit == TokensInit => TokenInv
BY DEF TokensInit, TokenInv, RowsWithin, RequestsWithin, None

\* A request is admitted with the authority of a row, or with a full one, and a session
\* is rolled.
LEMMA AdmissionKeeps ==
  ASSUME TokenInv, NEW r \in RequestIds,
         \/ \E id \in DOMAIN tokens : LookupAPIToken(r, id)
         \/ RollSession(r)
         \/ \E u \in Users : AuthenticateIDToken(r, u)
  PROVE  TokenInv'
<1> USE DEF TokenInv
<1>1. CASE \E id \in DOMAIN tokens : LookupAPIToken(r, id)
  <2> PICK id \in DOMAIN tokens : LookupAPIToken(r, id)
    BY <1>1
  <2>1. Within(PrincipalOf(id))
    BY DEF RowsWithin, Sound, Within, PrincipalOf, Power, PrincipalAllows, Unrestricted
  <2>2. request' = [request EXCEPT ![r] = [at |-> "roll", p |-> PrincipalOf(id)]]
    BY DEF LookupAPIToken
  <2>3. RequestsWithin'
    BY <2>1, <2>2 DEF RequestsWithin
  <2> QED BY <2>3 DEF LookupAPIToken, RowsWithin
<1>2. CASE RollSession(r)
  <2>1. RowsWithin'
    <3> DEFINE id == request[r].p.id
    <3>1. CASE id \in DOMAIN tokens /\ tokens[id].name = "session"
      <4>1. tokens' = [tokens EXCEPT ![id].expires = clock + SessionTTL]
        BY <1>2, <3>1 DEF RollSession
      <4>2. \A i \in DOMAIN tokens : i # id => tokens'[i] = tokens[i]
        BY <4>1
      <4>3. /\ tokens'[id].line = {} /\ tokens'[id].name = "session"
            /\ tokens'[id].expires = clock + SessionTTL /\ Columns(tokens'[id])
        BY <3>1, <4>1 DEF RowsWithin, Sound, Columns
      <4>4. Sound(tokens'[id])
        BY <4>3, TokenAssumption DEF Sound, Within
      <4> QED BY <4>1, <4>2, <4>4 DEF RowsWithin, Sound, Columns, Within
    <3>2. CASE ~(id \in DOMAIN tokens /\ tokens[id].name = "session")
      BY <1>2, <3>2 DEF RollSession, RowsWithin
    <3> QED BY <3>1, <3>2
  <2>2. request' = [request EXCEPT ![r].at = "handler"] /\ request[r].at = "roll"
    BY <1>2 DEF RollSession
  <2>3. request'[r].p = request[r].p /\ \A q \in RequestIds \ {r} : request'[q] = request[q]
    BY <2>2 DEF RequestsWithin
  <2>4. RequestsWithin'
    BY <2>2, <2>3 DEF RequestsWithin
  <2> QED BY <1>2, <2>1, <2>4 DEF RollSession
<1>3. CASE \E u \in Users : AuthenticateIDToken(r, u)
  <2> PICK u \in Users : AuthenticateIDToken(r, u)
    BY <1>3
  <2> DEFINE p == [user |-> u, scopes |-> {}, team |-> NoTeam, expires |-> Never, line |-> {},
                   id |-> "none", admin |-> account'[u] = "admin"]
  <2>1. request' = [request EXCEPT ![r] = [at |-> "handler", p |-> p]]
    BY DEF AuthenticateIDToken
  <2>2. Within(p)
    BY DEF Within, Never
  <2>3. RequestsWithin'
    BY <2>1, <2>2 DEF RequestsWithin
  <2> QED BY <2>3 DEF AuthenticateIDToken, RowsWithin
<1> QED BY <1>1, <1>2, <1>3

\* The handlers a request may run.
LEMMA HandlerKeeps ==
  ASSUME TokenInv, NEW r \in RequestIds,
         \/ Leaves(r)
         \/ \E id \in FreeIds, s \in Grants, t \in Teams \cup {NoTeam}, ttl \in Expiries \cup {Never} :
               handleCreateMyAPIToken(r, id, s, t, ttl)
         \/ handleListMyAPITokens(r)
         \/ \E id \in DOMAIN tokens : handleRevokeMyAPIToken(r, id)
         \/ handleLogout(r)
         \/ \E u \in People, b \in BOOLEAN : SetUserAdmin(r, u, b)
  PROVE  TokenInv'
<1> USE DEF TokenInv
<1>1. CASE \E id \in FreeIds, s \in Grants, t \in Teams \cup {NoTeam}, ttl \in Expiries \cup {Never} :
               handleCreateMyAPIToken(r, id, s, t, ttl)
  <2> PICK id \in FreeIds, s \in Grants, t \in Teams \cup {NoTeam}, ttl \in Expiries \cup {Never} :
             handleCreateMyAPIToken(r, id, s, t, ttl)
    BY <1>1
  <2> DEFINE p == request[r].p
             row == [user |-> p.user, name |-> "api", scopes |-> s, team |-> t,
                     expires |-> Resolved(ttl), login |-> None,
                     line |-> p.line \cup IF Unrestricted(p) THEN {}
                                ELSE {[scopes |-> p.scopes, team |-> p.team, expires |-> p.expires]}]
  <2>1. /\ request[r].at = "handler" /\ PrincipalCanManageAPIToken(p, s, t) /\ WithinParent(p, ttl)
        /\ Insert(id, row) /\ Ends(r) /\ UNCHANGED clock
    BY DEF handleCreateMyAPIToken, Handles
  <2>2. Within(p)
    BY <2>1 DEF RequestsWithin
  <2>3. Sound(row)
    BY <2>1, <2>2, CreatedWithin DEF Sound, Columns
  <2> QED BY <2>1, <2>3, InsertKeeps, EndsKeeps
<1>2. CASE \/ handleListMyAPITokens(r) \/ handleLogout(r)
           \/ \E id \in DOMAIN tokens : handleRevokeMyAPIToken(r, id)
  <2>1. (\E ids : Remove(ids)) /\ Ends(r) /\ UNCHANGED clock
    BY <1>2 DEF handleListMyAPITokens, handleLogout, handleRevokeMyAPIToken
  <2> QED BY <2>1, RemoveKeeps, EndsKeeps
<1>3. CASE Leaves(r) \/ \E u \in People, b \in BOOLEAN : SetUserAdmin(r, u, b)
  <2>1. Ends(r) /\ UNCHANGED <<tokens, clock>>
    BY <1>3 DEF Leaves, SetUserAdmin
  <2> QED BY <2>1, EndsKeeps DEF RowsWithin
<1> QED BY <1>1, <1>2, <1>3

\* Sessions from a token or a login, and a start of the server.
LEMMA SessionsKeep ==
  ASSUME TokenInv,
         \/ EnsureBootstrapAdmin
         \/ \E id \in DOMAIN tokens, new \in FreeIds : handleCreateSessionFromToken(id, new)
         \/ \E b \in callback, id \in FreeIds : CreateSessionAPIToken(b, id)
  PROVE  TokenInv'
<1> USE DEF TokenInv
<1>1. CASE EnsureBootstrapAdmin
  <2>1. \A id \in DOMAIN tokens' : \/ (id \in DOMAIN tokens /\ tokens'[id] = tokens[id])
                                   \/ Sound(tokens'[id])
    BY <1>1 DEF EnsureBootstrapAdmin, Sound, Columns, Within, Never
  <2>2. RowsWithin'
    BY <2>1 DEF RowsWithin, Sound, Columns, Within
  <2>3. RequestsWithin'
    BY <1>1 DEF EnsureBootstrapAdmin, RequestsWithin, None
  <2> QED BY <1>1, <2>2, <2>3 DEF EnsureBootstrapAdmin
<1>2. CASE \E id \in DOMAIN tokens, new \in FreeIds : handleCreateSessionFromToken(id, new)
  <2> PICK id \in DOMAIN tokens, new \in FreeIds : handleCreateSessionFromToken(id, new)
    BY <1>2
  <2>1. Insert(new, SessionRow(tokens[id].user, SessionTTL)) /\ UNCHANGED <<request, clock>>
    BY DEF handleCreateSessionFromToken
  <2> QED BY <2>1, SessionSound, InsertKeeps, TokenAssumption DEF RequestsWithin
<1>3. CASE \E b \in callback, id \in FreeIds : CreateSessionAPIToken(b, id)
  <2> PICK b \in callback, id \in FreeIds : CreateSessionAPIToken(b, id)
    BY <1>3
  <2> DEFINE row == [SessionRow(login[b.c].user, LoginTTL) EXCEPT !.login = [at |-> b.l, came |-> b.came]]
  <2>1. Insert(id, row) /\ UNCHANGED <<request, clock>>
    BY DEF CreateSessionAPIToken
  <2>2. Sound(SessionRow(login[b.c].user, LoginTTL))
    BY SessionSound, TokenAssumption
  <2>3. Sound(row)
    BY <2>2, LoginMarked
  <2> QED BY <2>1, <2>3, InsertKeeps DEF RequestsWithin
<1> QED BY <1>1, <1>2, <1>3

LEMMA TokenInvStep == TokenInv /\ [TokensNext]_tokenVars => TokenInv'
<1> SUFFICES ASSUME TokenInv, [TokensNext]_tokenVars PROVE TokenInv'
  OBVIOUS
<1>1. CASE \E r \in RequestIds : Caller(r)
  BY <1>1, AdmissionKeeps, HandlerKeeps DEF Caller
<1>2. CASE \/ EnsureBootstrapAdmin
           \/ \E id \in DOMAIN tokens, new \in FreeIds : handleCreateSessionFromToken(id, new)
           \/ \E b \in callback, id \in FreeIds : CreateSessionAPIToken(b, id)
  BY <1>2, SessionsKeep
<1>3. CASE \/ \E l \in LoginIds : handleStartOIDCLogin(l)
           \/ \E l \in LoginIds, u \in Users : SignIn(l, u)
           \/ \E l, c \in LoginIds : handleOIDCLoginCallback(l, c)
           \/ \E b \in callback : OIDCExchangeCode(b) \/ UpsertClaimedUser(b) \/ redirectOIDCLoginFailure(b)
           \/ TickTokens \/ UNCHANGED tokenVars
  <2>1. UNCHANGED <<tokens, request>> /\ (UNCHANGED clock \/ clock' = clock + 1)
    BY <1>3 DEF handleStartOIDCLogin, SignIn, handleOIDCLoginCallback, OIDCExchangeCode,
       UpsertClaimedUser, redirectOIDCLoginFailure, TickTokens, tokenVars
  <2> QED BY <2>1 DEF TokenInv, RowsWithin, RequestsWithin
<1> QED BY <1>1, <1>2, <1>3 DEF TokensNext, CallbackStep

-----------------------------------------------------------------------------
\* A token created with a restricted token never exceeds it, in scopes, team and time,
\* over any number of generations (handleCreateMyAPIToken, PrincipalCanManageAPIToken).
THEOREM DelegationHolds == TokensSpec => []DelegationNarrows
<1>1. TokenInv => DelegationNarrows
  BY DEF TokenInv, RowsWithin, Sound, Within, DelegationNarrows
<1> QED BY <1>1, TokenInvInit, TokenInvStep, PTL DEF TokensSpec

-----------------------------------------------------------------------------
(* Logins. *)

\* The states of a login, the callbacks in progress, and the mark a session keeps of its login.
LoginsTyped ==
  /\ login \in [LoginIds -> {None} \cup [at : {"started"}, until : Nat]
                              \cup [at : {"code", "used"}, until : Nat, user : Users]]
  /\ callback \subseteq [at : {"exchange", "upsert", "session"}, l : LoginIds, c : LoginIds, came : Nat]
  /\ \A id \in DOMAIN tokens : tokens[id].login \in {None} \cup [at : LoginIds, came : Nat]

\* A callback arrived in time; one past the exchange has redeemed the code of its own
\* login and is the only one to have done so, before there is a session.
Redeemed(b) == b.at # "exchange"
CallbacksHold ==
  \A b \in callback :
     /\ login[b.l] # None /\ b.came <= login[b.l].until
     /\ Redeemed(b) =>
          /\ b.c = b.l /\ login[b.l].at = "used"
          /\ \A other \in callback \ {b} : Redeemed(other) => other.l # b.l
          /\ \A id \in DOMAIN tokens : tokens[id].login # None => tokens[id].login.at # b.l

LoginFacts == LoginsTyped /\ CallbacksHold /\ LoginsHold
LoginInv == TokenInv /\ LoginFacts

\* Rows that are left, or whose expiry is moved, keep their login; new ones without a
\* login bring none; callbacks may be dropped.
LEMMA LoginsKept ==
  ASSUME LoginInv, UNCHANGED login, callback' \subseteq callback,
         \A id \in DOMAIN tokens' :
            \/ tokens'[id].login = None
            \/ /\ id \in DOMAIN tokens
               /\ tokens'[id].login = tokens[id].login /\ tokens'[id].user = tokens[id].user
  PROVE  LoginFacts'
<1>1. LoginsTyped' /\ LoginsHold'
  BY DEF LoginInv, LoginFacts, LoginsTyped, LoginsHold
<1>2. CallbacksHold'
  BY DEF LoginInv, LoginFacts, CallbacksHold, Redeemed
<1> QED BY <1>1, <1>2 DEF LoginFacts

\* Insert without a login, and Remove.
LEMMA InsertKeepsLogins ==
  ASSUME LoginInv, UNCHANGED <<login, callback>>, NEW id, NEW row, row.login = None, Insert(id, row)
  PROVE  LoginFacts'
<1>1. \A i \in DOMAIN tokens' : tokens'[i] = row \/ (i \in DOMAIN tokens /\ tokens'[i] = tokens[i])
  BY DEF Insert
<1> QED BY <1>1, LoginsKept

LEMMA RemoveKeepsLogins ==
  ASSUME LoginInv, UNCHANGED <<login, callback>>, NEW ids, Remove(ids)
  PROVE  LoginFacts'
<1>1. \A i \in DOMAIN tokens' : i \in DOMAIN tokens /\ tokens'[i] = tokens[i]
  BY DEF Remove
<1> QED BY <1>1, LoginsKept

\* The requests of a caller never touch a login.
LEMMA CallerKeepsLogins ==
  ASSUME LoginInv, NEW r \in RequestIds, Caller(r)
  PROVE  LoginFacts'
<1>1. UNCHANGED <<login, callback>>
  BY DEF Caller, LookupAPIToken, RollSession, AuthenticateIDToken, Leaves, handleCreateMyAPIToken,
     handleListMyAPITokens, handleRevokeMyAPIToken, handleLogout, SetUserAdmin
<1>2. CASE RollSession(r)
  <2> DEFINE id == request[r].p.id
  <2>1. CASE id \in DOMAIN tokens /\ tokens[id].name = "session"
    <3>1. tokens' = [tokens EXCEPT ![id].expires = clock + SessionTTL]
      BY <1>2, <2>1 DEF RollSession
    <3>2. tokens'[id].login = tokens[id].login /\ tokens'[id].user = tokens[id].user
      BY <2>1, <3>1 DEF LoginInv, TokenInv, RowsWithin, Sound, Columns
    <3>3. \A i \in DOMAIN tokens' : i \in DOMAIN tokens /\ (i # id => tokens'[i] = tokens[i])
      BY <3>1
    <3> QED BY <1>1, <3>2, <3>3, LoginsKept
  <2>2. CASE ~(id \in DOMAIN tokens /\ tokens[id].name = "session")
    <3>1. UNCHANGED tokens
      BY <1>2, <2>2 DEF RollSession
    <3> QED BY <1>1, <3>1, LoginsKept
  <2> QED BY <2>1, <2>2
<1>3. CASE \E id \in FreeIds, s \in Grants, t \in Teams \cup {NoTeam}, ttl \in Expiries \cup {Never} :
             handleCreateMyAPIToken(r, id, s, t, ttl)
  <2> PICK id \in FreeIds, s \in Grants, t \in Teams \cup {NoTeam}, ttl \in Expiries \cup {Never} :
             handleCreateMyAPIToken(r, id, s, t, ttl)
    BY <1>3
  <2>1. PICK row : row.login = None /\ Insert(id, row)
    BY DEF handleCreateMyAPIToken
  <2> QED BY <1>1, <2>1, InsertKeepsLogins
<1>4. CASE \E ids : Remove(ids)
  BY <1>1, <1>4, RemoveKeepsLogins
<1>5. CASE UNCHANGED tokens
  BY <1>1, <1>5, LoginsKept
<1>6. \/ RollSession(r) \/ UNCHANGED tokens \/ \E ids : Remove(ids)
      \/ \E id \in FreeIds, s \in Grants, t \in Teams \cup {NoTeam}, ttl \in Expiries \cup {Never} :
            handleCreateMyAPIToken(r, id, s, t, ttl)
  BY DEF Caller, LookupAPIToken, AuthenticateIDToken, Leaves, handleListMyAPITokens,
     handleRevokeMyAPIToken, handleLogout, SetUserAdmin
<1> QED BY <1>2, <1>3, <1>4, <1>5, <1>6

\* What every step of a callback leaves of the logins: their deadlines and people.
LEMMA UsedUp ==
  ASSUME LoginInv, NEW l \in LoginIds, login[l].at = "code", login' = [login EXCEPT ![l].at = "used"]
  PROVE  /\ login' \in [LoginIds -> {None} \cup [at : {"started"}, until : Nat]
                              \cup [at : {"code", "used"}, until : Nat, user : Users]]
         /\ \A m \in LoginIds : /\ m # l => login'[m] = login[m]
                                /\ login[m] # None => login'[m] # None /\ login'[m].until = login[m].until
                                /\ login[m].at = "used" => login'[m] = login[m]
         /\ login'[l].at = "used"
<1>1. login[l] \in [at : {"code", "used"}, until : Nat, user : Users]
  BY DEF LoginInv, LoginFacts, LoginsTyped, None
<1>2. /\ login'[l] \in [at : {"code", "used"}, until : Nat, user : Users]
      /\ login'[l].until = login[l].until /\ login'[l].at = "used"
      /\ \A m \in LoginIds : m # l => login'[m] = login[m]
      /\ DOMAIN login' = LoginIds /\ login' = [m \in LoginIds |-> login'[m]]
  BY <1>1 DEF LoginInv, LoginFacts, LoginsTyped
<1>3. login'[l] # None
  BY <1>2 DEF None
<1> QED BY <1>2, <1>3 DEF LoginInv, LoginFacts, LoginsTyped

\* A callback arrives (handleOIDCLoginCallback).
LEMMA ArrivalKeepsLogins ==
  ASSUME LoginInv, NEW l \in LoginIds, NEW c \in LoginIds, handleOIDCLoginCallback(l, c)
  PROVE  LoginFacts'
<1> DEFINE new == [at |-> "exchange", l |-> l, c |-> c, came |-> clock]
<1>1. /\ login[l] # None /\ clock <= login[l].until /\ clock \in Nat
      /\ callback' = callback \cup {new} /\ UNCHANGED <<tokens, login>>
  BY DEF handleOIDCLoginCallback, parseOIDCLoginState, LoginInv, TokenInv
<1>2. /\ new \in [at : {"exchange", "upsert", "session"}, l : LoginIds, c : LoginIds, came : Nat]
      /\ ~Redeemed(new) /\ new.l = l /\ new.came = clock
  BY <1>1 DEF Redeemed
<1> HIDE DEF new
<1>3. LoginsTyped' /\ LoginsHold'
  BY <1>1, <1>2 DEF LoginInv, LoginFacts, LoginsTyped, LoginsHold
<1>4. CallbacksHold'
  <2>1. \A b \in callback' : b \in callback \/ b = new
    BY <1>1
  <2> QED BY <1>1, <1>2, <2>1 DEF LoginInv, LoginFacts, CallbacksHold, Redeemed
<1> QED BY <1>3, <1>4 DEF LoginFacts

\* The code works once, and only with the state of the login it was issued for.
LEMMA ExchangeKeepsLogins ==
  ASSUME LoginInv, NEW b \in callback, OIDCExchangeCode(b)
  PROVE  LoginFacts'
<1> DEFINE new == [b EXCEPT !.at = "upsert"]
<1>1. /\ b \in [at : {"exchange", "upsert", "session"}, l : LoginIds, c : LoginIds, came : Nat]
      /\ b.at = "exchange" /\ b.c = b.l /\ login[b.l].at = "code" /\ UNCHANGED tokens
      /\ callback' = (callback \ {b}) \cup {new} /\ login' = [login EXCEPT ![b.l].at = "used"]
  BY DEF OIDCExchangeCode, ExchangeOK, Proceeds, LoginInv, LoginFacts, LoginsTyped
<1>2. /\ new \in [at : {"exchange", "upsert", "session"}, l : LoginIds, c : LoginIds, came : Nat]
      /\ new.l = b.l /\ new.c = b.l /\ new.came = b.came
  BY <1>1
<1>3. login[b.l] # None /\ b.came <= login[b.l].until
  BY DEF LoginInv, LoginFacts, CallbacksHold
<1> DEFINE l == b.l
<1>4. /\ login' \in [LoginIds -> {None} \cup [at : {"started"}, until : Nat]
                              \cup [at : {"code", "used"}, until : Nat, user : Users]]
      /\ \A m \in LoginIds : /\ m # l => login'[m] = login[m]
                             /\ login[m] # None => login'[m] # None /\ login'[m].until = login[m].until
                             /\ login[m].at = "used" => login'[m] = login[m]
      /\ login'[l].at = "used" /\ l \in LoginIds
  BY <1>1, UsedUp
<1>5. (\A id \in DOMAIN tokens : tokens[id].login # None => tokens[id].login.at # l)
      /\ \A other \in callback : Redeemed(other) => other.l # l
  BY <1>1 DEF LoginInv, LoginFacts, LoginsHold, CallbacksHold
<1> HIDE DEF new
<1>6. LoginsTyped' /\ LoginsHold'
  <2>1. LoginsTyped'
    BY <1>1, <1>2, <1>4 DEF LoginInv, LoginFacts, LoginsTyped
  <2>2. LoginsHold'
    BY <1>1, <1>4 DEF LoginInv, LoginFacts, LoginsTyped, LoginsHold
  <2> QED BY <2>1, <2>2
<1>7. CallbacksHold'
  <2> SUFFICES ASSUME NEW x \in callback'
               PROVE  /\ login'[x.l] # None /\ x.came <= login'[x.l].until
                      /\ Redeemed(x) =>
                          /\ x.c = x.l /\ login'[x.l].at = "used"
                          /\ \A other \in callback' \ {x} : Redeemed(other) => other.l # x.l
                          /\ \A id \in DOMAIN tokens' : tokens'[id].login # None => tokens'[id].login.at # x.l
    BY DEF CallbacksHold, Redeemed
  <2>1. CASE x = new
    BY <1>1, <1>2, <1>3, <1>4, <1>5, <2>1
  <2>2. CASE x # new
    <3>1. x \in callback /\ x.l \in LoginIds
      BY <1>1, <2>2 DEF LoginInv, LoginFacts, LoginsTyped
    <3>2. /\ login[x.l] # None /\ x.came <= login[x.l].until
          /\ Redeemed(x) =>
               /\ x.c = x.l /\ login[x.l].at = "used"
               /\ \A other \in callback \ {x} : Redeemed(other) => other.l # x.l
               /\ \A id \in DOMAIN tokens : tokens[id].login # None => tokens[id].login.at # x.l
      BY <3>1 DEF LoginInv, LoginFacts, CallbacksHold
    <3>3. Redeemed(x) => \A other \in callback' \ {x} : Redeemed(other) => other.l # x.l
      BY <1>1, <1>2, <1>5, <3>1, <3>2
    <3> QED BY <1>1, <1>4, <3>1, <3>2, <3>3
  <2> QED BY <2>1, <2>2
<1> QED BY <1>6, <1>7 DEF LoginFacts

\* The person is stored (UpsertOIDCUserWithPicture).
LEMMA UpsertKeepsLogins ==
  ASSUME LoginInv, NEW b \in callback, UpsertClaimedUser(b)
  PROVE  LoginFacts'
<1> DEFINE new == [b EXCEPT !.at = "session"]
<1>1. /\ b \in [at : {"exchange", "upsert", "session"}, l : LoginIds, c : LoginIds, came : Nat]
      /\ b.at = "upsert" /\ UNCHANGED <<tokens, login>> /\ callback' = (callback \ {b}) \cup {new}
  BY DEF UpsertClaimedUser, Proceeds, LoginInv, LoginFacts, LoginsTyped
<1>2. /\ new \in [at : {"exchange", "upsert", "session"}, l : LoginIds, c : LoginIds, came : Nat]
      /\ new.l = b.l /\ new.c = b.c /\ new.came = b.came /\ Redeemed(b)
  BY <1>1 DEF Redeemed
<1> HIDE DEF new
<1>3. LoginsTyped' /\ LoginsHold'
  BY <1>1, <1>2 DEF LoginInv, LoginFacts, LoginsTyped, LoginsHold
<1>4. CallbacksHold'
  <2>1. \A x \in callback' : x = new \/ (x \in callback /\ x # b)
    BY <1>1
  <2> QED BY <1>1, <1>2, <2>1 DEF LoginInv, LoginFacts, CallbacksHold, Redeemed
<1> QED BY <1>3, <1>4 DEF LoginFacts

\* The session is the only one of its login (CreateSessionAPIToken).
LEMMA SessionKeepsLogins ==
  ASSUME LoginInv, NEW b \in callback, NEW id \in FreeIds, CreateSessionAPIToken(b, id)
  PROVE  LoginFacts'
<1> DEFINE mark == [at |-> b.l, came |-> b.came]
           row == [SessionRow(login[b.c].user, LoginTTL) EXCEPT !.login = mark]
<1>1. /\ b \in [at : {"exchange", "upsert", "session"}, l : LoginIds, c : LoginIds, came : Nat]
      /\ Redeemed(b) /\ Insert(id, row) /\ callback' = callback \ {b} /\ UNCHANGED login
  BY DEF CreateSessionAPIToken, Redeemed, LoginInv, LoginFacts, LoginsTyped
<1>2. /\ b.came <= login[b.l].until /\ b.c = b.l /\ login[b.l].at = "used"
      /\ \A other \in callback \ {b} : Redeemed(other) => other.l # b.l
      /\ \A i \in DOMAIN tokens : tokens[i].login # None => tokens[i].login.at # b.l
  BY <1>1 DEF LoginInv, LoginFacts, CallbacksHold
<1>3. row.login = mark /\ row.user = login[b.l].user /\ mark \in [at : LoginIds, came : Nat]
  BY <1>1, <1>2 DEF SessionRow
<1>4. /\ id \notin DOMAIN tokens /\ DOMAIN tokens' = DOMAIN tokens \cup {id} /\ tokens'[id] = row
      /\ \A i \in DOMAIN tokens : tokens'[i] = tokens[i]
  BY <1>1 DEF Insert, FreeIds
<1>5. mark.at = b.l /\ mark.came = b.came
  OBVIOUS
<1> HIDE DEF row, mark
<1>6. LoginsTyped'
  BY <1>1, <1>3, <1>4 DEF LoginInv, LoginFacts, LoginsTyped
<1>7. LoginsHold'
  BY <1>1, <1>2, <1>3, <1>4, <1>5 DEF LoginInv, LoginFacts, LoginsHold
<1>8. CallbacksHold'
  <2>1. \A x \in callback' : x \in callback /\ x # b
    BY <1>1
  <2> QED BY <1>1, <1>2, <1>3, <1>4, <1>5, <2>1 DEF LoginInv, LoginFacts, CallbacksHold
<1> QED BY <1>6, <1>7, <1>8 DEF LoginFacts

\* A callback that is given up may have used up the code (redirectOIDCLoginFailure).
LEMMA FailureKeepsLogins ==
  ASSUME LoginInv, NEW b \in callback, redirectOIDCLoginFailure(b)
  PROVE  LoginFacts'
<1>1. callback' = callback \ {b} /\ UNCHANGED tokens
  BY DEF redirectOIDCLoginFailure
<1>2. CASE UNCHANGED login
  BY <1>1, <1>2, LoginsKept
<1>3. CASE login[b.c].at = "code" /\ login' = [login EXCEPT ![b.c].at = "used"]
  <2> DEFINE l == b.c
  <2>1. l \in LoginIds
    BY DEF LoginInv, LoginFacts, LoginsTyped
  <2>2. /\ login' \in [LoginIds -> {None} \cup [at : {"started"}, until : Nat]
                              \cup [at : {"code", "used"}, until : Nat, user : Users]]
        /\ \A m \in LoginIds : /\ m # l => login'[m] = login[m]
                               /\ login[m] # None => login'[m] # None /\ login'[m].until = login[m].until
                               /\ login[m].at = "used" => login'[m] = login[m]
    BY <1>3, <2>1, UsedUp
  <2> HIDE DEF l
  <2>3. LoginsTyped'
    BY <1>1, <2>2 DEF LoginInv, LoginFacts, LoginsTyped
  <2>4. LoginsHold'
    BY <1>1, <2>2 DEF LoginInv, LoginFacts, LoginsTyped, LoginsHold
  <2>5. \A x \in callback' : x \in callback /\ x.l \in LoginIds
    BY <1>1 DEF LoginInv, LoginFacts, LoginsTyped
  <2>6. CallbacksHold'
    BY <1>1, <2>2, <2>5 DEF LoginInv, LoginFacts, CallbacksHold, Redeemed
  <2> QED BY <2>3, <2>4, <2>6 DEF LoginFacts
<1> QED BY <1>2, <1>3 DEF redirectOIDCLoginFailure

LEMMA LoginInvInit == TokensInit => LoginInv
<1> SUFFICES ASSUME TokensInit PROVE LoginInv
  OBVIOUS
<1>1. DOMAIN tokens = {}
  BY DEF TokensInit
<1> QED BY <1>1, TokenInvInit DEF TokensInit, LoginInv, LoginFacts, LoginsTyped, CallbacksHold, LoginsHold

LEMMA LoginInvStep == LoginInv /\ [TokensNext]_tokenVars => LoginInv'
<1> SUFFICES ASSUME LoginInv, [TokensNext]_tokenVars PROVE LoginInv'
  OBVIOUS
<1>0. TokenInv'
  BY TokenInvStep DEF LoginInv
<1>1. CASE \E r \in RequestIds : Caller(r)
  BY <1>0, <1>1, CallerKeepsLogins DEF LoginInv
<1>2. CASE EnsureBootstrapAdmin
  <2>1. UNCHANGED login /\ callback' \subseteq callback /\ \A i \in DOMAIN tokens' :
            tokens'[i].login = None \/ (i \in DOMAIN tokens /\ tokens'[i] = tokens[i])
    BY <1>2 DEF EnsureBootstrapAdmin
  <2> QED BY <1>0, <2>1, LoginsKept DEF LoginInv
<1>3. CASE \E id \in DOMAIN tokens, new \in FreeIds : handleCreateSessionFromToken(id, new)
  <2>1. UNCHANGED <<login, callback>> /\ \E id \in DOMAIN tokens, new \in FreeIds :
            Insert(new, SessionRow(tokens[id].user, SessionTTL))
    BY <1>3 DEF handleCreateSessionFromToken
  <2>2. \A u, ttl : SessionRow(u, ttl).login = None
    BY DEF SessionRow
  <2> QED BY <1>0, <2>1, <2>2, InsertKeepsLogins DEF LoginInv
<1>4. CASE (\E l, c \in LoginIds : handleOIDCLoginCallback(l, c)) \/ \E b \in callback : CallbackStep(b)
  BY <1>0, <1>4, ArrivalKeepsLogins, ExchangeKeepsLogins, UpsertKeepsLogins, SessionKeepsLogins,
     FailureKeepsLogins DEF LoginInv, CallbackStep
<1>5. CASE \E l \in LoginIds : handleStartOIDCLogin(l) \/ \E u \in Users : SignIn(l, u)
  <2> PICK l \in LoginIds : handleStartOIDCLogin(l) \/ \E u \in Users : SignIn(l, u)
    BY <1>5
  <2>1. /\ UNCHANGED <<tokens, callback>> /\ login[l].at # "used"
        /\ \A m \in LoginIds : m # l => login'[m] = login[m]
        /\ login[l] # None => login'[l] # None /\ login'[l].until = login[l].until
        /\ login' \in [LoginIds -> {None} \cup [at : {"started"}, until : Nat]
                              \cup [at : {"code", "used"}, until : Nat, user : Users]]
    BY TokenAssumption DEF handleStartOIDCLogin, SignIn, LoginInv, LoginFacts, LoginsTyped, None, TokenInv
  <2>2. LoginsTyped' /\ LoginsHold'
    BY <2>1 DEF LoginInv, LoginFacts, LoginsTyped, LoginsHold
  <2>3. \A b \in callback : b.l \in LoginIds
    BY DEF LoginInv, LoginFacts, LoginsTyped
  <2>4. CallbacksHold'
    BY <2>1, <2>3 DEF LoginInv, LoginFacts, CallbacksHold, Redeemed
  <2> QED BY <1>0, <2>2, <2>4 DEF LoginInv, LoginFacts
<1>6. CASE TickTokens \/ UNCHANGED tokenVars
  <2>1. UNCHANGED <<tokens, login, callback>>
    BY <1>6 DEF TickTokens, tokenVars
  <2> QED BY <1>0, <2>1, LoginsKept DEF LoginInv
<1> QED BY <1>1, <1>2, <1>3, <1>4, <1>5, <1>6 DEF TokensNext

\* A session of a login is of the person who signed in for it and the login's only one,
\* and its callback arrived in time: for any number of logins and callbacks in progress,
\* repeated, crossed or given up, with any time between the check of the state, the
\* exchange and the session (handleOIDCLoginCallback, OIDCExchangeCode).
THEOREM SessionsAreTheirOwners == TokensSpec => []LoginsHold
<1>1. LoginInv => LoginsHold
  BY DEF LoginInv, LoginFacts
<1> QED BY <1>1, LoginInvInit, LoginInvStep, PTL DEF TokensSpec

-----------------------------------------------------------------------------
(* Teams and accounts. *)

PostRecords == [at : {"post"}, team : Squads, targets : SUBSET Channels]
FlowRecords ==
  [at : {"connect"}, by : Keys, team : Squads]
    \cup [at : {"state"}, by : Keys, team : Squads, until : Nat]
    \cup [at : {"disconnect"}, by : Keys, team : Squads, account : Channels]

\* A slow request belongs to a team its caller may touch, since it was started.
FlowsAtHome == \A f \in Flows : flow[f] # Nothing => flow[f].by.team \in {NoTeam, flow[f].team}

TeamsTyped ==
  /\ channel \in [Channels -> Squads \cup {NoTeam}]
  /\ note \in [Notes -> {Nothing} \cup PostRecords]
  /\ flow \in [Flows -> {Nothing} \cup FlowRecords]
  /\ squads \subseteq Squads /\ today \in Nat

TeamInv == TeamsTyped /\ FlowsAtHome /\ PostsFollowTheirAccount /\ BoundCallsStayHome

\* A record with a status of its own is not Nothing.
LEMMA RecordsAreSomething ==
  /\ \A n \in PostRecords : n # Nothing
  /\ \A f \in FlowRecords : f # Nothing /\ f.by \in Keys /\ f.team \in Squads
BY DEF PostRecords, FlowRecords, Nothing

\* A change by a caller who passed PrincipalHasTeamAccess, or has no bound team, on
\* every team it touches.
LEMMA ChangeAtHome ==
  ASSUME NEW k, NEW teams, NEW late,
         change.n < MaxChanges /\ change' = [n |-> change.n + 1, by |-> k, teams |-> teams, late |-> late],
         late \/ k.team = NoTeam \/ \A t \in teams : k.team = t
  PROVE  BoundCallsStayHome'
BY DEF BoundCallsStayHome, BoundTokenStaysHome

\* A privileged route outside a team refuses bound tokens.
LEMMA GlobalRouteUnbound ==
  ASSUME NEW k, tokenRouteAllows(k, "privilege", NoTeam)
  PROVE  k.team = NoTeam
BY DEF tokenRouteAllows, PrincipalCanManageAPIToken, Unrestricted

LEMMA RoleAtHome ==
  ASSUME NEW k, NEW class, NEW t, NEW roles, RequireTeamRole(k, class, t, roles)
  PROVE  k.team \in {NoTeam, t}
BY DEF RequireTeamRole, PrincipalHasTeamAccess

\* Members and invitations leave accounts and posts alone.
LEMMA MemberKeeps ==
  ASSUME TeamInv, NEW k \in Keys,
         \/ \E t \in Squads : handleCreateTeam(k, t)
         \/ \E t \in Squads, u \in Members :
              handleRemoveTeamMember(k, t, u) \/ \E r \in Roles : handleAddTeamMember(k, t, u, r)
         \/ \E o \in Offers :
              \/ handleAcceptTeamInvitation(k, o)
              \/ handleDeleteTeamInvitation(k, o)
              \/ \E t \in Squads, u \in Members, r \in Roles :
                    handleCreateTeamInvitation(k, o, t, u, r)
         \/ \E a \in Channels : UpdateAccount(k, a)
  PROVE  TeamInv'
<1>1. UNCHANGED <<channel, note, flow, today>> /\ squads' \subseteq Squads
  BY DEF handleCreateTeam, CreateTeam, handleRemoveTeamMember, handleAddTeamMember,
     handleAcceptTeamInvitation, handleDeleteTeamInvitation, handleCreateTeamInvitation,
     UpdateAccount, TeamInv, TeamsTyped
<1>2. \E teams : /\ change.n < MaxChanges
                 /\ change' = [n |-> change.n + 1, by |-> k, teams |-> teams, late |-> FALSE]
                 /\ k.team = NoTeam \/ \A t \in teams : k.team = t
  BY GlobalRouteUnbound, RoleAtHome DEF handleCreateTeam, handleRemoveTeamMember, handleAddTeamMember,
     handleAcceptTeamInvitation, handleDeleteTeamInvitation, handleCreateTeamInvitation,
     UpdateAccount, Touches, TouchesAs
<1>3. BoundCallsStayHome'
  BY <1>2, ChangeAtHome
<1> QED BY <1>1, <1>3 DEF TeamInv, TeamsTyped, FlowsAtHome, PostsFollowTheirAccount

\* A slow request starts at home, and an OAuth callback keeps its team.
LEMMA FlowKeeps ==
  ASSUME TeamInv, NEW f \in Flows,
         \/ \E k \in Keys, t \in Squads :
              StartConnect(k, f, t) \/ StartOAuth(k, f, t) \/ \E a \in Channels : StartDisconnect(k, f, t, a)
         \/ OAuthCallback(f) \/ GiveUp(f)
  PROVE  TeamInv'
<1>1. UNCHANGED <<squads, channel, note, today, change>>
  BY DEF StartConnect, StartOAuth, StartDisconnect, OAuthCallback, GiveUp
<1>2. PICK new \in {Nothing} \cup FlowRecords :
        /\ flow' = [flow EXCEPT ![f] = new]
        /\ new # Nothing => new.by.team \in {NoTeam, new.team}
  <2>1. CASE \E k \in Keys, t \in Squads : StartConnect(k, f, t)
    <3> PICK k \in Keys, t \in Squads : StartConnect(k, f, t)
      BY <2>1
    <3> DEFINE new == [at |-> "connect", by |-> k, team |-> t]
    <3>1. flow' = [flow EXCEPT ![f] = new] /\ k.team \in {NoTeam, t}
      BY RoleAtHome DEF StartConnect
    <3>2. new \in FlowRecords /\ new.by = k /\ new.team = t
      BY DEF FlowRecords
    <3> QED BY <3>1, <3>2
  <2>2. CASE \E k \in Keys, t \in Squads : StartOAuth(k, f, t)
    <3> PICK k \in Keys, t \in Squads : StartOAuth(k, f, t)
      BY <2>2
    <3> DEFINE new == [at |-> "state", by |-> k, team |-> t, until |-> today + FlowTTL]
    <3>1. /\ flow' = [flow EXCEPT ![f] = new]
          /\ k.team \in {NoTeam, t} /\ today + FlowTTL \in Nat
      BY RoleAtHome, TeamAssumption DEF StartOAuth, TeamInv, TeamsTyped
    <3>2. new \in FlowRecords /\ new.by = k /\ new.team = t
      BY <3>1 DEF FlowRecords
    <3> QED BY <3>1, <3>2
  <2>3. CASE \E k \in Keys, t \in Squads, a \in Channels : StartDisconnect(k, f, t, a)
    <3> PICK k \in Keys, t \in Squads, a \in Channels : StartDisconnect(k, f, t, a)
      BY <2>3
    <3> DEFINE new == [at |-> "disconnect", by |-> k, team |-> channel[a], account |-> a]
    <3>1. /\ flow' = [flow EXCEPT ![f] = new]
          /\ k.team \in {NoTeam, channel[a]} /\ channel[a] \in Squads
      BY DEF StartDisconnect, PrincipalHasTeamAccess, TeamInv, TeamsTyped
    <3>2. new \in FlowRecords /\ new.by = k /\ new.team = channel[a]
      BY <3>1 DEF FlowRecords
    <3> QED BY <3>1, <3>2
  <2>4. CASE OAuthCallback(f)
    <3>1. flow[f] \in FlowRecords
      BY <2>4 DEF OAuthCallback, parseMastodonOAuthState, TeamInv, TeamsTyped, Nothing
    <3>2. flow[f].by \in Keys /\ flow[f].team \in Squads /\ flow[f].by.team \in {NoTeam, flow[f].team}
      BY <3>1, RecordsAreSomething DEF TeamInv, FlowsAtHome
    <3> DEFINE new == [at |-> "connect", by |-> flow[f].by, team |-> flow[f].team]
    <3>3. new \in FlowRecords /\ new.by = flow[f].by /\ new.team = flow[f].team
      BY <3>2 DEF FlowRecords
    <3>4. flow' = [flow EXCEPT ![f] = new]
      BY <2>4 DEF OAuthCallback
    <3> QED BY <3>2, <3>3, <3>4
  <2>5. CASE GiveUp(f)
    BY <2>5 DEF GiveUp
  <2> QED BY <2>1, <2>2, <2>3, <2>4, <2>5
<1>3. flow' \in [Flows -> {Nothing} \cup FlowRecords] /\ FlowsAtHome'
  BY <1>2 DEF TeamInv, TeamsTyped, FlowsAtHome
<1> QED BY <1>1, <1>3 DEF TeamInv, TeamsTyped, PostsFollowTheirAccount, BoundCallsStayHome, BoundTokenStaysHome

\* A new account is the target of no post, so it may join any team.
LEMMA CreateAccountKeeps ==
  ASSUME TeamInv, NEW f \in Flows, NEW a \in Channels, CreateAccount(f, a)
  PROVE  TeamInv'
<1>1. flow[f] \in FlowRecords
  BY DEF CreateAccount, TeamInv, TeamsTyped, Nothing
<1>2. PICK t \in Squads : t = flow[f].team
  BY <1>1, RecordsAreSomething
<1>3. /\ channel[a] = NoTeam /\ channel' = [channel EXCEPT ![a] = t]
      /\ flow' = [flow EXCEPT ![f] = Nothing] /\ UNCHANGED <<squads, note, today>>
  BY <1>2 DEF CreateAccount
<1>4. BoundCallsStayHome'
  <2>1. flow[f].by.team \in {NoTeam, t}
    BY <1>1, <1>2, RecordsAreSomething DEF TeamInv, FlowsAtHome
  <2> QED BY <1>2, <2>1, ChangeAtHome DEF CreateAccount, Touches, TouchesAs
<1>5. PostsFollowTheirAccount'
  <2> SUFFICES ASSUME NEW q \in Notes, note[q] # Nothing, NEW b \in note[q].targets
               PROVE  channel'[b] = note[q].team
    BY <1>3 DEF PostsFollowTheirAccount
  <2>1. note[q] \in PostRecords /\ channel[b] = note[q].team
    BY DEF TeamInv, TeamsTyped, PostsFollowTheirAccount
  <2>2. note[q].team \in Squads /\ b \in Channels
    BY <2>1 DEF PostRecords
  <2>3. b # a
    BY <1>3, <2>1, <2>2, TeamAssumption
  <2> QED BY <1>3, <2>1, <2>2, <2>3 DEF TeamInv, TeamsTyped
<1> QED BY <1>3, <1>4, <1>5 DEF TeamInv, TeamsTyped, FlowsAtHome

\* The rows of the targets go with an account, whichever team it is in by then.
LEMMA DeleteAccountKeeps ==
  ASSUME TeamInv, NEW f \in Flows, DeleteSocialAccount(f)
  PROVE  TeamInv'
<1>1. flow[f] \in FlowRecords /\ flow[f].at = "disconnect"
  BY DEF DeleteSocialAccount, TeamInv, TeamsTyped, Nothing
<1>2. PICK a \in Channels : a = flow[f].account
  BY <1>1 DEF FlowRecords
<1>3. /\ channel' = [channel EXCEPT ![a] = NoTeam]
      /\ note' = [q \in Notes |-> IF note[q] = Nothing THEN Nothing
                                  ELSE [note[q] EXCEPT !.targets = @ \ {a}]]
      /\ flow' = [flow EXCEPT ![f] = Nothing] /\ UNCHANGED <<squads, today>>
  BY <1>2 DEF DeleteSocialAccount
<1>4. BoundCallsStayHome'
  <2>1. flow[f].by.team \in {NoTeam, flow[f].team}
    BY <1>1, RecordsAreSomething DEF TeamInv, FlowsAtHome
  <2> DEFINE teams == {channel[a]} \ {NoTeam}
             late == channel[a] # flow[f].team
  <2>2. /\ change.n < MaxChanges
        /\ change' = [n |-> change.n + 1, by |-> flow[f].by, teams |-> teams, late |-> late]
    BY <1>2 DEF DeleteSocialAccount, TouchesAs
  <2>3. late \/ flow[f].by.team = NoTeam \/ \A t \in teams : flow[f].by.team = t
    BY <2>1
  <2> HIDE DEF teams, late
  <2> QED BY <2>2, <2>3, ChangeAtHome
<1>5. ASSUME NEW q \in Notes, note[q] # Nothing
      PROVE  /\ note'[q] \in PostRecords /\ note'[q].team = note[q].team
             /\ note'[q].targets = note[q].targets \ {a}
  <2>1. note[q] \in PostRecords
    BY <1>5 DEF TeamInv, TeamsTyped
  <2>2. note'[q] = [note[q] EXCEPT !.targets = note[q].targets \ {a}]
    BY <1>3, <1>5
  <2> QED BY <2>1, <2>2 DEF PostRecords
<1>6. \A q \in Notes : note[q] = Nothing => note'[q] = Nothing
  BY <1>3
<1>7. PostsFollowTheirAccount'
  BY <1>3, <1>5, <1>6 DEF TeamInv, TeamsTyped, PostsFollowTheirAccount, PostRecords
<1>8. TeamsTyped'
  <2>1. note' \in [Notes -> {Nothing} \cup PostRecords]
    BY <1>3, <1>5, <1>6
  <2> QED BY <1>3, <2>1 DEF TeamInv, TeamsTyped
<1> QED BY <1>3, <1>4, <1>7, <1>8 DEF TeamInv, FlowsAtHome, TeamsTyped

\* An account that moves takes along every post it is a target of, and no such post has
\* another target (MigrateAccountToTeam).
LEMMA MigrateKeeps ==
  ASSUME TeamInv, NEW k \in Keys, NEW a \in Channels, NEW t \in Squads, handleMigrateAccount(k, a, t)
  PROVE  TeamInv'
<1>1. /\ CanMigrate(a) /\ channel' = [channel EXCEPT ![a] = t] /\ UNCHANGED <<squads, flow, today>>
      /\ note' = [q \in Notes |-> IF q \in PostsOf(a) THEN [note[q] EXCEPT !.team = t] ELSE note[q]]
  BY DEF handleMigrateAccount, MigrateAccountToTeam
<1>2. BoundCallsStayHome'
  BY ChangeAtHome, GlobalRouteUnbound DEF handleMigrateAccount, Touches, TouchesAs
<1>3. ASSUME NEW q \in Notes, note[q] # Nothing
      PROVE  /\ note'[q] \in PostRecords
             /\ \A b \in note'[q].targets : channel'[b] = note'[q].team
  <2>1. /\ note[q] \in PostRecords /\ note[q].targets \subseteq Channels
        /\ \A b \in note[q].targets : channel[b] = note[q].team
    BY <1>3 DEF TeamInv, TeamsTyped, PostsFollowTheirAccount, PostRecords
  <2>2. CASE a \in note[q].targets
    <3>1. q \in PostsOf(a) /\ note[q].targets = {a}
      BY <1>1, <1>3, <2>1, <2>2 DEF PostsOf, CanMigrate
    <3>2. note'[q] = [note[q] EXCEPT !.team = t]
      BY <1>1, <3>1
    <3>3. note'[q] \in PostRecords /\ note'[q].team = t /\ note'[q].targets = {a}
      BY <2>1, <3>1, <3>2 DEF PostRecords
    <3> QED BY <1>1, <3>3 DEF TeamInv, TeamsTyped
  <2>3. CASE a \notin note[q].targets
    <3>1. note'[q] = note[q]
      BY <1>1, <2>3 DEF PostsOf
    <3> QED BY <1>1, <2>1, <2>3, <3>1 DEF TeamInv, TeamsTyped
  <2> QED BY <2>2, <2>3
<1>4. \A q \in Notes : note[q] = Nothing => note'[q] = Nothing
  BY <1>1 DEF PostsOf
<1>5. PostsFollowTheirAccount'
  BY <1>3, <1>4 DEF PostsFollowTheirAccount
<1>6. TeamsTyped'
  <2>1. note' \in [Notes -> {Nothing} \cup PostRecords]
    BY <1>1, <1>3, <1>4
  <2> QED BY <1>1, <2>1 DEF TeamInv, TeamsTyped
<1> QED BY <1>1, <1>2, <1>5, <1>6 DEF TeamInv, FlowsAtHome

\* ResolveTargets admits the accounts of the post's team only.
LEMMA PostKeeps ==
  ASSUME TeamInv, NEW k \in Keys, NEW q \in Notes, NEW targets \in SUBSET Channels,
         RetargetTeamPost(k, q, targets) \/ \E t \in Squads : handleCreateTeamPost(k, q, t, targets)
  PROVE  TeamInv'
<1>1. PICK t \in Squads :
        /\ ResolveTargets(t, targets) /\ k.team \in {NoTeam, t} /\ Touches(k, {t})
        /\ UNCHANGED <<squads, channel, flow, today>>
        /\ note' = [note EXCEPT ![q] = [at |-> "post", team |-> t, targets |-> targets]]
  <2>1. CASE RetargetTeamPost(k, q, targets)
    <3>1. note[q] \in PostRecords
      BY <2>1 DEF RetargetTeamPost, TeamInv, TeamsTyped
    <3>2. [note[q] EXCEPT !.targets = targets] = [at |-> "post", team |-> note[q].team, targets |-> targets]
          /\ note[q].team \in Squads
      BY <3>1 DEF PostRecords
    <3>3. note' = [note EXCEPT ![q] = [note[q] EXCEPT !.targets = targets]]
      BY <2>1 DEF RetargetTeamPost
    <3>4. k.team \in {NoTeam, note[q].team}
      BY <2>1, RoleAtHome DEF RetargetTeamPost
    <3> QED BY <2>1, <3>2, <3>3, <3>4 DEF RetargetTeamPost
  <2>2. CASE \E t \in Squads : handleCreateTeamPost(k, q, t, targets)
    BY <2>2, RoleAtHome DEF handleCreateTeamPost
  <2> QED BY <2>1, <2>2
<1>2. BoundCallsStayHome'
  BY <1>1, ChangeAtHome DEF Touches, TouchesAs
<1>3. note' \in [Notes -> {Nothing} \cup PostRecords]
  BY <1>1 DEF TeamInv, TeamsTyped, PostRecords
<1>4. PostsFollowTheirAccount'
  BY <1>1 DEF TeamInv, TeamsTyped, PostsFollowTheirAccount, ResolveTargets
<1> QED BY <1>1, <1>2, <1>3, <1>4 DEF TeamInv, TeamsTyped, FlowsAtHome

LEMMA TeamInvInit == TeamsInit => TeamInv
BY TeamAssumption DEF TeamsInit, TeamInv, TeamsTyped, FlowsAtHome, PostsFollowTheirAccount,
   BoundCallsStayHome, BoundTokenStaysHome

LEMMA TeamInvStep == TeamInv /\ [TeamsNext]_teamVars => TeamInv'
<1> SUFFICES ASSUME TeamInv, [TeamsNext]_teamVars PROVE TeamInv'
  OBVIOUS
<1>1. CASE \E k \in Keys : TeamRequest(k)
  BY <1>1, MemberKeeps, FlowKeeps, MigrateKeeps, PostKeeps DEF TeamRequest
<1>2. CASE \E f \in Flows : SlowStep(f)
  BY <1>2, FlowKeeps, CreateAccountKeeps, DeleteAccountKeeps DEF SlowStep
<1>3. CASE TickTeams \/ UNCHANGED teamVars
  <2>1. UNCHANGED <<squads, channel, note, flow, change>> /\ today' \in Nat
    BY <1>3 DEF TickTeams, teamVars, TeamInv, TeamsTyped
  <2> QED BY <2>1 DEF TeamInv, TeamsTyped, FlowsAtHome, PostsFollowTheirAccount,
             BoundCallsStayHome, BoundTokenStaysHome
<1> QED BY <1>1, <1>2, <1>3 DEF TeamsNext

\* A post and its accounts stay in one team, for any number of teams, posts and accounts
\* and moves, edits, connects and disconnects in any order (MigrateAccountToTeam,
\* ResolveTargets, DeleteSocialAccount).
THEOREM PostsShareTheirTeam == TeamsSpec => []PostsFollowTheirAccount
<1>1. TeamInv => PostsFollowTheirAccount
  BY DEF TeamInv
<1> QED BY <1>1, TeamInvInit, TeamInvStep, PTL DEF TeamsSpec

\* Whatever a token bound to a team changes is in its team, on every route and through
\* every slow request, except for the disconnect of an account that has meanwhile moved
\* (PrincipalHasTeamAccess, tokenRouteAllows, handleDeleteAccount).
THEOREM BoundTokensStayHome == TeamsSpec => []BoundCallsStayHome
<1>1. TeamInv => BoundCallsStayHome
  BY DEF TeamInv
<1> QED BY <1>1, TeamInvInit, TeamInvStep, PTL DEF TeamsSpec
(* Transactions: whatever the nesting of savepoints, and wherever a context    *)
(* ends, a savepoint fails or the process stops, it implements AtomicWork.     *)

Answers == {"none", "ok", "error", "lost"}

TxTypeOK ==
  /\ depth \in [Requests -> Nat]
  /\ doomed \subseteq Requests /\ committed \subseteq Requests
  /\ seen \in [Requests -> SUBSET Steps]
  /\ answer \in [Requests -> Answers]
  /\ level \in [Steps -> Int] /\ hook \in [Steps -> Nat]
  /\ called \subseteq Steps /\ running \subseteq Steps
  /\ stored \subseteq Steps /\ sent \subseteq Steps

\* One transaction at a time: it began on what is stored now, it is not committed and
\* its caller has no answer yet.
Isolated ==
  /\ \A r, q \in Requests: depth[r] > 0 /\ depth[q] > 0 => r = q
  /\ \A r \in Requests: depth[r] > 0 =>
       seen[r] = stored /\ r \notin committed /\ answer[r] = "none"

\* Every write is in an open frame, undone or stored; a step that was never tried has
\* registered nothing.
Framed ==
  \A s \in Steps:
    /\ level[s] <= depth[By[s]]
    /\ s \in stored => level[s] = Undone
    /\ s \in called => level[s] # Untried

\* A side effect is held by the frame of its write. Only in a transaction that can no
\* longer commit may a write have lost its side effect.
Attached ==
  \A s \in Steps:
    /\ hook[s] > 0 => s \in called /\ level[s] = hook[s]
    /\ By[s] \notin doomed /\ level[s] > 0 /\ s \in called => hook[s] = level[s]

\* What runs was committed and registered and has not been performed.
Performed ==
  /\ running \subseteq (stored \cap called) \ sent
  /\ sent \subseteq stored \cap called

TxInv == TxTypeOK /\ Isolated /\ Framed /\ Attached /\ Performed

-----------------------------------------------------------------------------
\* The operator the frames are closed with: it moves what the innermost frame of r
\* holds and leaves everything else where it is.
LEMMA Moves ==
  ASSUME NEW r \in Requests, NEW d, NEW f, NEW s \in Steps
  PROVE  /\ By[s] = r /\ f[s] = depth[r] => MovedTo(r, d, f)[s] = d
         /\ ~(By[s] = r /\ f[s] = depth[r]) => MovedTo(r, d, f)[s] = f[s]
BY DEF MovedTo

\* Closing a frame keeps the levels integers and the hooks naturals.
LEMMA MovesTyped ==
  ASSUME NEW r \in Requests, NEW S, NEW d \in S, NEW f \in [Steps -> S]
  PROVE  MovedTo(r, d, f) \in [Steps -> S]
BY DEF MovedTo

\* Nothing is open when the server starts (TxInit).
LEMMA TxInvInit == TxInit => TxInv
BY TransactionsAssumption DEF TransactionsAssumption, TxInit, TxInv, TxTypeOK, Answers, Isolated, Framed, Attached,
                              Performed, Untried, Undone

\* A transaction begins with the write lock, or a savepoint inside it.
LEMMA BeginKeeps ==
  ASSUME TxInv, NEW r \in Requests, WithAuditTransaction(r)
  PROVE  TxInv'
<1> USE TransactionsAssumption DEF TransactionsAssumption, WithAuditTransaction, TxInv
<1>1. TxTypeOK'
  BY DEF TxTypeOK
<1>2. Isolated'
  <2>1. CASE depth[r] = 0
    BY <2>1 DEF TxTypeOK, Isolated, WriteLockFree
  <2>2. CASE depth[r] > 0
    BY <2>2 DEF TxTypeOK, Isolated
  <2> QED BY <2>1, <2>2 DEF TxTypeOK
<1>3. Framed'
  BY DEF TxTypeOK, Framed
<1>4. Attached' /\ Performed'
  BY DEF Attached, Performed
<1> QED BY <1>1, <1>2, <1>3, <1>4

\* A statement on the open transaction.
LEMMA ExecKeeps ==
  ASSUME TxInv, NEW s \in Steps, Exec(s)
  PROVE  TxInv'
<1> USE TransactionsAssumption DEF TransactionsAssumption, Exec, TxInv
<1>0. depth[By[s]] \in Nat /\ level' = [level EXCEPT ![s] = depth[By[s]]]
  BY DEF TxTypeOK
<1>1. TxTypeOK'
  BY <1>0 DEF TxTypeOK
<1>2. Isolated' /\ Performed'
  BY DEF Isolated, Performed
<1>3. s \notin stored /\ s \notin called
  BY DEF Framed, Untried, Undone
<1>4. Framed'
  BY <1>0, <1>3 DEF TxTypeOK, Framed, Untried, Undone
<1>5. Attached'
  BY <1>0, <1>3 DEF TxTypeOK, Attached, Untried
<1> QED BY <1>1, <1>2, <1>4, <1>5

\* A side effect is registered, or performed at once after the outermost commit.
LEMMA AfterCommitKeeps ==
  ASSUME TxInv, NEW s \in Steps, AfterCommit(s)
  PROVE  TxInv'
<1> USE TransactionsAssumption DEF TransactionsAssumption, AfterCommit, TxInv
<1>1. TxTypeOK'
  BY DEF TxTypeOK
<1>2. Isolated'
  BY DEF Isolated
<1>3. Framed'
  BY DEF TxTypeOK, Framed, Untried, Undone
<1>4. Attached'
  <2>1. CASE level[s] > 0 /\ hook' = [hook EXCEPT ![s] = level[s]]
    BY <2>1 DEF TxTypeOK, Attached
  <2>2. CASE s \in stored /\ UNCHANGED hook
    BY <2>2 DEF TxTypeOK, Attached, Framed, Undone
  <2> QED BY <2>1, <2>2
<1>5. Performed'
  BY DEF Performed
<1> QED BY <1>1, <1>2, <1>3, <1>4, <1>5

-----------------------------------------------------------------------------
\* A savepoint is released into the frame around it, side effects included.
LEMMA ReleaseKeeps ==
  ASSUME TxInv, NEW r \in Requests, Release(r)
  PROVE  TxInv'
<1> USE TransactionsAssumption DEF TransactionsAssumption, Release, Leave, TxInv
<1>1. depth[r] - 1 \in Nat \ {0} /\ depth' = [depth EXCEPT ![r] = depth[r] - 1]
  BY DEF TxTypeOK
<1>2. level' \in [Steps -> Int] /\ hook' \in [Steps -> Nat]
  BY <1>1, MovesTyped, depth[r] - 1 \in Int DEF TxTypeOK
<1>3. TxTypeOK'
  BY <1>1, <1>2 DEF TxTypeOK
<1>4. Isolated'
  BY <1>1 DEF TxTypeOK, Isolated
<1>5. \A s \in Steps:
        /\ By[s] = r /\ level[s] = depth[r] => level'[s] = depth[r] - 1
        /\ ~(By[s] = r /\ level[s] = depth[r]) => level'[s] = level[s]
        /\ By[s] = r /\ hook[s] = depth[r] => hook'[s] = depth[r] - 1
        /\ ~(By[s] = r /\ hook[s] = depth[r]) => hook'[s] = hook[s]
  BY Moves
<1>6. Framed'
  BY <1>1, <1>5 DEF TxTypeOK, Framed, Untried, Undone
<1>7. Attached'
  BY <1>1, <1>5 DEF TxTypeOK, Attached
<1>8. Performed'
  BY DEF Performed
<1> QED BY <1>3, <1>4, <1>6, <1>7, <1>8

\* A savepoint that cannot be released dooms its transaction: only there is a write
\* without its side effect.
LEMMA ReleaseFailsKeeps ==
  ASSUME TxInv, NEW r \in Requests, ReleaseFails(r)
  PROVE  TxInv'
<1> USE TransactionsAssumption DEF TransactionsAssumption, ReleaseFails, Leave, TxInv
<1>1. depth[r] - 1 \in Nat \ {0} /\ depth' = [depth EXCEPT ![r] = depth[r] - 1]
  BY DEF TxTypeOK
<1>2. level' \in [Steps -> Int] /\ hook' \in [Steps -> Nat]
  BY <1>1, MovesTyped, depth[r] - 1 \in Int, 0 \in Nat DEF TxTypeOK
<1>3. TxTypeOK'
  BY <1>1, <1>2 DEF TxTypeOK
<1>4. Isolated'
  BY <1>1 DEF TxTypeOK, Isolated
<1>5. \A s \in Steps:
        /\ By[s] = r /\ level[s] = depth[r] => level'[s] = depth[r] - 1
        /\ ~(By[s] = r /\ level[s] = depth[r]) => level'[s] = level[s]
        /\ By[s] = r /\ hook[s] = depth[r] => hook'[s] = 0
        /\ ~(By[s] = r /\ hook[s] = depth[r]) => hook'[s] = hook[s]
  BY Moves
<1>6. Framed'
  BY <1>1, <1>5 DEF TxTypeOK, Framed, Untried, Undone
<1>7. Attached'
  BY <1>1, <1>5 DEF TxTypeOK, Attached
<1>8. Performed'
  BY DEF Performed
<1> QED BY <1>3, <1>4, <1>6, <1>7, <1>8

\* A frame is rolled back with its side effects; after the outermost one nothing of
\* the caller is left, so that its next transaction is not doomed.
LEMMA RollbackKeeps ==
  ASSUME TxInv, NEW r \in Requests, Rollback(r)
  PROVE  TxInv'
<1> USE TransactionsAssumption DEF TransactionsAssumption, Rollback, DiscardedHooks, Leave, TxInv
<1>1. depth[r] - 1 \in Nat /\ depth' = [depth EXCEPT ![r] = depth[r] - 1]
  BY DEF TxTypeOK
<1>2. level' \in [Steps -> Int] /\ hook' \in [Steps -> Nat]
  BY MovesTyped, Undone \in Int, 0 \in Nat DEF TxTypeOK, Undone
<1>3. TxTypeOK'
  BY <1>1, <1>2 DEF TxTypeOK
<1>4. Isolated'
  BY <1>1 DEF TxTypeOK, Isolated
<1>5. \A s \in Steps:
        /\ By[s] = r /\ level[s] = depth[r] => level'[s] = 0
        /\ ~(By[s] = r /\ level[s] = depth[r]) => level'[s] = level[s]
        /\ By[s] = r /\ hook[s] = depth[r] => hook'[s] = 0
        /\ ~(By[s] = r /\ hook[s] = depth[r]) => hook'[s] = hook[s]
  BY Moves DEF Undone
<1>6. Framed'
  BY <1>1, <1>5 DEF TxTypeOK, Framed, Untried, Undone
<1>7. Attached'
  BY <1>1, <1>5 DEF TxTypeOK, Framed, Attached
<1>8. Performed'
  BY DEF Performed
<1> QED BY <1>3, <1>4, <1>6, <1>7, <1>8

\* What the outermost commit stores and runs: the writes of the only frame, and of the
\* registered side effects exactly those that go with them.
LEMMA CommitMatches ==
  ASSUME TxInv, NEW r \in Requests, Commit(r)
  PROVE  \E work, held \in SUBSET Of(r):
           /\ work = {s \in Of(r): level[s] = 1}
           /\ stored' = stored \cup work /\ running' = running \cup held
           /\ held = work \cap called /\ work \cap (stored \cup sent) = {}
           /\ \A s \in Steps: level'[s] = IF s \in work THEN Undone ELSE level[s]
           /\ \A s \in Steps: hook'[s] = IF s \in held THEN 0 ELSE hook[s]
<1> USE TransactionsAssumption DEF TransactionsAssumption, Commit, TxInv
<1> DEFINE work == {s \in Of(r): level[s] = 1}
           held == {s \in Of(r): hook[s] = 1}
<1>1. work \in SUBSET Of(r) /\ held \in SUBSET Of(r)
  OBVIOUS
<1>2. stored' = stored \cup work /\ running' = running \cup held
  OBVIOUS
<1>3. held = work \cap called
  BY DEF TxTypeOK, Attached, Of
<1>4. work \cap (stored \cup sent) = {}
  BY DEF Framed, Performed, Undone, Of
<1>5. \A s \in Steps: level'[s] = IF s \in work THEN Undone ELSE level[s]
  BY DEF MovedTo, Of
<1>6. \A s \in Steps: hook'[s] = IF s \in held THEN 0 ELSE hook[s]
  BY DEF MovedTo, Of
<1> QED BY <1>1, <1>2, <1>3, <1>4, <1>5, <1>6

LEMMA CommitKeeps ==
  ASSUME TxInv, NEW r \in Requests, Commit(r)
  PROVE  TxInv'
<1> USE TransactionsAssumption DEF TransactionsAssumption, TxInv
<1>1. PICK work \in SUBSET Of(r), held \in SUBSET Of(r):
           /\ work = {s \in Of(r): level[s] = 1}
           /\ stored' = stored \cup work /\ running' = running \cup held
           /\ held = work \cap called /\ work \cap (stored \cup sent) = {}
           /\ \A s \in Steps: level'[s] = IF s \in work THEN Undone ELSE level[s]
           /\ \A s \in Steps: hook'[s] = IF s \in held THEN 0 ELSE hook[s]
  BY CommitMatches
<1>2. depth[r] = 1 /\ depth' = [depth EXCEPT ![r] = 0] /\ r \notin doomed
  BY DEF Commit, Leave, TxTypeOK
<1>3. TxTypeOK'
  <2>1. level' \in [Steps -> Int] /\ hook' \in [Steps -> Nat]
    BY MovesTyped, Undone \in Int, 0 \in Nat DEF TxTypeOK, Commit, Undone
  <2> QED BY <1>1, <1>2, <2>1 DEF TxTypeOK, Commit, Of
<1>4. Isolated'
  BY <1>2 DEF TxTypeOK, Isolated, Commit
<1>5. Framed'
  <2> SUFFICES ASSUME NEW s \in Steps
               PROVE  /\ level'[s] <= depth'[By[s]]
                      /\ s \in stored' => level'[s] = Undone
                      /\ s \in called' => level'[s] # Untried
    BY DEF Framed
  <2>1. CASE s \in work
    BY <1>1, <1>2, <2>1 DEF TxTypeOK, Undone, Untried
  <2>2. CASE s \notin work
    <3>1. By[s] = r => level[s] # 1
      BY <1>1, <2>2 DEF Of
    <3>2. level'[s] <= depth'[By[s]]
      BY <1>1, <1>2, <2>2, <3>1 DEF TxTypeOK, Framed
    <3> QED BY <1>1, <2>2, <3>2 DEF Framed, Commit
  <2> QED BY <2>1, <2>2
<1>6. Attached'
  BY <1>1, <1>2 DEF TxTypeOK, Attached, Commit, Undone
<1>7. Performed'
  BY <1>1 DEF Performed, Commit
<1> QED BY <1>3, <1>4, <1>5, <1>6, <1>7

-----------------------------------------------------------------------------
\* The callbacks, the answer, and a context that ends.
LEMMA TailKeeps ==
  ASSUME TxInv,
         \/ \E s \in Steps: RunHook(s)
         \/ \E r \in Requests: Respond(r) \/ Cancel(r)
  PROVE  TxInv'
<1> USE TransactionsAssumption DEF TransactionsAssumption, TxInv
<1>1. CASE \E s \in Steps: RunHook(s)
  BY <1>1 DEF RunHook, frameVars, TxTypeOK, Isolated, Framed, Attached, Performed
<1>2. CASE \E r \in Requests: Respond(r)
  <2> PICK r \in Requests: Respond(r)
    BY <1>2
  <2>1. TxTypeOK' /\ Isolated'
    BY DEF Respond, frameVars, TxTypeOK, Answers, Isolated
  <2>2. Framed' /\ Attached' /\ Performed'
    BY DEF Respond, frameVars, Framed, Attached, Performed
  <2> QED BY <2>1, <2>2
<1>3. CASE \E r \in Requests: Cancel(r)
  BY <1>3 DEF Cancel, frameVars, TxTypeOK, Isolated, Framed, Attached, Performed
<1> QED BY <1>1, <1>2, <1>3

\* The process stops (CrashTx): no frame and no callback survives.
LEMMA CrashKeeps ==
  ASSUME TxInv, CrashTx
  PROVE  TxInv'
<1> USE TransactionsAssumption DEF TransactionsAssumption, CrashTx, TxInv
<1>1. TxTypeOK'
  BY DEF TxTypeOK, Answers, Undone
<1>2. Isolated'
  BY DEF Isolated
<1>3. Framed'
  BY DEF TxTypeOK, Framed, Untried, Undone
<1>4. Attached'
  BY DEF TxTypeOK, Attached, Undone
<1>5. Performed'
  BY DEF Performed
<1> QED BY <1>1, <1>2, <1>3, <1>4, <1>5

LEMMA TxInvStep == TxInv /\ [TxNext]_txVars => TxInv'
<1> SUFFICES ASSUME TxInv, [TxNext]_txVars PROVE TxInv'
  OBVIOUS
<1>1. CASE UNCHANGED txVars
  BY <1>1 DEF txVars, TxInv, TxTypeOK, Isolated, Framed, Attached, Performed
<1>2. CASE TxNext
  BY <1>2, BeginKeeps, ExecKeeps, AfterCommitKeeps, ReleaseKeeps, ReleaseFailsKeeps,
     RollbackKeeps, CommitKeeps, TailKeeps, CrashKeeps DEF TxNext
<1> QED BY <1>1, <1>2

-----------------------------------------------------------------------------
(* The refinement: each step of Transactions is one step of AtomicWork or none. *)
LEMMA InitMaps == TxInit => Atomic!Init
BY DEF TxInit, Atomic!Init, Owed

\* What happens inside a transaction is invisible.
LEMMA InsideStutters ==
  ASSUME TxInv,
         \/ \E r \in Requests: WithAuditTransaction(r) \/ Release(r) \/ ReleaseFails(r)
                                \/ Rollback(r) \/ Cancel(r)
         \/ \E s \in Steps: Exec(s) \/ (AfterCommit(s) /\ level[s] > 0)
         \/ UNCHANGED txVars
  PROVE  UNCHANGED Atomic!vars
<1>1. CASE \E r \in Requests: WithAuditTransaction(r)
  <2> PICK r \in Requests: WithAuditTransaction(r)
    BY <1>1
  <2>1. \A q \in Requests: q \in committed => seen'[q] = seen[q]
    BY DEF WithAuditTransaction, TxInv, TxTypeOK
  <2> QED BY <2>1 DEF WithAuditTransaction, Atomic!vars, Owed
<1>2. CASE \/ \E r \in Requests: Release(r) \/ ReleaseFails(r) \/ Rollback(r) \/ Cancel(r)
           \/ \E s \in Steps: Exec(s)
           \/ UNCHANGED txVars
  BY <1>2 DEF Release, ReleaseFails, Rollback, Cancel, Exec, txVars, frameVars, Atomic!vars, Owed
<1>3. CASE \E s \in Steps: AfterCommit(s) /\ level[s] > 0
  <2> PICK s \in Steps: AfterCommit(s) /\ level[s] > 0
    BY <1>3
  <2>1. s \notin stored
    BY DEF TxInv, Framed, Undone
  <2>2. UNCHANGED <<stored, sent, running, seen, committed, answer>> /\ called' = called \cup {s}
    BY <2>1 DEF AfterCommit
  <2> QED BY <2>1, <2>2 DEF Atomic!vars, Owed
<1> QED BY <1>1, <1>2, <1>3

\* The outermost commit is the instant the request takes effect.
LEMMA CommitTakesEffect ==
  ASSUME TxInv, NEW r \in Requests, Commit(r)
  PROVE  Atomic!TakeEffect(r)
<1>1. PICK work \in SUBSET Of(r), held \in SUBSET Of(r):
           /\ work = {s \in Of(r): level[s] = 1}
           /\ stored' = stored \cup work /\ running' = running \cup held
           /\ held = work \cap called /\ work \cap (stored \cup sent) = {}
           /\ \A s \in Steps: level'[s] = IF s \in work THEN Undone ELSE level[s]
           /\ \A s \in Steps: hook'[s] = IF s \in held THEN 0 ELSE hook[s]
  BY CommitMatches
<1>2. /\ depth[r] > 0 /\ committed' = committed \cup {r}
      /\ UNCHANGED <<seen, answer, called, sent>>
  BY DEF Commit
<1>3. seen[r] = stored /\ r \notin committed /\ answer[r] = "none"
  BY <1>2 DEF TxInv, Isolated
<1>4. work \in SUBSET {s \in Steps: By[s] = r /\ s \notin stored}
  BY <1>1 DEF Of
<1>5. Owed' = Owed \cup work
  BY <1>1, <1>2 DEF Owed, TxInv, Performed
<1>6. [q \in Requests |-> IF q \in committed' THEN seen'[q] ELSE {}]
        = [[q \in Requests |-> IF q \in committed THEN seen[q] ELSE {}] EXCEPT ![r] = stored]
  BY <1>2, <1>3
<1> QED BY <1>1, <1>2, <1>3, <1>4, <1>5, <1>6 DEF Atomic!TakeEffect

\* A callback, or an effect registered after the commit, is performed once.
LEMMA HooksPerform ==
  ASSUME TxInv, NEW s \in Steps, RunHook(s) \/ (AfterCommit(s) /\ ~(level[s] > 0))
  PROVE  Atomic!Perform(s)
<1>1. CASE RunHook(s)
  <2>1. s \in Owed /\ s \notin sent /\ Owed' = Owed \ {s}
    BY <1>1 DEF RunHook, Owed, TxInv, Performed
  <2> QED BY <1>1, <2>1 DEF RunHook, Atomic!Perform
<1>2. CASE AfterCommit(s) /\ ~(level[s] > 0)
  <2>1. /\ s \in stored /\ s \notin called
        /\ sent' = sent \cup {s} /\ called' = called \cup {s}
        /\ UNCHANGED <<seen, committed, answer, running, stored>>
    BY <1>2 DEF AfterCommit
  <2>2. s \in Owed /\ s \notin sent /\ s \notin running
    BY <2>1 DEF Owed, TxInv, Performed
  <2>3. Owed' = Owed \ {s}
    BY <2>1, <2>2 DEF Owed
  <2> QED BY <2>1, <2>2, <2>3 DEF Atomic!Perform
<1> QED BY <1>1, <1>2

\* The response goes out when the request is over and its callbacks have run.
LEMMA RespondTells ==
  ASSUME TxInv, NEW r \in Requests, Respond(r)
  PROVE  \E a \in {"ok", "error"}: Atomic!Tell(r, a)
<1> DEFINE a == IF r \in committed THEN "ok" ELSE "error"
<1>1. a \in {"ok", "error"} /\ answer[r] = "none" /\ answer' = [answer EXCEPT ![r] = a]
  BY DEF Respond
<1>2. \A s \in Owed: By[s] # r
  BY DEF Respond, Owed, Of, TxInv, TxTypeOK
<1>3. UNCHANGED <<stored, [q \in Requests |-> IF q \in committed THEN seen[q] ELSE {}],
                  committed, Owed, sent>>
  BY DEF Respond, Owed
<1>4. Atomic!Tell(r, a)
  BY <1>1, <1>2, <1>3 DEF Atomic!Tell
<1> QED BY <1>1, <1>4

\* A stop loses answers and callbacks and nothing else.
LEMMA CrashMaps ==
  ASSUME TxInv, CrashTx
  PROVE  Atomic!Crash
<1> DEFINE open == {r \in Requests: answer[r] = "none"
                                    /\ (r \in committed \/ depth[r] > 0 \/ ~Untouched(r))}
<1>1. open \in SUBSET {r \in Requests: answer[r] = "none"}
  OBVIOUS
<1>2. answer' = [r \in Requests |-> IF r \in open THEN "lost" ELSE answer[r]]
  BY DEF CrashTx
<1>3. Owed' = {}
  BY DEF CrashTx, Owed
<1>4. UNCHANGED <<stored, [q \in Requests |-> IF q \in committed THEN seen[q] ELSE {}],
                  committed, sent>>
  BY DEF CrashTx
<1> QED BY <1>1, <1>2, <1>3, <1>4 DEF Atomic!Crash

LEMMA StepMaps == TxInv /\ [TxNext]_txVars => [Atomic!Next]_(Atomic!vars)
<1> SUFFICES ASSUME TxInv, [TxNext]_txVars PROVE Atomic!Next \/ UNCHANGED Atomic!vars
  OBVIOUS
<1>1. CASE \/ \E r \in Requests: WithAuditTransaction(r) \/ Release(r) \/ ReleaseFails(r)
                                \/ Rollback(r) \/ Cancel(r)
           \/ \E s \in Steps: Exec(s) \/ (AfterCommit(s) /\ level[s] > 0)
           \/ UNCHANGED txVars
  BY <1>1, InsideStutters
<1>2. CASE \E r \in Requests: Commit(r)
  BY <1>2, CommitTakesEffect DEF Atomic!Next
<1>3. CASE \E s \in Steps: RunHook(s) \/ (AfterCommit(s) /\ ~(level[s] > 0))
  BY <1>3, HooksPerform DEF Atomic!Next
<1>4. CASE \E r \in Requests: Respond(r)
  BY <1>4, RespondTells DEF Atomic!Next
<1>5. CASE CrashTx
  BY <1>5, CrashMaps DEF Atomic!Next
<1> QED BY <1>1, <1>2, <1>3, <1>4, <1>5 DEF TxNext

-----------------------------------------------------------------------------
\* At any moment the transaction that is open, if any, works on what is stored, every
\* side effect is in the frame of its write, and what was performed had been committed
\* (WithAuditTransaction with the write lock, txcontext's lists of hooks).
THEOREM TransactionsConsistent == TxSpec => []TxInv
BY TxInvInit, TxInvStep, PTL DEF TxSpec

\* An audited request is atomic: Transactions implements AtomicWork
\* (store.go: "atomically commits all store calls made with callback's context").
THEOREM RequestsImplementAtomicWork == TxSpec => RequestsAreAtomic
BY InitMaps, StepMaps, TransactionsConsistent, PTL DEF TxSpec, RequestsAreAtomic, Atomic!Spec
=============================================================================
