------------------------------ MODULE Authority ------------------------------
(* What an authenticated caller may do: the scopes of a token, its binding to *)
(* one team and the policy every route inherits.  A caller (principal) is a   *)
(* record with the fields                                                     *)
(*   user   - whose token it is                                               *)
(*   scopes - the scopes of the token; {} is full authority                   *)
(*   team   - the team the token is bound to, or NoTeam                       *)
(* The decisions are pure; the modules AccessTokens and TeamAccess use them.  *)
CONSTANT NoTeam

\* The seven scopes a token may be granted.
AllScopes == {"read", "write", "write:draft", "write:schedule",
              "delete", "delete:draft", "delete:schedule"}

\* write and delete include the scopes below them; read stands alone.
Includes(granted) ==
  CASE granted = "write"  -> {"write", "write:draft", "write:schedule"}
    [] granted = "delete" -> {"delete", "delete:draft", "delete:schedule"}
    [] OTHER              -> {granted}

ScopeSatisfied(scopes, required) == \E g \in scopes : required \in Includes(g)

PrincipalAllows(p, required) == p.scopes = {} \/ ScopeSatisfied(p.scopes, required)

\* The caller holds full, global authority: no scopes and no team.
Unrestricted(p) == p.scopes = {} /\ p.team = NoTeam

\* May p create, revoke or act as a token with these scopes and this team?
PrincipalCanManageAPIToken(p, scopes, team) ==
  \/ Unrestricted(p)
  \/ /\ p.team = team
     /\ p.scopes # {} => /\ scopes # {}
                         /\ \A s \in scopes : ScopeSatisfied(p.scopes, s)

\* The scopes of which one suffices, for the routes whose policy is a scope.
SufficientScopes ==
  [ read    |-> {"read"},        \* GET; logout, validation, preview, chat
    post    |-> {"write:draft", "write:schedule"},     \* create, patch, cancel a post
    unpost  |-> {"delete:draft", "delete:schedule"},   \* delete a post
    draft   |-> {"write:draft"},                       \* drafts and AI jobs
    confirm |-> {"write:draft", "write:schedule", "delete:draft", "delete:schedule"},
    write   |-> {"write"},                             \* every other change
    delete  |-> {"delete"} ]                           \* every other deletion

\* A plausible slip: privileged routes are treated like any other change.
RouteAllowsWriters(p, class, team) ==
  CASE class \in {"privilege", "write"} -> PrincipalAllows(p, "write")
    [] class \in {"admin", "global"}    -> Unrestricted(p)
    [] OTHER -> TRUE

\* tokenRouteAllows: the class stands for the route's pattern and method.  Privileges
\* (members, invitations, accounts, team settings) cannot be delegated to a scoped
\* token; they belong to the team of the path, which is NoTeam for the creation of a
\* team, for the acceptance of an invitation and for the move of an account.
tokenRouteAllows(p, class, team) ==
  CASE class = "admin"     -> PrincipalCanManageAPIToken(p, {}, NoTeam)
    [] class = "global"    -> p.team = NoTeam /\ PrincipalAllows(p, "read")
    [] class = "privilege" -> PrincipalCanManageAPIToken(p, {}, team)
    [] class = "tokens"    -> TRUE
    [] OTHER -> \E s \in SufficientScopes[class] : PrincipalAllows(p, s)

\* Everything a token can ever be used for: a scope in a team, and "admin" for the
\* routes that need full global authority.
Power(p, teams) ==
  {use \in AllScopes \X teams : PrincipalAllows(p, use[1]) /\ p.team \in {NoTeam, use[2]}}
    \cup IF Unrestricted(p) THEN {<<"admin", NoTeam>>} ELSE {}
==============================================================================
