------------------------------ MODULE TeamAccess ------------------------------
(* Teams: members and their roles, invitations, the accounts of a team and    *)
(* the move of an account to another team.                                    *)
(*                                                                            *)
(* Audited handlers run in one immediate transaction and are one step.  The   *)
(* handlers that talk to a provider are not audited as a whole: they check,   *)
(* call out, and write later (connect, OAuth callback, disconnect).           *)
EXTENDS Naturals, FiniteSets, Authority

CONSTANTS Members,     \* the users
          Squads,      \* the ids of teams
          Keys,        \* the callers: records [user, admin, scopes, team]
          Channels,    \* the ids of social accounts
          Notes,       \* the ids of posts
          Offers,      \* the ids of invitations
          Flows,       \* OAuth flows and other slow requests
          StartRole,   \* the memberships at the start
          StartTeam,   \* the team of each account at the start, or NoTeam
          OfferTTL, FlowTTL,
          MaxTeamClock,        \* bound on time
          MaxChanges           \* bound on the changes that are made

ASSUME TeamAssumption ==
  /\ {OfferTTL, FlowTTL, MaxTeamClock, MaxChanges} \subseteq Nat
  /\ \A k \in Keys : k.user \in Members /\ k.scopes \subseteq AllScopes
  /\ NoTeam \notin Squads /\ StartTeam \in [Channels -> Squads \cup {NoTeam}]

VARIABLES
  role,      \* team_memberships: a role, or "none", for each user and team
  squads,    \* the teams that exist
  offer,     \* team_invitations
  channel,   \* social_accounts: the team of each account, NoTeam if there is none
  note,      \* scheduled posts: team and targets
  flow,      \* slow requests and the OAuth states in browsers
  today,
  change     \* history: the last change, its caller and the teams it touched

teamVars == <<role, squads, offer, channel, note, flow, today, change>>

Nothing == [at |-> "none"]
Roles == {"viewer", "editor", "owner"}

\* How many changes were made is part of the history, for the bound.
TouchesAs(k, teams, late) ==
  /\ change.n < MaxChanges
  /\ change' = [n |-> change.n + 1, by |-> k, teams |-> teams, late |-> late]

Touches(k, teams) == TouchesAs(k, teams, FALSE)

UserHasAnyTeamRole(u, t, roles) == role[u][t] \in roles

\* A bound token never leaves its team, not even an administrator's.
PrincipalHasTeamAccess(k, t, roles) ==
  /\ k.team \in {NoTeam, t}
  /\ k.admin \/ UserHasAnyTeamRole(k.user, t, roles)

\* requireAuth for a route under a team, then RequireTeamRole.
RequireTeamRole(k, class, t, roles) ==
  /\ PrincipalHasTeamAccess(k, t, Roles)
  /\ tokenRouteAllows(k, class, t)
  /\ PrincipalHasTeamAccess(k, t, roles)

----------------------------------------------------------------------------
(* Members and invitations *)

\* The store's operations; the membership row is inserted or its role replaced.
CreateTeam(u, t) == squads' = squads \cup {t} /\ role' = [role EXCEPT ![u][t] = "owner"]
AddTeamMember(t, u, r) == role' = [role EXCEPT ![u][t] = r]
RemoveTeamMember(t, u) == role' = [role EXCEPT ![u][t] = "none"]
CreateTeamInvitation(o, t, u, r) ==
  offer' = [offer EXCEPT ![o] = [at |-> "open", team |-> t, email |-> u, role |-> r, until |-> today + OfferTTL]]
DeleteTeamInvitation(o) == offer' = [offer EXCEPT ![o] = Nothing]

\* The invitation is for one e-mail address, works once and replaces a role the
\* person may already have.
AcceptTeamInvitation(u, o) ==
  /\ offer[o].at = "open" /\ today <= offer[o].until /\ offer[o].email = u
  /\ AddTeamMember(offer[o].team, u, offer[o].role)
  /\ DeleteTeamInvitation(o)

handleCreateTeam(k, t) ==
  /\ tokenRouteAllows(k, "privilege", NoTeam)
  /\ t \notin squads
  /\ CreateTeam(k.user, t)
  /\ Touches(k, {t})
  /\ UNCHANGED <<offer, channel, note, flow, today>>

handleAddTeamMember(k, t, u, r) ==
  /\ t \in squads
  /\ RequireTeamRole(k, "privilege", t, {"owner"})
  /\ AddTeamMember(t, u, r)
  /\ Touches(k, {t})
  /\ UNCHANGED <<squads, offer, channel, note, flow, today>>

handleRemoveTeamMember(k, t, u) ==
  /\ t \in squads
  /\ RequireTeamRole(k, "privilege", t, {"owner"})
  /\ role[u][t] # "none"
  /\ RemoveTeamMember(t, u)
  /\ Touches(k, {t})
  /\ UNCHANGED <<squads, offer, channel, note, flow, today>>

handleCreateTeamInvitation(k, o, t, u, r) ==
  /\ t \in squads /\ offer[o] = Nothing
  /\ RequireTeamRole(k, "privilege", t, {"owner"})
  /\ r # "owner"
  /\ CreateTeamInvitation(o, t, u, r)
  /\ Touches(k, {t})
  /\ UNCHANGED <<role, squads, channel, note, flow, today>>

handleDeleteTeamInvitation(k, o) ==
  /\ offer[o].at = "open"
  /\ RequireTeamRole(k, "privilege", offer[o].team, {"owner"})
  /\ DeleteTeamInvitation(o)
  /\ Touches(k, {offer[o].team})
  /\ UNCHANGED <<role, squads, channel, note, flow, today>>

handleAcceptTeamInvitation(k, o) ==
  /\ tokenRouteAllows(k, "privilege", NoTeam)
  /\ AcceptTeamInvitation(k.user, o)
  /\ Touches(k, {offer[o].team})
  /\ UNCHANGED <<squads, channel, note, flow, today>>

----------------------------------------------------------------------------
(* Accounts *)

\* handleCreateAccount: the role is checked, the provider is asked, the row is written.
StartConnect(k, f, t) ==
  /\ t \in squads /\ flow[f] = Nothing
  /\ RequireTeamRole(k, "privilege", t, {"editor", "owner"})
  /\ flow' = [flow EXCEPT ![f] = [at |-> "connect", by |-> k, team |-> t]]
  /\ UNCHANGED <<role, squads, offer, channel, note, today, change>>

\* handleStartMastodonOAuth: the user and the team go into the signed state.
StartOAuth(k, f, t) ==
  /\ t \in squads /\ flow[f] = Nothing
  /\ RequireTeamRole(k, "privilege", t, {"editor", "owner"})
  /\ flow' = [flow EXCEPT ![f] = [at |-> "state", by |-> k, team |-> t, until |-> today + FlowTTL]]
  /\ UNCHANGED <<role, squads, offer, channel, note, today, change>>

\* The signature holds for the states this server made; they expire.
parseMastodonOAuthState(f) == flow[f].at = "state" /\ today <= flow[f].until

\* The callback has no token: the state is parsed and the role is looked up again.
OAuthCallback(f) ==
  /\ parseMastodonOAuthState(f)
  /\ UserHasAnyTeamRole(flow[f].by.user, flow[f].team, {"editor", "owner"})
  /\ flow' = [flow EXCEPT ![f] = [at |-> "connect", by |-> flow[f].by, team |-> flow[f].team]]
  /\ UNCHANGED <<role, squads, offer, channel, note, today, change>>

\* The provider refuses, the state has expired or access was revoked.
GiveUp(f) ==
  /\ flow[f] # Nothing
  /\ flow' = [flow EXCEPT ![f] = Nothing]
  /\ UNCHANGED <<role, squads, offer, channel, note, today, change>>

CreateAccount(f, a) ==
  /\ flow[f].at = "connect"
  /\ channel[a] = NoTeam
  /\ channel' = [channel EXCEPT ![a] = flow[f].team]
  /\ Touches(flow[f].by, {flow[f].team})
  /\ flow' = [flow EXCEPT ![f] = Nothing]
  /\ UNCHANGED <<role, squads, offer, note, today>>

\* handleUpdateAccount: names, limits and credentials are not modelled.
UpdateAccount(k, a) ==
  /\ channel[a] # NoTeam
  /\ RequireTeamRole(k, "privilege", channel[a], {"editor", "owner"})
  /\ Touches(k, {channel[a]})
  /\ UNCHANGED <<role, squads, offer, channel, note, flow, today>>

\* handleDeleteAccount under team t: the account is read and access to its team is
\* checked; then the provider is asked to revoke the token.
StartDisconnect(k, f, t, a) ==
  /\ flow[f] = Nothing /\ channel[a] # NoTeam
  /\ RequireTeamRole(k, "privilege", t, Roles)
  /\ PrincipalHasTeamAccess(k, channel[a], {"editor", "owner"})
  /\ flow' = [flow EXCEPT ![f] = [at |-> "disconnect", by |-> k, team |-> channel[a], account |-> a]]
  /\ UNCHANGED <<role, squads, offer, channel, note, today, change>>

\* DeleteSocialAccount is by id; the rows of its targets go with it.
DeleteSocialAccount(f) ==
  LET a == flow[f].account
  IN /\ flow[f].at = "disconnect"
     /\ channel' = [channel EXCEPT ![a] = NoTeam]
     /\ note' = [q \in Notes |-> IF note[q] = Nothing THEN Nothing
                                 ELSE [note[q] EXCEPT !.targets = @ \ {a}]]
     /\ TouchesAs(flow[f].by, {channel[a]} \ {NoTeam}, channel[a] # flow[f].team)
     /\ flow' = [flow EXCEPT ![f] = Nothing]
     /\ UNCHANGED <<role, squads, offer, today>>

\* The posts of a team that an account is a target of.
PostsOf(a) == {q \in Notes : note[q] # Nothing /\ a \in note[q].targets /\ note[q].team = channel[a]}

\* A plausible slip: posts with other targets are moved as well.
CanLeave(a) == \A q \in PostsOf(a) : TRUE

\* Posts that other accounts share keep an account where it is.
CanMigrate(a) == \A q \in PostsOf(a) : note[q].targets = {a}

\* The store checks the roles again; an admin need not own the old team, and everybody
\* must be a member of the new one.  The account takes its posts along.
MigrateAccountToTeam(k, a, t) ==
  /\ t \in squads
  /\ k.admin \/ UserHasAnyTeamRole(k.user, channel[a], {"owner"})
  /\ UserHasAnyTeamRole(k.user, t, {"editor", "owner"})
  /\ CanMigrate(a)
  /\ note' = [q \in Notes |-> IF q \in PostsOf(a) THEN [note[q] EXCEPT !.team = t] ELSE note[q]]
  /\ channel' = [channel EXCEPT ![a] = t]

handleMigrateAccount(k, a, t) ==
  /\ channel[a] # NoTeam
  /\ PrincipalHasTeamAccess(k, channel[a], Roles)
  /\ tokenRouteAllows(k, "privilege", NoTeam)
  /\ \A s \in {channel[a], t} : PrincipalHasTeamAccess(k, s, {"owner"})
  /\ MigrateAccountToTeam(k, a, t)
  /\ Touches(k, {channel[a], t})
  /\ UNCHANGED <<role, squads, offer, flow, today>>

----------------------------------------------------------------------------
(* Posts, as far as their targets matter here *)

\* ResolveTargets: every target exists and belongs to the team of the request.
ResolveTargets(t, targets) == \A a \in targets : channel[a] = t

handleCreateTeamPost(k, q, t, targets) ==
  /\ t \in squads /\ note[q] = Nothing
  /\ RequireTeamRole(k, "post", t, Roles)
  /\ PrincipalAllows(k, "write:schedule")
  /\ ResolveTargets(t, targets)
  /\ PrincipalHasTeamAccess(k, t, {"editor", "owner"})
  /\ note' = [note EXCEPT ![q] = [at |-> "post", team |-> t, targets |-> targets]]
  /\ Touches(k, {t})
  /\ UNCHANGED <<role, squads, offer, channel, flow, today>>

\* handleUpdatePost with new targets.
RetargetTeamPost(k, q, targets) ==
  /\ note[q] # Nothing
  /\ RequireTeamRole(k, "post", note[q].team, {"editor", "owner"})
  /\ PrincipalAllows(k, "write:schedule")
  /\ ResolveTargets(note[q].team, targets)
  /\ note' = [note EXCEPT ![q].targets = targets]
  /\ Touches(k, {note[q].team})
  /\ UNCHANGED <<role, squads, offer, channel, flow, today>>

TickTeams ==
  /\ today < MaxTeamClock
  /\ today' = today + 1
  /\ UNCHANGED <<role, squads, offer, channel, note, flow, change>>

----------------------------------------------------------------------------
\* A team exists when somebody created it, and was its owner.
TeamsInit ==
  /\ role = StartRole
  /\ squads = {t \in Squads : \E u \in Members : StartRole[u][t] = "owner"}
  /\ offer = [o \in Offers |-> Nothing]
  /\ channel = StartTeam
  /\ note = [q \in Notes |-> Nothing]
  /\ flow = [f \in Flows |-> Nothing]
  /\ today = 0
  /\ change = [n |-> 0, by |-> Nothing, teams |-> {}, late |-> FALSE]

TeamRequest(k) ==
  \/ \E t \in Squads : handleCreateTeam(k, t)
  \/ \E t \in Squads, u \in Members : handleRemoveTeamMember(k, t, u) \/ \E r \in Roles : handleAddTeamMember(k, t, u, r)
  \/ \E o \in Offers :
        \/ handleAcceptTeamInvitation(k, o)
        \/ handleDeleteTeamInvitation(k, o)
        \/ \E t \in Squads, u \in Members, r \in Roles : handleCreateTeamInvitation(k, o, t, u, r)
  \/ \E f \in Flows, t \in Squads :
        \/ StartConnect(k, f, t)
        \/ StartOAuth(k, f, t)
        \/ \E a \in Channels : StartDisconnect(k, f, t, a)
  \/ \E a \in Channels : UpdateAccount(k, a) \/ \E t \in Squads : handleMigrateAccount(k, a, t)
  \/ \E q \in Notes, targets \in SUBSET Channels :
        \/ RetargetTeamPost(k, q, targets)
        \/ \E t \in Squads : handleCreateTeamPost(k, q, t, targets)

SlowStep(f) == OAuthCallback(f) \/ GiveUp(f) \/ DeleteSocialAccount(f) \/ \E a \in Channels : CreateAccount(f, a)

TeamsNext == (\E k \in Keys : TeamRequest(k)) \/ (\E f \in Flows : SlowStep(f)) \/ TickTeams

\* A post and the accounts it goes to belong to one team, through moves, disconnects
\* and edits in any order (MigrateAccountToTeam, ResolveTargets).
PostsFollowTheirAccount ==
  \A q \in Notes : note[q] # Nothing => \A a \in note[q].targets : channel[a] = note[q].team

\* No change that is made with a token bound to a team touches another team, through
\* any route and also for administrators (PrincipalHasTeamAccess, tokenRouteAllows).
BoundTokenStaysHome ==
  change.n > 0 /\ change.by.team # NoTeam => change.teams \subseteq {change.by.team}

\* The same, but for a disconnect whose account was moved to another team between the
\* check and the deletion by id (handleDeleteAccount).
BoundCallsStayHome == change.late \/ BoundTokenStaysHome

TeamsSpec == TeamsInit /\ [][TeamsNext]_teamVars
==============================================================================
