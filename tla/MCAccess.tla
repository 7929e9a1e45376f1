------------------------------- MODULE MCAccess -------------------------------
(* Four scenes in one run: the scene is chosen in the initial state and only its *)
(* part moves. Tokens are followed for one person and without logins; logins for *)
(* two people and one more tick, with at most two callbacks at a time, and       *)
(* without requests and sessions made from tokens.                               *)
EXTENDS AccessTokens, TeamAccess, Transactions, TLC

CONSTANTS u1, u2, root, A, B, k1, k2, k3, l1, l2, r1, a1, a2, n1, o1, f1, f2

VARIABLE scene

SomeGrants == {{}, {"write"}, {"write:draft"}}

\* Two owners in the browser, an administrator's key bound to a team and a scoped key.
SomeKeys ==
  { [user |-> u1, admin |-> FALSE, scopes |-> {}, team |-> NoTeam],
    [user |-> u2, admin |-> TRUE, scopes |-> {}, team |-> A],
    [user |-> u1, admin |-> FALSE, scopes |-> {"write"}, team |-> NoTeam] }

OneTeam == (u1 :> (A :> "owner" @@ B :> "none")) @@ (u2 :> (A :> "none" @@ B :> "none"))
OneAccount == a1 :> A @@ a2 :> A

Symmetric == Permutations({k1, k2, k3})

\* Three steps of one caller and one of another; the steps are named like tokens, so
\* that one symmetry serves both scenes.
Callers == [s \in {k1, k2, k3, n1} |-> IF s = n1 THEN u2 ELSE u1]

AccessInit ==
  /\ scene \in {"tokens", "logins", "teams", "requests"}
  /\ TokensInit /\ TeamsInit /\ TxInit

OnePerson == account'[u2] = "absent" /\ clock' < MaxClock /\ UNCHANGED <<login, callback>>
OnlyLogins ==
  /\ UNCHANGED <<request, admitted>> /\ Cardinality(callback') <= 2
  /\ \A id \in DOMAIN tokens' : tokens'[id].name = "bootstrap" \/ tokens'[id].login # None

AccessNext ==
  /\ UNCHANGED scene
  /\ \/ scene = "tokens" /\ TokensNext /\ OnePerson /\ UNCHANGED <<teamVars, txVars>>
     \/ scene = "logins" /\ TokensNext /\ OnlyLogins /\ UNCHANGED <<teamVars, txVars>>
     \/ scene = "teams" /\ TeamsNext /\ UNCHANGED <<tokenVars, txVars>>
     \/ scene = "requests" /\ TxNext /\ UNCHANGED <<tokenVars, teamVars>>

AccessSpec == AccessInit /\ [][AccessNext]_<<tokenVars, teamVars, txVars, scene>>
==============================================================================
