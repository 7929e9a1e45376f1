------------------------------ MODULE MCInsight ------------------------------
(* Four instances in one run: the scene is chosen in the initial state and     *)
(* only its module moves.                                                      *)
EXTENDS ExternalImport, Metrics, AgentTools, Upgrade, TLC

CONSTANTS p1, p2, acc, q1, c1, c2
VARIABLE scene

\* Two posts of one account, and the account itself.
Pages == {p1, p2}
Targets == Pages \X {acc}
Profiles == {<<acc>>}
\* Two announcement templates of one recurring post.
Announced == c1 :> q1 @@ c2 :> q1

Symmetric == Permutations(Pages) \cup Permutations(Rounds)

InsightVars == <<importVars, metricVars, agentVars, upgradeVars, scene>>

\* The modules that rest in a scene start from one of their initial states.
Rests ==
  /\ shape = "automation" /\ given.filled = Groups /\ relaxed = Constrained /\ marker = NotThere
  /\ templates = Children /\ configs = {} /\ remote = "null" /\ name = [t \in Workspaces |-> Legacy(t)]

InsightInit ==
  /\ scene \in {"import", "metrics", "agent", "upgrade"}
  /\ ImportInit /\ MetricsInit /\ AgentInit /\ UpgradeInit
  /\ scene # "import" => open = {}
  /\ scene # "metrics" => job = "posts"
  /\ scene # "agent" => agent.scopes = {} /\ agent.team = Here
  /\ scene # "upgrade" => Rests

InsightNext ==
  /\ UNCHANGED scene
  /\ \/ scene = "import" /\ ImportNext /\ UNCHANGED <<metricVars, agentVars, upgradeVars>>
     \/ scene = "metrics" /\ MetricsNext /\ UNCHANGED <<importVars, agentVars, upgradeVars>>
     \/ scene = "agent" /\ AgentNext /\ UNCHANGED <<importVars, metricVars, upgradeVars>>
     \/ scene = "upgrade" /\ UpgradeNext /\ UNCHANGED <<importVars, metricVars, agentVars>>

InsightSpec == InsightInit /\ [][InsightNext]_InsightVars
==============================================================================
