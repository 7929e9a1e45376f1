----------------------------- MODULE AgentTools -----------------------------
(* The assistant's tools: one catalog, run by the in-app chat (the model      *)
(* calls, some calls are proposed to the user first), by the confirm-action   *)
(* endpoint and by the MCP server. A conversation belongs to the team Here;   *)
(* each team has one connected account, named like the team.                  *)
EXTENDS Authority, Integers, FiniteSets, FiniteSetsExt

CONSTANTS
  Here, Elsewhere,  \* the team of the conversation and another one
  Notes,            \* ids of posts
  Ranks,            \* roles that come and go
  MaxTurns,         \* chatMaxIterations
  LastDay           \* the calendar: 1..LastDay lie ahead, 0 is not in the future

ASSUME AgentAssumption == LastDay \in Nat

VARIABLES
  agent,    \* the principal of every request: [user, scopes, team]
  rank,     \* the user's role per team
  shelf,    \* scheduled_posts: [team, status, day, out] or NoNote
  talk,     \* the chat request: [stage, turns, call, seen]
  deed      \* ghost: what a tool has just changed, and under which circumstances

agentVars == <<agent, rank, shelf, talk, deed>>

Squads == {Here, Elsewhere}
roleViewer == {"viewer", "editor", "owner"}
roleEditor == {"editor", "owner"}
NoNote == [team |-> NoTeam, status |-> "none", day |-> 0, out |-> {}]
NoTalk == [stage |-> "idle", turns |-> 0, call |-> "none", seen |-> "none"]
NoDeed == [tool |-> "none"]
Keep == -1                    \* a field the patch does not set
On(n) == shelf[n] # NoNote

(* The catalog: scope, chat confirmation and transports of a tool.            *)
Entry(scope, confirm, via) == [scope |-> scope, confirm |-> confirm, via |-> via]
Shared == {"chat", "mcp"}
All == [
  read             |-> Entry("", "never", Shared),
  revise_composer  |-> Entry("", "never", {"chat"}),
  get_teams        |-> Entry("", "never", {"mcp"}),
  draft_post       |-> Entry("write:draft", "never", Shared),
  modify_post      |-> Entry("write", "if", Shared),
  create_campaign  |-> Entry("write", "never", Shared),
  schedule_post    |-> Entry("write:schedule", "always", Shared),
  delete_post      |-> Entry("delete", "always", Shared),
  create_recurring |-> Entry("write", "always", Shared),
  create_rss_feed  |-> Entry("write", "always", Shared)]
Exposes(tool, transport) == transport \in All[tool].via

\* What a model, a client or the user may ask for.
Aims == {{}, {Here}, Squads}
AgentCalls ==
  [tool: {"draft_post"}, team: Squads, note: Notes, day: {Keep}, out: Aims]
  \cup [tool: {"schedule_post", "modify_post"}, team: Squads, note: Notes, day: {Keep} \cup 0..LastDay, out: Aims]
  \cup [tool: {"delete_post"}, team: Squads, note: Notes, day: {Keep}, out: {{}}]
  \cup [tool: {"create_campaign"}, team: Squads, note: {CHOOSE n \in Notes: TRUE}, day: {Keep}, out: {{}}]
  \cup [tool: {"create_recurring", "create_rss_feed"}, team: Squads, note: {CHOOSE n \in Notes: TRUE}, day: {Keep}, out: Aims]
\* A patch leaves a field alone with Keep and with the empty set.
Moves(c) == c.day # Keep \/ c.out # {}

AgentInit ==
  /\ agent \in [user: {"u"}, scopes: {{}, {"read", "write"}}, team: {NoTeam, Here}]
  /\ rank = [t \in Squads |-> IF t = Here THEN "editor" ELSE "viewer"]
  /\ shelf = [n \in Notes |-> [team |-> Here, status |-> "pending", day |-> 1, out |-> {Here}]]
  /\ talk = NoTalk /\ deed = NoDeed

requireScope(tool) == All[tool].scope = "" \/ PrincipalAllows(agent, All[tool].scope)
requireTeam(t, roles) == agent.team \in {NoTeam, t} /\ rank[t] \in roles

(* confirmModifyPost fails closed; the status it reads is not locked.         *)
GateByFields(c) == Moves(c)
confirmModifyPost(c) ==
  \/ Moves(c)
  \/ ~On(c.note) \/ shelf[c.note].team # c.team
  \/ shelf[c.note].status # "draft"

NeedsConfirmation(c) ==
  \/ All[c.tool].confirm = "always"
  \/ All[c.tool].confirm = "if" /\ confirmModifyPost(c)

\* ResolveTargets: every target is an account of the team.
ResolveTargetAccounts(t, out) == out \subseteq {t}

\* Prepare: what is not a draft has targets and lies ahead; limits may refuse.
PrepareAgentPost(t, draft, day, out) ==
  /\ ResolveTargetAccounts(t, out)
  /\ ~draft => day > 0 /\ out # {}

Effect(c, by, t) ==
  [tool |-> c.tool, by |-> by, team |-> t, rank |-> rank[t], moves |-> Moves(c), out |-> c.out,
   seen |-> IF by = "chat" THEN talk.seen ELSE "none"]

(* The write tools. Each runs in one transaction with its audit event.        *)
coreDraftPost(c, by) ==
  /\ requireTeam(c.team, roleEditor) /\ PrepareAgentPost(c.team, TRUE, 0, c.out)
  /\ ~On(c.note)
  /\ shelf' = [shelf EXCEPT ![c.note] = [team |-> c.team, status |-> "draft", day |-> 0, out |-> c.out]]
  /\ deed' = Effect(c, by, c.team)

coreSchedulePost(c, by) ==
  /\ requireTeam(c.team, roleEditor) /\ PrepareAgentPost(c.team, FALSE, c.day, c.out)
  /\ ~On(c.note)
  /\ shelf' = [shelf EXCEPT ![c.note] = [team |-> c.team, status |-> "pending", day |-> c.day, out |-> c.out]]
  /\ deed' = Effect(c, by, c.team)

\* ResolvePostStatusOnUpdate, for a post that people or templates made.
StatusAfterPatch(was, day) ==
  IF was \in {"posted", "processing", "cancelled", "draft"} THEN was ELSE IF day > 0 THEN "pending" ELSE was

coreModifyPost(c, by) ==
  /\ On(c.note) /\ shelf[c.note].team = c.team
  /\ requireTeam(shelf[c.note].team, roleEditor)
  /\ LET old == shelf[c.note]
         day == IF c.day = Keep THEN old.day ELSE c.day
         out == IF c.out = {} THEN old.out ELSE c.out
     IN /\ PrepareAgentPost(old.team, old.status = "draft", day, out)
        /\ shelf' = [shelf EXCEPT ![c.note] = [old EXCEPT !.day = day, !.out = out,
                                                        !.status = StatusAfterPatch(old.status, day)]]
        /\ deed' = Effect(c, by, old.team)

coreDeletePost(c, by) ==
  /\ On(c.note) /\ shelf[c.note].team = c.team
  /\ requireTeam(shelf[c.note].team, roleEditor)
  /\ deed' = Effect(c, by, c.team)
  /\ shelf' = [shelf EXCEPT ![c.note] = NoNote]

(* Campaign formats, templates and feeds are new rows; the other modules hold *)
(* what becomes of them, here the deed says what was made.                    *)
Make(c, by) ==
  /\ requireTeam(c.team, roleEditor)
  /\ deed' = Effect(c, by, c.team) /\ UNCHANGED shelf
coreCreateCampaign(c, by) == Make(c, by)
coreCreateRecurring(c, by) == c.out # {} /\ ResolveTargetAccounts(c.team, c.out) /\ Make(c, by)
coreCreateRSSFeed(c, by) == c.out # {} /\ ResolveTargetAccounts(c.team, c.out) /\ Make(c, by)

core(c, by) ==
  \/ c.tool = "draft_post" /\ coreDraftPost(c, by)
  \/ c.tool = "schedule_post" /\ coreSchedulePost(c, by)
  \/ c.tool = "modify_post" /\ coreModifyPost(c, by)
  \/ c.tool = "delete_post" /\ coreDeletePost(c, by)
  \/ c.tool = "create_campaign" /\ coreCreateCampaign(c, by)
  \/ c.tool = "create_recurring" /\ coreCreateRecurring(c, by)
  \/ c.tool = "create_rss_feed" /\ coreCreateRSSFeed(c, by)

invoke(c, by) == requireScope(c.tool) /\ core(c, by)

(* handleAIChat: the principal is read once, the loop then runs on its own.   *)
handleAIChat ==
  /\ talk = NoTalk
  /\ tokenRouteAllows(agent, "read", Here) /\ requireTeam(Here, roleEditor)
  /\ talk' = [NoTalk EXCEPT !.stage = "model"]
  /\ UNCHANGED <<agent, rank, shelf, deed>>

(* RunChat: a turn of the model. It fails, answers in words, or asks for tools.*)
RunChat ==
  /\ talk.stage = "model"
  /\ talk' \in {NoTalk} \cup
       IF talk.turns < MaxTurns THEN {[talk EXCEPT !.stage = "call", !.turns = @ + 1]} ELSE {}
  /\ UNCHANGED <<agent, rank, shelf, deed>>

\* The call is done, whatever came of it: the same answer holds another, or it is the model's turn.
AfterCall == {[talk EXCEPT !.stage = s, !.call = "none", !.seen = "none"]: s \in {"call", "model"}}

(* ChatTools: the team is injected, whatever the model wrote; the gate reads  *)
(* before the tool's transaction begins. A proposal, an unknown tool and bad  *)
(* arguments change nothing: the client holds the card.                       *)
injectField(c) == [c EXCEPT !.team = Here]
ChatTools(asked) ==
  /\ talk.stage = "call"
  /\ LET c == injectField(asked)
     IN \/ /\ Exposes(c.tool, "chat") /\ ~NeedsConfirmation(c)
           /\ talk' = [talk EXCEPT !.stage = "exec", !.call = c,
                                   !.seen = shelf[c.note].status]
        \/ /\ NeedsConfirmation(c) \/ ~Exposes(c.tool, "chat")
           /\ talk' \in AfterCall
  /\ UNCHANGED <<agent, rank, shelf, deed>>

ExecuteCall ==
  /\ talk.stage = "exec"
  /\ talk' \in AfterCall
  /\ invoke(talk.call, "chat") \/ UNCHANGED <<shelf, deed>>
  /\ UNCHANGED <<agent, rank>>

(* handleAIConfirmAction: the user's request names tool and arguments; it may *)
(* come late, twice or for a post that changed since the proposal.            *)
RunConfirmed(asked) ==
  /\ tokenRouteAllows(agent, "confirm", Here) /\ requireTeam(Here, roleEditor)
  /\ All[asked.tool].confirm # "never"
  /\ invoke(injectField(asked), "user")
  /\ UNCHANGED <<agent, rank, talk>>

(* The MCP server: a bearer token per request, no confirmation, any team.     *)
ServeMCP(c) ==
  /\ PrincipalAllows(agent, "read") /\ Exposes(c.tool, "mcp")
  /\ invoke(c, "mcp")
  /\ UNCHANGED <<agent, rank, talk>>

(* Everyone else: owners change roles, people and the publisher move posts.   *)
ChangeRank(t, r) == rank' = [rank EXCEPT ![t] = r] /\ UNCHANGED <<agent, shelf, talk, deed>>
MovePost(n) ==
  /\ On(n)
  /\ \/ shelf[n].status = "draft" /\ shelf[n].out # {}
        /\ shelf' = [shelf EXCEPT ![n].status = "pending", ![n].day = LastDay]
     \/ shelf[n].status = "pending" /\ shelf' = [shelf EXCEPT ![n].status = "cancelled"]
     \/ shelf[n].status = "pending" /\ shelf' = [shelf EXCEPT ![n].status = "posted", ![n].day = 0]
     \/ shelf[n].status = "posted" /\ shelf' = [shelf EXCEPT ![n].status = "failed"]
  /\ UNCHANGED <<agent, rank, talk, deed>>

\* The deed is looked at in the state it was done in, and then forgotten.
Forget == deed' = NoDeed /\ UNCHANGED <<agent, rank, shelf, talk>>

AgentNext ==
  \/ /\ deed = NoDeed
     /\ \/ handleAIChat \/ RunChat \/ ExecuteCall
        \/ \E c \in AgentCalls: ChatTools(c) \/ RunConfirmed(c) \/ ServeMCP(c)
        \/ \E t \in Squads, r \in Ranks: ChangeRank(t, r)
        \/ \E n \in Notes: MovePost(n)
  \/ deed # NoDeed /\ Forget

AgentSpec == AgentInit /\ [][AgentNext]_agentVars

(* The read tools over the calendar.                                          *)
NotesOf(t) == {n \in Notes: On(n) /\ shelf[n].team = t}
coreGetPosts(t, status) == {n \in NotesOf(t): status \in {"", shelf[n].status}}
coreSearchPosts(t, status, from, to) == {n \in coreGetPosts(t, status): shelf[n].day >= from /\ shelf[n].day <= to}
coreGetCalendar(t, from, to) == {n \in NotesOf(t): shelf[n].day > from /\ shelf[n].day < to}
FindNextFreeSlot(t, after, before) ==
  LET free == {d \in after..(before - 1): \A n \in NotesOf(t): shelf[n].day = d => shelf[n].status \in {"cancelled", "failed"}}
  IN IF free = {} THEN 0 ELSE Min(free)
coreFindFreeSlot(t) == FindNextFreeSlot(t, 1, LastDay + 1)

(* What an agent does on its own account. Whatever role and scope a tool used *)
(* were held when it ran, not only when the conversation began; a bound token *)
(* changed nothing outside its team; and the chat, without the user's click,  *)
(* made drafts and campaign formats of its team and edited the words of posts *)
(* it had seen as drafts, nothing else (NeedsConfirmation, RunConfirmed,      *)
(* requireTeam inside the tools). And the answers fit each other: a free slot *)
(* is a day on which the calendar shows nothing that will be published, and   *)
(* there is none before it.                                                   *)
AgentActsWithConsent ==
  /\ deed # NoDeed =>
       /\ deed.out \subseteq {deed.team} /\ deed.rank \in roleEditor /\ agent.team \in {NoTeam, deed.team} /\ PrincipalAllows(agent, All[deed.tool].scope)
       /\ deed.by = "chat" =>
            /\ deed.team = Here
            /\ deed.tool \in {"draft_post", "create_campaign"} \/ (deed.tool = "modify_post" /\ deed.seen = "draft" /\ ~deed.moves)
  /\ \A n \in Notes: On(n) => shelf[n].out \subseteq {shelf[n].team}
  /\ \A t \in Squads:
       LET slot == coreFindFreeSlot(t)
           live(d) == coreSearchPosts(t, "", d, d) \ (coreGetPosts(t, "cancelled") \cup coreGetPosts(t, "failed"))
       IN /\ \A d \in 1..LastDay: slot = 0 \/ d < slot => live(d) # {}
          /\ slot > 0 => live(slot) = {} /\ coreGetCalendar(t, slot - 1, slot + 1) = coreSearchPosts(t, "", slot, slot)
=============================================================================
