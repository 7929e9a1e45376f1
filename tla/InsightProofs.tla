---------------------------- MODULE InsightProofs ----------------------------
(***************************************************************************)
(* For any number of posts, teams, calls, templates, workspaces, starts    *)
(* and stops: an agent acts with the consent of the person it acts for,    *)
(* and an upgrade, interrupted anywhere and begun again, loses nothing;    *)
(* and for any number of replicas, accounts and statuses an import of      *)
(* posts written elsewhere leaves none out, and a round that reads numbers *)
(* replaces none that were read later.                                     *)
(***************************************************************************)
EXTENDS AgentTools, Upgrade, ExternalImport, Metrics, FiniteSetTheorems, WellFoundedInduction, TLAPS

LEMMA LeastOf ==
  ASSUME NEW S, S \subseteq Nat, S # {}
  PROVE  Min(S) \in S /\ \A k \in S : Min(S) <= k
<1>1. IsWellFoundedOn(OpToRel(<,Nat), Nat)
  BY NatLessThanWellFounded
<1>2. PICK m \in S : \A k \in S : ~(<<k, m>> \in OpToRel(<,Nat))
  <2> HIDE DEF OpToRel
  <2> QED BY <1>1, WFMin
<1>3. \A k \in S : m <= k
  <2>1. \A k \in S : ~(k < m)
    BY <1>2 DEF OpToRel
  <2> QED BY <2>1
<1> QED BY <1>3 DEF Min

(* AgentTools. *)

\* A row of scheduled_posts that goes to accounts of its team.
NoteRow(r) ==
  /\ r \in [team : Squads, status : {r.status}, day : Int, out : SUBSET Squads]
  /\ r.out \subseteq {r.team}

NotesSound ==
  /\ shelf = [n \in Notes |-> shelf[n]]
  /\ \A n \in Notes : On(n) => NoteRow(shelf[n])

\* What an agent may ask for has the fields of a tool's arguments.
CallRow(c) ==
  /\ c.tool \in {"draft_post", "schedule_post", "modify_post", "delete_post",
                 "create_campaign", "create_recurring", "create_rss_feed"}
  /\ c \in [tool : {c.tool}, team : Squads, note : {c.note}, day : Int, out : Aims]
  /\ c.tool \in {"delete_post", "create_campaign"} => c.out = {}
  /\ c.tool \in {"draft_post", "schedule_post", "modify_post", "delete_post"} => c.note \in Notes

\* The chat runs a call without asking when it makes something that is not published,
\* or edits the words of what was a draft when the gate looked.
Unasked(c, status) ==
  \/ c.tool \in {"draft_post", "create_campaign"}
  \/ c.tool = "modify_post" /\ status = "draft" /\ ~Moves(c)

TalkSound ==
  /\ talk = [stage |-> talk.stage, turns |-> talk.turns, call |-> talk.call, seen |-> talk.seen]
  /\ talk.stage = "exec" => /\ CallRow(talk.call) /\ talk.call.team = Here
                            /\ Unasked(talk.call, talk.seen)

\* A deed was in the right of its agent, as far as the chat goes with consent.
DeedSound ==
  deed # NoDeed =>
    /\ deed.out \subseteq {deed.team} /\ deed.rank \in roleEditor
    /\ agent.team \in {NoTeam, deed.team} /\ PrincipalAllows(agent, All[deed.tool].scope)
    /\ deed.by = "chat" =>
         /\ deed.team = Here
         /\ deed.tool \in {"draft_post", "create_campaign"}
            \/ (deed.tool = "modify_post" /\ deed.seen = "draft" /\ ~deed.moves)

AgentIInv == NotesSound /\ TalkSound /\ DeedSound

\* The tools that change something need a scope, and the chat asks before most of them.
LEMMA Catalog ==
  /\ \A tool \in {"draft_post", "schedule_post", "modify_post", "delete_post",
                  "create_campaign", "create_recurring", "create_rss_feed"} : All[tool].scope # ""
  /\ \A tool \in {"schedule_post", "delete_post", "create_recurring", "create_rss_feed"} :
       All[tool].confirm = "always"
  /\ All["modify_post"].confirm = "if"
<1>1. /\ All["draft_post"] = Entry("write:draft", "never", Shared)
      /\ All["modify_post"] = Entry("write", "if", Shared)
      /\ All["create_campaign"] = Entry("write", "never", Shared)
      /\ All["schedule_post"] = Entry("write:schedule", "always", Shared)
      /\ All["delete_post"] = Entry("delete", "always", Shared)
      /\ All["create_recurring"] = Entry("write", "always", Shared)
      /\ All["create_rss_feed"] = Entry("write", "always", Shared)
  BY DEF All
<1>2. /\ All["draft_post"].scope = "write:draft" /\ All["modify_post"].scope = "write"
      /\ All["create_campaign"].scope = "write" /\ All["schedule_post"].scope = "write:schedule"
      /\ All["delete_post"].scope = "delete" /\ All["create_recurring"].scope = "write"
      /\ All["create_rss_feed"].scope = "write"
  BY <1>1 DEF Entry
<1>3. /\ All["modify_post"].confirm = "if" /\ All["schedule_post"].confirm = "always"
      /\ All["delete_post"].confirm = "always" /\ All["create_recurring"].confirm = "always"
      /\ All["create_rss_feed"].confirm = "always"
  BY <1>1 DEF Entry
<1> QED BY <1>2, <1>3

LEMMA CallsTyped ==
  ASSUME NEW c \in AgentCalls
  PROVE  CallRow(c)
<1>1. Keep \in Int /\ \A d \in 0..LastDay : d \in Int
  BY AgentAssumption DEF Keep
<1>2. CASE c \in [tool: {"draft_post"}, team: Squads, note: Notes, day: {Keep}, out: Aims]
  BY <1>1, <1>2 DEF CallRow
<1>3. CASE c \in [tool: {"schedule_post", "modify_post"}, team: Squads, note: Notes,
                  day: {Keep} \cup 0..LastDay, out: Aims]
  BY <1>1, <1>3 DEF CallRow
<1>4. CASE c \in [tool: {"delete_post"}, team: Squads, note: Notes, day: {Keep}, out: {{}}]
  BY <1>1, <1>4 DEF CallRow, Aims
<1>5. CASE \E n : c \in [tool: {"create_campaign"}, team: Squads, note: {n}, day: {Keep}, out: {{}}]
  BY <1>1, <1>5 DEF CallRow, Aims
<1>6. CASE \E n : c \in [tool: {"create_recurring", "create_rss_feed"}, team: Squads, note: {n},
                        day: {Keep}, out: Aims]
  BY <1>1, <1>6 DEF CallRow
<1> QED BY <1>2, <1>3, <1>4, <1>5, <1>6 DEF AgentCalls

\* The team of the conversation takes the place of the one the model named.
LEMMA InjectedCall ==
  ASSUME NEW c, CallRow(c)
  PROVE  CallRow(injectField(c)) /\ injectField(c).team = Here /\ injectField(c).tool = c.tool
BY DEF CallRow, injectField, Squads

LEMMA RowChanged ==
  ASSUME NEW r, NoteRow(r), NEW s, NEW d \in Int
  PROVE  NoteRow([r EXCEPT !.status = s]) /\ NoteRow([r EXCEPT !.status = s, !.day = d])
<1> DEFINE q == [r EXCEPT !.status = s]
           u == [r EXCEPT !.status = s, !.day = d]
<1>1. NoteRow(q)
  BY DEF NoteRow
<1>2. NoteRow(u)
  BY DEF NoteRow
<1> QED BY <1>1, <1>2

LEMMA ToolKeeps ==
  ASSUME AgentIInv, NEW c, CallRow(c), NEW by, invoke(c, by),
         by = "chat" => c.team = Here /\ Unasked(c, talk.seen)
  PROVE  NotesSound' /\ (agent' = agent => DeedSound')
<1>1. PrincipalAllows(agent, All[c.tool].scope)
  BY Catalog DEF invoke, requireScope, CallRow
<1> DEFINE Right(t) ==
      /\ deed' = Effect(c, by, t) /\ t = c.team /\ requireTeam(t, roleEditor) /\ c.out \subseteq {t}
<1>2. ASSUME NEW t, Right(t) PROVE agent' = agent => DeedSound'
  <2>1. /\ deed'.tool = c.tool /\ deed'.by = by /\ deed'.team = t /\ deed'.rank = rank[t]
        /\ deed'.moves = Moves(c) /\ deed'.out = c.out
        /\ deed'.by = "chat" => deed'.seen = talk.seen
    BY <1>2 DEF Effect
  <2> QED BY <1>1, <1>2, <2>1 DEF DeedSound, requireTeam, Unasked
<1> DEFINE Put(r) == c.note \in Notes /\ shelf' = [shelf EXCEPT ![c.note] = r]
<1>3. ASSUME NEW r, Put(r), r # NoNote => NoteRow(r) PROVE NotesSound'
  <2>1. /\ shelf' = [n \in Notes |-> shelf'[n]]
        /\ \A n \in Notes : shelf'[n] = IF n = c.note THEN r ELSE shelf[n]
    BY <1>3 DEF AgentIInv, NotesSound
  <2> QED BY <1>3, <2>1 DEF AgentIInv, NotesSound, On
<1> HIDE DEF Right, Put
<1>10. CASE c.tool = "draft_post" /\ coreDraftPost(c, by)
  <2> DEFINE r == [team |-> c.team, status |-> "draft", day |-> 0, out |-> c.out]
  <2>1. Right(c.team) /\ Put(r)
    BY <1>10 DEF coreDraftPost, Right, Put, PrepareAgentPost, ResolveTargetAccounts, CallRow
  <2>2. NoteRow(r)
    BY <1>10 DEF coreDraftPost, PrepareAgentPost, ResolveTargetAccounts, CallRow, NoteRow, Aims
  <2> HIDE DEF r
  <2> QED BY <1>2, <1>3, <2>1, <2>2
<1>11. CASE c.tool = "schedule_post" /\ coreSchedulePost(c, by)
  <2> DEFINE r == [team |-> c.team, status |-> "pending", day |-> c.day, out |-> c.out]
  <2>1. Right(c.team) /\ Put(r)
    BY <1>11 DEF coreSchedulePost, Right, Put, PrepareAgentPost, ResolveTargetAccounts, CallRow
  <2>2. NoteRow(r)
    BY <1>11 DEF coreSchedulePost, PrepareAgentPost, ResolveTargetAccounts, CallRow, NoteRow, Aims
  <2> HIDE DEF r
  <2> QED BY <1>2, <1>3, <2>1, <2>2
<1>12. CASE c.tool = "modify_post" /\ coreModifyPost(c, by)
  <2> DEFINE old == shelf[c.note]
             day == IF c.day = Keep THEN old.day ELSE c.day
             out == IF c.out = {} THEN old.out ELSE c.out
             r   == [old EXCEPT !.day = day, !.out = out, !.status = StatusAfterPatch(old.status, day)]
  <2>1. /\ On(c.note) /\ old.team = c.team /\ c.note \in Notes /\ NoteRow(old)
        /\ requireTeam(old.team, roleEditor) /\ out \subseteq {old.team}
        /\ deed' = Effect(c, by, old.team)
    BY <1>12 DEF coreModifyPost, PrepareAgentPost, ResolveTargetAccounts, AgentIInv, NotesSound, CallRow
  <2>2. shelf' = [shelf EXCEPT ![c.note] = r]
    BY <1>12 DEF coreModifyPost
  <2>3. Right(c.team) /\ Put(r)
    BY <2>1, <2>2 DEF Right, Put
  <2>4. day \in Int /\ out \in SUBSET Squads
    BY <2>1 DEF NoteRow, CallRow, Aims
  <2>5. NoteRow(r)
    <3> HIDE DEF day, out, old
    <3> QED BY <2>1, <2>4 DEF NoteRow
  <2> HIDE DEF r
  <2> QED BY <1>2, <1>3, <2>3, <2>5
<1>13. CASE c.tool = "delete_post" /\ coreDeletePost(c, by)
  <2>1. Right(c.team) /\ Put(NoNote)
    BY <1>13 DEF coreDeletePost, Right, Put, CallRow
  <2> QED BY <1>2, <1>3, <2>1
<1>14. CASE c.tool \in {"create_campaign", "create_recurring", "create_rss_feed"} /\ Make(c, by)
            /\ c.out \subseteq {c.team}
  <2>1. Right(c.team)
    BY <1>14 DEF Make, Right
  <2>2. NotesSound'
    BY <1>14 DEF Make, AgentIInv, NotesSound, On
  <2> QED BY <1>2, <2>1, <2>2
<1>15. CASE c.tool = "create_campaign" /\ coreCreateCampaign(c, by)
  BY <1>14, <1>15 DEF coreCreateCampaign, CallRow
<1>16. CASE c.tool = "create_recurring" /\ coreCreateRecurring(c, by)
  BY <1>14, <1>16 DEF coreCreateRecurring, ResolveTargetAccounts
<1>17. CASE c.tool = "create_rss_feed" /\ coreCreateRSSFeed(c, by)
  BY <1>14, <1>17 DEF coreCreateRSSFeed, ResolveTargetAccounts
<1> QED BY <1>10, <1>11, <1>12, <1>13, <1>15, <1>16, <1>17 DEF invoke, core

THEOREM AgentInductive == AgentSpec => []AgentIInv
<1>1. AgentInit => AgentIInv
  <2> SUFFICES ASSUME AgentInit PROVE AgentIInv
    OBVIOUS
  <2>1. NotesSound
    BY DEF AgentInit, NotesSound, NoteRow, Squads
  <2> QED BY <2>1 DEF AgentInit, AgentIInv, TalkSound, DeedSound, NoTalk
<1>2. AgentIInv /\ [AgentNext]_agentVars => AgentIInv'
  <2> SUFFICES ASSUME AgentIInv, [AgentNext]_agentVars PROVE AgentIInv'
    OBVIOUS
  <2> USE DEF AgentIInv
  <2>1. ASSUME UNCHANGED <<agent, rank, shelf, deed>> PROVE NotesSound' /\ DeedSound'
    BY <2>1 DEF NotesSound, DeedSound, On
  <2>2. CASE handleAIChat \/ RunChat
    <3>1. /\ talk'.stage # "exec"
          /\ talk' = [stage |-> talk'.stage, turns |-> talk'.turns, call |-> talk'.call,
                      seen |-> talk'.seen]
      <4>1. CASE talk' \in {NoTalk, [NoTalk EXCEPT !.stage = "model"]}
        BY <4>1 DEF NoTalk
      <4>2. CASE talk' = [talk EXCEPT !.stage = "call", !.turns = @ + 1]
        BY <4>2 DEF TalkSound
      <4>3. handleAIChat => talk' = [NoTalk EXCEPT !.stage = "model"]
        BY DEF handleAIChat
      <4>4. RunChat => talk' = NoTalk \/ talk' = [talk EXCEPT !.stage = "call", !.turns = @ + 1]
        BY DEF RunChat
      <4> QED BY <2>2, <4>1, <4>2, <4>3, <4>4
    <3> QED BY <2>1, <2>2, <3>1 DEF handleAIChat, RunChat, TalkSound
  <2>11. ASSUME talk' \in AfterCall PROVE TalkSound'
    <3>1. PICK s \in {"call", "model"} :
            talk' = [talk EXCEPT !.stage = s, !.call = "none", !.seen = "none"]
      BY <2>11 DEF AfterCall
    <3> QED BY <3>1 DEF TalkSound
  <2>3. CASE ExecuteCall
    <3>1. talk.stage = "exec" /\ agent' = agent
      BY <2>3 DEF ExecuteCall
    <3>2. NotesSound' /\ DeedSound'
      <4>1. CASE invoke(talk.call, "chat")
        BY <3>1, <4>1, ToolKeeps DEF TalkSound
      <4>2. CASE UNCHANGED <<shelf, deed>>
        BY <3>1, <4>2 DEF NotesSound, DeedSound, On
      <4> QED BY <2>3, <4>1, <4>2 DEF ExecuteCall
    <3>3. talk' \in AfterCall
      BY <2>3 DEF ExecuteCall
    <3> QED BY <3>2, <3>3, <2>11
  <2>4. ASSUME NEW c \in AgentCalls, ChatTools(c) PROVE AgentIInv'
    <3> DEFINE call == injectField(c)
    <3>1. CallRow(call) /\ call.team = Here
      BY CallsTyped, InjectedCall
    <3>2. CASE /\ Exposes(call.tool, "chat") /\ ~NeedsConfirmation(call)
               /\ talk' = [talk EXCEPT !.stage = "exec", !.call = call,
                                       !.seen = shelf[call.note].status]
      <4>1. Unasked(call, shelf[call.note].status)
        BY <3>1, <3>2, Catalog DEF NeedsConfirmation, confirmModifyPost, CallRow, Unasked
      <4> HIDE DEF call
      <4>2. talk'.call = call /\ talk'.seen = shelf[call.note].status
            /\ talk' = [stage |-> talk'.stage, turns |-> talk'.turns, call |-> talk'.call,
                        seen |-> talk'.seen]
        BY <3>2 DEF TalkSound
      <4> QED BY <2>1, <2>4, <3>1, <4>1, <4>2 DEF ChatTools, TalkSound
    <3>3. CASE talk' \in AfterCall
      BY <2>1, <2>4, <2>11, <3>3 DEF ChatTools
    <3> QED BY <2>4, <3>2, <3>3 DEF ChatTools
  <2>5. ASSUME NEW c \in AgentCalls, RunConfirmed(c) PROVE AgentIInv'
    <3>1. CallRow(injectField(c)) /\ invoke(injectField(c), "user")
      BY <2>5, CallsTyped, InjectedCall DEF RunConfirmed
    <3>2. NotesSound' /\ DeedSound'
      BY <2>5, <3>1, ToolKeeps DEF RunConfirmed
    <3> QED BY <2>5, <3>2 DEF RunConfirmed, TalkSound
  <2>6. ASSUME NEW c \in AgentCalls, ServeMCP(c) PROVE AgentIInv'
    <3>1. CallRow(c) /\ invoke(c, "mcp")
      BY <2>6, CallsTyped DEF ServeMCP
    <3>2. NotesSound' /\ DeedSound'
      BY <2>6, <3>1, ToolKeeps DEF ServeMCP
    <3> QED BY <2>6, <3>2 DEF ServeMCP, TalkSound
  <2>7. ASSUME NEW t \in Squads, NEW r \in Ranks, ChangeRank(t, r) PROVE AgentIInv'
    BY <2>7 DEF ChangeRank, NotesSound, DeedSound, TalkSound, On
  <2>8. ASSUME NEW n \in Notes, MovePost(n) PROVE AgentIInv'
    <3>1. NoteRow(shelf[n])
      BY <2>8 DEF MovePost, NotesSound
    <3>2. PICK entry : /\ shelf' = [shelf EXCEPT ![n] = entry] /\ NoteRow(entry)
      <4> DEFINE Planned(s, d) == [shelf[n] EXCEPT !.status = s, !.day = d]
                 Stamped(s)    == [shelf[n] EXCEPT !.status = s]
      <4>0. ASSUME NEW s, NEW d \in Int PROVE NoteRow(Stamped(s)) /\ NoteRow(Planned(s, d))
        BY <3>1, RowChanged
      <4> HIDE DEF Planned, Stamped
      <4>1. NoteRow(Stamped("cancelled")) /\ NoteRow(Stamped("failed"))
            /\ NoteRow(Planned("pending", LastDay)) /\ NoteRow(Planned("posted", 0))
        BY <4>0, AgentAssumption
      <4> USE DEF Planned, Stamped
      <4>2. CASE shelf' = [shelf EXCEPT ![n].status = "pending", ![n].day = LastDay]
        <5>1. shelf' = [shelf EXCEPT ![n] = Planned("pending", LastDay)]
          BY <4>2 DEF NotesSound
        <5> QED BY <4>1, <5>1
      <4>3. CASE shelf' = [shelf EXCEPT ![n].status = "cancelled"]
        BY <4>1, <4>3
      <4>4. CASE shelf' = [shelf EXCEPT ![n].status = "posted", ![n].day = 0]
        <5>1. shelf' = [shelf EXCEPT ![n] = Planned("posted", 0)]
          BY <4>4 DEF NotesSound
        <5> QED BY <4>1, <5>1
      <4>5. CASE shelf' = [shelf EXCEPT ![n].status = "failed"]
        BY <4>1, <4>5
      <4> QED BY <2>8, <4>2, <4>3, <4>4, <4>5 DEF MovePost
    <3>3. NotesSound'
      <4>1. /\ shelf' = [k \in Notes |-> shelf'[k]]
            /\ \A k \in Notes : shelf'[k] = IF k = n THEN entry ELSE shelf[k]
        BY <3>2 DEF NotesSound
      <4> QED BY <3>2, <4>1 DEF NotesSound, On
    <3> QED BY <2>8, <3>3 DEF MovePost, DeedSound, TalkSound
  <2>9. CASE Forget
    BY <2>9 DEF Forget, NotesSound, DeedSound, TalkSound, On
  <2>10. CASE UNCHANGED agentVars
    BY <2>1, <2>10 DEF agentVars, TalkSound
  <2> QED BY <2>2, <2>3, <2>4, <2>5, <2>6, <2>7, <2>8, <2>9, <2>10 DEF AgentNext
<1> QED BY <1>1, <1>2, PTL DEF AgentSpec

\* The free slot is the first day of the calendar with nothing left to publish.
LEMMA CalendarAgrees ==
  ASSUME NotesSound, NEW t \in Squads
  PROVE  LET slot == coreFindFreeSlot(t)
             still(d) == coreSearchPosts(t, "", d, d) \ (coreGetPosts(t, "cancelled") \cup coreGetPosts(t, "failed"))
         IN /\ \A d \in 1..LastDay: slot = 0 \/ d < slot => still(d) # {}
            /\ slot > 0 => still(slot) = {} /\ coreGetCalendar(t, slot - 1, slot + 1) = coreSearchPosts(t, "", slot, slot)
<1> DEFINE slot    == coreFindFreeSlot(t)
           still(d) == coreSearchPosts(t, "", d, d) \ (coreGetPosts(t, "cancelled") \cup coreGetPosts(t, "failed"))
           free    == {d \in 1..LastDay : \A n \in NotesOf(t) : shelf[n].day = d => shelf[n].status \in {"cancelled", "failed"}}
<1>1. slot = IF free = {} THEN 0 ELSE Min(free)
  <2>1. 1..((LastDay + 1) - 1) = 1..LastDay
    BY AgentAssumption
  <2> QED BY <2>1 DEF coreFindFreeSlot, FindNextFreeSlot
<1>2. \A n \in NotesOf(t) : shelf[n].day \in Int
  BY DEF NotesOf, NotesSound, NoteRow
<1>3. \A d \in Int : coreSearchPosts(t, "", d, d) = {n \in NotesOf(t) : shelf[n].day = d}
  BY <1>2 DEF coreSearchPosts, coreGetPosts
<1>4. ASSUME NEW d \in 1..LastDay PROVE d \in free <=> still(d) = {}
  <2>1. \A n : n \in still(d) <=> /\ n \in NotesOf(t) /\ shelf[n].day = d
                                /\ shelf[n].status \notin {"cancelled", "failed"}
    <3>1. coreSearchPosts(t, "", d, d) = {n \in NotesOf(t) : shelf[n].day = d}
      <4>1. d \in Int
        BY AgentAssumption
      <4> QED BY <4>1, <1>3
    <3> QED BY <3>1 DEF coreGetPosts
  <2>2. d \in free <=> \A n \in NotesOf(t) : shelf[n].day = d => shelf[n].status \in {"cancelled", "failed"}
    OBVIOUS
  <2> HIDE DEF still, free
  <2> QED BY <2>1, <2>2
<1>5. free # {} => slot \in free /\ \A d \in free : slot <= d
  <2>1. free \subseteq Nat
    OBVIOUS
  <2> HIDE DEF free
  <2> QED BY <1>1, <2>1, LeastOf
<1>6. free = {} => slot = 0
  BY <1>1
<1>7. free \subseteq 1..LastDay
  OBVIOUS
<1> HIDE DEF free, slot, still
<1>11. /\ slot \in 0..LastDay
       /\ slot = 0 => free = {}
       /\ slot > 0 => slot \in free
       /\ \A d \in free : slot <= d
  <2>1. CASE free = {}
    BY <1>6, <2>1, AgentAssumption
  <2>2. CASE free # {}
    <3>1. slot \in free /\ slot \in 1..LastDay
      BY <1>5, <1>7, <2>2
    <3>2. slot \in 0..LastDay /\ slot # 0
      BY <3>1, AgentAssumption
    <3> QED BY <3>1, <3>2, <1>5, <2>2
  <2> QED BY <2>1, <2>2
<1>8. ASSUME NEW d \in 1..LastDay, slot = 0 \/ d < slot PROVE still(d) # {}
  <2>1. d \notin free
    BY <1>8, <1>11, AgentAssumption
  <2> QED BY <1>4, <2>1
<1>9. ASSUME slot > 0 PROVE still(slot) = {} /\ slot \in Int
  BY <1>4, <1>7, <1>9, <1>11, AgentAssumption
<1>10. ASSUME slot > 0 PROVE coreGetCalendar(t, slot - 1, slot + 1) = coreSearchPosts(t, "", slot, slot)
  <2>1. slot \in Int /\ \A d \in Int : (d > slot - 1 /\ d < slot + 1) <=> d = slot
    BY <1>9, <1>10
  <2>2. coreSearchPosts(t, "", slot, slot) = {n \in NotesOf(t) : shelf[n].day = slot}
    BY <1>3, <2>1
  <2> QED BY <1>2, <2>1, <2>2 DEF coreGetCalendar
<1> QED BY <1>8, <1>9, <1>10 DEF slot, still

\* What an agent does on its own account: role and scope were held when the tool ran,
\* a bound token stayed in its team, the chat made nothing public without a click, and
\* the free slot fits the calendar (NeedsConfirmation, RunConfirmed, requireTeam).
THEOREM AgentHasConsent == AgentSpec => []AgentActsWithConsent
<1>1. AgentIInv => AgentActsWithConsent
  <2> SUFFICES ASSUME AgentIInv PROVE AgentActsWithConsent
    OBVIOUS
  <2>1. \A n \in Notes : On(n) => shelf[n].out \subseteq {shelf[n].team}
    BY DEF AgentIInv, NotesSound, NoteRow
  <2>2. NotesSound
    BY DEF AgentIInv
  <2> QED BY <2>1, <2>2, CalendarAgrees DEF AgentActsWithConsent, AgentIInv, DeedSound
<1> QED BY <1>1, AgentInductive, PTL

(* Upgrade. *)

\* What has been done when a statement is next.
PastWorkspaces == {"hashtags", "serving"}
PastEmbed      == PastWorkspaces \cup {"providers", "workspaces"}
PastAutomation == PastEmbed \cup {"embed"}
PastRemote     == PastAutomation \cup {"draft", "automation"}
PastDedupe     == PastRemote \cup {"remote"}
PastBudget     == PastDedupe \cup {"dedupe"}
PastConsume    == PastBudget \cup {"budget"}
PastPromote    == PastConsume \cup {"consume"}
PastColumns    == PastPromote \cup {"promote"}

MarkerRow(m) ==
  /\ m \in [there : BOOLEAN, attempts : {0, 1}, linked : BOOLEAN, consumed : BOOLEAN,
            budgeted : BOOLEAN, leases : {0, 1}]
  /\ m.leases = 1 => m.attempts = 1

\* Whatever of it has been done, the rest makes of the marker what it ought to be.
MarkerInv ==
  /\ MarkerRow(marker) /\ flight \in BOOLEAN
  /\ step # "serving" => Settled(marker, flight) = ought
  /\ step \in PastPromote \ {"serving"} => ~(Promotable(marker) /\ flight)
  /\ step \in PastConsume \ {"serving"} =>
       (marker.there /\ (marker.linked \/ marker.attempts = 0) => marker.consumed)
  /\ step \in PastBudget \ {"serving"} => (marker.attempts > 0 \/ marker.linked => marker.budgeted)
  /\ step = "serving" => marker = ought

\* After the first start the table has its last shape, and the columns are added to it
\* once and for all.
TableInv ==
  /\ starts \in Nat
  /\ targets = {"of the posts", "of the accounts"}
  /\ step \in PastAutomation \/ starts > 0 => shape = "automation"
  /\ starts > 0 /\ step \in PastColumns \ {"serving"} => HasColumns(Groups)
  /\ starts > 1 /\ step = "serving" => HasColumns(Groups)

\* Where the earlier release's data still is: the first rebuild leaves out what is
\* omitted, and no later one finds more to leave out.
Shapes == {"first", "draft", "automation"}
ColumnsInv ==
  /\ shape \in Shapes /\ given.shape \in Shapes
  /\ step \in PastAutomation \cup {"automation"} \/ given.shape = "draft" => shape # "first"
  /\ given.shape = "automation" => shape = "automation"
  /\ columns = [g \in Groups |-> columns[g]]
  /\ \A g \in Groups :
       columns[g] = "filled" <=> g \in given.filled /\ (shape = given.shape \/ g \notin Omitted)
  /\ given.filled \subseteq Groups

\* A child is a template until its parent has taken it over, or another child of that parent.
Embedded(p) == \E d \in Children : ParentOf[d] = p /\ embedded[p] = d
AnnounceInv ==
  /\ announces \subseteq Children /\ embedded = [p \in Parents |-> embedded[p]]
  /\ \A c \in announces : c \in templates
  /\ \A c \in Children \ announces :
       IF ParentOf[c] \in templates THEN Embedded(ParentOf[c]) /\ c \notin templates
                                    ELSE c \in templates
  /\ \A c \in Children : embedded[ParentOf[c]] = c => ParentOf[c] \in templates
  /\ step \in PastEmbed => announces = {}

RowsInv ==
  /\ configs \subseteq Int
  /\ step \in PastDedupe => \A c, d \in configs : c = d
  /\ step \in PastRemote => remote # "uri"

NamesInv ==
  /\ name = [t \in Workspaces |-> name[t]]
  /\ \A t, u \in Workspaces : t # u => name[t] # name[u]
  /\ step \in PastWorkspaces => flagged = {}

\* What is settled stays so.
LEMMA SettledIsDone ==
  ASSUME NEW m, MarkerRow(m), NEW f \in BOOLEAN, ~(Promotable(m) /\ f),
         m.there /\ (m.linked \/ m.attempts = 0) => m.consumed,
         m.attempts > 0 \/ m.linked => m.budgeted
  PROVE  Settled(m, f) = m
<1>1. ~(m.there /\ ~m.consumed /\ ~m.linked /\ m.attempts = 0 /\ f)
  BY DEF Promotable
<1>2. Settled(m, f) = [m EXCEPT !.consumed = m.consumed \/ (m.there /\ (m.linked \/
                        ((m.there /\ ~m.consumed /\ ~m.linked /\ m.attempts = 0) /\ ~f))),
                        !.budgeted = m.budgeted \/ m.attempts > 0 \/ m.linked]
  BY <1>1 DEF Settled
<1>3. (m.consumed \/ (m.there /\ (m.linked \/
         ((m.there /\ ~m.consumed /\ ~m.linked /\ m.attempts = 0) /\ ~f)))) = m.consumed
  BY DEF MarkerRow
<1>4. (m.budgeted \/ m.attempts > 0 \/ m.linked) = m.budgeted
  BY DEF MarkerRow
<1>5. Settled(m, f) = [m EXCEPT !.consumed = m.consumed, !.budgeted = m.budgeted]
  BY <1>2, <1>3, <1>4
<1> QED BY <1>5 DEF MarkerRow

\* A marker is the record of its columns.
LEMMA MarkerOf ==
  ASSUME NEW x, NEW a, NEW b, NEW c, NEW d, NEW e, NEW f,
         x \in [there : {a}, attempts : {b}, linked : {c}, consumed : {d}, budgeted : {e}, leases : {f}]
  PROVE  x = [there |-> a, attempts |-> b, linked |-> c, consumed |-> d, budgeted |-> e, leases |-> f]
OBVIOUS

\* The columns of a settled marker.
LEMMA SettledColumns ==
  ASSUME NEW m, MarkerRow(m), NEW f \in BOOLEAN
  PROVE  LET leased == Promotable(m) /\ f
         IN  Settled(m, f) =
               [there |-> m.there, attempts |-> IF leased THEN 1 ELSE m.attempts,
                linked |-> m.linked,
                consumed |-> m.consumed \/ (m.there /\ (m.linked \/ (Promotable(m) /\ ~f))),
                budgeted |-> m.budgeted \/ leased \/ m.attempts > 0 \/ m.linked,
                leases |-> IF leased THEN m.leases + 1 ELSE m.leases]
<1> DEFINE taken == m.consumed \/ (m.there /\ (m.linked \/ (Promotable(m) /\ ~f)))
<1>1. m = [there |-> m.there, attempts |-> m.attempts, linked |-> m.linked,
           consumed |-> m.consumed, budgeted |-> m.budgeted, leases |-> m.leases]
  BY DEF MarkerRow
<1>2. CASE Promotable(m) /\ f
  <2> DEFINE k == m.leases + 1
             n == [m EXCEPT !.attempts = 1, !.leases = k]
  <2> HIDE DEF k
  <2>1. n = [there |-> m.there, attempts |-> 1, linked |-> m.linked,
             consumed |-> m.consumed, budgeted |-> m.budgeted, leases |-> k]
    <3>1. n \in [there : {m.there}, attempts : {1}, linked : {m.linked},
                 consumed : {m.consumed}, budgeted : {m.budgeted}, leases : {k}]
      BY DEF MarkerRow
    <3> HIDE DEF n
    <3> QED BY <3>1, MarkerOf
  <2>2. Settled(m, f) = [n EXCEPT !.consumed = @ \/ (m.there /\ (m.linked \/ (Promotable(m) /\ ~f))),
                                  !.budgeted = @ \/ n.attempts > 0 \/ m.linked]
    BY <1>2 DEF Settled, Promotable, k
  <2> HIDE DEF n
  <2>3. n.attempts = 1 /\ n.consumed = m.consumed /\ n.budgeted = m.budgeted
    BY <2>1
  <2>4. (n.budgeted \/ n.attempts > 0 \/ m.linked) = TRUE
    BY <2>3 DEF MarkerRow
  <2>5. Settled(m, f) = [n EXCEPT !.consumed = taken, !.budgeted = TRUE]
    BY <2>2, <2>3, <2>4
  <2>6. (m.budgeted \/ (Promotable(m) /\ f) \/ m.attempts > 0 \/ m.linked) = TRUE
    BY <1>2
  <2> HIDE DEF taken
  <2>7. Settled(m, f) = [there |-> m.there, attempts |-> 1, linked |-> m.linked, consumed |-> taken,
                         budgeted |-> TRUE, leases |-> k]
    BY <2>1, <2>5
  <2> QED BY <1>2, <2>6, <2>7 DEF taken, k
<1>3. CASE ~(Promotable(m) /\ f)
  <2> DEFINE paid == m.budgeted \/ m.attempts > 0 \/ m.linked
  <2>1. Settled(m, f) = [m EXCEPT !.consumed = taken, !.budgeted = paid]
    BY <1>3 DEF Settled, Promotable
  <2>2. (m.budgeted \/ (Promotable(m) /\ f) \/ m.attempts > 0 \/ m.linked) = paid
    BY <1>3
  <2> HIDE DEF taken, paid
  <2>3. Settled(m, f) = [there |-> m.there, attempts |-> m.attempts, linked |-> m.linked,
                         consumed |-> taken, budgeted |-> paid, leases |-> m.leases]
    BY <1>1, <2>1
  <2> QED BY <1>3, <2>2, <2>3 DEF taken
<1> QED BY <1>2, <1>3

\* Two markers that agree in them settle to the same.
LEMMA SettledAlike ==
  ASSUME NEW m, MarkerRow(m), NEW n, MarkerRow(n), NEW f \in BOOLEAN,
         n.there = m.there, n.linked = m.linked,
         (IF Promotable(n) /\ f THEN 1 ELSE n.attempts) = (IF Promotable(m) /\ f THEN 1 ELSE m.attempts),
         (IF Promotable(n) /\ f THEN n.leases + 1 ELSE n.leases)
           = (IF Promotable(m) /\ f THEN m.leases + 1 ELSE m.leases),
         (n.consumed \/ (n.there /\ (n.linked \/ (Promotable(n) /\ ~f))))
           <=> (m.consumed \/ (m.there /\ (m.linked \/ (Promotable(m) /\ ~f)))),
         (n.budgeted \/ (Promotable(n) /\ f) \/ n.attempts > 0 \/ n.linked)
           <=> (m.budgeted \/ (Promotable(m) /\ f) \/ m.attempts > 0 \/ m.linked)
  PROVE  Settled(n, f) = Settled(m, f)
<1> DEFINE A(x) == IF Promotable(x) /\ f THEN 1 ELSE x.attempts
           C(x) == x.consumed \/ (x.there /\ (x.linked \/ (Promotable(x) /\ ~f)))
           B(x) == x.budgeted \/ (Promotable(x) /\ f) \/ x.attempts > 0 \/ x.linked
           L(x) == IF Promotable(x) /\ f THEN x.leases + 1 ELSE x.leases
<1>1. \A x \in {m, n} : Settled(x, f) = [there |-> x.there, attempts |-> A(x), linked |-> x.linked,
                                          consumed |-> C(x), budgeted |-> B(x), leases |-> L(x)]
  BY SettledColumns
<1>2. A(n) = A(m) /\ L(n) = L(m)
  OBVIOUS
<1>3. C(n) = C(m)
  OBVIOUS
<1>4. B(n) = B(m)
  OBVIOUS
<1> HIDE DEF A, B, C, L
<1> QED BY <1>1, <1>2, <1>3, <1>4

\* The statements do parts of the settling.
LEMMA PromotedIsSettled ==
  ASSUME NEW m, MarkerRow(m), NEW f \in BOOLEAN, NEW n,
         n = IF Promotable(m) /\ f THEN [m EXCEPT !.attempts = 1, !.leases = @ + 1] ELSE m
  PROVE  MarkerRow(n) /\ Settled(n, f) = Settled(m, f) /\ ~(Promotable(n) /\ f)
<1>1. CASE Promotable(m) /\ f
  <2>0. m.leases = 0 /\ m.attempts = 0
    BY <1>1 DEF MarkerRow, Promotable
  <2>1. n = [m EXCEPT !.attempts = 1, !.leases = 1]
    <3>1. m.leases + 1 = 1
      BY <2>0
    <3> QED BY <1>1, <3>1
  <2>2. /\ MarkerRow(n) /\ n.attempts = 1 /\ n.there = m.there /\ n.consumed = m.consumed
        /\ n.linked = m.linked /\ n.budgeted = m.budgeted /\ n.leases = 1
    BY <2>1 DEF MarkerRow
  <2>3. ~Promotable(n)
    BY <2>2 DEF Promotable
  <2>4. Settled(n, f) = Settled(m, f)
    <3>1. n.leases = m.leases + 1 /\ n.attempts > 0
      BY <2>0, <2>2
    <3> QED BY <1>1, <2>2, <2>3, <3>1, SettledAlike
  <2> QED BY <2>2, <2>3, <2>4
<1> QED BY <1>1

LEMMA ConsumedIsSettled ==
  ASSUME NEW m, MarkerRow(m), NEW f \in BOOLEAN, ~(Promotable(m) /\ f), NEW n,
         n = IF m.there /\ (m.linked \/ m.attempts = 0) THEN [m EXCEPT !.consumed = TRUE] ELSE m
  PROVE  MarkerRow(n) /\ Settled(n, f) = Settled(m, f) /\ ~(Promotable(n) /\ f)
         /\ (n.there /\ (n.linked \/ n.attempts = 0) => n.consumed)
<1>1. CASE m.there /\ (m.linked \/ m.attempts = 0)
  <2>1. /\ MarkerRow(n) /\ n.consumed /\ n.there /\ n.linked = m.linked /\ n.attempts = m.attempts
        /\ n.budgeted = m.budgeted /\ n.leases = m.leases
    BY <1>1 DEF MarkerRow
  <2>2. ~Promotable(n)
    BY <2>1 DEF Promotable
  <2>3. Promotable(m) => ~f
    OBVIOUS
  <2>4. (n.consumed \/ (n.there /\ (n.linked \/ (Promotable(n) /\ ~f))))
         <=> (m.consumed \/ (m.there /\ (m.linked \/ (Promotable(m) /\ ~f))))
    BY <1>1, <2>1 DEF Promotable
  <2>5. Settled(n, f) = Settled(m, f)
    BY <2>1, <2>2, <2>3, <2>4, SettledAlike
  <2> QED BY <2>1, <2>2, <2>5
<1> QED BY <1>1

LEMMA BudgetedIsSettled ==
  ASSUME NEW m, MarkerRow(m), NEW f \in BOOLEAN, ~(Promotable(m) /\ f), NEW n,
         m.there /\ (m.linked \/ m.attempts = 0) => m.consumed,
         n = IF m.attempts > 0 \/ m.linked THEN [m EXCEPT !.budgeted = TRUE] ELSE m
  PROVE  MarkerRow(n) /\ Settled(n, f) = Settled(m, f) /\ ~(Promotable(n) /\ f)
         /\ (n.there /\ (n.linked \/ n.attempts = 0) => n.consumed)
         /\ (n.attempts > 0 \/ n.linked => n.budgeted)
<1>1. CASE m.attempts > 0 \/ m.linked
  <2>1. /\ MarkerRow(n) /\ n.consumed = m.consumed /\ n.there = m.there /\ n.linked = m.linked
        /\ n.attempts = m.attempts /\ n.budgeted /\ n.leases = m.leases
    BY <1>1 DEF MarkerRow
  <2>2. Promotable(n) <=> Promotable(m)
    BY <2>1 DEF Promotable
  <2>3. Settled(n, f) = Settled(m, f)
    BY <1>1, <2>1, <2>2, SettledAlike
  <2> QED BY <2>1, <2>2, <2>3
<1> QED BY <1>1

LEMMA MarkerKept ==
  ASSUME MarkerInv, UpgradeNext
  PROVE  MarkerInv'
<1> USE DEF MarkerInv
<1> USE DEF PastWorkspaces, PastEmbed, PastAutomation, PastRemote, PastDedupe, PastBudget,
            PastConsume, PastPromote
<1>1. CASE PromoteInFlight
  <2>1. step = "promote" /\ step' = "consume" /\ UNCHANGED <<flight, ought>>
        /\ marker' = IF Promotable(marker) /\ flight THEN [marker EXCEPT !.attempts = 1, !.leases = @ + 1] ELSE marker
    BY <1>1 DEF PromoteInFlight, At
  <2>2. MarkerRow(marker') /\ Settled(marker', flight) = Settled(marker, flight)
        /\ ~(Promotable(marker') /\ flight)
    BY <2>1, PromotedIsSettled
  <2> QED BY <2>1, <2>2
<1>2. CASE ConsumeMarkers
  <2>1. step = "consume" /\ step' = "budget" /\ UNCHANGED <<flight, ought>>
        /\ marker' = IF marker.there /\ (marker.linked \/ marker.attempts = 0)
                     THEN [marker EXCEPT !.consumed = TRUE] ELSE marker
    BY <1>2 DEF ConsumeMarkers, At
  <2>2. MarkerRow(marker') /\ Settled(marker', flight) = Settled(marker, flight)
        /\ ~(Promotable(marker') /\ flight)
        /\ (marker'.there /\ (marker'.linked \/ marker'.attempts = 0) => marker'.consumed)
    BY <2>1, ConsumedIsSettled
  <2> QED BY <2>1, <2>2
<1>3. CASE BudgetMarkers
  <2>1. step = "budget" /\ step' = "dedupe" /\ UNCHANGED <<flight, ought>>
        /\ marker' = IF marker.attempts > 0 \/ marker.linked THEN [marker EXCEPT !.budgeted = TRUE] ELSE marker
    BY <1>3 DEF BudgetMarkers, At
  <2>2. MarkerRow(marker') /\ Settled(marker', flight) = Settled(marker, flight)
        /\ ~(Promotable(marker') /\ flight)
        /\ (marker'.there /\ (marker'.linked \/ marker'.attempts = 0) => marker'.consumed)
        /\ (marker'.attempts > 0 \/ marker'.linked => marker'.budgeted)
    BY <2>1, BudgetedIsSettled
  <2> QED BY <2>1, <2>2
<1>4. CASE BackfillPostHashtags
  <2>1. step = "hashtags" /\ step' = "serving" /\ UNCHANGED <<marker, flight, ought>>
    BY <1>4 DEF BackfillPostHashtags
  <2>2. marker = ought
    BY <2>1, SettledIsDone
  <2> QED BY <2>1, <2>2
<1>5. CASE ClaimItem \/ RecordBaseline \/ JobEndsWell \/ JobEndsBadly
  <2>1. step' = "serving" /\ ought' = marker'
    BY <1>5 DEF ClaimItem, RecordBaseline, JobEndsWell, JobEndsBadly, Serve
  <2>2. flight' \in BOOLEAN
    BY <1>5 DEF ClaimItem, RecordBaseline, JobEndsWell, JobEndsBadly, Serve
  <2>3. MarkerRow(marker')
    <3>1. CASE ClaimItem
      <4>1. marker' = [Marked(1, FALSE, FALSE) EXCEPT !.budgeted = TRUE]
        BY <3>1 DEF ClaimItem, Serve
      <4> QED BY <4>1 DEF Marked, MarkerRow
    <3>2. CASE RecordBaseline
      <4>1. marker' = Marked(0, FALSE, FALSE)
        BY <3>2 DEF RecordBaseline, Serve
      <4> QED BY <4>1 DEF Marked, MarkerRow
    <3>3. CASE JobEndsWell
      <4>1. marker' = [marker EXCEPT !.linked = TRUE, !.consumed = TRUE]
        BY <3>3 DEF JobEndsWell, Serve
      <4> QED BY <4>1 DEF MarkerRow
    <3>4. CASE JobEndsBadly
      BY <3>4 DEF JobEndsBadly, Serve
    <3> QED BY <1>5, <3>1, <3>2, <3>3, <3>4
  <2> QED BY <2>1, <2>2, <2>3
<1>6. CASE Stop
  BY <1>6 DEF Stop
<1>7. CASE \/ New \/ AddColumns \/ DedupeConfigs \/ BackfillRemoteIDs
           \/ migrateSQLiteScheduledPostsDraftStatus \/ migrateSQLiteScheduledPostsAutomationSource
           \/ (\E c \in Children: Embed(c) \/ DeleteEmbedded(c) \/ PromoteOrphan(c))
           \/ EmbedDone \/ ProvidersDone
           \/ (\E t \in Constrained: rebuildSQLiteProviderTable(t))
           \/ (\E t \in Workspaces: RenameWorkspace(t))
           \/ MigratePersonalWorkspaces
  <2>1. UNCHANGED <<marker, flight, ought>>
    BY <1>7 DEF New, AddColumns, DedupeConfigs, BackfillRemoteIDs,
         migrateSQLiteScheduledPostsDraftStatus, migrateSQLiteScheduledPostsAutomationSource,
         Embed, DeleteEmbedded, PromoteOrphan, EmbedDone, ProvidersDone,
         rebuildSQLiteProviderTable, RenameWorkspace, MigratePersonalWorkspaces
  <2>2. step # "serving" /\ step' # "serving" /\ (step' \in PastPromote => step \in PastBudget)
    BY <1>7 DEF New, AddColumns, DedupeConfigs, BackfillRemoteIDs, At,
         migrateSQLiteScheduledPostsDraftStatus, migrateSQLiteScheduledPostsAutomationSource,
         Embed, DeleteEmbedded, PromoteOrphan, EmbedDone, ProvidersDone,
         rebuildSQLiteProviderTable, RenameWorkspace, MigratePersonalWorkspaces
  <2> QED BY <2>1, <2>2
<1> QED BY <1>1, <1>2, <1>3, <1>4, <1>5, <1>6, <1>7 DEF UpgradeNext

LEMMA TableKept ==
  ASSUME TableInv, UpgradeNext
  PROVE  TableInv'
<1> USE DEF TableInv
<1> USE DEF PastWorkspaces, PastEmbed, PastAutomation, PastRemote, PastDedupe, PastBudget,
            PastConsume, PastPromote, PastColumns
<1>1. CASE AddColumns
  <2>1. /\ step = "columns" /\ step' = "promote" /\ UNCHANGED <<starts, shape, targets>>
        /\ columns' = [g \in Groups |-> IF columns[g] = "none" THEN "empty" ELSE columns[g]]
    BY <1>1 DEF AddColumns, At
  <2>2. HasColumns(Groups)'
    BY <2>1 DEF HasColumns
  <2> QED BY <2>1, <2>2
<1>2. CASE migrateSQLiteScheduledPostsDraftStatus
  BY <1>2 DEF migrateSQLiteScheduledPostsDraftStatus, At, postTable, ForeignKeysOff, HasColumns
<1>3. CASE migrateSQLiteScheduledPostsAutomationSource
  BY <1>3 DEF migrateSQLiteScheduledPostsAutomationSource, At, postTable, ForeignKeysOff, HasColumns
<1>4. CASE \E t \in Constrained: rebuildSQLiteProviderTable(t)
  BY <1>4 DEF rebuildSQLiteProviderTable, At, ForeignKeysOff, HasColumns
<1>5. CASE BackfillPostHashtags
  <2>1. /\ step = "hashtags" /\ step' = "serving" /\ starts' = starts + 1
        /\ UNCHANGED <<targets, shape, columns>>
    BY <1>5 DEF BackfillPostHashtags, postTable
  <2>2. shape = "automation" /\ (starts > 0 => HasColumns(Groups))
    BY <2>1
  <2>c. HasColumns(Groups) => HasColumns(Groups)'
    BY <2>1 DEF HasColumns
  <2>3. starts' \in Nat /\ (starts' > 1 => starts > 0)
    <3> HIDE DEF PastWorkspaces, PastEmbed, PastAutomation, PastRemote, PastDedupe, PastBudget,
                 PastConsume, PastPromote, PastColumns, TableInv
    <3>1. starts \in Nat /\ starts' = starts + 1
      BY <2>1 DEF TableInv
    <3> QED BY <3>1
  <2> QED BY <2>1, <2>2, <2>3, <2>c
<1>6. CASE Stop \/ ClaimItem \/ RecordBaseline \/ JobEndsWell \/ JobEndsBadly
  BY <1>6 DEF Stop, ClaimItem, RecordBaseline, JobEndsWell, JobEndsBadly, Serve, postTable, HasColumns
<1>7. CASE \/ New \/ PromoteInFlight \/ ConsumeMarkers \/ BudgetMarkers \/ DedupeConfigs
           \/ BackfillRemoteIDs \/ EmbedDone \/ ProvidersDone \/ MigratePersonalWorkspaces
  BY <1>7 DEF New, PromoteInFlight, ConsumeMarkers, BudgetMarkers, DedupeConfigs,
       BackfillRemoteIDs, EmbedDone, ProvidersDone, MigratePersonalWorkspaces, At, postTable, HasColumns
<1>8. CASE \/ (\E c \in Children: Embed(c) \/ DeleteEmbedded(c) \/ PromoteOrphan(c))
           \/ (\E t \in Workspaces: RenameWorkspace(t))
  BY <1>8 DEF Embed, DeleteEmbedded, PromoteOrphan, RenameWorkspace, At, postTable, HasColumns
<1> QED BY <1>1, <1>2, <1>3, <1>4, <1>5, <1>6, <1>7, <1>8 DEF UpgradeNext

\* A rebuild keeps the data of the groups it copies, and of no other.
LEMMA RebuiltColumns ==
  ASSUME NEW copied, columns' = Rebuilt(copied)
  PROVE  /\ columns' = [g \in Groups |-> columns'[g]]
         /\ \A g \in Groups : columns'[g] = "filled" <=> g \in copied /\ columns[g] = "filled"
BY DEF Rebuilt

LEMMA ColumnsKept ==
  ASSUME ColumnsInv, UpgradeNext
  PROVE  ColumnsInv'
<1>0. given' = given
  BY DEF UpgradeNext, New, AddColumns, PromoteInFlight, ConsumeMarkers, BudgetMarkers, DedupeConfigs,
     BackfillRemoteIDs, migrateSQLiteScheduledPostsDraftStatus, Embed, DeleteEmbedded,
     PromoteOrphan, migrateSQLiteScheduledPostsAutomationSource, EmbedDone, ProvidersDone,
     rebuildSQLiteProviderTable, RenameWorkspace, MigratePersonalWorkspaces, At,
     BackfillPostHashtags, ClaimItem, RecordBaseline, JobEndsWell, JobEndsBadly, Serve, Stop
<1>o. Omitted' = Omitted
  BY <1>0 DEF Omitted
<1>s. ASSUME step' \in PastAutomation \cup {"automation"}
      PROVE  step \in PastAutomation \cup {"automation"} \/ shape' # "first"
  BY <1>s DEF PastAutomation, PastEmbed, PastWorkspaces, UpgradeNext, New, AddColumns, PromoteInFlight,
     ConsumeMarkers, BudgetMarkers, DedupeConfigs,
     BackfillRemoteIDs, migrateSQLiteScheduledPostsDraftStatus, Embed, DeleteEmbedded,
     PromoteOrphan, migrateSQLiteScheduledPostsAutomationSource, EmbedDone, ProvidersDone,
     rebuildSQLiteProviderTable, RenameWorkspace, MigratePersonalWorkspaces, At, postTable,
     BackfillPostHashtags, ClaimItem, RecordBaseline, JobEndsWell, JobEndsBadly, Serve, Stop
<1>u. ASSUME UNCHANGED <<shape, columns>> PROVE ColumnsInv'
  BY <1>0, <1>o, <1>s, <1>u DEF ColumnsInv
<1>1. CASE AddColumns
  <2>1. shape' = shape /\ columns' = [g \in Groups |-> IF columns[g] = "none" THEN "empty" ELSE columns[g]]
    BY <1>1 DEF AddColumns
  <2>2. \A g \in Groups : columns'[g] = "filled" <=> columns[g] = "filled"
    BY <2>1
  <2>3. columns' = [g \in Groups |-> columns'[g]]
    BY <2>1
  <2> QED BY <1>0, <1>o, <1>s, <2>1, <2>2, <2>3 DEF ColumnsInv
<1>2. CASE migrateSQLiteScheduledPostsDraftStatus
  <2>1. CASE shape # "first"
    BY <1>2, <2>1, <1>u DEF migrateSQLiteScheduledPostsDraftStatus, postTable
  <2>2. CASE shape = "first"
    <3>1. shape' = "draft" /\ columns' = Rebuilt(CopiedForDraft)
      BY <1>2, <2>2 DEF migrateSQLiteScheduledPostsDraftStatus
    <3>2. given.shape = "first" /\ Omitted = Groups
      BY <2>2 DEF ColumnsInv, Shapes, Omitted
    <3>3. \A g \in Groups : columns'[g] # "filled"
      BY <3>1, RebuiltColumns DEF CopiedForDraft
    <3>4. columns' = [g \in Groups |-> columns'[g]]
      BY <3>1, RebuiltColumns
    <3> QED BY <1>0, <1>o, <3>1, <3>2, <3>3, <3>4 DEF ColumnsInv, Shapes
  <2> QED BY <2>1, <2>2
<1>3. CASE migrateSQLiteScheduledPostsAutomationSource
  <2>1. UNCHANGED <<shape, columns>>
        \/ (shape # "automation" /\ shape' = "automation" /\ columns' = Rebuilt(CopiedForAutomation))
    BY <1>3 DEF migrateSQLiteScheduledPostsAutomationSource, postTable
  <2>a. step = "automation"
    BY <1>3 DEF migrateSQLiteScheduledPostsAutomationSource, At
  <2>2. ASSUME shape # "automation", shape' = "automation", columns' = Rebuilt(CopiedForAutomation)
        PROVE  ColumnsInv'
    <3>1. /\ columns' = [g \in Groups |-> columns'[g]]
          /\ \A g \in Groups : columns'[g] = "filled" <=> g \in CopiedForAutomation /\ columns[g] = "filled"
      BY <2>2, RebuiltColumns
    <3>2. CASE given.shape = "first"
      <4>1. Omitted = Groups
        BY <3>2 DEF Omitted
      <4>2. shape # given.shape
        BY <2>a, <3>2 DEF ColumnsInv
      <4>3. \A g \in Groups : columns'[g] # "filled"
        BY <3>1, <4>1, <4>2 DEF ColumnsInv
      <4> QED BY <1>0, <1>o, <2>2, <3>1, <3>2, <4>1, <4>3 DEF ColumnsInv, Shapes
    <3>3. CASE given.shape = "draft"
      <4>1. Omitted = Groups \ CopiedForAutomation
        BY <3>3 DEF Omitted, Groups, CopiedForAutomation
      <4>2. shape = "draft"
        BY <2>2, <3>3 DEF ColumnsInv, Shapes
      <4> QED BY <1>0, <1>o, <2>2, <3>1, <3>3, <4>1, <4>2 DEF ColumnsInv, Shapes
    <3> QED BY <2>2, <3>2, <3>3 DEF ColumnsInv, Shapes
  <2> QED BY <2>1, <2>2, <1>u
<1>4. CASE \/ New \/ PromoteInFlight \/ ConsumeMarkers \/ BudgetMarkers \/ DedupeConfigs
           \/ BackfillRemoteIDs \/ EmbedDone \/ ProvidersDone \/ MigratePersonalWorkspaces
           \/ (\E t \in Constrained: rebuildSQLiteProviderTable(t))
           \/ (\E c \in Children: Embed(c) \/ DeleteEmbedded(c) \/ PromoteOrphan(c))
           \/ (\E t \in Workspaces: RenameWorkspace(t))
           \/ BackfillPostHashtags \/ ClaimItem \/ RecordBaseline \/ JobEndsWell \/ JobEndsBadly \/ Stop
  <2>1. UNCHANGED <<shape, columns>>
    BY <1>4 DEF New, PromoteInFlight, ConsumeMarkers, BudgetMarkers, DedupeConfigs,
       BackfillRemoteIDs, EmbedDone, ProvidersDone, MigratePersonalWorkspaces,
       rebuildSQLiteProviderTable, Embed, DeleteEmbedded, PromoteOrphan, RenameWorkspace,
       BackfillPostHashtags, ClaimItem, RecordBaseline, JobEndsWell, JobEndsBadly, Serve, Stop, postTable
  <2> QED BY <2>1, <1>u
<1> QED BY <1>1, <1>2, <1>3, <1>4 DEF UpgradeNext

LEMMA AnnouncesKept ==
  ASSUME AnnounceInv, UpgradeNext
  PROVE  AnnounceInv'
<1> USE DEF AnnounceInv
<1> USE DEF PastWorkspaces, PastEmbed
<1>0. \A c \in Children : ParentOf[c] \in Parents /\ ParentOf[c] \notin Children
  BY UpgradeAssumption
<1>1. ASSUME NEW c \in Children, Embed(c) PROVE AnnounceInv'
  <2>1. /\ step' = "embed" /\ c \in announces /\ ParentOf[c] \in templates
        /\ embedded' = [embedded EXCEPT ![ParentOf[c]] = c]
        /\ UNCHANGED <<templates, announces>>
    BY <1>1 DEF Embed, At
  <2>2. embedded' = [p \in Parents |-> embedded'[p]] /\ embedded'[ParentOf[c]] = c
    BY <1>0, <2>1
  <2>3. \A p \in Parents : p # ParentOf[c] => embedded'[p] = embedded[p]
    BY <2>1
  <2>4. \A p \in Parents : Embedded(p) => Embedded(p)'
    <3> SUFFICES ASSUME NEW p \in Parents, Embedded(p) PROVE Embedded(p)'
      OBVIOUS
    <3>1. CASE p = ParentOf[c]
      BY <2>2, <3>1 DEF Embedded
    <3>2. CASE p # ParentOf[c]
      BY <2>3, <3>2 DEF Embedded
    <3> QED BY <3>1, <3>2
  <2>5. \A d \in Children : embedded'[ParentOf[d]] = d => ParentOf[d] \in templates
    <3> SUFFICES ASSUME NEW d \in Children, embedded'[ParentOf[d]] = d PROVE ParentOf[d] \in templates
      OBVIOUS
    <3>1. CASE ParentOf[d] = ParentOf[c]
      BY <2>1, <3>1
    <3>2. CASE ParentOf[d] # ParentOf[c]
      BY <1>0, <2>3, <3>2
    <3> QED BY <3>1, <3>2
  <2> QED BY <1>0, <2>1, <2>2, <2>4, <2>5
<1>2. ASSUME NEW c \in Children, DeleteEmbedded(c) PROVE AnnounceInv'
  <2>1. /\ step' = "embed" /\ c \in announces /\ embedded[ParentOf[c]] = c
        /\ templates' = templates \ {c} /\ announces' = announces \ {c} /\ embedded' = embedded
    BY <1>2 DEF DeleteEmbedded, At
  <2>2. \A d \in Children : ParentOf[d] \in templates' <=> ParentOf[d] \in templates
    BY <1>0, <2>1
  <2>3. Embedded(ParentOf[c])' /\ \A p \in Parents : Embedded(p) => Embedded(p)'
    BY <2>1 DEF Embedded
  <2> QED BY <1>0, <2>1, <2>2, <2>3
<1>3. ASSUME NEW c \in Children, PromoteOrphan(c) PROVE AnnounceInv'
  <2>1. /\ step' = "embed" /\ c \in announces /\ ParentOf[c] \notin templates
        /\ announces' = announces \ {c} /\ UNCHANGED <<templates, embedded>>
    BY <1>3 DEF PromoteOrphan, At
  <2>2. \A p : Embedded(p) <=> Embedded(p)'
    BY <2>1 DEF Embedded
  <2> QED BY <2>1, <2>2
<1>4. CASE \/ New \/ AddColumns \/ PromoteInFlight \/ ConsumeMarkers \/ BudgetMarkers
           \/ DedupeConfigs \/ BackfillRemoteIDs
           \/ migrateSQLiteScheduledPostsDraftStatus \/ migrateSQLiteScheduledPostsAutomationSource
           \/ EmbedDone \/ ProvidersDone
           \/ (\E t \in Constrained: rebuildSQLiteProviderTable(t))
           \/ (\E t \in Workspaces: RenameWorkspace(t))
           \/ MigratePersonalWorkspaces \/ BackfillPostHashtags
           \/ ClaimItem \/ RecordBaseline \/ JobEndsWell \/ JobEndsBadly \/ Stop
  <2>1. UNCHANGED <<templates, announces, embedded>>
    BY <1>4 DEF New, AddColumns, PromoteInFlight, ConsumeMarkers, BudgetMarkers, DedupeConfigs,
         BackfillRemoteIDs, migrateSQLiteScheduledPostsDraftStatus,
         migrateSQLiteScheduledPostsAutomationSource, EmbedDone, ProvidersDone,
         rebuildSQLiteProviderTable, RenameWorkspace, MigratePersonalWorkspaces,
         BackfillPostHashtags, ClaimItem, RecordBaseline, JobEndsWell, JobEndsBadly, Serve, Stop,
         announceVars
  <2>2. step' \in PastEmbed => step \in PastEmbed \/ announces = {}
    BY <1>4 DEF New, AddColumns, PromoteInFlight, ConsumeMarkers, BudgetMarkers, DedupeConfigs,
         BackfillRemoteIDs, migrateSQLiteScheduledPostsDraftStatus,
         migrateSQLiteScheduledPostsAutomationSource, EmbedDone, ProvidersDone,
         rebuildSQLiteProviderTable, RenameWorkspace, MigratePersonalWorkspaces, At,
         BackfillPostHashtags, ClaimItem, RecordBaseline, JobEndsWell, JobEndsBadly, Serve, Stop
  <2>3. \A p : Embedded(p) <=> Embedded(p)'
    BY <2>1 DEF Embedded
  <2> QED BY <2>1, <2>2, <2>3
<1> QED BY <1>1, <1>2, <1>3, <1>4 DEF UpgradeNext

LEMMA RowsKept ==
  ASSUME RowsInv, UpgradeNext
  PROVE  RowsInv'
<1> USE DEF RowsInv
<1> USE DEF PastWorkspaces, PastEmbed, PastAutomation, PastRemote, PastDedupe
<1>1. CASE DedupeConfigs
  <2>1. step' = "remote" /\ remote' = remote /\ configs' = {c \in configs: \A d \in configs: d <= c}
    BY <1>1 DEF DedupeConfigs, At
  <2>2. \A c, d \in configs' : c = d
    BY <2>1
  <2> QED BY <2>1, <2>2
<1>2. CASE BackfillRemoteIDs
  BY <1>2 DEF BackfillRemoteIDs, At
<1>3. CASE \/ New \/ AddColumns \/ PromoteInFlight \/ ConsumeMarkers \/ BudgetMarkers
           \/ migrateSQLiteScheduledPostsDraftStatus \/ migrateSQLiteScheduledPostsAutomationSource
           \/ (\E c \in Children: Embed(c) \/ DeleteEmbedded(c) \/ PromoteOrphan(c))
           \/ EmbedDone \/ ProvidersDone
           \/ (\E t \in Constrained: rebuildSQLiteProviderTable(t))
           \/ (\E t \in Workspaces: RenameWorkspace(t))
           \/ MigratePersonalWorkspaces \/ BackfillPostHashtags
           \/ ClaimItem \/ RecordBaseline \/ JobEndsWell \/ JobEndsBadly \/ Stop
  <2>1. UNCHANGED <<configs, remote>>
    BY <1>3 DEF New, AddColumns, PromoteInFlight, ConsumeMarkers, BudgetMarkers,
         migrateSQLiteScheduledPostsDraftStatus, Embed, DeleteEmbedded, PromoteOrphan,
         migrateSQLiteScheduledPostsAutomationSource, EmbedDone, ProvidersDone,
         rebuildSQLiteProviderTable, RenameWorkspace, MigratePersonalWorkspaces,
         BackfillPostHashtags, ClaimItem, RecordBaseline, JobEndsWell, JobEndsBadly, Serve, Stop,
         otherRows
  <2>2. (step' \in PastDedupe => step \in PastDedupe) /\ (step' \in PastRemote => step \in PastRemote)
    BY <1>3 DEF New, AddColumns, PromoteInFlight, ConsumeMarkers, BudgetMarkers,
         migrateSQLiteScheduledPostsDraftStatus, Embed, DeleteEmbedded, PromoteOrphan,
         migrateSQLiteScheduledPostsAutomationSource, EmbedDone, ProvidersDone,
         rebuildSQLiteProviderTable, RenameWorkspace, MigratePersonalWorkspaces, At,
         BackfillPostHashtags, ClaimItem, RecordBaseline, JobEndsWell, JobEndsBadly, Serve, Stop
  <2> QED BY <2>1, <2>2
<1> QED BY <1>1, <1>2, <1>3 DEF UpgradeNext

LEMMA NamesKept ==
  ASSUME NamesInv, UpgradeNext
  PROVE  NamesInv'
<1> USE DEF NamesInv
<1> USE DEF PastWorkspaces
<1>1. ASSUME NEW t \in Workspaces, RenameWorkspace(t) PROVE NamesInv'
  <2>1. PICK new :
          \/ new \notin Taken(t) /\ name' = [name EXCEPT ![t] = new] /\ step' = step
          \/ step' = "down" /\ name' = name
    BY <1>1 DEF RenameWorkspace
  <2>2. step = "workspaces"
    BY <1>1 DEF RenameWorkspace
  <2>3. CASE new \notin Taken(t) /\ name' = [name EXCEPT ![t] = new] /\ step' = step
    <3>1. /\ name' = [u \in Workspaces |-> name'[u]]
          /\ \A u \in Workspaces : name'[u] = IF u = t THEN new ELSE name[u]
      BY <2>3
    <3>2. \A u \in Workspaces \ {t} : name[u] # new
      BY <2>3 DEF Taken
    <3> QED BY <2>2, <2>3, <3>1, <3>2
  <2>4. CASE step' = "down" /\ name' = name
    BY <2>4
  <2> QED BY <2>1, <2>3, <2>4
<1>2. CASE MigratePersonalWorkspaces
  BY <1>2 DEF MigratePersonalWorkspaces, At, otherRows
<1>3. CASE \/ New \/ AddColumns \/ PromoteInFlight \/ ConsumeMarkers \/ BudgetMarkers
           \/ DedupeConfigs \/ BackfillRemoteIDs
           \/ migrateSQLiteScheduledPostsDraftStatus \/ migrateSQLiteScheduledPostsAutomationSource
           \/ (\E c \in Children: Embed(c) \/ DeleteEmbedded(c) \/ PromoteOrphan(c))
           \/ EmbedDone \/ ProvidersDone
           \/ (\E t \in Constrained: rebuildSQLiteProviderTable(t))
           \/ BackfillPostHashtags
           \/ ClaimItem \/ RecordBaseline \/ JobEndsWell \/ JobEndsBadly \/ Stop
  <2>1. UNCHANGED <<name, flagged>>
    BY <1>3 DEF New, AddColumns, PromoteInFlight, ConsumeMarkers, BudgetMarkers, DedupeConfigs,
         BackfillRemoteIDs, migrateSQLiteScheduledPostsDraftStatus, Embed, DeleteEmbedded,
         PromoteOrphan, migrateSQLiteScheduledPostsAutomationSource, EmbedDone, ProvidersDone,
         rebuildSQLiteProviderTable, BackfillPostHashtags, ClaimItem, RecordBaseline,
         JobEndsWell, JobEndsBadly, Serve, Stop, otherRows
  <2>2. step' \in PastWorkspaces => step \in PastWorkspaces
    BY <1>3 DEF New, AddColumns, PromoteInFlight, ConsumeMarkers, BudgetMarkers, DedupeConfigs,
         BackfillRemoteIDs, migrateSQLiteScheduledPostsDraftStatus, Embed, DeleteEmbedded,
         PromoteOrphan, migrateSQLiteScheduledPostsAutomationSource, EmbedDone, ProvidersDone,
         rebuildSQLiteProviderTable, BackfillPostHashtags, ClaimItem, RecordBaseline, At,
         JobEndsWell, JobEndsBadly, Serve, Stop
  <2> QED BY <2>1, <2>2
<1> QED BY <1>1, <1>2, <1>3 DEF UpgradeNext

UpgradeIInv == MarkerInv /\ TableInv /\ ColumnsInv /\ AnnounceInv /\ RowsInv /\ NamesInv

LEMMA UpgradeStarts ==
  ASSUME UpgradeInit
  PROVE  UpgradeIInv
<1> DEFINE Given == [there: {TRUE}, attempts: {0, 1}, linked: BOOLEAN, consumed: BOOLEAN,
                     budgeted: {FALSE}, leases: {0}]
<1>0. /\ step = "down" /\ starts = 0 /\ targets = {"of the posts", "of the accounts"}
      /\ marker = NotThere \/ marker \in Given
      /\ flight \in BOOLEAN /\ ought = Settled(marker, flight)
      /\ Children \subseteq templates /\ announces = Children /\ embedded = [p \in Parents |-> Nobody]
      /\ configs \in {{}, {1, 2}}
  BY DEF UpgradeInit
<1>z. ~(starts > 0) /\ ~(starts > 1) /\ starts \in Nat
  <2>1. starts = 0
    BY <1>0
  <2> QED BY <2>1
<1>c. configs \subseteq Int
  <2>1. configs = {} \/ configs = {1, 2}
    BY <1>0
  <2> QED BY <2>1
<1> USE DEF PastWorkspaces, PastEmbed, PastAutomation, PastRemote, PastDedupe, PastBudget,
            PastConsume, PastPromote, PastColumns
<1>1. MarkerInv
  <2>1. MarkerRow(marker)
    <3>1. MarkerRow(NotThere)
      BY DEF MarkerRow, NotThere
    <3>2. marker \in Given => MarkerRow(marker)
      BY DEF MarkerRow
    <3> HIDE DEF Given
    <3> QED BY <1>0, <3>1, <3>2
  <2> QED BY <1>0, <2>1 DEF MarkerInv
<1>2. TableInv
  BY <1>0, <1>z DEF TableInv
<1>g. ColumnsInv
  <2>1. PICK has \in Releases :
          /\ shape = "first" \/ shape = "draft" \/ shape = "automation"
          /\ columns = [g \in Groups |-> IF g \in has THEN "filled" ELSE "none"]
          /\ given = [shape |-> shape, filled |-> has]
    BY DEF UpgradeInit
  <2>2. has \subseteq Groups
    BY DEF Releases, Groups
  <2>3. given.shape = shape /\ given.filled = has
    BY <2>1
  <2> QED BY <1>0, <2>1, <2>2, <2>3 DEF ColumnsInv, Shapes
<1>3. AnnounceInv
  BY <1>0, UpgradeAssumption DEF AnnounceInv, Nobody
<1>4. RowsInv
  BY <1>0, <1>c DEF RowsInv
<1>5. NamesInv
  <2>1. PICK own \in SUBSET Workspaces :
          Cardinality(own) <= 1 /\ name = [t \in Workspaces |-> IF t \in own THEN Named(1) ELSE Legacy(t)]
    BY DEF UpgradeInit
  <2>2. \A t, u \in own : t = u
    <3> SUFFICES ASSUME NEW t \in own, NEW u \in own, t # u PROVE FALSE
      OBVIOUS
    <3>1. IsFiniteSet(own)
      BY UpgradeAssumption, FS_Subset
    <3>2. IsFiniteSet({t}) /\ Cardinality({t}) = 1
      BY FS_Singleton
    <3>3. Cardinality({t} \cup {u}) = 2
      <4>1. u \notin {t}
        OBVIOUS
      <4>2. Cardinality({t} \cup {u}) = Cardinality({t}) + 1
        BY <3>2, <4>1, FS_AddElement
      <4> QED BY <3>2, <4>2
    <3>4. {t} \cup {u} \subseteq own
      OBVIOUS
    <3>5. Cardinality({t} \cup {u}) <= Cardinality(own)
      BY <3>1, <3>4, FS_Subset
    <3>6. Cardinality(own) \in Nat
      BY <3>1, FS_CardinalityType
    <3> QED BY <2>1, <3>3, <3>5, <3>6
  <2>3. \A t, u : Legacy(t) # Named(1) /\ (Legacy(t) = Legacy(u) => t = u)
    BY DEF Legacy, Named
  <2>4. \A t, u \in Workspaces : t # u => name[t] # name[u]
    BY <2>1, <2>2, <2>3
  <2>5. name = [t \in Workspaces |-> name[t]]
    BY <2>1
  <2> QED BY <1>0, <2>4, <2>5 DEF NamesInv
<1> QED BY <1>1, <1>2, <1>g, <1>3, <1>4, <1>5 DEF UpgradeIInv

\* A start that succeeds leaves what an uninterrupted one would, for any number of
\* templates, workspaces, starts and stops half way, from every shape an earlier
\* release left: what the rebuilds of scheduled_posts lose is exactly what their
\* INSERT leaves out (personal.go), and an announcement is lost only to another
\* one of the same template (applySQLiteLegacyMigrations).
THEOREM UpgradesAreWhole == UpgradeSpec => []UpgradeLossesAreKnown
<1>1. UpgradeInit => UpgradeIInv
  BY UpgradeStarts
<1>2. UpgradeIInv /\ [UpgradeNext]_upgradeVars => UpgradeIInv'
  <2> SUFFICES ASSUME UpgradeIInv, [UpgradeNext]_upgradeVars PROVE UpgradeIInv'
    OBVIOUS
  <2>1. CASE UpgradeNext
    BY <2>1, MarkerKept, TableKept, ColumnsKept, AnnouncesKept, RowsKept, NamesKept DEF UpgradeIInv
  <2>2. CASE UNCHANGED upgradeVars
    <3>1. MarkerInv' /\ TableInv'
      BY <2>2 DEF upgradeVars, UpgradeIInv, MarkerInv, TableInv, HasColumns
    <3>2. AnnounceInv' /\ RowsInv' /\ NamesInv'
      BY <2>2 DEF upgradeVars, UpgradeIInv, AnnounceInv, Embedded, RowsInv, NamesInv
    <3>3. ColumnsInv'
      BY <2>2 DEF upgradeVars, UpgradeIInv, ColumnsInv, Omitted
    <3> QED BY <3>1, <3>2, <3>3 DEF UpgradeIInv
  <2> QED BY <2>1, <2>2
<1>3. UpgradeIInv => UpgradeLossesAreKnown
  <2> SUFFICES ASSUME UpgradeIInv PROVE UpgradeLossesAreKnown
    OBVIOUS
  <2>1. step = "serving" => marker = ought /\ marker.leases <= 1
    BY DEF UpgradeIInv, MarkerInv, MarkerRow
  <2>2. step = "serving" =>
          \A c \in Children:
            IF ParentOf[c] \in templates
            THEN c \notin templates /\ \E d \in Children: ParentOf[d] = ParentOf[c] /\ embedded[ParentOf[c]] = d
            ELSE c \in templates /\ c \notin announces
    BY DEF UpgradeIInv, AnnounceInv, Embedded, PastEmbed, PastWorkspaces
  <2>3. step = "serving" => Cardinality(configs) <= 1
    <3> SUFFICES ASSUME step = "serving" PROVE Cardinality(configs) <= 1
      OBVIOUS
    <3>1. \A c, d \in configs : c = d
      BY DEF UpgradeIInv, RowsInv, PastDedupe, PastRemote, PastAutomation, PastEmbed, PastWorkspaces
    <3>2. CASE configs = {}
      BY <3>2, FS_EmptySet
    <3>3. CASE configs # {}
      <4>1. PICK c \in configs : TRUE
        BY <3>3
      <4>2. configs = {c}
        BY <3>1
      <4> QED BY <4>2, FS_Singleton
    <3> QED BY <3>2, <3>3
  <2>4. step = "serving" => remote # "uri" /\ flagged = {} /\ (starts > 1 => HasColumns(Groups))
    BY DEF UpgradeIInv, RowsInv, NamesInv, TableInv, PastRemote, PastAutomation, PastEmbed, PastWorkspaces
  <2>5. step = "serving" => {g \in Groups: columns[g] = "filled"} = given.filled \ Omitted
    <3> SUFFICES ASSUME step = "serving" PROVE {g \in Groups: columns[g] = "filled"} = given.filled \ Omitted
      OBVIOUS
    <3>1. shape = "automation"
      BY DEF UpgradeIInv, TableInv, PastAutomation, PastEmbed, PastWorkspaces
    <3>2. shape = given.shape => Omitted = {}
      BY <3>1 DEF Omitted
    <3> QED BY <3>2 DEF UpgradeIInv, ColumnsInv
  <2> QED BY <2>1, <2>2, <2>3, <2>4, <2>5 DEF UpgradeLossesAreKnown, UpgradeIInv, NamesInv, TableInv
<1> QED BY <1>1, <1>2, <1>3, PTL DEF UpgradeSpec

(* ExternalImport. *)

\* A set of naturals up to a bound has a greatest member.
LEMMA GreatestOf ==
  ASSUME NEW n \in Nat, NEW S, S \subseteq 0..n, S # {}
  PROVE  Max(S) \in S
<1> DEFINE below == {n - k : k \in S}
<1>1. below \subseteq Nat /\ below # {}
  <2>1. \A k \in S : n - k \in Nat
    OBVIOUS
  <2> QED BY <2>1
<1>2. IsWellFoundedOn(OpToRel(<,Nat), Nat)
  BY NatLessThanWellFounded
<1>3. PICK m \in below : \A k \in below : ~(<<k, m>> \in OpToRel(<,Nat))
  <2> HIDE DEF OpToRel, below
  <2> QED BY <1>1, <1>2, WFMin
<1>4. PICK x \in S : m = n - x
  OBVIOUS
<1>5. \A k \in S : x >= k
  <2> SUFFICES ASSUME NEW k \in S PROVE x >= k
    OBVIOUS
  <2>1. ~(n - k < n - x)
    BY <1>1, <1>3, <1>4 DEF OpToRel
  <2> QED BY <2>1
<1> QED BY <1>5 DEF Max

\* The row of a status: the publisher's, with the identifiers the provider answered, or
\* an imported one, with those of the feed.
TargetRow(entry) ==
  /\ entry \in [status : Statuses, source : {"goloom", "imported"}, ids : AnswerIds]
  /\ entry.source = "imported" => entry.ids = FeedIds
  /\ entry.source = "goloom" => wall[entry.status].by = "goloom"

\* Each writer has one row of a status; an accepted status is not recorded yet.
PostedInv ==
  /\ \A entry \in kept : TargetRow(entry)
  /\ \A entry, own \in kept : entry.status = own.status /\ entry.source = own.source => entry = own
  /\ accepted \subseteq Statuses
  /\ \A s \in accepted : /\ wall[s].by = "goloom"
                         /\ \A entry \in kept : entry.status = s => entry.source = "imported"

WallInv ==
  /\ today \in Nat
  /\ wall \in Seq([acct : Walls, at : Nat, by : {"goloom", "outside"}])
  /\ \A s \in Statuses : wall[s].at <= today

\* A status written outside is among the posts, or an import had a reason.
Listed(s) == Tracked(s) \/ s \in excused
Covered(t) == \A s \in Statuses : wall[s].by = "outside" /\ wall[s].at < t => Listed(s)

SettingsSound(set) ==
  /\ set \in [enabled : BOOLEAN, backfilled : BOOLEAN, lastSync : Nat]
  /\ set.lastSync <= today
  /\ set.backfilled => Covered(set.lastSync)

SettingsInv ==
  /\ SettingsSound(monitor)
  /\ request.stage = "read" => request.on \in BOOLEAN /\ SettingsSound(request.old)

RoundShape(o) ==
  /\ o \in [stage : {"cleanup", "accounts", "create", "save"}, mode : {"sync", "old"},
            now : Nat, since : {o.since}, from : {o.from}, done : BOOLEAN, todo : SUBSET Walls,
            post : {o.post}, batch : SUBSET Statuses, page : {o.page}, asked : {o.asked},
            got : {o.got}, before : {o.before}]
  /\ o.stage = "create" => o.post \in Statuses
  /\ o.stage \in {"cleanup", "save"} => o.mode = "sync"
  /\ o.mode = "sync" => o.page = {}

\* What a round has not settled it still has before it.
RoundWhole(o) ==
  /\ o.now <= today /\ o.since \in Nat /\ o.since <= today /\ Covered(o.since)
  /\ \A s \in Statuses :
       wall[s].by = "outside" /\ wall[s].at < o.now =>
         \/ Listed(s) \/ s \in o.batch
         \/ o.stage # "save" /\ wall[s].acct \in o.todo
         \/ o.stage = "create" /\ o.post = s
  /\ o.stage = "save" => o.batch = {}

RoundSound(o) == RoundShape(o) /\ (o.mode = "sync" => RoundWhole(o))

RoundsInv ==
  /\ import = [r \in Replicas |-> import[r]]
  /\ \A r \in Replicas : Running(r) => RoundSound(import[r])

\* Two rows of a status, or one that is about to be its second: it is fresh, or its post
\* is not posted.
FreshInv ==
  /\ \A entry, own \in kept : entry.status = own.status /\ entry # own => entry.status \in fresh \cup open
  /\ \A r \in Replicas : \A entry \in kept :
       import[r].stage = "create" /\ entry.status = import[r].post /\ entry.source = "goloom" =>
         entry.status \in fresh \cup open

ImportIInv == WallInv /\ PostedInv /\ SettingsInv /\ RoundsInv /\ FreshInv

Status == [acct : Walls, at : Nat, by : {"goloom", "outside"}]

LEMMA OnTheWall ==
  ASSUME WallInv, NEW s \in Statuses
  PROVE  wall[s].acct \in Walls /\ wall[s].at \in Nat
<1>1. wall \in Seq(Status)
  BY DEF WallInv, Status
<1>2. wall[s] \in Status
  <2> HIDE DEF Status
  <2> QED BY <1>1 DEF Statuses
<1> QED BY <1>2 DEF Status

\* The wall is longer by one status.
LEMMA WallLonger ==
  ASSUME WallInv, NEW e \in Status
  PROVE  LET to == Append(wall, e)
         IN  /\ to \in Seq(Status)
             /\ DOMAIN to = Statuses \cup {Len(wall) + 1}
             /\ Len(wall) + 1 \notin Statuses
             /\ to[Len(wall) + 1] = e
             /\ \A s \in Statuses : to[s] = wall[s]
<1>1. wall \in Seq(Status)
  BY DEF WallInv, Status
<1> HIDE DEF Status
<1> QED BY <1>1 DEF Statuses

\* Time goes on, new statuses are of this time, and what was taken stays taken.
Grows ==
  /\ today \in Nat /\ today' \in Nat /\ today <= today'
  /\ Statuses \subseteq Statuses' /\ \A s \in Statuses : wall'[s] = wall[s]
  /\ \A s \in Statuses' \ Statuses : wall'[s].at = today
  /\ \A s \in Statuses : wall[s].by = "outside" /\ Listed(s) => Listed(s)'

\* What was covered up to a time that has been stays so.
LEMMA CoveredStays ==
  ASSUME WallInv, Grows, NEW t \in Nat, t <= today, Covered(t)
  PROVE  \A s \in Statuses' : wall'[s].by = "outside" /\ wall'[s].at < t => Listed(s)'
BY DEF Grows, Covered

LEMMA RoundStays ==
  ASSUME WallInv, Grows, NEW q \in Replicas, RoundSound(import[q]), import'[q] = import[q]
  PROVE  RoundSound(import[q])'
<1>1. RoundShape(import[q])'
  <2>1. SUBSET Statuses \subseteq SUBSET (Statuses')
    BY DEF Grows
  <2> QED BY <2>1 DEF RoundSound, RoundShape, Grows
<1>2. ASSUME import[q].mode = "sync"
      PROVE  RoundWhole(import[q])'
  <2>1. /\ import[q].now \in Nat /\ import[q].now <= today /\ import[q].since \in Nat
        /\ import[q].since <= today /\ Covered(import[q].since)
    BY <1>2 DEF RoundSound, RoundShape, RoundWhole
  <2>2. \A s \in Statuses' : wall'[s].by = "outside" /\ wall'[s].at < import[q].since => Listed(s)'
    BY <2>1, CoveredStays
  <2>3. import[q].now <= today' /\ import[q].since <= today'
    BY <2>1 DEF Grows
  <2>4. \A s \in Statuses' :
          wall'[s].by = "outside" /\ wall'[s].at < import[q].now =>
            \/ Listed(s)' \/ s \in import[q].batch
            \/ import[q].stage # "save" /\ wall'[s].acct \in import[q].todo
            \/ import[q].stage = "create" /\ import[q].post = s
    <3> SUFFICES ASSUME NEW s \in Statuses', wall'[s].by = "outside", wall'[s].at < import[q].now
                 PROVE  \/ Listed(s)' \/ s \in import[q].batch
                        \/ import[q].stage # "save" /\ wall'[s].acct \in import[q].todo
                        \/ import[q].stage = "create" /\ import[q].post = s
      OBVIOUS
    <3>1. s \in Statuses /\ wall'[s] = wall[s]
      BY <2>1 DEF Grows
    <3> QED BY <1>2, <3>1 DEF RoundSound, RoundWhole, Grows
  <2> QED BY <1>2, <2>1, <2>2, <2>3, <2>4 DEF RoundSound, RoundWhole, Covered
<1> QED BY <1>1, <1>2 DEF RoundSound

LEMMA SettingsStay ==
  ASSUME WallInv, Grows, SettingsInv, UNCHANGED <<monitor, request>>
  PROVE  SettingsInv'
<1>1. SettingsSound(monitor)'
  <2>1. monitor.backfilled =>
          \A s \in Statuses' : wall'[s].by = "outside" /\ wall'[s].at < monitor.lastSync => Listed(s)'
    BY CoveredStays DEF SettingsInv, SettingsSound
  <2> QED BY <2>1 DEF SettingsInv, SettingsSound, Covered, Grows
<1>2. request.stage = "read" => SettingsSound(request.old)'
  <2> SUFFICES ASSUME request.stage = "read" PROVE SettingsSound(request.old)'
    OBVIOUS
  <2>1. request.old.backfilled =>
          \A s \in Statuses' : wall'[s].by = "outside" /\ wall'[s].at < request.old.lastSync => Listed(s)'
    BY CoveredStays DEF SettingsInv, SettingsSound
  <2>2. request'.old = request.old
    OBVIOUS
  <2> QED BY <2>1, <2>2 DEF SettingsInv, SettingsSound, Covered, Grows
<1> QED BY <1>1, <1>2 DEF SettingsInv

\* Nothing on the wall moves.
LEMMA GrowsHere ==
  ASSUME WallInv, UNCHANGED <<today, wall>>,
         \A s \in Statuses : wall[s].by = "outside" /\ Listed(s) => Listed(s)'
  PROVE  Grows /\ Statuses' = Statuses
BY DEF Grows, WallInv, Statuses

LEMMA PostedStay ==
  ASSUME PostedInv, UNCHANGED <<wall, kept, accepted>>
  PROVE  PostedInv'
BY DEF PostedInv, TargetRow, Statuses

\* What a round has before it when the step is done.
Remains(o) ==
  /\ o.now <= today /\ o.since \in Nat /\ o.since <= today
  /\ \A s \in Statuses :
       wall[s].by = "outside" =>
         /\ wall[s].at < o.since => Listed(s)'
         /\ wall[s].at < o.now =>
              \/ Listed(s)' \/ s \in o.batch
              \/ o.stage # "save" /\ wall[s].acct \in o.todo
              \/ o.stage = "create" /\ o.post = s
  /\ o.stage = "save" => o.batch = {}

\* One replica goes on.
LEMMA RoundTurns ==
  ASSUME WallInv, RoundsInv, Grows, UNCHANGED <<today, wall>>, NEW r \in Replicas, NEW new,
         import' = [import EXCEPT ![r] = new],
         new.stage # "idle" => RoundShape(new) /\ (new.mode = "sync" => Remains(new))
  PROVE  RoundsInv'
<1>1. import = [q \in Replicas |-> import[q]]
  BY DEF RoundsInv
<1>2. import'[r] = new /\ \A q \in Replicas \ {r} : import'[q] = import[q]
  BY <1>1
<1>3. import' = [q \in Replicas |-> import'[q]]
  BY <1>1
<1>4. ASSUME NEW q \in Replicas, q # r, Running(q)' PROVE RoundSound(import[q])'
  <2>1. import'[q] = import[q] /\ Running(q)
    BY <1>2, <1>4 DEF Running
  <2> QED BY <2>1, RoundStays DEF RoundsInv
<1>5. ASSUME Running(r)' PROVE RoundSound(import[r])'
  <2>1. new.stage # "idle"
    BY <1>2, <1>5 DEF Running
  <2>2. RoundShape(import[r])'
    BY <1>2, <2>1 DEF RoundShape, Statuses
  <2>3. new.mode = "sync" => RoundWhole(import[r])'
    <3> SUFFICES ASSUME new.mode = "sync" PROVE RoundWhole(import[r])'
      OBVIOUS
    <3>1. Remains(new)
      BY <2>1
    <3> QED BY <1>2, <3>1 DEF Remains, RoundWhole, Covered, Statuses
  <2> QED BY <1>2, <2>2, <2>3 DEF RoundSound
<1> QED BY <1>3, <1>4, <1>5 DEF RoundsInv

\* No row is written.
LEMMA FreshStays ==
  ASSUME RoundsInv, FreshInv, UNCHANGED <<kept, fresh, open>>, NEW r \in Replicas, NEW new,
         import' = [import EXCEPT ![r] = new], new.stage = "create" => ~Tracked(new.post)
  PROVE  FreshInv'
<1>1. import = [q \in Replicas |-> import[q]]
  BY DEF RoundsInv
<1>2. import'[r] = new /\ \A q \in Replicas \ {r} : import'[q] = import[q]
  BY <1>1
<1>3. ASSUME NEW q \in Replicas, NEW entry \in kept, import'[q].stage = "create",
             entry.status = import'[q].post, entry.source = "goloom"
      PROVE  entry.status \in fresh \cup open
  BY <1>2, <1>3 DEF FreshInv, Tracked
<1> QED BY <1>3 DEF FreshInv

\* A step of a round that writes no row.
LEMMA RoundAlone ==
  ASSUME ImportIInv, UNCHANGED <<today, wall, kept, monitor, accepted, request, fresh, open>>,
         excused \subseteq excused', NEW r \in Replicas, NEW new,
         import' = [import EXCEPT ![r] = new], new.stage = "create" => ~Tracked(new.post),
         new.stage # "idle" => RoundShape(new) /\ (new.mode = "sync" => Remains(new))
  PROVE  ImportIInv'
<1>1. Grows
  <2>1. \A s \in Statuses : Listed(s) => Listed(s)'
    BY DEF Listed, Tracked
  <2> QED BY <2>1, GrowsHere DEF ImportIInv
<1>2. WallInv' /\ PostedInv'
  BY PostedStay DEF ImportIInv, WallInv, Statuses
<1>3. SettingsInv'
  BY <1>1, SettingsStay DEF ImportIInv
<1>4. RoundsInv'
  BY <1>1, RoundTurns DEF ImportIInv
<1>5. FreshInv'
  BY FreshStays DEF ImportIInv
<1> QED BY <1>2, <1>3, <1>4, <1>5 DEF ImportIInv

\* The excuses of a round.
LEMMA Excuses ==
  ASSUME NEW S, excused' = Excuse(S)
  PROVE  /\ excused \subseteq excused'
         /\ \A s \in S : wall[s].by = "outside" => Tracked(s) \/ s \in excused'
BY DEF Excuse, Tracked

\* What a round under way has settled stays settled.
LEMMA RoundGoesOn ==
  ASSUME WallInv, RoundsInv, UNCHANGED <<wall, kept>>, excused \subseteq excused',
         NEW r \in Replicas, Running(r), import[r].mode = "sync"
  PROVE  /\ import[r].now \in Nat /\ import[r].now <= today
         /\ import[r].since \in Nat /\ import[r].since <= today
         /\ \A s \in Statuses : Listed(s) => Listed(s)'
         /\ \A s \in Statuses :
              wall[s].by = "outside" =>
                /\ wall[s].at < import[r].since => Listed(s)'
                /\ wall[s].at < import[r].now =>
                     \/ Listed(s)' \/ s \in import[r].batch
                     \/ import[r].stage # "save" /\ wall[s].acct \in import[r].todo
                     \/ import[r].stage = "create" /\ import[r].post = s
<1>1. RoundShape(import[r]) /\ RoundWhole(import[r])
  BY DEF RoundsInv, RoundSound
<1>2. \A s \in Statuses : Listed(s) => Listed(s)'
  BY DEF Listed, Tracked
<1> QED BY <1>1, <1>2 DEF RoundShape, RoundWhole, Covered

LEMMA TeamStep ==
  ASSUME ImportIInv, NEW r \in Replicas, importExternalPostsForTeam(r)
  PROVE  ImportIInv'
<1> DEFINE incremental == monitor.backfilled /\ monitor.lastSync # Never
           since == IF incremental THEN monitor.lastSync ELSE Max({0, today - Horizon})
           old == {s \in Statuses : ~incremental /\ wall[s].at < since}
           new == [Round("sync", since, Walls) EXCEPT !.stage = "cleanup", !.done = monitor.backfilled]
<1>1. /\ import' = [import EXCEPT ![r] = new] /\ excused' = Excuse(old)
      /\ UNCHANGED <<today, wall, kept, monitor, accepted, request, fresh, open>>
  BY DEF importExternalPostsForTeam
<1>2. since \in Nat /\ since <= today
  <2>1. CASE incremental
    BY <2>1 DEF ImportIInv, SettingsInv, SettingsSound
  <2>2. CASE ~incremental
    <3> DEFINE S == {0, today - Horizon}
    <3>1. today \in Nat /\ Horizon \in Nat
      BY ImportAssumption DEF ImportIInv, WallInv
    <3>2. Max(S) \in S /\ Max(S) >= 0
      <4>1. PICK m \in S : \A k \in S : m >= k
        BY <3>1
      <4>2. Max(S) \in S /\ \A k \in S : Max(S) >= k
        BY <4>1 DEF Max
      <4> QED BY <4>2
    <3> QED BY <2>2, <3>1, <3>2
  <2> QED BY <2>1, <2>2
<1>3. excused \subseteq excused' /\ \A s \in old : wall[s].by = "outside" => Tracked(s) \/ s \in excused'
  BY <1>1, Excuses
<1>4. today \in Nat /\ \A s \in Statuses : wall[s].acct \in Walls /\ wall[s].at \in Nat
  BY OnTheWall DEF ImportIInv, WallInv
<1>5. \A s \in Statuses : wall[s].by = "outside" /\ wall[s].at < since => Listed(s)'
  <2>1. CASE incremental
    BY <1>1, <1>3, <2>1 DEF ImportIInv, SettingsInv, SettingsSound, Covered, Listed, Tracked
  <2>2. CASE ~incremental
    BY <1>1, <1>3, <2>2 DEF Listed, Tracked
  <2> QED BY <2>1, <2>2
<1>6. /\ new.stage = "cleanup" /\ new.mode = "sync" /\ new.now = today /\ new.since = since
      /\ new.todo = Walls /\ new.batch = {}
  BY DEF Round
<1>7. RoundShape(new)
  <2>1. monitor.backfilled \in BOOLEAN
    BY DEF ImportIInv, SettingsInv, SettingsSound
  <2> HIDE DEF since
  <2> QED BY <1>4, <2>1 DEF RoundShape, Round
<1> HIDE DEF new, old, since
<1>8. Remains(new)
  BY <1>2, <1>4, <1>5, <1>6 DEF Remains
<1> QED BY <1>1, <1>3, <1>6, <1>7, <1>8, RoundAlone

LEMMA AccountStep ==
  ASSUME ImportIInv, NEW r \in Replicas, NEW a \in Walls, importExternalPostsForAccount(r, a)
  PROVE  ImportIInv'
<1> DEFINE feed == ListAuthorPosts(a, import[r].since, FeedLimit)
           read == [import[r] EXCEPT !.todo = @ \ {a}, !.batch = feed]
           pass == [import[r] EXCEPT !.todo = @ \ {a}]
<1>1. /\ import[r].stage = "accounts" /\ import[r].mode = "sync" /\ import[r].batch = {}
      /\ Running(r) /\ RoundShape(import[r])
      /\ UNCHANGED <<today, wall, kept, monitor, accepted, request, fresh, open>>
  BY DEF importExternalPostsForAccount, AtAccounts, Running, ImportIInv, RoundsInv, RoundSound
<1>2. feed \subseteq Statuses
  BY DEF ListAuthorPosts, Newest, OnWall
<1>3. CASE /\ import' = [import EXCEPT ![r] = read]
           /\ excused' = Excuse(OnWall(a) \ Newest(OnWall(a), FeedLimit))
  <2>1. /\ excused \subseteq excused'
        /\ \A s \in OnWall(a) \ Newest(OnWall(a), FeedLimit) :
             wall[s].by = "outside" => Tracked(s) \/ s \in excused'
    BY <1>3, Excuses
  <2>2. /\ read.stage = "accounts" /\ read.mode = "sync" /\ read.now = import[r].now
        /\ read.since = import[r].since /\ read.todo = import[r].todo \ {a} /\ read.batch = feed
    BY <1>1 DEF RoundShape
  <2>3. RoundShape(read)
    BY <1>1, <1>2 DEF RoundShape
  <2> HIDE DEF read
  <2>4. Remains(read)
    <3>1. ASSUME NEW s \in Statuses, wall[s].by = "outside", wall[s].acct = a
          PROVE  Listed(s)' \/ s \in feed
      <4>1. s \in OnWall(a)
        BY <3>1 DEF OnWall
      <4>2. CASE s \notin Newest(OnWall(a), FeedLimit)
        BY <1>1, <2>1, <3>1, <4>1, <4>2 DEF Listed, Tracked
      <4>3. CASE wall[s].at < import[r].since
        BY <1>1, <2>1, <3>1, <4>3, RoundGoesOn DEF ImportIInv
      <4>4. CASE s \in Newest(OnWall(a), FeedLimit) /\ ~(wall[s].at < import[r].since)
        <5>1. wall[s].at \in Nat /\ import[r].since \in Nat
          BY <1>1, <2>1, RoundGoesOn, OnTheWall DEF ImportIInv
        <5> QED BY <4>4, <5>1 DEF ListAuthorPosts
      <4> QED BY <4>2, <4>3, <4>4
    <3> HIDE DEF feed
    <3>2. /\ import[r].now \in Nat /\ import[r].now <= today
          /\ import[r].since \in Nat /\ import[r].since <= today
          /\ \A s \in Statuses :
               wall[s].by = "outside" =>
                 /\ wall[s].at < import[r].since => Listed(s)'
                 /\ wall[s].at < import[r].now => Listed(s)' \/ wall[s].acct \in import[r].todo
      BY <1>1, <2>1, RoundGoesOn DEF ImportIInv
    <3> QED BY <2>2, <3>1, <3>2 DEF Remains
  <2> QED BY <1>1, <1>3, <2>1, <2>2, <2>3, <2>4, RoundAlone
<1>4. CASE import' = [import EXCEPT ![r] = pass] /\ excused' = Excuse(OnWall(a))
  <2>1. /\ excused \subseteq excused'
        /\ \A s \in OnWall(a) : wall[s].by = "outside" => Tracked(s) \/ s \in excused'
    BY <1>4, Excuses
  <2>2. /\ pass.stage = "accounts" /\ pass.mode = "sync" /\ pass.now = import[r].now
        /\ pass.since = import[r].since /\ pass.todo = import[r].todo \ {a} /\ pass.batch = {}
    BY <1>1 DEF RoundShape
  <2>3. RoundShape(pass)
    BY <1>1 DEF RoundShape
  <2> HIDE DEF pass
  <2>4. Remains(pass)
    <3>1. \A s \in Statuses : wall[s].by = "outside" /\ wall[s].acct = a => Listed(s)'
      BY <1>1, <2>1 DEF Listed, Tracked, OnWall
    <3>2. /\ import[r].now \in Nat /\ import[r].now <= today
          /\ import[r].since \in Nat /\ import[r].since <= today
          /\ \A s \in Statuses :
               wall[s].by = "outside" =>
                 /\ wall[s].at < import[r].since => Listed(s)'
                 /\ wall[s].at < import[r].now => Listed(s)' \/ wall[s].acct \in import[r].todo
      BY <1>1, <2>1, RoundGoesOn DEF ImportIInv
    <3> QED BY <2>2, <3>1, <3>2 DEF Remains
  <2> QED BY <1>1, <1>4, <2>1, <2>2, <2>3, <2>4, RoundAlone
<1>5. \/ /\ import' = [import EXCEPT ![r] = read]
         /\ excused' = Excuse(OnWall(a) \ Newest(OnWall(a), FeedLimit))
      \/ import' = [import EXCEPT ![r] = pass] /\ excused' = Excuse(OnWall(a))
  <2>1. import = [q \in Replicas |-> import[q]]
    BY DEF ImportIInv, RoundsInv
  <2> QED BY <2>1 DEF importExternalPostsForAccount
<1> QED BY <1>3, <1>4, <1>5

LEMMA PostStep ==
  ASSUME ImportIInv, NEW r \in Replicas, ImportOnePost(r)
  PROVE  ImportIInv'
<1> DEFINE o == import[r]
<1>s. PICK s : s = Max(o.batch)
  OBVIOUS
<1> DEFINE over == [o EXCEPT !.batch = o.batch \ {s}]
           news == [o EXCEPT !.batch = o.batch \ {s}, !.post = s, !.stage = "create"]
<1>1. /\ o.stage = "accounts" /\ o.batch # {} /\ Running(r) /\ RoundShape(o)
      /\ UNCHANGED <<today, wall, kept, monitor, accepted, request, fresh, open>>
  BY DEF ImportOnePost, Running, ImportIInv, RoundsInv, RoundSound
<1>2. s \in o.batch /\ s \in Statuses
  <2>1. o.batch \subseteq Statuses
    BY <1>1 DEF RoundShape
  <2>2. Len(wall) \in Nat /\ Statuses \subseteq 0..Len(wall)
    <3>1. wall \in Seq(Status)
      BY DEF ImportIInv, WallInv, Status
    <3> HIDE DEF Status
    <3> QED BY <3>1 DEF Statuses
  <2> QED BY <1>s, <1>1, <2>1, <2>2, GreatestOf
<1>3. /\ over.stage = "accounts" /\ over.mode = o.mode /\ over.now = o.now /\ over.since = o.since
      /\ over.todo = o.todo /\ over.batch = o.batch \ {s}
  BY <1>1 DEF RoundShape
<1>4. /\ news.stage = "create" /\ news.mode = o.mode /\ news.now = o.now /\ news.since = o.since
      /\ news.todo = o.todo /\ news.batch = o.batch \ {s} /\ news.post = s
  BY <1>1 DEF RoundShape
<1>5. RoundShape(over) /\ RoundShape(news)
  <2>1. RoundShape(over)
    BY <1>1, <1>2 DEF RoundShape
  <2>2. RoundShape(news)
    BY <1>1, <1>2 DEF RoundShape
  <2> QED BY <2>1, <2>2
<1>6. import = [q \in Replicas |-> import[q]]
  BY DEF ImportIInv, RoundsInv
<1>7. CASE AuthorPostAlreadyTracked(s) /\ import' = [import EXCEPT ![r] = over] /\ UNCHANGED excused
  <2> HIDE DEF over, news
  <2>1. Listed(s)'
    BY <1>1, <1>7 DEF AuthorPostAlreadyTracked, AuthorPostIdentifiersOverlap, Listed, Tracked
  <2>2. o.mode = "sync" => Remains(over)
    BY <1>1, <1>3, <1>7, <2>1, RoundGoesOn DEF ImportIInv, Remains
  <2> QED BY <1>1, <1>3, <1>5, <1>7, <2>2, RoundAlone
<1>8. CASE ~AuthorPostAlreadyTracked(s) /\ import' = [import EXCEPT ![r] = news] /\ UNCHANGED excused
  <2> HIDE DEF over, news
  <2>1. ~Tracked(s)
    <3>1. \A entry \in kept : entry.ids \cap FeedIds # {}
      BY DEF ImportIInv, PostedInv, TargetRow, AnswerIds, FeedIds
    <3> QED BY <1>8, <3>1 DEF AuthorPostAlreadyTracked, AuthorPostIdentifiersOverlap, Tracked
  <2>2. o.mode = "sync" => Remains(news)
    BY <1>1, <1>4, <1>8, RoundGoesOn DEF ImportIInv, Remains
  <2> QED BY <1>1, <1>4, <1>5, <1>8, <2>1, <2>2, RoundAlone
<1>9. CASE import' = [import EXCEPT ![r] = over] /\ excused' = Missed(r, s)
  <2> HIDE DEF over, news
  <2>1. excused \subseteq excused'
    BY <1>9 DEF Missed, Excuse
  <2>2. o.mode = "sync" /\ wall[s].by = "outside" => Listed(s)'
    BY <1>1, <1>9 DEF Missed, Excuse, Listed, Tracked
  <2>3. o.mode = "sync" => Remains(over)
    BY <1>1, <1>3, <2>1, <2>2, RoundGoesOn DEF ImportIInv, Remains
  <2> QED BY <1>1, <1>3, <1>5, <1>9, <2>1, <2>3, RoundAlone
<1>10. \/ AuthorPostAlreadyTracked(s) /\ import' = [import EXCEPT ![r] = over] /\ UNCHANGED excused
       \/ ~AuthorPostAlreadyTracked(s) /\ import' = [import EXCEPT ![r] = news] /\ UNCHANGED excused
       \/ import' = [import EXCEPT ![r] = over] /\ excused' = Missed(r, s)
  BY <1>s, <1>6 DEF ImportOnePost
<1> QED BY <1>7, <1>8, <1>9, <1>10

LEMMA ReadStep ==
  ASSUME ImportIInv, NEW r \in Replicas, ReadSyncState(r)
  PROVE  ImportIInv'
<1> DEFINE o == import[r]
           new == [o EXCEPT !.stage = "save", !.done = monitor.backfilled \/ ~o.done]
<1>1. /\ o.stage = "accounts" /\ o.mode = "sync" /\ o.batch = {} /\ o.todo = {}
      /\ Running(r) /\ RoundShape(o)
      /\ UNCHANGED <<today, wall, kept, monitor, accepted, request, fresh, open, excused>>
  BY DEF ReadSyncState, AtAccounts, Running, ImportIInv, RoundsInv, RoundSound
<1>2. import' = [import EXCEPT ![r] = new]
  BY DEF ReadSyncState, ImportIInv, RoundsInv
<1>3. /\ new.stage = "save" /\ new.mode = "sync" /\ new.now = o.now /\ new.since = o.since
      /\ new.todo = {} /\ new.batch = {}
  BY <1>1 DEF RoundShape
<1>4. RoundShape(new)
  BY <1>1 DEF RoundShape, ImportIInv, SettingsInv, SettingsSound
<1> HIDE DEF new
<1>5. Remains(new)
  BY <1>1, <1>3, RoundGoesOn DEF ImportIInv, Remains
<1> QED BY <1>1, <1>2, <1>3, <1>4, <1>5, RoundAlone

\* The manual import promises nothing of a window.
LEMMA OldStep ==
  ASSUME ImportIInv, NEW r \in Replicas, NEW new, import' = [import EXCEPT ![r] = new],
         UNCHANGED <<today, wall, kept, monitor, accepted, request, excused, fresh, open>>,
         new = Idle \/ (RoundShape(new) /\ new.stage = "accounts" /\ new.mode = "old")
  PROVE  ImportIInv'
<1>1. CASE new = Idle
  BY <1>1, RoundAlone DEF Idle
<1>2. CASE RoundShape(new) /\ new.stage = "accounts" /\ new.mode = "old"
  BY <1>2, RoundAlone
<1> QED BY <1>1, <1>2

LEMMA OldSteps ==
  ASSUME ImportIInv, NEW r \in Replicas,
         \/ \E a \in Walls : importOldPostsForAccount(r, a)
         \/ \E accts \in SUBSET Walls \ {{}}, since \in {0} : ImportOldPosts(r, accts, since)
         \/ OldPostsDone(r) \/ CrashImport(r)
  PROVE  ImportIInv'
<1>1. ASSUME NEW a \in Walls, importOldPostsForAccount(r, a) PROVE ImportIInv'
  <2>1. /\ RoundShape(import[r]) /\ import[r].stage = "accounts" /\ import[r].mode = "old"
        /\ UNCHANGED <<today, wall, kept, monitor, accepted, request, excused, fresh, open>>
    BY <1>1 DEF importOldPostsForAccount, AtAccounts, Running, ImportIInv, RoundsInv, RoundSound
  <2>2. CASE import' = [import EXCEPT ![r] = OldPage(r, a, import[r].from, 0)]
    <3> DEFINE asked == Min({FeedLimit, OldLimit - 0})
               page == ListAuthorPosts(a, import[r].from, asked)
               new == [import[r] EXCEPT !.todo = @ \ {a}, !.since = import[r].from, !.batch = page,
                         !.page = page, !.asked = asked, !.got = 0, !.before = 0]
    <3>1. page \subseteq Statuses
      BY DEF ListAuthorPosts, Newest, OnWall
    <3>2. import' = [import EXCEPT ![r] = new]
      BY <2>2 DEF OldPage
    <3> HIDE DEF asked, page
    <3>3. RoundShape(new) /\ new.stage = "accounts" /\ new.mode = "old"
      BY <2>1, <3>1 DEF RoundShape
    <3> HIDE DEF new
    <3> QED BY <2>1, <3>2, <3>3, OldStep
  <2>3. CASE import' = [import EXCEPT ![r].todo = @ \ {a}]
    <3> DEFINE new == [import[r] EXCEPT !.todo = @ \ {a}]
    <3>1. import' = [import EXCEPT ![r] = new]
      BY <2>3 DEF ImportIInv, RoundsInv
    <3>2. RoundShape(new) /\ new.stage = "accounts" /\ new.mode = "old"
      BY <2>1 DEF RoundShape
    <3> HIDE DEF new
    <3> QED BY <2>1, <3>1, <3>2, OldStep
  <2> QED BY <1>1, <2>2, <2>3 DEF importOldPostsForAccount
<1>2. ASSUME NEW accts \in SUBSET Walls, ImportOldPosts(r, accts, 0) PROVE ImportIInv'
  <2> DEFINE new == Round("old", 0, accts)
  <2>1. /\ import' = [import EXCEPT ![r] = new]
        /\ UNCHANGED <<today, wall, kept, monitor, accepted, request, excused, fresh, open>>
    BY <1>2 DEF ImportOldPosts
  <2>2. RoundShape(new) /\ new.stage = "accounts" /\ new.mode = "old"
    BY DEF RoundShape, Round
  <2> HIDE DEF new
  <2> QED BY <2>1, <2>2, OldStep
<1>3. CASE OldPostsDone(r) \/ CrashImport(r)
  <2>1. /\ import' = [import EXCEPT ![r] = Idle]
        /\ UNCHANGED <<today, wall, kept, monitor, accepted, request, excused, fresh, open>>
    BY <1>3 DEF OldPostsDone, CrashImport
  <2> QED BY <2>1, OldStep
<1> QED BY <1>1, <1>2, <1>3

LEMMA OldPageStep ==
  ASSUME ImportIInv, NEW r \in Replicas, OldPageDone(r)
  PROVE  ImportIInv'
<1>1. /\ RoundShape(import[r]) /\ import[r].stage = "accounts" /\ import[r].mode = "old"
      /\ UNCHANGED <<today, wall, kept, monitor, accepted, request, excused, fresh, open>>
  <2>1. RoundShape(import[r]) /\ import[r].page # {} /\ import[r].stage = "accounts"
    BY DEF OldPageDone, Running, ImportIInv, RoundsInv, RoundSound
  <2> QED BY <2>1 DEF OldPageDone, RoundShape
<1>2. CASE import' = [import EXCEPT ![r].page = {}]
  <2> DEFINE new == [import[r] EXCEPT !.page = {}]
  <2>1. import' = [import EXCEPT ![r] = new]
    BY <1>2 DEF ImportIInv, RoundsInv
  <2>2. RoundShape(new) /\ new.stage = "accounts" /\ new.mode = "old"
    BY <1>1 DEF RoundShape
  <2> HIDE DEF new
  <2> QED BY <1>1, <2>1, <2>2, OldStep
<1>3. ASSUME NEW a, NEW since, NEW got, import' = [import EXCEPT ![r] = OldPage(r, a, since, got)]
      PROVE  ImportIInv'
  <2> DEFINE asked == Min({FeedLimit, OldLimit - got})
             page == ListAuthorPosts(a, since, asked)
             new == [import[r] EXCEPT !.todo = @ \ {a}, !.since = since, !.batch = page,
                       !.page = page, !.asked = asked, !.got = got, !.before = got]
  <2>1. page \subseteq Statuses
    BY DEF ListAuthorPosts, Newest, OnWall
  <2>2. import' = [import EXCEPT ![r] = new]
    BY <1>3 DEF OldPage
  <2> HIDE DEF asked, page
  <2>3. RoundShape(new) /\ new.stage = "accounts" /\ new.mode = "old"
    BY <1>1, <2>1 DEF RoundShape
  <2> HIDE DEF new
  <2> QED BY <1>1, <2>2, <2>3, OldStep
<1> QED BY <1>2, <1>3 DEF OldPageDone

\* The clean-up takes imported copies out, of statuses that goloom published.
LEMMA CleanupStep ==
  ASSUME ImportIInv, NEW r \in Replicas, DeleteRedundantImportedPosts(r)
  PROVE  ImportIInv'
<1> DEFINE o == import[r]
           creating == {import[q].post : q \in {x \in Replicas : import[x].stage = "create"}}
<1>1. /\ o.stage = "cleanup" /\ o.mode = "sync" /\ RoundShape(o) /\ Running(r)
      /\ UNCHANGED <<today, wall, monitor, accepted, request, excused, open>>
      /\ \/ kept' = kept \ RedundantImportedPostIDs /\ fresh' = fresh \cap creating
         \/ UNCHANGED <<kept, fresh>>
  BY DEF DeleteRedundantImportedPosts, Running, ImportIInv, RoundsInv, RoundSound, RoundShape
<1>2. PICK new : /\ import' = [import EXCEPT ![r] = new]
                 /\ new = [o EXCEPT !.stage = "accounts"] \/ new = Idle
  BY DEF DeleteRedundantImportedPosts, teamOwnerUserID
<1>3. \A entry \in kept \ kept' : entry \in RedundantImportedPostIDs
  BY <1>1
<1>4. kept' \subseteq kept
  BY <1>1
<1>5. \A s \in Statuses : wall[s].by = "outside" /\ Listed(s) => Listed(s)'
  <2> SUFFICES ASSUME NEW s \in Statuses, wall[s].by = "outside", Listed(s) PROVE Listed(s)'
    OBVIOUS
  <2>1. CASE s \in excused
    BY <1>1, <2>1 DEF Listed
  <2>2. CASE Tracked(s)
    <3>1. PICK entry \in kept : entry.status = s
      BY <2>2 DEF Tracked
    <3>2. entry \notin RedundantImportedPostIDs
      BY <3>1 DEF RedundantImportedPostIDs, AuthorPostIdentifiersOverlap, ImportIInv, PostedInv, TargetRow
    <3> QED BY <1>3, <3>1, <3>2 DEF Listed, Tracked
  <2> QED BY <2>1, <2>2 DEF Listed
<1>6. Grows
  BY <1>1, <1>5, GrowsHere DEF ImportIInv
<1>7. WallInv' /\ PostedInv' /\ SettingsInv'
  BY <1>1, <1>4, <1>6, SettingsStay DEF ImportIInv, WallInv, PostedInv, TargetRow, Statuses
<1>8. RoundsInv'
  <2>1. CASE new = Idle
    BY <1>1, <1>2, <1>6, <2>1, RoundTurns DEF ImportIInv, Idle
  <2>2. CASE new = [o EXCEPT !.stage = "accounts"]
    <3>1. /\ new.stage = "accounts" /\ new.mode = "sync" /\ new.now = o.now /\ new.since = o.since
          /\ new.todo = o.todo /\ new.batch = o.batch
      BY <1>1, <2>2 DEF RoundShape
    <3>2. RoundShape(new)
      BY <1>1, <2>2 DEF RoundShape
    <3>3. Remains(new)
      BY <1>1, <1>5, <3>1 DEF Remains, ImportIInv, RoundsInv, RoundSound, RoundWhole, Covered
    <3> QED BY <1>1, <1>2, <1>6, <3>1, <3>2, <3>3, RoundTurns DEF ImportIInv
  <2> QED BY <1>2, <2>1, <2>2
<1>9. FreshInv'
  <2>0. new.stage # "create"
    <3>1. CASE new = Idle
      BY <3>1 DEF Idle
    <3>2. CASE new = [o EXCEPT !.stage = "accounts"]
      BY <1>1, <3>2 DEF RoundShape
    <3> QED BY <1>2, <3>1, <3>2
  <2>1. CASE UNCHANGED <<kept, fresh>>
    BY <1>1, <1>2, <2>0, <2>1, FreshStays DEF ImportIInv
  <2>2. CASE kept' = kept \ RedundantImportedPostIDs /\ fresh' = fresh \cap creating
    <3>1. ASSUME NEW entry \in kept', NEW own \in kept', entry.status = own.status, entry # own
          PROVE  entry.status \in fresh' \cup open'
      <4>0. SUFFICES ASSUME entry.status \notin open PROVE FALSE
        BY <1>1
      <4>1. entry \in kept /\ own \in kept /\ TargetRow(entry) /\ TargetRow(own)
            /\ entry \notin RedundantImportedPostIDs /\ own \notin RedundantImportedPostIDs
        BY <2>2 DEF ImportIInv, PostedInv
      <4>2. entry.source # own.source
        BY <3>1, <4>1 DEF ImportIInv, PostedInv
      <4>3. "url" \in entry.ids \cap own.ids
        BY <4>1 DEF TargetRow, AnswerIds, FeedIds
      <4>4. entry.source \in {"goloom", "imported"} /\ own.source \in {"goloom", "imported"}
        BY <4>1 DEF TargetRow
      <4>5. entry \in RedundantImportedPostIDs \/ own \in RedundantImportedPostIDs
        BY <3>1, <4>0, <4>1, <4>2, <4>3, <4>4 DEF RedundantImportedPostIDs, AuthorPostIdentifiersOverlap
      <4> QED BY <4>1, <4>5
    <3>2. ASSUME NEW q \in Replicas, NEW entry \in kept', import'[q].stage = "create",
                 entry.status = import'[q].post, entry.source = "goloom"
          PROVE  entry.status \in fresh' \cup open'
      <4>1. import = [x \in Replicas |-> import[x]]
        BY DEF ImportIInv, RoundsInv
      <4>2. import[q].stage = "create" /\ import[q].post = entry.status /\ entry \in kept
        BY <1>2, <1>4, <2>0, <3>2, <4>1
      <4>3. entry.status \in fresh \cup open
        BY <3>2, <4>2 DEF ImportIInv, FreshInv
      <4>4. entry.status \in creating
        BY <4>2
      <4> QED BY <1>1, <2>2, <4>3, <4>4
    <3> QED BY <3>1, <3>2 DEF FreshInv
  <2> QED BY <1>1, <2>1, <2>2
<1> QED BY <1>7, <1>8, <1>9 DEF ImportIInv

\* A row is written, or refused by the unique index, or lost.
LEMMA CreateStep ==
  ASSUME ImportIInv, NEW r \in Replicas, CreateImportedPost(r)
  PROVE  ImportIInv'
<1> DEFINE o == import[r]
<1>s. PICK s : s = o.post
  OBVIOUS
<1>1. /\ o.stage = "create" /\ RoundShape(o) /\ Running(r) /\ s \in Statuses
      /\ UNCHANGED <<today, wall, monitor, accepted, request, fresh, open>>
  BY <1>s DEF CreateImportedPost, Running, ImportIInv, RoundsInv, RoundSound, RoundShape
<1> DEFINE back(n) == [o EXCEPT !.stage = "accounts", !.post = 0, !.got = n]
           entry == [status |-> s, source |-> "imported", ids |-> FeedIds]
<1>2. PICK n : import' = [import EXCEPT ![r] = back(n)]
  <2>1. import = [q \in Replicas |-> import[q]]
    BY DEF ImportIInv, RoundsInv
  <2>2. ASSUME NEW k, import' = [import EXCEPT ![r].stage = "accounts", ![r].post = 0, ![r].got = @ + k]
        PROVE  import' = [import EXCEPT ![r] = back(o.got + k)]
    BY <2>1, <2>2
  <2>3. \/ import' = [import EXCEPT ![r].stage = "accounts", ![r].post = 0, ![r].got = @ + 1]
        \/ import' = [import EXCEPT ![r].stage = "accounts", ![r].post = 0, ![r].got = @ + 0]
    BY DEF CreateImportedPost
  <2> HIDE DEF back
  <2> QED BY <2>2, <2>3
<1> DEFINE new == back(n)
<1>3. /\ new.stage = "accounts" /\ new.mode = o.mode /\ new.now = o.now /\ new.since = o.since
      /\ new.todo = o.todo /\ new.batch = o.batch
  BY <1>1 DEF RoundShape
<1>4. RoundShape(new)
  BY <1>1 DEF RoundShape
<1>5. import' = [import EXCEPT ![r] = new]
  BY <1>2
<1> HIDE DEF new
<1>6. CASE ~UniqueIndexAllows(s, FeedIds) /\ UNCHANGED <<kept, excused>>
  <2>1. Listed(s)'
    BY <1>6 DEF UniqueIndexAllows, Listed, Tracked
  <2>2. o.mode = "sync" => Remains(new)
    BY <1>s, <1>1, <1>3, <1>6, <2>1, RoundGoesOn DEF ImportIInv, Remains
  <2> QED BY <1>1, <1>3, <1>4, <1>5, <1>6, <2>2, RoundAlone
<1>7. CASE excused' = Missed(r, s) /\ UNCHANGED kept
  <2>1. excused \subseteq excused'
    BY <1>7 DEF Missed, Excuse
  <2>2. o.mode = "sync" /\ wall[s].by = "outside" => Listed(s)'
    BY <1>1, <1>7 DEF Missed, Excuse, Listed, Tracked
  <2>3. o.mode = "sync" => Remains(new)
    BY <1>s, <1>1, <1>3, <1>7, <2>1, <2>2, RoundGoesOn DEF ImportIInv, Remains
  <2> QED BY <1>1, <1>3, <1>4, <1>5, <1>7, <2>1, <2>3, RoundAlone
<1>8. CASE /\ UniqueIndexAllows(s, FeedIds)
           /\ kept' = kept \cup {entry} /\ excused' = excused \ {s}
  <2>1. \A own \in kept : own.status = s => own.source = "goloom"
    BY <1>8 DEF UniqueIndexAllows, FeedIds, ImportIInv, PostedInv, TargetRow
  <2>2. entry.status = s /\ entry.source = "imported" /\ TargetRow(entry)
    BY <1>1 DEF TargetRow, AnswerIds
  <2> HIDE DEF entry
  <2>3. Listed(s)' /\ \A t \in Statuses : Listed(t) => Listed(t)'
    BY <1>8, <2>2 DEF Listed, Tracked
  <2>4. Grows
    BY <1>1, <2>3, GrowsHere DEF ImportIInv
  <2>5. PostedInv'
    <3>1. \A own \in kept' : TargetRow(own)
      BY <1>8, <2>2 DEF ImportIInv, PostedInv
    <3>2. \A x, y \in kept' : x.status = y.status /\ x.source = y.source => x = y
      BY <1>8, <2>1, <2>2 DEF ImportIInv, PostedInv
    <3>3. \A t \in accepted : \A own \in kept' : own.status = t => own.source = "imported"
      BY <1>8, <2>2 DEF ImportIInv, PostedInv
    <3> QED BY <1>1, <3>1, <3>2, <3>3 DEF ImportIInv, PostedInv, TargetRow, Statuses
  <2>6. WallInv' /\ SettingsInv'
    BY <1>1, <2>4, SettingsStay DEF ImportIInv, WallInv, Statuses
  <2>7. RoundsInv'
    <3>1. o.mode = "sync" => Remains(new)
      <4> SUFFICES ASSUME o.mode = "sync" PROVE Remains(new)
        OBVIOUS
      <4>1. RoundWhole(o)
        BY <1>1 DEF ImportIInv, RoundsInv, RoundSound
      <4> QED BY <1>s, <1>1, <1>3, <2>3, <4>1 DEF RoundWhole, Covered, Remains
    <3> QED BY <1>1, <1>3, <1>4, <1>5, <2>4, <3>1, RoundTurns DEF ImportIInv
  <2>8. FreshInv'
    <3>1. \A own \in kept : own.status = s => s \in fresh \cup open
      BY <1>s, <1>1, <2>1 DEF ImportIInv, FreshInv
    <3>2. \A x, y \in kept' : x.status = y.status /\ x # y => x.status \in fresh' \cup open'
      BY <1>1, <1>8, <2>2, <3>1 DEF ImportIInv, FreshInv
    <3>3. ASSUME NEW q \in Replicas, NEW own \in kept', import'[q].stage = "create",
                 own.status = import'[q].post, own.source = "goloom"
          PROVE  own.status \in fresh' \cup open'
      <4>1. import = [x \in Replicas |-> import[x]]
        BY DEF ImportIInv, RoundsInv
      <4>2. import[q].stage = "create" /\ import[q].post = own.status /\ own \in kept
        BY <1>3, <1>5, <1>8, <2>2, <3>3, <4>1
      <4> QED BY <1>1, <3>3, <4>2 DEF ImportIInv, FreshInv
    <3> QED BY <3>2, <3>3 DEF FreshInv
  <2> QED BY <2>5, <2>6, <2>7, <2>8 DEF ImportIInv
<1>9. \/ UniqueIndexAllows(s, FeedIds) /\ kept' = kept \cup {entry} /\ excused' = excused \ {s}
      \/ ~UniqueIndexAllows(s, FeedIds) /\ UNCHANGED <<kept, excused>>
      \/ excused' = Missed(r, s) /\ UNCHANGED kept
  BY <1>s DEF CreateImportedPost
<1> QED BY <1>6, <1>7, <1>8, <1>9

\* The time the round began is the end of the window it leaves.
LEMMA SaveStep ==
  ASSUME ImportIInv, NEW r \in Replicas, UpdateExternalPostMonitorSyncState(r)
  PROVE  ImportIInv'
<1>1. /\ import[r].stage = "save" /\ RoundShape(import[r]) /\ RoundWhole(import[r])
      /\ import' = [import EXCEPT ![r] = Idle]
      /\ UNCHANGED <<today, wall, kept, accepted, request, excused, fresh, open>>
  BY DEF UpdateExternalPostMonitorSyncState, Running, ImportIInv, RoundsInv, RoundSound, RoundShape
<1>2. Grows
  BY <1>1, GrowsHere DEF ImportIInv, Listed, Tracked
<1>3. WallInv' /\ PostedInv'
  BY <1>1, PostedStay DEF ImportIInv, WallInv, Statuses
<1>4. RoundsInv'
  BY <1>1, <1>2, RoundTurns DEF ImportIInv, Idle
<1>5. FreshInv'
  BY <1>1, FreshStays DEF ImportIInv, Idle
<1>6. CASE UNCHANGED monitor
  BY <1>1, <1>2, <1>3, <1>4, <1>5, <1>6, SettingsStay DEF ImportIInv
<1>7. CASE monitor' = [monitor EXCEPT !.lastSync = SyncTime(r), !.backfilled = import[r].done]
  <2>1. /\ import[r].now \in Nat /\ import[r].now <= today /\ import[r].done \in BOOLEAN
        /\ Covered(import[r].now)
    BY <1>1 DEF RoundShape, RoundWhole, Covered
  <2>2. /\ monitor' \in [enabled : BOOLEAN, backfilled : BOOLEAN, lastSync : Nat]
        /\ monitor'.lastSync = import[r].now
    BY <1>7, <2>1 DEF SyncTime, ImportIInv, SettingsInv, SettingsSound
  <2>3. SettingsSound(monitor)'
    BY <1>1, <2>1, <2>2 DEF SettingsSound, Covered, Statuses, Listed, Tracked
  <2>4. request.stage = "read" => SettingsSound(request.old)'
    BY <1>1 DEF ImportIInv, SettingsInv, SettingsSound, Covered, Statuses, Listed, Tracked
  <2>5. SettingsInv'
    BY <1>1, <2>3, <2>4 DEF ImportIInv, SettingsInv
  <2> QED BY <1>3, <1>4, <1>5, <2>5 DEF ImportIInv
<1> QED BY <1>6, <1>7 DEF UpdateExternalPostMonitorSyncState

\* A request writes back what it read, and may only forget that the backfill was done.
LEMMA SettingsStep ==
  ASSUME ImportIInv, (\E on \in BOOLEAN : UpsertRead(on)) \/ UpsertExternalPostMonitorSettings
  PROVE  ImportIInv'
<1>1. UNCHANGED <<today, wall, kept, import, accepted, excused, fresh, open>>
  BY DEF UpsertRead, UpsertExternalPostMonitorSettings
<1>2. Grows
  BY <1>1, GrowsHere DEF ImportIInv, Listed, Tracked
<1>3. WallInv' /\ PostedInv' /\ FreshInv'
  BY <1>1, PostedStay DEF ImportIInv, WallInv, Statuses, FreshInv
<1>4. RoundsInv'
  BY <1>1, <1>2, RoundStays DEF ImportIInv, RoundsInv, Running
<1>5. SettingsInv'
  <2>1. ASSUME NEW on \in BOOLEAN, UpsertRead(on) PROVE SettingsInv'
    <3>1. monitor' = monitor /\ request' = [stage |-> "read", on |-> on, old |-> monitor]
      BY <2>1 DEF UpsertRead
    <3>2. SettingsSound(monitor)'
      BY <1>1, <3>1 DEF ImportIInv, SettingsInv, SettingsSound, Covered, Statuses, Listed, Tracked
    <3>3. SettingsSound(request.old)' /\ request'.on \in BOOLEAN
      BY <3>1, <3>2 DEF SettingsSound
    <3> QED BY <3>2, <3>3 DEF SettingsInv
  <2>2. CASE UpsertExternalPostMonitorSettings
    <3>1. /\ request'.stage = "none"
          /\ monitor' = [request.old EXCEPT !.enabled = request.on,
                           !.backfilled = @ /\ ~(request.on /\ ~request.old.enabled)]
      BY <2>2 DEF UpsertExternalPostMonitorSettings, NoRequest
    <3>2. SettingsSound(request.old) /\ request.on \in BOOLEAN
      BY <2>2 DEF UpsertExternalPostMonitorSettings, ImportIInv, SettingsInv
    <3>3. /\ monitor' \in [enabled : BOOLEAN, backfilled : BOOLEAN, lastSync : Nat]
          /\ monitor'.lastSync = request.old.lastSync
          /\ monitor'.backfilled => request.old.backfilled
      BY <3>1, <3>2 DEF SettingsSound
    <3>4. SettingsSound(monitor)'
      BY <1>1, <3>2, <3>3 DEF SettingsSound, Covered, Statuses, Listed, Tracked
    <3> QED BY <3>1, <3>4 DEF SettingsInv
  <2> QED BY <2>1, <2>2
<1> QED BY <1>3, <1>4, <1>5 DEF ImportIInv

\* Time passes, and people and the publisher write on the walls.
LEMMA WorldStep ==
  ASSUME ImportIInv, PassTime \/ \E a \in Walls : WriteOutside(a) \/ PublishAccepted(a)
  PROVE  ImportIInv'
<1>1. UNCHANGED <<kept, monitor, import, request, excused, fresh, open>>
  BY DEF PassTime, WriteOutside, PublishAccepted
<1>2. \A s : Listed(s)' <=> Listed(s)
  BY <1>1 DEF Listed, Tracked
<1>3. Grows /\ WallInv' /\ PostedInv'
  <2>1. CASE PassTime
    <3>1. today' = today + 1 /\ UNCHANGED <<wall, kept, accepted>>
      BY <2>1 DEF PassTime
    <3>2. today \in Nat
      BY DEF ImportIInv, WallInv
    <3>3. \A s \in Statuses : wall[s].at <= today'
      <4> SUFFICES ASSUME NEW s \in Statuses PROVE wall[s].at <= today'
        OBVIOUS
      <4>1. wall[s].at \in Nat /\ wall[s].at <= today
        BY OnTheWall DEF ImportIInv, WallInv
      <4> QED BY <3>1, <3>2, <4>1
    <3>4. WallInv'
      BY <3>1, <3>2, <3>3 DEF ImportIInv, WallInv, Statuses
    <3>5. Grows
      BY <1>2, <3>1, <3>2 DEF Grows, Statuses
    <3> QED BY <3>1, <3>4, <3>5, PostedStay DEF ImportIInv
  <2>2. ASSUME NEW a \in Walls, NEW by \in {"goloom", "outside"},
               wall' = Append(wall, [acct |-> a, at |-> today, by |-> by]), today' = today,
               \/ accepted' = accepted
               \/ by = "goloom" /\ accepted' = accepted \cup {Len(wall) + 1}
        PROVE  Grows /\ WallInv' /\ PostedInv'
    <3> DEFINE e == [acct |-> a, at |-> today, by |-> by]
    <3>0. e \in Status /\ today \in Nat /\ e.at = today /\ e.by = by
      BY DEF Status, ImportIInv, WallInv
    <3> HIDE DEF e
    <3>1. /\ wall' \in Seq(Status) /\ Statuses' = Statuses \cup {Len(wall) + 1}
          /\ Len(wall) + 1 \notin Statuses /\ wall'[Len(wall) + 1] = e
          /\ \A s \in Statuses : wall'[s] = wall[s]
      <4>1. wall' = Append(wall, e)
        BY <2>2 DEF e
      <4> QED BY <3>0, <4>1, WallLonger DEF ImportIInv, Statuses
    <3>2. Grows
      <4>1. today \in Nat /\ today' = today /\ today <= today'
        BY <2>2, <3>0
      <4>2. \A s \in Statuses' \ Statuses : wall'[s].at = today
        BY <3>0, <3>1
      <4>3. \A s \in Statuses : Listed(s) => Listed(s)'
        BY <1>2
      <4> QED BY <3>1, <4>1, <4>2, <4>3 DEF Grows
    <3>3. WallInv'
      <4>1. \A s \in Statuses' : wall'[s].at <= today
        BY <3>0, <3>1 DEF ImportIInv, WallInv
      <4> QED BY <2>2, <3>0, <3>1, <4>1 DEF WallInv, Status
    <3>4. \A entry \in kept' : TargetRow(entry)'
      BY <1>1, <3>1 DEF ImportIInv, PostedInv, TargetRow
    <3>5. \A entry \in kept : entry.status # Len(wall) + 1
      BY <3>1 DEF ImportIInv, PostedInv, TargetRow
    <3>6. PostedInv'
      <4>1. accepted' \subseteq Statuses'
        BY <2>2, <3>1 DEF ImportIInv, PostedInv
      <4>2. \A s \in accepted' : wall'[s].by = "goloom"
        BY <2>2, <3>0, <3>1 DEF ImportIInv, PostedInv
      <4>3. \A s \in accepted' : \A entry \in kept : entry.status = s => entry.source = "imported"
        BY <2>2, <3>5 DEF ImportIInv, PostedInv
      <4> QED BY <1>1, <3>4, <4>1, <4>2, <4>3 DEF ImportIInv, PostedInv
    <3> QED BY <3>2, <3>3, <3>6
  <2>3. ASSUME NEW a \in Walls, WriteOutside(a) PROVE Grows /\ WallInv' /\ PostedInv'
    BY <2>2, <2>3 DEF WriteOutside
  <2>4. ASSUME NEW a \in Walls, PublishAccepted(a) PROVE Grows /\ WallInv' /\ PostedInv'
    BY <2>2, <2>4 DEF PublishAccepted
  <2> QED BY <2>1, <2>3, <2>4
<1>4. SettingsInv'
  BY <1>1, <1>3, SettingsStay DEF ImportIInv
<1>5. RoundsInv'
  BY <1>1, <1>3, RoundStays DEF ImportIInv, RoundsInv, Running
<1>6. FreshInv'
  BY <1>1 DEF ImportIInv, FreshInv
<1> QED BY <1>3, <1>4, <1>5, <1>6 DEF ImportIInv

\* The publisher writes its row, beside an imported one only if it has no identifier.
LEMMA PublisherStep ==
  ASSUME ImportIInv, NEW s \in accepted,
         RecordLost(s) \/ \E ids \in AnswerIds : RecordPublished(s, ids)
  PROVE  ImportIInv'
<1>1. /\ accepted' = accepted \ {s}
      /\ UNCHANGED <<today, wall, monitor, import, request, excused>>
  BY DEF RecordLost, RecordPublished
<1>2. PICK added : /\ kept' = kept \cup added
                   /\ \/ added = {} /\ fresh' = fresh /\ open' = open
                      \/ /\ fresh' = fresh \cup {s} /\ open \subseteq open'
                         /\ \E ids \in AnswerIds :
                              added = {[status |-> s, source |-> "goloom", ids |-> ids]}
  <2>1. CASE UNCHANGED <<kept, fresh, open>>
    <3>1. kept' = kept \cup {} /\ fresh' = fresh /\ open' = open
      BY <2>1
    <3> QED BY <3>1
  <2>2. ASSUME NEW ids \in AnswerIds, fresh' = fresh \cup {s}, open' = open \cup {s},
               kept' = kept \cup {[status |-> s, source |-> "goloom", ids |-> ids]}
        PROVE  \E added : /\ kept' = kept \cup added /\ fresh' = fresh \cup {s} /\ open \subseteq open'
                          /\ \E i \in AnswerIds :
                               added = {[status |-> s, source |-> "goloom", ids |-> i]}
    BY <2>2
  <2> QED BY <2>1, <2>2 DEF RecordLost, RecordPublished
<1>3. s \in Statuses /\ wall[s].by = "goloom" /\ \A entry \in kept : entry.status = s => entry.source = "imported"
  BY DEF ImportIInv, PostedInv
<1>4. /\ \A entry \in added : entry.status = s /\ entry.source = "goloom" /\ TargetRow(entry)
      /\ \A entry, own \in added : entry = own
  BY <1>2, <1>3 DEF TargetRow
<1>5. fresh \subseteq fresh' /\ open \subseteq open' /\ (added # {} => s \in fresh')
  BY <1>2
<1>6. PostedInv'
  <2>1. \A entry \in kept' : TargetRow(entry)
    BY <1>2, <1>4 DEF ImportIInv, PostedInv
  <2>2. \A entry, own \in kept' : entry.status = own.status /\ entry.source = own.source => entry = own
    BY <1>2, <1>3, <1>4 DEF ImportIInv, PostedInv
  <2>3. \A t \in accepted' : \A entry \in kept' : entry.status = t => entry.source = "imported"
    BY <1>1, <1>2, <1>4 DEF ImportIInv, PostedInv
  <2> QED BY <1>1, <2>1, <2>2, <2>3 DEF ImportIInv, PostedInv, TargetRow, Statuses
<1>7. Grows
  BY <1>1, <1>2, GrowsHere DEF ImportIInv, Listed, Tracked
<1>8. WallInv' /\ SettingsInv'
  BY <1>1, <1>7, SettingsStay DEF ImportIInv, WallInv, Statuses
<1>9. RoundsInv'
  BY <1>1, <1>7, RoundStays DEF ImportIInv, RoundsInv, Running
<1>10. FreshInv'
  <2>1. \A entry, own \in kept' : entry.status = own.status /\ entry # own => entry.status \in fresh' \cup open'
    BY <1>2, <1>4, <1>5 DEF ImportIInv, FreshInv
  <2>2. ASSUME NEW q \in Replicas, NEW entry \in kept', import'[q].stage = "create",
               entry.status = import'[q].post, entry.source = "goloom"
        PROVE  entry.status \in fresh' \cup open'
    BY <1>1, <1>2, <1>4, <1>5, <2>2 DEF ImportIInv, FreshInv
  <2> QED BY <2>1, <2>2 DEF FreshInv
<1> QED BY <1>6, <1>8, <1>9, <1>10 DEF ImportIInv

\* The post of a recorded status is posted: the next clean-up looks at its row.
LEMMA PostIsPostedStep ==
  ASSUME ImportIInv, NEW s \in open, PostIsPosted(s)
  PROVE  ImportIInv'
<1>1. /\ open' = open \ {s} /\ fresh' = fresh \cup {s}
      /\ UNCHANGED <<today, wall, kept, monitor, import, accepted, request, excused>>
  BY DEF PostIsPosted
<1>2. Grows
  BY <1>1, GrowsHere DEF ImportIInv, Listed, Tracked
<1>3. WallInv' /\ PostedInv' /\ FreshInv'
  BY <1>1, PostedStay DEF ImportIInv, WallInv, Statuses, FreshInv
<1>4. SettingsInv' /\ RoundsInv'
  BY <1>1, <1>2, SettingsStay, RoundStays DEF ImportIInv, RoundsInv, Running
<1> QED BY <1>3, <1>4 DEF ImportIInv

LEMMA ImportStarts ==
  ASSUME ImportInit
  PROVE  ImportIInv
<1>1. PICK a \in Walls, b \in Walls :
        wall = <<[acct |-> a, at |-> 1, by |-> "goloom"], [acct |-> b, at |-> 1, by |-> "outside"]>>
  BY DEF ImportInit
<1>2. /\ wall \in Seq(Status) /\ Statuses = {1, 2} /\ wall[1].by = "goloom"
      /\ \A s \in Statuses : wall[s].at = 1
  BY <1>1 DEF Status, Statuses
<1>3. WallInv
  BY <1>2 DEF WallInv, Status, ImportInit
<1>4. PostedInv
  BY <1>2 DEF PostedInv, TargetRow, ImportInit, AnswerIds
<1>5. SettingsInv
  BY DEF SettingsInv, SettingsSound, ImportInit, Never, NoRequest
<1>6. RoundsInv
  BY DEF RoundsInv, ImportInit, Running, Idle
<1>7. FreshInv
  BY DEF FreshInv, ImportInit, Idle
<1> QED BY <1>3, <1>4, <1>5, <1>6, <1>7 DEF ImportIInv

\* Every status written outside before the window of the next round is among the posts
\* or an import had a reason to leave it, and one of goloom's own has an imported copy
\* beside it only until its post is posted and a clean-up ran afterwards, for any number of
\* replicas, accounts, statuses, rounds and crashes (importExternalPostsForTeam,
\* DeleteRedundantImportedPosts).
THEOREM NothingIsMissed == ImportSpec => []ImportIsWhole
<1>1. ImportIInv /\ [ImportNext]_importVars => ImportIInv'
  <2> SUFFICES ASSUME ImportIInv, [ImportNext]_importVars PROVE ImportIInv'
    OBVIOUS
  <2>1. ASSUME NEW r \in Replicas, RoundStep(r) PROVE ImportIInv'
    BY <2>1, TeamStep, CleanupStep, AccountStep, PostStep, CreateStep, ReadStep, SaveStep,
       OldSteps, OldPageStep DEF RoundStep
  <2>2. CASE PassTime \/ \E a \in Walls : WriteOutside(a) \/ PublishAccepted(a)
    BY <2>2, WorldStep
  <2>3. CASE \E s \in accepted : RecordLost(s) \/ \E ids \in AnswerIds : RecordPublished(s, ids)
    BY <2>3, PublisherStep
  <2>6. CASE \E s \in open : PostIsPosted(s)
    BY <2>6, PostIsPostedStep
  <2>4. CASE (\E on \in BOOLEAN : UpsertRead(on)) \/ UpsertExternalPostMonitorSettings
    BY <2>4, SettingsStep
  <2>5. CASE UNCHANGED importVars
    <3>1. UNCHANGED <<today, wall, kept, monitor, import, accepted, request, excused, fresh, open>>
      BY <2>5 DEF importVars
    <3>2. Grows
      BY <3>1, GrowsHere DEF ImportIInv, Listed, Tracked
    <3>3. WallInv' /\ PostedInv' /\ FreshInv'
      BY <3>1, PostedStay DEF ImportIInv, WallInv, Statuses, FreshInv
    <3>4. SettingsInv' /\ RoundsInv'
      BY <3>1, <3>2, SettingsStay, RoundStays DEF ImportIInv, RoundsInv, Running
    <3> QED BY <3>3, <3>4 DEF ImportIInv
  <2> QED BY <2>1, <2>2, <2>3, <2>4, <2>5, <2>6 DEF ImportNext
<1>2. ImportIInv => ImportIsWhole
  BY DEF ImportIInv, SettingsInv, SettingsSound, Covered, Listed, FreshInv, ImportIsWhole
<1> QED BY <1>1, <1>2, ImportStarts, PTL DEF ImportSpec

(* Metrics. *)

RoundRows ==
  [stage : {"next", "write", "mark"}, todo : SUBSET Items, item : Items \cup {"none"},
   value : Int, read : Nat, day : {-1} \cup Days]
MetricRows == [value : Int, read : Nat, by : MetricReaders \cup {"none"}, day : Days]

\* A round under way, what it read and for which day.
RoundRow(s) ==
  s \in RoundRows /\ s.read <= tick /\ s.day <= Today /\ (s.stage = "write" => s.item \in Items)

SyncSound == \A w \in MetricReaders : sync[w] = NoSync \/ RoundRow(sync[w])

MetricsTyped ==
  /\ tick \in Nat /\ tick <= MaxTick /\ job \in {"posts", "accounts"} /\ live \in [Items -> Int]
  /\ sync \in [MetricReaders -> {NoSync} \cup RoundRows]
  /\ SyncSound
  /\ row \in [Items -> MetricRows] /\ \A i \in Items : row[i].read <= tick
  /\ past \in [Items -> [Days -> Int]]

\* A round holds the mutex from its start to its end.
RoundsHold == \A w \in Rounds : sync[w] # NoSync => holder = w

\* What a round is about to write was read after every row of an earlier round.
ReadingsOrdered ==
  \A w \in Rounds, i \in Items :
    sync[w].stage = "write" /\ row[i].by \in Rounds => row[i].read <= sync[w].read

MetricsIInv == MetricsTyped /\ RoundsHold /\ ReadingsOrdered /\ overtaken = {}

\* Days do not run backwards.
LEMMA DaysPass ==
  ASSUME NEW a \in Nat, NEW b \in Nat, a <= b
  PROVE  a \div DayLength \in Nat /\ a \div DayLength <= b \div DayLength
<1>1. DayLength \in Nat /\ DayLength > 0
  BY MetricsAssumption
<1> DEFINE x == a \div DayLength
           y == b \div DayLength
<1>2. /\ x \in Nat /\ y \in Nat
      /\ DayLength * x <= a /\ b < DayLength * (y + 1)
  BY <1>1
<1> HIDE DEF x, y
<1>3. DayLength * x < DayLength * (y + 1)
  BY <1>1, <1>2
<1>4. x < y + 1
  BY <1>1, <1>2, <1>3
<1>5. x \in Nat /\ x <= y
  BY <1>2, <1>4
<1> QED
  BY <1>5 DEF x, y

LEMMA TodayIsADay ==
  ASSUME tick \in Nat, tick <= MaxTick PROVE Today \in Days /\ 0 \in Days /\ Today \in Nat
<1>1. MaxTick \in Nat
  BY MetricsAssumption
<1>2. Today \in Nat /\ Today <= MaxTick \div DayLength
  BY <1>1, DaysPass DEF Today
<1>3. MaxTick \div DayLength \in Int
  BY <1>1, DaysPass
<1> QED
  BY <1>2, <1>3 DEF Days

LEMMA MetricsIInvInit == MetricsInit => MetricsIInv
<1> SUFFICES ASSUME MetricsInit PROVE MetricsIInv
  OBVIOUS
<1>1. \A w \in MetricReaders : sync[w] = NoSync
  BY DEF MetricsInit
<1>2. Rounds \subseteq MetricReaders
  BY DEF MetricReaders
<1>3. MetricsTyped
  <2>1. tick \in Nat /\ tick <= MaxTick
    BY MetricsAssumption DEF MetricsInit
  <2>2. NoRow \in MetricRows
    BY <2>1, TodayIsADay DEF NoRow, MetricRows
  <2> QED
    BY <1>1, <2>1, <2>2 DEF MetricsInit, MetricsTyped, SyncSound, NoRow
<1> QED
  BY <1>1, <1>2, <1>3 DEF MetricsInit, MetricsIInv, RoundsHold, ReadingsOrdered, NoSync

\* A row of a round stays one while time passes.
LEMMA RowsStay ==
  ASSUME MetricsIInv, job' = job, tick' \in Nat, tick <= tick'
  PROVE  /\ Items' = Items /\ RoundRows' = RoundRows /\ MetricRows' = MetricRows /\ Days' = Days
         /\ \A s : RoundRow(s) => RoundRow(s)'
         /\ Today <= Today'
<1>1. Items' = Items
  BY DEF Items
<1>2. RoundRows' = RoundRows /\ MetricRows' = MetricRows /\ Days' = Days
  BY <1>1 DEF RoundRows, MetricRows, Days, MetricReaders
<1>3. tick \in Nat
  BY DEF MetricsIInv, MetricsTyped
<1>5. Today \in Nat /\ Today' \in Nat /\ Today <= Today'
  BY <1>3, DaysPass DEF Today
<1>4. ASSUME NEW s, RoundRow(s) PROVE RoundRow(s)'
  <2>1. s.read \in Nat /\ s.day \in Int
    BY <1>4 DEF RoundRow, RoundRows, Days
  <2> HIDE DEF Today
  <2> QED
    BY <1>1, <1>2, <1>3, <1>4, <1>5, <2>1 DEF RoundRow
<1> QED
  BY <1>1, <1>2, <1>4, <1>5

\* The world and the clock.
LEMMA WorldKeepsRows ==
  ASSUME MetricsIInv,
         Pass \/ (\E i \in Items : Like(i)) \/ (\E p \in Posts, at \in 1 .. tick : PostResult(p, at))
  PROVE  MetricsIInv'
<1>1. /\ UNCHANGED <<job, row, past, holder, sync, overtaken>> /\ tick' \in Nat /\ tick <= tick'
      /\ tick' <= MaxTick
  BY MetricsAssumption DEF Pass, Like, PostResult, MetricsIInv, MetricsTyped
<1>2. /\ Items' = Items /\ RoundRows' = RoundRows /\ MetricRows' = MetricRows /\ Days' = Days
      /\ \A s : RoundRow(s) => RoundRow(s)'
  BY <1>1, RowsStay
<1>3. live' \in [Items -> Int]
  BY DEF Pass, Like, PostResult, MetricsIInv, MetricsTyped
<1>4. \A i \in Items : row[i].read <= tick'
  <2>1. \A i \in Items : row[i].read \in Nat /\ row[i].read <= tick /\ tick \in Nat
    BY DEF MetricsIInv, MetricsTyped, MetricRows
  <2> QED
    BY <1>1, <2>1
<1>5. MetricsTyped'
  <2>1. SyncSound'
    BY <1>1, <1>2 DEF MetricsIInv, MetricsTyped, SyncSound
  <2> QED
    BY <1>1, <1>2, <1>3, <1>4, <2>1 DEF MetricsIInv, MetricsTyped
<1> QED
  BY <1>1, <1>2, <1>5 DEF MetricsIInv, RoundsHold, ReadingsOrdered

\* One round is replaced.
LEMMA RoundEntry ==
  ASSUME MetricsIInv, NEW w \in MetricReaders, NEW s, RoundRow(s),
         sync' = [sync EXCEPT ![w] = s], UNCHANGED <<job, tick>>
  PROVE  /\ sync' \in [MetricReaders -> {NoSync} \cup RoundRows]
         /\ \A v \in MetricReaders : sync'[v] = IF v = w THEN s ELSE sync[v]
         /\ SyncSound'
<1>1. tick' \in Nat /\ tick <= tick'
  BY DEF MetricsIInv, MetricsTyped
<1>2. \A x : RoundRow(x) => RoundRow(x)'
  BY <1>1, RowsStay
<1>3. sync \in [MetricReaders -> {NoSync} \cup RoundRows] /\ s \in RoundRows
  BY DEF MetricsIInv, MetricsTyped, RoundRow
<1>4. /\ sync' \in [MetricReaders -> {NoSync} \cup RoundRows]
      /\ \A v \in MetricReaders : sync'[v] = IF v = w THEN s ELSE sync[v]
  BY <1>3
<1>5. \A v \in MetricReaders : sync[v] = NoSync \/ RoundRow(sync[v])
  BY DEF MetricsIInv, MetricsTyped, SyncSound
<1>6. ASSUME NEW v \in MetricReaders PROVE sync'[v] = NoSync \/ RoundRow(sync[v])'
  <2>1. sync'[v] = NoSync \/ RoundRow(sync'[v])
    BY <1>4, <1>5
  <2>2. RoundRows' = RoundRows /\ Items' = Items /\ Today' = Today
    BY <1>1, RowsStay DEF Today
  <2> QED
    BY <2>1, <2>2 DEF RoundRow
<1> QED
  BY <1>4, <1>6 DEF SyncSound

LEMMA BetweenIsRound ==
  ASSUME MetricsIInv, NEW items \in SUBSET Items, NEW d \in {-1} \cup Days, d <= Today
  PROVE  RoundRow(Between(items, d)) /\ Between(items, d).stage = "next"
BY DEF MetricsIInv, MetricsTyped, RoundRow, RoundRows, Between

\* A round that begins has read nothing; two at once would need two mutexes.
LEMMA BeginKeeps ==
  ASSUME MetricsIInv, NEW w \in MetricReaders, NEW items \in SUBSET Items,
         NEW d \in {-1} \cup Days, d <= Today, sync[w] = NoSync,
         sync' = Begin(w, items, d),
         w \in Rounds => holder' = w /\ \A v \in Rounds : sync[v] = NoSync,
         w \notin Rounds => UNCHANGED holder,
         UNCHANGED <<job, tick, live, row, past, overtaken>>
  PROVE  MetricsIInv'
<1> DEFINE new == Between(items, d)
<1>1. sync' = [sync EXCEPT ![w] = new]
  BY DEF Begin
<1>2. RoundRow(new) /\ new.stage = "next"
  BY BetweenIsRound
<1> HIDE DEF new
<1>3. tick' \in Nat /\ tick <= tick'
  BY DEF MetricsIInv, MetricsTyped
<1>4. Items' = Items /\ RoundRows' = RoundRows /\ MetricRows' = MetricRows /\ Days' = Days
  BY <1>3, RowsStay
<1>5. /\ sync' \in [MetricReaders -> {NoSync} \cup RoundRows]
      /\ \A v \in MetricReaders : sync'[v] = IF v = w THEN new ELSE sync[v]
      /\ SyncSound'
  BY <1>1, <1>2, RoundEntry
<1>6. MetricsTyped'
  BY <1>3, <1>4, <1>5 DEF MetricsIInv, MetricsTyped
<1>7. RoundsHold' /\ ReadingsOrdered'
  BY <1>2, <1>4, <1>5 DEF MetricsIInv, RoundsHold, ReadingsOrdered, MetricReaders
<1> QED
  BY <1>6, <1>7 DEF MetricsIInv

LEMMA StartsKeep ==
  ASSUME MetricsIInv,
         \/ \E w \in DOMAIN sync : StartRound(w)
         \/ FirstAccountRound
         \/ \E t \in Published : PublishTarget(t) \/ \E at \in 1 .. tick : ImportTarget(t, at)
  PROVE  MetricsIInv'
<1>1. /\ DOMAIN sync = MetricReaders /\ Rounds \subseteq MetricReaders
      /\ Direct \in MetricReaders \ Rounds /\ \A w \in Rounds : w # "free"
  BY MetricsAssumption DEF MetricsIInv, MetricsTyped, MetricReaders, Direct
<1>2. \A w \in MetricReaders : sync[w].stage = "idle" => sync[w] = NoSync
  BY DEF MetricsIInv, MetricsTyped, SyncSound, RoundRow, RoundRows
<1>7. /\ DayOfRound \in {-1} \cup Days /\ DayOfRound <= Today
      /\ -1 <= Today
  <2>1. Today \in Days /\ Today \in Nat
    BY TodayIsADay DEF MetricsIInv, MetricsTyped
  <2> QED
    BY <2>1 DEF DayOfRound
<1>4. CASE \E w \in DOMAIN sync : StartRound(w)
  <2>1. PICK w \in Rounds : StartRound(w)
    BY <1>4 DEF StartRound
  <2>2. PICK items \in SUBSET Items : sync' = Begin(w, items, DayOfRound)
    <3>1. \A items \in ListPostedTargetsForMetricSync : items \subseteq Published
      BY DEF ListPostedTargetsForMetricSync, Batches
    <3> QED
      BY <2>1, <3>1 DEF StartRound, Items
  <2>3. \A v \in Rounds : sync[v] = NoSync
    BY <1>1, <2>1 DEF StartRound, MutexFree, MetricsIInv, RoundsHold
  <2>4. sync[w] = NoSync /\ holder' = w /\ UNCHANGED <<job, tick, live, row, past, overtaken>>
    BY <2>1, <2>3 DEF StartRound
  <2> QED
    BY <1>1, <1>7, <2>2, <2>3, <2>4, BeginKeeps
<1>5. CASE FirstAccountRound
  <2>1. /\ sync' = Begin(Direct, Followed, DayOfRound) /\ Followed \in SUBSET Items /\ sync[Direct] = NoSync
        /\ UNCHANGED <<job, tick, live, row, past, holder, overtaken>>
    BY <1>1, <1>2, <1>5 DEF FirstAccountRound, Items
  <2> QED
    BY <1>1, <1>7, <2>1, BeginKeeps
<1>6. CASE \E t \in Published : PublishTarget(t) \/ \E at \in 1 .. tick : ImportTarget(t, at)
  <2>1. PICK t \in Published : PublishTarget(t) \/ \E at \in 1 .. tick : ImportTarget(t, at)
    BY <1>6
  <2>2. /\ {t} \in SUBSET Items /\ sync[Direct] = NoSync
        /\ UNCHANGED <<job, tick, live, row, past, holder, overtaken>>
    BY <1>1, <1>2, <2>1 DEF PublishTarget, ImportTarget, Items
  <2>3. \E d \in {-1} \cup Days : d <= Today /\ sync' = Begin(Direct, {t}, d)
    <3>1. CASE PublishTarget(t)
      BY <1>7, <3>1 DEF PublishTarget
    <3>2. CASE \E at \in 1 .. tick : ImportTarget(t, at)
      <4>1. PICK at \in 1 .. tick : ImportTarget(t, at)
        BY <3>2
      <4>3. at \in Nat /\ tick \in Nat /\ at <= tick /\ tick <= MaxTick /\ MaxTick \in Nat /\ at <= MaxTick
        BY MetricsAssumption DEF MetricsIInv, MetricsTyped
      <4>4. at \div DayLength \in Nat /\ at \div DayLength <= MaxTick \div DayLength
        BY <4>3, DaysPass
      <4>5. at \div DayLength <= Today /\ MaxTick \div DayLength \in Nat
        BY <4>3, DaysPass DEF Today
      <4>2. at \div DayLength \in Days /\ at \div DayLength <= Today
        BY <4>4, <4>5 DEF Days
      <4> QED
        BY <4>1, <4>2 DEF ImportTarget
    <3> QED
      BY <2>1, <3>1, <3>2
  <2> QED
    BY <1>1, <2>2, <2>3, BeginKeeps
<1> QED
  BY <1>4, <1>5, <1>6

\* A step of one round that writes no row and reads nothing older than it had.
LEMMA RoundStepKeeps ==
  ASSUME MetricsIInv, NEW w \in MetricReaders, NEW s,
         sync' = [sync EXCEPT ![w] = s], sync[w] # NoSync, RoundRow(s),
         s.stage = "write" => s.read = tick,
         UNCHANGED <<job, tick, live, row, past, holder, overtaken>>
  PROVE  MetricsIInv'
<1>1. tick' \in Nat /\ tick <= tick'
  BY DEF MetricsIInv, MetricsTyped
<1>2. Items' = Items /\ RoundRows' = RoundRows /\ MetricRows' = MetricRows /\ Days' = Days
  BY <1>1, RowsStay
<1>3. /\ sync' \in [MetricReaders -> {NoSync} \cup RoundRows]
      /\ \A v \in MetricReaders : sync'[v] = IF v = w THEN s ELSE sync[v]
      /\ SyncSound'
  BY RoundEntry
<1>4. MetricsTyped'
  BY <1>1, <1>2, <1>3 DEF MetricsIInv, MetricsTyped
<1>5. RoundsHold'
  BY <1>3 DEF MetricsIInv, RoundsHold, MetricReaders
<1>6. ReadingsOrdered'
  <2>1. \A i \in Items : row[i].read <= tick
    BY DEF MetricsIInv, MetricsTyped
  <2> QED
    BY <1>2, <1>3, <2>1 DEF MetricsIInv, ReadingsOrdered, MetricReaders
<1> QED
  BY <1>4, <1>5, <1>6 DEF MetricsIInv

LEMMA PassedIsRound ==
  ASSUME NEW w \in MetricReaders, MetricsIInv, sync[w] # NoSync
  PROVE  RoundRow(sync[w]) /\ RoundRow(Passed(w)) /\ Passed(w).stage = "next"
<1>1. RoundRow(sync[w]) /\ tick \in Nat
  BY DEF MetricsIInv, MetricsTyped, SyncSound
<1>2. sync[w].todo \in SUBSET Items /\ sync[w].day \in {-1} \cup Days /\ sync[w].day <= Today
  BY <1>1 DEF RoundRow, RoundRows
<1> QED
  BY <1>1, <1>2, BetweenIsRound DEF Passed

\* A reading, and one that fails.
LEMMA ReadKeeps ==
  ASSUME MetricsIInv, NEW w \in MetricReaders, NEW i \in Items, ReadMetrics(w, i) PROVE MetricsIInv'
<1> DEFINE r == Reading(w, i)
           f == Between(sync[w].todo \ {i}, sync[w].day)
<1>1. sync[w] # NoSync /\ sync[w].stage = "next"
  BY DEF ReadMetrics, NoSync
<1>2. RoundRow(sync[w])
  BY <1>1, PassedIsRound
<1>3. RoundRow(r) /\ r.stage = "write" /\ r.read = tick
  <2>1. live[i] \in Int /\ tick \in Nat
    BY DEF MetricsIInv, MetricsTyped
  <2> QED
    BY <1>2, <2>1 DEF RoundRow, RoundRows, Reading
<1>4. RoundRow(f) /\ f.stage = "next"
  <2>1. sync[w].todo \ {i} \in SUBSET Items /\ sync[w].day \in {-1} \cup Days /\ sync[w].day <= Today
    BY <1>2 DEF RoundRow, RoundRows
  <2> QED
    BY <2>1, BetweenIsRound
<1>5. /\ sync' = [sync EXCEPT ![w] = r] \/ sync' = [sync EXCEPT ![w] = f]
      /\ UNCHANGED <<job, tick, live, row, past, holder, overtaken>>
  BY DEF ReadMetrics
<1> HIDE DEF r, f
<1> QED
  BY <1>1, <1>3, <1>4, <1>5, RoundStepKeeps

LEMMA MarkKeeps ==
  ASSUME MetricsIInv, NEW w \in MetricReaders, MarkScheduledPostTargetMetricsSynced(w) PROVE MetricsIInv'
<1>1. /\ sync' = [sync EXCEPT ![w] = Passed(w)] /\ sync[w] # NoSync
      /\ UNCHANGED <<job, tick, live, row, past, holder, overtaken>>
  BY DEF MarkScheduledPostTargetMetricsSynced, NoSync
<1> QED
  BY <1>1, PassedIsRound, RoundStepKeeps

\* The row and the history of the day are written, or the item is passed over.
LEMMA UpsertKeeps ==
  ASSUME MetricsIInv, NEW w \in MetricReaders, UpsertMetrics(w) PROVE MetricsIInv'
<1> DEFINE i == sync[w].item
           n == [value |-> sync[w].value, read |-> sync[w].read, by |-> w, day |-> RecordedDay(w)]
           m == [sync[w] EXCEPT !.stage = "mark"]
<1>1. sync[w].stage = "write" /\ sync[w] # NoSync
  BY DEF UpsertMetrics, NoSync
<1>2. RoundRow(sync[w]) /\ RoundRow(Passed(w)) /\ Passed(w).stage = "next" /\ i \in Items
  BY <1>1, PassedIsRound DEF RoundRow
<1>3. RoundRow(m) /\ m.stage = "mark"
  BY <1>2 DEF RoundRow, RoundRows
<1>4. UNCHANGED <<job, tick, live, holder>> /\ tick' \in Nat /\ tick <= tick'
  BY DEF UpsertMetrics, MetricsIInv, MetricsTyped
<1>5. CASE sync' = [sync EXCEPT ![w] = Passed(w)] /\ UNCHANGED <<row, past, overtaken>>
  BY <1>1, <1>2, <1>4, <1>5, RoundStepKeeps
<1>6. CASE /\ row' = [row EXCEPT ![i] = n]
           /\ past' = [past EXCEPT ![i][RecordedDay(w)] = sync[w].value]
           /\ overtaken' = overtaken \cup {x \in {i} : row[x].read > sync[w].read /\ {row[x].by, w} \subseteq Rounds}
           /\ sync' = [sync EXCEPT ![w] = IF job = "posts" THEN m ELSE Passed(w)]
  <2>1. PICK s : s \in {m, Passed(w)} /\ sync' = [sync EXCEPT ![w] = s]
    BY <1>6
  <2>2. RoundRow(s) /\ s.stage # "write"
    BY <1>2, <1>3, <2>1
  <2>3. /\ sync' \in [MetricReaders -> {NoSync} \cup RoundRows]
        /\ \A v \in MetricReaders : sync'[v] = IF v = w THEN s ELSE sync[v]
        /\ SyncSound'
    BY <1>4, <2>1, <2>2, RoundEntry
  <2>4. n \in MetricRows /\ n.read = sync[w].read /\ n.by = w /\ sync[w].read <= tick
    <3>1. RecordedDay(w) \in Days
      BY <1>2, TodayIsADay DEF RecordedDay, RoundRow, RoundRows, MetricsIInv, MetricsTyped
    <3> QED
      BY <1>2, <3>1 DEF RoundRow, RoundRows, MetricRows
  <2> HIDE DEF n
  <2>5. /\ row' \in [Items -> MetricRows]
        /\ \A k \in Items : row'[k] = IF k = i THEN n ELSE row[k]
    BY <1>2, <1>6, <2>4 DEF MetricsIInv, MetricsTyped
  <2>10. past' \in [Items -> [Days -> Int]]
    <3>1. past \in [Items -> [Days -> Int]] /\ i \in Items /\ sync[w].value \in Int
      BY <1>2 DEF MetricsIInv, MetricsTyped, RoundRow, RoundRows
    <3> QED
      BY <1>6, <3>1
  <2>6. MetricsTyped'
    <3>1. \A k \in Items : row'[k].read <= tick
      BY <2>4, <2>5 DEF MetricsIInv, MetricsTyped
    <3>2. Items' = Items /\ RoundRows' = RoundRows /\ MetricRows' = MetricRows /\ Days' = Days
      BY <1>4, RowsStay
    <3> QED
      BY <1>4, <2>3, <2>5, <2>10, <3>1, <3>2 DEF MetricsIInv, MetricsTyped
  <2>7. RoundsHold'
    BY <1>1, <1>4, <2>3 DEF MetricsIInv, RoundsHold, MetricReaders
  <2>8. ReadingsOrdered'
    <3> SUFFICES ASSUME NEW v \in Rounds, NEW k \in Items, sync'[v].stage = "write", row'[k].by \in Rounds
                 PROVE  row'[k].read <= sync'[v].read
      BY <1>4, RowsStay DEF ReadingsOrdered
    <3>1. v # w /\ sync'[v] = sync[v] /\ sync[v] # NoSync
      BY <2>2, <2>3 DEF MetricReaders, NoSync
    <3>2. w \notin Rounds
      BY <1>1, <3>1 DEF MetricsIInv, RoundsHold
    <3>3. row'[k] = row[k]
      BY <2>4, <2>5, <3>2
    <3> QED
      BY <3>1, <3>3 DEF MetricsIInv, ReadingsOrdered
  <2>9. overtaken' = {}
    <3>1. ~(row[i].read > sync[w].read /\ {row[i].by, w} \subseteq Rounds)
      <4> SUFFICES ASSUME w \in Rounds, row[i].by \in Rounds PROVE ~(row[i].read > sync[w].read)
        OBVIOUS
      <4>1. row[i].read <= sync[w].read
        BY <1>1, <1>2 DEF MetricsIInv, ReadingsOrdered
      <4>2. row[i].read \in Nat /\ sync[w].read \in Nat
        BY <1>2 DEF MetricsIInv, MetricsTyped, MetricRows, RoundRow, RoundRows
      <4> QED
        BY <4>1, <4>2
    <3> QED
      BY <1>6, <3>1 DEF MetricsIInv
  <2> QED
    BY <2>6, <2>7, <2>8, <2>9 DEF MetricsIInv
<1> QED
  BY <1>5, <1>6 DEF UpsertMetrics

\* A round ends and unlocks, or a process stops and the mutexes go with it.
LEMMA EndsKeep ==
  ASSUME MetricsIInv, (\E w \in DOMAIN sync : EndRound(w)) \/ StopMetrics PROVE MetricsIInv'
<1>1. /\ DOMAIN sync = MetricReaders /\ UNCHANGED <<job, tick, live, row, past, overtaken>>
      /\ tick' \in Nat /\ tick <= tick'
  BY DEF MetricsIInv, MetricsTyped, EndRound, StopMetrics
<1>2. /\ sync' \in [MetricReaders -> {NoSync} \cup RoundRows]
      /\ \A v \in MetricReaders : sync'[v] \in {sync[v], NoSync}
  BY <1>1 DEF EndRound, StopMetrics, MetricsIInv, MetricsTyped
<1>3. /\ Items' = Items /\ RoundRows' = RoundRows /\ MetricRows' = MetricRows /\ Days' = Days
      /\ \A s : RoundRow(s) => RoundRow(s)'
  BY <1>1, RowsStay
<1>6. MetricsTyped'
  <2>1. \A v \in MetricReaders : sync[v] = NoSync \/ RoundRow(sync[v])
    BY DEF MetricsIInv, MetricsTyped, SyncSound
  <2>2. SyncSound'
    <3>1. ASSUME NEW v \in MetricReaders PROVE sync'[v] = NoSync \/ RoundRow(sync[v])'
      <4>1. sync'[v] = NoSync \/ RoundRow(sync'[v])
        BY <1>2, <2>1
      <4>2. UNCHANGED tick
        BY DEF EndRound, StopMetrics
      <4> QED
        BY <1>3, <4>1, <4>2 DEF RoundRow
    <3> QED
      BY <3>1 DEF SyncSound
  <2> QED
    BY <1>1, <1>2, <1>3, <2>2 DEF MetricsIInv, MetricsTyped
<1>4. ReadingsOrdered'
  BY <1>1, <1>2, <1>3 DEF MetricsIInv, ReadingsOrdered, MetricReaders, NoSync
<1>5. RoundsHold'
  <2> SUFFICES ASSUME NEW v \in Rounds, sync'[v] # NoSync PROVE holder' = v
    BY DEF RoundsHold
  <2>1. v \in MetricReaders /\ sync[v] # NoSync /\ holder = v
    BY <1>2 DEF MetricReaders, MetricsIInv, RoundsHold
  <2>2. CASE StopMetrics
    BY <1>1, <2>1, <2>2 DEF StopMetrics
  <2>3. CASE \E w \in DOMAIN sync : EndRound(w)
    <3>1. PICK w \in MetricReaders : EndRound(w)
      BY <1>1, <2>3
    <3>2. w # v /\ sync[w] # NoSync
      BY <1>1, <2>1, <3>1 DEF EndRound, NoSync
    <3>3. w \notin Rounds
      BY <2>1, <3>2 DEF MetricsIInv, RoundsHold
    <3> QED
      BY <2>1, <3>1, <3>3 DEF EndRound, Unlock
  <2> QED
    BY <2>2, <2>3
<1> QED
  BY <1>1, <1>4, <1>5, <1>6 DEF MetricsIInv

LEMMA RoundsStep ==
  ASSUME MetricsIInv, [MetricsNext]_metricVars PROVE MetricsIInv'
<1>1. DOMAIN sync = MetricReaders
  BY DEF MetricsIInv, MetricsTyped
<1>2. CASE Pass \/ (\E i \in Items : Like(i)) \/ (\E p \in Posts, at \in 1 .. tick : PostResult(p, at))
  BY <1>2, WorldKeepsRows
<1>3. CASE \/ \E w \in DOMAIN sync : StartRound(w)
           \/ FirstAccountRound
           \/ \E t \in Published : PublishTarget(t) \/ \E at \in 1 .. tick : ImportTarget(t, at)
  BY <1>3, StartsKeep
<1>4. CASE \E w \in DOMAIN sync, i \in Items : ReadMetrics(w, i)
  BY <1>1, <1>4, ReadKeeps
<1>5. CASE \E w \in DOMAIN sync : UpsertMetrics(w)
  BY <1>1, <1>5, UpsertKeeps
<1>6. CASE \E w \in DOMAIN sync : MarkScheduledPostTargetMetricsSynced(w)
  BY <1>1, <1>6, MarkKeeps
<1>7. CASE (\E w \in DOMAIN sync : EndRound(w)) \/ StopMetrics
  BY <1>7, EndsKeep
<1>8. CASE UNCHANGED metricVars
  <2>1. /\ UNCHANGED <<job, tick, live, row, past, holder, sync, overtaken>>
        /\ tick' \in Nat /\ tick <= tick'
    BY <1>8 DEF metricVars, MetricsIInv, MetricsTyped
  <2>2. /\ Items' = Items /\ RoundRows' = RoundRows /\ MetricRows' = MetricRows /\ Days' = Days
        /\ \A s : RoundRow(s) => RoundRow(s)'
    BY <2>1, RowsStay
  <2>3. MetricsTyped'
    <3>1. SyncSound'
      BY <2>1, <2>2 DEF MetricsIInv, MetricsTyped, SyncSound
    <3> QED
      BY <2>1, <2>2, <3>1 DEF MetricsIInv, MetricsTyped
  <2> QED
    BY <2>1, <2>2, <2>3 DEF MetricsIInv, RoundsHold, ReadingsOrdered
<1> QED
  BY <1>2, <1>3, <1>4, <1>5, <1>6, <1>7, <1>8 DEF MetricsNext
(* The days of the histories. A round of accounts writes for the day it began; *)
(* what was written before it began, and what an unlocked round that began      *)
(* earlier still writes, is of that day or before. Posts are written for the    *)
(* day of the write, an import's reading for a day before it.                   *)
DaysInTurn ==
  /\ \A i \in Items, d \in Days : past[i][d] # -1 => d <= Today
  /\ \A w \in MetricReaders : sync[w] # NoSync /\ job = "accounts" => sync[w].day # -1
  /\ \A w \in Rounds : sync[w] # NoSync /\ job = "posts" => sync[w].day = -1
  /\ \A w \in Rounds, i \in Items, d \in Days :
       sync[w] # NoSync /\ job = "accounts" /\ past[i][d] # -1 => d <= sync[w].day
  /\ \A w \in Rounds :
       sync[w] # NoSync /\ sync[Direct] # NoSync /\ job = "accounts" => sync[Direct].day <= sync[w].day

HistoryInv == DaysInTurn /\ ChartsEndAtTheRow

\* Nothing is written, no round begins, no round changes its day.
LEMMA DaysStay ==
  ASSUME MetricsIInv, HistoryInv, UNCHANGED <<job, row, past>>, tick' \in Nat, tick <= tick',
         \A v \in MetricReaders :
           sync'[v] = NoSync \/ (sync[v] # NoSync /\ sync'[v].day = sync[v].day)
  PROVE  HistoryInv'
<1>1. Items' = Items /\ Days' = Days /\ Today <= Today'
  BY RowsStay
<1>2. Today \in Nat /\ Today' \in Nat /\ Days \subseteq Int
  BY DaysPass DEF Today, Days, MetricsIInv, MetricsTyped
<1>3. Direct \in MetricReaders /\ Rounds \subseteq MetricReaders
  BY DEF MetricReaders
<1> HIDE DEF Today
<1>4. \A i \in Items, d \in Days : past[i][d] # -1 => d <= Today'
  BY <1>1, <1>2 DEF HistoryInv, DaysInTurn
<1>5. DaysInTurn'
  BY <1>1, <1>3, <1>4 DEF HistoryInv, DaysInTurn, MetricReaders
<1>6. ChartsEndAtTheRow'
  BY <1>1 DEF HistoryInv, ChartsEndAtTheRow
<1> QED
  BY <1>5, <1>6 DEF HistoryInv

\* A round that begins, of accounts: for today.
LEMMA BeginsToday ==
  ASSUME MetricsIInv, HistoryInv, NEW w \in MetricReaders, NEW items \in SUBSET Items,
         sync' = Begin(w, items, DayOfRound), sync[w] = NoSync,
         w \notin Rounds => \A v \in MetricReaders : sync[v] = NoSync,
         w \in Rounds => \A v \in Rounds : sync[v] = NoSync,
         UNCHANGED <<job, tick, row, past>>
  PROVE  HistoryInv'
<1>1. Today \in Days /\ Today \in Nat
  BY TodayIsADay DEF MetricsIInv, MetricsTyped
<1>2. sync \in [MetricReaders -> {NoSync} \cup RoundRows] /\ job \in {"posts", "accounts"}
  BY DEF MetricsIInv, MetricsTyped
<1>3. Items' = Items /\ Days' = Days /\ Today' = Today
  BY DEF Items, Days, Today
<1>4. \A v \in MetricReaders : sync'[v] = IF v = w THEN Between(items, DayOfRound) ELSE sync[v]
  BY <1>2 DEF Begin
<1>5. Between(items, DayOfRound).day = IF job = "posts" THEN -1 ELSE Today
  BY DEF Between, DayOfRound
<1>6. Direct \in MetricReaders /\ Rounds \subseteq MetricReaders /\ Direct \notin Rounds
  BY MetricsAssumption DEF MetricReaders, Direct
<1>7. sync[Direct] # NoSync => sync[Direct].day <= Today
  BY <1>6 DEF MetricsIInv, MetricsTyped, SyncSound, RoundRow
<1> HIDE DEF Today
<1>8. DaysInTurn'
  <2>1. \A v \in Rounds : sync'[v] # NoSync => v = w
    BY <1>4, <1>6
  <2>2. \A v \in MetricReaders : sync'[v] # NoSync /\ job = "accounts" => sync'[v].day # -1
    BY <1>1, <1>4, <1>5 DEF HistoryInv, DaysInTurn
  <2>3. \A v \in Rounds : sync'[v] # NoSync => sync'[v].day = IF job = "posts" THEN -1 ELSE Today
    BY <1>4, <1>5, <1>6, <2>1
  <2>4. \A v \in Rounds : sync'[v] # NoSync => sync'[Direct] = sync[Direct]
    BY <1>4, <1>6, <2>1
  <2>5. \A i \in Items, d \in Days : past[i][d] # -1 => d <= Today
    BY DEF HistoryInv, DaysInTurn
  <2> QED
    BY <1>2, <1>3, <1>7, <2>2, <2>3, <2>4, <2>5 DEF DaysInTurn, MetricReaders
<1>9. ChartsEndAtTheRow'
  BY <1>3 DEF HistoryInv, ChartsEndAtTheRow
<1> QED
  BY <1>8, <1>9 DEF HistoryInv

\* The reading of a new post begins: no round of accounts is under way.
LEMMA BeginsAPost ==
  ASSUME MetricsIInv, HistoryInv, NEW t, NEW d, job = "posts",
         sync' = Begin(Direct, {t}, d), UNCHANGED <<job, tick, row, past>>
  PROVE  HistoryInv'
<1>1. sync \in [MetricReaders -> {NoSync} \cup RoundRows]
  BY DEF MetricsIInv, MetricsTyped
<1>2. Items' = Items /\ Days' = Days /\ Today' = Today
  BY DEF Items, Days, Today
<1>3. Rounds \subseteq MetricReaders /\ Direct \notin Rounds
  BY MetricsAssumption DEF MetricReaders, Direct
<1>4. \A v \in Rounds : sync'[v] = sync[v]
  BY <1>1, <1>3 DEF Begin
<1> HIDE DEF Today
<1>5. DaysInTurn'
  BY <1>2, <1>4 DEF HistoryInv, DaysInTurn
<1>6. ChartsEndAtTheRow'
  BY <1>2 DEF HistoryInv, ChartsEndAtTheRow
<1> QED
  BY <1>5, <1>6 DEF HistoryInv

\* A write: by a round, for a day no earlier than any written before; by the unlocked
\* reading, no later than the day of any round under way.
LEMMA UpsertInTurn ==
  ASSUME MetricsIInv, HistoryInv, NEW w \in MetricReaders, UpsertMetrics(w) PROVE HistoryInv'
<1> DEFINE i == sync[w].item
           D == RecordedDay(w)
<1>1. sync[w] # NoSync /\ RoundRow(sync[w]) /\ i \in Items /\ Passed(w).day = sync[w].day
  <2>1. sync[w].stage = "write" /\ sync[w] # NoSync
    BY DEF UpsertMetrics, NoSync
  <2> QED
    BY <2>1, PassedIsRound DEF RoundRow, Passed, Between
<1>2. /\ sync \in [MetricReaders -> {NoSync} \cup RoundRows] /\ row \in [Items -> MetricRows]
      /\ past \in [Items -> [Days -> Int]] /\ job \in {"posts", "accounts"}
  BY DEF MetricsIInv, MetricsTyped
<1>3. /\ UNCHANGED <<job, tick>> /\ tick' \in Nat /\ tick <= tick'
      /\ Items' = Items /\ Days' = Days /\ Today' = Today
  BY DEF UpsertMetrics, Items, Days, Today, MetricsIInv, MetricsTyped
<1>4. Today \in Days /\ Today \in Nat /\ Days \subseteq Int
  BY TodayIsADay DEF MetricsIInv, MetricsTyped, Days
<1>5. \A v \in MetricReaders : sync'[v] # NoSync => sync[v] # NoSync /\ sync'[v].day = sync[v].day
  <2>1. [sync[w] EXCEPT !.stage = "mark"].day = sync[w].day
    BY <1>1 DEF RoundRow, RoundRows
  <2>2. PICK s : sync' = [sync EXCEPT ![w] = s] /\ s.day = sync[w].day
    <3>1. \/ sync' = [sync EXCEPT ![w] = [sync[w] EXCEPT !.stage = "mark"]]
          \/ sync' = [sync EXCEPT ![w] = Passed(w)]
      BY DEF UpsertMetrics
    <3> QED
      BY <1>1, <2>1, <3>1
  <2> QED
    BY <1>1, <1>2, <2>2
<1>6. CASE UNCHANGED <<row, past>>
  BY <1>3, <1>5, <1>6, DaysStay
<1>7. CASE /\ row' = [row EXCEPT ![i] = [value |-> sync[w].value, read |-> sync[w].read, by |-> w, day |-> D]]
           /\ past' = [past EXCEPT ![i][D] = sync[w].value]
  <2>1. D \in Days /\ D <= Today
    BY <1>1, <1>4 DEF RecordedDay, RoundRow, RoundRows
  <2>2. D = IF sync[w].day = -1 THEN Today ELSE sync[w].day
    BY DEF RecordedDay
  <2> HIDE DEF D, Today
  <2>3. \A k \in Items, d \in Days :
          past'[k][d] = IF k = i /\ d = D THEN sync[w].value ELSE past[k][d]
    BY <1>1, <1>2, <1>7, <2>1
  <2>4. /\ row'[i].value = sync[w].value /\ row'[i].by = w /\ row'[i].day = D
        /\ \A k \in Items : k # i => row'[k] = row[k]
    BY <1>1, <1>2, <1>7
  <2>5. Rounds \subseteq MetricReaders /\ MetricReaders = Rounds \cup {Direct}
    BY DEF MetricReaders
  <2>6. DaysInTurn'
    <3>1. \A k \in Items, d \in Days : past'[k][d] # -1 => d <= Today
      BY <2>1, <2>3 DEF HistoryInv, DaysInTurn
    <3>2. ASSUME NEW v \in Rounds, sync'[v] # NoSync, job = "accounts" PROVE D <= sync[v].day
      <4>1. D = sync[w].day
        BY <1>1, <2>2, <3>2 DEF HistoryInv, DaysInTurn
      <4>2. sync[v] # NoSync
        BY <1>5, <2>5, <3>2
      <4>3. CASE w \in Rounds
        BY <1>1, <2>1, <4>1, <4>2, <4>3, <1>4 DEF MetricsIInv, RoundsHold
      <4>4. CASE w = Direct
        BY <1>1, <3>2, <4>1, <4>2, <4>4 DEF HistoryInv, DaysInTurn
      <4> QED
        BY <2>5, <4>3, <4>4
    <3>3. \A v \in Rounds, k \in Items, d \in Days :
            sync'[v] # NoSync /\ job = "accounts" /\ past'[k][d] # -1 => d <= sync'[v].day
      BY <1>5, <2>3, <2>5, <3>2 DEF HistoryInv, DaysInTurn
    <3> QED
      BY <1>3, <1>5, <2>5, <3>1, <3>3 DEF HistoryInv, DaysInTurn, MetricReaders
  <2>7. ChartsEndAtTheRow'
    <3> SUFFICES ASSUME NEW k \in Items, row'[k].by \in Rounds
                 PROVE  /\ past'[k][row'[k].day] = row'[k].value
                        /\ \A d \in Days : past'[k][d] # -1 => d <= row'[k].day
      BY <1>3 DEF ChartsEndAtTheRow
    <3>1. CASE k # i
      <4>1. row[k].day \in Days
        BY <1>2 DEF MetricRows
      <4> QED
        BY <2>3, <2>4, <3>1, <4>1 DEF HistoryInv, ChartsEndAtTheRow
    <3>2. CASE k = i
      <4>1. w \in Rounds
        BY <2>4, <3>2
      <4>2. \A d \in Days : past[i][d] # -1 => d <= D
        <5>1. CASE job = "posts"
          BY <1>1, <2>2, <4>1, <5>1 DEF HistoryInv, DaysInTurn
        <5>2. CASE job = "accounts"
          BY <1>1, <2>2, <2>5, <4>1, <5>2 DEF HistoryInv, DaysInTurn
        <5> QED
          BY <1>2, <5>1, <5>2
      <4>3. D <= D
        BY <1>4, <2>1
      <4> QED
        BY <2>1, <2>3, <2>4, <3>2, <4>2, <4>3
    <3> QED
      BY <3>1, <3>2
  <2> QED
    BY <2>6, <2>7 DEF HistoryInv
<1> QED
  BY <1>6, <1>7 DEF UpsertMetrics

LEMMA HistoryStep ==
  ASSUME MetricsIInv, HistoryInv, [MetricsNext]_metricVars PROVE HistoryInv'
<1>1. /\ DOMAIN sync = MetricReaders /\ tick \in Nat /\ tick <= tick
      /\ Direct \in MetricReaders \ Rounds /\ Rounds \subseteq MetricReaders
      /\ \A w \in Rounds : w # "free"
      /\ sync \in [MetricReaders -> {NoSync} \cup RoundRows]
  BY MetricsAssumption DEF MetricsIInv, MetricsTyped, MetricReaders, Direct
<1>2. \A w \in MetricReaders : sync[w].stage = "idle" => sync[w] = NoSync
  BY DEF MetricsIInv, MetricsTyped, SyncSound, RoundRow, RoundRows
<1>3. CASE \/ Pass \/ (\E i \in Items : Like(i)) \/ (\E p \in Posts, at \in 1 .. tick : PostResult(p, at))
           \/ UNCHANGED metricVars
  <2>1. UNCHANGED <<job, row, past, sync>> /\ tick' \in Nat /\ tick <= tick'
    BY <1>1, <1>3 DEF Pass, Like, PostResult, metricVars
  <2> QED
    BY <2>1, DaysStay
<1>4. CASE \E w \in DOMAIN sync : StartRound(w)
  <2>1. PICK w \in Rounds : StartRound(w)
    BY <1>4 DEF StartRound
  <2>2. PICK items \in SUBSET Items : sync' = Begin(w, items, DayOfRound)
    <3>1. \A items \in ListPostedTargetsForMetricSync : items \subseteq Published
      BY DEF ListPostedTargetsForMetricSync, Batches
    <3> QED
      BY <2>1, <3>1 DEF StartRound, Items
  <2>3. \A v \in Rounds : sync[v] = NoSync
    BY <1>1, <2>1 DEF StartRound, MutexFree, MetricsIInv, RoundsHold
  <2>4. UNCHANGED <<job, tick, row, past>>
    BY <2>1 DEF StartRound
  <2> QED
    BY <1>1, <2>2, <2>3, <2>4, BeginsToday
<1>5. CASE FirstAccountRound
  <2>1. /\ sync' = Begin(Direct, Followed, DayOfRound) /\ Followed \in SUBSET Items
        /\ \A v \in MetricReaders : sync[v] = NoSync
        /\ UNCHANGED <<job, tick, row, past>>
    BY <1>1, <1>5 DEF FirstAccountRound, Items
  <2> QED
    BY <1>1, <2>1, BeginsToday
<1>6. CASE \E t \in Published : PublishTarget(t) \/ \E at \in 1 .. tick : ImportTarget(t, at)
  <2>1. PICK t, d : sync' = Begin(Direct, {t}, d) /\ job = "posts" /\ UNCHANGED <<job, tick, row, past>>
    BY <1>6 DEF PublishTarget, ImportTarget
  <2> QED
    BY <2>1, BeginsAPost
<1>7. CASE \/ \E w \in DOMAIN sync : MarkScheduledPostTargetMetricsSynced(w) \/ EndRound(w)
           \/ \E w \in DOMAIN sync, i \in Items : ReadMetrics(w, i)
           \/ StopMetrics
  <2>1. UNCHANGED <<job, row, past, tick>>
    BY <1>7 DEF MarkScheduledPostTargetMetricsSynced, EndRound, ReadMetrics, StopMetrics
  <2>2. ASSUME NEW w \in MetricReaders, NEW s, sync' = [sync EXCEPT ![w] = s],
               s = NoSync \/ (sync[w] # NoSync /\ s.day = sync[w].day)
        PROVE  \A v \in MetricReaders : sync'[v] = NoSync \/ (sync[v] # NoSync /\ sync'[v].day = sync[v].day)
    <3>1. \A v \in MetricReaders : sync'[v] = IF v = w THEN s ELSE sync[v]
      BY <1>1, <2>2
    <3> QED
      BY <2>2, <3>1
  <2>3. \A v \in MetricReaders : sync'[v] = NoSync \/ (sync[v] # NoSync /\ sync'[v].day = sync[v].day)
    <3>1. CASE \E w \in DOMAIN sync : MarkScheduledPostTargetMetricsSynced(w)
      <4>3. PICK w \in MetricReaders : MarkScheduledPostTargetMetricsSynced(w)
        BY <1>1, <3>1
      <4>1. sync' = [sync EXCEPT ![w] = Passed(w)] /\ sync[w] # NoSync
        BY <4>3 DEF MarkScheduledPostTargetMetricsSynced, NoSync
      <4>2. Passed(w).day = sync[w].day
        BY DEF Passed, Between
      <4> QED
        BY <2>2, <4>1, <4>2
    <3>2. CASE \E w \in DOMAIN sync : EndRound(w)
      BY <1>1, <2>2, <3>2 DEF EndRound
    <3>3. CASE \E w \in DOMAIN sync, i \in Items : ReadMetrics(w, i)
      <4>1. PICK w \in MetricReaders, i \in Items : ReadMetrics(w, i)
        BY <1>1, <3>3
      <4>2. sync[w] # NoSync
        BY <4>1 DEF ReadMetrics, NoSync
      <4>3. /\ Reading(w, i).day = sync[w].day
            /\ Between(sync[w].todo \ {i}, sync[w].day).day = sync[w].day
        BY DEF Reading, Between
      <4>4. PICK s : sync' = [sync EXCEPT ![w] = s] /\ s.day = sync[w].day
        BY <4>1, <4>3 DEF ReadMetrics
      <4> QED
        BY <2>2, <4>2, <4>4
    <3>4. CASE StopMetrics
      BY <1>1, <3>4 DEF StopMetrics
    <3> QED
      BY <1>7, <3>1, <3>2, <3>3, <3>4
  <2> QED
    BY <1>1, <2>1, <2>3, DaysStay
<1>8. CASE \E w \in DOMAIN sync : UpsertMetrics(w)
  BY <1>1, <1>8, UpsertInTurn
<1> QED
  BY <1>3, <1>4, <1>5, <1>6, <1>7, <1>8 DEF MetricsNext

(* The first two parts of NumbersAgree, for any number of targets, accounts    *)
(* and rounds, whatever is read outside the mutex, and whenever the process    *)
(* stops: the mutex makes rounds read and write in turns, and so the days of   *)
(* their writes do not run backwards, over any midnight; what a round wrote    *)
(* last is the end of the item's history.                                      *)
THEOREM RoundsTakeTurns == MetricsSpec => [](NewestReadingStands /\ ChartsEndAtTheRow)
<1>1. MetricsInit => MetricsIInv /\ HistoryInv
  <2> SUFFICES ASSUME MetricsInit PROVE HistoryInv
    BY MetricsIInvInit
  <2>1. /\ \A i \in Items, d \in Days : past[i][d] = -1
        /\ \A w \in MetricReaders : sync[w] = NoSync
        /\ \A i \in Items : row[i].by = "none"
    BY DEF MetricsInit, NoRow
  <2>2. "none" \notin Rounds
    BY MetricsAssumption
  <2> QED
    BY <2>1, <2>2 DEF HistoryInv, DaysInTurn, ChartsEndAtTheRow, MetricReaders
<1>2. MetricsIInv /\ HistoryInv /\ [MetricsNext]_metricVars => (MetricsIInv /\ HistoryInv)'
  BY RoundsStep, HistoryStep
<1>3. MetricsIInv /\ HistoryInv => NewestReadingStands /\ ChartsEndAtTheRow
  BY DEF MetricsIInv, HistoryInv, NewestReadingStands
<1> QED
  BY <1>1, <1>2, <1>3, PTL DEF MetricsSpec
=============================================================================
