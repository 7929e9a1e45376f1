------------------------------ MODULE Upgrade ------------------------------
(* Starting the program on a SQLite database of an earlier release: New        *)
(* applies the schema and applySQLiteLegacyMigrations, and Run then renames    *)
(* the personal workspaces and fills in hashtags. Every statement commits on   *)
(* its own; a stop leaves what was done, and the next start begins anew.       *)
EXTENDS Integers, FiniteSets

CONSTANTS
  Children,   \* announcement templates of an earlier release
  Parents,
  ParentOf,   \* the template a child announces; nothing keeps two from announcing the same
  Workspaces, \* personal workspaces, whose owners all have the same name
  MaxStarts   \* starts that succeed

ASSUME UpgradeAssumption ==
  /\ ParentOf \in [Children -> Parents] /\ Children \cap (Parents \cup {"none"}) = {}
  /\ IsFiniteSet(Workspaces)

VARIABLES
  step,       \* "down", the statement that is next, or "serving"
  starts,
  shape,      \* CREATE text of scheduled_posts: "first", "draft" or "automation"
  columns,    \* per group of columns of scheduled_posts: "none", "empty" or "filled" (what the earlier release wrote is in it)
  relaxed,    \* tables whose provider CHECK is the open one
  targets,    \* rows of scheduled_post_targets that refer to the rebuilt tables
  marker,     \* a row of rss_imported_items
  flight,     \* its automation job is pending or processing
  templates, announces, embedded,
  configs,    \* the rows of ai_service_configs of a team, by age
  remote,     \* remote_post_id of a posted target: "null", "uri" (in its metadata only), "set"
  name, flagged,
  tagged,     \* the hashtags of a posted post are recorded
  ought,      \* ghost: what an upgrade without interruption makes of the marker
  given       \* ghost: the shape of scheduled_posts and the groups that held data at first

upgradeVars == <<step, starts, shape, columns, relaxed, targets, marker, flight, templates,
                 announces, embedded, configs, remote, name, flagged, tagged, ought, given>>
postTable == <<shape, columns, relaxed, targets>>
announceVars == <<templates, announces, embedded>>
otherRows == <<configs, remote, name, flagged, tagged>>

\* The columns added since the table's first shape, in the order of their releases:
\* "template" (post_template_id, template_counter), "occurrence" (template_occurrence_at,
\* template_post_role), "source", "acknowledged" (acknowledged_at), "feed" (rss_feed_id and
\* the columns of the AI jobs). A release has all up to one of them.
Groups == {"template", "occurrence", "source", "acknowledged", "feed"}
Releases ==
  {{}, {"template"}, {"template", "occurrence"}, {"template", "occurrence", "source"}, Groups \ {"feed"}, Groups}
\* What the two rebuilds copy.
CopiedForDraft == {}
CopiedForAutomation == {"template", "source", "feed"}
Rebuilt(copied) == [g \in Groups |-> IF g \in copied THEN columns[g] ELSE "none"]
HasColumns(groups) == \A g \in groups: columns[g] # "none"
Constrained == {"provider_instances", "social_accounts"}
NotThere == [there |-> FALSE, attempts |-> 0, linked |-> FALSE, consumed |-> FALSE, budgeted |-> FALSE, leases |-> 0]
Marked(attempts, linked, consumed) ==
  [there |-> TRUE, attempts |-> attempts, linked |-> linked, consumed |-> consumed, budgeted |-> FALSE, leases |-> 0]
Nobody == "none"
Legacy(t) == <<"Personal", t>>
Named(n) == <<"owner", n>>

(* What becomes of a marker: the reservation of a job under way gets a lease,  *)
(* once; a baseline or an imported item is consumed; a failed attempt stays.   *)
Settled(m, flying) ==
  LET live == m.there /\ ~m.consumed /\ ~m.linked /\ m.attempts = 0
      leased == IF live /\ flying THEN [m EXCEPT !.attempts = 1, !.leases = @ + 1] ELSE m
  IN [leased EXCEPT !.consumed = @ \/ (m.there /\ (m.linked \/ (live /\ ~flying))),
                    !.budgeted = @ \/ leased.attempts > 0 \/ m.linked]

UpgradeInit ==
  /\ step = "down" /\ starts = 0
  \* the statements do not tell whether 'draft' or the template columns came first;
  \* 'automation' is a value of source
  /\ \E has \in Releases:
       /\ \/ shape = "first" /\ has \in {{}, {"template"}}
          \/ shape = "draft"
          \/ shape = "automation" /\ "source" \in has
       /\ columns = [g \in Groups |-> IF g \in has THEN "filled" ELSE "none"]
       /\ given = [shape |-> shape, filled |-> has]
  /\ relaxed \in IF shape = "automation" THEN {{}, {"provider_instances"}, Constrained} ELSE {{}}
  /\ targets = {"of the posts", "of the accounts"}
  /\ marker \in {NotThere} \cup
       IF "feed" \notin given.filled THEN {}
       ELSE [there: {TRUE}, attempts: {0, 1}, linked: BOOLEAN, consumed: BOOLEAN, budgeted: {FALSE}, leases: {0}]
  /\ flight \in IF marker = Marked(0, FALSE, FALSE) THEN BOOLEAN ELSE {FALSE}
  /\ \E there \in SUBSET Parents: templates = Children \cup there
  /\ announces = Children /\ embedded = [p \in Parents |-> Nobody]
  /\ configs \in {{}, {1, 2}}
  /\ remote = IF configs = {} THEN "null" ELSE "uri"  \* (the two tables go together, for fewer states)
  /\ \E own \in SUBSET Workspaces:  \* at most one was renamed by its owner
       /\ Cardinality(own) <= 1
       /\ name = [t \in Workspaces |-> IF t \in own THEN Named(1) ELSE Legacy(t)]
  /\ flagged = Workspaces
  /\ tagged = FALSE
  /\ ought = Settled(marker, flight)

At(here, next) == step = here /\ step' = next /\ UNCHANGED <<starts, given>>

\* New: the schema leaves existing tables alone.
New ==
  /\ starts < MaxStarts /\ At("down", "columns")
  /\ UNCHANGED <<postTable, marker, flight, announceVars, otherRows, ought>>

\* "alter table ... add column", whose duplicate-column error is ignored.
AddColumns ==
  /\ At("columns", "promote")
  /\ columns' = [g \in Groups |-> IF columns[g] = "none" THEN "empty" ELSE columns[g]]
  /\ UNCHANGED <<shape, relaxed, targets, marker, flight, announceVars, otherRows, ought>>

Promotable(m) == m.there /\ ~m.consumed /\ ~m.linked /\ m.attempts = 0
PromoteInFlight ==
  /\ At("promote", "consume")
  /\ marker' = IF Promotable(marker) /\ flight THEN [marker EXCEPT !.attempts = 1, !.leases = @ + 1] ELSE marker
  /\ UNCHANGED <<postTable, flight, announceVars, otherRows, ought>>

ConsumeMarkers ==
  /\ At("consume", "budget")
  /\ marker' = IF marker.there /\ (marker.linked \/ marker.attempts = 0) THEN [marker EXCEPT !.consumed = TRUE] ELSE marker
  /\ UNCHANGED <<postTable, flight, announceVars, otherRows, ought>>

BudgetMarkers ==
  /\ At("budget", "dedupe")
  /\ marker' = IF marker.attempts > 0 \/ marker.linked THEN [marker EXCEPT !.budgeted = TRUE] ELSE marker
  /\ UNCHANGED <<postTable, flight, announceVars, otherRows, ought>>

DedupeConfigs ==
  /\ At("dedupe", "remote")
  /\ configs' = {c \in configs: \A d \in configs: d <= c}
  /\ UNCHANGED <<postTable, marker, flight, announceVars, remote, name, flagged, tagged, ought>>

BackfillRemoteIDs ==
  /\ At("remote", "draft")
  /\ remote' = IF remote = "uri" THEN "set" ELSE remote
  /\ UNCHANGED <<postTable, marker, flight, announceVars, configs, name, flagged, tagged, ought>>

(* A rebuild is one transaction, with the foreign keys off: DROP TABLE would   *)
(* delete what refers to the rows.                                             *)
KeysOn(rows) == targets \ rows
ForeignKeysOff(rows) == targets

migrateSQLiteScheduledPostsDraftStatus ==
  /\ At("draft", "automation")
  /\ IF shape # "first" THEN UNCHANGED postTable
     ELSE /\ shape' = "draft" /\ columns' = Rebuilt(CopiedForDraft)
          /\ targets' = ForeignKeysOff({"of the posts"}) /\ UNCHANGED relaxed
  /\ UNCHANGED <<marker, flight, announceVars, otherRows, ought>>

\* The SELECT names columns the rebuild before it has just left out: New fails.
migrateSQLiteScheduledPostsAutomationSource ==
  /\ \/ shape = "automation" /\ At("automation", "embed") /\ UNCHANGED postTable
     \/ /\ shape # "automation" /\ HasColumns(CopiedForAutomation) /\ At("automation", "embed")
        /\ shape' = "automation" /\ columns' = Rebuilt(CopiedForAutomation)
        /\ targets' = ForeignKeysOff({"of the posts"}) /\ UNCHANGED relaxed
     \/ shape # "automation" /\ ~HasColumns(CopiedForAutomation) /\ At("automation", "down") /\ UNCHANGED postTable
  /\ UNCHANGED <<marker, flight, announceVars, otherRows, ought>>

\* One child at a time, in any order: the parent takes its content, in place of
\* what another child left there, then it is deleted; a child without parent
\* stays as a template of its own.
Embed(c) ==
  /\ At("embed", "embed") /\ c \in announces /\ ParentOf[c] \in templates
  /\ embedded' = [embedded EXCEPT ![ParentOf[c]] = c]
  /\ UNCHANGED <<postTable, marker, flight, templates, announces, otherRows, ought>>
DeleteEmbedded(c) ==
  /\ At("embed", "embed") /\ c \in announces /\ embedded[ParentOf[c]] = c
  /\ templates' = templates \ {c} /\ announces' = announces \ {c}
  /\ UNCHANGED <<postTable, marker, flight, embedded, otherRows, ought>>
PromoteOrphan(c) ==
  /\ At("embed", "embed") /\ c \in announces /\ ParentOf[c] \notin templates
  /\ announces' = announces \ {c}
  /\ UNCHANGED <<postTable, marker, flight, templates, embedded, otherRows, ought>>
EmbedDone ==
  /\ At("embed", "providers") /\ announces = {}
  /\ UNCHANGED <<postTable, marker, flight, announceVars, otherRows, ought>>

rebuildSQLiteProviderTable(t) ==
  /\ At("providers", "providers") /\ t \notin relaxed
  /\ t = "social_accounts" => "provider_instances" \in relaxed
  /\ relaxed' = relaxed \cup {t}
  /\ targets' = IF t = "social_accounts" THEN ForeignKeysOff({"of the accounts"}) ELSE targets
  /\ UNCHANGED <<shape, columns, marker, flight, announceVars, otherRows, ought>>
ProvidersDone ==
  /\ At("providers", "workspaces") /\ relaxed = Constrained
  /\ UNCHANGED <<postTable, marker, flight, announceVars, otherRows, ought>>

\* uniqueTeamName: the first of "owner", "owner 2", ... no other team has.
Taken(t) == {name[u]: u \in Workspaces \ {t}}
uniqueTeamName(t) ==
  Named(CHOOSE n \in 1..(Cardinality(Workspaces) + 1):
          Named(n) \notin Taken(t) /\ \A k \in 1..(n - 1): Named(k) \in Taken(t))

\* MigratePersonalWorkspaces; a lookup that fails takes the name for free, and
\* teams.name is unique: a name that is taken ends the start.
RenameWorkspace(t) ==
  /\ step = "workspaces" /\ t \in flagged /\ UNCHANGED <<starts, given>>
  /\ \E new \in IF name[t] = Legacy(t) THEN {uniqueTeamName(t), Named(1)} ELSE {name[t]}:
       \/ new \notin Taken(t) /\ name' = [name EXCEPT ![t] = new] /\ flagged' = flagged \ {t} /\ UNCHANGED step
       \/ new \in Taken(t) /\ step' = "down" /\ UNCHANGED <<name, flagged>>
  /\ UNCHANGED <<postTable, marker, flight, announceVars, configs, remote, tagged, ought>>
MigratePersonalWorkspaces ==
  /\ At("workspaces", "hashtags") /\ flagged = {}
  /\ UNCHANGED <<postTable, marker, flight, announceVars, otherRows, ought>>

\* A failure is only logged.
BackfillPostHashtags ==
  /\ step = "hashtags" /\ step' = "serving" /\ starts' = starts + 1
  /\ tagged' \in {tagged, TRUE}
  /\ UNCHANGED <<postTable, marker, flight, announceVars, configs, remote, name, flagged, ought, given>>

(* While it serves: an item is claimed, its job ends, a baseline is recorded.  *)
Serve(m, flying) ==
  /\ step = "serving" /\ marker' = m /\ flight' = flying /\ ought' = m
  /\ UNCHANGED <<step, starts, postTable, announceVars, otherRows, given>>
ClaimItem == ~marker.there /\ Serve([Marked(1, FALSE, FALSE) EXCEPT !.budgeted = TRUE], TRUE)
RecordBaseline == ~marker.there /\ Serve(Marked(0, FALSE, FALSE), FALSE)
JobEndsWell == flight /\ Serve([marker EXCEPT !.linked = TRUE, !.consumed = TRUE], FALSE)
JobEndsBadly == flight /\ Serve(marker, FALSE)

(* A stop, in the middle of a start or later: an open transaction is undone.   *)
Stop ==
  /\ step # "down" /\ step' = "down"
  /\ ought' = IF step = "serving" THEN Settled(marker, flight) ELSE ought
  /\ UNCHANGED <<starts, postTable, marker, flight, announceVars, otherRows, given>>

UpgradeNext ==
  \/ New \/ AddColumns \/ PromoteInFlight \/ ConsumeMarkers \/ BudgetMarkers \/ DedupeConfigs \/ BackfillRemoteIDs
  \/ migrateSQLiteScheduledPostsDraftStatus \/ migrateSQLiteScheduledPostsAutomationSource
  \/ \E c \in Children: Embed(c) \/ DeleteEmbedded(c) \/ PromoteOrphan(c)
  \/ EmbedDone \/ ProvidersDone
  \/ \E t \in Constrained: rebuildSQLiteProviderTable(t)
  \/ \E t \in Workspaces: RenameWorkspace(t)
  \/ MigratePersonalWorkspaces \/ BackfillPostHashtags
  \/ ClaimItem \/ RecordBaseline \/ JobEndsWell \/ JobEndsBadly \/ Stop

UpgradeSpec == UpgradeInit /\ [][UpgradeNext]_upgradeVars

(* What the earlier release wrote and the rebuilds leave out: for 'draft', all  *)
(* that was added since; for 'automation', when and as what a recurring post    *)
(* was made and whether its failure was acknowledged.                           *)
Omitted ==
  CASE given.shape = "first" -> Groups
    [] given.shape = "draft" -> {"occurrence", "acknowledged"}
    [] OTHER -> {}

(* A start that succeeds leaves what an uninterrupted one would, however often *)
(* it was stopped half way: the reservation of a job under way has one lease   *)
(* ("Promote once so repeated startup never extends the lease"), no marker is  *)
(* forgotten, one AI configuration per team is left and the rows that refer to *)
(* a rebuilt table are all there. Two losses are final, and no others: the     *)
(* columns a rebuild omits come back empty on the next start (the first one    *)
(* serves without them), and of several announcements of one template the one  *)
(* embedded last replaces the others.                                          *)
UpgradeLossesAreKnown ==
  /\ \A t, u \in Workspaces: t # u => name[t] # name[u]
  /\ targets = {"of the posts", "of the accounts"}
  /\ step = "serving" =>
       /\ marker = ought /\ marker.leases <= 1
       /\ {g \in Groups: columns[g] = "filled"} = given.filled \ Omitted
       /\ starts > 1 => HasColumns(Groups)
       /\ \A c \in Children:
            IF ParentOf[c] \in templates
            THEN c \notin templates /\ \E d \in Children: ParentOf[d] = ParentOf[c] /\ embedded[ParentOf[c]] = d
            ELSE c \in templates /\ c \notin announces
       /\ Cardinality(configs) <= 1 /\ remote # "uri" /\ flagged = {}
=============================================================================
