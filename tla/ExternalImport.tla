--------------------------- MODULE ExternalImport ---------------------------
(* The import of posts written outside goloom: the external post loop and its *)
(* admin trigger, the import of old posts, and what they share with the       *)
(* publisher, the rows of scheduled_post_targets. Each replica runs one import *)
(* at a time (externalPostImportMu); replicas are not kept apart.             *)
EXTENDS Integers, Sequences, FiniteSets, FiniteSetsExt

CONSTANTS
  Replicas,     \* processes that run the import
  Walls,        \* connected accounts of the team
  Horizon,      \* externalPostBackfillDays, in ticks
  FeedLimit,    \* statuses a provider returns at most (40 by the loop)
  OldLimit,     \* limit of a manual import of old posts
  MaxNow,       \* bound of the clock
  MaxStatuses   \* bound of the statuses on the walls

ASSUME ImportAssumption == Horizon \in Nat /\ FeedLimit \in Nat \ {0} /\ OldLimit \in Nat \ {0}

VARIABLES
  today,     \* time.Now()
  wall,      \* the statuses providers show, oldest first: [acct, at, by]
  kept,      \* rows of scheduled_post_targets with status posted
  monitor,   \* external_post_monitor_settings of the team
  import,    \* per replica, the import it runs
  accepted,  \* statuses the provider took from goloom that are not recorded yet
  request,   \* a settings request between its read and its write
  excused,   \* ghost: statuses an import met and could not take, or was not to take
  fresh,     \* ghost: statuses the publisher recorded, or whose post became posted, since the
             \* last clean-up, or beside an import
  unsaved,   \* ghost: accepted statuses whose record the database lost
  open       \* statuses of targets that are posted while their post is not

importVars == <<today, wall, kept, monitor, import, accepted, request, excused, fresh, unsaved, open>>

Never == 0
Statuses == DOMAIN wall
\* The identifiers a feed shows for a status, and those a publish answer may hold.
FeedIds == {"id", "url", "uri"}
AnswerIds == {FeedIds, {"url"}}
Idle == [stage |-> "idle"]
NoRequest == [stage |-> "none"]
Running(r) == import[r].stage # "idle"

ImportInit ==
  /\ today = 1 /\ request = NoRequest
  /\ \E a, b \in Walls: wall = <<[acct |-> a, at |-> 1, by |-> "goloom"], [acct |-> b, at |-> 1, by |-> "outside"]>>
  \* a row written before remote_post_id was a column knows its URL only
  /\ kept = {[status |-> 1, source |-> "goloom", ids |-> {"url"}]}
  /\ monitor = [enabled |-> TRUE, backfilled |-> FALSE, lastSync |-> Never]
  /\ import = [r \in Replicas |-> Idle]
  /\ accepted = {} /\ excused = {} /\ fresh = {} /\ unsaved = {}
  /\ open \in SUBSET {1}      \* another target of its post may have failed

(* The world: time passes, people write on the provider's own pages. *)
PassTime == today < MaxNow /\ today' = today + 1
            /\ UNCHANGED <<wall, kept, monitor, import, accepted, request, excused, fresh, unsaved, open>>

WriteOutside(a) ==
  /\ Len(wall) < MaxStatuses
  /\ wall' = Append(wall, [acct |-> a, at |-> today, by |-> "outside"])
  /\ UNCHANGED <<today, kept, monitor, import, accepted, request, excused, fresh, unsaved, open>>

(* CollectAuthorPostIdentifiers: what may name the same status on both sides. *)
OverlapById(row, s, ids) == row.status = s /\ "id" \in row.ids \cap ids
AuthorPostIdentifiersOverlap(row, s, ids) == row.status = s /\ row.ids \cap ids # {}

AuthorPostAlreadyTracked(s) == \E row \in kept: AuthorPostIdentifiersOverlap(row, s, FeedIds)

(* ux_post_targets_account_remote_post: one row per account and remote id. *)
UniqueIndexAllows(s, ids) == "id" \in ids => \A row \in kept: row.status = s => "id" \notin row.ids

\* Ghost bookkeeping: what a round could not take, or was not to take.
Excuse(S) == excused \cup {s \in S: wall[s].by = "outside" /\ \A row \in kept: row.status # s}

(* The publisher: the provider takes the post first, persistTargetOutcome     *)
(* writes the target afterwards; the row is posted only if that write succeeds.*)
PublishAccepted(a) ==
  /\ Len(wall) < MaxStatuses
  /\ wall' = Append(wall, [acct |-> a, at |-> today, by |-> "goloom"])
  /\ accepted' = accepted \cup {Len(wall) + 1}
  /\ UNCHANGED <<today, kept, monitor, import, request, excused, fresh, unsaved, open>>

RecordPublished(s, ids) ==
  /\ s \in accepted
  /\ accepted' = accepted \ {s}
  /\ IF UniqueIndexAllows(s, ids)
     THEN /\ kept' = kept \cup {[status |-> s, source |-> "goloom", ids |-> ids]}
          /\ fresh' = fresh \cup {s} /\ open' = open \cup {s}
     ELSE UNCHANGED <<kept, fresh, open>>
  /\ UNCHANGED <<today, wall, monitor, import, request, excused, unsaved>>

RecordLost(s) ==
  /\ s \in accepted
  /\ accepted' = accepted \ {s} /\ unsaved' = unsaved \cup {s}
  /\ UNCHANGED <<today, wall, kept, monitor, import, request, excused, fresh, open>>

(* MarkPostResult, after the last target and only if none failed: the post of *)
(* the row is posted, too. It stays open when another target failed, when the *)
(* write is lost or the process stops first.                                  *)
PostIsPosted(s) ==
  /\ s \in open
  /\ open' = open \ {s} /\ fresh' = fresh \cup {s}
  /\ UNCHANGED <<today, wall, kept, monitor, import, accepted, request, excused, unsaved>>

(* A round in progress. *)
Round(mode, since, accts) ==
  [stage |-> "accounts", mode |-> mode, now |-> IF mode = "sync" THEN today ELSE 0, since |-> since, from |-> since, done |-> FALSE,
   todo |-> accts, post |-> 0, batch |-> {}, page |-> {}, asked |-> 0, got |-> 0, before |-> 0]

(* ListTeamsWithExternalPostMonitorEnabled hands the settings to the round,   *)
(* which takes its now and its since before anything else. done keeps whether *)
(* the backfill was done according to those settings.                         *)
importExternalPostsForTeam(r) ==
  /\ ~Running(r) /\ monitor.enabled
  /\ LET incremental == monitor.backfilled /\ monitor.lastSync # Never
         since == IF incremental THEN monitor.lastSync ELSE Max({0, today - Horizon})
     IN /\ import' = [import EXCEPT ![r] = [Round("sync", since, Walls) EXCEPT !.stage = "cleanup", !.done = monitor.backfilled]]
        /\ excused' = Excuse({s \in Statuses: ~incremental /\ wall[s].at < since})
  /\ UNCHANGED <<today, wall, kept, monitor, accepted, request, fresh, unsaved, open>>

(* RedundantImportedPostIDs: imported rows that a row of goloom's own covers; *)
(* only rows of posts that are posted are looked at.                          *)
RedundantImportedPostIDs ==
  {row \in kept: /\ row.source = "imported"
                 /\ \E own \in kept: /\ own.source # "imported" /\ own.status \notin open
                                    /\ AuthorPostIdentifiersOverlap(own, row.status, row.ids)}

(* No owner, or no account list: the round ends without moving last_sync_at. *)
teamOwnerUserID(round, found) == IF found THEN [round EXCEPT !.stage = "accounts"] ELSE Idle

DeleteRedundantImportedPosts(r) ==
  /\ import[r].stage = "cleanup"
  /\ \E found \in BOOLEAN: import' = [import EXCEPT ![r] = teamOwnerUserID(import[r], found)]
  /\ \/ /\ kept' = kept \ RedundantImportedPostIDs
        /\ fresh' = fresh \cap {import[q].post: q \in {x \in Replicas: import[x].stage = "create"}}
     \/ UNCHANGED <<kept, fresh>>               \* the transaction failed: logged only
  /\ UNCHANGED <<today, wall, monitor, accepted, request, excused, unsaved, open>>

OnWall(a) == {s \in Statuses: wall[s].acct = a}
Newest(S, n) == {s \in S: Cardinality({t \in S: t > s}) < n}

(* ListAuthorPosts: the newest statuses, at most limit of them, and of those  *)
(* the ones not before since. There is no cursor into older pages.            *)
ListAuthorPosts(a, since, limit) == {s \in Newest(OnWall(a), limit): wall[s].at >= since}

\* Between two accounts: nothing of the last feed is left.
AtAccounts(r, mode) == import[r].stage = "accounts" /\ import[r].mode = mode /\ import[r].batch = {} /\ import[r].page = {}

(* One account of a round: an unsupported provider, a token that cannot be    *)
(* read and a failed request all skip it, and the round goes on.              *)
importExternalPostsForAccount(r, a) ==
  /\ AtAccounts(r, "sync") /\ a \in import[r].todo
  /\ \/ /\ import' = [import EXCEPT ![r].todo = @ \ {a},
                                    ![r].batch = ListAuthorPosts(a, import[r].since, FeedLimit)]
        /\ excused' = Excuse(OnWall(a) \ Newest(OnWall(a), FeedLimit))
     \/ /\ import' = [import EXCEPT ![r].todo = @ \ {a}]
        /\ excused' = Excuse(OnWall(a))
  /\ UNCHANGED <<today, wall, kept, monitor, accepted, request, fresh, unsaved, open>>

Missed(r, s) == IF import[r].mode = "sync" THEN Excuse({s}) ELSE excused

(* The feed is walked newest first: a status that is tracked, or whose lookup *)
(* fails, is passed over; the others are created in a step of their own.      *)
ImportOnePost(r) ==
  /\ import[r].stage = "accounts" /\ import[r].batch # {}
  /\ LET s == Max(import[r].batch)
     IN \/ /\ AuthorPostAlreadyTracked(s)
           /\ import' = [import EXCEPT ![r].batch = @ \ {s}] /\ UNCHANGED excused
        \/ /\ ~AuthorPostAlreadyTracked(s)
           /\ import' = [import EXCEPT ![r].batch = @ \ {s}, ![r].post = s, ![r].stage = "create"] /\ UNCHANGED excused
        \/ /\ import' = [import EXCEPT ![r].batch = @ \ {s}]      \* the dedup query failed
           /\ excused' = Missed(r, s)
  /\ UNCHANGED <<today, wall, kept, monitor, accepted, request, fresh, unsaved, open>>

(* CreateImportedPost and its audit event are one transaction; the unique     *)
(* index refuses what another writer took in the meantime.                    *)
CreateImportedPost(r) ==
  /\ import[r].stage = "create"
  /\ LET s == import[r].post
         back(n) == [import EXCEPT ![r].stage = "accounts", ![r].post = 0, ![r].got = @ + n]
     IN \/ /\ UniqueIndexAllows(s, FeedIds) /\ import' = back(1)
           /\ kept' = kept \cup {[status |-> s, source |-> "imported", ids |-> FeedIds]} /\ excused' = excused \ {s}
        \/ ~UniqueIndexAllows(s, FeedIds) /\ import' = back(0) /\ UNCHANGED <<kept, excused>>
        \/ import' = back(0) /\ excused' = Missed(r, s) /\ UNCHANGED kept
  /\ UNCHANGED <<today, wall, monitor, accepted, request, fresh, unsaved, open>>

(* UpdateExternalPostMonitorSyncState reads the row and writes it back; the   *)
(* time written is the one taken when the round began.                        *)
SyncTimeAtEnd(r) == today
SyncTime(r) == import[r].now

ReadSyncState(r) ==
  /\ AtAccounts(r, "sync") /\ import[r].todo = {}
  /\ import' = [import EXCEPT ![r].stage = "save", ![r].done = monitor.backfilled \/ ~@]
  /\ UNCHANGED <<today, wall, kept, monitor, accepted, request, excused, fresh, unsaved, open>>

UpdateExternalPostMonitorSyncState(r) ==
  /\ import[r].stage = "save"
  /\ \/ monitor' = [monitor EXCEPT !.lastSync = SyncTime(r), !.backfilled = import[r].done]
     \/ UNCHANGED monitor                       \* the update failed: logged only
  /\ import' = [import EXCEPT ![r] = Idle]
  /\ UNCHANGED <<today, wall, kept, accepted, request, excused, fresh, unsaved, open>>

(* The manual import of old posts, of chosen accounts back to a chosen day.   *)
ImportOldPosts(r, accts, since) ==
  /\ ~Running(r)
  /\ import' = [import EXCEPT ![r] = Round("old", since, accts)]
  /\ UNCHANGED <<today, wall, kept, monitor, accepted, request, excused, fresh, unsaved, open>>

(* Fetch a page: what is left of the limit, at most a page. *)
OldPage(r, a, since, got) ==
  LET asked == Min({FeedLimit, OldLimit - got})
      page == ListAuthorPosts(a, since, asked)
  IN [import[r] EXCEPT !.todo = @ \ {a}, !.since = since, !.batch = page, !.page = page,
                       !.asked = asked, !.got = got, !.before = got]

importOldPostsForAccount(r, a) ==
  /\ AtAccounts(r, "old") /\ a \in import[r].todo
  /\ \/ import' = [import EXCEPT ![r] = OldPage(r, a, import[r].from, 0)]
     \/ import' = [import EXCEPT ![r].todo = @ \ {a}]
  /\ UNCHANGED <<today, wall, kept, monitor, accepted, request, excused, fresh, unsaved, open>>

(* A page is done: an empty or short page, a page without news or the limit   *)
(* ends the account; else the next page begins before the oldest of this one. *)
OldPageDone(r) ==
  /\ import[r].stage = "accounts" /\ import[r].batch = {} /\ import[r].page # {}
  /\ LET now == import[r]
         last == \/ Cardinality(now.page) < now.asked
                 \/ now.got = now.before \/ now.got >= OldLimit
     IN \/ import' = [import EXCEPT ![r].page = {}]     \* the last page, or the next fetch fails
        \/ /\ ~last
           /\ LET oldest == Min(now.page)
              IN import' = [import EXCEPT ![r] = OldPage(r, wall[oldest].acct, Max({0, wall[oldest].at - 1}), now.got)]
  /\ UNCHANGED <<today, wall, kept, monitor, accepted, request, excused, fresh, unsaved, open>>

OldPostsDone(r) ==
  /\ AtAccounts(r, "old") /\ import[r].todo = {}
  /\ import' = [import EXCEPT ![r] = Idle]
  /\ UNCHANGED <<today, wall, kept, monitor, accepted, request, excused, fresh, unsaved, open>>

(* A process stops between any two steps; the loop starts over. *)
CrashImport(r) ==
  /\ Running(r)
  /\ import' = [import EXCEPT ![r] = Idle]
  /\ UNCHANGED <<today, wall, kept, monitor, accepted, request, excused, fresh, unsaved, open>>

(* handleUpsertExternalPostMonitor: the row is read, then written as a whole; *)
(* turning the monitor on again forgets that the backfill was done.           *)
UpsertRead(on) ==
  /\ request.stage = "none"
  /\ request' = [stage |-> "read", on |-> on, old |-> monitor]
  /\ UNCHANGED <<today, wall, kept, monitor, import, accepted, excused, fresh, unsaved, open>>

UpsertExternalPostMonitorSettings ==
  /\ request.stage = "read"
  /\ monitor' = [request.old EXCEPT !.enabled = request.on,
                   !.backfilled = @ /\ ~(request.on /\ ~request.old.enabled)]
  /\ request' = NoRequest
  /\ UNCHANGED <<today, wall, kept, import, accepted, excused, fresh, unsaved, open>>

RoundStep(r) ==
  \/ importExternalPostsForTeam(r) \/ DeleteRedundantImportedPosts(r)
  \/ \E a \in Walls: importExternalPostsForAccount(r, a) \/ importOldPostsForAccount(r, a)
  \/ ImportOnePost(r) \/ CreateImportedPost(r) \/ ReadSyncState(r) \/ UpdateExternalPostMonitorSyncState(r)
  \/ \E accts \in SUBSET Walls \ {{}}, since \in {0}: ImportOldPosts(r, accts, since)
  \/ OldPageDone(r) \/ OldPostsDone(r) \/ CrashImport(r)

ImportNext ==
  \/ \E r \in Replicas: RoundStep(r)
  \/ PassTime
  \/ \E a \in Walls: WriteOutside(a) \/ PublishAccepted(a)
  \/ \E s \in open: PostIsPosted(s)
  \/ \E s \in accepted: RecordLost(s) \/ \E ids \in AnswerIds: RecordPublished(s, ids)
  \/ \E on \in BOOLEAN: UpsertRead(on)
  \/ UpsertExternalPostMonitorSettings

ImportSpec == ImportInit /\ [][ImportNext]_importVars
Tracked(s) == \E row \in kept: row.status = s

(* Every status written outside goloom before the time the next round starts  *)
(* from is among the posts, unless a round met it and failed, the feed was too *)
(* short to show it or it was older than the backfill: no interleaving of     *)
(* rounds, settings requests and crashes opens a gap between two windows      *)
(* (importExternalPostsForTeam takes now before it reads a feed). And a       *)
(* status goloom published itself has an imported copy beside it only while   *)
(* the publisher is at work: until its post is posted, in all its targets, and *)
(* a clean-up ran afterwards, which takes the copy out                        *)
(* (DeleteRedundantImportedPosts); an import that finds the row by any of its  *)
(* identifiers makes no copy (AuthorPostAlreadyTracked). The copy of a status  *)
(* whose post failed elsewhere stays as long as the post is not posted.       *)
ImportIsWhole ==
  /\ monitor.backfilled =>
       \A s \in Statuses: wall[s].at < monitor.lastSync /\ wall[s].by = "outside" => Tracked(s) \/ s \in excused
  /\ \A row, own \in kept: row.status = own.status /\ row # own => row.status \in fresh \cup open

(* ExternalPostMonitorSettings imports "posts published outside goloom": a    *)
(* post the provider accepted from goloom, and whose record no failure lost,  *)
(* has a row of its own (persistTargetOutcome).                               *)
PublicationRecorded ==
  \A s \in Statuses \ (accepted \cup unsaved):
    wall[s].by = "goloom" => \E row \in kept: row.status = s /\ row.source = "goloom"
=============================================================================
