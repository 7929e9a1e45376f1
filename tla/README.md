# A TLA+ model of goloom

goloom schedules posts for social media accounts and publishes them when they
are due. Posts come from people, from RSS feeds, from recurring templates, from AI
jobs and from an assistant. Several replicas of the server may share one database
(Postgres), or one process owns it (SQLite). This directory holds TLA+ modules for the
parts of the server where goroutines, replicas, requests, crashes and lost answers
meet, the TLC configurations that check them on small instances, and TLAPS proofs of
the properties that matter most for instances of any size.

## 1. Inventory

Each part is listed with the state it keeps, its operations and what makes it
correct. `PROJECT.json` has the same list with sources and status.

**Publication pipeline** (`internal/scheduler/scheduler.go`, `internal/store`,
`api/http.go`). State: rows of `scheduled_posts` (status, `attempt_count`,
`scheduled_at`) and of `scheduled_post_targets` (one status per account), the poll
loop's list, the queue channel, the local state of every worker. Operations: the
loop drains the audit outbox, lists due posts, marks each one `processing` and
queues it; a worker resolves and loads the targets, and for each one claims it,
prepares it, calls the provider, persists the outcome, and in the end writes the
result of the post. Requests create, patch, review, cancel, delete and retry posts
and disconnect accounts at any moment in between. Correct means: a remote account
shows a post at most once; a post is in the hands of one worker; post status and
target rows agree; a due post is settled.

**Audit outbox** (`internal/store/sqlite/audit_outbox.go`, `scheduler/audit.go`).
State: `audit_pending`, `audit_events`. An outcome and its event are one
transaction; the loop and the workers move events to the log. Correct means: no
publication without evidence that precedes it, no event lost or delivered twice,
one outcome per attempt.

**Audit transactions and after-commit hooks** (`store/sqlite/transaction.go`,
`store/txcontext`, `api/audit_transaction.go`). State: the open transaction with its
savepoints, a list of hooks per frame, the buffered response. Correct means: a request
happens all or not at all, its evidence included; a hook runs only for work that was
committed; who is told "ok" finds everything done.

**AI jobs** (`internal/aijobs/manager.go`, `api/ai_callback.go`,
`api/ai_cancel.go`). State: rows of `ai_jobs`; in the memory of one replica a
goroutine, a slot and a cancel function per job. Operations: submit, start after
the commit, wait for a slot, mark, run, complete with side effects (a post, a
fallback post, an RSS item handed back), cancel, recover the jobs of dead
processes. Correct means: one terminal status, agreeing with the audit trail and
with the post that was or was not created; recovery touches only dead jobs; every
job ends.

**RSS import** (`scheduler/rss_import.go`, `rss_ai.go`, `store/sqlite/rss_import.go`,
`api/rss_automation_callback.go`). State: a row of `rss_imported_items` per feed
item (attempts, a reservation that expires, the post), the feed's counter and last
fetch, a daily budget counted by query. Correct means: one post per item, an item with
an unfinished job is left alone, budget and attempt limit hold with several polls at
once, the backlog stays out and new items come in.

**Templates and recurring automation** (`scheduler/template_*.go`, `recurring_ai.go`,
`store/sqlite/post_templates.go`, `api/post_templates.go`). State: the cursor
`next_materialize_at`, two counters, skips and shifts, the posts of each round and the
jobs that stand for one. Correct means: a round has one live post of each role, edition
numbers are handed on and never used twice, a skipped round stays skipped, and the
cursor passes no round over.

**External post import** (`scheduler/external_post_import.go`,
`store/sqlite/external_post_monitor.go`, `postdedup`). State: rows of posted targets,
`last_sync_at`, the backfill flag. Correct means: nothing written outside is missed
between two windows, nothing goloom published stays twice once its post is posted.

**Metrics and analytics** (`scheduler.go`, `metrics_sync.go`, `account_metrics.go`,
`analytics_aggregation.go`, `engagement_hours.go`, `seriesfill`). State: current values,
daily histories, a cursor per target, two mutexes. Correct means: no older reading
replaces a newer one while rounds take turns, a chart ends at the number its row shows, and
all reports add up to the same numbers over the same window.

**Work beside the database.** *Provider adapters* (`internal/provider`): an answer tells what
the provider did. *Media library* (`api/media_upload.go`, `store/media_storage.go`): an item
has its file, a publication goes out with the media it names, in their order, each uploaded
for its own account. *Live events* (`internal/sse`): no send on a closed channel, no client
that silently missed something. *Web push* (`internal/push`): a device is addressed with the
key it subscribed with and for the person who holds it, or held it when the notification was
listed. *AI engine* (`internal/ai`): a draft fits the accounts it is for. *Reply threads*
(`api/post_thread*.go`): an answer is complete or says that it is not, and is not too old.
*Token refresh* (`internal/socialtokens`): an account stays connected while its refresh token
rotates. *Log sink* (`internal/logging`): a record is stored once, in order.

**Access** (`internal/auth`, `api/token_route_policy.go`, `api/user_api_tokens.go`,
`api/oidc_login.go`, `api/oauth.go`, `store/sqlite/personal.go`). State: tokens and
sessions, logins under way, roles, invitations, accounts and their teams. Correct means:
a token never gains authority from the token it came from, a login makes one session for
the person who signed in, however long the provider takes, posts and accounts stay in one team.

**Agent tools** (`internal/agenttools`, `api/ai_chat.go`, `internal/mcp`). State: the
conversation, the call that waits for consent. Correct means: scope and role are those of
the moment of the call, and nothing but drafts changes without consent.

**Database upgrade** (`store/sqlite/personal.go`). State: the shape of the tables and
the legacy rows. Correct means: a start that was stopped at any statement and repeated
leaves what an uninterrupted one would, and what an upgrade loses is known.

**Not modelled**: rate limiter, encryption, CORS and release checker (library code or one
lock around one value), the frontend, website and deployment; see section 6.

Interactions: requests and the scheduler share rows and nothing else; the scheduler
submits AI jobs for feeds and templates; the completion of a job creates posts, which
the pipeline publishes; a publication refreshes tokens, uploads media and leaves rows the
import and the metrics read; all of them write audit events inside the transaction of
what they did, and start the rest by after-commit hooks.

Hard behaviours: a provider call outside any transaction; marks in the database for
work that lives in memory; snapshots that are old when they are used; writes by id
at the end of long work; a sweep that infers death from age; conditional updates as
the only mutual exclusion between replicas; side effects that must wait for a commit.
The list with line numbers is `hazards` in `PROJECT.json`.

## 2. Modules

| module | models | used by |
|---|---|---|
| `PostPublication` | pipeline, outbox and the requests that change posts | `MCPostPublication`, `PostPublicationProofs`, `PublicationSafetyProofs`, `AuditEvidenceProofs` |
| `AIJobs` | AI jobs | `MCAIJobs`, `AIJobsProofs` |
| `RSSImport` | the import of one RSS feed | `MCRSSImport`, `AutomationProofs` |
| `PostTemplates` | one recurring template | `MCPostTemplates`, `AutomationProofs` |
| `AtomicWork` | abstract: what an audited request promises | `Transactions` |
| `Transactions` | the audit transaction, savepoints and hooks | `MCAccess`, `AccessProofs` |
| `Authority` | scopes and the routes of tokens, as operators | `AccessTokens`, `TeamAccess`, `AgentTools` |
| `AccessTokens` | tokens, sessions, OIDC logins | `MCAccess`, `AccessProofs` |
| `TeamAccess` | roles, invitations, accounts and the posts that go to them | `MCAccess`, `AccessProofs` |
| `ProviderCalls` | one call of a provider adapter | `MCDelivery`, `DeliveryProofs` |
| `MediaLibrary` | media, files, uploads to accounts | `MCDelivery`, `DeliveryProofs` |
| `LiveEvents` | the event hub and its streams | `MCDelivery`, `DeliveryProofs` |
| `WebPush` | keys, devices and notifications | `MCDelivery`, `DeliveryProofs` |
| `VoiceEngine` | generation of texts that must fit | `MCDelivery`, `DeliveryProofs` |
| `ReplyThreads` | the thread cache and its shared fetch | `MCDelivery`, `DeliveryProofs` |
| `AccountTokens` | OAuth tokens of an account that rotate | `MCDelivery`, `DeliveryProofs` |
| `LogSink` | the log handler that writes to the database | `MCDelivery`, `DeliveryProofs` |
| `ExternalImport` | posts written outside goloom | `MCInsight`, `InsightProofs` |
| `Metrics` | readings, histories and reports | `MCInsight`, `InsightProofs` |
| `AgentTools` | the assistant's tools, chat, consent, MCP | `MCInsight`, `InsightProofs` |
| `Upgrade` | a start on an older SQLite database | `MCInsight`, `InsightProofs` |

### PostPublication

One step per store call, so that everything another goroutine, replica or request
does between two calls is explored. `status`, `attempts`, `due`, `target` and
`accounts` are the rows; `due` keeps of `scheduled_at` only whether it has passed,
which is all the code compares it with. `loop`, `dueList`, `queue` and `worker` are
memory and are lost in `Crash`. A worker's `job` is the snapshot the poll took: old
attempts, old targets. `claims` and `accepted` are history: the attempts that were
opened and what the remote account really shows. `Publish` may be accepted although
the worker sees an error (`PublishResults`).

On SQLite a PATCH is one immediate transaction (`UpdatePost`). On Postgres the
handler reads, `PatchScheduledPost` reads again and then writes, under read
committed: `CheckUpdate`, `ReadUpdate`, `WriteUpdate`. The merge of a patch
(`MergedDraft`, `MergedFuture`) and `ResolvePostStatusOnUpdate` are operators.
Media, text, versions and the wording of errors are left out: no property depends
on them.

### AIJobs

`row`, `kind` and `age` are the rows; `task` is the goroutine of a job with its
replica, deadline, slot and cancellation. `CompleteAIJob` is one transaction whose
possible results depend on the kind of the job (`Results`); the savepoint that
rolls a failed side effect back is the reason why a failed job has no post.
`Launch` and `AbortJob` are after-commit hooks. Time passes in ticks. A tick is
longer than the scheduling delays of a healthy process: it waits for whatever a
goroutine does at once (`Prompt`). `RunJob` honours its deadline `RunLimit` (10
minutes), and a final write with a context of its own ends within the margin of 2
minutes that `StaleAfter` adds. `RecoverInterrupted` is two steps, list and
complete, because a job can change in between. `RecoverInterrupted` lists at most 1000
jobs; the sweep is repeated, so the limit is not modelled.

### RSSImport

One feed. `item` are the rows of `rss_imported_items`; of `created_at` and
`budget_date` only what the queries compare is kept: younger than fifteen minutes,
today. `poll` is the memory of a poll: whether the feed it listed had been fetched
before, what it fetched, what is left. The treatment of one item is one step, because
it is one transaction under the lock of the feed's row; between two items, and between
the listing, the fetch and the record of the fetch, other polls, jobs, requests and
crashes happen. `Eligible`, `Claimable`, `Claimed`, `Linked`, `Released` and
`RecordRSSImportedItem` are the queries, one operator each. An AI job is what the
item sees of it: unfinished, then ended once, which is what `TerminalIsFinal` of
`AIJobs` establishes. `online` is the remote feed (external). `posts`, `tries` and
`backlog` are history. Left out: rendering of templates, article enrichment (network
reads before the transaction; the checks are repeated inside), the lookback window
(every item of the model is within it) and the editing of a feed while it is polled.

### PostTemplates

One template, its rounds on a line of slots. Every change is a transaction that holds
the lock of the template's row (`LockAutomationSource`); an action computes on the
record `[tmpl, posts, jobs]` of what its transaction reads and writes, and on an error
leaves all of it. What is not one transaction is interleaved: a poll lists the templates,
then walks one occurrence per step with the row it read before; jobs end between two
steps; requests arrive anywhere. `Once` materializes a round if `Has` finds neither post
nor job of the role; `TearDown` is what skip and shift do to the rounds from an occurrence on;
`cancelPendingRecurringAIJobs` completes jobs, and a job that was complete by then is not
touched. `since`, `removed` and `gaps` are history: the slot the cursor was last set from;
whether an editor removed a post by hand, after which numbering starts from what is left;
and whether rounds may be missing before numbered ones, after another rule or a horizon made
again without its earliest jobs. `Undisturbed` is a template nothing of this happened to, and
whose posts tell the numbers of its rounds (`PostsTellNumbers`).

### Access: Authority, AccessTokens, TeamAccess

`Authority` translates `ScopeSatisfied`, `tokenRouteAllows` and `PrincipalCanManageAPIToken`;
`Power` is the set of things a principal may do, the measure `DelegationNarrows` compares.
In `AccessTokens` a request is `LookupAPIToken` (one step), the renewal of a session (a
second statement, so another request may revoke it in between) and the handler; a token
remembers the tokens it descends from (`line`, history). A login is the signed state the
browser holds, the provider's code and the callback, in any order and number. A callback is
four steps: the age of the state is compared on arrival (`handleOIDCLoginCallback`); the
exchange with the provider, the user and the session follow, each when the one before has
answered, and any of them may fail (`redirectOIDCLoginFailure`). Time passes and other
callbacks of the same login run in between. In
`TeamAccess` requests act with a key whose role is checked when they act, except those
that call a provider in between (`StartConnect`, the OAuth callback, `StartDisconnect`),
which finish in a later step with what they checked. `MigrateAccountToTeam` refuses
posts with several targets; it is one step on SQLite.

### Transactions and AtomicWork

A *step* is a write with its audit event and the side effect that goes with it. `level`
says which frame (transaction, or savepoint in it) holds the write, `hook` which frame's
list holds the side effect. Closing a frame moves what it holds outwards (`Release`) or undoes it
(`Rollback`); a release that fails keeps the writes, loses the hooks and dooms the
transaction (`ReleaseFails`); a context that ends is refused at the commit. `CrashTx` may
come anywhere. `AtomicWork` knows none of this: work takes effect at one instant on what
is stored then, side effects follow, a crash may lose them, and who is told "ok" finds it
all done. `RequestsAreAtomic` is the refinement: what a request read (`seen`) is still
what is stored when it commits, and the effects owed are those that are running or not
yet registered.

### Delivery: eight small modules

`ProviderCalls`: every adapter call is a script of HTTP requests (`MastodonPublish`,
`BlueskyUpload`, ...), run by one machine that sends, retries after 429 with the
back-off of `doRequestWithRetry`, polls an upload and classifies the answer
(`publicationHTTPError`). What the provider did and what it answered are chosen apart
(`Effects`, `AnswersTo`, external). The body is one reader: a retry is sent without it.

`MediaLibrary`: rows, files by hash, and the ids an upload got at an account. Upload,
deletion and synchronisation are steps per call. A worker takes the ids of a post in their
order, and for each one reads the row (`saw` is the content it read), the mapping of the
account, and uploads when there is none. A read that fails takes the path the code takes: an
item that cannot be read goes out under its own id, a mapping that cannot be read leads to
another upload. `dropped` names the contents whose deletion overlapped an upload, the one
case in which a file can be missing.

`LiveEvents`: clients with a bounded channel, the hub's set, publishers and heartbeats
that hold the read lock while they send (`Readers`), and closing, which waits for them.

`WebPush`: the key in the environment, the stored one and the process's, devices,
subscription rows, preferences, and a batch whose targets are read once and delivered one by
one. `ensureKeys` prefers the environment, and gives up when the read or the write fails; the
next process may have another environment. A message is judged when it goes out (`deliver`):
against the key of the device, and against the person who has the device by then. `moved`
are the devices that were registered since the rows were listed. One replica.

`VoiceEngine`: a text is its length. The first answer, corrections, compression per
account, hashtags, and the token budget that all jobs of a process share.

`ReplyThreads`: the lookup, the turn in the shared call, the second lookup (`LookupAgain`),
the fetch, the store with its sweep and bound, and time. A thread grows meanwhile.

`AccountTokens`: an instance that rotates or does not rotate refresh tokens, workers that
refresh from a snapshot, the save, and `UpdateAccount`, which reads and writes a whole row.
`SerialWrites` is SQLite; on Postgres the read and the write are apart.

`LogSink`: the channel, the batch, a flush that fails half way and is not repeated, `Close`,
archiving and pruning; `table` is a set of rows, and `inserts` notes their order.

### Insight: four modules

`ExternalImport`: walls of statuses, rows of posted targets with the identifiers a status
has on either side, `last_sync_at`; a round takes the time, reads each account's feed and
imports post by post, while the publisher records what was accepted, settings are
changed, old posts are fetched and the process stops. The publisher records a target first and
its post later, or never (`open`, `PostIsPosted`): the clean-up looks at rows of posts that
are posted only.

`Metrics`: rounds that hold a mutex, readings that do not (`Direct`), values a provider
shows now and at the time of the reading, histories per day, and the reports as operators
that are compared with each other. A reading is recorded under the day its code names: the
day an account round began, the day an imported post was published, else the day of the
write. A post has a target per account and becomes posted after them (`PostResult`); all
reports count posted posts, some only from a time on (`since`), charts only the last `days`.

`AgentTools`: the catalog with scopes, confirmation rules and transports; the chat calls
`confirmModifyPost` and then the tool, each reading the post for itself.

`Upgrade`: each statement of `applySQLiteLegacyMigrations` that a later one depends on is
a step; `Stop` may come between any two; the rows of feeds and jobs change while the
program serves. The columns added to the posts table are five groups in the order of their
releases, and an older database has a first part of that list; each group is missing, there
and empty, or filled with what the earlier release wrote (`given` remembers which were). A
rebuild copies some and drops the others. Two templates may announce the same one. Left out:
a template that both announces and is announced.

### Composition

Components are composed where they share state: the pipeline, the outbox and the
requests in `PostPublication`; jobs, completion and posts in `AIJobs`; an item, its job and
its post in `RSSImport`; a round, its jobs and posts in `PostTemplates`; the publisher and
the import in `ExternalImport`; tokens, routes and scopes in `AccessTokens`, `TeamAccess`
and `AgentTools` over `Authority`. `MCAccess`, `MCDelivery` and `MCInsight` are not
compositions: they put modules that share nothing side by side as *scenes*. The scene is
chosen in the initial state and only its module moves, so the states add up instead of
multiplying and one configuration holds the bounds of all.


## 3. Runs

All bounds are constants of the configurations.

| run | properties | instance |
|---|---|---|
| `pub_sqlite` | `AtMostOnce`, `ExclusiveClaim`, `StatusMatchesTargets`, `EvidenceFirst`, `OneOutcomePerTry`, `DeliveryExactlyOnce` | one process, two workers, one post, two accounts, two requests of every sort but naming targets again, database, provider and crash faults |
| `pub_replicas` | `NoConcurrentPublication` | two replicas on Postgres, one PATCH in flight, cancel, delete, provider and crash faults |
| `pub_liveness` | `RetryBudget`, `DuePostSettles`, `EvidenceDelivered` | two posts, one worker, queue of one, drains of one event, a reschedule, failing provider; the process stops at any step and the next one takes over the database; fair scheduling |
| `ai_jobs` | `OneOutcome`, `RecoversOnlyDead` | two replicas with a slot for every job, two jobs of every kind, two faults |
| `ai_ends` | `JobEnds`, `TerminalIsFinal` | two jobs, two replicas with one slot each, one fault anywhere, fair scheduling |
| `rss_items` | `OnePostPerItem`, `JobProtectsItem`, `BudgetHeld`, `AttemptsBounded`, `BacklogStaysOut` | two items, two polls, both modes of the first fetch, with and without AI, budget 1, two attempts, one fault anywhere |
| `templates` | `OneLivePerRole`, `EditionsKept`, `SkipHolds`, `RoundsAccounted` | one template with one or two roles, with and without AI, two polls, four time slots, two requests out of eleven sorts, a failing dispatch among them |
| `access` | `DelegationNarrows`, `LoginsHold`, `PostsFollowTheirAccount`, `BoundCallsStayHome`, `RequestsAreAtomic` | tokens: three tokens, three scope sets, three requests, two ticks; logins: two people, two flows, at most two callbacks at a time, one more tick; teams: two teams, two accounts, three changes; requests: three steps of one caller and one of another, three nested frames |
| `delivery` | `AnswersAreTrue`, `MediaIsWhole`, `StreamsEndCleanly`, `DevicesHearTheirOwn`, `DraftsFit`, `ThreadsTrue`, `StaysConnected`, `LogIsWhole` | eight scenes: two readers, senders, streams or workers where they race with each other; media: two uploads against one deletion and one publication of one or two items; push: two people, two devices, a pinned key or none, six changes |
| `insight` | `ImportIsWhole`, `NumbersAgree`, `AgentActsWithConsent`, `UpgradeLossesAreKnown` | import: three statuses on one wall, one replica with its round, settings and old posts; metrics: two posts of one account, two rounds, two days; agent: one note of either team, one turn; upgrade: two starts, two announcements of one template, two workspaces |

What is bounded, and why that is enough. *Posts.* One post suffices for the properties of a
post: posts share only the loop, the queue and the workers, and `pub_liveness` has two posts
and a queue of one for that. Two accounts give a post that is published on one and failed on
the other; two attempts a first try, a retry and exhaustion; two workers or replicas every
race the conditional updates decide; two requests (`MaxOps`) every pair of them around a
publication. *Jobs.* Three jobs and one slot (`ai_waiting`) are the least that let a job wait
for two others, which is what it takes to outlive the stale limit; `RunLimit` 1 and
`StaleAfter` 2 keep the order of the two limits, the only thing the code uses of them.
*Feeds.* Two items and a budget of one make the items compete for it. *Templates.* Four slots
hold a round before, at and after the one that is changed, with one of no round to shift into;
two requests make every pair of operations, with both polls between them. *Access.* A token,
its child and its grandchild are what delegation needs; two teams are home and elsewhere; with
three frames there is a savepoint inside a savepoint. *Delivery.* `RetryAfters` has an answer
below, inside and above the back-off limits; lengths of 60 to 130 lie on both sides of limits
of 90 and 100; buffers, caches and batches hold one or two, so that they fill up. *Insight.* A
feed of two statuses with three on the wall overflows; two ticks a day and a window of one day
let a reading cross midnight and leave the window; two starts are an interrupted and a
repeated one, and two announcements of one template can overwrite each other. Two callbacks of
a login are one that was sent again, or those of two logins, whose codes may be swapped.

`CHECK_DEADLOCK FALSE` stands where the bounded number of requests, or a clock that has
reached its end, lets the system stop.

Every property has a mutant in `PROJECT.json`: a slip in one mapped definition under which
the same configuration finds the property violated.

Two runs are expected to fail, each stating what a comment says:

| run | property | what happens |
|---|---|---|
| `pub_retarget` | `AtMostOnce` | naming the targets of a post again forgets what was published, and it is published twice |
| `ai_waiting` | `RecoversOnlyDead` | a job waiting for a slot is failed as interrupted |

Fairness. `FairSpec` has weak fairness of each poll loop, of each worker and of the passing of
`scheduled_at`; `JobsFairSpec` of each job's goroutine, of each replica's sweep and of time.
The Go runtime schedules runnable goroutines, tickers fire and the clock advances; nothing is
assumed of clients, and no fault has to happen or to stop, except that the number of faults is
bounded where the specification counts them. In `pub_liveness` the process may stop at any
step and any number of times. For `EvidenceDelivered` that is no obstacle: every process begins
with a drain. A post is settled once the stops come to an end, unless one of them has stranded it
(section 5). All other runs check safety and assume no
fairness.

## 4. Proofs

For every value of the constants that satisfies `ConstantsAssumption` (the set of workers
is finite, limits are positive), `JobsAssumption`, `RSSAssumption`,
`TransactionsAssumption` or the assumption of the small module concerned (the accounts of a
team are finite in `VoiceAssumption`, a start team is a team in `TeamAssumption`), all
evaluated by TLC in the runs. Where a theorem has a further hypothesis, the paragraph
says why it is needed.

* `TypesHold` (`PostPublicationProofs`): `Spec => []TypeOK`. The inductive
  invariant `TypeInv` adds `ShapeOK`, what a worker, loop or request at a given
  point has in its hands. `attempt_count` stays within the limit because a snapshot
  is taken only of posts with attempts left.
* `PublishedAtMostOnce`, `NeverConcurrent` (`PublicationSafetyProofs`): under
  `NoResets` (no administrator's retry, no PATCH that names the targets again) a
  post is shown at most once per account, and no two workers hold the same target,
  on either backend, with every fault. The invariant `ClaimInv`: a held target is
  `processing` and, before `Publish`, not published; what was accepted is
  `processing`, `posted` or without a row; a post that is not created is untouched.
  The post's own status plays no role, which is why stale PATCHes and overwritten
  statuses do no harm.
* `ClaimIsExclusive` (`PublicationSafetyProofs`): under `OnSQLite`, `ExclusiveClaim`, with
  any replicas, workers, faults and requests. The invariant `PlaceInv`: a post that
  was marked `processing` waits in one loop or one queue, or is with one worker
  (`OnePlace`), and while it is there its status is `processing`, `cancelled` or
  `deleted` (`HeldIsTaken`), because a PATCH is one transaction that refuses the first
  and `MarkPostResult` comes last. On Postgres a stale PATCH can make a held post due again,
  which `pub_replicas` allows for.
* `StatusTellsTruth`, `PublishedAtMostOnceDespiteRetry` (`PublicationSafetyProofs`): with
  `NoRetarget` added, `StatusMatchesTargets`, and from it at-most-once although failed
  posts are retried any number of times. `StatusInv` says what a worker knows of the rows
  of its post (`WorkerRows`: the accounts it is through with are settled as its counters
  say) and that a post with a target of unknown outcome is never taken again
  (`PostRows`). The retry resets only posts that are `failed`, so it meets no holder and
  nothing that may have been accepted; `ClaimInv` is preserved as before by every other
  step. `pub_retarget` shows that `NoRetarget` is needed.
* `BudgetIsKept` (`PublicationSafetyProofs`): `RetryBudget` for one replica on SQLite
  without the administrator's retry, which resets the count on purpose. `BudgetInv`: the
  snapshots on their way to a worker have the attempts of the row, and every claim is
  either counted in the row or the one its worker is about to count (`Spent`). With two
  replicas a list may be older than a whole attempt of the other, and the invariant is lost.
* `SettledOnce`, `DeliveredOnce` (`AuditEvidenceProofs`): with every request and
  fault, resets included. The invariant `TryInv`: events carry tries already
  opened, workers between claim and outcome hold different tries, their try has no
  outcome yet, pending and delivered events are disjoint.
* `EvidenceComesFirst` (`AuditEvidenceProofs`): with every request and fault,
  `accepted[p][a] <= claims[p][a]`, every opened try has its `publish_started`, and a
  posted row has its `publish_success`. A reset allows the next claim while an earlier
  worker is still publishing, so the first bound is not inductive: `Paid` counts the
  workers that may still be accepted, and says that what is accepted plus these is at
  most the claims. `FirstInv` is `TryInv` with `Paid`, `Known` (the evidence of each try)
  and `Covered` (a posted row); the steps of a worker are facts about the cardinality of
  that finite set, which is why `Workers` is assumed finite.
* `JobsTypesHold`, `JobHasOneOutcome`, `FirstTerminalStands` (`AIJobsProofs`): from
  `JobsInv`, the type invariant with the deadlines of the goroutines and the
  agreement of row, audit and posts.
* `RecoveryIsSafe` (`AIJobsProofs`): with `EnoughSlots`, a slot for every job, a job
  the sweep has listed and that is unfinished has no goroutine. The invariant
  `RecoveryInv` relates the age of a row to the time its goroutine has had
  (`LiveIsYoung`); `ai_waiting` shows what happens without the assumption.
* `RSSTypesHold`, `AttemptsHold`, `JobsProtectItems`, `OnePostHolds`, `BudgetIsHeld`,
  `BacklogIsSafe` (`AutomationProofs`): every safety invariant of the import, for any
  finite set of items and any number of polls. `ItemsInv` says what row, job and
  history of one item have to do with each other: an item with a post is consumed, the
  attempts of the row are the tries, an item with an unfinished job is a live
  reservation. From it `CounterInv` (the counter is the number of posts), the budget
  (whatever uses it is in the set the query counts, so a claim finds room for one
  more) and `BacklogInv` (a poll that believes the feed was fetched is right; before
  the first fetch nothing was tried; a first poll has marked what it is done with).
* `RolesAreUnique`, `SkipsStay` (`AutomationProofs`): `OneLivePerRole` for any rules, shifts,
  horizon and polls; `SkipHolds` under `ShiftsApart` (no round is shifted to the time of
  another; otherwise the shifted round rightly has its post at a time whose own round is
  skipped). `TemplateIInv` states both of the record a transaction works on
  (`RoundsSound`), and each function of the record keeps it: taking away
  cannot break it (`LiveTaken`), adding asks `Has` first (`LiveAdded`), a job hands its
  role to its post (`LivePassed`), and what is torn down at a skipped slot is not made again
  (`TearDownKeeps`, `SkipPendingKeeps`). A walk over the horizon is a recursive function of
  the slot; `HorizonKeeps` takes the least slot from which it could fail. `SkipsSound`
  says that a skipped slot is one of a rule, hence not a shifted round's.
* `NumbersAreKept`, `NoRoundIsPassed` (`AutomationProofs`): `EditionsKept` and
  `RoundsAccounted` for any rules, horizon, polls and requests, under `ShiftsInOrder`: the
  slots an editor may shift a round to keep the order of the rounds, and no round is put off
  beyond the first horizon. The run's constants satisfy it, and section 5 shows what happens
  without either half. Uniqueness of the numbers alone is not inductive. `EditionInv` says it
  of the `Ledger`, the pairs of slot and number of the main posts and jobs: numbers rise with
  the slots and stay below the counter (`NumbersRise`); each is at the place of a round within
  the horizon (`NumbersPlaced`); a round that may still be made has nothing behind it
  (`MissingAreLast`), which is why it may get the next number; and what the cursor has passed
  is made, or made next (`PassedAreMade`). An announcement has its main post (`Backed`), so
  the post that is torn down first tells the right number. `LedgerStep` is one round of a
  walk, `LedgerTorn` a tear-down with the counter set back, `LedgerAgain` the rounds made
  again after it, `LedgerMarked` a skip or shift, `LedgerSet` a cursor set by hand and
  `LedgerLater` the passing of time; one lemma for each action (`SkipNumbers`,
  `ShiftNumbers`, ...) applies them to the record its transaction computes. A poll works with
  an old horizon and an old cursor; `WalksWithin` bounds both.
* `DelegationHolds` (`AccessProofs`): for any sets of people, teams, scopes and
  tokens, in `TokensSpec`, a token is never worth more, nor lives longer, than any token it
  descends from. The invariant `TokenInv` says it of the rows (`RowsWithin`) and of the
  principals that requests in flight have resolved (`RequestsWithin`), whose own row
  may be gone by the time they create; `IncludesTransitive` is why it passes on to
  descendants.
* `SessionsAreTheirOwners` (`AccessProofs`): `LoginsHold`, for any number of logins and of
  callbacks in progress. `LoginInv` adds to `TokenInv` the states of a login and the mark a
  session keeps of its callback (`LoginsTyped`), and what a callback under way may rely on
  (`CallbacksHold`): it arrived in time, and past the exchange it is the only one of its
  login, which has no session yet. The theorem bounds the arrival of the callback, not the
  time of the session, which the code does not bound either. One lemma per stage
  (`ExchangeKeepsLogins`, ...); `LoginsKept` covers every step that touches no login.
* `PostsShareTheirTeam`, `BoundTokensStayHome` (`AccessProofs`): the properties are
  inductive together with `FlowsAtHome`: a request under way belongs to a caller whose
  token has no bound team or that of the request, so whatever it does when it is resumed
  it does at home.
* `TransactionsConsistent`, `RequestsImplementAtomicWork` (`AccessProofs`): the
  invariant `TxInv` (one transaction holds the write lock, what is open sits in a frame
  of its caller, a hook's work is in the same frame or, after a failed release, in a
  doomed one, only committed work is performed), and the refinement
  `TxSpec => Atomic!Spec`: each action is a step of `AtomicWork` or a stutter; `Commit`
  is where the work takes effect.

`DeliveryProofs` has one theorem for each module of the `delivery` scene:

* `StreamsEnd` (`LiveEvents`). `HubInv`: the sender that holds a client's lock holds it
  before the channel is closed (`SendersKnow`), an open client is in the hub, which has
  none once it is closed (`OpenIsRegistered`), and who missed an event is being closed.
* `DevicesHear` (`WebPush`). `PushInv`: a process works with the key of its environment or
  else with the one key that is ever stored, and every device has subscribed with that or with
  a pinned one (`OneKey`); the row of a device is its last registration (`RowsAreCurrent`); a
  batch under way keeps to that although rows change meanwhile, but for the devices that were
  registered since it was listed (`BatchIsSigned`). Nothing is claimed of a device whose
  installation got another pinned key, or none, after it subscribed.
* `StaysRefreshable` (`AccountTokens`), under `SerialWrites`: the transaction of
  `UpdateAccount` excludes other writers from its start, as SQLite's immediate
  transactions do. On Postgres it does not, and `StaysConnected` is violated there (section
  5). `AccountInv`: while the account is connected and nothing was lost, nobody holds a
  token the instance has not given (`NoneAhead`), the answer a worker has yet to save is
  accepted and, when tokens rotate, its alone (`AnswersAreNewest`), and an update has the
  tokens of the row (`PatchIsCurrent`).
* `MediaStaysWhole` (`MediaLibrary`). `MediaInv`: an upload that is past the disk has its file,
  a deletion that is past the row has the last row of its content, or the content is one
  whose deletion crossed an upload (`dropped`); a mapping leads to an upload of its item, with
  its content, for its account (`MappingsMatch`); the item a worker has read is as it was, or
  deleted (`ReadsHold`, for ids are not used again); and at each place a post being synchronised
  has such an upload of the item named there, or the id itself (`SyncRight`).
* `AnswersStayTrue` (`ProviderCalls`). `CallInv`: the step that posts a status comes last
  in its call (`StatusComesLast`), the other calls have none (`OthersAreQuiet`), and the
  polls of an upload end before the status (`UploadIsReady`), whatever their number.
* `ThreadsStayTrue` (`ReplyThreads`). `ThreadsInv`: entries and answers are what the
  thread was at their time (`EntriesTrue`, `ReadersTrue`), a fetch runs only for an expired
  entry, and the cache is a finite set within its bound; the eviction of the oldest entry
  needs `LargestMember`.
* `DraftsStayFit` (`VoiceEngine`). The lemmas follow a text through the code: a cut fits
  (`CutsFit`), the primary account has the largest limit (`PrimaryIsLargest`), what
  `normalizeMultiAccountResult` returns fits the accounts (`NormalFits`), completing it leaves
  nobody out (`FilledFits`) and is accepted where no long text is asked for
  (`FittingIsAccepted`), normalizing a checked result again takes nothing an account needs
  (`CheckedFits`), hashtags fit (`HashtagsFit`). `VoiceInv` adds `CorrectionsCount`: two
  corrections have found both parameters. The theorem is about the text that was checked; of
  the hashtags appended to it afterwards it says only that the primary account's limit holds.
* `LogStaysWhole` (`LogSink`): `LogIsWhole` for any capacity, batch and number of records.
  `LogIInv`: channel and bundle rise, every entry of the bundle is older than the channel's,
  and the rows are older than what this flush has not tried (`LogMovesInOrder`), and every
  record is in exactly one place (`RecordsAccounted`).
* `LargestMember`: a finite, non-empty set has a member with the largest value of a
  function, from the well-founded order of finite subsets; the `CHOOSE` of a largest or
  oldest element rests on it.

`InsightProofs` has the modules of the `insight` scene:

* `AgentHasConsent` (`AgentTools`): `AgentActsWithConsent` for any number of posts, teams, turns and
  days. `AgentIInv`: a post goes to accounts of its team (`NotesSound`), a conversation is
  in the team it began in and a call that runs unasked is one the gate lets through
  with the status it saw (`TalkSound`), and the last deed had its
  role and scope (`DeedSound`); `ToolKeeps` is the step all three ways to run a tool share.
  `CalendarAgrees` is about the answers: the free slot is the first day on which the
  calendar shows nothing that will be published.
* `UpgradesAreWhole` (`Upgrade`): `UpgradeLossesAreKnown` for any number of templates and
  announcements of each, workspaces, starts and stops half way, from every earlier shape of the
  tables. It names what is lost as well as what is kept: the columns a rebuild does not copy
  (`Omitted`) come back empty, and an announcement gives way only to another one of the same
  template. What a
  statement has established is stated for all later ones (`PastPromote` and the like), so
  a stop, which begins the list anew, keeps it. `MarkerInv`: whatever has been done to a
  marker, the rest makes of it what an uninterrupted upgrade would (`SettledAlike`,
  `SettledIsDone`). `ColumnsInv`: where the earlier release's data is
  still found is told by its shape and the present one, because the first rebuild drops all
  that is omitted and a later one finds no more to drop. `TableInv`, `AnnounceInv`, `RowsInv`
  and `NamesInv` are the table's shape, the announcements taken over (`Embedded`), the rows and
  the workspaces' names.
* `NothingIsMissed` (`ExternalImport`): `ImportIsWhole` for any number of replicas, accounts,
  statuses, rounds and crashes. `ImportIInv`: both the settings and the copy of them that a
  request is about to write back are covered (`SettingsSound`: what was written outside
  before `lastSync` is listed or excused); what a round has not settled it still has before
  it, in an account, the feed or the row it is creating (`RoundWhole`); each writer has one
  row of a status (`PostedInv`); and of two rows of a status goloom's own is
  fresh or its post still open, as is a publisher's row whose status an import is about to
  create (`FreshInv`). `Grows` is what every step keeps:
  new statuses are of this time, and what was listed stays so.
* `RoundsTakeTurns` (`Metrics`): `NewestReadingStands` and `ChartsEndAtTheRow`, the first two
  parts of `NumbersAgree`, for any number of targets, accounts, rounds and days. `MetricsIInv`: a
  round under way holds the mutex (`RoundsHold`), and what it is about to write was read after
  every row of another round (`ReadingsOrdered`). `HistoryInv` adds the days (`DaysInTurn`):
  no history reaches beyond today, nor beyond the day a round of accounts writes for, and the
  unlocked round that began before it writes for that day or an earlier one.

Only model-checked: the third part of `NumbersAgree` (`ReportsAgree`, whose sums are folds
over sets, whose facts are inductions over data), and the liveness properties, which are
beyond the prover.

## 5. Disagreements and limits found while modelling

Two have a run and are `findings`. The others are listed here; where a property is named, it
is defined in the module and TLC finds it violated under the constants of the component's run,
with the changes given in parentheses.

*Publication.*
* `CancelledIsFinal`: `MarkPostResult` (`store/sqlite/store.go:1111`) overwrites
  `cancelled` when the worker ends after the cancellation (`Ops <- {"cancel"}`).
* `NeverBeforeSchedule`: the mark as processing (`store.go:1096`) does not recheck
  `scheduled_at`, so a post rescheduled after it was listed is published at the old time
  (`Patches <- Reschedules`).
* A post marked `processing` before a stop, and not in the hands of a worker that had claimed
  its target, is never listed again (`scheduler.go:191`). `DuePostSettles` excepts these
  (`Stranded`), and says that nothing but a stop strands a post.
* A post whose attempts are exhausted can be rescheduled and is never listed
  (`store.go:1069`).

*AI jobs.* When the conditional mark fails the job is run although it may be
cancelled (`aijobs/manager.go:317`); `NotifyAIJobStatus` reads and publishes outside
the transaction, so a client may see `processing` after a terminal status
(`api/ai_callback.go:188`).

*RSS.* `NewItemsStayNew`: of two overlapping first polls in baseline mode the late one
marks items as backlog that appeared after the first had ended (`rss_import.go:125`; two
polls, no fault). A marker that cannot be written is only logged (203). Items of one poll
are rendered with the same counter (296). Changing a feed's address keeps
`last_fetched_at` (`store/sqlite/ai.go:648`).

*Templates.* `countersForOccurrence` (`template_regenerate.go:218`) reads the number of a round
from its posts, and gives a role without a post number 1. With the AI for the main post and
an announcement without it (`Setups <- Mixed` in `MCPostTemplates`) the announcement is there
first, and numbers are given out again; so they are, with the AI, after a shift and a
tear-down before its jobs have ended (`Rules` `{{2, 4, 5}}`, `Shifts` `{<<2, 3>>}`,
`HorizonDays` 3, four requests). `PostsTellNumbers` leaves both out.
An editor may give a shifted round any time (`api/post_templates.go:196`). The run shifts to
one close by; other choices break the properties of an undisturbed template, and are what
`ShiftsInOrder` excludes. Past a later round (`Rules` `{{2, 4}}`, `Shifts` `{<<2, 5>>}`,
`HorizonDays` 3, `MaxTime` 5): skipping the later one tears down the shifted post, which is
at or after it, and sets the cursor behind the shifted round (`template_skip.go:24-28`), so
that it is not made again (`RoundsAccounted`). Before an earlier one (`Rules`
`{{2, 4, 5}}`, `Shifts` `{<<5, 3>>}`, `HorizonDays` 4): skipping the round between resets the
counter below the number of the shifted post, which is given out again (`EditionsKept`).
Beyond the horizon (`Rules` `{{3, 4, 6}}`, `Shifts` `{<<4, 5>>}`, `HorizonDays` 3, `MaxTime` 6,
requests `shift` and `horizon`): `RegenerateHorizon` keeps the post at 5, which is outside
its window; the walk finds it and does not count it (`template_materialize.go:112-124`), and
the next round gets its number again (`EditionsKept`).

Two more requests leave rounds missing before numbered ones; the history variable `gaps`
records both. `RegenerateHorizon` cancels the jobs of all rounds but starts again at the
earliest post (`template_regenerate.go:111-135`): the rounds of earlier jobs are lost until
the template is disabled and enabled, which makes them with numbers behind later ones, and a
skip then resets the counter among them. Another rule keeps the posts of the old one: with the
rules `{5}` and `{3, 5}` (`MaxTime` 5, `HorizonDays` 4, requests `rule` and `skip`) the edit
puts the cursor on 3, and skipping 5 before the next poll sets it to 5, so that round 3 is
never made (`template_skip.go:108-124`). Skipping an announcement replaces the skip of the
whole round (`store/sqlite/post_templates.go:424`).

*Access.* `BoundTokenStaysHome`: between the check and the deletion by id an account may
move to another team (`api/http.go:881-956`); `BoundCallsStayHome` leaves this case out.
The OAuth callback checks the role, calls the provider and then creates. Accepting an
invitation replaces the role one has, the owner's too (`personal.go:774`). Revoking a
token leaves the tokens it created.

*Logins.* The age of a login's state is compared when the callback arrives
(`api/oidc_login.go:132`, `276`); the session may be made any time later, when the provider
has answered. `LoginsHold` says no more.

*Import and metrics.* The clean-up of imported copies looks at posts that are posted
(`store/sqlite/external_post_monitor.go:172`): when a post was published on one account and
failed on another, or its last write was lost, an imported copy of its status stays beside it.
`PublicationRecorded`: an import that sees a status before the publisher has recorded it takes
its identifier, and the publisher's update then violates the unique index
(`external_post_import.go:158`, `store.go:1130`). A failed account's window is lost because
`last_sync_at` advances for the team. The first account round runs without the mutex
(`scheduler.go:168`), and so does the first reading of a published or imported post: one that
is written late leaves an older number in the row than at the end of the chart, until the next
round. Day sums count only the targets read on that day.

*Delivery.* `DeliveredTextFits`: hashtags are merged after the lengths were
checked, within the limit of the primary account only (`voice_engine.go:700`). An upload
that overlaps the deletion of the same content loses its file. A client lists jobs before it
subscribes to events (`api/ai_sse.go:21`). On Postgres `UpdateAccount` can undo a concurrent
refresh (`StaysConnected` with `SerialWrites <- FALSE`; `store/postgres/store.go:812`), and
a stop between the rotation and the save loses the token on either. A full log channel
drops records, and a stop loses what is in it. `NoLateNotification`: a notification goes to the
rows that were listed, one after the other (`push/push.go:318`), so it may reach a device
somebody else has registered since; `DevicesHearTheirOwn` allows exactly these. A media row
that cannot be read is taken for an id of the provider, and the local id is sent
(`scheduler.go:608-613`). Two replicas may both create push keys.

*Transactions.* A failed release keeps the writes and drops the hooks; the callers return
the error, so the transaction is not committed, and `RequestsAreAtomic` rests on that.
Whether a commit whose answer is lost took place is not modelled.

*Agent.* `confirmModifyPost` reads the post's status outside the transaction of the tool;
a confirmation can be sent twice.

*Upgrade.* The rebuild of the posts table for drafts copies none of the columns that were
added since the table's first shape (`personal.go:443-450`, called before the rebuild for
automations, which then names columns that are not there: that start fails). The rebuild for
automations leaves out `template_occurrence_at`, `template_post_role` and `acknowledged_at`
(394-404), although they were added in earlier releases (46-47) and may hold data. All these
columns are added again, empty, when the next start begins; the start that rebuilt the table
for automations serves without them. What was in them is lost: the posts of a recurring
template are no longer known as its rounds, and acknowledged failures are shown again. Two
announcements of one template overwrite each other's content, and both are deleted (321-345).
`UpgradeLossesAreKnown` holds with these losses spelled out.

## 6. Not modelled

* Rate limiter, secret encryption, CORS, release checker: one lock around one value, or
  library code.
* The other request handlers: single-row reads and writes, one transaction each; what
  they share, the transaction, is `Transactions`.
* Parsing of AI output, prompts, wire formats, recurrence rules against a calendar, text
  of posts: pure functions that tests reach. Their results are chosen freely in
  `VoiceEngine`, `ProviderCalls`, `PostTemplates`.
* Postgres where it differs only in SQL; where it differs in isolation see
  `PostPublication` (`Backend`) and `AccountTokens` (`SerialWrites`). `TeamAccess`,
  `AccessTokens` and `PostTemplates` are SQLite's isolation, except that the templates'
  row lock is the same on both.
* The frontend, website and deployment.

What the plan has left: editing a feed while it is polled; every item of a feed is settled,
under fair scheduling; a proof of the sums in `NumbersAgree`; two replicas in `WebPush`;
recurrence rules over a bounded calendar.
