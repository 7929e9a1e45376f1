------------------------------ MODULE RSSImport ------------------------------
(***************************************************************************)
(* The import of one RSS feed: the rows of rss_imported_items, the polls   *)
(* that read the feed (internal/scheduler/rss_import.go, rss_ai.go), the   *)
(* AI jobs they dispatch and how their end reaches the item (api), and the *)
(* daily budget.                                                           *)
(*                                                                         *)
(* What happens to one item in a poll is one transaction under the lock of *)
(* the feed's row (LockAutomationSource); between two items anything else  *)
(* may happen.  A job is only what the item sees of it: it is unfinished,  *)
(* and ends once (AIJobs).  Every item lies within rssImportLookback.      *)
(***************************************************************************)
EXTENDS Naturals, FiniteSets

CONSTANTS
  Items,        \* the items, numbered by publication date
  Pollers,      \* goroutines that run rssImportJob: the start of each replica,
                \* its ticker, an administrator
  SyncModes,    \* the values of initial_sync_mode
  Enhance,      \* the values shouldEnhanceRSSWithAI can have
  MaxPostsPerDay,
  MaxRSSItemAttempts,  \* 3 in the code
  Faults,       \* what can go wrong
  MaxFaults     \* bound: how many faults happen

ASSUME RSSAssumption ==
  /\ Items \subseteq Nat /\ IsFiniteSet(Items)
  /\ SyncModes \subseteq {"baseline", "publish_latest"}
  /\ Enhance \subseteq BOOLEAN
  /\ MaxPostsPerDay \in Nat \ {0}
  /\ MaxRSSItemAttempts \in Nat \ {0}
  /\ Faults \subseteq {"net", "db", "marker", "dispatch", "post", "release", "crash"}
  /\ MaxFaults \in Nat

VARIABLES
  feed,     \* the row of rss_feed_configs
  item,     \* the rows of rss_imported_items
  jobs,     \* unfinished AI jobs of an item
  online,   \* the items the remote feed shows
  poll,     \* the local state of a poll
  posts,    \* history: posts created from an item
  tries,    \* history: attempts at an item that outlived their transaction
  backlog,  \* history: what the first poll to finish found and marked
  faults    \* history: faults so far

rssVars == <<feed, item, jobs, online, poll, posts, tries, backlog, faults>>

\* attempts, retry_available, whether consumed_at and post_id are set, whether
\* created_at is less than fifteen minutes ago, whether budget_date is today.
ItemRows == [row: BOOLEAN, attempts: 0..MaxRSSItemAttempts, retry: BOOLEAN,
             consumed: BOOLEAN, post: BOOLEAN, fresh: BOOLEAN, today: BOOLEAN]

NoItem == [row |-> FALSE, attempts |-> 0, retry |-> FALSE, consumed |-> FALSE,
           post |-> FALSE, fresh |-> FALSE, today |-> FALSE]

\* A poll: where it stands, whether the feed it listed had a last_fetched_at,
\* what it fetched and did not fail to mark, and what is left to do.
PollStates == [pc: {"idle", "fetch", "latest", "baseline", "import"},
               known: BOOLEAN, found: SUBSET Items, todo: SUBSET Items]

NoPoll == [pc |-> "idle", known |-> FALSE, found |-> {}, todo |-> {}]

RSSTypeOK ==
  /\ feed \in [mode: SyncModes, exists: BOOLEAN, fetched: BOOLEAN, counter: Nat]
  /\ item \in [Items -> ItemRows]
  /\ jobs \in [Items -> Nat]
  /\ online \in SUBSET Items
  /\ poll \in [Pollers -> PollStates]
  /\ posts \in [Items -> Nat]
  /\ tries \in [Items -> Nat]
  /\ backlog \in SUBSET Items
  /\ faults \in Nat

RSSInit ==
  /\ \E m \in SyncModes :
       feed = [mode |-> m, exists |-> TRUE, fetched |-> FALSE, counter |-> 0]
  /\ item = [k \in Items |-> NoItem]
  /\ jobs = [k \in Items |-> 0]
  /\ online = {}
  /\ poll = [p \in Pollers |-> NoPoll]
  /\ posts = [k \in Items |-> 0]
  /\ tries = [k \in Items |-> 0]
  /\ backlog = {}
  /\ faults = 0

Fault(f) == /\ f \in Faults
            /\ faults < MaxFaults
            /\ faults' = faults + 1
-----------------------------------------------------------------------------
(* The rows: one operator per query of the store.                          *)

\* Mutant: the lease of a reservation ends although its job is unfinished.
EligibleAfterLease(k) ==
  /\ ~item[k].consumed
  /\ item[k].retry \/ (item[k].attempts > 0 /\ ~item[k].fresh)

\* Mutant: the markers of the first fetch expire like reservations.
EligibleUnattempted(k) ==
  /\ ~item[k].consumed
  /\ item[k].retry \/ (item[k].row /\ ~item[k].fresh /\ jobs[k] = 0)

\* rssItemRetryEligible: handed back, or a reservation whose lease is over and
\* that no unfinished job protects.
Eligible(k) ==
  /\ ~item[k].consumed
  /\ item[k].retry \/ (item[k].attempts > 0 /\ ~item[k].fresh /\ jobs[k] = 0)

RSSItemAlreadyImported(k) ==
  item[k].row /\ (item[k].post \/ ~Eligible(k) \/ item[k].attempts >= MaxRSSItemAttempts)

\* Mutant: only the items that became a post count.
BudgetOfPosts == Cardinality({k \in Items : item[k].today /\ item[k].post})

\* rssFeedBudgetQuery: today's reservations and imports.  (Posts of the feed
\* without an item are from before an upgrade.)
CountRSSFeedPostsToday ==
  Cardinality({k \in Items : item[k].row /\ item[k].today /\ ~Eligible(k)})

\* ClaimRSSItemAttempt: the condition ...
Claimable(k) ==
  /\ CountRSSFeedPostsToday < MaxPostsPerDay
  /\ item[k].row => /\ ~item[k].post /\ Eligible(k)
                    /\ item[k].attempts < MaxRSSItemAttempts

\* Mutant: an attempt at an item that was handed back is not counted.
ClaimedUncounted(k) == [item[k] EXCEPT !.row = TRUE, !.attempts = IF @ = 0 THEN 1 ELSE @,
                                       !.retry = FALSE, !.fresh = TRUE, !.today = TRUE]

\* ... and the row it writes.
Claimed(k) == [item[k] EXCEPT !.row = TRUE, !.attempts = @ + 1, !.retry = FALSE,
                              !.fresh = TRUE, !.today = TRUE]

\* linkRSSItemForPost on row r, in the transaction of the post; budget_date keeps
\* the day of the claim.  An item that is consumed already has no second post.
Linkable(r) == feed.exists /\ ~r.post /\ ~r.consumed
Linked(r)   == [r EXCEPT !.row = TRUE, !.post = TRUE, !.consumed = TRUE, !.retry = FALSE]

\* ReleaseRSSItemAttempt on row r.
Released(r) ==
  IF r.row /\ ~r.post /\ ~r.consumed
  THEN [r EXCEPT !.retry = TRUE, !.attempts = IF @ = 0 THEN 1 ELSE @] ELSE r

\* RecordRSSImportedItem without a post: a new row, never a change of one.
RecordRSSImportedItem(k) ==
  item' = [item EXCEPT ![k] = IF @.row THEN @ ELSE [NoItem EXCEPT !.row = TRUE, !.fresh = TRUE]]

SetItem(k, r) == item' = [item EXCEPT ![k] = r]

\* A post is created and linked, and the feed's counter advances.
CreatePost(k, r) ==
  /\ SetItem(k, Linked(r))
  /\ posts' = [posts EXCEPT ![k] = @ + 1]
  /\ feed' = [feed EXCEPT !.counter = @ + 1]
-----------------------------------------------------------------------------
(* One item of a poll: createPostFromRSSItem, one transaction.             *)

\* submitRSSAIEnhancement: the claim, then the job.
Dispatch(k) ==
  /\ SetItem(k, Claimed(k))
  /\ jobs' = [jobs EXCEPT ![k] = @ + 1]
  /\ tries' = [tries EXCEPT ![k] = @ + 1]
  /\ UNCHANGED <<feed, posts, faults>>

\* The job could not be submitted: a post from the template, on the same claim;
\* when that fails as well the item is handed back.
DispatchFallback(k) ==
  /\ Fault("dispatch")
  /\ \/ CreatePost(k, Claimed(k))
     \/ /\ "post" \in Faults
        /\ SetItem(k, Released(Claimed(k)))
        /\ UNCHANGED <<feed, posts>>
  /\ tries' = [tries EXCEPT ![k] = @ + 1]
  /\ UNCHANGED jobs

\* createRSSPostDirect without AI: claim and post, or neither, and then the next
\* poll tries again, without end.
ImportDirectly(k) ==
  \/ /\ CreatePost(k, Claimed(k))
     /\ tries' = [tries EXCEPT ![k] = @ + 1]
     /\ UNCHANGED <<jobs, faults>>
  \/ /\ Fault("post")
     /\ UNCHANGED <<feed, item, jobs, posts, tries>>

ImportItem(k) ==
  \/ /\ feed.exists /\ ~RSSItemAlreadyImported(k) /\ Claimable(k)
     /\ \/ TRUE \in Enhance /\ (Dispatch(k) \/ DispatchFallback(k))
        \/ FALSE \in Enhance /\ ImportDirectly(k)
  \/ /\ \/ (~feed.exists \/ RSSItemAlreadyImported(k) \/ ~Claimable(k)) /\ UNCHANGED faults
        \/ Fault("db")
     /\ UNCHANGED <<feed, item, jobs, posts, tries>>
-----------------------------------------------------------------------------
(* A poll.                                                                 *)

Goto(p, state) == poll' = [poll EXCEPT ![p] = state]

\* rssImportJob lists the feeds: last_fetched_at is that of the listing.  Without
\* the feed there is nothing to do.
ListFeeds(p) ==
  /\ poll[p].pc = "idle"
  /\ Goto(p, IF feed.exists THEN [NoPoll EXCEPT !.pc = "fetch", !.known = feed.fetched]
             ELSE NoPoll)
  /\ UNCHANGED <<feed, item, jobs, online, posts, tries, backlog, faults>>

\* importRSSFeed fetches; what comes next depends on the listing.
Fetch(p) ==
  /\ poll[p].pc = "fetch"
  /\ \/ /\ Goto(p, [poll[p] EXCEPT
               !.pc = IF poll[p].known THEN "import"
                      ELSE IF feed.mode = "publish_latest" /\ online # {} THEN "latest"
                      ELSE "baseline",
               !.found = online, !.todo = online])
        /\ UNCHANGED faults
     \/ Fault("net") /\ Goto(p, NoPoll)
  /\ UNCHANGED <<feed, item, jobs, online, posts, tries, backlog>>

\* handleRSSFirstFetch, publish_latest: the newest item is imported.
ImportLatest(p) ==
  /\ poll[p].pc = "latest"
  /\ \E k \in poll[p].todo :
       /\ \A l \in poll[p].todo : l <= k
       /\ ImportItem(k)
       /\ Goto(p, [poll[p] EXCEPT !.pc = "baseline", !.todo = @ \ {k}])
  /\ UNCHANGED <<online, backlog>>

\* The other items are marked, so that later polls do not import them; an error
\* is only logged, and the poll goes on to finish.
BaselineItem(p) ==
  /\ poll[p].pc = "baseline"
  /\ \E k \in poll[p].todo :
       \/ /\ feed.exists
          /\ RecordRSSImportedItem(k)
          /\ Goto(p, [poll[p] EXCEPT !.todo = @ \ {k}])
          /\ UNCHANGED faults
       \/ /\ (~feed.exists /\ UNCHANGED faults) \/ Fault("marker")
          /\ Goto(p, [poll[p] EXCEPT !.todo = @ \ {k}, !.found = @ \ {k}])
          /\ UNCHANGED item
  /\ UNCHANGED <<feed, jobs, online, posts, tries, backlog>>

\* The items of a later poll, oldest first; an error or the daily limit skips one.
ImportNext(p) ==
  /\ poll[p].pc = "import"
  /\ \E k \in poll[p].todo :
       /\ \A l \in poll[p].todo : k <= l
       /\ ImportItem(k)
       /\ Goto(p, [poll[p] EXCEPT !.todo = @ \ {k}])
  /\ UNCHANGED <<online, backlog>>

\* UpdateRSSFeedLastFetched.
FinishPoll(p) ==
  /\ poll[p].pc \in {"baseline", "import"} /\ poll[p].todo = {}
  /\ \/ /\ feed.exists
        /\ feed' = [feed EXCEPT !.fetched = TRUE]
        /\ backlog' = IF feed.fetched THEN backlog ELSE poll[p].found
        /\ UNCHANGED faults
     \/ ~feed.exists /\ UNCHANGED <<feed, backlog, faults>>
     \/ Fault("db") /\ UNCHANGED <<feed, backlog>>
  /\ Goto(p, NoPoll)
  /\ UNCHANGED <<item, jobs, online, posts, tries>>

\* The process of a poll stops.
CrashPoll(p) ==
  /\ poll[p].pc # "idle"
  /\ Fault("crash")
  /\ Goto(p, NoPoll)
  /\ UNCHANGED <<feed, item, jobs, online, posts, tries, backlog>>
-----------------------------------------------------------------------------
(* The end of a job, one transaction each.                                 *)

EndJob(k) == jobs[k] > 0 /\ jobs' = [jobs EXCEPT ![k] = @ - 1]

\* Handing an item back fails for an item that has a post or a feed that is gone;
\* an error of the database is only logged, then the lease has to end.
Release(k) ==
  \/ SetItem(k, IF feed.exists THEN Released(item[k]) ELSE item[k]) /\ UNCHANGED faults
  \/ Fault("release") /\ UNCHANGED item

\* CompleteAIJob: the generated post or the one from the template; otherwise the
\* item is handed back.
CompleteJob(k) ==
  /\ EndJob(k)
  /\ \/ /\ Linkable(item[k])
        /\ CreatePost(k, item[k])
        /\ UNCHANGED faults
     \/ /\ ~Linkable(item[k]) \/ "post" \in Faults
        /\ Release(k)
        /\ UNCHANGED <<feed, posts>>
  /\ UNCHANGED <<online, poll, tries, backlog>>

\* handleCancelAIJob.
CancelJob(k) ==
  /\ EndJob(k)
  /\ Release(k)
  /\ UNCHANGED <<feed, online, poll, posts, tries, backlog>>
-----------------------------------------------------------------------------
(* The world around it.                                                    *)

NewItem(k) ==
  /\ k \notin online
  /\ online' = online \cup {k}
  /\ UNCHANGED <<feed, item, jobs, poll, posts, tries, backlog, faults>>

\* Fifteen minutes pass.
LeaseEnds(k) ==
  /\ item[k].fresh
  /\ SetItem(k, [item[k] EXCEPT !.fresh = FALSE])
  /\ UNCHANGED <<feed, jobs, online, poll, posts, tries, backlog, faults>>

Midnight ==
  /\ \E k \in Items : item[k].today
  /\ item' = [k \in Items |-> [item[k] EXCEPT !.today = FALSE]]
  /\ UNCHANGED <<feed, jobs, online, poll, posts, tries, backlog, faults>>

\* Mutant: the item of a deleted post is forgotten.
DeletePostForgets(k) ==
  /\ item[k].post
  /\ SetItem(k, NoItem)
  /\ UNCHANGED <<feed, jobs, online, poll, posts, tries, backlog, faults>>

\* Deleting a post sets post_id to null; consumed_at stays.
DeletePost(k) ==
  /\ item[k].post
  /\ SetItem(k, [item[k] EXCEPT !.post = FALSE])
  /\ UNCHANGED <<feed, jobs, online, poll, posts, tries, backlog, faults>>

\* Deleting the feed cascades to its items, not to jobs and polls under way.
DeleteFeed ==
  /\ feed.exists
  /\ feed' = [feed EXCEPT !.exists = FALSE]
  /\ item' = [k \in Items |-> NoItem]
  /\ UNCHANGED <<jobs, online, poll, posts, tries, backlog, faults>>
-----------------------------------------------------------------------------
PollStep(p) == \/ ListFeeds(p) \/ Fetch(p) \/ ImportLatest(p) \/ BaselineItem(p)
               \/ ImportNext(p) \/ FinishPoll(p)

RSSNext ==
  \/ \E p \in Pollers : PollStep(p) \/ CrashPoll(p)
  \/ \E k \in Items : \/ CompleteJob(k) \/ CancelJob(k)
                      \/ NewItem(k) \/ LeaseEnds(k) \/ DeletePost(k)
  \/ Midnight
  \/ DeleteFeed

RSSSpec == RSSInit /\ [][RSSNext]_rssVars

-----------------------------------------------------------------------------
(* Properties.                                                             *)

\* An item becomes at most one post, however often it is tried, released and
\* reserved again, and although its post may be deleted; the counter of the feed
\* counts exactly these posts (linkRSSItemForPost).
OnePostPerItem ==
  /\ \A k \in Items : posts[k] <= 1
  /\ feed.counter = Cardinality({k \in Items : posts[k] = 1})

\* An item has at most one unfinished job, and while it has one no poll can take
\* the item and no budget lets go of it: jobs protect their markers even when
\* they outlive the lease.
JobProtectsItem ==
  \A k \in Items :
    /\ jobs[k] <= 1
    /\ jobs[k] = 1 /\ feed.exists => RSSItemAlreadyImported(k) /\ ~item[k].consumed

\* The posts and unfinished jobs of reservations made today stay within the
\* budget: capacity is checked and taken in one step under the feed's lock.
BudgetHeld ==
  Cardinality({k \in Items : item[k].today /\ (item[k].consumed \/ jobs[k] > 0)})
    <= MaxPostsPerDay

\* An item is tried MaxRSSItemAttempts times and no more, whichever way the
\* attempts end.
AttemptsBounded == \A k \in Items : tries[k] <= MaxRSSItemAttempts

\* A feed that is to start with new items never publishes one the first poll
\* found, however the first polls of several processes overlap, fail or are
\* repeated (handleRSSFirstFetch).  Only an item whose marker could not be
\* written, an error that is logged, is imported by a later poll.
BacklogStaysOut == feed.mode = "baseline" => \A k \in backlog : posts[k] = 0

\* "Only new articles after setup": the items a first fetch marks as known were
\* in the feed when the first poll of the feed ended.
NewItemsStayNew ==
  [][\A k \in Items : ~item[k].row /\ item'[k].row /\ item'[k].attempts = 0 /\ feed.fetched
                      => k \in backlog]_rssVars
=============================================================================
