---------------------------- MODULE AutomationProofs ----------------------------
(* Proofs about RSSImport, for any number of items, polls and faults, and about *)
(* PostTemplates, for any rules, shifts, polls and requests.                    *)
EXTENDS RSSImport, PostTemplates, FiniteSetTheorems, WellFoundedInduction, TLAPS
-----------------------------------------------------------------------------
(* RSSImport.                                                              *)

\* What the row of an item, its unfinished job and its history have to do with
\* each other.
ItemAt(k) ==
  /\ posts[k] <= 1 /\ jobs[k] <= 1 /\ tries[k] <= MaxRSSItemAttempts
  /\ ~item[k].row => item[k] = NoItem
  /\ item[k].post => item[k].consumed
  /\ feed.exists => /\ posts[k] = 1 => item[k].consumed
                    /\ tries[k] = item[k].attempts
                    /\ jobs[k] = 1 => /\ item[k].row /\ item[k].attempts > 0
                                      /\ ~item[k].retry /\ ~item[k].consumed
  /\ ~feed.exists => item[k] = NoItem

ItemsInv == RSSTypeOK /\ \A k \in Items : ItemAt(k)

\* The part of the types that the treatment of an item can touch.
RowTypes ==
  /\ feed \in [mode: SyncModes, exists: BOOLEAN, fetched: BOOLEAN, counter: Nat]
  /\ item \in [Items -> ItemRows]
  /\ jobs \in [Items -> Nat]
  /\ posts \in [Items -> Nat]
  /\ tries \in [Items -> Nat]
  /\ faults \in Nat
-----------------------------------------------------------------------------
(* The rows the queries write.                                             *)

\* The limit of attempts.
LEMMA LimitPositive == MaxRSSItemAttempts \in Nat /\ MaxRSSItemAttempts > 0
BY RSSAssumption

\* The absence of a row is a row of the model.
LEMMA NoItemRow == NoItem \in ItemRows
BY LimitPositive DEF NoItem, ItemRows

\* What a claim writes (ClaimRSSItemAttempt).
LEMMA ClaimedRow ==
  ASSUME NEW k \in Items, item[k] \in ItemRows, item[k].attempts < MaxRSSItemAttempts
  PROVE  /\ Claimed(k) \in ItemRows
         /\ Claimed(k).row = TRUE /\ Claimed(k).attempts = item[k].attempts + 1
         /\ Claimed(k).retry = FALSE /\ Claimed(k).today = TRUE
         /\ Claimed(k).consumed = item[k].consumed /\ Claimed(k).post = item[k].post
<1>1. item[k].attempts \in Nat /\ item[k].attempts + 1 \in 0..MaxRSSItemAttempts
  BY LimitPositive DEF ItemRows
<1>2. Claimed(k) \in ItemRows
  BY <1>1 DEF Claimed, ItemRows
<1> QED BY <1>1, <1>2 DEF Claimed, ItemRows

\* What linking a post writes (linkRSSItemForPost).
LEMMA LinkedRow ==
  ASSUME NEW r \in ItemRows
  PROVE  /\ Linked(r) \in ItemRows
         /\ Linked(r).row = TRUE /\ Linked(r).consumed = TRUE /\ Linked(r).post = TRUE
         /\ Linked(r).attempts = r.attempts /\ Linked(r).today = r.today
         /\ Linked(r).retry = FALSE
BY DEF Linked, ItemRows

\* What handing an item back writes (ReleaseRSSItemAttempt): nothing that a
\* post, a consumption or the count of attempts depends on.
LEMMA ReleasedRow ==
  ASSUME NEW r \in ItemRows
  PROVE  /\ Released(r) \in ItemRows
         /\ Released(r).row = r.row /\ Released(r).consumed = r.consumed
         /\ Released(r).post = r.post /\ Released(r).today = r.today
         /\ r.attempts > 0 => Released(r).attempts = r.attempts
         /\ ~r.row => Released(r) = r
<1>1. CASE r.row /\ ~r.post /\ ~r.consumed
  <2> DEFINE n == IF r.attempts = 0 THEN 1 ELSE r.attempts
  <2>1. n \in 0..MaxRSSItemAttempts /\ (r.attempts > 0 => n = r.attempts)
    BY LimitPositive DEF ItemRows
  <2>2. Released(r) = [r EXCEPT !.retry = TRUE, !.attempts = n]
    BY <1>1 DEF Released
  <2> HIDE DEF n
  <2> QED BY <1>1, <2>1, <2>2 DEF ItemRows
<1>2. CASE ~(r.row /\ ~r.post /\ ~r.consumed)
  BY <1>2 DEF Released
<1> QED BY <1>1, <1>2

\* An item that can be claimed has had neither a post nor a job that is
\* unfinished, and has attempts left.
LEMMA ClaimFacts ==
  ASSUME ItemsInv, NEW k \in Items, feed.exists, Claimable(k)
  PROVE  /\ item[k].attempts < MaxRSSItemAttempts
         /\ jobs[k] = 0 /\ posts[k] = 0
         /\ ~item[k].consumed /\ ~item[k].post
         /\ tries[k] = item[k].attempts
<1>0. /\ ItemAt(k) /\ item[k] \in ItemRows /\ jobs[k] \in Nat /\ posts[k] \in Nat
  BY DEF ItemsInv, RSSTypeOK
<1>1. CASE item[k].row
  BY <1>0, <1>1 DEF ItemAt, Claimable, Eligible, ItemRows
<1>2. CASE ~item[k].row
  <2>1. item[k] = NoItem
    BY <1>0, <1>2 DEF ItemAt
  <2> QED BY <1>0, <2>1, RSSAssumption DEF ItemAt, NoItem
<1> QED BY <1>1, <1>2

\* An item that a step does not touch keeps its part of the invariant.
LEMMA Untouched ==
  ASSUME NEW j \in Items, ItemAt(j), feed'.exists = feed.exists, item'[j] = item[j],
         jobs'[j] = jobs[j], posts'[j] = posts[j], tries'[j] = tries[j]
  PROVE  ItemAt(j)'
BY DEF ItemAt

\* The same for a step that touches no item.
LEMMA RowsUntouched ==
  ASSUME ItemsInv, feed'.exists = feed.exists, UNCHANGED <<item, jobs, posts, tries>>
  PROVE  \A j \in Items : ItemAt(j)'
BY DEF ItemsInv, ItemAt

\* A post is created from a row that is consumed by nobody yet.
LEMMA CreatePostKeeps ==
  ASSUME ItemsInv, NEW k \in Items, NEW r \in ItemRows, feed.exists, posts[k] = 0,
         r.attempts <= MaxRSSItemAttempts, CreatePost(k, r),
         jobs' \in [Items -> Nat], tries' \in [Items -> Nat], faults' \in Nat,
         jobs'[k] = 0, tries'[k] = r.attempts,
         \A j \in Items \ {k} : jobs'[j] = jobs[j] /\ tries'[j] = tries[j]
  PROVE  RowTypes' /\ \A j \in Items : ItemAt(j)'
<1>0. /\ feed' = [feed EXCEPT !.counter = @ + 1]
      /\ item' = [item EXCEPT ![k] = Linked(r)]
      /\ posts' = [posts EXCEPT ![k] = @ + 1]
  BY DEF CreatePost, SetItem
<1>1. Linked(r) \in ItemRows /\ Linked(r).row = TRUE /\ Linked(r).consumed = TRUE
      /\ Linked(r).attempts = r.attempts
  BY LinkedRow
<1>2. feed'.exists = feed.exists
  BY <1>0 DEF ItemsInv, RSSTypeOK
<1>3. RowTypes'
  BY <1>0, <1>1 DEF ItemsInv, RSSTypeOK, RowTypes
<1>4. item'[k] = Linked(r) /\ posts'[k] = 1
  BY <1>0 DEF ItemsInv, RSSTypeOK
<1>5. ItemAt(k)'
  BY <1>1, <1>2, <1>4 DEF ItemAt
<1>6. ASSUME NEW j \in Items \ {k} PROVE ItemAt(j)'
  <2>1. item'[j] = item[j] /\ posts'[j] = posts[j] /\ ItemAt(j)
    BY <1>0 DEF ItemsInv, RSSTypeOK
  <2> QED BY <1>2, <2>1, Untouched
<1> QED BY <1>3, <1>5, <1>6

\* One item of a poll.
LEMMA ImportItemKeeps ==
  ASSUME ItemsInv, NEW k \in Items, ImportItem(k)
  PROVE  RowTypes' /\ \A j \in Items : ItemAt(j)'
<1>0. /\ item[k] \in ItemRows /\ ItemAt(k) /\ faults \in Nat
      /\ RowTypes
  BY DEF ItemsInv, RSSTypeOK, RowTypes
<1>1. ASSUME UNCHANGED <<feed, item, jobs, posts, tries>>,
             faults' \in Nat
      PROVE  RowTypes' /\ \A j \in Items : ItemAt(j)'
  BY <1>0, <1>1, RowsUntouched DEF RowTypes
<1>2. ASSUME feed.exists, Claimable(k), Dispatch(k)
      PROVE  RowTypes' /\ \A j \in Items : ItemAt(j)'
  <2>1. /\ item[k].attempts < MaxRSSItemAttempts
        /\ jobs[k] = 0 /\ posts[k] = 0
        /\ ~item[k].consumed /\ ~item[k].post
        /\ tries[k] = item[k].attempts
    BY <1>2, ClaimFacts
  <2>2. /\ Claimed(k) \in ItemRows
        /\ Claimed(k).row = TRUE /\ Claimed(k).attempts = item[k].attempts + 1
        /\ Claimed(k).retry = FALSE
        /\ Claimed(k).consumed = item[k].consumed /\ Claimed(k).post = item[k].post
    BY <1>0, <2>1, ClaimedRow
  <2>3. /\ item' = [item EXCEPT ![k] = Claimed(k)]
        /\ jobs' = [jobs EXCEPT ![k] = @ + 1]
        /\ tries' = [tries EXCEPT ![k] = @ + 1]
        /\ UNCHANGED <<feed, posts, faults>>
    BY <1>2 DEF Dispatch, SetItem
  <2>4. RowTypes'
    BY <1>0, <2>2, <2>3 DEF RowTypes
  <2>5. item'[k] = Claimed(k) /\ jobs'[k] = 1 /\ tries'[k] = item[k].attempts + 1
    BY <1>0, <2>1, <2>3 DEF RowTypes
  <2>6. ItemAt(k)'
    <3>1. item[k].attempts \in Nat
      BY <1>0 DEF ItemRows
    <3> QED BY <1>0, <1>2, <2>1, <2>2, <2>3, <2>5, <3>1, LimitPositive DEF ItemAt
  <2>7. ASSUME NEW j \in Items \ {k} PROVE ItemAt(j)'
    <3>1. item'[j] = item[j] /\ jobs'[j] = jobs[j] /\ tries'[j] = tries[j] /\ ItemAt(j)
      BY <1>0, <2>3 DEF RowTypes, ItemsInv
    <3> QED BY <2>3, <3>1, Untouched
  <2> QED BY <2>4, <2>6, <2>7
<1>3. ASSUME feed.exists, Claimable(k), CreatePost(k, Claimed(k)),
             tries' = [tries EXCEPT ![k] = @ + 1], UNCHANGED jobs, faults' \in Nat
      PROVE  RowTypes' /\ \A j \in Items : ItemAt(j)'
  <2>1. /\ item[k].attempts < MaxRSSItemAttempts
        /\ jobs[k] = 0 /\ posts[k] = 0
        /\ tries[k] = item[k].attempts
    BY <1>3, ClaimFacts
  <2>2. Claimed(k) \in ItemRows /\ Claimed(k).attempts = item[k].attempts + 1
    BY <1>0, <2>1, ClaimedRow
  <2>3. /\ tries' \in [Items -> Nat] /\ tries'[k] = Claimed(k).attempts
        /\ \A j \in Items \ {k} : tries'[j] = tries[j]
        /\ jobs' \in [Items -> Nat] /\ jobs'[k] = 0
        /\ \A j \in Items \ {k} : jobs'[j] = jobs[j]
    BY <1>0, <1>3, <2>1, <2>2 DEF RowTypes
  <2>4. Claimed(k).attempts <= MaxRSSItemAttempts
    BY <2>2, LimitPositive DEF ItemRows
  <2> HIDE DEF Claimed
  <2> QED BY <1>3, <2>1, <2>2, <2>3, <2>4, CreatePostKeeps
<1>4. ASSUME feed.exists, Claimable(k), SetItem(k, Released(Claimed(k))),
             UNCHANGED <<feed, posts, jobs>>,
             tries' = [tries EXCEPT ![k] = @ + 1], faults' \in Nat
      PROVE  RowTypes' /\ \A j \in Items : ItemAt(j)'
  <2>1. /\ item[k].attempts < MaxRSSItemAttempts
        /\ jobs[k] = 0 /\ posts[k] = 0
        /\ ~item[k].consumed /\ ~item[k].post
        /\ tries[k] = item[k].attempts
    BY <1>4, ClaimFacts
  <2>2. /\ Claimed(k) \in ItemRows
        /\ Claimed(k).row = TRUE /\ Claimed(k).attempts = item[k].attempts + 1
        /\ Claimed(k).consumed = item[k].consumed /\ Claimed(k).post = item[k].post
    BY <1>0, <2>1, ClaimedRow
  <2>3. item[k].attempts \in Nat
    BY <1>0 DEF ItemRows
  <2> DEFINE r == Released(Claimed(k))
  <2>4. /\ r \in ItemRows /\ r.row = TRUE /\ r.attempts = item[k].attempts + 1
        /\ r.consumed = item[k].consumed /\ r.post = item[k].post
    BY <2>2, <2>3, ReleasedRow
  <2>5. item' = [item EXCEPT ![k] = r]
    BY <1>4 DEF SetItem
  <2> HIDE DEF r
  <2>6. RowTypes'
    BY <1>0, <1>4, <2>4, <2>5 DEF RowTypes
  <2>7. item'[k] = r /\ tries'[k] = item[k].attempts + 1 /\ jobs'[k] = 0 /\ posts'[k] = 0
    BY <1>0, <1>4, <2>1, <2>5 DEF RowTypes
  <2>8. ItemAt(k)'
    BY <1>0, <1>4, <2>1, <2>3, <2>4, <2>7, LimitPositive DEF ItemAt
  <2>9. ASSUME NEW j \in Items \ {k} PROVE ItemAt(j)'
    <3>1. item'[j] = item[j] /\ tries'[j] = tries[j] /\ ItemAt(j)
      BY <1>0, <1>4, <2>5 DEF RowTypes, ItemsInv
    <3> QED BY <1>4, <3>1, Untouched
  <2> QED BY <2>6, <2>8, <2>9
<1>5. ASSUME NEW f, Fault(f) PROVE faults' \in Nat
  BY <1>0, <1>5 DEF Fault
<1> QED BY <1>0, <1>1, <1>2, <1>3, <1>4, <1>5
        DEF ImportItem, ImportDirectly, DispatchFallback, Dispatch

\* The end of a job that creates no post.
LEMMA ReleaseKeeps ==
  ASSUME ItemsInv, NEW k \in Items, EndJob(k), Release(k), UNCHANGED <<feed, posts, tries>>
  PROVE  RowTypes' /\ \A j \in Items : ItemAt(j)'
<1>0. item[k] \in ItemRows /\ ItemAt(k) /\ RowTypes /\ jobs[k] \in Nat
  BY DEF ItemsInv, RSSTypeOK, RowTypes
<1>1. /\ jobs' = [jobs EXCEPT ![k] = @ - 1] /\ jobs[k] = 1
      /\ jobs'[k] = 0 /\ jobs' \in [Items -> Nat]
  BY <1>0 DEF EndJob, ItemAt, RowTypes
<1> DEFINE r == IF feed.exists THEN Released(item[k]) ELSE item[k]
<1>2. /\ r \in ItemRows /\ r.row = item[k].row /\ r.attempts = item[k].attempts
      /\ r.consumed = item[k].consumed /\ r.post = item[k].post
      /\ ~item[k].row => r = item[k]
      /\ ~feed.exists => r = item[k]
  BY <1>0, <1>1, ReleasedRow DEF ItemAt
<1>3. faults' \in Nat /\ (item' = [item EXCEPT ![k] = r] \/ item' = item)
  BY <1>0 DEF Release, SetItem, Fault, RowTypes
<1> HIDE DEF r
<1>4. RowTypes'
  BY <1>0, <1>1, <1>2, <1>3 DEF RowTypes
<1>5. item'[k] = r \/ item'[k] = item[k]
  BY <1>0, <1>3 DEF RowTypes
<1>6. ItemAt(k)'
  BY <1>0, <1>1, <1>2, <1>5 DEF ItemAt
<1>7. ASSUME NEW j \in Items \ {k} PROVE ItemAt(j)'
  <2>1. item'[j] = item[j] /\ jobs'[j] = jobs[j] /\ ItemAt(j)
    BY <1>0, <1>1, <1>3 DEF RowTypes, ItemsInv
  <2> QED BY <2>1, Untouched
<1> QED BY <1>4, <1>6, <1>7

\* The end of a job, with or without a post.
LEMMA CompleteJobKeeps ==
  ASSUME ItemsInv, NEW k \in Items, CompleteJob(k)
  PROVE  RowTypes' /\ \A j \in Items : ItemAt(j)'
<1>0. /\ item[k] \in ItemRows /\ ItemAt(k) /\ RowTypes
      /\ jobs[k] \in Nat /\ posts[k] \in Nat
  BY DEF ItemsInv, RSSTypeOK, RowTypes
<1>1. CASE CreatePost(k, item[k]) /\ Linkable(item[k]) /\ UNCHANGED <<faults, tries>>
  <2>1. /\ jobs'[k] = 0 /\ jobs' \in [Items -> Nat]
        /\ \A j \in Items \ {k} : jobs'[j] = jobs[j]
    BY <1>0 DEF CompleteJob, EndJob, ItemAt, RowTypes
  <2>2. feed.exists /\ posts[k] = 0 /\ tries[k] = item[k].attempts
    BY <1>0, <1>1 DEF Linkable, ItemAt
  <2>3. item[k].attempts <= MaxRSSItemAttempts
    BY <1>0, LimitPositive DEF ItemRows
  <2> QED BY <1>0, <1>1, <2>1, <2>2, <2>3, CreatePostKeeps DEF RowTypes
<1>2. CASE Release(k) /\ UNCHANGED <<feed, posts, tries>>
  BY <1>2, ReleaseKeeps DEF CompleteJob
<1> QED BY <1>1, <1>2 DEF CompleteJob

\* The row of one item changes and nothing else of it does.
LEMMA RowKeeps ==
  ASSUME ItemsInv, NEW k \in Items, NEW r \in ItemRows,
         item' = [item EXCEPT ![k] = r],
         r.row = item[k].row, r.attempts = item[k].attempts, r.retry = item[k].retry,
         r.consumed = item[k].consumed, r.post => item[k].post,
         item[k].row, feed.exists,
         UNCHANGED <<feed, jobs, posts, tries, faults>>
  PROVE  RowTypes' /\ \A j \in Items : ItemAt(j)'
<1>1. RowTypes /\ ItemAt(k)
  BY DEF ItemsInv, RSSTypeOK, RowTypes
<1>2. RowTypes' /\ item'[k] = r
  BY <1>1 DEF RowTypes
<1>3. ItemAt(k)'
  BY <1>1, <1>2 DEF ItemAt
<1>4. ASSUME NEW j \in Items \ {k} PROVE ItemAt(j)'
  <2>1. item'[j] = item[j] /\ ItemAt(j)
    BY <1>1 DEF RowTypes, ItemsInv
  <2> QED BY <2>1, Untouched
<1> QED BY <1>2, <1>3, <1>4
-----------------------------------------------------------------------------
(* The invariant.                                                          *)

\* A poll moves to a proper state.
LEMMA PollMoves ==
  ASSUME poll \in [Pollers -> PollStates], NEW p \in Pollers, NEW s \in PollStates, Goto(p, s)
  PROVE  poll' \in [Pollers -> PollStates]
BY DEF Goto

\* The idle poll is a proper state.
LEMMA NoPollState == NoPoll \in PollStates
BY DEF NoPoll, PollStates

\* The invariant holds initially ...
LEMMA ItemsInvInit == RSSInit => ItemsInv
<1> SUFFICES ASSUME RSSInit PROVE ItemsInv
  OBVIOUS
<1>1. RSSTypeOK
  BY NoItemRow, NoPollState DEF RSSInit, RSSTypeOK
<1>2. \A k \in Items : ItemAt(k)
  BY LimitPositive DEF RSSInit, ItemAt, NoItem
<1> QED BY <1>1, <1>2 DEF ItemsInv

\* ... every step of a poll keeps it ...
LEMMA PollStepKeeps ==
  ASSUME ItemsInv, NEW p \in Pollers, PollStep(p) \/ CrashPoll(p)
  PROVE  ItemsInv'
<1>0. /\ RowTypes /\ online \in SUBSET Items /\ backlog \in SUBSET Items
      /\ poll \in [Pollers -> PollStates] /\ poll[p] \in PollStates
  BY DEF ItemsInv, RSSTypeOK, RowTypes
<1>t. ASSUME RowTypes', \A j \in Items : ItemAt(j)', UNCHANGED online,
             backlog' \in SUBSET Items, NEW s \in PollStates, Goto(p, s)
      PROVE  ItemsInv'
  <2>1. poll' \in [Pollers -> PollStates]
    BY <1>0, <1>t, PollMoves
  <2> QED BY <1>0, <1>t, <2>1 DEF ItemsInv, RSSTypeOK, RowTypes
<1>u. ASSUME UNCHANGED <<item, jobs, posts, tries>>, faults' \in Nat,
             feed' = feed \/ feed' = [feed EXCEPT !.fetched = TRUE]
      PROVE  RowTypes' /\ \A j \in Items : ItemAt(j)'
  <2>1. feed'.exists = feed.exists /\ RowTypes'
    BY <1>0, <1>u DEF RowTypes
  <2> QED BY <1>u, <2>1, RowsUntouched
<1>f. ASSUME NEW f, Fault(f) PROVE faults' \in Nat
  BY <1>0, <1>f DEF Fault, RowTypes
<1>s. ASSUME NEW k PROVE [poll[p] EXCEPT !.todo = @ \ {k}] \in PollStates
  BY <1>0 DEF PollStates
<1>1. CASE ListFeeds(p)
  <2> DEFINE s == IF feed.exists THEN [NoPoll EXCEPT !.pc = "fetch", !.known = feed.fetched]
                  ELSE NoPoll
  <2>1. s \in PollStates
    BY <1>0, NoPollState DEF NoPoll, PollStates, RowTypes
  <2> HIDE DEF s
  <2>2. Goto(p, s)
    BY <1>1 DEF ListFeeds, s
  <2> QED BY <1>0, <1>1, <1>t, <1>u, <2>1, <2>2 DEF ListFeeds, RowTypes
<1>2. CASE Fetch(p)
  <2>1. CASE Fault("net") /\ Goto(p, NoPoll)
    BY <1>0, <1>2, <2>1, <1>t, <1>u, <1>f, NoPollState DEF Fetch
  <2>2. CASE UNCHANGED faults /\ ~(Fault("net") /\ Goto(p, NoPoll))
    <3> DEFINE c == IF poll[p].known THEN "import"
                    ELSE IF feed.mode = "publish_latest" /\ online # {} THEN "latest"
                    ELSE "baseline"
               s == [poll[p] EXCEPT !.pc = c, !.found = online, !.todo = online]
    <3>1. c \in {"idle", "fetch", "latest", "baseline", "import"}
      OBVIOUS
    <3>2. Goto(p, s)
      BY <1>2, <2>2 DEF Fetch
    <3> HIDE DEF c
    <3>3. s \in PollStates
      BY <1>0, <3>1 DEF PollStates
    <3> HIDE DEF s
    <3> QED BY <1>0, <1>2, <1>t, <1>u, <2>2, <3>2, <3>3 DEF Fetch, RowTypes
  <2> QED BY <1>2, <2>1, <2>2 DEF Fetch
<1>3. CASE ImportLatest(p)
  <2>1. PICK k \in poll[p].todo :
             ImportItem(k) /\ Goto(p, [poll[p] EXCEPT !.pc = "baseline", !.todo = @ \ {k}])
    BY <1>3 DEF ImportLatest
  <2>2. k \in Items
    BY <1>0 DEF PollStates
  <2>3. [poll[p] EXCEPT !.pc = "baseline", !.todo = @ \ {k}] \in PollStates
    BY <1>0 DEF PollStates
  <2> QED BY <1>0, <1>3, <1>t, <2>1, <2>2, <2>3, ImportItemKeeps DEF ImportLatest
<1>4. CASE BaselineItem(p)
  <2>1. PICK k \in poll[p].todo :
          \/ /\ feed.exists
             /\ RecordRSSImportedItem(k)
             /\ Goto(p, [poll[p] EXCEPT !.todo = @ \ {k}])
             /\ UNCHANGED faults
          \/ /\ (~feed.exists /\ UNCHANGED faults) \/ Fault("marker")
             /\ Goto(p, [poll[p] EXCEPT !.todo = @ \ {k}, !.found = @ \ {k}])
             /\ UNCHANGED item
    BY <1>4 DEF BaselineItem
  <2>2. k \in Items
    BY <1>0 DEF PollStates
  <2>3. UNCHANGED <<feed, jobs, online, posts, tries, backlog>>
    BY <1>4 DEF BaselineItem
  <2>4. CASE UNCHANGED item
    <3>1. faults' \in Nat
      BY <1>0, <1>f, <2>1 DEF RowTypes
    <3>2. RowTypes' /\ \A j \in Items : ItemAt(j)'
      BY <1>u, <2>3, <2>4, <3>1
    <3>3. [poll[p] EXCEPT !.todo = @ \ {k}, !.found = @ \ {k}] \in PollStates
      BY <1>0 DEF PollStates
    <3> QED BY <1>0, <1>s, <1>t, <2>1, <2>3, <3>2, <3>3
  <2>5. CASE item' # item
    <3>1. feed.exists /\ RecordRSSImportedItem(k) /\ UNCHANGED faults
          /\ Goto(p, [poll[p] EXCEPT !.todo = @ \ {k}])
      BY <2>1, <2>5
    <3> DEFINE r == [NoItem EXCEPT !.row = TRUE, !.fresh = TRUE]
    <3>2. /\ r \in ItemRows /\ r.row = TRUE /\ r.attempts = 0 /\ r.retry = FALSE
          /\ r.consumed = FALSE /\ r.post = FALSE
      <4>1. /\ NoItem.attempts = 0 /\ NoItem.retry = FALSE
            /\ NoItem.consumed = FALSE /\ NoItem.post = FALSE
        BY DEF NoItem
      <4> QED BY <4>1, NoItemRow DEF ItemRows
    <3>3. ItemAt(k) /\ item[k] \in ItemRows
      BY <1>0, <2>2 DEF ItemsInv, RowTypes
    <3>4. CASE item[k].row
      <4>1. item' = [item EXCEPT ![k] = item[k]]
        BY <3>1, <3>4, <1>0, <2>2 DEF RecordRSSImportedItem, RowTypes
      <4>2. item' = item
        BY <4>1, <1>0, <2>2 DEF RowTypes
      <4> QED BY <4>2, <2>5
    <3>5. CASE ~item[k].row
      <4>1. item' = [item EXCEPT ![k] = r]
        BY <3>1, <3>5 DEF RecordRSSImportedItem
      <4>2. item[k] = NoItem
        BY <3>3, <3>5 DEF ItemAt
      <4> HIDE DEF r
      <4>3. /\ item'[k] = r /\ jobs[k] # 1 /\ posts[k] # 1 /\ tries[k] = 0
            /\ feed' = feed /\ jobs' = jobs /\ posts' = posts /\ tries' = tries
        BY <1>0, <2>2, <2>3, <3>1, <3>3, <4>1, <4>2 DEF ItemAt, NoItem, RowTypes
      <4>4. ItemAt(k)'
        BY <3>1, <3>2, <3>3, <4>3 DEF ItemAt
      <4>5. ASSUME NEW j \in Items \ {k} PROVE ItemAt(j)'
        <5>1. item'[j] = item[j] /\ ItemAt(j)
          BY <1>0, <4>1 DEF RowTypes, ItemsInv
        <5> QED BY <4>3, <5>1, Untouched
      <4>6. RowTypes'
        BY <1>0, <2>3, <3>1, <3>2, <4>1 DEF RowTypes
      <4> QED BY <1>0, <1>s, <1>t, <2>3, <3>1, <4>4, <4>5, <4>6
    <3> QED BY <3>4, <3>5
  <2> QED BY <2>4, <2>5
<1>5. CASE ImportNext(p)
  <2>1. PICK k \in poll[p].todo :
             ImportItem(k) /\ Goto(p, [poll[p] EXCEPT !.todo = @ \ {k}])
    BY <1>5 DEF ImportNext
  <2>2. k \in Items
    BY <1>0 DEF PollStates
  <2> QED BY <1>0, <1>5, <1>s, <1>t, <2>1, <2>2, ImportItemKeeps DEF ImportNext
<1>6. CASE FinishPoll(p)
  <2>1. /\ feed' = feed \/ feed' = [feed EXCEPT !.fetched = TRUE]
        /\ faults' \in Nat
        /\ backlog' \in SUBSET Items
    BY <1>0, <1>6, <1>f DEF FinishPoll, RowTypes, PollStates
  <2> QED BY <1>6, <1>t, <1>u, <2>1, NoPollState DEF FinishPoll
<1>7. CASE CrashPoll(p)
  BY <1>0, <1>7, <1>f, <1>t, <1>u, NoPollState DEF CrashPoll
<1> QED BY <1>1, <1>2, <1>3, <1>4, <1>5, <1>6, <1>7 DEF PollStep

\* ... and so do time, the remote feed and deletions ...
LEMMA WorldKeeps ==
  ASSUME ItemsInv,
         \/ \E k \in Items : NewItem(k) \/ LeaseEnds(k) \/ DeletePost(k)
         \/ Midnight \/ DeleteFeed
  PROVE  ItemsInv'
<1>0. RowTypes /\ online \in SUBSET Items /\ backlog \in SUBSET Items
      /\ poll \in [Pollers -> PollStates]
  BY DEF ItemsInv, RSSTypeOK, RowTypes
<1>t. ASSUME RowTypes', \A j \in Items : ItemAt(j)', UNCHANGED <<poll, backlog>>,
             online' \in SUBSET Items
      PROVE  ItemsInv'
  BY <1>0, <1>t DEF ItemsInv, RSSTypeOK, RowTypes
<1>r. ASSUME NEW k \in Items, ~item[k].row PROVE item[k] = NoItem /\ ~item[k].fresh /\ ~item[k].post
  <2>1. item[k] = NoItem
    BY <1>r DEF ItemsInv, ItemAt
  <2> QED BY <2>1 DEF NoItem
<1>e. ASSUME NEW k \in Items, item[k].row PROVE feed.exists
  <2>1. ~feed.exists => item[k] = NoItem
    BY DEF ItemsInv, ItemAt
  <2> QED BY <1>e, <2>1 DEF NoItem
<1>1. ASSUME NEW k \in Items, NewItem(k) PROVE ItemsInv'
  <2>1. \A j \in Items : ItemAt(j)'
    BY <1>1, RowsUntouched DEF NewItem
  <2> QED BY <1>0, <1>1, <1>t, <2>1 DEF NewItem, RowTypes
<1>2. ASSUME NEW k \in Items, LeaseEnds(k) PROVE ItemsInv'
  <2> DEFINE r == [item[k] EXCEPT !.fresh = FALSE]
  <2>1. /\ r \in ItemRows /\ r.row = item[k].row /\ r.attempts = item[k].attempts
        /\ r.retry = item[k].retry /\ r.consumed = item[k].consumed /\ r.post = item[k].post
    BY <1>0 DEF RowTypes, ItemRows
  <2>2. item' = [item EXCEPT ![k] = r] /\ item[k].row /\ feed.exists
    BY <1>2, <1>r, <1>e DEF LeaseEnds, SetItem
  <2> HIDE DEF r
  <2>3. RowTypes' /\ \A j \in Items : ItemAt(j)'
    BY <1>2, <2>1, <2>2, RowKeeps DEF LeaseEnds
  <2> QED BY <1>0, <1>2, <1>t, <2>3 DEF LeaseEnds
<1>3. ASSUME NEW k \in Items, DeletePost(k) PROVE ItemsInv'
  <2> DEFINE r == [item[k] EXCEPT !.post = FALSE]
  <2>1. /\ r \in ItemRows /\ r.row = item[k].row /\ r.attempts = item[k].attempts
        /\ r.retry = item[k].retry /\ r.consumed = item[k].consumed /\ r.post = FALSE
    BY <1>0 DEF RowTypes, ItemRows
  <2>2. item' = [item EXCEPT ![k] = r] /\ item[k].row /\ feed.exists
    BY <1>3, <1>r, <1>e DEF DeletePost, SetItem
  <2> HIDE DEF r
  <2>3. RowTypes' /\ \A j \in Items : ItemAt(j)'
    BY <1>3, <2>1, <2>2, RowKeeps DEF DeletePost
  <2> QED BY <1>0, <1>3, <1>t, <2>3, SMTT(30) DEF DeletePost
<1>4. CASE Midnight
  <2>1. RowTypes'
    BY <1>0, <1>4 DEF Midnight, RowTypes, ItemRows
  <2>2. ASSUME NEW j \in Items PROVE ItemAt(j)'
    <3>1. /\ item'[j].row = item[j].row /\ item'[j].attempts = item[j].attempts
          /\ item'[j].retry = item[j].retry /\ item'[j].consumed = item[j].consumed
          /\ item'[j].post = item[j].post
          /\ UNCHANGED <<feed, jobs, posts, tries>>
      BY <1>0, <1>4 DEF Midnight, RowTypes, ItemRows
    <3>2. ASSUME item[j] = NoItem PROVE item'[j] = NoItem
      <4>1. item'[j] = [NoItem EXCEPT !.today = FALSE]
        BY <1>4, <3>2 DEF Midnight
      <4> QED BY <4>1 DEF NoItem
    <3>3. ItemAt(j)
      BY DEF ItemsInv
    <3> QED BY <3>1, <3>2, <3>3 DEF ItemAt
  <2> QED BY <1>0, <1>4, <1>t, <2>1, <2>2 DEF Midnight
<1>5. CASE DeleteFeed
  <2>1. feed' = [feed EXCEPT !.exists = FALSE] /\ item' = [k \in Items |-> NoItem]
    BY <1>5 DEF DeleteFeed
  <2>2. RowTypes' /\ feed'.exists = FALSE
    BY <1>0, <1>5, <2>1, NoItemRow DEF DeleteFeed, RowTypes
  <2>3. ASSUME NEW j \in Items PROVE ItemAt(j)'
    <3>1. item'[j] = NoItem /\ ~NoItem.post /\ UNCHANGED <<jobs, posts, tries>>
      BY <1>5, <2>1 DEF DeleteFeed, NoItem
    <3>2. ItemAt(j)
      BY DEF ItemsInv
    <3> QED BY <2>2, <3>1, <3>2 DEF ItemAt
  <2> QED BY <1>0, <1>5, <1>t, <2>2, <2>3 DEF DeleteFeed
<1> QED BY <1>1, <1>2, <1>3, <1>4, <1>5

\* ... hence every step.
LEMMA ItemsInvNext == ItemsInv /\ [RSSNext]_rssVars => ItemsInv'
<1> SUFFICES ASSUME ItemsInv, [RSSNext]_rssVars PROVE ItemsInv'
  OBVIOUS
<1>1. ASSUME NEW k \in Items, CompleteJob(k) \/ CancelJob(k) PROVE ItemsInv'
  <2>1. RowTypes' /\ \A j \in Items : ItemAt(j)'
    BY <1>1, CompleteJobKeeps, ReleaseKeeps DEF CancelJob
  <2> QED BY <1>1, <2>1 DEF ItemsInv, RSSTypeOK, RowTypes, CompleteJob, CancelJob
<1>2. CASE UNCHANGED rssVars
  BY <1>2 DEF rssVars, ItemsInv, RSSTypeOK, ItemAt
<1> QED BY <1>1, <1>2, PollStepKeeps, WorldKeeps DEF RSSNext

\* The invariant of the items.
LEMMA ItemsInvHolds == RSSSpec => []ItemsInv
BY ItemsInvInit, ItemsInvNext, PTL DEF RSSSpec

\* Every variable of the import keeps its type; the attempts of a row never exceed
\* the limit although three different queries write them.
THEOREM RSSTypesHold == RSSSpec => []RSSTypeOK
<1>1. ItemsInv => RSSTypeOK
  BY DEF ItemsInv
<1> QED BY <1>1, ItemsInvHolds, PTL

\* An item is tried MaxRSSItemAttempts times and no more.
THEOREM AttemptsHold == RSSSpec => []AttemptsBounded
<1>1. ItemsInv => AttemptsBounded
  BY DEF ItemsInv, ItemAt, AttemptsBounded
<1> QED BY <1>1, ItemsInvHolds, PTL

\* While an item has an unfinished job no poll takes it, whatever the lease says.
THEOREM JobsProtectItems == RSSSpec => []JobProtectsItem
<1>1. ItemsInv => JobProtectsItem
  BY DEF ItemsInv, ItemAt, JobProtectsItem, RSSItemAlreadyImported, Eligible
<1> QED BY <1>1, ItemsInvHolds, PTL
-----------------------------------------------------------------------------
(* One post per item, and a counter that agrees.                           *)

CounterInv == feed.counter = Cardinality({k \in Items : posts[k] = 1})

\* Posts appear in one way only, for an item without one.
LEMMA PostsAppear ==
  ASSUME ItemsInv, [RSSNext]_rssVars
  PROVE  \/ feed'.counter = feed.counter /\ posts' = posts
         \/ \E k \in Items : \E r : posts[k] = 0 /\ CreatePost(k, r)
<1>0. feed \in [mode: SyncModes, exists: BOOLEAN, fetched: BOOLEAN, counter: Nat]
  BY DEF ItemsInv, RSSTypeOK
<1>1. ASSUME NEW k \in Items, ImportItem(k)
      PROVE  \/ feed' = feed /\ posts' = posts
             \/ \E r : posts[k] = 0 /\ CreatePost(k, r)
  <2>1. ASSUME feed.exists, Claimable(k) PROVE posts[k] = 0
    BY <2>1, ClaimFacts
  <2> QED BY <1>1, <2>1 DEF ImportItem, ImportDirectly, Dispatch, DispatchFallback
<1>2. ASSUME NEW p \in Pollers, ImportLatest(p) \/ ImportNext(p)
      PROVE  \/ feed' = feed /\ posts' = posts
             \/ \E k \in Items : \E r : posts[k] = 0 /\ CreatePost(k, r)
  <2>1. PICK k \in poll[p].todo : ImportItem(k)
    BY <1>2 DEF ImportLatest, ImportNext
  <2>2. k \in Items
    BY DEF ItemsInv, RSSTypeOK, PollStates
  <2> QED BY <1>1, <2>1, <2>2
<1>3. ASSUME NEW k \in Items, CompleteJob(k)
      PROVE  \/ feed' = feed /\ posts' = posts
             \/ \E r : posts[k] = 0 /\ CreatePost(k, r)
  <2>1. ASSUME Linkable(item[k]) PROVE posts[k] = 0
    <3>1. ItemAt(k) /\ posts[k] \in Nat
      BY DEF ItemsInv, RSSTypeOK
    <3> QED BY <2>1, <3>1 DEF ItemAt, Linkable
  <2> QED BY <1>3, <2>1 DEF CompleteJob
<1>4. ASSUME NEW p \in Pollers,
             ListFeeds(p) \/ Fetch(p) \/ BaselineItem(p) \/ FinishPoll(p) \/ CrashPoll(p)
      PROVE  feed'.counter = feed.counter /\ posts' = posts
  BY <1>0, <1>4 DEF ListFeeds, Fetch, BaselineItem, FinishPoll, CrashPoll
<1>5. ASSUME NEW k \in Items, CancelJob(k) \/ NewItem(k) \/ LeaseEnds(k) \/ DeletePost(k)
      PROVE  feed'.counter = feed.counter /\ posts' = posts
  BY <1>5 DEF CancelJob, NewItem, LeaseEnds, DeletePost
<1>6. CASE Midnight \/ DeleteFeed \/ UNCHANGED rssVars
  BY <1>0, <1>6 DEF Midnight, DeleteFeed, rssVars
<1> QED BY <1>2, <1>3, <1>4, <1>5, <1>6 DEF RSSNext, PollStep

\* The counter agrees with the posts after every step.
LEMMA CounterInvNext == ItemsInv /\ CounterInv /\ [RSSNext]_rssVars => CounterInv'
<1> SUFFICES ASSUME ItemsInv, CounterInv, [RSSNext]_rssVars PROVE CounterInv'
  OBVIOUS
<1>1. CASE feed'.counter = feed.counter /\ posts' = posts
  BY <1>1 DEF CounterInv
<1>2. ASSUME NEW k \in Items, NEW r, posts[k] = 0, CreatePost(k, r) PROVE CounterInv'
  <2> DEFINE S == {j \in Items : posts[j] = 1}
  <2>1. {j \in Items : posts'[j] = 1} = S \cup {k} /\ k \notin S
    BY <1>2 DEF CreatePost, ItemsInv, RSSTypeOK
  <2>2. IsFiniteSet(S)
    BY RSSAssumption, FS_Subset
  <2>3. Cardinality(S \cup {k}) = Cardinality(S) + 1
    BY <2>1, <2>2, FS_AddElement
  <2>4. feed'.counter = feed.counter + 1
    BY <1>2 DEF CreatePost, ItemsInv, RSSTypeOK
  <2> QED BY <2>1, <2>3, <2>4 DEF CounterInv
<1> QED BY <1>1, <1>2, PostsAppear

\* An item becomes at most one post, and counter_next counts these posts.
THEOREM OnePostHolds == RSSSpec => []OnePostPerItem
<1>1. RSSInit => CounterInv
  <2> SUFFICES ASSUME RSSInit PROVE CounterInv
    OBVIOUS
  <2>1. {k \in Items : posts[k] = 1} = {}
    BY DEF RSSInit
  <2> QED BY <2>1, FS_EmptySet DEF RSSInit, CounterInv
<1>2. ItemsInv /\ CounterInv => OnePostPerItem
  BY DEF ItemsInv, ItemAt, CounterInv, OnePostPerItem
<1> QED BY <1>1, <1>2, ItemsInvHolds, CounterInvNext, PTL DEF RSSSpec
-----------------------------------------------------------------------------
(* The budget.                                                             *)

\* What BudgetHeld counts.
Uses(k) == item[k].today /\ (item[k].consumed \/ jobs[k] > 0)

\* A step lets no item use the budget that did not, except by a claim, and that
\* leaves all other items as they are.
LEMMA UseNeedsClaim ==
  ASSUME ItemsInv, [RSSNext]_rssVars
  PROVE  \/ \A j \in Items : Uses(j)' => Uses(j)
         \/ \E k \in Items : /\ feed.exists /\ Claimable(k)
                             /\ \A j \in Items \ {k} : Uses(j)' = Uses(j)
<1>0. RowTypes
  BY DEF ItemsInv, RSSTypeOK, RowTypes
<1>i. ASSUME NEW k \in Items, ImportItem(k)
      PROVE  \/ \A j \in Items : Uses(j)' => Uses(j)
             \/ /\ feed.exists /\ Claimable(k)
                /\ \A j \in Items \ {k} : Uses(j)' = Uses(j)
  <2>1. CASE UNCHANGED <<item, jobs>>
    BY <2>1 DEF Uses
  <2>2. CASE ~UNCHANGED <<item, jobs>>
    <3>1. feed.exists /\ Claimable(k)
      BY <1>i, <2>2 DEF ImportItem
    <3>2. \A j \in Items \ {k} : item'[j] = item[j] /\ jobs'[j] = jobs[j]
      BY <1>0, <1>i, <2>2
         DEF ImportItem, ImportDirectly, Dispatch, DispatchFallback, CreatePost, SetItem, RowTypes
    <3> QED BY <3>1, <3>2 DEF Uses
  <2> QED BY <2>1, <2>2
<1>1. ASSUME NEW p \in Pollers, ImportLatest(p) \/ ImportNext(p)
      PROVE  \/ \A j \in Items : Uses(j)' => Uses(j)
             \/ \E k \in Items : /\ feed.exists /\ Claimable(k)
                                 /\ \A j \in Items \ {k} : Uses(j)' = Uses(j)
  <2>1. PICK k \in poll[p].todo : ImportItem(k)
    BY <1>1 DEF ImportLatest, ImportNext
  <2>2. k \in Items
    BY DEF ItemsInv, RSSTypeOK, PollStates
  <2> QED BY <1>i, <2>1, <2>2
<1>2. ASSUME NEW p \in Pollers, BaselineItem(p) PROVE \A j \in Items : Uses(j)' => Uses(j)
  <2>1. PICK k \in poll[p].todo : RecordRSSImportedItem(k) \/ UNCHANGED item
    BY <1>2 DEF BaselineItem
  <2>2. \A j \in Items : item'[j] = item[j] \/ item'[j].today = FALSE
    BY <1>0, <2>1 DEF RecordRSSImportedItem, NoItem, RowTypes
  <2> QED BY <1>2, <2>2 DEF Uses, BaselineItem
<1>3. ASSUME NEW p \in Pollers, ListFeeds(p) \/ Fetch(p) \/ FinishPoll(p) \/ CrashPoll(p)
      PROVE  \A j \in Items : Uses(j)' => Uses(j)
  BY <1>3 DEF Uses, ListFeeds, Fetch, FinishPoll, CrashPoll
<1>4. ASSUME NEW k \in Items, CompleteJob(k) \/ CancelJob(k)
      PROVE  \A j \in Items : Uses(j)' => Uses(j)
  <2>1. /\ \A j \in Items \ {k} : item'[j] = item[j] /\ jobs'[j] = jobs[j]
        /\ jobs[k] > 0
    BY <1>0, <1>4 DEF CompleteJob, CancelJob, EndJob, Release, CreatePost, SetItem, RowTypes
  <2>2. \/ item'[k] = Linked(item[k]) \/ item'[k] = Released(item[k]) \/ item'[k] = item[k]
    BY <1>0, <1>4 DEF CompleteJob, CancelJob, Release, CreatePost, SetItem, RowTypes
  <2>3. item'[k].today = item[k].today
    <3>1. item[k] \in ItemRows
      BY <1>0 DEF RowTypes
    <3>2. Linked(item[k]).today = item[k].today
      BY <3>1, LinkedRow
    <3>3. Released(item[k]).today = item[k].today
      BY <3>1, ReleasedRow
    <3> QED BY <2>2, <3>2, <3>3
  <2> QED BY <2>1, <2>3 DEF Uses
<1>5. ASSUME NEW k \in Items, NewItem(k) \/ LeaseEnds(k) \/ DeletePost(k)
      PROVE  \A j \in Items : Uses(j)' => Uses(j)
  <2>1. /\ \A j \in Items : /\ item'[j].today = item[j].today
                            /\ item'[j].consumed = item[j].consumed
        /\ jobs' = jobs
    BY <1>0, <1>5 DEF NewItem, LeaseEnds, DeletePost, SetItem, RowTypes, ItemRows
  <2> QED BY <2>1 DEF Uses
<1>6. CASE Midnight \/ DeleteFeed
  <2>1. \A j \in Items : item'[j].today = FALSE
    BY <1>0, <1>6 DEF Midnight, DeleteFeed, NoItem, RowTypes, ItemRows
  <2> QED BY <2>1 DEF Uses
<1>7. CASE UNCHANGED rssVars
  BY <1>7 DEF Uses, rssVars
<1> QED BY <1>1, <1>2, <1>3, <1>4, <1>5, <1>6, <1>7 DEF RSSNext, PollStep

\* The budget survives every step: a claim finds room for one more.
LEMMA BudgetNext == ItemsInv /\ BudgetHeld /\ [RSSNext]_rssVars => BudgetHeld'
<1> SUFFICES ASSUME ItemsInv, BudgetHeld, [RSSNext]_rssVars PROVE BudgetHeld'
  OBVIOUS
<1> DEFINE U == {j \in Items : Uses(j)}
           V == {j \in Items : Uses(j)'}
           C == {j \in Items : item[j].row /\ item[j].today /\ ~Eligible(j)}
<1>0. /\ Cardinality(U) <= MaxPostsPerDay /\ MaxPostsPerDay \in Nat
      /\ BudgetHeld' <=> Cardinality(V) <= MaxPostsPerDay
      /\ IsFiniteSet(U) /\ IsFiniteSet(V) /\ IsFiniteSet(C)
  BY RSSAssumption, FS_Subset DEF BudgetHeld, Uses
<1>1. CASE \A j \in Items : Uses(j)' => Uses(j)
  <2>1. V \subseteq U
    BY <1>1
  <2>2. Cardinality(V) <= Cardinality(U) /\ Cardinality(V) \in Nat /\ Cardinality(U) \in Nat
    BY <1>0, <2>1, FS_Subset, FS_CardinalityType
  <2> HIDE DEF U, V
  <2> QED BY <1>0, <2>2
<1>2. ASSUME NEW k \in Items, feed.exists, Claimable(k),
             \A j \in Items \ {k} : Uses(j)' = Uses(j)
      PROVE  BudgetHeld'
  <2>1. U \subseteq C
    <3> SUFFICES ASSUME NEW j \in Items, Uses(j)
                 PROVE  item[j].row /\ item[j].today /\ ~Eligible(j)
      OBVIOUS
    <3>1. ItemAt(j) /\ jobs[j] \in Nat /\ item[j].today
      BY DEF ItemsInv, RSSTypeOK, Uses
    <3>2. item[j].row
      BY <3>1 DEF ItemAt, NoItem
    <3>3. ~Eligible(j)
      BY <1>2, <3>1 DEF ItemAt, Eligible, Uses
    <3> QED BY <3>1, <3>2, <3>3
  <2>2. V \subseteq C \cup {k}
    BY <1>2, <2>1
  <2>3. Cardinality(C) < MaxPostsPerDay
    BY <1>2 DEF Claimable, CountRSSFeedPostsToday
  <2> HIDE DEF U, V, C
  <2>4. /\ IsFiniteSet(C \cup {k}) /\ Cardinality(C) \in Nat
        /\ Cardinality(C \cup {k}) <= Cardinality(C) + 1
    <3>1. Cardinality(C) \in Nat
      BY <1>0, FS_CardinalityType
    <3>2. /\ IsFiniteSet(C \cup {k})
          /\ Cardinality(C \cup {k}) = IF k \in C THEN Cardinality(C) ELSE Cardinality(C) + 1
      BY <1>0, FS_AddElement
    <3> QED BY <3>1, <3>2
  <2>5. Cardinality(V) <= Cardinality(C \cup {k})
    BY <2>2, <2>4, FS_Subset
  <2>6. Cardinality(V) \in Nat /\ Cardinality(C \cup {k}) \in Nat
    BY <1>0, <2>4, FS_CardinalityType
  <2> QED BY <1>0, <2>3, <2>4, <2>5, <2>6
<1> QED BY <1>1, <1>2, UseNeedsClaim

\* The reservations and imports of a day stay within the feed's budget, with any
\* number of polls at once.
THEOREM BudgetIsHeld == RSSSpec => []BudgetHeld
<1>1. RSSInit => BudgetHeld
  <2> SUFFICES ASSUME RSSInit PROVE BudgetHeld
    OBVIOUS
  <2>1. {k \in Items : item[k].today /\ (item[k].consumed \/ jobs[k] > 0)} = {}
    BY DEF RSSInit, NoItem
  <2>2. Cardinality({}) = 0
    BY FS_EmptySet
  <2>3. MaxPostsPerDay \in Nat
    BY RSSAssumption
  <2> QED BY <2>1, <2>2, <2>3 DEF BudgetHeld
<1> QED BY <1>1, ItemsInvHolds, BudgetNext, PTL DEF RSSSpec
-----------------------------------------------------------------------------
(* The backlog of a feed that starts with new items.                       *)

\* No attempt was ever made at the item.
Fresh(k) == /\ posts[k] = 0 /\ jobs[k] = 0
            /\ feed.exists => item[k].attempts = 0 /\ ~item[k].retry

\* A poll knows what is true; a first poll has marked what it is done with.
PollAt(p) ==
  /\ poll[p].known => feed.fetched
  /\ poll[p].pc = "import" => poll[p].known
  /\ poll[p].pc # "latest"
  /\ poll[p].pc = "baseline" /\ feed.exists =>
       \A k \in poll[p].found \ poll[p].todo : item[k].row

BacklogInv ==
  feed.mode = "baseline" =>
    /\ \A p \in Pollers : PollAt(p)
    /\ ~feed.fetched => \A k \in Items : Fresh(k)
    /\ \A k \in backlog : Fresh(k) /\ (feed.exists => item[k].row)

\* A marked item that nobody tried is not imported.
LEMMA MarkedIsSkipped ==
  ASSUME NEW k \in Items, Fresh(k), feed.exists, item[k].row PROVE RSSItemAlreadyImported(k)
BY DEF Fresh, RSSItemAlreadyImported, Eligible

\* What the treatment of one item leaves alone.
LEMMA ImportFrame ==
  ASSUME ItemsInv, NEW k \in Items, ImportItem(k)
  PROVE  /\ feed'.mode = feed.mode /\ feed'.fetched = feed.fetched
         /\ feed'.exists = feed.exists
         /\ \A j \in Items : item[j].row => item'[j].row
         /\ \A j \in Items \ {k} : Fresh(j) => Fresh(j)'
         /\ Fresh(k) /\ (feed.exists => item[k].row) => Fresh(k)'
<1>0. RowTypes /\ item[k] \in ItemRows
  BY DEF ItemsInv, RSSTypeOK, RowTypes
<1>1. /\ feed' = feed \/ feed' = [feed EXCEPT !.counter = @ + 1]
      /\ \A j \in Items \ {k} : item'[j] = item[j] /\ jobs'[j] = jobs[j] /\ posts'[j] = posts[j]
  BY <1>0 DEF ImportItem, ImportDirectly, Dispatch, DispatchFallback, CreatePost, SetItem, RowTypes
<1>2. /\ feed'.mode = feed.mode /\ feed'.fetched = feed.fetched
      /\ feed'.exists = feed.exists
  BY <1>0, <1>1 DEF RowTypes
<1>3. item[k].row => item'[k].row
  <2>1. CASE UNCHANGED item
    BY <2>1
  <2>2. CASE item' # item
    <3>1. feed.exists /\ Claimable(k)
      BY <2>2 DEF ImportItem
    <3>2. Claimed(k) \in ItemRows /\ Claimed(k).row = TRUE
      BY <1>0, <3>1, ClaimFacts, ClaimedRow
    <3>3. Linked(Claimed(k)).row = TRUE /\ Released(Claimed(k)).row = TRUE
      BY <3>2, LinkedRow, ReleasedRow
    <3>4. \/ item'[k] = Claimed(k) \/ item'[k] = Linked(Claimed(k))
          \/ item'[k] = Released(Claimed(k))
      BY <1>0, <2>2
         DEF ImportItem, ImportDirectly, Dispatch, DispatchFallback, CreatePost, SetItem, RowTypes
    <3> QED BY <3>2, <3>3, <3>4
  <2> QED BY <2>1, <2>2
<1>4. ASSUME Fresh(k), feed.exists => item[k].row PROVE Fresh(k)'
  <2>1. ~feed.exists \/ RSSItemAlreadyImported(k)
    BY <1>4, MarkedIsSkipped
  <2>2. UNCHANGED <<feed, item, jobs, posts>>
    BY <2>1 DEF ImportItem
  <2> QED BY <1>4, <2>2 DEF Fresh
<1>5. \A j \in Items \ {k} : Fresh(j) => Fresh(j)'
  BY <1>1, <1>2 DEF Fresh
<1> QED BY <1>1, <1>2, <1>3, <1>4, <1>5

\* The backlog is safe before the first poll ...
LEMMA BacklogInit == RSSInit => BacklogInv
BY DEF RSSInit, BacklogInv, PollAt, Fresh, NoPoll, NoItem

\* When rows stay, untried items stay untried and the feed keeps its mode, the
\* polls that do not move and the backlog are safe.
LEMMA BacklogFrame ==
  ASSUME ItemsInv, BacklogInv, feed.mode = "baseline",
         feed'.fetched = feed.fetched, feed'.exists => feed.exists, UNCHANGED backlog,
         feed'.exists => \A j \in Items : item[j].row => item'[j].row,
         ~feed.fetched => \A j \in Items : Fresh(j) => Fresh(j)',
         \A j \in backlog : Fresh(j) => Fresh(j)',
         \A p \in Pollers : poll'[p] = poll[p] \/ PollAt(p)'
  PROVE  BacklogInv'
<1>1. /\ backlog \in SUBSET Items
      /\ \A p \in Pollers : poll[p].found \in SUBSET Items
  BY DEF ItemsInv, RSSTypeOK, PollStates
<1>2. ASSUME NEW p \in Pollers PROVE PollAt(p)'
  <2>1. CASE poll'[p] = poll[p]
    BY <1>1, <2>1 DEF BacklogInv, PollAt
  <2> QED BY <2>1
<1>3. ~feed'.fetched => \A k \in Items : Fresh(k)'
  BY DEF BacklogInv
<1>4. \A k \in backlog' : Fresh(k)' /\ (feed'.exists => item'[k].row)
  BY <1>1 DEF BacklogInv
<1> QED BY <1>2, <1>3, <1>4 DEF BacklogInv

\* ... and after every step.
LEMMA BacklogNext == ItemsInv /\ BacklogInv /\ [RSSNext]_rssVars => BacklogInv'
<1> SUFFICES ASSUME ItemsInv, BacklogInv, [RSSNext]_rssVars PROVE BacklogInv'
  OBVIOUS
<1>0. /\ RowTypes /\ online \in SUBSET Items /\ backlog \in SUBSET Items
      /\ poll \in [Pollers -> PollStates]
  BY DEF ItemsInv, RSSTypeOK, RowTypes
<1>m. feed'.mode = feed.mode
  <2>1. ASSUME NEW p \in Pollers, PollStep(p) PROVE feed'.mode = feed.mode
    <3>1. ASSUME NEW k \in poll[p].todo, ImportItem(k) PROVE feed'.mode = feed.mode
      BY <1>0, <3>1, ImportFrame DEF PollStates
    <3> QED BY <1>0, <2>1, <3>1 DEF PollStep, ListFeeds, Fetch, ImportLatest, BaselineItem,
            ImportNext, FinishPoll, RowTypes
  <2> QED BY <1>0, <2>1 DEF RSSNext, CrashPoll, CompleteJob, CreatePost, CancelJob, NewItem,
          LeaseEnds, DeletePost, Midnight, DeleteFeed, rssVars, RowTypes
<1> SUFFICES ASSUME feed.mode = "baseline" PROVE BacklogInv'
  BY <1>m DEF BacklogInv
<1>p. ASSUME NEW p \in Pollers PROVE PollAt(p) /\ poll[p] \in PollStates
  BY <1>0 DEF BacklogInv
<1>g. ASSUME NEW p \in Pollers, NEW s, Goto(p, s)
      PROVE  poll'[p] = s /\ \A q \in Pollers \ {p} : poll'[q] = poll[q]
  BY <1>0, <1>g DEF Goto
<1>i. ASSUME NEW p \in Pollers, NEW s, Goto(p, s), PollAt(p)',
             UNCHANGED <<feed, item, jobs, posts, backlog>>
      PROVE  BacklogInv'
  <2>1. \A q \in Pollers : poll'[q] = poll[q] \/ PollAt(q)'
    BY <1>g, <1>i
  <2>2. \A j \in Items : Fresh(j) => Fresh(j)'
    BY <1>i DEF Fresh
  <2> QED BY <1>0, <1>i, <2>1, <2>2, BacklogFrame
<1>1. ASSUME NEW p \in Pollers, ListFeeds(p) PROVE BacklogInv'
  <2> DEFINE s == IF feed.exists THEN [NoPoll EXCEPT !.pc = "fetch", !.known = feed.fetched]
                  ELSE NoPoll
  <2>1. s.known => feed.fetched
    BY DEF NoPoll
  <2>2. s.pc \in {"fetch", "idle"}
    BY DEF NoPoll
  <2>3. Goto(p, s) /\ UNCHANGED <<feed, item, jobs, posts, backlog>>
    BY <1>1 DEF ListFeeds
  <2> HIDE DEF s
  <2>4. PollAt(p)'
    BY <1>g, <2>1, <2>2, <2>3 DEF PollAt
  <2> QED BY <1>i, <2>3, <2>4
<1>2. ASSUME NEW p \in Pollers, NoPoll = poll'[p], Goto(p, NoPoll),
             UNCHANGED <<feed, item, jobs, posts, backlog>>
      PROVE  BacklogInv'
  BY <1>2, <1>i DEF PollAt, NoPoll
<1>3. ASSUME NEW p \in Pollers, Fetch(p) PROVE BacklogInv'
  <2>1. UNCHANGED <<feed, item, jobs, posts, backlog>>
    BY <1>3 DEF Fetch
  <2>2. CASE Goto(p, NoPoll)
    BY <1>2, <1>g, <2>1, <2>2
  <2>3. CASE ~Goto(p, NoPoll)
    <3> DEFINE c == IF poll[p].known THEN "import"
                    ELSE IF feed.mode = "publish_latest" /\ online # {} THEN "latest"
                    ELSE "baseline"
               s == [poll[p] EXCEPT !.pc = c, !.found = online, !.todo = online]
    <3>1. (c = "import" => poll[p].known) /\ c # "latest"
      OBVIOUS
    <3>2. Goto(p, s)
      BY <1>3, <2>3 DEF Fetch
    <3> HIDE DEF c
    <3>3. s.pc = c /\ s.known = poll[p].known /\ s.found = online /\ s.todo = online
      BY <1>p DEF PollStates
    <3> HIDE DEF s
    <3>4. PollAt(p)'
      BY <1>g, <1>p, <2>1, <3>1, <3>2, <3>3 DEF PollAt
    <3> QED BY <1>i, <2>1, <3>2, <3>4
  <2> QED BY <2>2, <2>3
<1>4. ASSUME NEW p \in Pollers, ImportLatest(p) PROVE FALSE
  BY <1>4, <1>p DEF ImportLatest, PollAt
<1>5. ASSUME NEW p \in Pollers, ImportNext(p) PROVE BacklogInv'
  <2>1. PICK k \in poll[p].todo :
             ImportItem(k) /\ Goto(p, [poll[p] EXCEPT !.todo = @ \ {k}])
    BY <1>5 DEF ImportNext
  <2>2. k \in Items /\ poll[p].pc = "import" /\ poll[p].known /\ feed.fetched
    BY <1>5, <1>p DEF PollStates, ImportNext, PollAt
  <2>3. /\ feed'.fetched = feed.fetched /\ feed'.exists = feed.exists
        /\ \A j \in Items : item[j].row => item'[j].row
        /\ \A j \in Items \ {k} : Fresh(j) => Fresh(j)'
        /\ Fresh(k) /\ (feed.exists => item[k].row) => Fresh(k)'
    BY <2>1, <2>2, ImportFrame
  <2>4. \A j \in backlog : Fresh(j) => Fresh(j)'
    BY <1>0, <2>3 DEF BacklogInv
  <2>5. PollAt(p)'
    <3>0. poll'[p] = [poll[p] EXCEPT !.todo = @ \ {k}]
      BY <1>g, <2>1
    <3>1. poll'[p].pc = "import" /\ poll'[p].known = poll[p].known
      BY <1>p, <2>2, <3>0 DEF PollStates
    <3> QED BY <2>2, <2>3, <3>1 DEF PollAt
  <2>6. \A q \in Pollers : poll'[q] = poll[q] \/ PollAt(q)'
    BY <1>g, <2>1, <2>5
  <2>7. UNCHANGED backlog
    BY <1>5 DEF ImportNext
  <2> QED BY <2>2, <2>3, <2>4, <2>6, <2>7, BacklogFrame
<1>6. ASSUME NEW p \in Pollers, BaselineItem(p) PROVE BacklogInv'
  <2>1. PICK k \in poll[p].todo :
          \/ /\ feed.exists
             /\ RecordRSSImportedItem(k)
             /\ Goto(p, [poll[p] EXCEPT !.todo = @ \ {k}])
          \/ /\ Goto(p, [poll[p] EXCEPT !.todo = @ \ {k}, !.found = @ \ {k}])
             /\ UNCHANGED item
    BY <1>6 DEF BaselineItem
  <2>2. /\ UNCHANGED <<feed, jobs, posts, backlog>> /\ poll[p].pc = "baseline" /\ k \in Items
    BY <1>6, <1>p DEF BaselineItem, PollStates
  <2>3. ASSUME NEW j \in Items
        PROVE  /\ item[j].row => item'[j].row
               /\ Fresh(j) => Fresh(j)'
    <3> DEFINE r == [NoItem EXCEPT !.row = TRUE, !.fresh = TRUE]
    <3>1. r.attempts = 0 /\ r.retry = FALSE /\ r.row = TRUE
      BY DEF NoItem
    <3>2. item'[j] = item[j] \/ (~item[j].row /\ item'[j] = r)
      BY <1>0, <2>1, <2>2 DEF RecordRSSImportedItem, RowTypes
    <3> HIDE DEF r
    <3> QED BY <2>2, <3>1, <3>2 DEF Fresh
  <2>4. PollAt(p)'
    <3>1. CASE RecordRSSImportedItem(k) /\ Goto(p, [poll[p] EXCEPT !.todo = @ \ {k}])
      <4>1. item'[k].row
        BY <1>0, <2>2, <3>1 DEF RecordRSSImportedItem, NoItem, RowTypes
      <4>2. /\ poll'[p].pc = poll[p].pc /\ poll'[p].known = poll[p].known
            /\ poll'[p].found = poll[p].found /\ poll'[p].todo = poll[p].todo \ {k}
        BY <1>g, <1>p, <3>1 DEF PollStates
      <4> QED BY <1>p, <2>2, <2>3, <4>1, <4>2 DEF PollAt, PollStates
    <3>2. CASE Goto(p, [poll[p] EXCEPT !.todo = @ \ {k}, !.found = @ \ {k}])
      <4>1. /\ poll'[p].pc = poll[p].pc /\ poll'[p].known = poll[p].known
            /\ poll'[p].found = poll[p].found \ {k} /\ poll'[p].todo = poll[p].todo \ {k}
        <5>1. poll'[p] = [poll[p] EXCEPT !.todo = @ \ {k}, !.found = @ \ {k}]
          BY <1>g, <3>2
        <5> QED BY <1>p, <5>1 DEF PollStates
      <4> QED BY <1>p, <2>2, <2>3, <4>1 DEF PollAt, PollStates
    <3> QED BY <2>1, <3>1, <3>2
  <2>5. \A q \in Pollers : poll'[q] = poll[q] \/ PollAt(q)'
    BY <1>g, <2>1, <2>4
  <2> QED BY <1>0, <2>2, <2>3, <2>5, BacklogFrame
<1>7. ASSUME NEW p \in Pollers, FinishPoll(p) PROVE BacklogInv'
  <2>1. Goto(p, NoPoll) /\ UNCHANGED <<item, jobs, posts>>
    BY <1>7 DEF FinishPoll
  <2>2. CASE UNCHANGED <<feed, backlog>>
    BY <1>2, <1>g, <2>1, <2>2
  <2>3. CASE ~UNCHANGED <<feed, backlog>>
    <3>1. /\ feed.exists /\ feed' = [feed EXCEPT !.fetched = TRUE]
          /\ backlog' = IF feed.fetched THEN backlog ELSE poll[p].found
          /\ poll[p].pc \in {"baseline", "import"} /\ poll[p].todo = {}
      BY <1>7, <2>3 DEF FinishPoll
    <3>2. feed'.fetched = TRUE /\ feed'.exists = feed.exists
      BY <1>0, <3>1 DEF RowTypes
    <3>3. \A q \in Pollers : PollAt(q)'
      <4>1. PollAt(p)'
        BY <1>g, <2>1 DEF PollAt, NoPoll
      <4>2. ASSUME NEW q \in Pollers \ {p} PROVE PollAt(q)'
        BY <1>g, <1>p, <2>1, <3>2 DEF PollAt
      <4> QED BY <4>1, <4>2
    <3>4. \A k \in Items : Fresh(k) => Fresh(k)'
      BY <2>1, <3>2 DEF Fresh
    <3>5. \A k \in backlog' : Fresh(k)' /\ (feed'.exists => item'[k].row)
      <4>1. CASE feed.fetched
        BY <1>0, <2>1, <3>1, <3>2, <3>4, <4>1 DEF BacklogInv
      <4>2. CASE ~feed.fetched
        <5>1. poll[p].pc = "baseline" /\ poll[p].found \subseteq Items
          BY <1>p, <3>1, <4>2 DEF PollAt, PollStates
        <5> QED BY <1>p, <2>1, <3>1, <3>2, <3>4, <4>2, <5>1 DEF BacklogInv, PollAt
      <4> QED BY <4>1, <4>2
    <3> QED BY <3>2, <3>3, <3>5 DEF BacklogInv
  <2> QED BY <2>2, <2>3
<1>8. ASSUME NEW k \in Items, CompleteJob(k) \/ CancelJob(k) PROVE BacklogInv'
  <2>1. jobs[k] > 0 /\ jobs[k] # 0 /\ ~Fresh(k) /\ UNCHANGED <<poll, backlog>>
    BY <1>0, <1>8 DEF CompleteJob, CancelJob, EndJob, Fresh, RowTypes
  <2>2. /\ feed' = feed \/ feed' = [feed EXCEPT !.counter = @ + 1]
        /\ \A j \in Items \ {k} : item'[j] = item[j] /\ jobs'[j] = jobs[j] /\ posts'[j] = posts[j]
    BY <1>0, <1>8 DEF CompleteJob, CancelJob, EndJob, Release, CreatePost, SetItem, RowTypes
  <2>3. feed'.fetched = feed.fetched /\ feed'.exists = feed.exists
    BY <1>0, <2>2 DEF RowTypes
  <2>4. \A j \in Items : Fresh(j) => Fresh(j)'
    BY <2>1, <2>2, <2>3 DEF Fresh
  <2>5. item[k].row => item'[k].row
    <3>1. \/ item'[k] = Linked(item[k]) \/ item'[k] = Released(item[k]) \/ item'[k] = item[k]
      BY <1>0, <1>8 DEF CompleteJob, CancelJob, Release, CreatePost, SetItem, RowTypes
    <3>2. item[k] \in ItemRows
      BY <1>0 DEF RowTypes
    <3>3. Linked(item[k]).row = TRUE
      BY <3>2, LinkedRow
    <3>4. Released(item[k]).row = item[k].row
      BY <3>2, ReleasedRow
    <3> QED BY <3>1, <3>3, <3>4
  <2> QED BY <1>0, <2>1, <2>2, <2>3, <2>4, <2>5, BacklogFrame
<1>9. ASSUME NEW k \in Items, NewItem(k) \/ LeaseEnds(k) \/ DeletePost(k) PROVE BacklogInv'
  <2>1. /\ \A j \in Items : /\ item'[j].row = item[j].row
                            /\ item'[j].attempts = item[j].attempts
                            /\ item'[j].retry = item[j].retry
        /\ UNCHANGED <<feed, jobs, posts, poll, backlog>>
    BY <1>0, <1>9 DEF NewItem, LeaseEnds, DeletePost, SetItem, RowTypes, ItemRows
  <2>2. \A j \in Items : Fresh(j) => Fresh(j)'
    BY <2>1 DEF Fresh
  <2> QED BY <1>0, <2>1, <2>2, BacklogFrame
<1>10. CASE Midnight
  <2>1. /\ \A j \in Items : /\ item'[j].row = item[j].row
                            /\ item'[j].attempts = item[j].attempts
                            /\ item'[j].retry = item[j].retry
        /\ UNCHANGED <<feed, jobs, posts, poll, backlog>>
    BY <1>0, <1>10 DEF Midnight, RowTypes, ItemRows
  <2>2. \A j \in Items : Fresh(j) => Fresh(j)'
    BY <2>1 DEF Fresh
  <2> QED BY <1>0, <2>1, <2>2, BacklogFrame
<1>11. CASE DeleteFeed
  <2>1. feed'.exists = FALSE /\ feed'.fetched = feed.fetched
        /\ UNCHANGED <<jobs, posts, poll, backlog>>
    BY <1>0, <1>11 DEF DeleteFeed, RowTypes
  <2>2. \A j \in Items : Fresh(j) => Fresh(j)'
    BY <2>1 DEF Fresh
  <2> QED BY <1>0, <2>1, <2>2, BacklogFrame
<1>12. CASE UNCHANGED rssVars
  BY <1>12 DEF rssVars, BacklogInv, PollAt, Fresh
<1>13. ASSUME NEW p \in Pollers, CrashPoll(p) PROVE BacklogInv'
  BY <1>2, <1>g, <1>13 DEF CrashPoll
<1> QED BY <1>1, <1>3, <1>4, <1>5, <1>6, <1>7, <1>8, <1>9, <1>10, <1>11, <1>12, <1>13
        DEF RSSNext, PollStep

\* A feed that is to start with new items never publishes one its first poll
\* marked, with any number of first polls at once.
THEOREM BacklogIsSafe == RSSSpec => []BacklogStaysOut
<1>1. BacklogInv => BacklogStaysOut
  BY DEF BacklogInv, BacklogStaysOut, Fresh
<1> QED BY <1>1, BacklogInit, ItemsInvHolds, BacklogNext, PTL DEF RSSSpec
-----------------------------------------------------------------------------
(* PostTemplates.                                                          *)

\* A set of naturals has a least member.
LEMMA SmallestMember ==
  ASSUME NEW T, T \subseteq Nat, T # {}
  PROVE  \E m \in T : \A k \in T : m <= k
<1>1. IsWellFoundedOn(OpToRel(<,Nat), Nat)
  BY NatLessThanWellFounded
<1>2. PICK m \in T : \A k \in T : ~(<<k, m>> \in OpToRel(<,Nat))
  <2> HIDE DEF OpToRel
  <2> QED BY <1>1, WFMin
<1>3. \A k \in T : ~(k < m)
  BY <1>2 DEF OpToRel
<1> QED BY <1>3

PostRow(p) == p \in [id : {p.id}, occ : Slots, role : {p.role}, ctr : {p.ctr},
                     status : {"open", "taken", "cancelled"}]
JobRow(j)  == j \in [id : {j.id}, occ : Slots, role : {j.role}, ctr : {j.ctr}]
TemplateRow(t) ==
  t \in [exists : BOOLEAN, enabled : BOOLEAN, rule : Rules, cursor : 0..MaxTime + 1,
         counter : {t.counter}, annOn : {t.annOn}, annCounter : {t.annCounter}, ai : {t.ai}]

\* The record a transaction works on.
RecordShape(st) ==
  /\ st \in [tmpl : {st.tmpl}, posts : {st.posts}, jobs : {st.jobs}]
  /\ TemplateRow(st.tmpl)
  /\ \A p \in st.posts : PostRow(p)
  /\ \A j \in st.jobs : JobRow(j)

\* What takes a role of a round: posts that are not cancelled and unfinished jobs.
LiveOf(st) == LinkedPosts(st) \cup st.jobs
OnePerRole(st) == \A e, f \in LiveOf(st) : e.occ = f.occ /\ e.role = f.role => e = f

\* The slot has not been skipped without a new time.
Free(sk, occ) == ~(sk[occ].scope = "occurrence" /\ sk[occ].shift = NoTime)
SkippedAreClear(st, sk) == \A e \in LiveOf(st) : Free(sk, e.occ)

\* held: no editor has taken a post away by hand.
RoundsSound(st, sk, held) ==
  RecordShape(st) /\ OnePerRole(st) /\ (held => SkippedAreClear(st, sk))

\* The new time of a shifted round is that of no other round.
ShiftsApart == \A s \in Shifts : s[2] \notin UNION Rules

\* A round is shifted to the slot of no round, and skipped at one.
SkipsSound(sk, held) ==
  /\ sk \in [Slots -> [scope : Scopes, shift : Slots \cup {NoTime}]]
  /\ held => \A t \in Slots : sk[t].shift \notin UNION Rules
  /\ held => \A t \in Slots : ~Free(sk, t) => t \in UNION Rules

LEMMA PostIsNoJob == ASSUME NEW e, PostRow(e) PROVE ~JobRow(e)
<1>1. "status" \in DOMAIN e
  BY DEF PostRow
<1>2. JobRow(e) => DOMAIN e = {"id", "occ", "role", "ctr"}
  BY DEF JobRow
<1> QED BY <1>1, <1>2

\* Nothing is lost by taking away.
LEMMA LiveTaken ==
  ASSUME NEW st, NEW sk, NEW held, NEW to, OnePerRole(st), RecordShape(to),
         LiveOf(to) \subseteq LiveOf(st), held => SkippedAreClear(to, sk)
  PROVE  RoundsSound(to, sk, held)
BY DEF RoundsSound, OnePerRole

\* A role that nobody takes is given to one.
LEMMA LiveAdded ==
  ASSUME NEW st, NEW sk, NEW held, RoundsSound(st, sk, held), NEW occ, NEW role,
         ~Has(st, occ, role), held => Free(sk, occ),
         NEW e, e.occ = occ, e.role = role,
         NEW to, RecordShape(to), LiveOf(to) \subseteq LiveOf(st) \cup {e}
  PROVE  RoundsSound(to, sk, held)
<1>1. \A f \in LiveOf(st) : ~(f.occ = occ /\ f.role = role)
  BY DEF Has, LiveOf, LinkedPosts
<1>2. OnePerRole(to)
  BY <1>1 DEF RoundsSound, OnePerRole
<1>3. held => SkippedAreClear(to, sk)
  BY DEF RoundsSound, SkippedAreClear
<1> QED BY <1>2, <1>3 DEF RoundsSound

\* It passes from one to another.
LEMMA LivePassed ==
  ASSUME NEW st, NEW sk, NEW held, RoundsSound(st, sk, held),
         NEW e \in LiveOf(st), NEW n, n.occ = e.occ, n.role = e.role,
         NEW to, RecordShape(to), LiveOf(to) \subseteq (LiveOf(st) \ {e}) \cup {n}
  PROVE  RoundsSound(to, sk, held)
<1>1. OnePerRole(to)
  BY DEF RoundsSound, OnePerRole
<1>2. held => SkippedAreClear(to, sk)
  BY DEF RoundsSound, SkippedAreClear
<1> QED BY <1>1, <1>2 DEF RoundsSound

\* The row of the template changes.
LEMMA RowSet ==
  ASSUME NEW st, NEW sk, NEW held, RoundsSound(st, sk, held), NEW t, TemplateRow(t)
  PROVE  RoundsSound([st EXCEPT !.tmpl = t], sk, held)
<1> DEFINE to == [st EXCEPT !.tmpl = t]
<1>1. to.tmpl = t /\ to.posts = st.posts /\ to.jobs = st.jobs
  BY DEF RoundsSound, RecordShape
<1>2. to \in [tmpl : {t}, posts : {st.posts}, jobs : {st.jobs}]
  BY DEF RoundsSound, RecordShape
<1> HIDE DEF to
<1>3. RecordShape(to)
  BY <1>1, <1>2 DEF RoundsSound, RecordShape
<1>4. LiveOf(to) = LiveOf(st)
  BY <1>1 DEF LiveOf, LinkedPosts
<1>5. RoundsSound(to, sk, held)
  BY <1>3, <1>4 DEF RoundsSound, OnePerRole, SkippedAreClear
<1> QED BY <1>5 DEF to

LEMMA PostMade ==
  ASSUME NEW st, NEW sk, NEW held, RoundsSound(st, sk, held), NEW occ \in Slots, NEW role, NEW ctr,
         held => Free(sk, occ)
  PROVE  RoundsSound(createAutomationPost(st, occ, role, ctr), sk, held)
<1>1. CASE Has(st, occ, role)
  BY <1>1 DEF createAutomationPost
<1>2. CASE ~Has(st, occ, role)
  <2> DEFINE n == [id |-> FreshId(st), occ |-> occ, role |-> role, ctr |-> ctr, status |-> "open"]
             to == [st EXCEPT !.posts = st.posts \cup {n}]
  <2>1. createAutomationPost(st, occ, role, ctr) = to
    BY <1>2 DEF createAutomationPost
  <2>2. PostRow(n) /\ n.occ = occ /\ n.role = role /\ n.status # "cancelled"
    BY DEF PostRow
  <2> HIDE DEF n
  <2>3. to.tmpl = st.tmpl /\ to.posts = st.posts \cup {n} /\ to.jobs = st.jobs
    BY DEF RoundsSound, RecordShape
  <2>4. to \in [tmpl : {to.tmpl}, posts : {to.posts}, jobs : {to.jobs}]
    BY DEF RoundsSound, RecordShape
  <2> HIDE DEF to
  <2>5. RecordShape(to)
    BY <2>2, <2>3, <2>4 DEF RoundsSound, RecordShape
  <2>6. LiveOf(to) \subseteq LiveOf(st) \cup {n}
    BY <2>3 DEF LiveOf, LinkedPosts
  <2> QED BY <1>2, <2>1, <2>2, <2>5, <2>6, LiveAdded
<1> QED BY <1>1, <1>2

LEMMA JobMade ==
  ASSUME NEW st, NEW sk, NEW held, RoundsSound(st, sk, held), NEW occ \in Slots, NEW role, NEW ctr,
         held => Free(sk, occ), ~Has(st, occ, role)
  PROVE  RoundsSound(submitRecurringAIJob(st, occ, role, ctr), sk, held)
<1> DEFINE n == [id |-> FreshId(st), occ |-> occ, role |-> role, ctr |-> ctr]
           to == [st EXCEPT !.jobs = st.jobs \cup {n}]
<1>1. submitRecurringAIJob(st, occ, role, ctr) = to
  BY DEF submitRecurringAIJob
<1>2. JobRow(n) /\ n.occ = occ /\ n.role = role
  BY DEF JobRow
<1> HIDE DEF n
<1>3. to.tmpl = st.tmpl /\ to.posts = st.posts /\ to.jobs = st.jobs \cup {n}
  BY DEF RoundsSound, RecordShape
<1>4. to \in [tmpl : {to.tmpl}, posts : {to.posts}, jobs : {to.jobs}]
  BY DEF RoundsSound, RecordShape
<1> HIDE DEF to
<1>5. RecordShape(to)
  BY <1>2, <1>3, <1>4 DEF RoundsSound, RecordShape
<1>6. LiveOf(to) \subseteq LiveOf(st) \cup {n}
  BY <1>3 DEF LiveOf, LinkedPosts
<1> QED BY <1>1, <1>2, <1>5, <1>6, LiveAdded

LEMMA MainMade ==
  ASSUME NEW st, NEW sk, NEW held, RoundsSound(st, sk, held), NEW occ \in Slots, NEW ctr, NEW ai,
         held => Free(sk, occ)
  PROVE  RoundsSound(createScheduledPostFromTemplate(st, occ, ctr, ai), sk, held)
BY PostMade, JobMade DEF createScheduledPostFromTemplate

LEMMA LeastOf ==
  ASSUME NEW S, S \subseteq Nat, S # {}
  PROVE  Min(S) \in S /\ \A k \in S : Min(S) <= k
<1>1. PICK m \in S : \A k \in S : m <= k
  BY SmallestMember
<1> QED BY <1>1 DEF Min
LEMMA NextIsASlot ==
  ASSUME NEW rule \in Rules, NEW t
  PROVE  NextOccurrence(rule, t) \in 0..MaxTime + 1
<1> DEFINE later == {u \in rule : u > t}
<1>1. later \subseteq Slots /\ MaxTime \in Nat
  BY TemplateAssumption
<1>2. CASE later = {}
  BY <1>1, <1>2 DEF NextOccurrence
<1>3. CASE later # {}
  <2>1. NextOccurrence(rule, t) = Min(later)
    BY <1>3 DEF NextOccurrence
  <2>2. Slots \subseteq Nat /\ Slots \subseteq 0..MaxTime + 1
    BY TemplateAssumption DEF Slots
  <2> HIDE DEF later
  <2>3. Min(later) \in later
    BY <1>1, <1>3, <2>2, LeastOf
  <2> QED BY <1>1, <2>1, <2>2, <2>3
<1> QED BY <1>2, <1>3

LEMMA AnnouncementMade ==
  ASSUME NEW st, NEW sk, NEW held, RoundsSound(st, sk, held), NEW occ \in Slots, NEW ctr,
         NEW advance, NEW ai
  PROVE  RoundsSound(materializeAnnouncement(st, sk, occ, ctr, advance, ai), sk, held)
<1> DEFINE made == IF "announcement" \in ai
                   THEN submitRecurringAIJob(st, occ, "announcement", ctr)
                   ELSE createAutomationPost(st, occ, "announcement", ctr)
<1>1. CASE ~st.tmpl.annOn \/ IsPostTemplateAnnouncementSkipped(sk, occ) \/ Has(st, occ, "announcement")
  BY <1>1 DEF materializeAnnouncement
<1>2. CASE ~(~st.tmpl.annOn \/ IsPostTemplateAnnouncementSkipped(sk, occ)
             \/ Has(st, occ, "announcement"))
  <2>1. Free(sk, occ)
    BY <1>2 DEF Free, IsPostTemplateAnnouncementSkipped
  <2>2. RoundsSound(made, sk, held)
    BY <1>2, <2>1, PostMade, JobMade
  <2>3. materializeAnnouncement(st, sk, occ, ctr, advance, ai)
        = IF advance THEN AdvancePostTemplateAnnouncementCounter(made, ctr + 1) ELSE made
    BY <1>2 DEF materializeAnnouncement
  <2> HIDE DEF made
  <2>4. CASE advance
    <3> DEFINE t == [made.tmpl EXCEPT !.annCounter = ctr + 1]
    <3>1. TemplateRow(t)
      BY <2>2 DEF RoundsSound, RecordShape, TemplateRow
    <3>2. AdvancePostTemplateAnnouncementCounter(made, ctr + 1) = [made EXCEPT !.tmpl = t]
      BY DEF AdvancePostTemplateAnnouncementCounter
    <3> QED BY <2>2, <2>3, <2>4, <3>1, <3>2, RowSet
  <2> QED BY <2>2, <2>3, <2>4
<1> QED BY <1>1, <1>2

LEMMA ScheduleAdvanced ==
  ASSUME NEW st, NEW sk, NEW held, RoundsSound(st, sk, held), NEW next \in 0..MaxTime + 1, NEW ctr
  PROVE  RoundsSound(AdvancePostTemplateSchedule(st, next, ctr), sk, held)
<1> DEFINE t == [st.tmpl EXCEPT !.cursor = next, !.counter = ctr]
<1>1. TemplateRow(t)
  BY DEF RoundsSound, RecordShape, TemplateRow
<1>2. AdvancePostTemplateSchedule(st, next, ctr) = [st EXCEPT !.tmpl = t]
  BY DEF AdvancePostTemplateSchedule, RoundsSound, RecordShape
<1> QED BY <1>1, <1>2, RowSet

LEMMA StateSet ==
  ASSUME NEW st, NEW sk, NEW held, RoundsSound(st, sk, held), NEW occ \in Slots, NEW main, NEW ann
  PROVE  RoundsSound(SetPostTemplateMaterializationState(st, occ, main, ann), sk, held)
<1> DEFINE t == [st.tmpl EXCEPT !.cursor = occ, !.counter = main, !.annCounter = ann]
<1>0. occ \in 0..MaxTime + 1
  BY TemplateAssumption DEF Slots
<1>1. TemplateRow(t)
  BY <1>0 DEF RoundsSound, RecordShape, TemplateRow
<1>2. SetPostTemplateMaterializationState(st, occ, main, ann) = [st EXCEPT !.tmpl = t]
  BY DEF SetPostTemplateMaterializationState, RoundsSound, RecordShape
<1> QED BY <1>1, <1>2, RowSet

\* A round is shifted to a slot that can be used.
LEMMA ShiftedIsFree ==
  ASSUME NEW sk, NEW held, SkipsSound(sk, held), NEW slot \in Slots, sk[slot].shift # NoTime
  PROVE  /\ sk[slot].shift \in Slots
         /\ held => Free(sk, sk[slot].shift)
<1>1. sk[slot].shift \in Slots
  BY DEF SkipsSound
<1>2. held => Free(sk, sk[slot].shift)
  BY <1>1 DEF SkipsSound
<1> QED BY <1>1, <1>2

LEMMA OnceKeeps ==
  ASSUME NEW st, NEW sk, NEW held, RoundsSound(st, sk, held), SkipsSound(sk, held),
         NEW slot \in Slots, NEW ai
  PROVE  RoundsSound(Once(st, sk, slot, ai), sk, held)
<1> DEFINE t      == st.tmpl
           next   == NextOccurrence(t.rule, slot)
           occ    == IF IsPostTemplateOccurrenceSkipped(sk, slot) /\ ShiftTo(sk, slot) # NoTime
                     THEN ShiftTo(sk, slot) ELSE slot
           exists == Has(st, occ, "main")
           made   == createScheduledPostFromTemplate(st, occ, t.counter, ai)
           adv    == AdvancePostTemplateSchedule(made, next, IF exists THEN t.counter ELSE t.counter + 1)
<1>1. next \in 0..MaxTime + 1
  BY NextIsASlot DEF RoundsSound, RecordShape, TemplateRow
<1>2. CASE IsPostTemplateOccurrenceSkipped(sk, slot) /\ ShiftTo(sk, slot) = NoTime
  <2>1. Once(st, sk, slot, ai) = AdvancePostTemplateSchedule(st, next, t.counter)
    BY <1>2 DEF Once
  <2> QED BY <1>1, <2>1, ScheduleAdvanced
<1>3. CASE ~(IsPostTemplateOccurrenceSkipped(sk, slot) /\ ShiftTo(sk, slot) = NoTime)
  <2>1. occ \in Slots /\ (held => Free(sk, occ))
    BY <1>3, ShiftedIsFree DEF IsPostTemplateOccurrenceSkipped, ShiftTo, Free
  <2>2. Once(st, sk, slot, ai) = materializeAnnouncement(adv, sk, occ, t.annCounter, ~exists, ai)
    BY <1>3 DEF Once
  <2> HIDE DEF occ, exists, next
  <2>3. RoundsSound(made, sk, held)
    BY <2>1, MainMade
  <2> HIDE DEF made
  <2>4. RoundsSound(adv, sk, held)
    BY <1>1, <2>3, ScheduleAdvanced
  <2> HIDE DEF adv, t
  <2> QED BY <2>1, <2>2, <2>4, AnnouncementMade
<1> QED BY <1>2, <1>3

LEMMA RematerializeKeeps ==
  ASSUME NEW st, NEW sk, NEW held, RoundsSound(st, sk, held), SkipsSound(sk, held),
         NEW occ \in Slots, held => Free(sk, occ), NEW main, NEW ann, NEW ai
  PROVE  RoundsSound(Rematerialize(st, sk, occ, main, ann, ai), sk, held)
<1> DEFINE at   == maybeShiftOccurrence(sk, occ)
           made == createScheduledPostFromTemplate(st, occ, main, ai)
<1>1. RoundsSound(made, sk, held)
  BY MainMade
<1>2. at \in Slots
  BY ShiftedIsFree DEF maybeShiftOccurrence, ShiftTo
<1>3. Rematerialize(st, sk, occ, main, ann, ai) = materializeAnnouncement(made, sk, at, ann, FALSE, ai)
  BY DEF Rematerialize
<1> HIDE DEF at, made
<1> QED BY <1>1, <1>2, <1>3, AnnouncementMade


\* A run of the walk: at the cursor, while it is within the horizon.
StepOf(x, sk, until, ai) ==
  IF x.tmpl.cursor \in 1..Min({until, MaxTime}) THEN Once(x, sk, x.tmpl.cursor, ai) ELSE x

LEMMA StepKeeps ==
  ASSUME NEW st, NEW sk, NEW held, RoundsSound(st, sk, held), SkipsSound(sk, held),
         NEW until \in Nat, NEW ai
  PROVE  RoundsSound(StepOf(st, sk, until, ai), sk, held)
<1>1. Min({until, MaxTime}) \in Nat /\ Min({until, MaxTime}) <= MaxTime
  <2>1. {until, MaxTime} \subseteq Nat /\ {until, MaxTime} # {}
    BY TemplateAssumption
  <2> QED BY <2>1, LeastOf
<1>2. st.tmpl.cursor \in 1..Min({until, MaxTime}) => st.tmpl.cursor \in Slots
  BY <1>1, TemplateAssumption DEF Slots
<1> QED BY <1>2, OnceKeeps DEF StepOf

\* The states of the walk exist.
LEMMA HorizonIsAWalk ==
  ASSUME NEW st, NEW sk, NEW until, NEW ai
  PROVE  \E w : /\ w[0] = st
                /\ \A n \in 1..MaxTime : w[n] = StepOf(w[n-1], sk, until, ai)
                /\ Horizon(st, sk, until, ai) = w[MaxTime]
<1> DEFINE S(x)    == StepOf(x, sk, until, ai)
           F(g, k) == [n \in 0..k |-> IF n = 0 THEN st ELSE S(g[n-1])]
           w       == CHOOSE g : g = F(g, MaxTime)
           none    == {k \in 0..MaxTime : ~\E g : g = F(g, k)}
<1>0. MaxTime \in Nat
  BY TemplateAssumption
<1>1. Horizon(st, sk, until, ai) = w[MaxTime]
  BY DEF Horizon, StepOf
<1>2. \A x : S(x) = StepOf(x, sk, until, ai)
  OBVIOUS
<1> HIDE DEF S
<1>3. none = {}
  <2> SUFFICES ASSUME none # {} PROVE FALSE
    OBVIOUS
  <2>1. PICK k \in none : \A i \in none : k <= i
    <3>1. none \subseteq Nat
      BY <1>0
    <3> HIDE DEF none
    <3> QED BY <3>1, SmallestMember
  <2>2. k \in 0..MaxTime /\ k \in Int
    OBVIOUS
  <2>3. CASE k = 0
    <3> DEFINE g == [n \in 0..0 |-> st]
    <3>1. g = F(g, 0)
      OBVIOUS
    <3> QED BY <2>3, <3>1
  <2>4. CASE k # 0
    <3>1. k - 1 \in 0..MaxTime /\ k - 1 \notin none
      BY <2>1, <2>2, <2>4, <1>0
    <3>2. PICK g : g = F(g, k - 1)
      BY <3>1
    <3> DEFINE h == [n \in 0..k |-> IF n = k THEN S(g[k-1]) ELSE g[n]]
    <3>3. \A n \in 0..k : h[n] = IF n = 0 THEN st ELSE S(h[n-1])
      <4> TAKE n \in 0..k
      <4>1. \A i \in 0..k-1 : g[i] = (IF i = 0 THEN st ELSE S(g[i-1])) /\ h[i] = g[i]
        BY <3>2, <2>2
      <4>2. CASE n = k
        <5>1. h[n] = S(g[k-1]) /\ h[k-1] = g[k-1]
          BY <4>1, <4>2, <2>2, <2>4
        <5> HIDE DEF h
        <5> QED BY <5>1, <4>2, <2>4
      <4>3. CASE n # k
        <5>1. n \in 0..k-1
          BY <4>3, <2>2
        <5>2. n # 0 => n-1 \in 0..k-1
          BY <5>1, <2>2
        <5> HIDE DEF h
        <5> QED BY <5>1, <5>2, <4>1
      <4> QED BY <4>2, <4>3
    <3>4. h = F(h, k)
      <4>1. h = [n \in 0..k |-> h[n]]
        OBVIOUS
      <4> HIDE DEF h
      <4> QED BY <3>3, <4>1
    <3> HIDE DEF h, F
    <3> QED BY <3>4, <2>1
  <2> QED BY <2>3, <2>4
<1>4. w = F(w, MaxTime)
  <2>1. \E g : g = F(g, MaxTime)
    BY <1>0, <1>3
  <2> HIDE DEF F
  <2> QED BY <2>1
<1>5. \A n \in 0..MaxTime : w[n] = IF n = 0 THEN st ELSE S(w[n-1])
  <2> HIDE DEF w
  <2> QED BY <1>4
<1> HIDE DEF w, none, F
<1>6. /\ w[0] = st
      /\ \A n \in 1..MaxTime : w[n] = StepOf(w[n-1], sk, until, ai)
  BY <1>0, <1>2, <1>5
<1> QED BY <1>1, <1>6

\* Every one of them is sound.
LEMMA HorizonKeeps ==
  ASSUME NEW st, NEW sk, NEW held, RoundsSound(st, sk, held), SkipsSound(sk, held),
         NEW until \in Nat, NEW ai
  PROVE  RoundsSound(Horizon(st, sk, until, ai), sk, held)
<1>1. PICK w : /\ w[0] = st
               /\ \A n \in 1..MaxTime : w[n] = StepOf(w[n-1], sk, until, ai)
               /\ Horizon(st, sk, until, ai) = w[MaxTime]
  BY HorizonIsAWalk
<1> DEFINE unsound == {k \in 0..MaxTime : ~RoundsSound(w[k], sk, held)}
<1>2. MaxTime \in Nat
  BY TemplateAssumption
<1>3. unsound = {}
  <2> SUFFICES ASSUME unsound # {} PROVE FALSE
    OBVIOUS
  <2>1. PICK k \in unsound : \A i \in unsound : k <= i
    <3>1. unsound \subseteq Nat
      BY <1>2
    <3> HIDE DEF unsound
    <3> QED BY <3>1, SmallestMember
  <2>2. k \in 0..MaxTime /\ ~RoundsSound(w[k], sk, held)
    OBVIOUS
  <2>3. CASE k = 0
    BY <1>1, <2>2, <2>3
  <2>4. CASE k # 0
    <3>1. k \in 1..MaxTime /\ k - 1 \in 0..MaxTime /\ ~(k <= k - 1)
      BY <2>2, <2>4, <1>2
    <3>2. RoundsSound(w[k-1], sk, held)
      BY <2>1, <3>1
    <3>3. w[k] = StepOf(w[k-1], sk, until, ai)
      BY <1>1, <3>1
    <3> QED BY <2>2, <3>2, <3>3, StepKeeps
  <2> QED BY <2>3, <2>4
<1> QED BY <1>1, <1>2, <1>3

\* The slots other than one keep their freedom when that one is skipped or shifted.
LEMMA SkipAdded ==
  ASSUME NEW sk, NEW held, SkipsSound(sk, held), NEW occ \in Slots, occ \in UNION Rules
  PROVE  /\ SkipsSound(AddPostTemplateSkip(sk, occ), held)
         /\ \A t \in Slots \ {occ} : Free(sk, t) => Free(AddPostTemplateSkip(sk, occ), t)
<1> DEFINE to == AddPostTemplateSkip(sk, occ)
<1>1. sk \in [Slots -> [scope : Scopes, shift : Slots \cup {NoTime}]]
  BY DEF SkipsSound
<1>2. /\ to \in [Slots -> [scope : Scopes, shift : Slots \cup {NoTime}]]
      /\ to[occ].shift = sk[occ].shift
      /\ \A t \in Slots \ {occ} : to[t] = sk[t]
  BY <1>1 DEF AddPostTemplateSkip, Scopes
<1> HIDE DEF to
<1>3. SkipsSound(to, held)
  BY <1>2 DEF SkipsSound, Free
<1>4. \A t \in Slots \ {occ} : Free(sk, t) => Free(to, t)
  BY <1>2 DEF Free
<1> QED BY <1>3, <1>4 DEF to

LEMMA ShiftAdded ==
  ASSUME NEW sk, NEW held, SkipsSound(sk, held), NEW s \in Shifts,
         held => ShiftsApart
  PROVE  LET to == ShiftPostTemplateOccurrence(sk, s[1], s[2])
         IN  /\ s[1] \in Slots
             /\ SkipsSound(to, held)
             /\ \A t \in Slots \ {s[1]} : Free(sk, t) => Free(to, t)
             /\ Free(to, s[1])
<1> DEFINE to == ShiftPostTemplateOccurrence(sk, s[1], s[2])
<1>1. sk \in [Slots -> [scope : Scopes, shift : Slots \cup {NoTime}]]
  BY DEF SkipsSound
<1>2. s[1] \in Slots /\ s[2] \in Slots /\ s[2] # NoTime /\ (held => s[2] \notin UNION Rules)
  BY TemplateAssumption DEF Slots, NoTime, ShiftsApart
<1>3. /\ to \in [Slots -> [scope : Scopes, shift : Slots \cup {NoTime}]]
      /\ to[s[1]].shift = s[2]
      /\ \A t \in Slots \ {s[1]} : to[t] = sk[t]
  BY <1>1, <1>2 DEF ShiftPostTemplateOccurrence, Scopes
<1> HIDE DEF to
<1>4. SkipsSound(to, held)
  BY <1>2, <1>3 DEF SkipsSound, Free
<1>5. \A t \in Slots \ {s[1]} : Free(sk, t) => Free(to, t)
  BY <1>3 DEF Free
<1>6. Free(to, s[1])
  BY <1>2, <1>3 DEF Free
<1> QED BY <1>2, <1>4, <1>5, <1>6 DEF to

\* Posts and jobs are taken out of the record.
Without(st, ps, js) ==
  DeletePostTemplateLinkedPosts(cancelPendingRecurringAIJobs(st, js), ps)

LEMMA WithoutShape ==
  ASSUME NEW st, RecordShape(st), NEW ps, NEW js
  PROVE  /\ RecordShape(Without(st, ps, js))
         /\ Without(st, ps, js).posts = st.posts \ ps
         /\ Without(st, ps, js).jobs = st.jobs \ js
         /\ LiveOf(Without(st, ps, js)) \subseteq LiveOf(st)
<1> DEFINE to == Without(st, ps, js)
<1>1. /\ to.tmpl = st.tmpl /\ to.posts = st.posts \ ps /\ to.jobs = st.jobs \ js
      /\ to \in [tmpl : {to.tmpl}, posts : {to.posts}, jobs : {to.jobs}]
  BY DEF RecordShape, Without, DeletePostTemplateLinkedPosts, cancelPendingRecurringAIJobs
<1> HIDE DEF to
<1>2. RecordShape(to)
  BY <1>1 DEF RecordShape
<1>3. LiveOf(to) \subseteq LiveOf(st)
  BY <1>1 DEF LiveOf, LinkedPosts
<1> QED BY <1>1, <1>2, <1>3 DEF to

\* A round nobody published is open as a whole.
LEMMA AllRegenerable ==
  ASSUME NEW st, RecordShape(st), NEW scope, scope \subseteq LinkedPosts(st), Blocked(scope) = {}
  PROVE  Regenerable(scope) = scope
BY DEF RecordShape, PostRow, LinkedPosts, Blocked, Regenerable

LEMMA TearDownKeeps ==
  ASSUME NEW st, NEW sk, NEW held, RecordShape(st), OnePerRole(st), SkipsSound(sk, held),
         NEW occ \in Slots, NEW ai, now \in Nat, NEW scope,
         scope = AtOrAfter(LinkedPosts(st), occ), Blocked(scope) = {},
         held => \A e \in LiveOf(st) : e.occ # occ => Free(sk, e.occ)
  PROVE  RoundsSound(TearDown(st, sk, occ, scope, ai), sk, held)
<1> DEFINE main == IF HasCounters(scope, occ) THEN CounterOf(scope, occ, "main") ELSE st.tmpl.counter
           ann  == IF HasCounters(scope, occ) THEN CounterOf(scope, occ, "announcement")
                   ELSE st.tmpl.annCounter
           del  == Without(st, Regenerable(scope), AtOrAfter(st.jobs, occ))
           set  == SetPostTemplateMaterializationState(del, occ, main, ann)
<1>1. TearDown(st, sk, occ, scope, ai) = Horizon(set, sk, now + HorizonDays, ai)
  BY DEF TearDown, Without
<1>2. Regenerable(scope) = scope
  BY AllRegenerable DEF AtOrAfter
<1>3. /\ RecordShape(del) /\ del.posts = st.posts \ scope
      /\ del.jobs = st.jobs \ AtOrAfter(st.jobs, occ) /\ LiveOf(del) \subseteq LiveOf(st)
  BY <1>2, WithoutShape
<1> HIDE DEF del, main, ann
<1>4. \A e \in LiveOf(del) : e \in LiveOf(st) /\ e.occ # occ
  BY <1>3 DEF LiveOf, LinkedPosts, AtOrAfter, Slots
<1>5. held => SkippedAreClear(del, sk)
  BY <1>4 DEF SkippedAreClear
<1>6. RoundsSound(del, sk, held)
  BY <1>3, <1>5, LiveTaken
<1>7. RoundsSound(set, sk, held)
  BY <1>6, StateSet
<1>8. now + HorizonDays \in Nat
  BY TemplateAssumption
<1> HIDE DEF set
<1> QED BY <1>1, <1>7, <1>8, HorizonKeeps

LEMMA SkipPendingKeeps ==
  ASSUME NEW st, NEW sk, NEW held, RecordShape(st), OnePerRole(st), SkipsSound(sk, held),
         NEW occ \in Slots, NEW ai, NEW shifted, shifted \in BOOLEAN,
         Blocked(AtOrAfter(LinkedPosts(st), occ)) = {},
         Regenerable(AtOrAfter(LinkedPosts(st), occ)) = {},
         held => \A e \in LiveOf(st) : e.occ # occ => Free(sk, e.occ),
         held /\ shifted => Free(sk, occ)
  PROVE  RoundsSound(SkipPending(st, sk, occ, shifted, ai), sk, held)
<1> DEFINE can == cancelPendingRecurringAIJobs(st, PendingHere(st, occ))
<1>1. can = Without(st, {}, PendingHere(st, occ))
  BY DEF Without, DeletePostTemplateLinkedPosts, cancelPendingRecurringAIJobs, RecordShape
<1>2. AtOrAfter(LinkedPosts(st), occ) = {}
  BY AllRegenerable DEF AtOrAfter
<1>3. RecordShape(can) /\ can.posts = st.posts /\ can.jobs = st.jobs \ PendingHere(st, occ)
      /\ LiveOf(can) \subseteq LiveOf(st)
  <2> HIDE DEF can
  <2> DEFINE js   == PendingHere(st, occ)
             none == {}
  <2>1. st.posts \ none = st.posts /\ can = Without(st, none, js)
    BY <1>1
  <2> HIDE DEF js, none
  <2>2. /\ RecordShape(Without(st, none, js)) /\ Without(st, none, js).posts = st.posts \ none
        /\ Without(st, none, js).jobs = st.jobs \ js
        /\ LiveOf(Without(st, none, js)) \subseteq LiveOf(st)
    BY WithoutShape
  <2>3. RecordShape(can) /\ can.posts = st.posts /\ can.jobs = st.jobs \ js
        /\ LiveOf(can) \subseteq LiveOf(st)
    BY <2>1, <2>2
  <2> QED BY <2>3 DEF js
<1>4. \A e \in LiveOf(can) : e.occ # occ
  <2> HIDE DEF can
  <2> QED BY <1>2, <1>3 DEF LiveOf, LinkedPosts, AtOrAfter, PendingHere, Slots
<1>5. RoundsSound(can, sk, held)
  <2> HIDE DEF can
  <2>1. held => SkippedAreClear(can, sk)
    BY <1>3, <1>4 DEF SkippedAreClear
  <2> QED BY <1>3, <2>1, LiveTaken
<1>6. CASE PendingHere(st, occ) = {} \/ ~shifted
  BY <1>5, <1>6 DEF SkipPending
<1>7. CASE ~(PendingHere(st, occ) = {} \/ ~shifted)
  <2>1. SkipPending(st, sk, occ, shifted, ai)
        = Rematerialize(can, sk, occ, CounterOf(st.jobs, occ, "main"),
                        CounterOf(st.jobs, occ, "announcement"), ai)
    BY <1>7 DEF SkipPending
  <2> HIDE DEF can
  <2> QED BY <1>5, <1>7, <2>1, RematerializeKeeps
<1> QED BY <1>6, <1>7

\* A poll works on a slot.
WalkersSound ==
  /\ walker \in [TPollers -> [pc : {"idle", "read", "walk"}, occ : 0..MaxTime + 1, until : Nat]]
  /\ \A w \in TPollers : walker[w].pc = "walk" => walker[w].occ \in Slots

\* No editor took a post away by hand, and no round was shifted to the time of another.
Kept == ~removed /\ ShiftsApart

\* The inductive invariant.
TemplateIInv ==
  /\ RoundsSound(Record, skips, Kept)
  /\ SkipsSound(skips, Kept)
  /\ WalkersSound
  /\ now \in Nat

\* What a transaction computed is the record after it.
LEMMA Applied ==
  ASSUME NEW st, RecordShape(st), Apply(st)
  PROVE  Record' = st
BY DEF RecordShape, Apply, Record

LEMMA RecordOf ==
  ASSUME TemplateIInv
  PROVE  /\ Record.tmpl = tmpl /\ Record.posts = tposts /\ Record.jobs = tjobs
         /\ RecordShape(Record) /\ OnePerRole(Record)
         /\ tmpl.rule \in Rules /\ tmpl.cursor \in 0..MaxTime + 1
BY DEF TemplateIInv, RoundsSound, RecordShape, TemplateRow, Record

\* A transaction leaves the polls and the clock alone.
LEMMA RecordChanged ==
  ASSUME TemplateIInv, NEW st, Apply(st), RoundsSound(st, skips', Kept'),
         SkipsSound(skips', Kept'), UNCHANGED <<walker, now>>
  PROVE  TemplateIInv'
<1>1. Record' = st
  BY Applied DEF RoundsSound
<1>2. WalkersSound'
  BY DEF TemplateIInv, WalkersSound
<1> QED BY <1>1, <1>2 DEF TemplateIInv

LEMMA SkipStep ==
  ASSUME TemplateIInv, NEW occ \in Slots, occ \in tmpl.rule, NEW ai, SkipOccurrence(occ, ai)
  PROVE  TemplateIInv'
<1> DEFINE scope == AtOrAfter(LinkedPosts(Record), occ)
           sk    == AddPostTemplateSkip(skips, occ)
           torn  == TearDown(Record, sk, occ, scope, ai)
           pend  == SkipPending(Record, sk, occ, FALSE, ai)
<1>1. /\ Blocked(scope) = {} /\ skips' = sk /\ UNCHANGED <<walker, now>>
      /\ Apply(IF Regenerable(scope) = {} THEN pend ELSE torn)
      /\ Kept' => Kept
  BY DEF SkipOccurrence, Kept, ShiftsApart
<1>2. occ \in UNION Rules
  BY RecordOf
<1>3. SkipsSound(skips, Kept')
  BY <1>1 DEF TemplateIInv, SkipsSound
<1>4. SkipsSound(sk, Kept') /\ \A t \in Slots \ {occ} : Free(skips, t) => Free(sk, t)
  BY <1>2, <1>3, SkipAdded
<1>5. Kept' => \A e \in LiveOf(Record) : e.occ # occ => Free(sk, e.occ)
  <2> HIDE DEF sk
  <2>1. \A e \in LiveOf(Record) : e.occ \in Slots
    BY RecordOf DEF RecordShape, LiveOf, LinkedPosts, PostRow, JobRow
  <2> QED BY <1>1, <1>4, <2>1 DEF TemplateIInv, RoundsSound, SkippedAreClear
<1>6. now \in Nat
  BY DEF TemplateIInv
<1> HIDE DEF sk
<1>7. RoundsSound(torn, sk, Kept')
  BY <1>1, <1>4, <1>5, <1>6, RecordOf, TearDownKeeps
<1>8. Regenerable(scope) = {} => RoundsSound(pend, sk, Kept')
  BY <1>1, <1>4, <1>5, RecordOf, SkipPendingKeeps
<1> HIDE DEF torn, pend, scope
<1> QED BY <1>1, <1>4, <1>7, <1>8, RecordChanged

LEMMA ShiftStep ==
  ASSUME TemplateIInv, NEW s \in Shifts, NEW ai, ShiftOccurrence(s[1], s[2], ai)
  PROVE  TemplateIInv'
<1> DEFINE occ   == s[1]
           scope == AtOrAfter(LinkedPosts(Record), occ)
           sk    == ShiftPostTemplateOccurrence(skips, occ, s[2])
           torn  == TearDown(Record, sk, occ, scope, ai)
           pend  == SkipPending(Record, sk, occ, TRUE, ai)
<1>1. /\ Blocked(scope) = {} /\ skips' = sk /\ UNCHANGED <<walker, now>> /\ Kept' = Kept
      /\ Apply(IF Regenerable(scope) = {} THEN pend ELSE torn)
  BY DEF ShiftOccurrence, Kept, ShiftsApart
<1>2. SkipsSound(skips, Kept')
  BY <1>1 DEF TemplateIInv
<1>3. /\ SkipsSound(sk, Kept') /\ occ \in Slots
      /\ \A t \in Slots \ {occ} : Free(skips, t) => Free(sk, t)
      /\ Free(sk, occ)
  <2>1. Kept' => ShiftsApart
    BY <1>1 DEF Kept
  <2> QED BY <1>2, <2>1, ShiftAdded
<1>4. Kept' => \A e \in LiveOf(Record) : e.occ # occ => Free(sk, e.occ)
  <2> HIDE DEF sk, occ
  <2>1. \A e \in LiveOf(Record) : e.occ \in Slots
    BY RecordOf DEF RecordShape, LiveOf, LinkedPosts, PostRow, JobRow
  <2> QED BY <1>1, <1>3, <2>1 DEF TemplateIInv, RoundsSound, SkippedAreClear
<1>5. now \in Nat
  BY DEF TemplateIInv
<1> HIDE DEF sk, occ
<1>6. RoundsSound(torn, sk, Kept')
  BY <1>1, <1>3, <1>4, <1>5, RecordOf, TearDownKeeps
<1>7. Regenerable(scope) = {} => RoundsSound(pend, sk, Kept')
  BY <1>1, <1>3, <1>4, RecordOf, SkipPendingKeeps
<1> HIDE DEF torn, pend, scope
<1> QED BY <1>1, <1>3, <1>6, <1>7, RecordChanged

LEMMA RegenerateStep ==
  ASSUME TemplateIInv, NEW occ \in Slots, NEW ai, RegenerateOccurrence(occ, ai)
  PROVE  TemplateIInv'
<1> DEFINE scope == {p \in LinkedPosts(Record) : p.occ = occ}
           del   == Without(Record, Regenerable(scope), PendingHere(Record, occ))
           made  == Rematerialize(del, skips, occ, CounterOf(scope, occ, "main"),
                                  CounterOf(scope, occ, "announcement"), ai)
<1>1. /\ Regenerable(scope) # {} /\ Apply(made)
      /\ UNCHANGED <<skips, walker, now>> /\ Kept' = Kept
  BY DEF RegenerateOccurrence, Without, Kept, ShiftsApart
<1>2. Kept => Free(skips, occ)
  <2>1. PICK p \in scope : TRUE
    BY <1>1 DEF Regenerable
  <2>2. p \in LiveOf(Record) /\ p.occ = occ
    BY <2>1 DEF LiveOf
  <2> QED BY <2>2 DEF TemplateIInv, RoundsSound, SkippedAreClear
<1>3. RecordShape(del) /\ LiveOf(del) \subseteq LiveOf(Record)
  BY RecordOf, WithoutShape
<1>4. RoundsSound(del, skips, Kept)
  <2> HIDE DEF del
  <2>1. Kept => SkippedAreClear(del, skips)
    BY <1>3 DEF TemplateIInv, RoundsSound, SkippedAreClear
  <2> QED BY <1>3, <2>1, RecordOf, LiveTaken
<1> HIDE DEF del, scope
<1>5. RoundsSound(made, skips, Kept)
  BY <1>2, <1>4, RematerializeKeeps DEF TemplateIInv
<1> HIDE DEF made
<1> QED BY <1>1, <1>5, RecordChanged DEF TemplateIInv

LEMMA HorizonStep ==
  ASSUME TemplateIInv, NEW ai, RegenerateHorizon(ai)
  PROVE  TemplateIInv'
<1> DEFINE until == IF HorizonDays = 0 THEN MaxTime ELSE now + HorizonDays
           scope == {p \in LinkedPosts(Record) : p.occ \in now..until}
           slots == {p.occ : p \in Regenerable(scope)}
           del   == Without(Record, Regenerable(scope), tjobs)
           set   == SetPostTemplateMaterializationState(del, Min(slots),
                      CounterOf(scope, Min(slots), "main"),
                      CounterOf(scope, Min(slots), "announcement"))
           made  == Horizon(set, skips, now + HorizonDays, ai)
<1>1. /\ Regenerable(scope) # {} /\ Apply(made)
      /\ UNCHANGED <<skips, walker, now>> /\ Kept' = Kept
  BY DEF RegenerateHorizon, Without, Kept, ShiftsApart
<1>2. Min(slots) \in Slots
  <2>1. slots \subseteq Slots /\ slots # {}
    BY <1>1, RecordOf DEF RecordShape, PostRow, Regenerable, LinkedPosts
  <2> HIDE DEF slots
  <2>2. slots \subseteq Nat
    BY <2>1 DEF Slots
  <2> QED BY <2>1, <2>2, LeastOf
<1>3. RecordShape(del) /\ LiveOf(del) \subseteq LiveOf(Record)
  BY RecordOf, WithoutShape
<1>4. RoundsSound(del, skips, Kept)
  <2> HIDE DEF del
  <2>1. Kept => SkippedAreClear(del, skips)
    BY <1>3 DEF TemplateIInv, RoundsSound, SkippedAreClear
  <2> QED BY <1>3, <2>1, RecordOf, LiveTaken
<1> HIDE DEF del, scope, slots
<1>5. RoundsSound(set, skips, Kept)
  BY <1>2, <1>4, StateSet
<1> HIDE DEF set
<1>6. RoundsSound(made, skips, Kept)
  <2>1. now + HorizonDays \in Nat
    BY TemplateAssumption DEF TemplateIInv
  <2> QED BY <1>5, <2>1, HorizonKeeps DEF TemplateIInv
<1> HIDE DEF made
<1> QED BY <1>1, <1>6, RecordChanged DEF TemplateIInv

LEMMA EditStep ==
  ASSUME TemplateIInv, NEW op, NEW enabled \in BOOLEAN, NEW rule \in Rules,
         EditTemplate(op, enabled, rule)
  PROVE  TemplateIInv'
<1> DEFINE t == UpdatePostTemplate(tmpl, op, enabled, rule)
           made == [Record EXCEPT !.tmpl = t]
<1>1. tmpl' = t /\ UNCHANGED <<skips, tposts, tjobs, walker, now>> /\ Kept' = Kept
  BY DEF EditTemplate, Kept, ShiftsApart
<1>2. TemplateRow(t)
  <2>1. NextOccurrence(rule, now) \in 0..MaxTime + 1 /\ NoTime \in 0..MaxTime + 1
    BY NextIsASlot, TemplateAssumption DEF NoTime
  <2>2. TemplateRow(tmpl)
    BY DEF TemplateIInv, RoundsSound, RecordShape, Record
  <2> QED BY <2>1, <2>2 DEF UpdatePostTemplate, TemplateRow
<1>3. RoundsSound(made, skips, Kept)
  BY <1>2, RowSet DEF TemplateIInv
<1>4. Apply(made)
  BY <1>1 DEF Apply, Record
<1> HIDE DEF t, made
<1> QED BY <1>1, <1>3, <1>4, RecordChanged DEF TemplateIInv

LEMMA DropStep ==
  ASSUME TemplateIInv, DeleteTemplate
  PROVE  TemplateIInv'
<1> DEFINE t == [tmpl EXCEPT !.exists = FALSE]
           made == [Record EXCEPT !.tmpl = t]
           none == [u \in Slots |-> [scope |-> "none", shift |-> NoTime]]
<1>1. tmpl' = t /\ skips' = none /\ UNCHANGED <<tposts, tjobs, walker, now>> /\ Kept' = Kept
  BY DEF DeleteTemplate, Kept, ShiftsApart
<1>2. TemplateRow(t)
  BY DEF TemplateIInv, RoundsSound, RecordShape, Record, TemplateRow
<1>3. RoundsSound(made, skips, Kept)
  BY <1>2, RowSet DEF TemplateIInv
<1>4. Apply(made)
  BY <1>1 DEF Apply, Record
<1>5. \A u \in Slots : none[u].scope = "none" /\ none[u].shift = NoTime
  OBVIOUS
<1>6. NoTime \notin UNION Rules
  BY TemplateAssumption DEF Slots, NoTime
<1>7. none \in [Slots -> [scope : Scopes, shift : Slots \cup {NoTime}]]
  BY DEF Scopes
<1> HIDE DEF t, none
<1>8. SkipsSound(none, Kept)
  BY <1>5, <1>6, <1>7 DEF SkipsSound, Free
<1>9. RoundsSound(made, none, Kept)
  <2>1. \A e \in LiveOf(made) : e.occ \in Slots
    BY <1>3 DEF RoundsSound, RecordShape, LiveOf, LinkedPosts, PostRow, JobRow
  <2> HIDE DEF made
  <2> QED BY <1>3, <1>5, <2>1 DEF RoundsSound, SkippedAreClear, Free
<1> HIDE DEF made
<1> QED BY <1>1, <1>4, <1>8, <1>9, RecordChanged

\* When a post or a job is taken away by hand nothing is promised of the skips.
LEMMA ByHand ==
  ASSUME TemplateIInv, NEW st, RecordShape(st), OnePerRole(st), Apply(st), ~Kept',
         skips' \in [Slots -> [scope : Scopes, shift : Slots \cup {NoTime}]],
         \A t \in Slots : skips'[t].shift = skips[t].shift,
         UNCHANGED <<walker, now>>
  PROVE  TemplateIInv'
<1>1. RoundsSound(st, skips', Kept')
  BY DEF RoundsSound
<1>2. SkipsSound(skips', Kept')
  BY DEF TemplateIInv, SkipsSound
<1> QED BY <1>1, <1>2, RecordChanged

LEMMA DeletePostStep ==
  ASSUME TemplateIInv, NEW p \in tposts, DeleteTemplatePost(p)
  PROVE  TemplateIInv'
<1> DEFINE made == Without(Record, {p}, {})
<1>1. /\ tmpl' = tmpl /\ tjobs' = tjobs /\ tposts' = tposts \ {p}
      /\ skips' = (IF tmpl.exists THEN SkipForDeletedPost(p) ELSE skips)
      /\ ~Kept' /\ UNCHANGED <<walker, now>>
  BY DEF DeleteTemplatePost, Kept, ShiftsApart
<1>2. Apply(made)
  BY <1>1 DEF Apply, Record, Without, DeletePostTemplateLinkedPosts, cancelPendingRecurringAIJobs
<1>3. RecordShape(made) /\ LiveOf(made) \subseteq LiveOf(Record)
  BY RecordOf, WithoutShape
<1>4. OnePerRole(made)
  BY <1>3, RecordOf DEF OnePerRole
<1>5. skips \in [Slots -> [scope : Scopes, shift : Slots \cup {NoTime}]]
  BY DEF TemplateIInv, SkipsSound
<1>6. p.occ \in Slots
  BY RecordOf DEF RecordShape, PostRow
<1>7. /\ skips' \in [Slots -> [scope : Scopes, shift : Slots \cup {NoTime}]]
      /\ \A t \in Slots : skips'[t].shift = skips[t].shift
  BY <1>1, <1>5, <1>6 DEF SkipForDeletedPost, AddPostTemplateAnnouncementSkip,
                          AddPostTemplateSkip, Scopes
<1> HIDE DEF made
<1> QED BY <1>1, <1>2, <1>3, <1>4, <1>7, ByHand

\* The posts are other ones.
Posts(ps) == [tmpl |-> tmpl, posts |-> ps, jobs |-> tjobs]

LEMMA CancelPostStep ==
  ASSUME TemplateIInv, NEW p \in tposts, CancelTemplatePost(p)
  PROVE  TemplateIInv'
<1> DEFINE q == [p EXCEPT !.status = "cancelled"]
           made == Posts((tposts \ {p}) \cup {q})
<1>1. /\ tmpl' = tmpl /\ tjobs' = tjobs /\ tposts' = (tposts \ {p}) \cup {q}
      /\ ~Kept' /\ UNCHANGED <<skips, walker, now>>
  BY DEF CancelTemplatePost, Kept, ShiftsApart
<1>2. Apply(made)
  BY <1>1 DEF Apply, Posts
<1>3. PostRow(q) /\ q.status = "cancelled"
  BY RecordOf DEF RecordShape, PostRow
<1> HIDE DEF q
<1>4. /\ made.tmpl = tmpl /\ made.posts = (tposts \ {p}) \cup {q} /\ made.jobs = tjobs
      /\ made \in [tmpl : {made.tmpl}, posts : {made.posts}, jobs : {made.jobs}]
  BY DEF Posts
<1> HIDE DEF made
<1>5. RecordShape(made)
  BY <1>3, <1>4, RecordOf DEF RecordShape
<1>6. LiveOf(made) \subseteq LiveOf(Record)
  BY <1>3, <1>4, RecordOf DEF LiveOf, LinkedPosts
<1>7. OnePerRole(made)
  BY <1>6, RecordOf DEF OnePerRole
<1>8. skips \in [Slots -> [scope : Scopes, shift : Slots \cup {NoTime}]]
  BY DEF TemplateIInv, SkipsSound
<1> QED BY <1>1, <1>2, <1>5, <1>7, <1>8, ByHand

LEMMA LoseJobStep ==
  ASSUME TemplateIInv, NEW j \in tjobs, LoseTemplateJob(j)
  PROVE  TemplateIInv'
<1> DEFINE made == Without(Record, {}, {j})
<1>1. /\ tmpl' = tmpl /\ tjobs' = tjobs \ {j} /\ tposts' = tposts
      /\ ~Kept' /\ UNCHANGED <<skips, walker, now>>
  BY DEF LoseTemplateJob, Kept, ShiftsApart
<1>2. Apply(made)
  BY <1>1 DEF Apply, Record, Without, DeletePostTemplateLinkedPosts, cancelPendingRecurringAIJobs
<1>3. RecordShape(made) /\ LiveOf(made) \subseteq LiveOf(Record)
  BY RecordOf, WithoutShape
<1>4. OnePerRole(made)
  BY <1>3, RecordOf DEF OnePerRole
<1>5. skips \in [Slots -> [scope : Scopes, shift : Slots \cup {NoTime}]]
  BY DEF TemplateIInv, SkipsSound
<1> HIDE DEF made
<1> QED BY <1>1, <1>2, <1>3, <1>4, <1>5, ByHand

LEMMA CompleteJobStep ==
  ASSUME TemplateIInv, NEW j \in tjobs, CompleteTemplateJob(j)
  PROVE  TemplateIInv'
<1> DEFINE n == PostOfJob(j)
           made == [tmpl |-> tmpl, posts |-> tposts \cup {n}, jobs |-> tjobs \ {j}]
<1>1. /\ tmpl' = tmpl /\ tjobs' = tjobs \ {j} /\ tposts' = tposts \cup {n}
      /\ UNCHANGED <<skips, walker, now>> /\ Kept' = Kept
  BY DEF CompleteTemplateJob, Kept, ShiftsApart
<1>2. Apply(made)
  BY <1>1 DEF Apply
<1>3. JobRow(j) /\ j \in LiveOf(Record)
  BY RecordOf DEF RecordShape, LiveOf
<1>4. PostRow(n) /\ n.occ = j.occ /\ n.role = j.role
  BY <1>3 DEF PostOfJob, PostRow, JobRow
<1> HIDE DEF n
<1>5. /\ made.tmpl = tmpl /\ made.posts = tposts \cup {n} /\ made.jobs = tjobs \ {j}
      /\ made \in [tmpl : {made.tmpl}, posts : {made.posts}, jobs : {made.jobs}]
  OBVIOUS
<1> HIDE DEF made
<1>6. RecordShape(made)
  BY <1>4, <1>5, RecordOf DEF RecordShape
<1>7. j \notin tposts
  BY <1>3, RecordOf, PostIsNoJob DEF RecordShape
<1>8. LiveOf(made) \subseteq (LiveOf(Record) \ {j}) \cup {n}
  BY <1>5, <1>7, RecordOf DEF LiveOf, LinkedPosts
<1>9. RoundsSound(made, skips, Kept)
  BY <1>3, <1>4, <1>6, <1>8, LivePassed DEF TemplateIInv
<1> QED BY <1>1, <1>2, <1>9, RecordChanged DEF TemplateIInv

LEMMA PublishStep ==
  ASSUME TemplateIInv, NEW p \in tposts, PublishTemplatePost(p)
  PROVE  TemplateIInv'
<1> DEFINE n == [p EXCEPT !.status = IF p.status = "open" THEN "taken" ELSE "open"]
           made == Posts((tposts \ {p}) \cup {n})
<1>1. /\ tmpl' = tmpl /\ tjobs' = tjobs /\ tposts' = (tposts \ {p}) \cup {n}
      /\ p.status \in {"open", "taken"}
      /\ UNCHANGED <<skips, walker, now>> /\ Kept' = Kept
  BY DEF PublishTemplatePost, Kept, ShiftsApart
<1>2. Apply(made)
  BY <1>1 DEF Apply, Posts
<1>3. PostRow(p) /\ p \in LiveOf(Record)
  BY <1>1, RecordOf DEF RecordShape, LiveOf, LinkedPosts
<1>4. PostRow(n) /\ n.occ = p.occ /\ n.role = p.role
  BY <1>3 DEF PostRow
<1> HIDE DEF n
<1>5. /\ made.tmpl = tmpl /\ made.posts = (tposts \ {p}) \cup {n} /\ made.jobs = tjobs
      /\ made \in [tmpl : {made.tmpl}, posts : {made.posts}, jobs : {made.jobs}]
  BY DEF Posts
<1> HIDE DEF made
<1>6. RecordShape(made)
  BY <1>4, <1>5, RecordOf DEF RecordShape
<1>7. p \notin tjobs
  BY <1>3, RecordOf, PostIsNoJob DEF RecordShape
<1>8. LiveOf(made) \subseteq (LiveOf(Record) \ {p}) \cup {n}
  BY <1>5, <1>7, RecordOf DEF LiveOf, LinkedPosts
<1>9. RoundsSound(made, skips, Kept)
  BY <1>3, <1>4, <1>6, <1>8, LivePassed DEF TemplateIInv
<1> QED BY <1>1, <1>2, <1>9, RecordChanged DEF TemplateIInv

\* The polls.
LEMMA WalkStep ==
  ASSUME TemplateIInv, NEW w \in TPollers, NEW ai, WalkOccurrence(w, ai)
  PROVE  TemplateIInv'
<1> DEFINE made == Once(Record, skips, walker[w].occ, ai)
<1>1. walker[w].occ \in Slots
  BY DEF TemplateIInv, WalkersSound, WalkOccurrence
<1>2. RoundsSound(made, skips, Kept)
  BY <1>1, OnceKeeps DEF TemplateIInv
<1>3. /\ UNCHANGED <<skips, now>> /\ Kept' = Kept
      /\ Apply(made) \/ UNCHANGED <<tmpl, tposts, tjobs>>
      /\ \E pc \in {"idle", "read"} : walker' = [walker EXCEPT ![w].pc = pc]
  BY DEF WalkOccurrence, Kept, ShiftsApart
<1>4. WalkersSound'
  BY <1>3 DEF TemplateIInv, WalkersSound
<1> HIDE DEF made
<1>5. RoundsSound(Record', skips, Kept)
  <2>1. CASE Apply(made)
    BY <1>2, <2>1, Applied DEF RoundsSound
  <2>2. CASE UNCHANGED <<tmpl, tposts, tjobs>>
    BY <2>2 DEF TemplateIInv, Record
  <2> QED BY <1>3, <2>1, <2>2
<1> QED BY <1>3, <1>4, <1>5 DEF TemplateIInv

LEMMA WalkerStep ==
  ASSUME TemplateIInv, NEW w \in TPollers, ListTemplates(w) \/ WalkOn(w) \/ WalkFails(w)
  PROVE  TemplateIInv'
<1>1. UNCHANGED <<tmpl, skips, tposts, tjobs, now>> /\ Kept' = Kept
  BY DEF ListTemplates, WalkOn, WalkFails, Kept, ShiftsApart
<1>2. WalkersSound'
  <2>1. CASE ListTemplates(w)
    <3>1. tmpl.cursor \in Slots /\ tmpl.cursor \in 0..MaxTime + 1 /\ now + HorizonDays \in Nat
      BY <2>1, RecordOf, TemplateAssumption
         DEF ListTemplates, ListEnabledPostTemplates, Slots, NoTime, TemplateIInv
    <3> QED BY <2>1, <3>1 DEF ListTemplates, TemplateIInv, WalkersSound
  <2>2. CASE WalkOn(w)
    <3>1. walker[w].until \in Nat
      BY DEF TemplateIInv, WalkersSound
    <3>2. Min({MaxTime, walker[w].until}) <= MaxTime
          /\ Min({MaxTime, walker[w].until}) \in Nat
      <4>1. {MaxTime, walker[w].until} \subseteq Nat /\ {MaxTime, walker[w].until} # {}
        BY <3>1, TemplateAssumption
      <4> QED BY <4>1, LeastOf
    <3>3. tmpl.cursor \in 1..Min({MaxTime, walker[w].until}) => tmpl.cursor \in Slots
      BY <3>2, TemplateAssumption DEF Slots
    <3>4. tmpl.cursor \in 0..MaxTime + 1
      BY RecordOf
    <3> QED BY <2>2, <3>3, <3>4 DEF WalkOn, TemplateIInv, WalkersSound
  <2>3. CASE WalkFails(w)
    BY <2>3 DEF WalkFails, TemplateIInv, WalkersSound
  <2> QED BY <2>1, <2>2, <2>3
<1> QED BY <1>1, <1>2 DEF TemplateIInv, Record

\* Every state of a template is sound (the inductive invariant).
THEOREM TemplateInductive == TemplateSpec => []TemplateIInv
<1>1. TemplateInit => TemplateIInv
  <2> SUFFICES ASSUME TemplateInit PROVE TemplateIInv
    OBVIOUS
  <2>1. PICK r \in Rules, s \in Setups :
          tmpl = [exists |-> TRUE, enabled |-> TRUE, rule |-> r, cursor |-> NextOccurrence(r, 1),
                  counter |-> 1, annOn |-> s.annOn, annCounter |-> 1, ai |-> s.ai]
    BY DEF TemplateInit
  <2>2. TemplateRow(tmpl)
    BY <2>1, NextIsASlot DEF TemplateRow
  <2>3. RoundsSound(Record, skips, Kept)
    BY <2>2 DEF TemplateInit, RoundsSound, RecordShape, Record, OnePerRole, SkippedAreClear,
                LiveOf, LinkedPosts
  <2>4. SkipsSound(skips, Kept)
    BY TemplateAssumption DEF TemplateInit, SkipsSound, Free, Scopes, Slots, NoTime
  <2>5. WalkersSound /\ now \in Nat
    BY TemplateAssumption DEF TemplateInit, WalkersSound, NoTime
  <2> QED BY <2>3, <2>4, <2>5 DEF TemplateIInv
<1>2. TemplateIInv /\ [TemplateNext]_tmplVars => TemplateIInv'
  <2> SUFFICES ASSUME TemplateIInv, [TemplateNext]_tmplVars PROVE TemplateIInv'
    OBVIOUS
  <2>1. CASE TemplateRequest
    BY <2>1, SkipStep, ShiftStep, RegenerateStep, HorizonStep DEF TemplateRequest
  <2>2. CASE TemplateEdit
    <3>1. tmpl.rule \in Rules /\ tmpl.enabled \in BOOLEAN
      BY DEF TemplateIInv, RoundsSound, RecordShape, TemplateRow, Record
    <3> QED BY <2>2, <3>1, EditStep, DropStep, DeletePostStep, CancelPostStep DEF TemplateEdit
  <2>3. CASE \E w \in TPollers : Walk(w) \/ WalkFails(w)
    BY <2>3, WalkerStep, WalkStep DEF Walk
  <2>4. CASE \E j \in tjobs : CompleteTemplateJob(j) \/ LoseTemplateJob(j)
    BY <2>4, CompleteJobStep, LoseJobStep
  <2>5. CASE \E p \in tposts : PublishTemplatePost(p)
    BY <2>5, PublishStep
  <2>6. CASE TimePasses
    BY <2>6 DEF TimePasses, TemplateIInv, Record, WalkersSound, Kept, ShiftsApart
  <2>7. CASE UNCHANGED tmplVars
    BY <2>7 DEF tmplVars, TemplateIInv, Record, WalkersSound, Kept, ShiftsApart
  <2> QED BY <2>1, <2>2, <2>3, <2>4, <2>5, <2>6, <2>7 DEF TemplateNext
<1> QED BY <1>1, <1>2, PTL DEF TemplateSpec

\* A round has at most one post or unfinished job of each role, whatever polls,
\* requests and jobs do at once (HasPostTemplateRoleMaterialized under the lock
\* of the row).
THEOREM RolesAreUnique == TemplateSpec => []OneLivePerRole
<1>1. TemplateIInv => OneLivePerRole
  BY DEF TemplateIInv, RoundsSound, OnePerRole, LiveOf, Record, OneLivePerRole
<1> QED BY <1>1, TemplateInductive, PTL

\* A slot that is skipped and not shifted has no main post left to publish and no job
\* that would make one, unless an editor took a post away by hand. A round that is
\* shifted to the time of another has its post there although that one is skipped.
THEOREM SkipsStay ==
  ASSUME ShiftsApart
  PROVE  TemplateSpec => []SkipHolds
<1>1. TemplateIInv => SkipHolds
  <2>1. TemplateIInv => Regenerable(tposts) \cup tjobs \subseteq LiveOf(Record)
    BY DEF Regenerable, LiveOf, LinkedPosts, Record
  <2> QED BY <2>1 DEF TemplateIInv, RoundsSound, SkippedAreClear, Free, SkipHolds, Kept
<1> QED BY <1>1, TemplateInductive, PTL
-----------------------------------------------------------------------------
(* The numbers of a template's rounds.                                     *)

\* Wherever rounds are shifted to, they keep their order, and none is put off from
\* before the end of the horizon to behind it.
Places(r) == {r} \cup {s[2] : s \in {t \in Shifts : t[1] = r}}

ShiftsInOrder ==
  /\ \A rule \in Rules : \A q, r \in rule :
       q < r => \A x \in Places(q), y \in Places(r) : x < y
  /\ \A s \in Shifts : s[2] <= s[1] \/ s[2] <= 1 + HorizonDays

\* The skips and shifts of a template that kept its rule, while no editor took a post
\* away by hand.
RowsSound(sk, rule) ==
  \A t \in Slots : /\ sk[t].scope \in {"none", "occurrence"}
                   /\ sk[t].scope = "none" => sk[t].shift = NoTime
                   /\ sk[t].scope # "none" => t \in rule
                   /\ sk[t].shift # NoTime => <<t, sk[t].shift>> \in Shifts

\* Where the round of a slot is made.
PlaceOf(sk, r) == IF sk[r].shift # NoTime THEN sk[r].shift ELSE r

PlacesInOrder(sk, rule) ==
  /\ rule \subseteq Slots
  /\ \A r \in rule : PlaceOf(sk, r) \in Slots
  /\ \A q, r \in rule : q < r => /\ PlaceOf(sk, q) < PlaceOf(sk, r)
                                 /\ PlaceOf(sk, q) < r
                                 /\ q < PlaceOf(sk, r)
  /\ \A r \in rule : PlaceOf(sk, r) <= r \/ PlaceOf(sk, r) <= 1 + HorizonDays
  /\ \A t \in Slots \ rule : PlaceOf(sk, t) = t /\ Free(sk, t)

SkipRows(sk) == sk \in [Slots -> [scope : Scopes, shift : Slots \cup {NoTime}]]

LEMMA OrderOfPlaces ==
  ASSUME ShiftsInOrder, NEW rule \in Rules, NEW sk, RowsSound(sk, rule), SkipRows(sk)
  PROVE  PlacesInOrder(sk, rule)
<1>1. rule \subseteq Slots
  BY TemplateAssumption
<1>2. \A r \in Slots : PlaceOf(sk, r) \in Places(r) /\ PlaceOf(sk, r) \in Slots
  <2> TAKE r \in Slots
  <2>1. CASE sk[r].shift = NoTime
    BY <2>1 DEF PlaceOf, Places
  <2>2. CASE sk[r].shift # NoTime
    <3> DEFINE s == <<r, sk[r].shift>>
    <3>1. s \in Shifts /\ s[1] = r /\ s[2] = sk[r].shift
      BY <2>2 DEF RowsSound
    <3>2. PlaceOf(sk, r) = s[2]
      BY <2>2 DEF PlaceOf
    <3> HIDE DEF s
    <3>3. PlaceOf(sk, r) \in Places(r)
      BY <3>1, <3>2 DEF Places
    <3>4. PlaceOf(sk, r) \in Slots
      BY <2>2 DEF SkipRows, PlaceOf
    <3> QED BY <3>3, <3>4
  <2> QED BY <2>1, <2>2
<1>3. \A r \in Slots : r \in Places(r)
  BY DEF Places
<1>4. \A q, r \in rule : q < r => /\ PlaceOf(sk, q) < PlaceOf(sk, r)
                                  /\ PlaceOf(sk, q) < r
                                  /\ q < PlaceOf(sk, r)
  <2> TAKE q, r \in rule
  <2>1. q \in Slots /\ r \in Slots
    BY <1>1
  <2> QED BY <1>2, <1>3, <2>1 DEF ShiftsInOrder
<1>5. \A r \in rule : PlaceOf(sk, r) <= r \/ PlaceOf(sk, r) <= 1 + HorizonDays
  <2> TAKE r \in rule
  <2>1. r \in Slots
    BY <1>1
  <2>2. CASE sk[r].shift = NoTime
    BY <2>1, <2>2 DEF PlaceOf, Slots
  <2>3. CASE sk[r].shift # NoTime
    <3>1. <<r, sk[r].shift>> \in Shifts
      BY <2>1, <2>3 DEF RowsSound
    <3>2. <<r, sk[r].shift>>[2] <= <<r, sk[r].shift>>[1] \/ <<r, sk[r].shift>>[2] <= 1 + HorizonDays
      BY <3>1 DEF ShiftsInOrder
    <3> QED BY <2>3, <3>2 DEF PlaceOf
  <2> QED BY <2>2, <2>3
<1>6. \A t \in Slots \ rule : PlaceOf(sk, t) = t /\ Free(sk, t)
  BY DEF RowsSound, PlaceOf, Free
<1> QED BY <1>1, <1>2, <1>4, <1>5, <1>6 DEF PlacesInOrder

LEMMA NextSlot ==
  ASSUME NEW rule \in Rules, NEW t \in Nat
  PROVE  LET next == NextOccurrence(rule, t)
         IN  /\ next \in rule \cup {MaxTime + 1}
             /\ next \in rule => next > t
             /\ \A u \in rule : t < u => next <= u
<1> DEFINE later == {u \in rule : u > t}
<1>1. rule \subseteq Slots /\ Slots \subseteq Nat /\ MaxTime \in Nat
  BY TemplateAssumption DEF Slots
<1>2. CASE later = {}
  <2>1. NextOccurrence(rule, t) = MaxTime + 1
    BY <1>2 DEF NextOccurrence
  <2>2. MaxTime + 1 \notin rule
    BY <1>1 DEF Slots
  <2>3. \A u \in rule : ~(t < u)
    BY <1>1, <1>2
  <2> QED BY <2>1, <2>2, <2>3
<1>3. CASE later # {}
  <2>1. NextOccurrence(rule, t) = Min(later)
    BY <1>3 DEF NextOccurrence
  <2>2. later \subseteq Nat
    BY <1>1
  <2>3. \A u \in rule : t < u => u \in later
    BY <1>1
  <2>4. \A u \in later : u \in rule /\ u > t
    OBVIOUS
  <2> HIDE DEF later
  <2>5. Min(later) \in later /\ \A u \in later : Min(later) <= u
    BY <1>3, <2>2, LeastOf
  <2> QED BY <2>1, <2>3, <2>4, <2>5
<1> QED BY <1>2, <1>3

\* The slots and numbers of the main posts and jobs, with the cursor and counter_next.
HasRound(N, sk, r) == ~Free(sk, r) \/ \E p \in N : p[1] = PlaceOf(sk, r)

\* Numbers rise with the slots and stay below the counter.
NumbersRise(N, counter) ==
  /\ N \subseteq Slots \X Nat /\ counter \in Nat
  /\ \A p \in N : p[2] < counter
  /\ \A p, q \in N : p[1] < q[1] => p[2] < q[2]

\* They belong to rounds, within the horizon.
NumbersPlaced(N, rule, sk, top) ==
  \A p \in N : p[1] <= top /\ \E r \in rule : p[1] = PlaceOf(sk, r)

\* Nothing is behind a round that may still be made ...
MissingAreLast(N, rule, cursor, sk, lo) ==
  \A r \in rule :
    r > lo \/ (cursor # NoTime /\ (r >= cursor \/ PlaceOf(sk, r) = cursor)) =>
      HasRound(N, sk, r) \/ \A p \in N : p[1] <= PlaceOf(sk, r)

\* ... and what the cursor has passed is made, or is made next.
PassedAreMade(N, rule, cursor, sk, lo) ==
  \A r \in rule : lo < r /\ r < cursor => HasRound(N, sk, r) \/ PlaceOf(sk, r) = cursor

CursorPlaced(rule, cursor, sk) ==
  \/ cursor \in rule \cup {NoTime, MaxTime + 1}
  \/ \E r \in rule : cursor = PlaceOf(sk, r)

\* The cursor is not behind a round that is made there.
NotPast(rule, cursor, sk) == \A r \in rule : PlaceOf(sk, r) = cursor => cursor <= r

Ledger(N, rule, cursor, counter, sk, lo, top) ==
  /\ NumbersRise(N, counter)
  /\ NumbersPlaced(N, rule, sk, top)
  /\ MissingAreLast(N, rule, cursor, sk, lo)
  /\ PassedAreMade(N, rule, cursor, sk, lo)
  /\ CursorPlaced(rule, cursor, sk)

\* The order of two places is that of their rounds.
LEMMA PlacesTell ==
  ASSUME NEW rule, NEW sk, PlacesInOrder(sk, rule), NEW q \in rule, NEW r \in rule
  PROVE  /\ PlaceOf(sk, q) = PlaceOf(sk, r) => q = r
         /\ PlaceOf(sk, q) < PlaceOf(sk, r) => q < r
         /\ PlaceOf(sk, q) = r => q = r
         /\ q \in Nat /\ PlaceOf(sk, q) \in Nat /\ r \in Nat /\ PlaceOf(sk, r) \in Nat
         /\ q < PlaceOf(sk, r) => q <= r
         /\ PlaceOf(sk, q) < r => q <= r
<1>1. q \in Nat /\ PlaceOf(sk, q) \in Nat /\ r \in Nat /\ PlaceOf(sk, r) \in Nat
  BY DEF PlacesInOrder, Slots
<1>2. q < r => PlaceOf(sk, q) < PlaceOf(sk, r) /\ PlaceOf(sk, q) < r /\ q < PlaceOf(sk, r)
  BY DEF PlacesInOrder
<1>3. r < q => PlaceOf(sk, r) < PlaceOf(sk, q) /\ PlaceOf(sk, r) < q /\ r < PlaceOf(sk, q)
  BY DEF PlacesInOrder
<1> QED BY <1>1, <1>2, <1>3

\* The walk makes the round at the cursor, or finds it made or skipped.
LEMMA LedgerStep ==
  ASSUME NEW rule \in Rules, NEW sk, PlacesInOrder(sk, rule), NEW N, NEW c \in Slots, NEW k,
         NEW lo \in Nat, NEW top \in Nat, 1 + HorizonDays <= top, c <= top,
         Ledger(N, rule, c, k, sk, lo, top)
  PROVE  LET next == NextOccurrence(rule, c)
         IN  /\ HasRound(N, sk, c) => Ledger(N, rule, next, k, sk, lo, top)
             /\ ~HasRound(N, sk, c) =>
                  Ledger(N \cup {<<PlaceOf(sk, c), k>>}, rule, next, k + 1, sk, lo, top)
             /\ NotPast(rule, next, sk)
<1> DEFINE next == NextOccurrence(rule, c)
           at   == PlaceOf(sk, c)
           made == HasRound(N, sk, c)
           M    == IF made THEN N ELSE N \cup {<<at, k>>}
<1>0. /\ MaxTime \in Nat /\ HorizonDays \in Nat /\ c \in Nat /\ c # NoTime /\ c <= MaxTime
      /\ c # MaxTime + 1
      /\ \A r \in rule : r \in Nat /\ r <= MaxTime
  BY TemplateAssumption DEF Slots, NoTime
<1>1. PICK rc \in rule : PlaceOf(sk, rc) = at /\ (rc = c \/ (c \notin rule /\ c = at))
  <2>1. CASE c \in rule
    BY <2>1
  <2>2. CASE c \notin rule
    <3>1. at = c
      BY <2>2 DEF PlacesInOrder
    <3> QED BY <1>0, <2>2, <3>1 DEF Ledger, CursorPlaced
  <2> QED BY <2>1, <2>2
<1>2. at \in Slots /\ at \in Nat /\ at <= top
  <2>1. at \in Slots /\ at \in Nat /\ (rc = c => at <= c \/ at <= 1 + HorizonDays)
    BY <1>1 DEF PlacesInOrder, Slots
  <2> QED BY <1>0, <1>1, <2>1
<1>3. Free(sk, c) <=> Free(sk, rc)
  <2>1. CASE c \notin rule /\ c = at
    <3>1. Free(sk, c)
      BY <2>1 DEF PlacesInOrder
    <3>2. PlaceOf(sk, rc) # rc
      BY <1>1, <2>1
    <3> QED BY <3>1, <3>2 DEF PlaceOf, Free
  <2> QED BY <1>1, <2>1
<1>4. made <=> HasRound(N, sk, rc)
  BY <1>1, <1>3 DEF HasRound
<1>5. /\ next \in rule \cup {MaxTime + 1} /\ next \in Nat
      /\ next \in rule => next > c
      /\ \A u \in rule : c < u => next <= u
  BY <1>0, NextSlot
<1>6. N \subseteq Slots \X Nat /\ k \in Nat
  BY DEF Ledger, NumbersRise
<1>7. ~made => \A p \in N : p[1] < at
  <2> SUFFICES ASSUME ~made, NEW p \in N PROVE p[1] < at
    OBVIOUS
  <2>1. p[1] <= at
    BY <1>0, <1>1, <1>4 DEF Ledger, MissingAreLast
  <2>2. p[1] # at
    BY DEF HasRound
  <2>3. p[1] \in Nat
    BY <1>6 DEF Slots
  <2> QED BY <1>2, <2>1, <2>2, <2>3
<1> HIDE DEF next, at, made
<1>8. \A p \in M : p \in N \/ (~made /\ p = <<at, k>>)
  OBVIOUS
<1>9. N \subseteq M /\ (~made => <<at, k>> \in M)
  OBVIOUS
<1>10. NumbersRise(M, IF made THEN k ELSE k + 1)
  <2>1. M \subseteq Slots \X Nat
    BY <1>2, <1>6
  <2>2. CASE made
    BY <2>2 DEF Ledger, NumbersRise
  <2>3. CASE ~made
    <3>1. \A p \in M : p[2] < k + 1
      <4> TAKE p \in M
      <4>1. CASE p \in N
        <5>1. p[2] < k /\ p[2] \in Nat
          BY <4>1, <1>6 DEF Ledger, NumbersRise
        <5> QED BY <5>1, <1>6
      <4>2. CASE p = <<at, k>>
        BY <4>2, <1>6
      <4> QED BY <1>8, <4>1, <4>2
    <3>2. \A p, q \in M : p[1] < q[1] => p[2] < q[2]
      <4> TAKE p, q \in M
      <4> HAVE p[1] < q[1]
      <4>1. CASE p \in N /\ q \in N
        BY <4>1 DEF Ledger, NumbersRise
      <4>2. CASE p \in N /\ q = <<at, k>>
        <5>1. p[2] < k
          BY <4>2 DEF Ledger, NumbersRise
        <5> QED BY <4>2, <5>1
      <4>3. CASE p = <<at, k>> /\ q \in N
        <5>1. at < q[1] /\ q[1] < at /\ q[1] \in Nat
          BY <4>3, <2>3, <1>6, <1>7 DEF Slots
        <5> QED BY <5>1, <1>2
      <4>4. CASE p = <<at, k>> /\ q = <<at, k>>
        BY <4>4, <1>2
      <4> QED BY <1>8, <4>1, <4>2, <4>3, <4>4
    <3>3. k + 1 \in Nat
      BY <1>6
    <3> QED BY <2>1, <2>3, <3>1, <3>2, <3>3 DEF NumbersRise
  <2> QED BY <2>2, <2>3
<1>11. NumbersPlaced(M, rule, sk, top)
  BY <1>1, <1>2, <1>8 DEF Ledger, NumbersPlaced
<1>12. HasRound(M, sk, rc)
  <2>1. CASE made
    BY <1>4, <1>9, <2>1 DEF HasRound
  <2>2. CASE ~made
    <3>1. <<at, k>> \in M /\ <<at, k>>[1] = PlaceOf(sk, rc)
      BY <1>1, <1>9, <2>2
    <3> QED BY <3>1 DEF HasRound
  <2> QED BY <2>1, <2>2
<1>13. \A r \in rule : HasRound(N, sk, r) => HasRound(M, sk, r)
  BY <1>9 DEF HasRound
<1> HIDE DEF M
<1>14. \A r \in rule : PlaceOf(sk, r) = c => r = rc
  <2> TAKE r \in rule
  <2> HAVE PlaceOf(sk, r) = c
  <2>1. CASE rc = c
    BY <2>1, PlacesTell
  <2>2. CASE c = at
    BY <2>2, <1>1, PlacesTell
  <2> QED BY <1>1, <2>1, <2>2
<1>15. PassedAreMade(M, rule, next, sk, lo)
  <2> SUFFICES ASSUME NEW r \in rule, lo < r, r < next PROVE HasRound(M, sk, r)
    BY DEF PassedAreMade
  <2>1. r <= c
    BY <1>0, <1>5
  <2>2. CASE r = c
    BY <2>2, <1>1, <1>12
  <2>3. CASE r < c
    <3>1. HasRound(N, sk, r) \/ PlaceOf(sk, r) = c
      BY <2>3 DEF Ledger, PassedAreMade
    <3> QED BY <3>1, <1>12, <1>13, <1>14
  <2> QED BY <1>0, <2>1, <2>2, <2>3
<1>16. \A r \in rule : PlaceOf(sk, r) = next => r = next
  <2> TAKE r \in rule
  <2> HAVE PlaceOf(sk, r) = next
  <2>1. next \in rule
    <3>1. PlaceOf(sk, r) <= MaxTime
      BY DEF PlacesInOrder, Slots
    <3> QED BY <1>0, <1>5, <3>1
  <2> QED BY <2>1, PlacesTell
<1>17. MissingAreLast(M, rule, next, sk, lo)
  <2> SUFFICES ASSUME NEW r \in rule, r > lo \/ r >= next \/ PlaceOf(sk, r) = next,
                      ~HasRound(M, sk, r), NEW p \in M
               PROVE  p[1] <= PlaceOf(sk, r)
    BY DEF MissingAreLast
  <2>1. r # rc /\ ~HasRound(N, sk, r) /\ rc # r
    BY <1>12, <1>13
  <2>2. r > lo \/ r > c
    <3>1. next \in rule => next > c
      BY <1>5
    <3>2. r >= next \/ PlaceOf(sk, r) = next => r >= next
      BY <1>0, <1>5, <1>16
    <3> QED BY <1>0, <1>5, <3>1, <3>2
  <2>3. CASE p \in N
    BY <2>1, <2>2, <2>3, <1>0 DEF Ledger, MissingAreLast
  <2>4. CASE ~made /\ p = <<at, k>>
    <3> SUFFICES ASSUME PlaceOf(sk, r) < at PROVE FALSE
      <4>1. PlaceOf(sk, r) \in Nat
        BY PlacesTell
      <4> QED BY <4>1, <2>4, <1>2
    <3>1. r < rc
      BY <1>1, PlacesTell
    <3>2. r < c
      BY <3>1, <1>1 DEF PlacesInOrder
    <3>3. r > lo
      BY <2>2, <3>2, <1>0
    <3>4. HasRound(N, sk, r) \/ PlaceOf(sk, r) = c
      BY <3>2, <3>3 DEF Ledger, PassedAreMade
    <3> QED BY <3>4, <2>1, <1>14
  <2> QED BY <1>8, <2>3, <2>4
<1>18. CursorPlaced(rule, next, sk)
  BY <1>5 DEF CursorPlaced
<1>19. NotPast(rule, next, sk)
  BY <1>0, <1>16 DEF NotPast
<1>20. Ledger(M, rule, next, IF made THEN k ELSE k + 1, sk, lo, top)
  BY <1>10, <1>11, <1>15, <1>17, <1>18 DEF Ledger
<1> QED BY <1>19, <1>20 DEF M, next, at, made

\* A round is skipped or shifted: the later ones go with it ...
LEMMA LedgerTorn ==
  ASSUME NEW rule \in Rules, NEW sk, NEW to, PlacesInOrder(sk, rule), PlacesInOrder(to, rule),
         NEW occ \in rule, PlaceOf(sk, occ) = occ, \A t \in Slots \ {occ} : to[t] = sk[t],
         NEW N, NEW c, NEW k, NEW k2 \in Nat, NEW lo \in Nat, NEW top,
         Ledger(N, rule, c, k, sk, lo, top), \E p \in N : p[1] >= occ,
         NEW M, M = {p \in N : p[1] < occ}, \A p \in M : p[2] < k2
  PROVE  Ledger(M, rule, occ, k2, to, lo, top) /\ NotPast(rule, occ, to)
<1>0. /\ \A r \in rule : r \in Nat /\ r \in Slots
      /\ occ # NoTime /\ N \subseteq Slots \X Nat
      /\ \A p \in N : p[1] \in Nat
  BY DEF PlacesInOrder, Slots, NoTime, Ledger, NumbersRise
<1>1. \A r \in rule : r # occ => PlaceOf(to, r) = PlaceOf(sk, r) /\ (Free(to, r) <=> Free(sk, r))
  BY <1>0 DEF PlaceOf, Free
<1>2. \A p \in M : p \in N /\ \E r \in rule : r < occ /\ p[1] = PlaceOf(sk, r)
  <2> TAKE p \in M
  <2>1. PICK r \in rule : p[1] = PlaceOf(sk, r)
    BY DEF Ledger, NumbersPlaced
  <2>2. r < occ
    BY <2>1, PlacesTell
  <2> QED BY <2>1, <2>2
<1>3. \A r \in rule : r < occ => (HasRound(M, to, r) <=> HasRound(N, sk, r))
  <2> TAKE r \in rule
  <2> HAVE r < occ
  <2>1. PlaceOf(to, r) = PlaceOf(sk, r) /\ (Free(to, r) <=> Free(sk, r))
    BY <1>0, <1>1
  <2>2. PlaceOf(sk, r) < occ
    BY DEF PlacesInOrder
  <2> QED BY <2>1, <2>2 DEF HasRound
<1>4. NumbersRise(M, k2)
  BY <1>0 DEF Ledger, NumbersRise
<1>5. NumbersPlaced(M, rule, to, top)
  <2> SUFFICES ASSUME NEW p \in M
               PROVE  p[1] <= top /\ \E r \in rule : p[1] = PlaceOf(to, r)
    BY DEF NumbersPlaced
  <2>1. PICK r \in rule : r < occ /\ p[1] = PlaceOf(sk, r)
    BY <1>2
  <2>2. PlaceOf(to, r) = PlaceOf(sk, r)
    BY <1>0, <1>1, <2>1
  <2> QED BY <2>1, <2>2 DEF Ledger, NumbersPlaced
<1>6. \A r \in rule : PlaceOf(to, r) = occ => r = occ
  BY PlacesTell
<1>7. MissingAreLast(M, rule, occ, to, lo)
  <2> SUFFICES ASSUME NEW r \in rule, r > lo \/ r >= occ \/ PlaceOf(to, r) = occ,
                      ~HasRound(M, to, r), NEW p \in M
               PROVE  p[1] <= PlaceOf(to, r)
    BY DEF MissingAreLast
  <2>1. PICK q \in rule : q < occ /\ p[1] = PlaceOf(sk, q)
    BY <1>2
  <2>2. PlaceOf(to, q) = PlaceOf(sk, q)
    BY <1>0, <1>1, <2>1
  <2>3. CASE r >= occ
    <3>1. q < r
      BY <1>0, <2>1, <2>3
    <3>2. PlaceOf(to, q) < PlaceOf(to, r)
      BY <3>1 DEF PlacesInOrder
    <3>3. PlaceOf(to, r) \in Nat
      BY PlacesTell
    <3> QED BY <1>0, <2>1, <2>2, <3>2, <3>3
  <2>4. CASE r < occ
    <3>1. r > lo /\ ~HasRound(N, sk, r)
      BY <1>0, <1>3, <1>6, <2>4
    <3>2. p[1] <= PlaceOf(sk, r)
      BY <1>2, <3>1 DEF Ledger, MissingAreLast
    <3>3. PlaceOf(to, r) = PlaceOf(sk, r)
      BY <1>0, <1>1, <2>4
    <3> QED BY <3>2, <3>3
  <2> QED BY <1>0, <2>3, <2>4
<1>8. PassedAreMade(M, rule, occ, to, lo)
  <2> SUFFICES ASSUME NEW r \in rule, lo < r, r < occ PROVE HasRound(N, sk, r)
    BY <1>3 DEF PassedAreMade
  <2>1. PICK p \in N : p[1] >= occ
    OBVIOUS
  <2>2. PlaceOf(sk, r) < occ /\ PlaceOf(sk, r) \in Nat
    BY PlacesTell DEF PlacesInOrder
  <2>3. ~(p[1] <= PlaceOf(sk, r))
    BY <1>0, <2>1, <2>2
  <2> QED BY <1>0, <2>3 DEF Ledger, MissingAreLast
<1>9. CursorPlaced(rule, occ, to)
  BY DEF CursorPlaced
<1>10. NotPast(rule, occ, to)
  BY <1>0, <1>6 DEF NotPast
<1> QED BY <1>4, <1>5, <1>7, <1>8, <1>9, <1>10 DEF Ledger

\* ... or there are none.
LEMMA LedgerMarked ==
  ASSUME NEW rule \in Rules, NEW sk, NEW to, PlacesInOrder(sk, rule), PlacesInOrder(to, rule),
         NEW occ \in rule, PlaceOf(sk, occ) = occ, Free(sk, occ),
         \A t \in Slots \ {occ} : to[t] = sk[t],
         NEW N, NEW c, NEW k, NEW lo \in Nat, NEW top,
         Ledger(N, rule, c, k, sk, lo, top), NotPast(rule, c, sk), \A p \in N : p[1] < occ
  PROVE  Ledger(N, rule, c, k, to, lo, top) /\ NotPast(rule, c, to)
<1>0. /\ \A r \in rule : r \in Nat /\ r \in Slots
      /\ occ # NoTime /\ N \subseteq Slots \X Nat
      /\ \A p \in N : p[1] \in Nat
      /\ MaxTime \in Nat
  BY TemplateAssumption DEF PlacesInOrder, Slots, NoTime, Ledger, NumbersRise
<1>1. \A r \in rule : r # occ => PlaceOf(to, r) = PlaceOf(sk, r) /\ (Free(to, r) <=> Free(sk, r))
  BY <1>0 DEF PlaceOf, Free
<1>2. \A r \in rule : r # occ => (HasRound(N, to, r) <=> HasRound(N, sk, r))
  BY <1>1 DEF HasRound
<1>3. \A p \in N : \E r \in rule : r < occ /\ p[1] = PlaceOf(sk, r) /\ p[1] = PlaceOf(to, r)
  <2> TAKE p \in N
  <2>1. PICK r \in rule : p[1] = PlaceOf(sk, r)
    BY DEF Ledger, NumbersPlaced
  <2>2. r < occ
    BY <2>1, PlacesTell
  <2> QED BY <2>1, <2>2, <1>0, <1>1
<1>4. NumbersPlaced(N, rule, to, top)
  BY <1>3 DEF Ledger, NumbersPlaced
<1>5. MissingAreLast(N, rule, c, to, lo)
  <2> SUFFICES ASSUME NEW r \in rule,
                      r > lo \/ (c # NoTime /\ (r >= c \/ PlaceOf(to, r) = c)),
                      ~HasRound(N, to, r), NEW p \in N
               PROVE  p[1] <= PlaceOf(to, r)
    BY DEF MissingAreLast
  <2>1. CASE r = occ
    <3>1. PICK q \in rule : q < occ /\ p[1] = PlaceOf(to, q)
      BY <1>3
    <3>2. PlaceOf(to, q) < PlaceOf(to, r)
      BY <2>1, <3>1 DEF PlacesInOrder
    <3>3. PlaceOf(to, r) \in Nat
      BY PlacesTell
    <3> QED BY <1>0, <3>1, <3>2, <3>3
  <2>2. CASE r # occ
    <3>1. PlaceOf(to, r) = PlaceOf(sk, r) /\ ~HasRound(N, sk, r)
      BY <2>2, <1>1, <1>2
    <3> QED BY <3>1 DEF Ledger, MissingAreLast
  <2> QED BY <2>1, <2>2
<1>6. PassedAreMade(N, rule, c, to, lo)
  <2> SUFFICES ASSUME NEW r \in rule, lo < r, r < c
               PROVE  HasRound(N, to, r) \/ PlaceOf(to, r) = c
    BY DEF PassedAreMade
  <2>0. HasRound(N, sk, r) \/ PlaceOf(sk, r) = c
    BY DEF Ledger, PassedAreMade
  <2>1. CASE r = occ
    <3>1. \A p \in N : p[1] # occ
      BY <1>0
    <3>2. PlaceOf(sk, r) = c
      BY <2>0, <2>1, <3>1 DEF HasRound
    <3> QED BY <1>0, <2>1, <3>2
  <2>2. CASE r # occ
    BY <2>0, <2>2, <1>1, <1>2
  <2> QED BY <2>1, <2>2
<1>7. CursorPlaced(rule, c, to)
  <2>1. CASE c \in rule \cup {NoTime, MaxTime + 1}
    BY <2>1 DEF CursorPlaced
  <2>2. CASE \E r \in rule : c = PlaceOf(sk, r)
    BY <2>2, <1>1 DEF CursorPlaced
  <2> QED BY <2>1, <2>2 DEF Ledger, CursorPlaced
<1>8. NotPast(rule, c, to)
  <2> SUFFICES ASSUME NEW r \in rule, PlaceOf(to, r) = c PROVE c <= r
    BY DEF NotPast
  <2>1. CASE r # occ
    BY <2>1, <1>1 DEF NotPast
  <2>2. CASE r = occ
    <3>1. c \in Slots /\ c # NoTime /\ c # MaxTime + 1
      BY <1>0 DEF PlacesInOrder, Slots, NoTime
    <3>2. CASE c \in rule
      <4>1. r = c
        BY <3>2, PlacesTell
      <4> QED BY <4>1, <1>0
    <3>3. CASE \E q \in rule : c = PlaceOf(sk, q)
      <4>1. PICK q \in rule : c = PlaceOf(sk, q)
        BY <3>3
      <4>2. CASE q = occ
        BY <4>1, <4>2, <2>2, <1>0
      <4>3. CASE q # occ
        <5>1. PlaceOf(to, q) = PlaceOf(to, r)
          BY <4>1, <4>3, <1>1
        <5>2. q = r
          BY <5>1, PlacesTell
        <5> QED BY <5>2, <4>3, <2>2
      <4> QED BY <4>2, <4>3
    <3> QED BY <3>1, <3>2, <3>3 DEF Ledger, CursorPlaced
  <2> QED BY <2>1, <2>2
<1> QED BY <1>4, <1>5, <1>6, <1>7, <1>8 DEF Ledger

\* The horizon is made again from the first round it holds.
LEMMA LedgerAgain ==
  ASSUME NEW rule \in Rules, NEW sk, PlacesInOrder(sk, rule), NEW N, NEW c, NEW k,
         NEW k2 \in Nat, NEW lo \in Nat, NEW top, Ledger(N, rule, c, k, sk, lo, top),
         NEW f \in N, NEW M, M = {p \in N : p[1] < f[1]}, \A p \in M : p[2] < k2
  PROVE  Ledger(M, rule, f[1], k2, sk, lo, top)
<1> DEFINE first == f[1]
<1>0. /\ \A r \in rule : r \in Nat
      /\ first \in Nat /\ first # NoTime /\ N \subseteq Slots \X Nat
      /\ \A p \in N : p[1] \in Nat
  BY DEF PlacesInOrder, Slots, NoTime, Ledger, NumbersRise
<1>1. PICK r0 \in rule : first = PlaceOf(sk, r0)
  BY DEF Ledger, NumbersPlaced
<1> HIDE DEF first
<1>2. \A p \in M : p \in N /\ p[1] < first /\ \E r \in rule : p[1] = PlaceOf(sk, r)
  BY DEF Ledger, NumbersPlaced, first
<1>3. \A r \in rule : PlaceOf(sk, r) < first => (HasRound(N, sk, r) => HasRound(M, sk, r))
  BY DEF HasRound, first
<1>4. NumbersRise(M, k2)
  BY <1>0 DEF Ledger, NumbersRise
<1>5. NumbersPlaced(M, rule, sk, top)
  BY <1>2 DEF Ledger, NumbersPlaced
<1>6. MissingAreLast(M, rule, first, sk, lo)
  <2> SUFFICES ASSUME NEW r \in rule, r > lo \/ r >= first \/ PlaceOf(sk, r) = first,
                      ~HasRound(M, sk, r), NEW p \in M
               PROVE  p[1] <= PlaceOf(sk, r)
    BY DEF MissingAreLast
  <2>0. PICK q \in rule : p[1] = PlaceOf(sk, q)
    BY <1>2
  <2> SUFFICES ASSUME PlaceOf(sk, r) < p[1] PROVE FALSE
    BY <1>0, <1>2, PlacesTell
  <2>1. r < q /\ r < PlaceOf(sk, q)
    BY <2>0, PlacesTell DEF PlacesInOrder
  <2>2. PlaceOf(sk, r) < first /\ r < first /\ PlaceOf(sk, r) \in Nat
    <3>1. PlaceOf(sk, r) \in Nat
      BY PlacesTell
    <3> QED BY <3>1, <2>0, <2>1, <1>0, <1>2
  <2>3. r > lo
    BY <2>2, <1>0
  <2>4. ~HasRound(N, sk, r)
    BY <1>3, <2>2
  <2>5. p[1] <= PlaceOf(sk, r)
    BY <1>2, <2>3, <2>4 DEF Ledger, MissingAreLast
  <2> QED BY <2>5, <2>2, <1>0, <1>2
<1>7. PassedAreMade(M, rule, first, sk, lo)
  <2> SUFFICES ASSUME NEW r \in rule, lo < r, r < first, PlaceOf(sk, r) # first
               PROVE  HasRound(M, sk, r)
    BY DEF PassedAreMade
  <2>1. PlaceOf(sk, r) < first /\ PlaceOf(sk, r) \in Nat
    <3>1. r <= r0 /\ r # r0
      BY <1>1, PlacesTell
    <3>2. r < r0
      BY <3>1, <1>0
    <3> QED BY <3>2, <1>1, PlacesTell DEF PlacesInOrder
  <2>2. ~(first <= PlaceOf(sk, r))
    BY <2>1, <1>0
  <2>3. HasRound(N, sk, r)
    BY <2>2 DEF Ledger, MissingAreLast, first
  <2> QED BY <1>3, <2>1, <2>3
<1>8. CursorPlaced(rule, first, sk)
  BY <1>1 DEF CursorPlaced
<1> QED BY <1>4, <1>5, <1>6, <1>7, <1>8 DEF Ledger, first

\* An editor sets the cursor anew.
LEMMA LedgerSet ==
  ASSUME NEW rule \in Rules, NEW sk, PlacesInOrder(sk, rule), NEW N, NEW c, NEW k,
         NEW lo \in Nat, NEW at \in Nat, lo <= at, NEW top, Ledger(N, rule, c, k, sk, lo, top),
         NEW to, to = NoTime \/ to = NextOccurrence(rule, at)
  PROVE  Ledger(N, rule, to, k, sk, at, top) /\ NotPast(rule, to, sk)
<1>0. /\ \A r \in rule : r \in Nat /\ r # NoTime /\ r # MaxTime + 1
      /\ \A r \in rule : PlaceOf(sk, r) # NoTime /\ PlaceOf(sk, r) # MaxTime + 1
      /\ MaxTime \in Nat
  BY TemplateAssumption DEF PlacesInOrder, Slots, NoTime
<1>1. /\ to \in rule \cup {NoTime, MaxTime + 1}
      /\ to \in rule => to > at
      /\ \A u \in rule : at < u /\ u < to => FALSE
  <2>1. CASE to = NoTime
    BY <2>1, <1>0 DEF NoTime
  <2>2. CASE to = NextOccurrence(rule, at)
    <3>1. to \in rule \cup {MaxTime + 1} /\ (to \in rule => to > at)
          /\ \A u \in rule : at < u => to <= u
      BY <2>2, NextSlot
    <3> QED BY <3>1, <1>0
  <2> QED BY <2>1, <2>2
<1>2. \A r \in rule : PlaceOf(sk, r) = to => to \in rule /\ r = to
  <2> TAKE r \in rule
  <2> HAVE PlaceOf(sk, r) = to
  <2>1. to \in rule
    BY <1>0, <1>1
  <2> QED BY <2>1, PlacesTell
<1>3. NotPast(rule, to, sk)
  BY <1>0, <1>2 DEF NotPast
<1>4. MissingAreLast(N, rule, to, sk, at)
  <2> SUFFICES ASSUME NEW r \in rule, r > at \/ (to # NoTime /\ (r >= to \/ PlaceOf(sk, r) = to))
               PROVE  r > lo
    BY DEF Ledger, MissingAreLast
  <2>1. CASE r > at
    BY <2>1, <1>0
  <2>2. CASE to # NoTime /\ (r >= to \/ PlaceOf(sk, r) = to)
    <3>1. r >= to /\ to \in rule \cup {MaxTime + 1}
      BY <1>0, <1>1, <1>2, <2>2
    <3>2. to \in rule
      BY <1>0, <3>1 DEF PlacesInOrder, Slots
    <3> QED BY <1>0, <1>1, <3>1, <3>2
  <2> QED BY <2>1, <2>2
<1>5. PassedAreMade(N, rule, to, sk, at)
  BY <1>1 DEF PassedAreMade
<1>6. CursorPlaced(rule, to, sk)
  BY <1>1 DEF CursorPlaced
<1> QED BY <1>3, <1>4, <1>5, <1>6 DEF Ledger

LEMMA LedgerLater ==
  ASSUME NEW rule \in Rules, NEW sk, PlacesInOrder(sk, rule), NEW N, NEW c, NEW k,
         NEW lo \in Nat, NEW lo2 \in Nat, lo <= lo2, NEW top \in Nat, NEW top2 \in Nat, top <= top2,
         Ledger(N, rule, c, k, sk, lo, top)
  PROVE  Ledger(N, rule, c, k, sk, lo2, top2)
<1>0. (\A r \in rule : r \in Nat) /\ \A p \in N : p[1] \in Nat
  BY DEF PlacesInOrder, Slots, Ledger, NumbersRise
<1>1. NumbersPlaced(N, rule, sk, top2)
  BY <1>0 DEF Ledger, NumbersPlaced
<1>2. MissingAreLast(N, rule, c, sk, lo2)
  <2>1. \A r \in rule : r > lo2 => r > lo
    BY <1>0
  <2> QED BY <2>1 DEF Ledger, MissingAreLast
<1>3. PassedAreMade(N, rule, c, sk, lo2)
  <2>1. \A r \in rule : lo2 < r => lo < r
    BY <1>0
  <2> QED BY <2>1 DEF Ledger, PassedAreMade
<1> QED BY <1>1, <1>2, <1>3 DEF Ledger

\* The same of the record of a transaction.
Mains(st)   == {e \in LiveOf(st) : e.role = "main"}
Numbers(st) == {<<e.occ, e.ctr>> : e \in Mains(st)}

\* A round has an announcement only with its main post or job.
Backed(st) == \A x \in LiveOf(st) : \E p \in Numbers(st) : p[1] = x.occ

\* What the AI and the setting say of the roles of posts and jobs.
RolesTold(st) ==
  /\ "main" \notin st.tmpl.ai => \A j \in st.jobs : j.role # "main"
  /\ ~st.tmpl.annOn => \A x \in LiveOf(st) : x.role = "main"

SameTemplate(t, u) ==
  /\ u.rule = t.rule /\ u.ai = t.ai /\ u.annOn = t.annOn
  /\ u.enabled = t.enabled /\ u.exists = t.exists

Whole(st, sk, lo, top) ==
  /\ Ledger(Numbers(st), st.tmpl.rule, st.tmpl.cursor, st.tmpl.counter, sk, lo, top)
  /\ Backed(st) /\ RolesTold(st)

LEMMA HasNumber ==
  ASSUME NEW st, NEW occ
  PROVE  Has(st, occ, "main") <=> \E p \in Numbers(st) : p[1] = occ
<1>1. Has(st, occ, "main") <=> \E e \in Mains(st) : e.occ = occ
  BY DEF Has, Mains, LiveOf, LinkedPosts
<1>2. (\E e \in Mains(st) : e.occ = occ) => \E p \in Numbers(st) : p[1] = occ
  <2> SUFFICES ASSUME NEW e \in Mains(st), e.occ = occ PROVE \E p \in Numbers(st) : p[1] = occ
    OBVIOUS
  <2>1. <<e.occ, e.ctr>> \in Numbers(st) /\ <<e.occ, e.ctr>>[1] = occ
    BY DEF Numbers
  <2> QED BY <2>1
<1>3. (\E p \in Numbers(st) : p[1] = occ) => \E e \in Mains(st) : e.occ = occ
  <2> SUFFICES ASSUME NEW p \in Numbers(st), p[1] = occ PROVE \E e \in Mains(st) : e.occ = occ
    OBVIOUS
  <2>1. PICK e \in Mains(st) : p = <<e.occ, e.ctr>>
    BY DEF Numbers
  <2> QED BY <2>1
<1> QED BY <1>1, <1>2, <1>3

LEMMA MainMadeEffect ==
  ASSUME NEW st, RecordShape(st), NEW occ, NEW ctr, NEW ai
  PROVE  LET to == createScheduledPostFromTemplate(st, occ, ctr, ai)
         IN  /\ to.tmpl = st.tmpl
             /\ Has(st, occ, "main") => to = st
             /\ ~Has(st, occ, "main") =>
                  \E n : /\ n.occ = occ /\ n.ctr = ctr /\ n.role = "main"
                         /\ LiveOf(to) = LiveOf(st) \cup {n}
                         /\ to.jobs = st.jobs \/ ("main" \in ai /\ to.jobs = st.jobs \cup {n})
<1> DEFINE to == createScheduledPostFromTemplate(st, occ, ctr, ai)
<1>0. st \in [tmpl : {st.tmpl}, posts : {st.posts}, jobs : {st.jobs}]
  BY DEF RecordShape
<1>1. CASE Has(st, occ, "main")
  BY <1>1 DEF createScheduledPostFromTemplate
<1>2. CASE ~Has(st, occ, "main") /\ "main" \in ai
  <2> DEFINE n == [id |-> FreshId(st), occ |-> occ, role |-> "main", ctr |-> ctr]
  <2>1. to = [st EXCEPT !.jobs = st.jobs \cup {n}]
    BY <1>2 DEF createScheduledPostFromTemplate, submitRecurringAIJob
  <2>2. n.occ = occ /\ n.ctr = ctr /\ n.role = "main"
    OBVIOUS
  <2> HIDE DEF n, to
  <2>3. to.tmpl = st.tmpl /\ to.posts = st.posts /\ to.jobs = st.jobs \cup {n}
    BY <1>0, <2>1
  <2>4. LiveOf(to) = LiveOf(st) \cup {n}
    BY <2>3 DEF LiveOf, LinkedPosts
  <2> QED BY <1>2, <2>2, <2>3, <2>4 DEF to
<1>3. CASE ~Has(st, occ, "main") /\ "main" \notin ai
  <2> DEFINE n == [id |-> FreshId(st), occ |-> occ, role |-> "main", ctr |-> ctr, status |-> "open"]
  <2>1. to = [st EXCEPT !.posts = st.posts \cup {n}]
    BY <1>3 DEF createScheduledPostFromTemplate, createAutomationPost
  <2>2. n.occ = occ /\ n.ctr = ctr /\ n.role = "main" /\ n.status = "open"
    OBVIOUS
  <2> HIDE DEF n, to
  <2>3. to.tmpl = st.tmpl /\ to.posts = st.posts \cup {n} /\ to.jobs = st.jobs
    BY <1>0, <2>1
  <2>4. LiveOf(to) = LiveOf(st) \cup {n}
    BY <2>2, <2>3 DEF LiveOf, LinkedPosts
  <2> QED BY <1>3, <2>2, <2>3, <2>4 DEF to
<1> QED BY <1>1, <1>2, <1>3

\* An announcement changes nothing but its own counter.
OnlyAnnounces(st, to, occ) ==
  /\ SameTemplate(st.tmpl, to.tmpl)
  /\ to.tmpl.cursor = st.tmpl.cursor /\ to.tmpl.counter = st.tmpl.counter
  /\ \E S : /\ LiveOf(to) = LiveOf(st) \cup S
            /\ \A x \in S : x.role = "announcement" /\ x.occ = occ
            /\ ~st.tmpl.annOn => S = {}
            /\ to.jobs \subseteq st.jobs \cup S

LEMMA AnnouncementEffect ==
  ASSUME NEW st, RecordShape(st), NEW sk, NEW occ, NEW ctr, NEW advance, NEW ai
  PROVE  OnlyAnnounces(st, materializeAnnouncement(st, sk, occ, ctr, advance, ai), occ)
<1> DEFINE made == IF "announcement" \in ai
                   THEN submitRecurringAIJob(st, occ, "announcement", ctr)
                   ELSE createAutomationPost(st, occ, "announcement", ctr)
           to   == materializeAnnouncement(st, sk, occ, ctr, advance, ai)
<1>0. st \in [tmpl : {st.tmpl}, posts : {st.posts}, jobs : {st.jobs}] /\ TemplateRow(st.tmpl)
  BY DEF RecordShape
<1>1. CASE ~st.tmpl.annOn \/ IsPostTemplateAnnouncementSkipped(sk, occ) \/ Has(st, occ, "announcement")
  <2>1. to = st
    BY <1>1 DEF materializeAnnouncement
  <2>2. \E S : /\ LiveOf(st) = LiveOf(st) \cup S
               /\ \A x \in S : x.role = "announcement" /\ x.occ = occ
               /\ ~st.tmpl.annOn => S = {}
               /\ st.jobs \subseteq st.jobs \cup S
    <3> DEFINE none == {}
    <3>1. LiveOf(st) = LiveOf(st) \cup none /\ st.jobs \subseteq st.jobs \cup none /\ none = {}
      OBVIOUS
    <3>2. \A x \in none : x.role = "announcement" /\ x.occ = occ
      OBVIOUS
    <3> HIDE DEF none
    <3> QED BY ONLY <3>1, <3>2
  <2>3. SameTemplate(st.tmpl, st.tmpl)
    BY DEF SameTemplate
  <2>4. OnlyAnnounces(st, st, occ)
    BY ONLY <2>2, <2>3 DEF OnlyAnnounces
  <2> QED BY <2>1, <2>4
<1>2. CASE st.tmpl.annOn /\ ~IsPostTemplateAnnouncementSkipped(sk, occ) /\ ~Has(st, occ, "announcement")
  <2>1. /\ made.tmpl = st.tmpl
        /\ made \in [tmpl : {made.tmpl}, posts : {made.posts}, jobs : {made.jobs}]
        /\ \E n : /\ n.role = "announcement" /\ n.occ = occ
                  /\ LiveOf(made) = LiveOf(st) \cup {n} /\ made.jobs \subseteq st.jobs \cup {n}
    <3>1. CASE "announcement" \in ai
      <4> DEFINE n == [id |-> FreshId(st), occ |-> occ, role |-> "announcement", ctr |-> ctr]
      <4>1. made = [st EXCEPT !.jobs = st.jobs \cup {n}]
        BY <3>1 DEF submitRecurringAIJob
      <4>2. n.occ = occ /\ n.role = "announcement"
        OBVIOUS
      <4> HIDE DEF n, made
      <4>3. /\ made.tmpl = st.tmpl /\ made.posts = st.posts /\ made.jobs = st.jobs \cup {n}
            /\ made \in [tmpl : {made.tmpl}, posts : {made.posts}, jobs : {made.jobs}]
        BY <1>0, <4>1
      <4>4. LiveOf(made) = LiveOf(st) \cup {n}
        BY <4>3 DEF LiveOf, LinkedPosts
      <4> QED BY <4>2, <4>3, <4>4
    <3>2. CASE "announcement" \notin ai
      <4> DEFINE n == [id |-> FreshId(st), occ |-> occ, role |-> "announcement", ctr |-> ctr,
                       status |-> "open"]
      <4>1. made = [st EXCEPT !.posts = st.posts \cup {n}]
        BY <3>2, <1>2 DEF createAutomationPost
      <4>2. n.occ = occ /\ n.role = "announcement" /\ n.status = "open"
        OBVIOUS
      <4> HIDE DEF n, made
      <4>3. /\ made.tmpl = st.tmpl /\ made.posts = st.posts \cup {n} /\ made.jobs = st.jobs
            /\ made \in [tmpl : {made.tmpl}, posts : {made.posts}, jobs : {made.jobs}]
        BY <1>0, <4>1
      <4>4. LiveOf(made) = LiveOf(st) \cup {n}
        BY <4>2, <4>3 DEF LiveOf, LinkedPosts
      <4> QED BY <4>2, <4>3, <4>4
    <3> QED BY <3>1, <3>2
  <2>2. to = IF advance THEN AdvancePostTemplateAnnouncementCounter(made, ctr + 1) ELSE made
    BY <1>2 DEF materializeAnnouncement
  <2> HIDE DEF made, to
  <2>3. /\ SameTemplate(made.tmpl, to.tmpl) /\ to.tmpl.cursor = made.tmpl.cursor
        /\ to.tmpl.counter = made.tmpl.counter /\ to.posts = made.posts /\ to.jobs = made.jobs
    <3>1. CASE advance
      <4> DEFINE t == [made.tmpl EXCEPT !.annCounter = ctr + 1]
      <4>1. to = [made EXCEPT !.tmpl = t]
        BY <2>2, <3>1 DEF AdvancePostTemplateAnnouncementCounter
      <4>2. SameTemplate(made.tmpl, t) /\ t.cursor = made.tmpl.cursor /\ t.counter = made.tmpl.counter
        BY <1>0, <2>1 DEF TemplateRow, SameTemplate
      <4> HIDE DEF t
      <4>3. to.tmpl = t /\ to.posts = made.posts /\ to.jobs = made.jobs
        BY <2>1, <4>1
      <4> QED BY <4>2, <4>3
    <3>2. CASE ~advance
      BY <2>2, <3>2 DEF SameTemplate
    <3> QED BY <3>1, <3>2
  <2>4. LiveOf(to) = LiveOf(made)
    BY <2>3 DEF LiveOf, LinkedPosts
  <2>5. PICK n : /\ n.role = "announcement" /\ n.occ = occ
                 /\ LiveOf(to) = LiveOf(st) \cup {n} /\ to.jobs \subseteq st.jobs \cup {n}
    BY <2>1, <2>3, <2>4
  <2>6. \A x \in {n} : x.role = "announcement" /\ x.occ = occ
    BY <2>5
  <2>7. OnlyAnnounces(st, to, occ)
    <3>1. SameTemplate(st.tmpl, to.tmpl)
      BY <2>1, <2>3
    <3> QED BY <1>2, <2>1, <2>3, <2>5, <2>6, <3>1 DEF OnlyAnnounces
  <2> QED BY <2>7 DEF to
<1> QED BY <1>1, <1>2

LEMMA WholeAnnounced ==
  ASSUME NEW st, NEW sk, NEW lo, NEW top, Whole(st, sk, lo, top), NEW occ,
         \E p \in Numbers(st) : p[1] = occ, NEW to, OnlyAnnounces(st, to, occ)
  PROVE  Whole(to, sk, lo, top) /\ Numbers(to) = Numbers(st)
<1>1. PICK S : /\ LiveOf(to) = LiveOf(st) \cup S
               /\ \A x \in S : x.role = "announcement" /\ x.occ = occ
               /\ ~st.tmpl.annOn => S = {}
               /\ to.jobs \subseteq st.jobs \cup S
  BY DEF OnlyAnnounces
<1>2. Mains(to) = Mains(st)
  BY <1>1 DEF Mains
<1>3. Numbers(to) = Numbers(st)
  BY <1>2 DEF Numbers
<1>4. Backed(to)
  BY <1>1, <1>3 DEF Whole, Backed
<1>5. RolesTold(to)
  BY <1>1 DEF Whole, RolesTold, OnlyAnnounces, SameTemplate
<1> QED BY <1>3, <1>4, <1>5 DEF Whole, OnlyAnnounces, SameTemplate

\* A main post or job is added.
LEMMA WholeAdded ==
  ASSUME NEW st, Backed(st), RolesTold(st), NEW ai, ai \subseteq st.tmpl.ai, NEW n, n.role = "main",
         NEW to, SameTemplate(st.tmpl, to.tmpl), LiveOf(to) = LiveOf(st) \cup {n},
         to.jobs = st.jobs \/ ("main" \in ai /\ to.jobs = st.jobs \cup {n})
  PROVE  Backed(to) /\ RolesTold(to) /\ Numbers(to) = Numbers(st) \cup {<<n.occ, n.ctr>>}
<1>1. Mains(to) = Mains(st) \cup {n}
  BY DEF Mains
<1>2. Numbers(to) = Numbers(st) \cup {<<n.occ, n.ctr>>}
  BY <1>1 DEF Numbers
<1>3. Backed(to)
  <2>1. <<n.occ, n.ctr>> \in Numbers(to) /\ <<n.occ, n.ctr>>[1] = n.occ
    BY <1>2
  <2> QED BY <1>2, <2>1 DEF Backed
<1>4. RolesTold(to)
  BY DEF RolesTold, SameTemplate
<1> QED BY <1>2, <1>3, <1>4

\* What the functions of the record are asked for.
WalkInput(st, sk, lo, top, ai) ==
  /\ RoundsSound(st, sk, FALSE) /\ SkipsSound(sk, FALSE)
  /\ RowsSound(sk, st.tmpl.rule) /\ PlacesInOrder(sk, st.tmpl.rule)
  /\ lo \in Nat /\ top \in Nat /\ 1 + HorizonDays <= top
  /\ ai \subseteq st.tmpl.ai
  /\ Whole(st, sk, lo, top)

WalkOutput(st, to, sk, lo, top) ==
  /\ RoundsSound(to, sk, FALSE)
  /\ SameTemplate(st.tmpl, to.tmpl)
  /\ Whole(to, sk, lo, top)

LEMMA AdvanceEffect ==
  ASSUME NEW st, RecordShape(st), NEW next \in 0..MaxTime + 1, NEW k
  PROVE  LET to == AdvancePostTemplateSchedule(st, next, k)
         IN  /\ SameTemplate(st.tmpl, to.tmpl)
             /\ to.tmpl.cursor = next /\ to.tmpl.counter = k
             /\ LiveOf(to) = LiveOf(st) /\ to.jobs = st.jobs
             /\ RecordShape(to)
<1> DEFINE t  == [st.tmpl EXCEPT !.cursor = next, !.counter = k]
           to == AdvancePostTemplateSchedule(st, next, k)
<1>1. to = [st EXCEPT !.tmpl = t]
  BY DEF AdvancePostTemplateSchedule, RecordShape
<1>2. TemplateRow(t) /\ SameTemplate(st.tmpl, t) /\ t.cursor = next /\ t.counter = k
  BY DEF RecordShape, TemplateRow, SameTemplate
<1> HIDE DEF t, to
<1>3. /\ to.tmpl = t /\ to.posts = st.posts /\ to.jobs = st.jobs
      /\ to \in [tmpl : {to.tmpl}, posts : {to.posts}, jobs : {to.jobs}]
  BY <1>1 DEF RecordShape
<1>4. LiveOf(to) = LiveOf(st)
  BY <1>3 DEF LiveOf, LinkedPosts
<1>5. RecordShape(to)
  BY <1>2, <1>3 DEF RecordShape
<1> QED BY <1>2, <1>3, <1>4, <1>5 DEF to

LEMMA OnceLedger ==
  ASSUME NEW st, NEW sk, NEW lo, NEW top, NEW ai, WalkInput(st, sk, lo, top, ai),
         NEW c \in Slots, c = st.tmpl.cursor, c <= top
  PROVE  LET to == Once(st, sk, c, ai)
         IN  WalkOutput(st, to, sk, lo, top) /\ NotPast(to.tmpl.rule, to.tmpl.cursor, sk)
<1> DEFINE t      == st.tmpl
           next   == NextOccurrence(t.rule, c)
           occ    == PlaceOf(sk, c)
           exists == Has(st, occ, "main")
           made   == createScheduledPostFromTemplate(st, occ, t.counter, ai)
           adv    == AdvancePostTemplateSchedule(made, next, IF exists THEN t.counter ELSE t.counter + 1)
           to     == Once(st, sk, c, ai)
<1>0. /\ RecordShape(st) /\ t.rule \in Rules /\ next \in 0..MaxTime + 1
      /\ RoundsSound(to, sk, FALSE)
  <2>1. RecordShape(st) /\ t.rule \in Rules
    BY DEF WalkInput, RoundsSound, RecordShape, TemplateRow
  <2>2. next \in 0..MaxTime + 1
    BY <2>1, NextIsASlot
  <2>3. RoundsSound(to, sk, FALSE)
    BY OnceKeeps DEF WalkInput
  <2> QED BY <2>1, <2>2, <2>3
<1>1. /\ HasRound(Numbers(st), sk, c) => Ledger(Numbers(st), t.rule, next, t.counter, sk, lo, top)
      /\ ~HasRound(Numbers(st), sk, c) =>
           Ledger(Numbers(st) \cup {<<occ, t.counter>>}, t.rule, next, t.counter + 1, sk, lo, top)
      /\ NotPast(t.rule, next, sk)
  BY <1>0, LedgerStep DEF WalkInput, Whole
<1>2. HasRound(Numbers(st), sk, c) <=> ~Free(sk, c) \/ exists
  BY HasNumber DEF HasRound
<1> HIDE DEF next
<1>3. CASE ~Free(sk, c)
  <2>1. to = AdvancePostTemplateSchedule(st, next, t.counter)
    BY <1>3 DEF Once, next, Free, IsPostTemplateOccurrenceSkipped, ShiftTo
  <2>2. /\ SameTemplate(st.tmpl, to.tmpl) /\ to.tmpl.cursor = next /\ to.tmpl.counter = t.counter
        /\ LiveOf(to) = LiveOf(st) /\ to.jobs = st.jobs
    BY <1>0, <2>1, AdvanceEffect
  <2> HIDE DEF to
  <2>3. Numbers(to) = Numbers(st)
    BY <2>2 DEF Numbers, Mains
  <2>4. Backed(to) /\ RolesTold(to)
    BY <2>2, <2>3 DEF WalkInput, Whole, Backed, RolesTold, SameTemplate
  <2>5. WalkOutput(st, to, sk, lo, top) /\ NotPast(to.tmpl.rule, to.tmpl.cursor, sk)
    BY <1>0, <1>1, <1>2, <1>3, <2>2, <2>3, <2>4 DEF WalkOutput, Whole, SameTemplate
  <2> QED BY <2>5 DEF to
<1>4. CASE Free(sk, c)
  <2>1. to = materializeAnnouncement(adv, sk, occ, t.annCounter, ~exists, ai)
    <3>1. sk[c].scope \in {"none", "occurrence"} /\ (sk[c].scope = "none" => sk[c].shift = NoTime)
      BY DEF WalkInput, RowsSound
    <3>2. ~(IsPostTemplateOccurrenceSkipped(sk, c) /\ ShiftTo(sk, c) = NoTime)
          /\ occ = IF IsPostTemplateOccurrenceSkipped(sk, c) /\ ShiftTo(sk, c) # NoTime
                   THEN ShiftTo(sk, c) ELSE c
      BY <1>4, <3>1 DEF Free, IsPostTemplateOccurrenceSkipped, ShiftTo, PlaceOf
    <3> HIDE DEF occ
    <3> QED BY <3>2 DEF Once, next
  <2>2. occ \in Slots
    <3>1. c \in t.rule \/ PlaceOf(sk, c) = c
      BY DEF WalkInput, PlacesInOrder
    <3> QED BY <3>1 DEF WalkInput, PlacesInOrder
  <2> HIDE DEF occ, to
  <2>3. RecordShape(made)
    <3>1. RoundsSound(made, sk, FALSE)
      BY <2>2, MainMade DEF WalkInput
    <3> QED BY <3>1 DEF RoundsSound
  <2>4. /\ made.tmpl = st.tmpl
        /\ exists => made = st
        /\ ~exists => \E n : /\ n.occ = occ /\ n.ctr = t.counter /\ n.role = "main"
                             /\ LiveOf(made) = LiveOf(st) \cup {n}
                             /\ made.jobs = st.jobs \/ ("main" \in ai /\ made.jobs = st.jobs \cup {n})
    BY <1>0, MainMadeEffect
  <2> HIDE DEF made
  <2>5. /\ SameTemplate(st.tmpl, adv.tmpl) /\ adv.tmpl.cursor = next
        /\ adv.tmpl.counter = (IF exists THEN t.counter ELSE t.counter + 1)
        /\ LiveOf(adv) = LiveOf(made) /\ adv.jobs = made.jobs /\ RecordShape(adv)
    BY <1>0, <2>3, <2>4, AdvanceEffect
  <2> HIDE DEF adv
  <2>6. Whole(adv, sk, lo, top) /\ \E p \in Numbers(adv) : p[1] = occ
    <3>1. CASE exists
      <4>1. Numbers(adv) = Numbers(st) /\ adv.jobs = st.jobs /\ LiveOf(adv) = LiveOf(st)
        BY <2>4, <2>5, <3>1 DEF Numbers, Mains
      <4>2. Backed(adv) /\ RolesTold(adv)
        BY <2>5, <4>1 DEF WalkInput, Whole, Backed, RolesTold, SameTemplate
      <4>3. \E p \in Numbers(adv) : p[1] = occ
        BY <3>1, <4>1, HasNumber
      <4> QED BY <1>1, <1>2, <2>5, <3>1, <4>1, <4>2, <4>3 DEF Whole, SameTemplate
    <3>2. CASE ~exists
      <4>1. PICK n : /\ n.occ = occ /\ n.ctr = t.counter /\ n.role = "main"
                     /\ LiveOf(adv) = LiveOf(st) \cup {n}
                     /\ adv.jobs = st.jobs \/ ("main" \in ai /\ adv.jobs = st.jobs \cup {n})
        BY <2>4, <2>5, <3>2
      <4>2. /\ Backed(adv) /\ RolesTold(adv)
            /\ Numbers(adv) = Numbers(st) \cup {<<occ, t.counter>>}
        BY <2>5, <4>1, WholeAdded DEF WalkInput, Whole
      <4>3. \E p \in Numbers(adv) : p[1] = occ
        <5>1. <<occ, t.counter>> \in Numbers(adv) /\ <<occ, t.counter>>[1] = occ
          BY <4>2
        <5> QED BY <5>1
      <4> QED BY <1>1, <1>2, <1>4, <2>5, <3>2, <4>2, <4>3 DEF Whole, SameTemplate
    <3> QED BY <3>1, <3>2
  <2>7. OnlyAnnounces(adv, to, occ)
    BY <2>1, <2>5, AnnouncementEffect
  <2>8. Whole(to, sk, lo, top)
    BY <2>6, <2>7, WholeAnnounced
  <2>9. SameTemplate(st.tmpl, to.tmpl) /\ to.tmpl.cursor = next
    BY <2>5, <2>7 DEF OnlyAnnounces, SameTemplate
  <2>10. WalkOutput(st, to, sk, lo, top) /\ NotPast(to.tmpl.rule, to.tmpl.cursor, sk)
    BY <1>0, <1>1, <2>8, <2>9 DEF WalkOutput, SameTemplate
  <2> QED BY <2>10 DEF to
<1> QED BY <1>3, <1>4

LEMMA InputAgain ==
  ASSUME NEW st, NEW to, NEW sk, NEW lo, NEW top, NEW ai,
         WalkInput(st, sk, lo, top, ai), WalkOutput(st, to, sk, lo, top)
  PROVE  WalkInput(to, sk, lo, top, ai)
BY DEF WalkInput, WalkOutput, SameTemplate

LEMMA OutputAgain ==
  ASSUME NEW st, NEW x, NEW to, NEW sk, NEW lo, NEW top,
         WalkOutput(st, x, sk, lo, top), WalkOutput(x, to, sk, lo, top)
  PROVE  WalkOutput(st, to, sk, lo, top)
BY DEF WalkOutput, SameTemplate

InReach(st, until) == st.tmpl.cursor \in 1..Min({until, MaxTime})

LEMMA StepLedger ==
  ASSUME NEW st, NEW sk, NEW lo, NEW top, NEW ai, WalkInput(st, sk, lo, top, ai),
         NEW until \in Nat, until <= top,
         InReach(st, until) \/ NotPast(st.tmpl.rule, st.tmpl.cursor, sk)
  PROVE  LET to == StepOf(st, sk, until, ai)
         IN  WalkOutput(st, to, sk, lo, top) /\ NotPast(to.tmpl.rule, to.tmpl.cursor, sk)
<1> DEFINE c  == st.tmpl.cursor
           to == StepOf(st, sk, until, ai)
<1>1. /\ Min({until, MaxTime}) \in Nat /\ Min({until, MaxTime}) <= MaxTime
      /\ Min({until, MaxTime}) <= until
  <2>1. {until, MaxTime} \subseteq Nat /\ {until, MaxTime} # {}
    BY TemplateAssumption
  <2> QED BY <2>1, LeastOf
<1>2. CASE InReach(st, until)
  <2>1. c \in Slots /\ c <= top
    BY <1>1, <1>2, TemplateAssumption DEF InReach, Slots, WalkInput
  <2>2. to = Once(st, sk, c, ai)
    BY <1>2 DEF StepOf, InReach
  <2> QED BY <2>1, <2>2, OnceLedger
<1>3. CASE ~InReach(st, until)
  <2>1. to = st
    BY <1>3 DEF StepOf, InReach
  <2>2. WalkOutput(st, st, sk, lo, top)
    BY DEF WalkInput, WalkOutput, SameTemplate
  <2> QED BY <1>3, <2>1, <2>2
<1> QED BY <1>2, <1>3

LEMMA HorizonLedger ==
  ASSUME NEW st, NEW sk, NEW lo, NEW top, NEW ai, WalkInput(st, sk, lo, top, ai),
         NEW until \in Nat, until <= top,
         InReach(st, until) \/ NotPast(st.tmpl.rule, st.tmpl.cursor, sk)
  PROVE  LET to == Horizon(st, sk, until, ai)
         IN  WalkOutput(st, to, sk, lo, top) /\ NotPast(to.tmpl.rule, to.tmpl.cursor, sk)
<1>1. PICK w : /\ w[0] = st
               /\ \A n \in 1..MaxTime : w[n] = StepOf(w[n-1], sk, until, ai)
               /\ Horizon(st, sk, until, ai) = w[MaxTime]
  BY ONLY HorizonIsAWalk
<1> DEFINE Good(x) == /\ WalkOutput(st, x, sk, lo, top)
                      /\ InReach(x, until) \/ NotPast(x.tmpl.rule, x.tmpl.cursor, sk)
           Set(x)  == WalkOutput(st, x, sk, lo, top) /\ NotPast(x.tmpl.rule, x.tmpl.cursor, sk)
           bad == {k \in 0..MaxTime : ~Good(w[k])}
<1>2. MaxTime \in Nat
  BY TemplateAssumption
<1>3. \A x : Good(x) => Set(StepOf(x, sk, until, ai))
  <2> SUFFICES ASSUME NEW x, Good(x) PROVE Set(StepOf(x, sk, until, ai))
    OBVIOUS
  <2> DEFINE to == StepOf(x, sk, until, ai)
  <2>1. WalkInput(x, sk, lo, top, ai)
    BY InputAgain
  <2>2. WalkOutput(x, to, sk, lo, top) /\ NotPast(to.tmpl.rule, to.tmpl.cursor, sk)
    BY <2>1, StepLedger
  <2> HIDE DEF to
  <2>3. WalkOutput(st, to, sk, lo, top)
    BY <2>2, OutputAgain
  <2> QED BY <2>2, <2>3 DEF to
<1>4. Good(st)
  BY DEF WalkInput, WalkOutput, SameTemplate
<1>5. \A x : Set(x) => Good(x)
  OBVIOUS
<1> HIDE DEF Good, Set
<1>6. bad = {}
  <2> SUFFICES ASSUME bad # {} PROVE FALSE
    OBVIOUS
  <2>1. PICK k \in bad : \A i \in bad : k <= i
    <3>1. bad \subseteq Nat
      BY <1>2
    <3> HIDE DEF bad
    <3> QED BY <3>1, SmallestMember
  <2>2. k \in 0..MaxTime /\ ~Good(w[k])
    OBVIOUS
  <2>3. CASE k = 0
    BY <1>1, <1>4, <2>2, <2>3
  <2>4. CASE k # 0
    <3>1. k \in 1..MaxTime /\ k - 1 \in 0..MaxTime /\ ~(k <= k - 1)
      BY <2>2, <2>4, <1>2
    <3>2. Good(w[k-1])
      BY <2>1, <3>1
    <3>3. w[k] = StepOf(w[k-1], sk, until, ai)
      BY <1>1, <3>1
    <3> QED BY <1>3, <1>5, <2>2, <3>2, <3>3
  <2> QED BY <2>3, <2>4
<1>7. Set(w[MaxTime])
  <2>1. CASE MaxTime = 0
    <3>1. {until, MaxTime} \subseteq Nat /\ {until, MaxTime} # {}
      BY TemplateAssumption
    <3>2. Min({until, MaxTime}) \in Nat /\ Min({until, MaxTime}) <= MaxTime
      BY <3>1, LeastOf
    <3>3. ~InReach(st, until)
      BY <2>1, <3>2 DEF InReach
    <3> QED BY <1>1, <1>4, <2>1, <3>3 DEF Good, Set
  <2>2. CASE MaxTime # 0
    <3>1. MaxTime \in 1..MaxTime /\ MaxTime - 1 \in 0..MaxTime
      BY <1>2, <2>2
    <3>2. Good(w[MaxTime - 1])
      BY <1>6, <3>1
    <3>3. w[MaxTime] = StepOf(w[MaxTime - 1], sk, until, ai)
      BY <1>1, <3>1
    <3> QED BY <1>3, <3>2, <3>3
  <2> QED BY <2>1, <2>2
<1> QED BY <1>1, <1>7 DEF Set

\* The AI is late with the main posts: then there are only these.
NoLateMain(st) == "main" \in st.tmpl.ai => ~st.tmpl.annOn

\* Every round with a post has its main post.
LEMMA MainPost ==
  ASSUME NEW st, Backed(st), RolesTold(st), NoLateMain(st), NEW p \in LinkedPosts(st)
  PROVE  \E e \in LinkedPosts(st) : e.role = "main" /\ e.occ = p.occ
<1>1. CASE "main" \notin st.tmpl.ai
  <2>1. PICK q \in Numbers(st) : q[1] = p.occ
    BY DEF Backed, LiveOf
  <2>2. PICK e \in Mains(st) : q = <<e.occ, e.ctr>>
    BY DEF Numbers
  <2>3. e \in LinkedPosts(st) /\ e.role = "main"
    BY <1>1 DEF Mains, LiveOf, RolesTold
  <2>4. e.occ = p.occ
    BY <2>1, <2>2
  <2> QED BY <2>3, <2>4
<1>2. CASE ~st.tmpl.annOn
  BY <1>2 DEF RolesTold, LiveOf
<1> QED BY <1>1, <1>2 DEF NoLateMain

\* Its number is the one that is read from the posts.
LEMMA NumberRead ==
  ASSUME NEW st, OnePerRole(st), NEW ps, ps \subseteq LinkedPosts(st), NEW e \in ps,
         e.role = "main", e.ctr \in Nat
  PROVE  CounterOf(ps, e.occ, "main") = e.ctr
<1> DEFINE mine == {p \in ps : p.occ = e.occ /\ p.role = "main"}
<1>1. mine = {e}
  BY DEF OnePerRole, LiveOf
<1>2. CounterOf(ps, e.occ, "main") = IF mine = {} THEN 1 ELSE Max({p.ctr : p \in mine})
  BY DEF CounterOf
<1> HIDE DEF mine
<1>3. {p.ctr : p \in mine} = {e.ctr} /\ mine # {}
  BY <1>1
<1>4. Max({e.ctr}) = e.ctr
  BY DEF Max
<1> QED BY <1>2, <1>3, <1>4

LEMMA NumbersKnown ==
  ASSUME NEW st, NEW e \in LiveOf(st), e.role = "main", NEW k, NumbersRise(Numbers(st), k)
  PROVE  <<e.occ, e.ctr>> \in Numbers(st) /\ e.ctr \in Nat /\ e.occ \in Slots /\ e.ctr < k
<1>1. <<e.occ, e.ctr>> \in Numbers(st)
  BY DEF Numbers, Mains
<1>2. <<e.occ, e.ctr>> \in Slots \X Nat /\ <<e.occ, e.ctr>>[2] < k
  BY <1>1 DEF NumbersRise
<1> QED BY <1>1, <1>2

LEMMA StateEffect ==
  ASSUME NEW st, RecordShape(st), NEW occ \in Slots, NEW main, NEW ann
  PROVE  LET to == SetPostTemplateMaterializationState(st, occ, main, ann)
         IN  /\ SameTemplate(st.tmpl, to.tmpl)
             /\ to.tmpl.cursor = occ /\ to.tmpl.counter = main
             /\ LiveOf(to) = LiveOf(st) /\ to.jobs = st.jobs
<1> DEFINE t  == [st.tmpl EXCEPT !.cursor = occ, !.counter = main, !.annCounter = ann]
           to == SetPostTemplateMaterializationState(st, occ, main, ann)
<1>1. to = [st EXCEPT !.tmpl = t]
  BY DEF SetPostTemplateMaterializationState, RecordShape
<1>2. SameTemplate(st.tmpl, t) /\ t.cursor = occ /\ t.counter = main
  BY DEF RecordShape, TemplateRow, SameTemplate
<1> HIDE DEF t, to
<1>3. to.tmpl = t /\ to.posts = st.posts /\ to.jobs = st.jobs
  BY <1>1 DEF RecordShape
<1>4. LiveOf(to) = LiveOf(st)
  BY <1>3 DEF LiveOf, LinkedPosts
<1> QED BY <1>2, <1>3, <1>4 DEF to

\* Of the rounds those at some slots stay.
OnlyAt(st, to, K) ==
  /\ LiveOf(to) = {x \in LiveOf(st) : x.occ \in K}
  /\ to.jobs \subseteq st.jobs
  /\ SameTemplate(st.tmpl, to.tmpl)

LEMMA RoundsTaken ==
  ASSUME NEW st, NEW to, NEW K, Backed(st), RolesTold(st), OnlyAt(st, to, K)
  PROVE  /\ Numbers(to) = {p \in Numbers(st) : p[1] \in K}
         /\ Backed(to) /\ RolesTold(to)
<1>0. /\ LiveOf(to) = {x \in LiveOf(st) : x.occ \in K}
      /\ to.jobs \subseteq st.jobs /\ SameTemplate(st.tmpl, to.tmpl)
  BY DEF OnlyAt
<1>1. \A p : p \in Numbers(to) => p \in Numbers(st) /\ p[1] \in K
  <2> TAKE p
  <2> HAVE p \in Numbers(to)
  <2>1. PICK e \in Mains(to) : p = <<e.occ, e.ctr>>
    BY DEF Numbers
  <2>2. e \in Mains(st) /\ e.occ \in K
    BY <1>0 DEF Mains
  <2> QED BY <2>1, <2>2 DEF Numbers
<1>2. \A p \in Numbers(st) : p[1] \in K => p \in Numbers(to)
  <2> TAKE p \in Numbers(st)
  <2> HAVE p[1] \in K
  <2>1. PICK e \in Mains(st) : p = <<e.occ, e.ctr>>
    BY DEF Numbers
  <2>2. e.occ \in K
    BY <2>1
  <2>3. e \in Mains(to)
    BY <1>0, <2>2 DEF Mains
  <2> QED BY <2>1, <2>3 DEF Numbers
<1>3. Backed(to)
  <2> SUFFICES ASSUME NEW x \in LiveOf(to) PROVE \E p \in Numbers(to) : p[1] = x.occ
    BY DEF Backed
  <2>1. x \in LiveOf(st) /\ x.occ \in K
    BY <1>0
  <2>2. PICK p \in Numbers(st) : p[1] = x.occ
    BY <2>1 DEF Backed
  <2> QED BY <1>2, <2>1, <2>2
<1>4. RolesTold(to)
  BY <1>0 DEF RolesTold, SameTemplate
<1>5. Numbers(to) = {p \in Numbers(st) : p[1] \in K}
  BY <1>1, <1>2
<1> QED BY <1>3, <1>4, <1>5

\* The walk from a round whose number is set again.
LEMMA WalkFrom ==
  ASSUME NEW st, NEW sk, NEW lo, NEW top, NEW ai, WalkInput(st, sk, lo, top, ai),
         NEW to, SkipsSound(to, FALSE), RowsSound(to, st.tmpl.rule), PlacesInOrder(to, st.tmpl.rule),
         NEW del, RoundsSound(del, to, FALSE), SameTemplate(st.tmpl, del.tmpl),
         NEW occ \in Slots, LiveOf(del) = {x \in LiveOf(st) : x.occ < occ}, del.jobs \subseteq st.jobs,
         NEW main, NEW ann,
         Ledger({p \in Numbers(st) : p[1] < occ}, st.tmpl.rule, occ, main, to, lo, top),
         NEW until \in Nat, until <= top,
         occ \in 1..Min({until, MaxTime}) \/ NotPast(st.tmpl.rule, occ, to)
  PROVE  LET made == Horizon(SetPostTemplateMaterializationState(del, occ, main, ann), to, until, ai)
         IN  WalkOutput(st, made, to, lo, top) /\ NotPast(made.tmpl.rule, made.tmpl.cursor, to)
<1> DEFINE set  == SetPostTemplateMaterializationState(del, occ, main, ann)
           made == Horizon(set, to, until, ai)
<1>1. RoundsSound(set, to, FALSE)
  BY StateSet
<1>2. /\ SameTemplate(del.tmpl, set.tmpl) /\ set.tmpl.cursor = occ /\ set.tmpl.counter = main
      /\ LiveOf(set) = LiveOf(del) /\ set.jobs = del.jobs
  BY StateEffect DEF RoundsSound
<1> HIDE DEF set
<1>3. SameTemplate(st.tmpl, set.tmpl)
  BY <1>2 DEF SameTemplate
<1>4. Numbers(set) = {p \in Numbers(st) : p[1] < occ} /\ Backed(set) /\ RolesTold(set)
  <2>1. Backed(st) /\ RolesTold(st)
    BY DEF WalkInput, Whole
  <2> DEFINE K == {t \in Slots : t < occ}
  <2>2. \A x \in LiveOf(st) : x.occ \in Slots
    BY DEF WalkInput, RoundsSound, RecordShape, LiveOf, LinkedPosts, PostRow, JobRow
  <2>3. \A p \in Numbers(st) : p[1] \in Slots
    BY DEF WalkInput, Whole, Ledger, NumbersRise
  <2>4. OnlyAt(st, set, K)
    BY <1>2, <1>3, <2>2 DEF OnlyAt
  <2>5. Numbers(set) = {p \in Numbers(st) : p[1] \in K} /\ Backed(set) /\ RolesTold(set)
    <3> HIDE DEF K
    <3> QED BY ONLY <2>1, <2>4, RoundsTaken
  <2>6. {p \in Numbers(st) : p[1] \in K} = {p \in Numbers(st) : p[1] < occ}
    BY <2>3
  <2> QED BY <2>5, <2>6
<1>5. Whole(set, to, lo, top)
  BY <1>2, <1>3, <1>4 DEF Whole, SameTemplate
<1>6. WalkInput(set, to, lo, top, ai)
  BY <1>1, <1>3, <1>5 DEF WalkInput, SameTemplate
<1>7. InReach(set, until) \/ NotPast(set.tmpl.rule, set.tmpl.cursor, to)
  BY <1>2, <1>3 DEF InReach, SameTemplate
<1>8. WalkOutput(set, made, to, lo, top) /\ NotPast(made.tmpl.rule, made.tmpl.cursor, to)
  BY <1>6, <1>7, HorizonLedger
<1> HIDE DEF made
<1>9. WalkOutput(st, made, to, lo, top)
  BY <1>3, <1>8 DEF WalkOutput, SameTemplate
<1> QED BY <1>8, <1>9 DEF made, set

\* The numbers below that of a round.
LEMMA NumbersBelow ==
  ASSUME NEW N, NEW k, NumbersRise(N, k), NEW q \in N, NEW p \in N, p[1] < q[1]
  PROVE  p[2] < q[2]
BY DEF NumbersRise

LEMMA TearDownLedger ==
  ASSUME NEW st, NEW sk, NEW lo, NEW top, NEW ai, WalkInput(st, sk, lo, top, ai), NoLateMain(st),
         NEW to, SkipsSound(to, FALSE), RowsSound(to, st.tmpl.rule), PlacesInOrder(to, st.tmpl.rule),
         NEW occ \in st.tmpl.rule, PlaceOf(sk, occ) = occ, \A t \in Slots \ {occ} : to[t] = sk[t],
         now \in Nat, now + HorizonDays <= top, NEW scope,
         scope = AtOrAfter(LinkedPosts(st), occ), Blocked(scope) = {}, Regenerable(scope) # {}
  PROVE  LET made == TearDown(st, to, occ, scope, ai)
         IN  WalkOutput(st, made, to, lo, top) /\ NotPast(made.tmpl.rule, made.tmpl.cursor, to)
<1> DEFINE main  == IF HasCounters(scope, occ) THEN CounterOf(scope, occ, "main") ELSE st.tmpl.counter
           ann   == IF HasCounters(scope, occ) THEN CounterOf(scope, occ, "announcement")
                    ELSE st.tmpl.annCounter
           del   == Without(st, Regenerable(scope), AtOrAfter(st.jobs, occ))
           until == now + HorizonDays
           N     == Numbers(st)
           k     == st.tmpl.counter
           rule  == st.tmpl.rule
<1>1. TearDown(st, to, occ, scope, ai)
      = Horizon(SetPostTemplateMaterializationState(del, occ, main, ann), to, until, ai)
  BY DEF TearDown, Without
<1>2. /\ RecordShape(st) /\ OnePerRole(st) /\ rule \in Rules /\ occ \in Slots /\ occ \in Nat
      /\ Ledger(N, rule, st.tmpl.cursor, k, sk, lo, top)
      /\ NumbersRise(N, k) /\ Backed(st) /\ RolesTold(st)
      /\ PlacesInOrder(sk, rule) /\ lo \in Nat /\ top \in Nat /\ k \in Nat
  <2>1. RecordShape(st) /\ OnePerRole(st) /\ PlacesInOrder(sk, rule) /\ lo \in Nat /\ top \in Nat
    BY DEF WalkInput, RoundsSound
  <2>2. rule \in Rules
    BY <2>1 DEF RecordShape, TemplateRow
  <2>3. occ \in Slots /\ occ \in Nat
    BY <2>1 DEF PlacesInOrder, Slots
  <2>4. /\ Ledger(N, rule, st.tmpl.cursor, k, sk, lo, top) /\ Backed(st) /\ RolesTold(st)
    BY DEF WalkInput, Whole
  <2> HIDE DEF N, k
  <2>5. NumbersRise(N, k) /\ k \in Nat
    BY <2>4 DEF Ledger, NumbersRise
  <2> QED BY <2>1, <2>2, <2>3, <2>4, <2>5
<1>3. Regenerable(scope) = scope
  BY <1>2, AllRegenerable DEF AtOrAfter
<1>4. \A x \in LiveOf(st) : x.occ \in Nat
  BY <1>2 DEF RecordShape, LiveOf, LinkedPosts, PostRow, JobRow, Slots
<1>5. /\ RecordShape(del) /\ del.tmpl = st.tmpl
      /\ LiveOf(del) = {x \in LiveOf(st) : x.occ < occ} /\ del.jobs \subseteq st.jobs
  <2>1. RecordShape(del) /\ del.posts = st.posts \ scope /\ del.jobs = st.jobs \ AtOrAfter(st.jobs, occ)
    BY <1>2, <1>3, WithoutShape
  <2>2. del.tmpl = st.tmpl
    BY <1>2 DEF Without, DeletePostTemplateLinkedPosts, cancelPendingRecurringAIJobs, RecordShape
  <2> HIDE DEF del
  <2>3. LiveOf(del) = {x \in LiveOf(st) : ~(x.occ >= occ)}
    BY <2>1, <1>4 DEF LiveOf, LinkedPosts, AtOrAfter
  <2>4. LiveOf(del) = {x \in LiveOf(st) : x.occ < occ}
    BY <1>2, <1>4, <2>3
  <2> QED BY <2>1, <2>2, <2>4
<1> HIDE DEF del
<1>6. SameTemplate(st.tmpl, del.tmpl) /\ RoundsSound(del, to, FALSE)
  BY <1>2, <1>5 DEF SameTemplate, RoundsSound, OnePerRole
<1>7. main \in Nat /\ \A p \in N : p[1] < occ => p[2] < main
  <2>1. CASE HasCounters(scope, occ)
    <3>1. PICK x \in scope : x.occ = occ
      BY <2>1 DEF HasCounters
    <3>2. PICK e \in LinkedPosts(st) : e.role = "main" /\ e.occ = occ
      BY <1>2, <3>1, MainPost DEF AtOrAfter
    <3>3. e \in scope /\ e \in LiveOf(st)
      BY <1>2, <3>2 DEF AtOrAfter, LiveOf
    <3> HIDE DEF k, N
    <3>4. <<e.occ, e.ctr>> \in Numbers(st) /\ e.ctr \in Nat
      BY <1>2, <3>2, <3>3, NumbersKnown DEF N
    <3>5. CounterOf(scope, e.occ, "main") = e.ctr
      BY <1>2, <3>2, <3>3, <3>4, NumberRead DEF AtOrAfter
    <3>6. main = e.ctr
      BY <2>1, <3>2, <3>5
    <3> DEFINE q == <<e.occ, e.ctr>>
    <3>7. q \in N /\ q[1] = occ /\ q[2] = e.ctr
      BY <3>2, <3>4 DEF N
    <3> HIDE DEF main, q
    <3>8. \A p \in N : p[1] < occ => p[2] < e.ctr
      BY <1>2, <3>7, NumbersBelow
    <3> QED BY <3>4, <3>6, <3>8
  <2>2. CASE ~HasCounters(scope, occ)
    BY <1>2, <2>2 DEF NumbersRise
  <2> QED BY <2>1, <2>2
<1> HIDE DEF main, ann
<1>8. \E p \in N : p[1] >= occ
  <2>1. PICK x \in scope : x \in Regenerable(scope)
    BY DEF Regenerable
  <2>2. x \in LiveOf(st) /\ x.occ >= occ
    BY DEF AtOrAfter, LiveOf
  <2> QED BY <1>2, <2>2 DEF Backed
<1>9. /\ Ledger({p \in N : p[1] < occ}, rule, occ, main, to, lo, top)
      /\ NotPast(rule, occ, to)
  <2> DEFINE M == {p \in N : p[1] < occ}
             c == st.tmpl.cursor
  <2>1. PlacesInOrder(to, rule) /\ occ \in rule /\ Ledger(N, rule, c, k, sk, lo, top)
    BY <1>2
  <2>2. M = {p \in N : p[1] < occ} /\ \A p \in M : p[2] < main
    BY <1>7
  <2> HIDE DEF N, k, rule, M, c
  <2>3. Ledger(M, rule, occ, main, to, lo, top) /\ NotPast(rule, occ, to)
    <3>1. /\ rule \in Rules /\ PlacesInOrder(sk, rule) /\ PlacesInOrder(to, rule) /\ occ \in rule
          /\ PlaceOf(sk, occ) = occ /\ (\A t \in Slots \ {occ} : to[t] = sk[t])
          /\ main \in Nat /\ lo \in Nat /\ Ledger(N, rule, c, k, sk, lo, top)
          /\ (\E p \in N : p[1] >= occ)
          /\ M = {p \in N : p[1] < occ} /\ \A p \in M : p[2] < main
      BY <1>2, <1>7, <1>8, <2>1, <2>2
    <3> QED BY ONLY <3>1, LedgerTorn
  <2> QED BY <2>3 DEF M
<1>10. until \in Nat /\ until <= top
  BY TemplateAssumption
<1> HIDE DEF until
<1>11. /\ Ledger({p \in Numbers(st) : p[1] < occ}, st.tmpl.rule, occ, main, to, lo, top)
       /\ NotPast(st.tmpl.rule, occ, to)
  BY <1>9
<1> DEFINE made == Horizon(SetPostTemplateMaterializationState(del, occ, main, ann), to, until, ai)
<1>12. occ \in Slots /\ del.jobs \subseteq st.jobs /\ LiveOf(del) = {x \in LiveOf(st) : x.occ < occ}
  BY <1>2, <1>5
<1> HIDE DEF N, k, rule
<1>13. WalkOutput(st, made, to, lo, top) /\ NotPast(made.tmpl.rule, made.tmpl.cursor, to)
  BY <1>6, <1>10, <1>11, <1>12, WalkFrom
<1> QED BY <1>1, <1>13

\* The horizon as RegenerateHorizon makes it again.
LEMMA HorizonAgainLedger ==
  ASSUME NEW st, NEW sk, NEW lo, NEW top, NEW ai, WalkInput(st, sk, lo, top, ai), NoLateMain(st),
         now \in Slots, top = IF HorizonDays = 0 THEN MaxTime ELSE now + HorizonDays,
         NEW scope, scope = {p \in LinkedPosts(st) : p.occ \in now..top},
         Blocked(scope) = {}, Regenerable(scope) # {},
         NEW first, first = Min({p.occ : p \in Regenerable(scope)}),
         ~\E j \in st.jobs : j.occ < first, NEW ann
  PROVE  LET main == CounterOf(scope, first, "main")
             del  == Without(st, Regenerable(scope), st.jobs)
             made == Horizon(SetPostTemplateMaterializationState(del, first, main, ann), sk,
                             now + HorizonDays, ai)
         IN  WalkOutput(st, made, sk, lo, top) /\ NotPast(made.tmpl.rule, made.tmpl.cursor, sk)
<1> DEFINE main  == CounterOf(scope, first, "main")
           del   == Without(st, Regenerable(scope), st.jobs)
           until == now + HorizonDays
           N     == Numbers(st)
           k     == st.tmpl.counter
           c     == st.tmpl.cursor
           rule  == st.tmpl.rule
<1>1. /\ RecordShape(st) /\ OnePerRole(st) /\ rule \in Rules /\ now \in Nat /\ now <= MaxTime
      /\ Ledger(N, rule, c, k, sk, lo, top)
      /\ NumbersRise(N, k) /\ Backed(st) /\ RolesTold(st)
      /\ PlacesInOrder(sk, rule) /\ lo \in Nat /\ top \in Nat /\ MaxTime \in Nat /\ HorizonDays \in Nat
  <2>1. RecordShape(st) /\ OnePerRole(st) /\ PlacesInOrder(sk, rule) /\ lo \in Nat /\ top \in Nat
    BY DEF WalkInput, RoundsSound
  <2>2. rule \in Rules
    BY <2>1 DEF RecordShape, TemplateRow
  <2>3. now \in Nat /\ now <= MaxTime /\ MaxTime \in Nat /\ HorizonDays \in Nat
    BY TemplateAssumption DEF Slots
  <2>4. /\ Ledger(N, rule, c, k, sk, lo, top) /\ Backed(st) /\ RolesTold(st)
    BY DEF WalkInput, Whole
  <2> HIDE DEF N, k
  <2>5. NumbersRise(N, k)
    BY <2>4 DEF Ledger
  <2> QED BY <2>1, <2>2, <2>3, <2>4, <2>5
<1>2. Regenerable(scope) = scope
  BY <1>1, AllRegenerable
<1>3. \A x \in LiveOf(st) : x.occ \in Nat /\ x.occ \in Slots /\ x.occ <= top
  <2> TAKE x \in LiveOf(st)
  <2>1. x.occ \in Nat /\ x.occ \in Slots
    BY <1>1 DEF RecordShape, LiveOf, LinkedPosts, PostRow, JobRow, Slots
  <2>2. PICK p \in N : p[1] = x.occ
    BY <1>1 DEF Backed
  <2>3. p[1] <= top
    BY <1>1 DEF Ledger, NumbersPlaced
  <2> QED BY <2>1, <2>2, <2>3
<1>4. /\ first \in Slots /\ first \in Nat /\ first \in now..top
      /\ \E p \in scope : p.occ = first
      /\ \A p \in scope : first <= p.occ
  <2> DEFINE S == {p.occ : p \in scope}
  <2>1. S \subseteq Nat /\ S # {}
    BY <1>2, <1>3 DEF LiveOf
  <2>2. first = Min(S)
    BY <1>2
  <2>3. \A p \in scope : p.occ \in S
    OBVIOUS
  <2>4. \A m \in S : \E p \in scope : p.occ = m
    OBVIOUS
  <2> HIDE DEF S
  <2>5. first \in S /\ \A m \in S : first <= m
    BY <2>1, <2>2, LeastOf
  <2>6. PICK p \in scope : p.occ = first
    BY <2>4, <2>5
  <2>7. p \in LiveOf(st) /\ p.occ \in now..top
    BY <2>6 DEF LiveOf
  <2> QED BY <1>3, <2>3, <2>5, <2>6, <2>7
<1>5. /\ RecordShape(del) /\ del.tmpl = st.tmpl
      /\ LiveOf(del) = {x \in LiveOf(st) : x.occ < first} /\ del.jobs \subseteq st.jobs
  <2>1. RecordShape(del) /\ del.posts = st.posts \ scope /\ del.jobs = st.jobs \ st.jobs
    BY <1>1, <1>2, WithoutShape
  <2>2. del.tmpl = st.tmpl
    BY <1>1 DEF Without, DeletePostTemplateLinkedPosts, cancelPendingRecurringAIJobs, RecordShape
  <2> HIDE DEF del
  <2>3. LiveOf(del) = LinkedPosts(st) \ scope
    BY <2>1 DEF LiveOf, LinkedPosts
  <2>4. \A x \in LinkedPosts(st) : x \notin scope <=> x.occ < first
    <3> TAKE x \in LinkedPosts(st)
    <3>1. x.occ \in Nat /\ x.occ <= top
      BY <1>3 DEF LiveOf
    <3>2. CASE x \in scope
      BY <3>1, <3>2, <1>4
    <3>3. CASE x \notin scope
      <4>1. x.occ < now
        BY <3>1, <3>3, <1>1
      <4> QED BY <4>1, <3>1, <3>3, <1>1, <1>4
    <3> QED BY <3>2, <3>3
  <2>5. \A x \in LiveOf(st) : x \in LinkedPosts(st) \/ ~(x.occ < first)
    BY DEF LiveOf
  <2>6. LinkedPosts(st) \subseteq LiveOf(st)
    BY DEF LiveOf
  <2>7. LiveOf(del) = {x \in LiveOf(st) : x.occ < first}
    BY <2>3, <2>4, <2>5, <2>6
  <2> QED BY <2>1, <2>2, <2>7
<1> HIDE DEF del
<1>6. SameTemplate(st.tmpl, del.tmpl) /\ RoundsSound(del, sk, FALSE)
  BY <1>1, <1>5 DEF SameTemplate, RoundsSound, OnePerRole
<1>7. main \in Nat /\ <<first, main>> \in N
  <2>1. PICK x \in scope : x.occ = first
    BY <1>4
  <2>2. PICK e \in LinkedPosts(st) : e.role = "main" /\ e.occ = first
    <3>1. /\ x \in LinkedPosts(st) /\ Backed(st) /\ RolesTold(st) /\ NoLateMain(st)
      BY <1>1
    <3> QED BY ONLY <2>1, <3>1, MainPost
  <2>3. e \in scope /\ e \in LiveOf(st)
    BY <1>4, <2>2 DEF LiveOf
  <2> HIDE DEF k, N
  <2>4. <<e.occ, e.ctr>> \in Numbers(st) /\ e.ctr \in Nat
    BY <1>1, <2>2, <2>3, NumbersKnown DEF N
  <2>5. CounterOf(scope, e.occ, "main") = e.ctr
    BY <1>1, <2>2, <2>3, <2>4, NumberRead
  <2>6. main = e.ctr
    BY <2>2, <2>5
  <2> HIDE DEF main
  <2> QED BY <2>2, <2>4, <2>6 DEF N
<1> HIDE DEF main
<1>8. Ledger({p \in N : p[1] < first}, rule, first, main, sk, lo, top)
  <2> DEFINE f == <<first, main>>
             M == {p \in N : p[1] < f[1]}
  <2>1. f \in N /\ f[1] = first /\ f[2] = main /\ M = {p \in N : p[1] < f[1]}
    BY <1>7
  <2> HIDE DEF f, N, k, rule, c
  <2>2. \A p \in M : p[2] < main
    BY <1>1, <2>1, NumbersBelow
  <2> HIDE DEF M
  <2>3. /\ rule \in Rules /\ PlacesInOrder(sk, rule) /\ main \in Nat /\ lo \in Nat
        /\ Ledger(N, rule, c, k, sk, lo, top) /\ f \in N
        /\ M = {p \in N : p[1] < f[1]} /\ \A p \in M : p[2] < main
    BY <1>1, <1>7, <2>1, <2>2
  <2>4. Ledger(M, rule, f[1], main, sk, lo, top)
    BY ONLY <2>3, LedgerAgain
  <2> QED BY <2>1, <2>4
<1>9. first \in 1..Min({until, MaxTime}) \/ NotPast(rule, first, sk)
  <2>1. CASE HorizonDays = 0
    <3>1. \A r \in rule : PlaceOf(sk, r) <= r \/ PlaceOf(sk, r) <= 1 + HorizonDays
      BY <1>1 DEF PlacesInOrder
    <3>2. \A r \in rule : r \in Nat /\ 1 <= r /\ PlaceOf(sk, r) \in Nat
      BY <1>1 DEF PlacesInOrder, Slots
    <3>3. \A r \in rule : PlaceOf(sk, r) <= r
      BY <2>1, <3>1, <3>2
    <3> QED BY <3>3 DEF NotPast
  <2>2. CASE HorizonDays # 0
    <3>1. first <= until /\ 1 <= first /\ first <= MaxTime /\ until \in Nat
      BY <1>1, <1>4, <2>2 DEF Slots
    <3>2. {until, MaxTime} \subseteq Nat /\ {until, MaxTime} # {}
      BY <1>1, <3>1
    <3>3. Min({until, MaxTime}) \in {until, MaxTime}
      BY <3>2, LeastOf
    <3>4. first <= Min({until, MaxTime}) /\ Min({until, MaxTime}) \in Nat
      BY <1>1, <3>1, <3>3
    <3> QED BY <1>4, <3>1, <3>4
  <2> QED BY <2>1, <2>2
<1>10. until \in Nat /\ until <= top
  BY <1>1
<1> HIDE DEF until
<1>11. /\ Ledger({p \in Numbers(st) : p[1] < first}, st.tmpl.rule, first, main, sk, lo, top)
       /\ first \in 1..Min({until, MaxTime}) \/ NotPast(st.tmpl.rule, first, sk)
       /\ first \in Slots /\ del.jobs \subseteq st.jobs
       /\ LiveOf(del) = {x \in LiveOf(st) : x.occ < first}
       /\ SkipsSound(sk, FALSE) /\ RowsSound(sk, st.tmpl.rule) /\ PlacesInOrder(sk, st.tmpl.rule)
  BY <1>4, <1>5, <1>8, <1>9 DEF WalkInput
<1> DEFINE made == Horizon(SetPostTemplateMaterializationState(del, first, main, ann), sk, until, ai)
<1> HIDE DEF N, k, rule, c
<1>12. WalkOutput(st, made, sk, lo, top) /\ NotPast(made.tmpl.rule, made.tmpl.cursor, sk)
  <2>1. WalkInput(st, sk, lo, top, ai)
    OBVIOUS
  <2> QED BY ONLY <2>1, <1>6, <1>10, <1>11, WalkFrom
<1> QED BY <1>12 DEF main, del, until

\* A slot is marked as skipped.
LEMMA SkipLedger ==
  ASSUME NEW st, NEW sk, NEW to, NEW lo, NEW top, Whole(st, sk, lo, top),
         NotPast(st.tmpl.rule, st.tmpl.cursor, sk),
         \A r \in st.tmpl.rule : PlaceOf(to, r) = PlaceOf(sk, r) /\ (Free(to, r) => Free(sk, r))
  PROVE  Whole(st, to, lo, top) /\ NotPast(st.tmpl.rule, st.tmpl.cursor, to)
<1> DEFINE N    == Numbers(st)
           rule == st.tmpl.rule
           c    == st.tmpl.cursor
           k    == st.tmpl.counter
<1>1. Ledger(N, rule, c, k, sk, lo, top)
  BY DEF Whole
<1>2. \A r \in rule : PlaceOf(to, r) = PlaceOf(sk, r) /\ (HasRound(N, sk, r) => HasRound(N, to, r))
  BY DEF HasRound
<1>3. NotPast(rule, c, to)
  BY <1>2 DEF NotPast
<1> HIDE DEF N, rule, c, k
<1>4. Ledger(N, rule, c, k, to, lo, top)
  BY <1>1, <1>2 DEF Ledger, NumbersPlaced, MissingAreLast, PassedAreMade, CursorPlaced
<1> QED BY <1>3, <1>4 DEF Whole, N, rule, c, k

\* A round that is not made is shifted.
LEMMA ShiftLedger ==
  ASSUME NEW st, NEW sk, NEW lo, NEW top, NEW ai, WalkInput(st, sk, lo, top, ai),
         NotPast(st.tmpl.rule, st.tmpl.cursor, sk), "main" \notin st.tmpl.ai,
         NEW to, PlacesInOrder(to, st.tmpl.rule), NEW occ \in st.tmpl.rule, PlaceOf(sk, occ) = occ,
         Free(sk, occ), \A t \in Slots \ {occ} : to[t] = sk[t],
         AtOrAfter(LinkedPosts(st), occ) = {}
  PROVE  Whole(st, to, lo, top) /\ NotPast(st.tmpl.rule, st.tmpl.cursor, to)
<1> DEFINE N    == Numbers(st)
           rule == st.tmpl.rule
           c    == st.tmpl.cursor
           k    == st.tmpl.counter
<1>1. /\ rule \in Rules /\ PlacesInOrder(sk, rule) /\ PlacesInOrder(to, rule) /\ occ \in rule
      /\ PlaceOf(sk, occ) = occ /\ Free(sk, occ) /\ (\A t \in Slots \ {occ} : to[t] = sk[t])
      /\ lo \in Nat /\ Ledger(N, rule, c, k, sk, lo, top) /\ NotPast(rule, c, sk)
  BY DEF WalkInput, Whole, RoundsSound, RecordShape, TemplateRow
<1>2. \A p \in N : p[1] < occ
  <2> TAKE p \in N
  <2>1. PICK e \in Mains(st) : p = <<e.occ, e.ctr>>
    BY DEF Numbers
  <2>2. e \in LinkedPosts(st)
    BY DEF Mains, LiveOf, WalkInput, Whole, RolesTold
  <2>3. e.occ \in Nat /\ occ \in Nat
    BY <1>1, <2>2 DEF WalkInput, RoundsSound, RecordShape, LinkedPosts, PostRow, PlacesInOrder, Slots
  <2>4. e.occ < occ
    BY <2>2, <2>3 DEF AtOrAfter
  <2> QED BY <2>1, <2>4
<1> HIDE DEF N, rule, c, k
<1>3. Ledger(N, rule, c, k, to, lo, top) /\ NotPast(rule, c, to)
  BY ONLY <1>1, <1>2, LedgerMarked
<1> QED BY <1>3 DEF Whole, WalkInput, N, rule, c, k

\* A round is made again with its number.
LEMMA RegenerateLedger ==
  ASSUME NEW st, NEW sk, NEW lo, NEW top, NEW ai, WalkInput(st, sk, lo, top, ai), NoLateMain(st),
         NEW occ \in st.tmpl.rule, NEW scope, scope = {p \in LinkedPosts(st) : p.occ = occ},
         Blocked(scope) = {}, Regenerable(scope) # {}, NEW ann
  PROVE  LET del  == Without(st, Regenerable(scope), PendingHere(st, occ))
             made == Rematerialize(del, sk, occ, CounterOf(scope, occ, "main"), ann, ai)
         IN  /\ Whole(made, sk, lo, top)
             /\ SameTemplate(st.tmpl, made.tmpl) /\ made.tmpl.cursor = st.tmpl.cursor
<1> DEFINE main == CounterOf(scope, occ, "main")
           del  == Without(st, Regenerable(scope), PendingHere(st, occ))
           put  == createScheduledPostFromTemplate(del, occ, main, ai)
           made == Rematerialize(del, sk, occ, main, ann, ai)
           N    == Numbers(st)
<1>1. /\ RecordShape(st) /\ OnePerRole(st) /\ Backed(st) /\ RolesTold(st) /\ SkipsSound(sk, FALSE)
      /\ PlacesInOrder(sk, st.tmpl.rule) /\ occ \in Slots /\ occ # NoTime
      /\ Ledger(N, st.tmpl.rule, st.tmpl.cursor, st.tmpl.counter, sk, lo, top)
  <2>1. /\ RecordShape(st) /\ OnePerRole(st) /\ SkipsSound(sk, FALSE) /\ PlacesInOrder(sk, st.tmpl.rule)
    BY DEF WalkInput, RoundsSound
  <2>2. Ledger(N, st.tmpl.rule, st.tmpl.cursor, st.tmpl.counter, sk, lo, top) /\ Backed(st) /\ RolesTold(st)
    BY DEF WalkInput, Whole
  <2>3. occ \in Slots /\ occ # NoTime
    BY <2>1 DEF PlacesInOrder, Slots, NoTime
  <2> QED BY <2>1, <2>2, <2>3
<1>2. Regenerable(scope) = scope
  BY <1>1, AllRegenerable
<1>3. PICK e \in scope : e.role = "main"
  <2>1. PICK x \in scope : TRUE
    BY <1>2
  <2>2. x \in LinkedPosts(st) /\ x.occ = occ
    BY <2>1
  <2>3. PICK e \in LinkedPosts(st) : e.role = "main" /\ e.occ = x.occ
    BY <1>1, <2>2, MainPost
  <2> QED BY <2>2, <2>3
<1>4. e \in LiveOf(st) /\ e.occ = occ
  BY DEF LiveOf
<1>5. <<occ, main>> \in N /\ \A p \in N : p[1] = occ => p = <<occ, main>>
  <2>1. NumbersRise(N, st.tmpl.counter)
    BY <1>1 DEF Ledger
  <2>2. <<e.occ, e.ctr>> \in Numbers(st) /\ e.ctr \in Nat
    BY <1>3, <1>4, <2>1, NumbersKnown
  <2>3. scope \subseteq LinkedPosts(st)
    OBVIOUS
  <2>4. main = e.ctr
    <3>1. CounterOf(scope, e.occ, "main") = e.ctr
      BY ONLY <1>1, <1>3, <2>2, <2>3, NumberRead
    <3> QED BY <1>4, <3>1
  <2> HIDE DEF main
  <2>5. \A p \in N : p[1] = occ => p = <<occ, main>>
    <3> TAKE p \in N
    <3> HAVE p[1] = occ
    <3>1. PICK f \in Mains(st) : p = <<f.occ, f.ctr>>
      BY DEF Numbers
    <3>2. f = e
      BY <1>1, <1>3, <1>4, <3>1 DEF OnePerRole, Mains
    <3> QED BY <1>4, <2>4, <3>1, <3>2
  <2> QED BY <1>4, <2>2, <2>4, <2>5
<1>6. PlaceOf(sk, occ) = occ
  <2>1. PICK r \in st.tmpl.rule : <<occ, main>>[1] = PlaceOf(sk, r)
    BY <1>1, <1>5 DEF Ledger, NumbersPlaced
  <2>2. PlaceOf(sk, r) = occ
    BY <2>1
  <2>3. r = occ
    BY <1>1, <2>2, PlacesTell
  <2> QED BY <2>2, <2>3
<1> HIDE DEF main
<1>7. /\ RecordShape(del) /\ del.tmpl = st.tmpl /\ del.jobs \subseteq st.jobs
      /\ LiveOf(del) = {x \in LiveOf(st) : x.occ # occ}
  <2>1. RecordShape(del) /\ del.posts = st.posts \ scope /\ del.jobs = st.jobs \ PendingHere(st, occ)
    BY <1>1, <1>2, WithoutShape
  <2>2. del.tmpl = st.tmpl
    BY <1>1 DEF Without, DeletePostTemplateLinkedPosts, cancelPendingRecurringAIJobs, RecordShape
  <2> HIDE DEF del
  <2>3. LiveOf(del) = {x \in LiveOf(st) : x.occ # occ}
    BY <2>1 DEF LiveOf, LinkedPosts, PendingHere
  <2> QED BY <2>1, <2>2, <2>3
<1>8. made = materializeAnnouncement(put, sk, occ, ann, FALSE, ai)
  <2>1. maybeShiftOccurrence(sk, occ) = occ
    BY <1>6 DEF maybeShiftOccurrence, ShiftTo, PlaceOf
  <2> QED BY <2>1 DEF Rematerialize
<1> HIDE DEF del, made
<1>9. /\ Numbers(del) = {p \in N : p[1] # occ} /\ Backed(del) /\ RolesTold(del)
  <2> DEFINE K == Slots \ {occ}
  <2>1. \A x \in LiveOf(st) : x.occ \in Slots
    BY <1>1 DEF RecordShape, LiveOf, LinkedPosts, PostRow, JobRow
  <2>2. \A p \in N : p[1] \in Slots
    BY <1>1 DEF Ledger, NumbersRise
  <2>3. OnlyAt(st, del, K)
    BY <1>7, <2>1 DEF OnlyAt, SameTemplate
  <2>4. Numbers(del) = {p \in Numbers(st) : p[1] \in K} /\ Backed(del) /\ RolesTold(del)
    <3>1. Backed(st) /\ RolesTold(st)
      BY <1>1
    <3> HIDE DEF K
    <3> QED BY ONLY <2>3, <3>1, RoundsTaken
  <2>5. {p \in N : p[1] \in K} = {p \in N : p[1] # occ}
    BY <2>2
  <2> QED BY <2>4, <2>5
<1>10. RoundsSound(del, sk, FALSE)
  BY <1>1, <1>7 DEF RoundsSound, OnePerRole
<1>11. RecordShape(put)
  <2>1. RoundsSound(put, sk, FALSE)
    BY <1>1, <1>10, MainMade
  <2> QED BY <2>1 DEF RoundsSound
<1>12. ~Has(del, occ, "main")
  BY <1>9, HasNumber
<1>13. /\ put.tmpl = st.tmpl
       /\ \E n : /\ n.occ = occ /\ n.ctr = main /\ n.role = "main"
                 /\ LiveOf(put) = LiveOf(del) \cup {n}
                 /\ put.jobs = del.jobs \/ ("main" \in ai /\ put.jobs = del.jobs \cup {n})
  BY <1>7, <1>12, MainMadeEffect
<1> HIDE DEF put
<1>14. Whole(put, sk, lo, top) /\ \E p \in Numbers(put) : p[1] = occ
  <2>1. PICK n : /\ n.occ = occ /\ n.ctr = main /\ n.role = "main"
                 /\ LiveOf(put) = LiveOf(del) \cup {n}
                 /\ put.jobs = del.jobs \/ ("main" \in ai /\ put.jobs = del.jobs \cup {n})
    BY <1>13
  <2>2. SameTemplate(del.tmpl, put.tmpl) /\ ai \subseteq del.tmpl.ai
    BY <1>7, <1>13 DEF SameTemplate, WalkInput
  <2>3. Backed(put) /\ RolesTold(put) /\ Numbers(put) = Numbers(del) \cup {<<occ, main>>}
    <3>1. /\ n.role = "main" /\ LiveOf(put) = LiveOf(del) \cup {n}
          /\ put.jobs = del.jobs \/ ("main" \in ai /\ put.jobs = del.jobs \cup {n})
          /\ Backed(del) /\ RolesTold(del)
      BY <1>9, <2>1
    <3>2. Backed(put) /\ RolesTold(put) /\ Numbers(put) = Numbers(del) \cup {<<n.occ, n.ctr>>}
      BY ONLY <2>2, <3>1, WholeAdded
    <3> QED BY <2>1, <3>2
  <2>4. Numbers(put) = N
    <3> HIDE DEF N
    <3> QED BY <1>5, <1>9, <2>3
  <2>5. \E p \in Numbers(put) : p[1] = occ
    <3>1. <<occ, main>> \in Numbers(put) /\ <<occ, main>>[1] = occ
      BY <2>3
    <3> QED BY <3>1
  <2> QED BY <1>1, <1>13, <2>3, <2>4, <2>5 DEF Whole
<1>15. OnlyAnnounces(put, made, occ)
  BY <1>8, <1>11, AnnouncementEffect
<1>16. Whole(made, sk, lo, top)
  BY <1>14, <1>15, WholeAnnounced
<1>17. SameTemplate(st.tmpl, made.tmpl) /\ made.tmpl.cursor = st.tmpl.cursor
  BY <1>13, <1>15 DEF OnlyAnnounces, SameTemplate
<1> QED BY <1>16, <1>17 DEF made, main, del

\* No transaction changes what the AI is asked for, whatever was done by hand.
LEMMA OnceFrame ==
  ASSUME NEW st, NEW sk, RoundsSound(st, sk, FALSE), SkipsSound(sk, FALSE), NEW slot \in Slots, NEW ai
  PROVE  SameTemplate(st.tmpl, Once(st, sk, slot, ai).tmpl)
<1> DEFINE t      == st.tmpl
           next   == NextOccurrence(t.rule, slot)
           occ    == IF IsPostTemplateOccurrenceSkipped(sk, slot) /\ ShiftTo(sk, slot) # NoTime
                     THEN ShiftTo(sk, slot) ELSE slot
           exists == Has(st, occ, "main")
           made   == createScheduledPostFromTemplate(st, occ, t.counter, ai)
           adv    == AdvancePostTemplateSchedule(made, next, IF exists THEN t.counter ELSE t.counter + 1)
<1>1. next \in 0..MaxTime + 1 /\ RecordShape(st)
  BY NextIsASlot DEF RoundsSound, RecordShape, TemplateRow
<1>2. CASE IsPostTemplateOccurrenceSkipped(sk, slot) /\ ShiftTo(sk, slot) = NoTime
  <2>1. Once(st, sk, slot, ai) = AdvancePostTemplateSchedule(st, next, t.counter)
    BY <1>2 DEF Once
  <2> QED BY <1>1, <2>1, AdvanceEffect
<1>3. CASE ~(IsPostTemplateOccurrenceSkipped(sk, slot) /\ ShiftTo(sk, slot) = NoTime)
  <2>1. occ \in Slots
    BY <1>3, ShiftedIsFree DEF IsPostTemplateOccurrenceSkipped, ShiftTo
  <2>2. Once(st, sk, slot, ai) = materializeAnnouncement(adv, sk, occ, t.annCounter, ~exists, ai)
    BY <1>3 DEF Once
  <2> HIDE DEF occ, next
  <2>3. RecordShape(made)
    BY <2>1, MainMade DEF RoundsSound
  <2>4. made.tmpl = st.tmpl
    BY <1>1, MainMadeEffect
  <2> HIDE DEF made, exists
  <2>5. SameTemplate(st.tmpl, adv.tmpl) /\ RecordShape(adv)
    BY <1>1, <2>3, <2>4, AdvanceEffect
  <2> HIDE DEF adv, t
  <2>6. OnlyAnnounces(adv, Once(st, sk, slot, ai), occ)
    BY <2>2, <2>5, AnnouncementEffect
  <2> QED BY <2>5, <2>6 DEF OnlyAnnounces, SameTemplate
<1> QED BY <1>2, <1>3

LEMMA HorizonFrame ==
  ASSUME NEW st, NEW sk, RoundsSound(st, sk, FALSE), SkipsSound(sk, FALSE), NEW until \in Nat, NEW ai
  PROVE  SameTemplate(st.tmpl, Horizon(st, sk, until, ai).tmpl)
<1>1. PICK w : /\ w[0] = st
               /\ \A n \in 1..MaxTime : w[n] = StepOf(w[n-1], sk, until, ai)
               /\ Horizon(st, sk, until, ai) = w[MaxTime]
  BY ONLY HorizonIsAWalk
<1> DEFINE Kin(x) == RoundsSound(x, sk, FALSE) /\ SameTemplate(st.tmpl, x.tmpl)
           alien == {k \in 0..MaxTime : ~Kin(w[k])}
<1>2. MaxTime \in Nat
  BY TemplateAssumption
<1>3. \A x : Kin(x) => Kin(StepOf(x, sk, until, ai))
  <2> SUFFICES ASSUME NEW x, Kin(x) PROVE Kin(StepOf(x, sk, until, ai))
    OBVIOUS
  <2>1. RoundsSound(StepOf(x, sk, until, ai), sk, FALSE)
    BY StepKeeps
  <2>2. {until, MaxTime} \subseteq Nat /\ {until, MaxTime} # {}
    BY <1>2
  <2>3. Min({until, MaxTime}) \in Nat /\ Min({until, MaxTime}) <= MaxTime
    BY <2>2, LeastOf
  <2>4. x.tmpl.cursor \in 1..Min({until, MaxTime}) => x.tmpl.cursor \in Slots
    BY <1>2, <2>3 DEF Slots
  <2>5. SameTemplate(x.tmpl, StepOf(x, sk, until, ai).tmpl)
    <3>1. CASE x.tmpl.cursor \in 1..Min({until, MaxTime})
      <4>1. StepOf(x, sk, until, ai) = Once(x, sk, x.tmpl.cursor, ai)
        BY <3>1 DEF StepOf
      <4> QED BY <2>4, <3>1, <4>1, OnceFrame
    <3>2. CASE ~(x.tmpl.cursor \in 1..Min({until, MaxTime}))
      <4>1. StepOf(x, sk, until, ai) = x
        BY <3>2 DEF StepOf
      <4> QED BY <4>1 DEF SameTemplate
    <3> QED BY <3>1, <3>2
  <2> QED BY <2>1, <2>5 DEF SameTemplate
<1>4. Kin(st)
  BY DEF SameTemplate
<1> HIDE DEF Kin
<1>5. alien = {}
  <2> SUFFICES ASSUME alien # {} PROVE FALSE
    OBVIOUS
  <2>1. PICK k \in alien : \A i \in alien : k <= i
    <3>1. alien \subseteq Nat
      BY <1>2
    <3> HIDE DEF alien
    <3> QED BY <3>1, SmallestMember
  <2>2. k \in 0..MaxTime /\ ~Kin(w[k])
    OBVIOUS
  <2>3. CASE k = 0
    BY <1>1, <1>4, <2>2, <2>3
  <2>4. CASE k # 0
    <3>1. k \in 1..MaxTime /\ k - 1 \in 0..MaxTime /\ ~(k <= k - 1)
      BY <2>2, <2>4, <1>2
    <3>2. Kin(w[k-1])
      BY <2>1, <3>1
    <3>3. w[k] = StepOf(w[k-1], sk, until, ai)
      BY <1>1, <3>1
    <3> QED BY <1>3, <2>2, <3>2, <3>3
  <2> QED BY <2>3, <2>4
<1>6. Kin(w[MaxTime])
  BY <1>2, <1>5
<1> QED BY <1>1, <1>6 DEF Kin

\* From which slot on the cursor has seen every round of an undisturbed template, and
\* up to which one rounds are made.
Lo  == IF tmpl.enabled THEN since ELSE now
Top == IF HorizonDays = 0 THEN MaxTime ELSE now + HorizonDays

WalksWithin ==
  \A w \in TPollers :
    walker[w].pc # "idle" => /\ walker[w].until <= now + HorizonDays
                             /\ walker[w].pc = "walk" => walker[w].occ <= now + HorizonDays

\* The inductive invariant.
EditionInv ==
  /\ now \in Slots /\ since \in Nat /\ since <= now
  /\ WalksWithin
  /\ Undisturbed => /\ Whole(Record, skips, Lo, Top)
                    /\ NotPast(tmpl.rule, tmpl.cursor, skips)
                    /\ RowsSound(skips, tmpl.rule)

LEMMA Bounds ==
  ASSUME EditionInv
  PROVE  /\ now \in Nat /\ 1 <= now /\ now <= MaxTime /\ MaxTime \in Nat /\ HorizonDays \in Nat
         /\ Lo \in Nat /\ Lo <= now
         /\ Top \in Nat /\ 1 + HorizonDays <= Top /\ now + HorizonDays <= Top
<1>1. now \in Nat /\ 1 <= now /\ now <= MaxTime /\ MaxTime \in Nat /\ HorizonDays \in Nat
  BY TemplateAssumption DEF EditionInv, Slots
<1>2. Lo \in Nat /\ Lo <= now
  BY <1>1 DEF EditionInv, Lo
<1>3. Top \in Nat /\ 1 + HorizonDays <= Top /\ now + HorizonDays <= Top
  BY <1>1 DEF Top
<1> QED BY <1>1, <1>2, <1>3

\* The record of an undisturbed template can be walked on.
LEMMA EditionInput ==
  ASSUME ShiftsInOrder, TemplateIInv, EditionInv, Undisturbed, NEW ai \in Dispatched
  PROVE  /\ WalkInput(Record, skips, Lo, Top, ai) /\ NoLateMain(Record)
         /\ NotPast(tmpl.rule, tmpl.cursor, skips) /\ Record.tmpl = tmpl /\ tmpl.rule \in Rules
         /\ SkipsSound(skips, FALSE) /\ RowsSound(skips, tmpl.rule) /\ PlacesInOrder(skips, tmpl.rule)
<1>1. /\ RoundsSound(Record, skips, FALSE) /\ SkipsSound(skips, FALSE) /\ SkipRows(skips)
      /\ Record.tmpl = tmpl /\ tmpl.rule \in Rules
  BY RecordOf DEF TemplateIInv, RoundsSound, SkipsSound, SkipRows
<1>2. /\ Whole(Record, skips, Lo, Top) /\ NotPast(tmpl.rule, tmpl.cursor, skips)
      /\ RowsSound(skips, tmpl.rule)
  BY DEF EditionInv
<1>3. PlacesInOrder(skips, tmpl.rule)
  BY <1>1, <1>2, OrderOfPlaces
<1>4. ai \subseteq tmpl.ai
  BY DEF Dispatched
<1>5. NoLateMain(Record)
  BY <1>1 DEF Undisturbed, PostsTellNumbers, NoLateMain
<1>6. WalkInput(Record, skips, Lo, Top, ai)
  BY <1>1, <1>2, <1>3, <1>4, Bounds DEF WalkInput
<1> QED BY <1>1, <1>2, <1>3, <1>5, <1>6

\* What a transaction has to keep.
LEMMA EditionApplied ==
  ASSUME EditionInv, NEW made, Apply(made), UNCHANGED <<walker, now, since>>,
         Undisturbed' => /\ RecordShape(made) /\ SameTemplate(tmpl, made.tmpl)
                         /\ Whole(made, skips', Lo, Top)
                         /\ NotPast(made.tmpl.rule, made.tmpl.cursor, skips')
                         /\ RowsSound(skips', made.tmpl.rule)
  PROVE  EditionInv'
<1>1. now' \in Slots /\ since' \in Nat /\ since' <= now' /\ WalksWithin'
  BY DEF EditionInv, WalksWithin
<1>2. SUFFICES ASSUME Undisturbed'
               PROVE  /\ Whole(Record', skips', Lo', Top')
                      /\ NotPast(tmpl'.rule, tmpl'.cursor, skips')
                      /\ RowsSound(skips', tmpl'.rule)
  BY <1>1 DEF EditionInv
<1>3. Record' = made /\ tmpl' = made.tmpl
  BY <1>2, Applied DEF Apply
<1>4. Lo' = Lo /\ Top' = Top
  BY <1>2, <1>3 DEF Lo, Top, SameTemplate
<1> QED BY <1>2, <1>3, <1>4

LEMMA WithoutSound ==
  ASSUME NEW st, NEW sk, RoundsSound(st, sk, FALSE), NEW ps, NEW js
  PROVE  RoundsSound(Without(st, ps, js), sk, FALSE) /\ Without(st, ps, js).tmpl = st.tmpl
<1>1. RecordShape(st) /\ OnePerRole(st)
  BY DEF RoundsSound
<1>2. Without(st, ps, js).tmpl = st.tmpl
  BY <1>1 DEF Without, DeletePostTemplateLinkedPosts, cancelPendingRecurringAIJobs, RecordShape
<1>3. RecordShape(Without(st, ps, js)) /\ LiveOf(Without(st, ps, js)) \subseteq LiveOf(st)
  BY <1>1, WithoutShape
<1> QED BY <1>1, <1>2, <1>3 DEF RoundsSound, OnePerRole

LEMMA TornFrame ==
  ASSUME NEW st, NEW sk, RoundsSound(st, sk, FALSE), SkipsSound(sk, FALSE), NEW ps, NEW js,
         NEW occ \in Slots, NEW main, NEW ann, NEW until \in Nat, NEW ai
  PROVE  LET set == SetPostTemplateMaterializationState(Without(st, ps, js), occ, main, ann)
         IN  SameTemplate(st.tmpl, Horizon(set, sk, until, ai).tmpl)
<1> DEFINE del == Without(st, ps, js)
           set == SetPostTemplateMaterializationState(del, occ, main, ann)
<1>1. RoundsSound(del, sk, FALSE) /\ del.tmpl = st.tmpl
  BY WithoutSound
<1> HIDE DEF del
<1>2. RoundsSound(set, sk, FALSE)
  BY <1>1, StateSet
<1>3. SameTemplate(del.tmpl, set.tmpl)
  BY <1>1, StateEffect DEF RoundsSound
<1> HIDE DEF set
<1>4. SameTemplate(set.tmpl, Horizon(set, sk, until, ai).tmpl)
  BY <1>2, HorizonFrame
<1>5. SameTemplate(st.tmpl, Horizon(set, sk, until, ai).tmpl)
  BY <1>1, <1>3, <1>4 DEF SameTemplate
<1> QED BY <1>5 DEF set, del

LEMMA RematerializeFrame ==
  ASSUME NEW st, NEW sk, RoundsSound(st, sk, FALSE), SkipsSound(sk, FALSE), NEW ps, NEW js,
         NEW occ \in Slots, NEW main, NEW ann, NEW ai
  PROVE  SameTemplate(st.tmpl, Rematerialize(Without(st, ps, js), sk, occ, main, ann, ai).tmpl)
<1> DEFINE del == Without(st, ps, js)
           put == createScheduledPostFromTemplate(del, occ, main, ai)
           at  == maybeShiftOccurrence(sk, occ)
<1>1. RoundsSound(del, sk, FALSE) /\ del.tmpl = st.tmpl
  BY WithoutSound
<1>2. Rematerialize(del, sk, occ, main, ann, ai) = materializeAnnouncement(put, sk, at, ann, FALSE, ai)
  BY DEF Rematerialize
<1> HIDE DEF del
<1>3. RecordShape(put) /\ put.tmpl = del.tmpl
  <2>1. RoundsSound(put, sk, FALSE)
    BY <1>1, MainMade
  <2>2. RecordShape(del)
    BY <1>1 DEF RoundsSound
  <2>3. put.tmpl = del.tmpl
    BY <2>2, MainMadeEffect
  <2> QED BY <2>1, <2>3 DEF RoundsSound
<1> HIDE DEF put, at
<1>4. OnlyAnnounces(put, Rematerialize(del, sk, occ, main, ann, ai), at)
  BY <1>2, <1>3, AnnouncementEffect
<1>5. SameTemplate(st.tmpl, Rematerialize(del, sk, occ, main, ann, ai).tmpl)
  BY <1>1, <1>3, <1>4 DEF OnlyAnnounces, SameTemplate
<1> QED BY <1>5 DEF del

\* A transaction that disturbs nothing worked on an undisturbed template.
LEMMA UndisturbedBefore ==
  ASSUME NEW made, Apply(made), SameTemplate(tmpl, made.tmpl), tmpl.exists, removed => removed',
         gaps => gaps', \A t \in Slots : skips[t].shift # NoTime => skips'[t].shift # NoTime,
         Undisturbed'
  PROVE  Undisturbed
BY DEF Undisturbed, PostsTellNumbers, Apply, SameTemplate

LEMMA SkipNumbers ==
  ASSUME ShiftsInOrder, TemplateIInv, EditionInv, NEW occ \in tmpl.rule, NEW ai \in Dispatched,
         SkipOccurrence(occ, ai)
  PROVE  EditionInv'
<1> DEFINE scope == AtOrAfter(LinkedPosts(Record), occ)
           sk    == AddPostTemplateSkip(skips, occ)
           torn  == TearDown(Record, sk, occ, scope, ai)
           pend  == SkipPending(Record, sk, occ, FALSE, ai)
           made  == IF Regenerable(scope) = {} THEN pend ELSE torn
<1>1. /\ tmpl.exists /\ ~IsPostTemplateOccurrenceSkipped(skips, occ) /\ Blocked(scope) = {}
      /\ skips' = sk /\ Apply(made)
      /\ removed' = (removed \/ (Regenerable(scope) = {} /\ PendingHere(Record, occ) # {}))
      /\ UNCHANGED <<walker, now, since, gaps>>
  BY DEF SkipOccurrence
<1>2. /\ RoundsSound(Record, skips, FALSE) /\ Record.tmpl = tmpl /\ tmpl.rule \in Rules
      /\ occ \in Slots /\ now \in Nat
      /\ skips \in [Slots -> [scope : Scopes, shift : Slots \cup {NoTime}]]
      /\ now + HorizonDays \in Nat
  BY RecordOf, TemplateAssumption, Bounds DEF TemplateIInv, RoundsSound, SkipsSound
<1>3. /\ sk \in [Slots -> [scope : Scopes, shift : Slots \cup {NoTime}]]
      /\ sk[occ].scope = "occurrence" /\ sk[occ].shift = skips[occ].shift
      /\ \A t \in Slots \ {occ} : sk[t] = skips[t]
  BY <1>2 DEF AddPostTemplateSkip, Scopes
<1> HIDE DEF sk
<1>4. SkipsSound(sk, FALSE) /\ RoundsSound(Record, sk, FALSE)
  BY <1>2, <1>3 DEF SkipsSound, RoundsSound
<1>5. torn = Horizon(SetPostTemplateMaterializationState(
                       Without(Record, Regenerable(scope), AtOrAfter(Record.jobs, occ)), occ,
                       IF HasCounters(scope, occ) THEN CounterOf(scope, occ, "main")
                       ELSE Record.tmpl.counter,
                       IF HasCounters(scope, occ) THEN CounterOf(scope, occ, "announcement")
                       ELSE Record.tmpl.annCounter), sk, now + HorizonDays, ai)
  BY DEF TearDown, Without
<1>6. pend = cancelPendingRecurringAIJobs(Record, PendingHere(Record, occ))
  BY DEF SkipPending
<1> HIDE DEF torn, pend
<1>7. SameTemplate(tmpl, made.tmpl)
  <2>1. SameTemplate(tmpl, torn.tmpl)
    BY <1>2, <1>4, <1>5, TornFrame
  <2>2. SameTemplate(tmpl, pend.tmpl)
    BY <1>2, <1>6 DEF cancelPendingRecurringAIJobs, Record, SameTemplate
  <2> QED BY <2>1, <2>2
<1>8. SUFFICES ASSUME Undisturbed'
               PROVE  /\ RecordShape(made) /\ Whole(made, sk, Lo, Top)
                      /\ NotPast(made.tmpl.rule, made.tmpl.cursor, sk)
                      /\ RowsSound(sk, made.tmpl.rule)
  <2> HIDE DEF made
  <2> QED BY <1>1, <1>7, EditionApplied
<1>9. Undisturbed
  <2>1. \A t \in Slots : skips[t].shift # NoTime => sk[t].shift # NoTime
    BY <1>3
  <2> HIDE DEF made
  <2> QED BY <1>1, <1>7, <1>8, <2>1, UndisturbedBefore
<1>10. /\ WalkInput(Record, skips, Lo, Top, ai) /\ NoLateMain(Record)
       /\ NotPast(tmpl.rule, tmpl.cursor, skips)
       /\ RowsSound(skips, tmpl.rule) /\ PlacesInOrder(skips, tmpl.rule)
  BY <1>9, EditionInput
<1>11. skips[occ].scope = "none" /\ skips[occ].shift = NoTime
  BY <1>1, <1>2, <1>10 DEF RowsSound, IsPostTemplateOccurrenceSkipped
<1>12. RowsSound(sk, tmpl.rule)
  BY <1>2, <1>3, <1>10, <1>11 DEF RowsSound
<1>13. PlacesInOrder(sk, tmpl.rule)
  BY <1>2, <1>3, <1>12, OrderOfPlaces DEF SkipRows
<1>14. CASE Regenerable(scope) # {}
  <2>1. now + HorizonDays <= Top
    BY Bounds
  <2>2. PlaceOf(skips, occ) = occ
    BY <1>11 DEF PlaceOf
  <2>3. /\ WalkOutput(Record, torn, sk, Lo, Top)
        /\ NotPast(torn.tmpl.rule, torn.tmpl.cursor, sk)
    BY <1>1, <1>2, <1>3, <1>4, <1>10, <1>12, <1>13, <1>14, <2>1, <2>2, TearDownLedger DEF torn
  <2> QED BY <1>2, <1>12, <1>14, <2>3 DEF WalkOutput, RoundsSound, SameTemplate
<1>15. CASE Regenerable(scope) = {}
  <2>1. PendingHere(Record, occ) = {}
    BY <1>1, <1>8, <1>15 DEF Undisturbed
  <2>2. pend = Record
    BY <1>6, <2>1 DEF cancelPendingRecurringAIJobs, Record
  <2>3. \A r \in tmpl.rule : PlaceOf(sk, r) = PlaceOf(skips, r) /\ (Free(sk, r) => Free(skips, r))
    <3> TAKE r \in tmpl.rule
    <3>1. CASE r = occ
      BY <1>3, <1>11, <3>1 DEF PlaceOf, Free
    <3>2. CASE r # occ
      BY <1>3, <1>10, <3>2 DEF PlaceOf, Free, PlacesInOrder
    <3> QED BY <3>1, <3>2
  <2>4. Whole(Record, sk, Lo, Top) /\ NotPast(tmpl.rule, tmpl.cursor, sk)
    BY <1>2, <1>10, <2>3, SkipLedger DEF WalkInput
  <2> QED BY <1>2, <1>12, <1>15, <2>2, <2>4 DEF RoundsSound
<1> QED BY <1>14, <1>15

LEMMA ShiftNumbers ==
  ASSUME ShiftsInOrder, TemplateIInv, EditionInv, NEW s \in Shifts, s[1] \in tmpl.rule,
         NEW ai \in Dispatched, ShiftOccurrence(s[1], s[2], ai)
  PROVE  EditionInv'
<1> DEFINE occ   == s[1]
           scope == AtOrAfter(LinkedPosts(Record), occ)
           sk    == ShiftPostTemplateOccurrence(skips, occ, s[2])
           torn  == TearDown(Record, sk, occ, scope, ai)
           pend  == SkipPending(Record, sk, occ, TRUE, ai)
           made  == IF Regenerable(scope) = {} THEN pend ELSE torn
           can   == cancelPendingRecurringAIJobs(Record, PendingHere(Record, occ))
           again == Rematerialize(can, sk, occ, CounterOf(Record.jobs, occ, "main"),
                                  CounterOf(Record.jobs, occ, "announcement"), ai)
<1>1. /\ tmpl.exists /\ CanShift(skips, occ) /\ Blocked(scope) = {}
      /\ Regenerable(scope) = {} /\ PendingHere(Record, occ) # {} => CountersKnown(Record, occ)
      /\ skips' = sk /\ Apply(made)
      /\ UNCHANGED <<walker, now, since, removed, gaps>>
  BY DEF ShiftOccurrence
<1>2. /\ RoundsSound(Record, skips, FALSE) /\ Record.tmpl = tmpl /\ tmpl.rule \in Rules
      /\ occ \in tmpl.rule /\ occ \in Slots /\ now \in Nat
      /\ skips \in [Slots -> [scope : Scopes, shift : Slots \cup {NoTime}]]
      /\ now + HorizonDays \in Nat
      /\ s[2] \in Slots /\ s[2] # NoTime /\ <<occ, s[2]>> \in Shifts
  <2>1. s[1] \in Slots /\ s[2] \in Slots /\ s = <<s[1], s[2]>> /\ NoTime \notin Slots
    BY TemplateAssumption DEF Slots, NoTime
  <2> QED BY <2>1, RecordOf, TemplateAssumption, Bounds DEF TemplateIInv, RoundsSound, SkipsSound
<1> HIDE DEF occ
<1>3. /\ sk \in [Slots -> [scope : Scopes, shift : Slots \cup {NoTime}]]
      /\ sk[occ].scope = "occurrence" /\ sk[occ].shift = s[2]
      /\ \A t \in Slots \ {occ} : sk[t] = skips[t]
  BY <1>2 DEF ShiftPostTemplateOccurrence, Scopes
<1> HIDE DEF sk
<1>4. SkipsSound(sk, FALSE) /\ RoundsSound(Record, sk, FALSE)
  BY <1>2, <1>3 DEF SkipsSound, RoundsSound
<1>5. torn = Horizon(SetPostTemplateMaterializationState(
                       Without(Record, Regenerable(scope), AtOrAfter(Record.jobs, occ)), occ,
                       IF HasCounters(scope, occ) THEN CounterOf(scope, occ, "main")
                       ELSE Record.tmpl.counter,
                       IF HasCounters(scope, occ) THEN CounterOf(scope, occ, "announcement")
                       ELSE Record.tmpl.annCounter), sk, now + HorizonDays, ai)
  BY DEF TearDown, Without
<1>6. pend = IF PendingHere(Record, occ) = {} THEN can ELSE again
  BY DEF SkipPending
<1>7. can = Without(Record, {}, PendingHere(Record, occ))
  BY DEF cancelPendingRecurringAIJobs, Record, Without, DeletePostTemplateLinkedPosts
<1> HIDE DEF torn, pend, can
<1>8. SameTemplate(tmpl, made.tmpl)
  <2>1. SameTemplate(tmpl, torn.tmpl)
    BY <1>2, <1>4, <1>5, TornFrame
  <2>2. SameTemplate(tmpl, can.tmpl)
    BY <1>2 DEF can, cancelPendingRecurringAIJobs, Record, SameTemplate
  <2>3. SameTemplate(tmpl, again.tmpl)
    <3> DEFINE main == CounterOf(Record.jobs, occ, "main")
               ann  == CounterOf(Record.jobs, occ, "announcement")
               js   == PendingHere(Record, occ)
    <3>1. again = Rematerialize(Without(Record, {}, js), sk, occ, main, ann, ai)
      BY <1>7
    <3> HIDE DEF main, ann, js, again
    <3> QED BY <1>2, <1>4, <3>1, RematerializeFrame
  <2> HIDE DEF again
  <2> QED BY <1>6, <2>1, <2>2, <2>3
<1> HIDE DEF again
<1>9. SUFFICES ASSUME Undisturbed'
               PROVE  /\ RecordShape(made) /\ Whole(made, sk, Lo, Top)
                      /\ NotPast(made.tmpl.rule, made.tmpl.cursor, sk)
                      /\ RowsSound(sk, made.tmpl.rule)
  <2> HIDE DEF made
  <2> QED BY <1>1, <1>8, EditionApplied
<1>10. skips[occ].scope = "none"
  BY <1>1 DEF CanShift
<1>11. Undisturbed /\ "main" \notin tmpl.ai
  <2> HIDE DEF made
  <2>1. "main" \notin tmpl.ai
    BY <1>1, <1>2, <1>3, <1>8, <1>9 DEF Undisturbed, PostsTellNumbers, Apply, SameTemplate
  <2> QED BY <1>1, <1>8, <1>9, <2>1 DEF Undisturbed, PostsTellNumbers
<1>12. /\ WalkInput(Record, skips, Lo, Top, ai) /\ NoLateMain(Record)
       /\ NotPast(tmpl.rule, tmpl.cursor, skips)
       /\ RowsSound(skips, tmpl.rule) /\ PlacesInOrder(skips, tmpl.rule)
  BY <1>11, EditionInput
<1>13. PlaceOf(skips, occ) = occ /\ Free(skips, occ)
  BY <1>2, <1>10, <1>12 DEF RowsSound, PlaceOf, Free
<1>14. RowsSound(sk, tmpl.rule)
  BY <1>2, <1>3, <1>12 DEF RowsSound
<1>15. PlacesInOrder(sk, tmpl.rule)
  BY <1>2, <1>3, <1>14, OrderOfPlaces DEF SkipRows
<1>16. CASE Regenerable(scope) # {}
  <2>1. now + HorizonDays <= Top
    BY Bounds
  <2>2. /\ WalkOutput(Record, torn, sk, Lo, Top)
        /\ NotPast(torn.tmpl.rule, torn.tmpl.cursor, sk)
    BY <1>1, <1>2, <1>3, <1>4, <1>12, <1>13, <1>14, <1>15, <1>16, <2>1, TearDownLedger DEF torn
  <2> QED BY <1>2, <1>14, <1>16, <2>2 DEF WalkOutput, RoundsSound, SameTemplate
<1>17. CASE Regenerable(scope) = {}
  <2>1. PendingHere(Record, occ) = {}
    BY <1>1, <1>2, <1>11, <1>12, <1>17 DEF WalkInput, Whole, RolesTold, CountersKnown, PendingHere
  <2>2. pend = Record
    BY <1>6, <2>1 DEF can, cancelPendingRecurringAIJobs, Record
  <2>3. AtOrAfter(LinkedPosts(Record), occ) = {}
    <3>1. Regenerable(scope) = scope
      BY <1>1, <1>2, AllRegenerable DEF AtOrAfter, RoundsSound
    <3> QED BY <3>1, <1>17
  <2>4. Whole(Record, sk, Lo, Top) /\ NotPast(tmpl.rule, tmpl.cursor, sk)
    BY <1>2, <1>3, <1>11, <1>12, <1>13, <1>15, <2>3, ShiftLedger
  <2> QED BY <1>2, <1>14, <1>17, <2>2, <2>4 DEF RoundsSound
<1> QED BY <1>16, <1>17

LEMMA RegenerateNumbers ==
  ASSUME ShiftsInOrder, TemplateIInv, EditionInv, NEW occ \in tmpl.rule, NEW ai \in Dispatched,
         RegenerateOccurrence(occ, ai)
  PROVE  EditionInv'
<1> DEFINE scope == {p \in LinkedPosts(Record) : p.occ = occ}
           del   == Without(Record, Regenerable(scope), PendingHere(Record, occ))
           main  == CounterOf(scope, occ, "main")
           ann   == CounterOf(scope, occ, "announcement")
           made  == Rematerialize(del, skips, occ, main, ann, ai)
<1>1. /\ tmpl.exists /\ Blocked(scope) = {} /\ Regenerable(scope) # {}
      /\ Apply(made)
      /\ UNCHANGED <<skips, walker, now, since, removed, gaps>>
  BY DEF RegenerateOccurrence, Without
<1>2. /\ RoundsSound(Record, skips, FALSE) /\ SkipsSound(skips, FALSE) /\ Record.tmpl = tmpl
      /\ tmpl.rule \in Rules /\ occ \in Slots
  BY RecordOf, TemplateAssumption DEF TemplateIInv, RoundsSound, SkipsSound
<1>3. SameTemplate(tmpl, made.tmpl)
  BY <1>2, RematerializeFrame
<1>4. RecordShape(made)
  <2>1. RoundsSound(del, skips, FALSE)
    BY <1>2, WithoutSound
  <2> HIDE DEF del, main, ann
  <2>2. RoundsSound(made, skips, FALSE)
    BY <1>2, <2>1, RematerializeKeeps
  <2> QED BY <2>2 DEF RoundsSound
<1>5. SUFFICES ASSUME Undisturbed'
               PROVE  /\ RecordShape(made) /\ Whole(made, skips, Lo, Top)
                      /\ NotPast(made.tmpl.rule, made.tmpl.cursor, skips)
                      /\ RowsSound(skips, made.tmpl.rule)
  <2> HIDE DEF made
  <2> QED BY <1>1, <1>3, EditionApplied
<1>6. Undisturbed
  <2> HIDE DEF made
  <2> QED BY <1>1, <1>3, <1>5, UndisturbedBefore
<1>7. /\ WalkInput(Record, skips, Lo, Top, ai) /\ NoLateMain(Record)
      /\ NotPast(tmpl.rule, tmpl.cursor, skips) /\ RowsSound(skips, tmpl.rule)
  BY <1>6, EditionInput
<1>8. Whole(made, skips, Lo, Top) /\ made.tmpl.cursor = tmpl.cursor
  <2> HIDE DEF ann
  <2> QED BY <1>1, <1>2, <1>7, RegenerateLedger
<1> HIDE DEF made
<1> QED BY <1>3, <1>4, <1>7, <1>8 DEF SameTemplate

LEMMA HorizonNumbers ==
  ASSUME ShiftsInOrder, TemplateIInv, EditionInv, NEW ai \in Dispatched, RegenerateHorizon(ai)
  PROVE  EditionInv'
<1> DEFINE scope == {p \in LinkedPosts(Record) : p.occ \in now..Top}
           slots == {p.occ : p \in Regenerable(scope)}
           first == Min(slots)
           main  == CounterOf(scope, first, "main")
           ann   == CounterOf(scope, first, "announcement")
           del   == Without(Record, Regenerable(scope), Record.jobs)
           set   == SetPostTemplateMaterializationState(del, first, main, ann)
           made  == Horizon(set, skips, now + HorizonDays, ai)
<1>1. /\ tmpl.exists /\ Blocked(scope) = {} /\ Regenerable(scope) # {}
      /\ Apply(made) /\ gaps' = (gaps \/ \E j \in Record.jobs : j.occ < first)
      /\ UNCHANGED <<skips, walker, now, since, removed>>
  BY DEF RegenerateHorizon, Without, Top, Record
<1>2. /\ RoundsSound(Record, skips, FALSE) /\ SkipsSound(skips, FALSE) /\ Record.tmpl = tmpl
      /\ tmpl.rule \in Rules /\ now \in Slots /\ now + HorizonDays \in Nat
  <2>1. RoundsSound(Record, skips, FALSE) /\ SkipsSound(skips, FALSE)
    BY DEF TemplateIInv, RoundsSound, SkipsSound
  <2>2. now \in Slots
    BY DEF EditionInv
  <2>3. now + HorizonDays \in Nat
    BY Bounds
  <2> QED BY <2>1, <2>2, <2>3, RecordOf
<1>3. first \in Slots
  <2>1. slots \subseteq Slots /\ slots # {}
    BY <1>1, <1>2 DEF RoundsSound, RecordShape, PostRow, Regenerable, LinkedPosts
  <2> HIDE DEF slots
  <2>2. slots \subseteq Nat
    BY <2>1 DEF Slots
  <2> QED BY <2>1, <2>2, LeastOf
<1>4. SameTemplate(tmpl, made.tmpl)
  <2> HIDE DEF first, main, ann
  <2> QED BY <1>2, <1>3, TornFrame
<1>5. SUFFICES ASSUME Undisturbed'
               PROVE  /\ RecordShape(made) /\ Whole(made, skips, Lo, Top)
                      /\ NotPast(made.tmpl.rule, made.tmpl.cursor, skips)
                      /\ RowsSound(skips, made.tmpl.rule)
  <2> HIDE DEF made
  <2> QED BY <1>1, <1>4, EditionApplied
<1>6. Undisturbed
  <2> HIDE DEF made
  <2> QED BY <1>1, <1>4, <1>5, UndisturbedBefore
<1>7. /\ WalkInput(Record, skips, Lo, Top, ai) /\ NoLateMain(Record) /\ RowsSound(skips, tmpl.rule)
  BY <1>6, EditionInput
<1>8. ~\E j \in Record.jobs : j.occ < first
  BY <1>1, <1>5 DEF Undisturbed
<1>9. WalkOutput(Record, made, skips, Lo, Top) /\ NotPast(made.tmpl.rule, made.tmpl.cursor, skips)
  <2> HIDE DEF ann
  <2>1. scope = {p \in LinkedPosts(Record) : p.occ \in now..Top}
        /\ first = Min({p.occ : p \in Regenerable(scope)})
        /\ Top = IF HorizonDays = 0 THEN MaxTime ELSE now + HorizonDays
    BY DEF Top
  <2> HIDE DEF scope, first
  <2> QED BY <1>1, <1>2, <1>7, <1>8, <2>1, HorizonAgainLedger, ZenonT(60)
<1> HIDE DEF made
<1> QED BY <1>2, <1>4, <1>7, <1>9 DEF WalkOutput, RoundsSound, SameTemplate

LEMMA EditNumbers ==
  ASSUME ShiftsInOrder, TemplateIInv, EditionInv, NEW op, NEW enabled \in BOOLEAN, NEW rule \in Rules,
         EditTemplate(op, enabled, rule)
  PROVE  EditionInv'
<1> DEFINE moves == MovesCursor(tmpl, op, enabled)
           next  == NextOccurrence(rule, now)
<1>1. /\ tmpl.exists /\ tmpl' = UpdatePostTemplate(tmpl, op, enabled, rule)
      /\ since' = (IF moves THEN now ELSE since) /\ gaps' = (gaps \/ rule # tmpl.rule)
      /\ UNCHANGED <<skips, tposts, tjobs, walker, now, removed>>
  BY DEF EditTemplate
<1>2. /\ tmpl'.enabled = enabled /\ tmpl'.rule = rule /\ tmpl'.ai = tmpl.ai /\ tmpl'.annOn = tmpl.annOn
      /\ tmpl'.counter = tmpl.counter /\ tmpl'.exists = tmpl.exists
      /\ tmpl'.cursor = IF ~enabled THEN NoTime ELSE IF moves THEN next ELSE tmpl.cursor
  <2>1. TemplateRow(tmpl)
    BY DEF TemplateIInv, RoundsSound, RecordShape, Record
  <2> HIDE DEF moves, next
  <2> QED BY <1>1, <2>1 DEF UpdatePostTemplate, TemplateRow, moves, next
<1>3. now' \in Slots /\ since' \in Nat /\ since' <= now' /\ WalksWithin'
  BY <1>1, Bounds DEF EditionInv, WalksWithin
<1>4. SUFFICES ASSUME Undisturbed'
               PROVE  /\ Whole(Record', skips, Lo', Top')
                      /\ NotPast(tmpl'.rule, tmpl'.cursor, skips)
                      /\ RowsSound(skips, tmpl'.rule)
  BY <1>1, <1>3 DEF EditionInv
<1>5. Undisturbed /\ tmpl'.rule = tmpl.rule /\ rule = tmpl.rule
  BY <1>1, <1>2, <1>4 DEF Undisturbed, PostsTellNumbers
<1>6. /\ PlacesInOrder(skips, rule) /\ NotPast(rule, tmpl.cursor, skips) /\ RowsSound(skips, rule)
      /\ Whole(Record, skips, Lo, Top)
  <2>1. tmpl.ai \in Dispatched
    BY DEF Dispatched
  <2>2. Whole(Record, skips, Lo, Top)
    BY <1>5 DEF EditionInv
  <2> QED BY <1>5, <2>1, <2>2, EditionInput
<1>7. /\ Record.tmpl = tmpl /\ Record'.tmpl = tmpl' /\ LiveOf(Record') = LiveOf(Record)
      /\ Record'.jobs = Record.jobs
  BY <1>1 DEF Record, LiveOf, LinkedPosts
<1>8. Numbers(Record') = Numbers(Record)
  BY <1>7 DEF Numbers, Mains
<1>9. Backed(Record') /\ RolesTold(Record')
  BY <1>2, <1>6, <1>7, <1>8 DEF Whole, Backed, RolesTold
<1> DEFINE N == Numbers(Record)
           k == tmpl.counter
<1>10. Ledger(N, rule, tmpl.cursor, k, skips, Lo, Top) /\ Top' = Top
  BY <1>1, <1>5, <1>6, <1>7 DEF Whole, Top
<1>11. Ledger(N, rule, tmpl'.cursor, k, skips, Lo', Top) /\ NotPast(rule, tmpl'.cursor, skips)
  <2>1. CASE tmpl'.cursor = tmpl.cursor /\ Lo' = Lo
    BY <1>6, <1>10, <2>1
  <2>2. CASE (tmpl'.cursor = NoTime \/ tmpl'.cursor = next) /\ Lo' = now
    <3>1. now \in Nat /\ Lo \in Nat /\ Lo <= now
      BY Bounds
    <3> HIDE DEF N, k
    <3> QED BY <1>6, <1>10, <2>2, <3>1, LedgerSet
  <2>3. CASE enabled /\ ~moves
    <3>1. tmpl.enabled
      BY <2>3 DEF MovesCursor
    <3>2. tmpl'.cursor = tmpl.cursor /\ Lo' = Lo
      BY <1>1, <1>2, <2>3, <3>1 DEF Lo
    <3> QED BY <2>1, <3>2
  <2>4. CASE ~enabled \/ moves
    <3>1. (tmpl'.cursor = NoTime \/ tmpl'.cursor = next) /\ Lo' = now
      BY <1>1, <1>2, <2>4 DEF Lo
    <3> QED BY <2>2, <3>1
  <2> QED BY <2>3, <2>4
<1>12. Whole(Record', skips, Lo', Top')
  BY <1>2, <1>7, <1>8, <1>9, <1>10, <1>11 DEF Whole
<1> QED BY <1>2, <1>6, <1>11, <1>12

\* What is done by hand, or ends the template, ends what is promised of its numbers.
LEMMA EditionLeft ==
  ASSUME EditionInv, ~Undisturbed', UNCHANGED <<walker, now, since>>
  PROVE  EditionInv'
BY DEF EditionInv, WalksWithin

LEMMA DropNumbers ==
  ASSUME TemplateIInv, EditionInv, DeleteTemplate
  PROVE  EditionInv'
<1>1. TemplateRow(tmpl)
  BY DEF TemplateIInv, RoundsSound, RecordShape, Record
<1>2. ~tmpl'.exists
  BY <1>1 DEF DeleteTemplate, TemplateRow
<1> QED BY <1>2, EditionLeft DEF DeleteTemplate, Undisturbed

LEMMA ByHandNumbers ==
  ASSUME EditionInv,
         \/ \E p \in tposts : DeleteTemplatePost(p) \/ CancelTemplatePost(p)
         \/ \E j \in tjobs : LoseTemplateJob(j)
  PROVE  EditionInv'
BY EditionLeft DEF DeleteTemplatePost, CancelTemplatePost, LoseTemplateJob, Undisturbed

\* A number passes from one to another.
LEMMA EditionPassed ==
  ASSUME EditionInv, NEW e \in LiveOf(Record), NEW n, n.occ = e.occ, n.role = e.role, n.ctr = e.ctr,
         LiveOf(Record') = (LiveOf(Record) \ {e}) \cup {n}, tjobs' \subseteq tjobs,
         UNCHANGED <<tmpl, skips, walker, now, since, removed, gaps>>
  PROVE  EditionInv'
<1>1. Numbers(Record') = Numbers(Record)
  <2>1. \A p \in Numbers(Record) : p \in Numbers(Record')
    <3> TAKE p \in Numbers(Record)
    <3>1. PICK f \in Mains(Record) : p = <<f.occ, f.ctr>>
      BY DEF Numbers
    <3>2. \E g \in Mains(Record') : g.occ = f.occ /\ g.ctr = f.ctr
      <4>1. CASE f = e
        BY <4>1 DEF Mains
      <4>2. CASE f # e
        BY <4>2 DEF Mains
      <4> QED BY <4>1, <4>2
    <3>3. PICK g \in Mains(Record') : p = <<g.occ, g.ctr>>
      BY <3>1, <3>2
    <3> QED BY <3>3 DEF Numbers
  <2>2. \A p \in Numbers(Record') : p \in Numbers(Record)
    <3> TAKE p \in Numbers(Record')
    <3>1. PICK f \in Mains(Record') : p = <<f.occ, f.ctr>>
      BY DEF Numbers
    <3>2. \E g \in Mains(Record) : g.occ = f.occ /\ g.ctr = f.ctr
      BY DEF Mains
    <3>3. PICK g \in Mains(Record) : p = <<g.occ, g.ctr>>
      BY <3>1, <3>2
    <3> QED BY <3>3 DEF Numbers
  <2> QED BY <2>1, <2>2
<1>2. Record.tmpl = tmpl /\ Record'.tmpl = tmpl /\ Record.jobs = tjobs /\ Record'.jobs = tjobs'
  BY DEF Record
<1>3. Backed(Record) => Backed(Record')
  BY <1>1 DEF Backed
<1>4. RolesTold(Record) => RolesTold(Record')
  BY <1>2 DEF RolesTold
<1>5. Whole(Record, skips, Lo, Top) => Whole(Record', skips, Lo, Top)
  BY <1>1, <1>2, <1>3, <1>4 DEF Whole
<1>6. Undisturbed' <=> Undisturbed
  BY DEF Undisturbed, PostsTellNumbers
<1>7. Lo' = Lo /\ Top' = Top /\ WalksWithin' = WalksWithin
  BY DEF Lo, Top, WalksWithin
<1> QED BY <1>5, <1>6, <1>7 DEF EditionInv

LEMMA CompleteNumbers ==
  ASSUME TemplateIInv, EditionInv, NEW j \in tjobs, CompleteTemplateJob(j)
  PROVE  EditionInv'
<1> DEFINE n == PostOfJob(j)
<1>1. /\ tjobs' = tjobs \ {j} /\ tposts' = tposts \cup {n}
      /\ UNCHANGED <<tmpl, skips, walker, now, since, removed, gaps>>
  BY DEF CompleteTemplateJob
<1>2. n.occ = j.occ /\ n.role = j.role /\ n.ctr = j.ctr /\ n.status = "open"
  BY DEF PostOfJob
<1> HIDE DEF n
<1>3. j \in LiveOf(Record) /\ j \notin tposts
  <2>1. JobRow(j)
    BY RecordOf DEF RecordShape
  <2> QED BY <2>1, RecordOf, PostIsNoJob DEF RecordShape, LiveOf
<1>4. LiveOf(Record') = (LiveOf(Record) \ {j}) \cup {n}
  BY <1>1, <1>2, <1>3 DEF Record, LiveOf, LinkedPosts
<1> QED BY <1>1, <1>2, <1>3, <1>4, EditionPassed

LEMMA PublishNumbers ==
  ASSUME TemplateIInv, EditionInv, NEW p \in tposts, PublishTemplatePost(p)
  PROVE  EditionInv'
<1> DEFINE n == [p EXCEPT !.status = IF p.status = "open" THEN "taken" ELSE "open"]
<1>1. /\ tjobs' = tjobs /\ tposts' = (tposts \ {p}) \cup {n} /\ p.status \in {"open", "taken"}
      /\ UNCHANGED <<tmpl, skips, walker, now, since, removed, gaps>>
  BY DEF PublishTemplatePost
<1>2. PostRow(p)
  BY RecordOf DEF RecordShape
<1>3. n.occ = p.occ /\ n.role = p.role /\ n.ctr = p.ctr /\ n.status # "cancelled"
  BY <1>2 DEF PostRow
<1> HIDE DEF n
<1>4. p \in LiveOf(Record) /\ p \notin tjobs
  BY <1>1, <1>2, RecordOf, PostIsNoJob DEF RecordShape, LiveOf, LinkedPosts
<1>5. LiveOf(Record') = (LiveOf(Record) \ {p}) \cup {n}
  BY <1>1, <1>3, <1>4 DEF Record, LiveOf, LinkedPosts
<1> QED BY <1>1, <1>3, <1>4, <1>5, EditionPassed

\* A poll makes a round.
LEMMA WalkNumbers ==
  ASSUME ShiftsInOrder, TemplateIInv, EditionInv, NEW w \in TPollers, NEW ai \in Dispatched,
         WalkOccurrence(w, ai)
  PROVE  EditionInv'
<1> DEFINE slot == walker[w].occ
           made == Once(Record, skips, slot, ai)
<1>1. /\ walker[w].pc = "walk" /\ slot \in Slots /\ slot <= now + HorizonDays
      /\ UNCHANGED <<skips, now, since, removed, gaps, tops>>
  BY DEF WalkOccurrence, TemplateIInv, WalkersSound, EditionInv, WalksWithin
<1>2. now' \in Slots /\ since' \in Nat /\ since' <= now'
  BY <1>1 DEF EditionInv
<1>3. WalksWithin'
  <2>1. \E pc \in {"read", "idle"} : walker' = [walker EXCEPT ![w].pc = pc]
    BY DEF WalkOccurrence
  <2>2. \A v \in TPollers : /\ walker'[v].until = walker[v].until
                            /\ v # w => walker'[v] = walker[v]
                            /\ walker'[w].pc # "walk"
    BY <2>1 DEF TemplateIInv, WalkersSound
  <2> QED BY <1>1, <2>2 DEF EditionInv, WalksWithin
<1>4. CASE tmpl.exists /\ tmpl.cursor = slot
  <2>1. Apply(made)
    BY <1>4 DEF WalkOccurrence
  <2>2. RoundsSound(Record, skips, FALSE) /\ SkipsSound(skips, FALSE) /\ Record.tmpl = tmpl
    BY RecordOf DEF TemplateIInv, RoundsSound, SkipsSound
  <2>3. SameTemplate(tmpl, made.tmpl)
    BY <1>1, <2>2, OnceFrame
  <2>4. SUFFICES ASSUME Undisturbed'
                 PROVE  /\ Whole(Record', skips, Lo', Top')
                        /\ NotPast(tmpl'.rule, tmpl'.cursor, skips)
                        /\ RowsSound(skips, tmpl'.rule)
    BY <1>1, <1>2, <1>3 DEF EditionInv
  <2> HIDE DEF made, slot
  <2>5. Undisturbed
    BY <1>1, <1>4, <2>1, <2>3, <2>4, UndisturbedBefore
  <2>6. WalkInput(Record, skips, Lo, Top, ai) /\ RowsSound(skips, tmpl.rule)
    BY <2>5, EditionInput
  <2>7. slot <= Top
    BY <1>1, Bounds DEF Slots
  <2>8. WalkOutput(Record, made, skips, Lo, Top) /\ NotPast(made.tmpl.rule, made.tmpl.cursor, skips)
    BY <1>1, <1>4, <2>2, <2>6, <2>7, OnceLedger DEF made
  <2>9. Record' = made /\ tmpl' = made.tmpl
    BY <2>1, <2>8, Applied DEF Apply, WalkOutput, RoundsSound
  <2>10. Lo' = Lo /\ Top' = Top /\ tmpl'.rule = tmpl.rule
    BY <1>1, <2>3, <2>9 DEF Lo, Top, SameTemplate
  <2> QED BY <2>6, <2>8, <2>9, <2>10 DEF WalkOutput
<1>5. CASE ~(tmpl.exists /\ tmpl.cursor = slot)
  <2>1. UNCHANGED <<tmpl, tposts, tjobs>>
    BY <1>5 DEF WalkOccurrence
  <2>2. Record' = Record /\ Lo' = Lo /\ Top' = Top /\ (Undisturbed' <=> Undisturbed)
    BY <1>1, <2>1 DEF Record, Lo, Top, Undisturbed, PostsTellNumbers
  <2> QED BY <1>1, <1>2, <1>3, <2>1, <2>2 DEF EditionInv
<1> QED BY <1>4, <1>5

\* A poll starts, goes on or stops.
LEMMA WalkerNumbers ==
  ASSUME TemplateIInv, EditionInv, NEW w \in TPollers, ListTemplates(w) \/ WalkOn(w) \/ WalkFails(w)
  PROVE  EditionInv'
<1>1. UNCHANGED <<tmpl, skips, tposts, tjobs, now, since, removed, gaps>>
  BY DEF ListTemplates, WalkOn, WalkFails
<1>2. walker[w].until \in Nat /\ MaxTime \in Nat /\ HorizonDays \in Nat /\ now \in Nat
  BY TemplateAssumption DEF TemplateIInv, WalkersSound
<1>3. /\ \A v \in TPollers : v # w => walker'[v] = walker[v]
      /\ walker'[w].pc # "idle" =>
           /\ walker'[w].until <= now + HorizonDays
           /\ walker'[w].pc = "walk" => walker'[w].occ <= now + HorizonDays
  <2>1. CASE ListTemplates(w)
    <3>1. walker' = [walker EXCEPT ![w] = [pc |-> "walk", occ |-> tmpl.cursor, until |-> now + HorizonDays]]
          /\ tmpl.cursor <= now + HorizonDays
      BY <2>1 DEF ListTemplates
    <3> QED BY <3>1, <1>2 DEF TemplateIInv, WalkersSound
  <2>2. CASE WalkOn(w)
    <3> DEFINE last == Min({MaxTime, walker[w].until})
               on   == tmpl.exists /\ tmpl.cursor \in 1..last
               to   == IF on THEN [walker[w] EXCEPT !.pc = "walk", !.occ = tmpl.cursor]
                       ELSE [walker[w] EXCEPT !.pc = "idle"]
    <3>1. walker' = [walker EXCEPT ![w] = to] /\ walker[w].pc = "read"
      BY <2>2 DEF WalkOn
    <3>2. last \in Nat /\ last <= walker[w].until
      <4>1. {MaxTime, walker[w].until} \subseteq Nat /\ {MaxTime, walker[w].until} # {}
        BY <1>2
      <4> QED BY <4>1, LeastOf
    <3>3. walker[w].until <= now + HorizonDays
      BY <3>1 DEF EditionInv, WalksWithin
    <3>4. on => tmpl.cursor <= now + HorizonDays
      BY <1>2, <3>2, <3>3
    <3> HIDE DEF last
    <3>5. /\ to.pc # "idle" => on
          /\ on => to.until = walker[w].until /\ to.occ = tmpl.cursor
      BY DEF TemplateIInv, WalkersSound
    <3> HIDE DEF to, on
    <3> QED BY <3>1, <3>3, <3>4, <3>5 DEF TemplateIInv, WalkersSound
  <2>3. CASE WalkFails(w)
    BY <2>3 DEF WalkFails, TemplateIInv, WalkersSound
  <2> QED BY <2>1, <2>2, <2>3
<1>4. WalksWithin'
  BY <1>1, <1>3 DEF EditionInv, WalksWithin
<1>5. Record' = Record /\ Lo' = Lo /\ Top' = Top /\ (Undisturbed' <=> Undisturbed)
  BY <1>1 DEF Record, Lo, Top, Undisturbed, PostsTellNumbers
<1> QED BY <1>1, <1>4, <1>5 DEF EditionInv

\* The horizon moves on.
LEMMA TimeNumbers ==
  ASSUME ShiftsInOrder, TemplateIInv, EditionInv, TimePasses
  PROVE  EditionInv'
<1>1. /\ now < MaxTime /\ now' = now + 1
      /\ UNCHANGED <<tmpl, skips, tposts, tjobs, walker, since, removed, gaps>>
  BY DEF TimePasses
<1>2. now \in Nat /\ MaxTime \in Nat /\ HorizonDays \in Nat /\ since \in Nat /\ since <= now
  BY Bounds DEF EditionInv
<1>3. now' \in Slots /\ since' \in Nat /\ since' <= now'
  BY <1>1, <1>2, Bounds DEF Slots
<1>4. WalksWithin'
  <2>1. \A v \in TPollers : walker[v].until \in Nat /\ walker[v].occ \in Nat
    BY TemplateAssumption DEF TemplateIInv, WalkersSound
  <2>2. \A k \in Nat : k <= now + HorizonDays => k <= now' + HorizonDays
    BY <1>1, <1>2
  <2> QED BY <1>1, <2>1, <2>2 DEF EditionInv, WalksWithin
<1>5. SUFFICES ASSUME Undisturbed
               PROVE  Whole(Record, skips, Lo', Top')
  <2>1. Undisturbed' <=> Undisturbed
    BY <1>1 DEF Undisturbed, PostsTellNumbers
  <2>2. Record' = Record
    BY <1>1 DEF Record
  <2> QED BY <1>1, <1>3, <1>4, <1>5, <2>1, <2>2 DEF EditionInv
<1>6. PlacesInOrder(skips, tmpl.rule) /\ tmpl.rule \in Rules /\ Record.tmpl = tmpl
      /\ Whole(Record, skips, Lo, Top)
  <2>1. tmpl.ai \in Dispatched
    BY DEF Dispatched
  <2>2. Whole(Record, skips, Lo, Top)
    BY <1>5 DEF EditionInv
  <2> QED BY <1>5, <2>1, <2>2, EditionInput
<1>7. /\ Lo \in Nat /\ Lo' \in Nat /\ Lo <= Lo'
      /\ Top \in Nat /\ Top' \in Nat /\ Top <= Top'
  <2>1. Lo \in Nat /\ Top \in Nat
    BY Bounds
  <2>2. Lo' \in Nat /\ Lo <= Lo'
    BY <1>1, <1>2 DEF Lo
  <2>3. Top' \in Nat /\ Top <= Top'
    BY <1>1, <1>2 DEF Top
  <2> QED BY <2>1, <2>2, <2>3
<1> DEFINE N == Numbers(Record)
<1>8. Ledger(N, tmpl.rule, tmpl.cursor, tmpl.counter, skips, Lo, Top)
  BY <1>6 DEF Whole
<1> HIDE DEF N
<1>9. Ledger(N, tmpl.rule, tmpl.cursor, tmpl.counter, skips, Lo', Top')
  BY <1>6, <1>7, <1>8, LedgerLater
<1> QED BY <1>6, <1>9 DEF Whole, N

\* A template is created before its rounds.
LEMMA FirstNumbers == ASSUME ShiftsInOrder, TemplateInit PROVE EditionInv
<1>1. PICK r \in Rules, s \in Setups :
        tmpl = [exists |-> TRUE, enabled |-> TRUE, rule |-> r, cursor |-> NextOccurrence(r, 1),
                counter |-> 1, annOn |-> s.annOn, annCounter |-> 1, ai |-> s.ai]
  BY DEF TemplateInit
<1>2. now \in Slots /\ since \in Nat /\ since <= now
  BY TemplateAssumption DEF TemplateInit, Slots
<1>3. WalksWithin
  BY DEF TemplateInit, WalksWithin
<1>4. RowsSound(skips, r) /\ SkipRows(skips)
  BY DEF TemplateInit, RowsSound, SkipRows, Scopes
<1>5. PlacesInOrder(skips, r)
  BY <1>4, OrderOfPlaces
<1>6. Record.tmpl = tmpl /\ LiveOf(Record) = {} /\ Record.jobs = {} /\ Numbers(Record) = {}
  BY DEF TemplateInit, Record, LiveOf, LinkedPosts, Numbers, Mains
<1>7. Ledger({}, r, NoTime, 1, skips, 1, Top)
  <2>1. NumbersRise({}, 1) /\ NumbersPlaced({}, r, skips, Top)
    BY DEF NumbersRise, NumbersPlaced
  <2>2. MissingAreLast({}, r, NoTime, skips, 1)
    BY DEF MissingAreLast
  <2>3. PassedAreMade({}, r, NoTime, skips, 1)
    BY <1>5 DEF PassedAreMade, PlacesInOrder, Slots, NoTime
  <2>4. CursorPlaced(r, NoTime, skips)
    BY DEF CursorPlaced
  <2> QED BY <2>1, <2>2, <2>3, <2>4 DEF Ledger
<1>8. Ledger({}, r, NextOccurrence(r, 1), 1, skips, 1, Top) /\ NotPast(r, NextOccurrence(r, 1), skips)
  BY <1>5, <1>7, LedgerSet
<1>9. Backed(Record) /\ RolesTold(Record)
  BY <1>6 DEF Backed, RolesTold
<1>10. Lo = 1
  BY <1>1 DEF Lo, TemplateInit
<1>11. Whole(Record, skips, Lo, Top)
  BY <1>1, <1>6, <1>8, <1>9, <1>10 DEF Whole
<1> QED BY <1>1, <1>2, <1>3, <1>4, <1>8, <1>11 DEF EditionInv

LEMMA EditionInvNext ==
  ASSUME ShiftsInOrder
  PROVE  TemplateIInv /\ EditionInv /\ [TemplateNext]_tmplVars => EditionInv'
<1> SUFFICES ASSUME TemplateIInv, EditionInv, [TemplateNext]_tmplVars PROVE EditionInv'
  OBVIOUS
<1>1. CASE TemplateRequest
  BY <1>1, SkipNumbers, ShiftNumbers, RegenerateNumbers, HorizonNumbers DEF TemplateRequest
<1>2. CASE TemplateEdit
  <2>1. tmpl.rule \in Rules /\ tmpl.enabled \in BOOLEAN
    BY DEF TemplateIInv, RoundsSound, RecordShape, TemplateRow, Record
  <2> QED BY <1>2, <2>1, EditNumbers, DropNumbers, ByHandNumbers DEF TemplateEdit
<1>3. CASE \E w \in TPollers : Walk(w) \/ WalkFails(w)
  BY <1>3, WalkNumbers, WalkerNumbers DEF Walk
<1>4. CASE \E j \in tjobs : CompleteTemplateJob(j) \/ LoseTemplateJob(j)
  BY <1>4, CompleteNumbers, ByHandNumbers
<1>5. CASE \E p \in tposts : PublishTemplatePost(p)
  BY <1>5, PublishNumbers
<1>6. CASE TimePasses
  BY <1>6, TimeNumbers
<1>7. CASE UNCHANGED tmplVars
  BY <1>7 DEF tmplVars, EditionInv, Undisturbed, PostsTellNumbers, Record, Lo, Top, WalksWithin
<1> QED BY <1>1, <1>2, <1>3, <1>4, <1>5, <1>6, <1>7 DEF TemplateNext

LEMMA EditionInvHolds == ASSUME ShiftsInOrder PROVE TemplateSpec => []EditionInv
<1>1. TemplateInit => EditionInv
  BY FirstNumbers
<1>2. TemplateIInv /\ EditionInv /\ [TemplateNext]_tmplVars => EditionInv'
  BY EditionInvNext
<1> QED BY <1>1, <1>2, TemplateInductive, PTL DEF TemplateSpec

\* No two main posts or jobs of a template that is undisturbed have the same edition
\* number, and counter_next is above all of them, whatever is skipped, shifted and
\* regenerated between the polls.
THEOREM NumbersAreKept ==
  ASSUME ShiftsInOrder
  PROVE  TemplateSpec => []EditionsKept
<1>1. TemplateIInv /\ EditionInv => EditionsKept
  <2> SUFFICES ASSUME TemplateIInv, EditionInv, Undisturbed
               PROVE  /\ \A e, f \in Editions : e.ctr = f.ctr => e = f
                      /\ \A e \in Editions : e.ctr < tmpl.counter
    BY DEF EditionsKept
  <2>1. NumbersRise(Numbers(Record), tmpl.counter)
    BY DEF EditionInv, Whole, Ledger, Record
  <2>2. Editions = Mains(Record) /\ Mains(Record) \subseteq LiveOf(Record)
    BY DEF Editions, Mains, LiveOf, Record
  <2>3. ASSUME NEW e \in Editions
        PROVE  <<e.occ, e.ctr>> \in Numbers(Record) /\ e.occ \in Nat /\ e.ctr \in Nat
               /\ e.ctr < tmpl.counter /\ e \in LiveOf(Record) /\ e.role = "main"
    <3>1. <<e.occ, e.ctr>> \in Numbers(Record) /\ e \in LiveOf(Record) /\ e.role = "main"
      BY <2>2 DEF Numbers, Mains
    <3> QED BY <2>1, <3>1 DEF NumbersRise, Slots
  <2>4. ASSUME NEW e \in Editions, NEW f \in Editions, e.ctr = f.ctr
        PROVE  e = f
    <3> DEFINE x == <<e.occ, e.ctr>>
               y == <<f.occ, f.ctr>>
    <3>1. /\ x \in Numbers(Record) /\ y \in Numbers(Record) /\ x[1] \in Nat /\ y[1] \in Nat
          /\ x[2] = y[2] /\ x[2] \in Nat /\ x[1] = e.occ /\ y[1] = f.occ
      BY <2>3, <2>4
    <3> HIDE DEF x, y
    <3>2. e.occ = f.occ
      BY <2>1, <3>1 DEF NumbersRise
    <3> QED BY <2>3, <3>2, RecordOf DEF OnePerRole
  <2> QED BY <2>3, <2>4
<1> QED BY <1>1, TemplateInductive, EditionInvHolds, PTL

\* No round of an undisturbed template is passed over: what the cursor has walked by
\* since it was last set is skipped, or has its main post or job, at its own slot or at
\* the one it was shifted to.
THEOREM NoRoundIsPassed ==
  ASSUME ShiftsInOrder
  PROVE  TemplateSpec => []RoundsAccounted
<1>1. TemplateIInv /\ EditionInv => RoundsAccounted
  <2> SUFFICES ASSUME TemplateIInv, EditionInv, Undisturbed, tmpl.enabled,
                      NEW occ \in tmpl.rule, since < occ, occ < tmpl.cursor
               PROVE  \/ ~Free(skips, occ)
                      \/ Has(Record, occ, "main")
                      \/ skips[occ].shift # NoTime /\ Has(Record, skips[occ].shift, "main")
    BY DEF RoundsAccounted, Free
  <2>1. /\ PassedAreMade(Numbers(Record), tmpl.rule, tmpl.cursor, skips, since)
        /\ NotPast(tmpl.rule, tmpl.cursor, skips)
    BY DEF EditionInv, Whole, Ledger, Record, Lo
  <2>2. PlaceOf(skips, occ) # tmpl.cursor
    <3>1. occ \in Nat /\ tmpl.cursor \in Nat
      BY RecordOf, TemplateAssumption DEF Slots
    <3> QED BY <2>1, <3>1 DEF NotPast
  <2>3. HasRound(Numbers(Record), skips, occ)
    BY <2>1, <2>2 DEF PassedAreMade
  <2>4. Free(skips, occ) => Has(Record, PlaceOf(skips, occ), "main")
    BY <2>3, HasNumber DEF HasRound
  <2> QED BY <2>4 DEF PlaceOf
<1> QED BY <1>1, TemplateInductive, EditionInvHolds, PTL
=============================================================================
