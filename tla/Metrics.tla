------------------------------ MODULE Metrics ------------------------------
(* Engagement and follower numbers: the loops and admin triggers that read    *)
(* them from the providers, the tables they fill and the reports that add the *)
(* tables up. A post target and an account are both an item; a post target    *)
(* carries a cursor (metrics_last_sync_at), an account does not.              *)
EXTENDS Integers, FiniteSets, FiniteSetsExt, Functions

CONSTANTS
  Published,    \* post targets <<post, account>>
  Followed,     \* accounts with follower numbers, as <<account>>
  Rounds,       \* who holds the mutex to run a round: the ticker loop and the admin trigger
  SyncLimit,    \* rows one round of fetchMetricsJob takes (500)
  RecentAge,    \* a post is recent for 72 hours
  RecentGap,    \* a recent one is read again after 10 minutes
  OlderGap,     \* an older one after 2 hours
  Window,       \* 30 days: older posts are not read again
  DayLength,    \* ticks of a UTC day
  MaxTick, MaxCount

ASSUME MetricsAssumption ==
  /\ SyncLimit \in Nat \ {0} /\ DayLength \in Nat \ {0} /\ MaxTick \in Nat \ {0}
  /\ RecentGap <= OlderGap /\ RecentAge <= Window
  /\ Rounds \cap {"free", "direct", "none"} = {}

VARIABLES
  job,       \* "posts" or "accounts": the two jobs share no state, a behaviour follows one
  tick,      \* time.Now()
  post,      \* per post, scheduled_at and when its status became posted (updated_at; 0: not yet)
  sent,      \* the targets with status posted and an address to read
  live,      \* per item, the number the provider shows
  row,       \* post_metrics and account_metrics: per item the value; ghost: when, by whom and for which day it was read
  past,      \* the history tables: per item and day, the value recorded last
  cursor,    \* metrics_last_sync_at per target (0: null)
  holder,    \* postMetricsMu or accountMetricsMu
  sync,      \* the jobs under way
  overtaken  \* ghost: items whose row an older reading replaced although both rounds held the mutex

metricVars == <<job, tick, post, sent, live, row, past, cursor, holder, sync, overtaken>>

Items == IF job = "posts" THEN Published ELSE Followed
Days == 0..(MaxTick \div DayLength)
Posts == {t[1]: t \in Published}
\* Outside the mutex: the round runAccountMetricsLoop opens with, and the
\* publisher's and the import's reading of a new post.
Direct == "direct"
MetricReaders == Rounds \cup {Direct}
NoSync == [stage |-> "idle"]
NoRow == [value |-> 0, read |-> 0, by |-> "none", day |-> 0]
Today == tick \div DayLength

MetricsInit ==
  /\ tick = 1 /\ job \in {"posts", "accounts"}
  /\ post = [p \in Posts |-> [scheduled |-> 0, posted |-> 0]] /\ sent = {}
  /\ live = [i \in Items |-> 0]
  /\ row = [i \in Items |-> NoRow]
  /\ past = [i \in Items |-> [d \in Days |-> -1]]
  /\ cursor = [t \in Published |-> 0]
  /\ holder = "free"
  /\ sync = [w \in MetricReaders |-> NoSync] /\ overtaken = {}

(* The world. *)
Pass == tick < MaxTick /\ tick' = tick + 1 /\ UNCHANGED <<job, post, sent, live, row, past, cursor, holder, sync, overtaken>>
Like(i) ==
  /\ live[i] < MaxCount /\ live' = [live EXCEPT ![i] = @ + 1]
  /\ UNCHANGED <<job, tick, post, sent, row, past, cursor, holder, sync, overtaken>>

(* ListPostedTargetsForMetricSync: targets of posted posts, never read, or due *)
(* again by the post's age. A post whose other target failed is not posted.    *)
Posted(t) == t \in sent /\ post[t[1]].posted # 0
PublishedAt(t) == Max({post[t[1]].posted, post[t[1]].scheduled})
Recent(t) == PublishedAt(t) >= tick - RecentAge
DueForSync(t) ==
  /\ Posted(t) /\ PublishedAt(t) >= tick - Window
  /\ \/ cursor[t] = 0
     \/ Recent(t) /\ cursor[t] <= tick - RecentGap
     \/ ~Recent(t) /\ cursor[t] <= tick - OlderGap

\* Never-read targets first, newest first, at most SyncLimit of them.
Before(t, u) == IF (cursor[t] = 0) # (cursor[u] = 0) THEN cursor[t] = 0 ELSE post[t[1]].posted > post[u[1]].posted
Batches(due) ==
  {S \in SUBSET due: /\ Cardinality(S) = Min({SyncLimit, Cardinality(due)})
                     /\ \A t \in S, u \in due \ S: ~Before(u, t)}
ListPostedTargetsForMetricSync == Batches({t \in Published: DueForSync(t)})

(* AdminSyncStatus counts with a copy of those conditions. *)
AdminSyncStatus ==
  LET window == {t \in Published: Posted(t) /\ PublishedAt(t) >= tick - Window}
      recent == {t \in window: PublishedAt(t) >= tick - RecentAge}
  IN [pending |-> Cardinality({t \in window: cursor[t] = 0})
                    + Cardinality({t \in recent: cursor[t] # 0 /\ cursor[t] <= tick - RecentGap})
                    + Cardinality({t \in window \ recent: cursor[t] # 0 /\ cursor[t] <= tick - OlderGap}),
      never |-> Cardinality({t \in window: cursor[t] = 0})]

\* A round between two items; day: the day its readings belong to (-1: the day they are written).
\* accountMetricsJob takes the day once, when it starts; UpsertPostMetrics takes it as it writes.
Between(items, day) == [stage |-> "next", todo |-> items, item |-> "none", value |-> 0, read |-> 0, day |-> day]
Begin(w, items, day) == [sync EXCEPT ![w] = Between(items, day)]

MutexIgnored == TRUE
MutexFree == holder = "free"

DayOfRound == IF job = "posts" THEN -1 ELSE Today

(* A round of fetchMetricsJob or accountMetricsJob: the list is taken once.   *)
StartRound(w) ==
  /\ w \in Rounds /\ sync[w].stage = "idle" /\ MutexFree
  /\ \E items \in IF job = "posts" THEN ListPostedTargetsForMetricSync ELSE {Followed}:
       items # {} /\ sync' = Begin(w, items, DayOfRound)
  /\ holder' = w
  /\ UNCHANGED <<job, tick, post, sent, live, row, past, cursor, overtaken>>

(* runAccountMetricsLoop opens with a round outside the mutex: at the start of *)
(* a process, so nothing else is under way yet, but may begin before it ends.  *)
FirstAccountRound ==
  /\ job = "accounts" /\ \A w \in DOMAIN sync: sync[w] = NoSync
  /\ sync' = Begin(Direct, Followed, DayOfRound)
  /\ UNCHANGED <<job, tick, post, sent, live, row, past, cursor, holder, overtaken>>

(* processPost: a target that went out is read once, outside the mutex, while *)
(* its post is still in work.                                                 *)
PublishTarget(t) ==
  /\ job = "posts" /\ t \notin sent /\ post[t[1]].posted = 0 /\ sync[Direct].stage = "idle"
  /\ sent' = sent \cup {t}
  /\ sync' = Begin(Direct, {t}, -1)
  /\ UNCHANGED <<job, tick, post, live, row, past, cursor, holder, overtaken>>

(* The end of processPost, when no target failed: MarkPostResult. The post was *)
(* due, so scheduled_at lies in the past.                                      *)
PostResult(p, at) ==
  /\ job = "posts" /\ post[p].posted = 0 /\ sync[Direct].stage = "idle"
  /\ \A t \in Published: t[1] = p => t \in sent
  /\ post' = [post EXCEPT ![p] = [scheduled |-> at, posted |-> tick]]
  /\ UNCHANGED <<job, tick, sent, live, row, past, cursor, holder, sync, overtaken>>

(* CreateImportedPost: one target, posted at an earlier time, and its reading  *)
(* of that day, while the rounds may already list it.                          *)
ImportTarget(t, at) ==
  /\ job = "posts" /\ sync[Direct].stage = "idle"
  /\ post[t[1]].posted = 0 /\ \A u \in sent: u[1] # t[1]
  /\ post' = [post EXCEPT ![t[1]] = [scheduled |-> at, posted |-> tick]] /\ sent' = sent \cup {t}
  /\ sync' = Begin(Direct, {t}, at \div DayLength)
  /\ UNCHANGED <<job, tick, live, row, past, cursor, holder, overtaken>>

(* syncOnePostTargetMetrics, accountMetricsJob's body: a reading that fails   *)
(* passes the item over and leaves its cursor alone.                          *)
Reading(w, i) ==
  [stage |-> "write", todo |-> sync[w].todo \ {i}, item |-> i, value |-> live[i], read |-> tick, day |-> sync[w].day]
ReadMetrics(w, i) ==
  /\ sync[w].stage = "next" /\ i \in sync[w].todo
  /\ \/ sync' = [sync EXCEPT ![w] = Reading(w, i)]
     \/ sync' = [sync EXCEPT ![w] = Between(sync[w].todo \ {i}, sync[w].day)]
  /\ UNCHANGED <<job, tick, post, sent, live, row, past, cursor, holder, overtaken>>

Passed(w) == Between(sync[w].todo, sync[w].day)
\* The day of the history row: the start of an account round, the publication of an
\* imported post (recordedAt), else the day of the write.
RecordedDay(w) == IF sync[w].day = -1 THEN Today ELSE sync[w].day

(* UpsertPostMetrics and UpsertAccountMetrics: the row and the day's history  *)
(* in one transaction; a failure is logged and the item passed over.          *)
UpsertMetrics(w) ==
  /\ sync[w].stage = "write"
  /\ LET i == sync[w].item
     IN \/ /\ row' = [row EXCEPT ![i] = [value |-> sync[w].value, read |-> sync[w].read, by |-> w, day |-> RecordedDay(w)]]
           /\ past' = [past EXCEPT ![i][RecordedDay(w)] = sync[w].value]
           /\ overtaken' = overtaken \cup {x \in {i}: row[x].read > sync[w].read /\ {row[x].by, w} \subseteq Rounds}
           /\ sync' = [sync EXCEPT ![w] = IF job = "posts" THEN [@ EXCEPT !.stage = "mark"] ELSE Passed(w)]
        \/ sync' = [sync EXCEPT ![w] = Passed(w)] /\ UNCHANGED <<row, past, overtaken>>
  /\ UNCHANGED <<job, tick, post, sent, live, cursor, holder>>

MarkScheduledPostTargetMetricsSynced(w) ==
  /\ sync[w].stage = "mark"
  /\ cursor' = [cursor EXCEPT ![sync[w].item] = tick]
  /\ sync' = [sync EXCEPT ![w] = Passed(w)]
  /\ UNCHANGED <<job, tick, post, sent, live, row, past, holder, overtaken>>

Unlock(w) == IF w \in Rounds THEN "free" ELSE holder

EndRound(w) ==
  /\ sync[w].stage = "next" /\ sync[w].todo = {}
  /\ sync' = [sync EXCEPT ![w] = NoSync] /\ holder' = Unlock(w)
  /\ UNCHANGED <<job, tick, post, sent, live, row, past, cursor, overtaken>>

(* A process stops: the mutex goes with it. *)
StopMetrics ==
  /\ \E w \in DOMAIN sync: sync[w] # NoSync
  /\ sync' = [w \in DOMAIN sync |-> NoSync] /\ holder' = "free"
  /\ UNCHANGED <<job, tick, post, sent, live, row, past, cursor, overtaken>>

MetricsNext ==
  \/ Pass \/ FirstAccountRound \/ StopMetrics
  \/ \E i \in Items: Like(i)
  \/ \E t \in Published: PublishTarget(t) \/ (\E at \in 1..tick: ImportTarget(t, at))
  \/ \E p \in Posts, at \in 1..tick: PostResult(p, at)
  \/ \E w \in DOMAIN sync:
       \/ StartRound(w) \/ UpsertMetrics(w) \/ MarkScheduledPostTargetMetricsSynced(w) \/ EndRound(w)
       \/ \E i \in Items: ReadMetrics(w, i)

MetricsSpec == MetricsInit /\ [][MetricsNext]_metricVars

(* The reports. All of them count posts with status posted only, whatever rows *)
(* there are; some only posts with scheduled_at >= since (now minus the days    *)
(* asked for), a chart only the days from its cutoff on.                        *)
PostedPosts == {p \in Posts: job = "posts" /\ post[p].posted # 0}
Since(since) == {p \in PostedPosts: post[p].scheduled >= since}
HasRow(t) == row[t] # NoRow
SumOf(f(_), S) == MapThenSumSet(f, S)
\* sum(pm.value) of the rows of some targets.
Engagement(targets) == LET value(t) == row[t].value IN SumOf(value, targets)
RowsOf(posts) == {t \in Published: t[1] \in posts /\ HasRow(t)}

GetTeamAnalytics == Engagement(RowsOf(PostedPosts))
ListTeamPostAnalyticsRanking == [p \in PostedPosts |-> Engagement(RowsOf({p}))]
\* With a provider, posts without a row of its accounts drop out (inner join).
ListTeamPostEngagement(since) == [p \in Since(since) |-> Engagement(RowsOf({p}))]
ProviderPostEngagement(since, accounts) ==
  LET rows(p) == {t \in RowsOf({p}): t[2] \in accounts}
  IN [p \in {q \in Since(since): rows(q) # {}} |-> Engagement(rows(p))]
GetTeamEngagementHourHistogram(since) ==
  [h \in 0..(DayLength - 1) |-> Engagement({t \in RowsOf(Since(since)): post[t[1]].scheduled % DayLength = h})]
GetTeamEngagementHeatmap(since, accounts) ==
  LET cell(t) == <<post[t[1]].scheduled \div DayLength, post[t[1]].scheduled % DayLength>>
  IN [c \in Days \X (0..(DayLength - 1)) |->
        Engagement({t \in RowsOf(Since(since)): t[2] \in accounts /\ cell(t) = c})]

\* A day's sum over the items read that day.
DaySum(items, d) == LET value(i) == past[i][d] IN SumOf(value, {i \in items: past[i][d] # -1})
HasDay(items, d) == \E i \in items: past[i][d] # -1
\* FillMetricHistory and FillAccountGrowth: a day without rows repeats the day before; days before
\* the cutoff are not read.
Filled(items, days) ==
  [d \in {e \in Days: e > Today - days /\ e <= Today} |->
     LET known == {e \in Days: Today - days <= e /\ e <= d /\ HasDay(items, e)}
     IN IF known = {} THEN 0 ELSE DaySum(items, Max(known))]
GetTeamMetricHistorySeries(days) == Filled({t \in Published: t[1] \in PostedPosts}, days)
GetTeamAccountMetricHistorySeries(days) == Filled(Followed, days)

(* GetTeamAnalyticsReport: the change between the last day and the day before. *)
GetTeamAnalyticsReport ==
  LET items == {t \in Published: t[1] \in PostedPosts}
      known == {d \in Days: HasDay(items, d)}
      last == Max(known)
  IN [total |-> GetTeamAnalytics,
      delta |-> IF known # {} /\ last > 0 /\ HasDay(items, last - 1)
                THEN DaySum(items, last) - DaySum(items, last - 1) ELSE 0]

(* coreGetMetricHistory, coreGetAccountGrowth: growth counts from the first    *)
(* day with a number, the zeros before it are no readings.                     *)
Growth(series) ==
  LET known == {d \in DOMAIN series: series[d] # 0}
      start == IF known = {} THEN series[Min(DOMAIN series)] ELSE series[Min(known)]
  IN [start |-> start, end |-> series[Today], delta |-> series[Today] - start]

\* AggregateTimeslots, without the order of the buckets.
AggregateTimeslots(engagement) ==
  LET posts(h) == {p \in DOMAIN engagement: post[p].scheduled = h}
  IN {[slot |-> h, posts |-> Cardinality(posts(h)),
       total |-> LET value(p) == engagement[p] IN SumOf(value, posts(h))]:
        h \in {post[p].scheduled: p \in DOMAIN engagement}}

(* GetTeamHashtagInsights, with tagged the posts that have rows in              *)
(* post_hashtags: posts with and without a hashtag.                             *)
GetTeamHashtagInsights(since, tagged) ==
  [posts |-> Cardinality(Since(since)), withTags |-> Cardinality(Since(since) \cap tagged),
   with |-> Engagement(RowsOf(Since(since) \cap tagged)),
   without |-> Engagement(RowsOf(Since(since) \ tagged))]

SumOver(f) == LET value(x) == f[x] IN SumOf(value, DOMAIN f)
Outs == {t[2]: t \in Published}
Spans == 1..((MaxTick \div DayLength) + 1)

\* Posts before the window are the difference between the windowed reports and the total.
WindowsAgree(since) ==
  LET total == GetTeamAnalytics - Engagement(RowsOf(PostedPosts \ Since(since)))
      engagement == ListTeamPostEngagement(since)
      slot(s) == s.total
  IN /\ SumOver(engagement) = total /\ SumOver(ProviderPostEngagement(since, Outs)) = total
     /\ SumOver(GetTeamEngagementHourHistogram(since)) = total
     /\ SumOver(GetTeamEngagementHeatmap(since, Outs)) = total
     /\ SumOf(slot, AggregateTimeslots(engagement)) = total
     /\ \A tagged \in SUBSET Posts:
          LET insights == GetTeamHashtagInsights(since, tagged) IN insights.with + insights.without = total

ReportsAgree ==
  /\ SumOver(ListTeamPostAnalyticsRanking) = GetTeamAnalytics
  /\ PostedPosts # {} => \A since \in 0..tick: WindowsAgree(since)
  /\ LET read == RowsOf(PostedPosts)
     IN read # {} /\ (\A t \in read: row[t].by # Direct /\ row[t].day = Today) =>
          \A days \in Spans:
            /\ GetTeamMetricHistorySeries(days)[Today] = GetTeamAnalytics
            /\ Today > 0 /\ (\E t \in read: past[t][Today - 1] # -1) =>
                 GetTeamAnalyticsReport.delta = GetTeamAnalytics - GetTeamMetricHistorySeries(days + 1)[Today - 1]
  /\ job = "accounts" /\ (\A i \in Followed: row[i].by # Direct /\ row[i] # NoRow /\ row[i].day = Today) =>
       \A days \in Spans:
         LET growth == Growth(GetTeamAccountMetricHistorySeries(days))
         IN growth.end = Engagement(Followed) /\ (growth.end > 0 => growth.start > 0)
  /\ (AdminSyncStatus.pending > 0) <=> (\E S \in ListPostedTargetsForMetricSync: S # {})

(* Under the mutexes a reading never gives way to an older one: the tickers   *)
(* and the admin trigger take turns (postMetricsMu, accountMetricsMu), so     *)
(* only the unlocked readings, the round an account loop opens with and the   *)
(* reading of an imported post, can be written late.                          *)
NewestReadingStands == overtaken = {}

(* What a locked round wrote last is also the end of the item's history, over *)
(* midnights, late readings outside the mutex and stops: an unlocked reading  *)
(* may leave the row and the chart apart, until the next locked round writes. *)
ChartsEndAtTheRow ==
  \A i \in Items: row[i].by \in Rounds =>
    /\ past[i][row[i].day] = row[i].value
    /\ \A d \in Days: past[i][d] # -1 => d <= row[i].day

(* And the reports read from the same tables agree: over every window, the     *)
(* ranking, provider, hour, weekday and hashtag buckets add up to what the     *)
(* total counts inside it; the pending count announces exactly the rounds that *)
(* find work; and the charts end at the total on a day on which every item was *)
(* read by a round. (A stop leaves the tables as they are, so every content is *)
(* met at rest.)                                                               *)
NumbersAgree ==
  /\ NewestReadingStands /\ ChartsEndAtTheRow
  /\ (\A w \in DOMAIN sync: sync[w] = NoSync) => ReportsAgree
=============================================================================
