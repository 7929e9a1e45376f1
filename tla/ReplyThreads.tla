---------------------------- MODULE ReplyThreads ----------------------------
(***************************************************************************)
(* The replies below a published post, read live from its instance         *)
(* (src/api/post_thread.go, src/internal/provider/mastodon_thread.go)      *)
(* behind a cache of half a minute whose misses share one call             *)
(* (src/api/post_thread_cache.go, x/sync/singleflight).                    *)
(*                                                                         *)
(* A thread is the sequence of the visibilities of its replies, oldest     *)
(* first; the place in it names the reply.                                 *)
(***************************************************************************)
EXTENDS Integers, Sequences, FiniteSets

CONSTANTS Viewers,             \* requests in flight
          Threads,             \* published targets: team, post and account
          threadCacheTTL,      \* ticks a result is kept (30 seconds)
          threadCacheMaxKeys,  \* results kept (256)
          maxThreadReplies,    \* replies returned (200)
          MaxReplies,          \* bound: replies a thread gets
          LastTick             \* bound: the clock

ASSUME ThreadsAssumption ==
    /\ threadCacheTTL \in Nat \ {0} /\ threadCacheMaxKeys \in Nat \ {0}
    /\ maxThreadReplies \in Nat \ {0} /\ MaxReplies \in Nat /\ LastTick \in Nat

VARIABLES instant,
          thread,    \* thread[k]: the replies at the instance
          entries,   \* entries[k]: the cached result
          upstream,  \* upstream[k]: the calls to the instance under way
          reader     \* reader[r]: the request
threadVars == <<instant, thread, entries, upstream, reader>>

(* Public, unlisted and followers-only replies are shown to the team.      *)
Visibilities == {"visible", "direct"}
threadVisible(v) == v = "visible"

NoResult == [at |-> -1, replies |-> {}, truncated |-> FALSE, upto |-> 0]
NoReader == [pc |-> "idle", key |-> CHOOSE k \in Threads : TRUE, asked |-> 0,
             answer |-> NoResult]

ThreadsInit ==
    /\ instant = 0
    /\ thread = [k \in Threads |-> <<>>]
    /\ entries = [k \in Threads |-> NoResult]
    /\ upstream = [k \in Threads |-> 0]
    /\ reader = [r \in Viewers |-> NoReader]

(* The descendants are read in order; the reading stops at the status that *)
(* follows the last one returned, whatever that status is.                 *)
decodeThreadContext(statuses) ==
    LET Seen(n)  == {i \in 1 .. n : threadVisible(statuses[i])}
        read     == {n \in 0 .. Len(statuses) :
                       n > 0 => Cardinality(Seen(n - 1)) < maxThreadReplies}
        last     == CHOOSE n \in read : \A m \in read : m <= n
    IN  [at        |-> instant,
         replies   |-> Seen(last),
         truncated |-> last < Len(statuses),
         upto      |-> Len(statuses)]

Expired(e) == e = NoResult \/ instant - e.at >= threadCacheTTL
(* lookup drops what it finds expired.                                     *)
lookup(k)   == [hit |-> ~ Expired(entries[k]), entry |-> entries[k]]
Blind(k)    == [hit |-> FALSE, entry |-> entries[k]]
(* The lookup of the call that starts a shared fetch.                      *)
LookupAgain(k) == lookup(k)
Swept(k)    == IF Expired(entries[k]) THEN [entries EXCEPT ![k] = NoResult] ELSE entries

store(k, e) ==
    LET held  == {j \in Threads : entries[j] # NoResult}
        alive == IF Cardinality(held) >= threadCacheMaxKeys
                 THEN {j \in held : ~ Expired(entries[j])} ELSE held
        kept  == IF Cardinality(alive) >= threadCacheMaxKeys THEN {} ELSE alive
    IN  [j \in Threads |-> IF j = k THEN e ELSE IF j \in kept THEN entries[j] ELSE NoResult]

Serve(r, e)  == reader' = [reader EXCEPT ![r].pc = "served", ![r].answer = e]

(* handlePostThread loads the post, its published target and the account   *)
(* of the team, and refuses what is not there, before it asks the cache.   *)
handlePostThread(r, k, authorized) ==
    /\ reader[r].pc \in {"idle", "served", "refused"}
    /\ reader' = [reader EXCEPT ![r] =
         [NoReader EXCEPT !.key = k, !.asked = instant,
                          !.pc = IF authorized THEN "asking" ELSE "refused"]]
    /\ UNCHANGED <<instant, thread, entries, upstream>>

getCached(r) ==
    LET k == reader[r].key
    IN  /\ reader[r].pc = "asking"
        /\ IF lookup(k).hit THEN Serve(r, lookup(k).entry)
           ELSE reader' = [reader EXCEPT ![r].pc = "missed"]
        /\ entries' = Swept(k)
        /\ UNCHANGED <<instant, thread, upstream>>

(* group.Do: a call under way is joined; otherwise this request looks      *)
(* again and only then starts one.                                         *)
getShared(r) ==
    LET k == reader[r].key
    IN  /\ reader[r].pc = "missed"
        /\ \/ /\ upstream[k] > 0
              /\ reader' = [reader EXCEPT ![r].pc = "waiting"]
              /\ UNCHANGED <<entries, upstream>>
           \/ /\ upstream[k] = 0 /\ LookupAgain(k).hit
              /\ Serve(r, LookupAgain(k).entry) /\ entries' = Swept(k)
              /\ UNCHANGED upstream
           \/ /\ upstream[k] = 0 /\ ~ LookupAgain(k).hit
              /\ reader' = [reader EXCEPT ![r].pc = "waiting"]
              /\ entries' = Swept(k)
              /\ upstream' = [upstream EXCEPT ![k] = 1]
        /\ UNCHANGED <<instant, thread>>

Answer(k, pc, e) ==
    /\ upstream[k] > 0 /\ upstream' = [upstream EXCEPT ![k] = 0]
    /\ reader' = [r \in Viewers |->
                    IF reader[r].pc = "waiting" /\ reader[r].key = k
                    THEN [reader[r] EXCEPT !.pc = pc, !.answer = e] ELSE reader[r]]

(* The shared call answers every request that waits for it.                *)
GetThread(k) ==
    LET e == decodeThreadContext(thread[k])
    IN  /\ Answer(k, "served", e)
        /\ entries' = store(k, e)
        /\ UNCHANGED <<instant, thread>>

(* An error answers all and is not kept.                                   *)
GetThreadFails(k) ==
    /\ Answer(k, "refused", NoResult)
    /\ UNCHANGED <<instant, thread, entries>>

ReplyArrives(k, v) ==
    /\ Len(thread[k]) < MaxReplies
    /\ thread' = [thread EXCEPT ![k] = Append(@, v)]
    /\ UNCHANGED <<instant, entries, upstream, reader>>

PassTick ==
    /\ instant < LastTick /\ instant' = instant + 1
    /\ UNCHANGED <<thread, entries, upstream, reader>>

ThreadsNext ==
    \/ \E r \in Viewers, k \in Threads, ok \in BOOLEAN : handlePostThread(r, k, ok)
    \/ \E r \in Viewers : getCached(r) \/ getShared(r)
    \/ \E k \in Threads : GetThread(k) \/ GetThreadFails(k)
    \/ \E k \in Threads, v \in Visibilities : ReplyArrives(k, v)
    \/ PassTick

ThreadsSpec == ThreadsInit /\ [][ThreadsNext]_threadVars

(* What a viewer is shown: an answer was fetched less than the time to     *)
(* live before it was asked for; it holds no direct message; it holds      *)
(* every other reply there was when it was fetched or says that it does    *)
(* not.  The instance is asked for no thread the cache holds an answer to, *)
(* and the cache never outgrows its bound.                                 *)
ThreadsTrue ==
    /\ \A r \in Viewers : reader[r].pc = "served" =>
         LET a     == reader[r].answer
             there == {j \in 1 .. a.upto : thread[reader[r].key][j] = "visible"}
         IN  /\ a.at > reader[r].asked - threadCacheTTL
             /\ a.replies \subseteq there
             /\ ~ a.truncated => a.replies = there
    /\ \A k \in Threads : upstream[k] > 0 => Expired(entries[k])
    /\ Cardinality({k \in Threads : entries[k] # NoResult}) <= threadCacheMaxKeys
=============================================================================
