-------------------------- MODULE PostPublication --------------------------
(***************************************************************************)
(* The publication pipeline of goloom: the rows of scheduled_posts and     *)
(* scheduled_post_targets, the scheduler's poll loop, its bounded queue    *)
(* and its workers (internal/scheduler), the requests that change a post   *)
(* while the scheduler works on it (api, internal/store), and the audit    *)
(* outbox that records what was published.                                 *)
(*                                                                         *)
(* Every store call is one step, so that whatever another worker, another  *)
(* replica or a request does between two calls is explored.  A provider    *)
(* call is one step too: it runs outside any transaction and may be        *)
(* accepted although its caller only sees an error.                        *)
(***************************************************************************)
EXTENDS Naturals, Sequences, FiniteSets

CONSTANTS
  Posts,        \* post identifiers; a uuid is never used for a second post
  Accounts,     \* social accounts of the team
  Instances,    \* scheduler replicas sharing the database
  Workers,      \* worker goroutines of all the replicas
  Host,         \* the replica a worker belongs to
  Requests,     \* HTTP goroutines that can have a PATCH in flight
  None,         \* "no post", "no account"
  MaxAttempts,  \* publication attempts of a post (5 in the code)
  QueueCap,     \* capacity of the queue channel (workers*2 in the code)
  DueLimit,     \* posts one poll lists (workers*4 in the code)
  DrainLimit,   \* events one drain delivers (100 in the code)
  Backend,      \* "sqlite" or "postgres"
  Patches,      \* the PATCH bodies the clients send
  Ops,          \* the other requests the clients send
  MaxOps,       \* bound: how many requests the clients send
  Faults        \* what can go wrong around the scheduler

PostStatus   == {"draft", "pending", "processing", "posted", "failed", "cancelled"}
TargetStatus == {"pending", "processing", "posted", "failed"}
Kinds        == {"started", "success", "failure", "uncertain"}

\* The part of domain.UpdatePostPatch that reaches the publication state:
\* at = "now" is publish_now, which also clears draft.
PatchInput ==
  {in \in [draft: {"keep", "draft", "live"}, at: {"keep", "future", "now"},
           content: BOOLEAN, retarget: BOOLEAN, targets: SUBSET Accounts] :
     in.at = "now" => in.draft = "live"}

ASSUME ConstantsAssumption ==
  /\ Host \in [Workers -> Instances] /\ IsFiniteSet(Workers)
  /\ None \notin Posts \cup Accounts
  /\ MaxAttempts \in Nat \ {0}
  /\ QueueCap \in Nat \ {0}
  /\ DueLimit \in Nat \ {0}
  /\ DrainLimit \in Nat \ {0}
  /\ MaxOps \in Nat
  /\ Backend \in {"sqlite", "postgres"}
  /\ Patches \subseteq PatchInput
  /\ Ops \subseteq {"review", "cancel", "delete", "disconnect", "retry", "repair"}
  /\ Faults \subseteq {"db", "provider", "crash"}

VARIABLES
  status,    \* scheduled_posts.status; "new" before the insert, "deleted" after
  attempts,  \* scheduled_posts.attempt_count
  due,       \* scheduled_posts.scheduled_at <= now
  target,    \* scheduled_post_targets.status; "none" where there is no row
  accounts,  \* the rows of social_accounts
  loop,      \* where the poll loop of a replica stands
  dueList,   \* posts ListDuePosts returned that are not marked yet
  queue,     \* the queue channel of a replica
  worker,    \* the local state of processPost
  request,   \* a PATCH between its reads and its write
  outbox,    \* audit_pending
  auditLog,  \* audit_events
  claims,    \* history: publication attempts opened per target
  accepted,  \* history: publications the remote account shows per target
  ops        \* history: requests sent so far

dbVars    == <<status, attempts, due, target, accounts>>
schedVars == <<loop, dueList, queue>>
auditVars == <<outbox, auditLog>>
histVars  == <<claims, accepted>>
vars == <<dbVars, schedVars, worker, request, auditVars, histVars, ops>>

\* The domain.ScheduledPost value a worker is handed: as old as the poll.
Snapshot(p) == [post |-> p, attempts |-> attempts[p],
                targets |-> {a \in Accounts : target[p][a] # "none"}]
Snapshots == [post: Posts, attempts: 0..(MaxAttempts - 1), targets: SUBSET Accounts]

NoJob      == [post |-> None, attempts |-> 0, targets |-> {}]
IdleWorker == [pc |-> "idle", job |-> NoJob, todo |-> {}, cur |-> None, try |-> 0,
               err |-> FALSE, outcome |-> "none"]
NoPatch    == [draft |-> "keep", at |-> "keep", content |-> FALSE,
               retarget |-> FALSE, targets |-> {}]
IdleRequest == [pc |-> "idle", post |-> None, in |-> NoPatch,
                was |-> "new", wasDue |-> FALSE]

Event(p, a, n, k) == [post |-> p, account |-> a, try |-> n, kind |-> k]
Events == [post: Posts, account: Accounts, try: Nat \ {0}, kind: Kinds]

Exists(p) == status[p] \in PostStatus
NoRows    == [a \in Accounts |-> "none"]
PendingRows(S) == [a \in Accounts |-> IF a \in S THEN "pending" ELSE "none"]

\* The local state of a worker: where processPost stands, the post it was handed,
\* the accounts still to publish to, the current one and its attempt_id, whether
\* firstErr is set, and what is known of the current publication.
WorkerStates ==
  [pc: {"idle", "resolve", "load", "claim", "prepare", "publish", "persist",
        "drain", "result"},
   job: Snapshots \cup {NoJob}, todo: SUBSET Accounts, cur: Accounts \cup {None},
   try: Nat, err: BOOLEAN, outcome: {"none", "posted", "failed", "unknown"}]

RequestStates ==
  [pc: {"idle", "checked", "read"}, post: Posts \cup {None}, in: PatchInput,
   was: PostStatus \cup {"new", "deleted"}, wasDue: BOOLEAN]

\* What a local state is made of while its goroutine is at work.
WorkerShape(s) ==
  /\ s.pc # "idle" => s.job \in Snapshots
  /\ s.pc \in {"prepare", "publish", "persist", "drain"} => s.cur \in Accounts /\ s.try > 0
  /\ s.pc \in {"persist", "drain"} => s.outcome # "none"

RequestShape(s) ==
  s.pc # "idle" => /\ s.post \in Posts /\ s.in \in Patches
                   /\ s.pc = "read" => s.was \in PostStatus

TypeOK ==
  /\ status \in [Posts -> PostStatus \cup {"new", "deleted"}]
  /\ attempts \in [Posts -> 0..MaxAttempts]
  /\ due \in [Posts -> BOOLEAN]
  /\ target \in [Posts -> [Accounts -> TargetStatus \cup {"none"}]]
  /\ accounts \in SUBSET Accounts
  /\ loop \in [Instances -> {"drain", "list", "mark", "send"}]
  /\ dueList \in [Instances -> Seq(Snapshots)]
  /\ queue \in [Instances -> Seq(Snapshots)]
  /\ worker \in [Workers -> WorkerStates]
  /\ request \in [Requests -> RequestStates]
  /\ outbox \in SUBSET Events
  /\ auditLog \in SUBSET Events
  /\ claims \in [Posts -> [Accounts -> Nat]]
  /\ accepted \in [Posts -> [Accounts -> Nat]]
  /\ ops \in Nat

ShapeOK ==
  /\ \A w \in Workers : WorkerShape(worker[w])
  /\ \A i \in Instances : loop[i] \in {"mark", "send"} => dueList[i] # <<>>
  /\ \A r \in Requests : RequestShape(request[r])

Init ==
  /\ status = [p \in Posts |-> "new"]
  /\ attempts = [p \in Posts |-> 0]
  /\ due = [p \in Posts |-> FALSE]
  /\ target = [p \in Posts |-> NoRows]
  /\ accounts = Accounts
  /\ loop = [i \in Instances |-> "drain"]
  /\ dueList = [i \in Instances |-> <<>>]
  /\ queue = [i \in Instances |-> <<>>]
  /\ worker = [w \in Workers |-> IdleWorker]
  /\ request = [r \in Requests |-> IdleRequest]
  /\ outbox = {}
  /\ auditLog = {}
  /\ claims = [p \in Posts |-> [a \in Accounts |-> 0]]
  /\ accepted = [p \in Posts |-> [a \in Accounts |-> 0]]
  /\ ops = 0
-----------------------------------------------------------------------------
(* The audit outbox.                                                       *)

\* One transaction moves a batch from audit_pending to
\* audit_events; on an error nothing moves and the caller only logs it.
Batches == IF Cardinality(outbox) <= DrainLimit THEN {outbox}
           ELSE {b \in SUBSET outbox : Cardinality(b) = DrainLimit}

\* Mutant: the delivered rows are not deleted from audit_pending.
DrainKeepsPending ==
  \E batch \in Batches : outbox' = outbox /\ auditLog' = auditLog \cup batch

DrainAuditEvents ==
  \/ \E batch \in Batches :
       /\ outbox' = outbox \ batch
       /\ auditLog' = auditLog \cup batch
  \/ /\ "db" \in Faults
     /\ UNCHANGED auditVars
-----------------------------------------------------------------------------
(* The poll loop of a replica (Start, enqueueDuePosts).                    *)

IsDue(p) == /\ status[p] \in {"pending", "failed"}
            /\ due[p]
            /\ attempts[p] < MaxAttempts

\* Every way to list the due posts up to the limit: the code orders by
\* scheduled_at, of which the model keeps only whether it has passed.
DueLists ==
  LET D == {p \in Posts : IsDue(p)} IN
  {s \in UNION {[1..n -> D] : n \in 0..DueLimit} :
     /\ \A j, k \in DOMAIN s : s[j] = s[k] => j = k
     /\ Len(s) = DueLimit \/ \A p \in D : \E j \in DOMAIN s : s[j] = p}

\* Mutant: only the workers drain the outbox.
LoopWithoutDrain(i) ==
  /\ loop[i] = "drain"
  /\ loop' = [loop EXCEPT ![i] = "list"]
  /\ UNCHANGED <<dbVars, dueList, queue, worker, request, auditVars, histVars, ops>>

LoopDrain(i) ==
  /\ loop[i] = "drain"
  /\ DrainAuditEvents
  /\ loop' = [loop EXCEPT ![i] = "list"]
  /\ UNCHANGED <<dbVars, dueList, queue, worker, request, histVars, ops>>

ListDuePosts(i) ==
  /\ loop[i] = "list"
  /\ \/ \E s \in DueLists :
          /\ dueList' = [dueList EXCEPT ![i] = [j \in DOMAIN s |-> Snapshot(s[j])]]
          /\ loop' = [loop EXCEPT ![i] = IF s = <<>> THEN "drain" ELSE "mark"]
     \/ /\ "db" \in Faults
        /\ loop' = [loop EXCEPT ![i] = "drain"]
        /\ UNCHANGED dueList
  /\ UNCHANGED <<dbVars, queue, worker, request, auditVars, histVars, ops>>

\* After one listed post is dealt with: the next one, or the next tick.
NextListed(i) ==
  /\ dueList' = [dueList EXCEPT ![i] = Tail(@)]
  /\ loop' = [loop EXCEPT ![i] = IF Len(dueList[i]) = 1 THEN "drain" ELSE "mark"]

\* The guarded UPDATE: only the status is rechecked, not scheduled_at.
MarkPostProcessing(p) ==
  /\ status[p] \in {"pending", "failed"}
  /\ status' = [status EXCEPT ![p] = "processing"]

MarkListed(i) ==
  /\ loop[i] = "mark"
  /\ LET p == Head(dueList[i]).post IN
     \/ /\ MarkPostProcessing(p)
        /\ loop' = [loop EXCEPT ![i] = "send"]
        /\ UNCHANGED dueList
     \/ /\ status[p] \notin {"pending", "failed"} \/ "db" \in Faults
        /\ NextListed(i)
        /\ UNCHANGED status
  /\ UNCHANGED <<attempts, due, target, accounts, queue, worker, request,
                 auditVars, histVars, ops>>

\* Mutant: a full channel drops the post.
EnqueueOrDrop(i) ==
  /\ loop[i] = "send"
  /\ queue' = IF Len(queue[i]) < QueueCap
              THEN [queue EXCEPT ![i] = Append(@, Head(dueList[i]))] ELSE queue
  /\ NextListed(i)
  /\ UNCHANGED <<dbVars, worker, request, auditVars, histVars, ops>>

\* queue <- post: blocks while the channel is full.
Enqueue(i) ==
  /\ loop[i] = "send"
  /\ Len(queue[i]) < QueueCap
  /\ queue' = [queue EXCEPT ![i] = Append(@, Head(dueList[i]))]
  /\ NextListed(i)
  /\ UNCHANGED <<dbVars, worker, request, auditVars, histVars, ops>>
-----------------------------------------------------------------------------
(* A worker (processPost).                                                 *)

Goto(w, state) == worker' = [worker EXCEPT ![w] = state]

Dequeue(w) ==
  LET i == Host[w] IN
  /\ worker[w].pc = "idle"
  /\ queue[i] # <<>>
  /\ Goto(w, [IdleWorker EXCEPT !.pc = "resolve", !.job = Head(queue[i])])
  /\ queue' = [queue EXCEPT ![i] = Tail(@)]
  /\ UNCHANGED <<dbVars, loop, dueList, request, auditVars, histVars, ops>>

\* ResolveTargets looks up the accounts of the snapshot.
ResolveTargets(w) ==
  /\ worker[w].pc = "resolve"
  /\ \/ /\ worker[w].job.targets \subseteq accounts
        /\ Goto(w, [worker[w] EXCEPT !.pc = "load"])
     \/ /\ ~(worker[w].job.targets \subseteq accounts) \/ "db" \in Faults
        /\ Goto(w, [worker[w] EXCEPT !.pc = "result", !.err = TRUE])
  /\ UNCHANGED <<dbVars, schedVars, request, auditVars, histVars, ops>>

\* LoadPostTargets reads the rows as they are now, without the posted ones.
LoadPostTargets(w) ==
  LET p == worker[w].job.post
      rows == {a \in Accounts : target[p][a] \notin {"none", "posted"}}
  IN
  /\ worker[w].pc = "load"
  /\ \/ Goto(w, [worker[w] EXCEPT !.pc = IF rows = {} THEN "result" ELSE "claim",
                                  !.todo = rows])
     \/ /\ "db" \in Faults
        /\ Goto(w, [worker[w] EXCEPT !.pc = "result", !.err = TRUE])
  /\ UNCHANGED <<dbVars, schedVars, request, auditVars, histVars, ops>>

\* Mutant: a target whose outcome is unknown can be claimed again.
ClaimableIfNotPosted(p, a) == target[p][a] \in {"pending", "failed", "processing"}

\* The statuses ClaimPostTargetPublication accepts.
Claimable(p, a) == target[p][a] \in {"pending", "failed"}

\* One transaction claims the target and records publish_started.
ClaimTarget(w) ==
  LET p == worker[w].job.post IN
  /\ worker[w].pc = "claim"
  /\ \E a \in worker[w].todo :
       \/ /\ Claimable(p, a)
          /\ target' = [target EXCEPT ![p][a] = "processing"]
          /\ claims' = [claims EXCEPT ![p][a] = @ + 1]
          /\ outbox' = outbox \cup {Event(p, a, claims[p][a] + 1, "started")}
          /\ Goto(w, [worker[w] EXCEPT !.pc = "prepare", !.cur = a,
                                      !.try = claims[p][a] + 1])
       \/ /\ ~Claimable(p, a)
          /\ Goto(w, IdleWorker)
          /\ UNCHANGED <<target, claims, outbox>>
       \/ /\ "db" \in Faults
          /\ Goto(w, [worker[w] EXCEPT !.pc = "result", !.err = TRUE])
          /\ UNCHANGED <<target, claims, outbox>>
  /\ UNCHANGED <<status, attempts, due, accounts, schedVars, request, auditLog,
                 accepted, ops>>

\* Provider lookup, token refresh, decryption, media upload.
PreparePublish(w) ==
  /\ worker[w].pc = "prepare"
  /\ \/ Goto(w, [worker[w] EXCEPT !.pc = "publish"])
     \/ /\ "provider" \in Faults
        /\ Goto(w, [worker[w] EXCEPT !.pc = "persist", !.outcome = "failed"])
  /\ UNCHANGED <<dbVars, schedVars, request, auditVars, histVars, ops>>

\* What the worker learns from Publish, and what the remote account shows.
PublishResults ==
  {[outcome |-> "posted", shown |-> 1]} \cup
  IF "provider" \in Faults
  THEN {[outcome |-> "failed",  shown |-> 0],    \* rejected or rate limited
        [outcome |-> "unknown", shown |-> 0],    \* the request was lost
        [outcome |-> "unknown", shown |-> 1]}    \* the answer was lost
  ELSE {}

Publish(w) ==
  LET p == worker[w].job.post
      a == worker[w].cur
  IN
  /\ worker[w].pc = "publish"
  /\ \E r \in PublishResults :
       /\ accepted' = [accepted EXCEPT ![p][a] = @ + r.shown]
       /\ Goto(w, [worker[w] EXCEPT !.pc = "persist", !.outcome = r.outcome])
  /\ UNCHANGED <<dbVars, schedVars, request, auditVars, claims, ops>>

OutcomeStatus == [posted |-> "posted", failed |-> "failed", unknown |-> "processing"]
OutcomeKind   == [posted |-> "success", failed |-> "failure", unknown |-> "uncertain"]

\* Mutant: the outcome is saved without its event.
PersistWithoutEvent(w) ==
  LET p == worker[w].job.post
      a == worker[w].cur
  IN
  /\ worker[w].pc = "persist"
  /\ target' = [target EXCEPT ![p][a] =
                   IF @ = "none" THEN @ ELSE OutcomeStatus[worker[w].outcome]]
  /\ Goto(w, [worker[w] EXCEPT !.pc = "drain"])
  /\ UNCHANGED <<status, attempts, due, accounts, schedVars, request, auditVars,
                 histVars, ops>>

\* Mutant: after a commit whose answer got lost the outcome is recorded again,
\* as uncertain.
PersistAgain(w) ==
  LET p == worker[w].job.post
      a == worker[w].cur
      o == worker[w].outcome
  IN
  /\ worker[w].pc = "persist"
  /\ target' = [target EXCEPT ![p][a] = IF @ = "none" THEN @ ELSE OutcomeStatus[o]]
  /\ outbox' = outbox \cup {Event(p, a, worker[w].try, OutcomeKind[o])}
  /\ \/ Goto(w, [worker[w] EXCEPT !.pc = "drain"])
     \/ "db" \in Faults /\ Goto(w, [worker[w] EXCEPT !.outcome = "unknown"])
  /\ UNCHANGED <<status, attempts, due, accounts, schedVars, request, auditLog,
                 histVars, ops>>

\* persistTargetOutcome: the observed result and its event in one transaction.
\* The UPDATE touches no row when the target was removed meanwhile; when the
\* transaction fails the worker gives the post up without touching it.
PersistTargetOutcome(w) ==
  LET p == worker[w].job.post
      a == worker[w].cur
      o == worker[w].outcome
  IN
  /\ worker[w].pc = "persist"
  /\ \/ /\ target' = [target EXCEPT ![p][a] =
                        IF @ = "none" THEN @ ELSE OutcomeStatus[o]]
        /\ outbox' = outbox \cup {Event(p, a, worker[w].try, OutcomeKind[o])}
        /\ Goto(w, [worker[w] EXCEPT !.pc = "drain"])
     \/ /\ "db" \in Faults
        /\ Goto(w, IdleWorker)
        /\ UNCHANGED <<target, outbox>>
  /\ UNCHANGED <<status, attempts, due, accounts, schedVars, request, auditLog,
                 histVars, ops>>

\* Mutant: firstErr is not set when a target fails.
DrainForgetsError(w) ==
  LET rest == worker[w].todo \ {worker[w].cur} IN
  /\ worker[w].pc = "drain"
  /\ DrainAuditEvents
  /\ IF worker[w].outcome = "unknown"
     THEN Goto(w, IdleWorker)
     ELSE Goto(w, [worker[w] EXCEPT
                     !.pc = IF rest = {} THEN "result" ELSE "claim",
                     !.todo = rest, !.cur = None, !.try = 0, !.outcome = "none"])
  /\ UNCHANGED <<dbVars, schedVars, request, histVars, ops>>

\* The drain that ends persistTargetOutcome, then the next target: an unknown
\* outcome ends the work on the post, a failure is remembered in firstErr.
WorkerDrain(w) ==
  LET rest == worker[w].todo \ {worker[w].cur} IN
  /\ worker[w].pc = "drain"
  /\ DrainAuditEvents
  /\ IF worker[w].outcome = "unknown"
     THEN Goto(w, IdleWorker)
     ELSE Goto(w, [worker[w] EXCEPT
                     !.pc = IF rest = {} THEN "result" ELSE "claim",
                     !.todo = rest, !.cur = None, !.try = 0, !.outcome = "none",
                     !.err = @ \/ worker[w].outcome = "failed"])
  /\ UNCHANGED <<dbVars, schedVars, request, histVars, ops>>

\* Mutant: a retry does not count as an attempt.
MarkPostResultFree(p, n, ok) ==
  IF ~Exists(p) THEN UNCHANGED <<status, attempts, due>>
  ELSE /\ status' = [status EXCEPT ![p] = IF ok THEN "posted" ELSE "failed"]
       /\ due' = [due EXCEPT ![p] = IF ~ok /\ n < MaxAttempts THEN FALSE ELSE @]
       /\ UNCHANGED attempts

\* MarkPostResult writes unconditionally, with the attempt number counted from
\* the snapshot (the poll only lists posts with attempts left).  A failure with
\* attempts left moves scheduled_at ahead (failPost).
MarkPostResult(p, n, ok) ==
  IF ~Exists(p) THEN UNCHANGED <<status, attempts, due>>
  ELSE /\ status' = [status EXCEPT ![p] = IF ok THEN "posted" ELSE "failed"]
       /\ attempts' = [attempts EXCEPT ![p] = n]
       /\ due' = [due EXCEPT ![p] = IF ~ok /\ n < MaxAttempts THEN FALSE ELSE @]

WriteResult(w) ==
  /\ worker[w].pc = "result"
  /\ \/ MarkPostResult(worker[w].job.post, worker[w].job.attempts + 1, ~worker[w].err)
     \/ /\ "db" \in Faults
        /\ UNCHANGED <<status, attempts, due>>
  /\ Goto(w, IdleWorker)
  /\ UNCHANGED <<target, accounts, schedVars, request, auditVars, histVars, ops>>

WorkerStep(w) ==
  \/ Dequeue(w) \/ ResolveTargets(w) \/ LoadPostTargets(w) \/ ClaimTarget(w)
  \/ PreparePublish(w) \/ Publish(w) \/ PersistTargetOutcome(w)
  \/ WorkerDrain(w) \/ WriteResult(w)

\* The process stops at any point: the poll list, the queue and the workers'
\* state are memory, nothing rereads the rows they had marked.
Crash(i) ==
  /\ "crash" \in Faults
  /\ loop' = [loop EXCEPT ![i] = "drain"]
  /\ dueList' = [dueList EXCEPT ![i] = <<>>]
  /\ queue' = [queue EXCEPT ![i] = <<>>]
  /\ worker' = [w \in Workers |-> IF Host[w] = i THEN IdleWorker ELSE worker[w]]
  /\ UNCHANGED <<dbVars, request, auditVars, histVars, ops>>
-----------------------------------------------------------------------------
(* Requests.                                                               *)

\* CreateScheduledPost after Prepare: a scheduled post has a target.
CreatePost(p) ==
  /\ status[p] = "new"
  /\ \E S \in SUBSET accounts, draft \in BOOLEAN, now \in BOOLEAN :
       /\ draft \/ S # {}
       /\ status' = [status EXCEPT ![p] = IF draft THEN "draft" ELSE "pending"]
       /\ due' = [due EXCEPT ![p] = now]
       /\ target' = [target EXCEPT ![p] = PendingRows(S)]
  /\ UNCHANGED <<attempts, accounts, schedVars, worker, request, auditVars,
                 histVars, ops>>

\* scheduled_at passes.
BecomeDue(p) ==
  /\ Exists(p) /\ ~due[p]
  /\ due' = [due EXCEPT ![p] = TRUE]
  /\ UNCHANGED <<status, attempts, target, accounts, schedVars, worker, request,
                 auditVars, histVars, ops>>

\* Mutant: the status of a post in the scheduler's hands is not kept.
ResolveForgetsProcessing(was, draft, future) ==
  IF was \in {"posted", "cancelled"} THEN was
  ELSE IF ~draft /\ future THEN "pending"
  ELSE IF draft THEN "draft" ELSE was

ResolvePostStatusOnUpdate(was, draft, future) ==
  IF was \in {"posted", "processing", "cancelled"} THEN was
  ELSE IF ~draft /\ future THEN "pending"
  ELSE IF draft THEN "draft"
  ELSE IF was = "draft" THEN "pending" ELSE was

\* ApplyPostPatch on the status and scheduled_at that were read.
MergedDraft(in, was)     == IF in.draft = "keep" THEN was = "draft" ELSE in.draft = "draft"
MergedFuture(in, wasDue) == in.at = "future" \/ (in.at = "keep" /\ ~wasDue)

\* handleUpdatePost up to PatchScheduledPost: publish_now is refused for a post
\* that is not waiting, Prepare for a past date and for missing targets.
UpdateAllowed(p, in) ==
  LET draft == MergedDraft(in, status[p])
      S == IF in.retarget THEN in.targets ELSE {a \in Accounts : target[p][a] # "none"}
  IN /\ Exists(p)
     /\ in.at = "now" => status[p] \notin {"posted", "processing", "cancelled"}
     /\ draft \/ in.at = "now" \/ MergedFuture(in, due[p])
     /\ S \subseteq accounts
     /\ draft \/ S # {}

\* The writes of PatchScheduledPost, computed from the status and scheduled_at
\* that it read.  A post or an account deleted since makes the patch a no-op.
PatchScheduledPost(p, in, was, wasDue) ==
  IF ~Exists(p) \/ (in.retarget /\ ~(in.targets \subseteq accounts))
  THEN UNCHANGED <<status, due, target>>
  ELSE /\ IF in.content \/ in.at # "keep" \/ in.draft # "keep"
          THEN /\ status' = [status EXCEPT ![p] =
                      ResolvePostStatusOnUpdate(was, MergedDraft(in, was),
                                                MergedFuture(in, wasDue))]
               /\ due' = [due EXCEPT ![p] = ~MergedFuture(in, wasDue)]
          ELSE UNCHANGED <<status, due>>
       /\ target' = IF in.retarget
                    THEN [target EXCEPT ![p] = PendingRows(in.targets)]
                    ELSE target

Send == /\ ops < MaxOps
        /\ ops' = ops + 1

\* SQLite: the handler runs in one immediate transaction.
UpdatePost(p) ==
  /\ Backend = "sqlite"
  /\ Send
  /\ \E in \in Patches :
       /\ UpdateAllowed(p, in)
       /\ PatchScheduledPost(p, in, status[p], due[p])
  /\ UNCHANGED <<attempts, accounts, schedVars, worker, request, auditVars, histVars>>

\* Postgres: read committed.  The handler reads, PatchScheduledPost reads again,
\* then writes; others commit in between.
CheckUpdate(r, p) ==
  /\ Backend = "postgres"
  /\ Send
  /\ request[r].pc = "idle"
  /\ \E in \in Patches :
       /\ UpdateAllowed(p, in)
       /\ request' = [request EXCEPT ![r] = [IdleRequest EXCEPT
                        !.pc = "checked", !.post = p, !.in = in]]
  /\ UNCHANGED <<dbVars, schedVars, worker, auditVars, histVars>>

ReadUpdate(r) ==
  LET p == request[r].post IN
  /\ request[r].pc = "checked"
  /\ request' = [request EXCEPT ![r] =
       IF Exists(p) THEN [@ EXCEPT !.pc = "read", !.was = status[p], !.wasDue = due[p]]
       ELSE IdleRequest]
  /\ UNCHANGED <<dbVars, schedVars, worker, auditVars, histVars, ops>>

WriteUpdate(r) ==
  /\ request[r].pc = "read"
  /\ PatchScheduledPost(request[r].post, request[r].in, request[r].was, request[r].wasDue)
  /\ request' = [request EXCEPT ![r] = IdleRequest]
  /\ UNCHANGED <<attempts, accounts, schedVars, worker, auditVars, histVars, ops>>

\* completeReview: a status-guarded UPDATE, so no read can be stale.
CompleteReview(p) ==
  /\ "review" \in Ops
  /\ Send
  /\ status[p] = "draft"
  /\ \E a \in Accounts : target[p][a] # "none"
  /\ status' = [status EXCEPT ![p] = "pending"]
  /\ \E now \in BOOLEAN : due' = [due EXCEPT ![p] = now]
  /\ UNCHANGED <<attempts, target, accounts, schedVars, worker, request, auditVars,
                 histVars>>

\* handleCancelPost: any post that is not cancelled yet.
CancelPost(p) ==
  /\ "cancel" \in Ops
  /\ Send
  /\ Exists(p) /\ status[p] # "cancelled"
  /\ status' = [status EXCEPT ![p] = "cancelled"]
  /\ UNCHANGED <<attempts, due, target, accounts, schedVars, worker, request,
                 auditVars, histVars>>

\* The delete cascades to the target rows.
DeletePost(p) ==
  /\ "delete" \in Ops
  /\ Send
  /\ Exists(p)
  /\ status' = [status EXCEPT ![p] = "deleted"]
  /\ target' = [target EXCEPT ![p] = NoRows]
  /\ UNCHANGED <<attempts, due, accounts, schedVars, worker, request, auditVars,
                 histVars>>

DisconnectAccount(a) ==
  /\ "disconnect" \in Ops
  /\ Send
  /\ a \in accounts
  /\ accounts' = accounts \ {a}
  /\ target' = [p \in Posts |-> [target[p] EXCEPT ![a] = "none"]]
  /\ UNCHANGED <<status, attempts, due, schedVars, worker, request, auditVars,
                 histVars>>

\* Mutant: every target is requeued.
RetryEveryTarget(p) ==
  /\ "retry" \in Ops
  /\ Send
  /\ status[p] = "failed"
  /\ status' = [status EXCEPT ![p] = "pending"]
  /\ attempts' = [attempts EXCEPT ![p] = 0]
  /\ due' = [due EXCEPT ![p] = TRUE]
  /\ target' = [target EXCEPT ![p] = [a \in Accounts |->
                  IF @[a] = "none" THEN "none" ELSE "pending"]]
  /\ UNCHANGED <<accounts, schedVars, worker, request, auditVars, histVars>>

\* AdminRetryFailedPost: posted targets are left untouched.
AdminRetryFailedPost(p) ==
  /\ "retry" \in Ops
  /\ Send
  /\ status[p] = "failed"
  /\ status' = [status EXCEPT ![p] = "pending"]
  /\ attempts' = [attempts EXCEPT ![p] = 0]
  /\ due' = [due EXCEPT ![p] = TRUE]
  /\ target' = [target EXCEPT ![p] = [a \in Accounts |->
                  IF @[a] \in {"none", "posted"} THEN @[a] ELSE "pending"]]
  /\ UNCHANGED <<accounts, schedVars, worker, request, auditVars, histVars>>

\* RepairFuturePostedPosts: one UPDATE over every posted post of the future.
RepairFuturePosted ==
  /\ "repair" \in Ops
  /\ Send
  /\ status' = [p \in Posts |-> IF status[p] = "posted" /\ ~due[p]
                                THEN "pending" ELSE status[p]]
  /\ UNCHANGED <<attempts, due, target, accounts, schedVars, worker, request,
                 auditVars, histVars>>
-----------------------------------------------------------------------------
SchedulerStep(i) ==
  LoopDrain(i) \/ ListDuePosts(i) \/ MarkListed(i) \/ Enqueue(i)

RequestStep ==
  \/ \E p \in Posts :
       \/ CreatePost(p) \/ BecomeDue(p) \/ UpdatePost(p) \/ CompleteReview(p)
       \/ CancelPost(p) \/ DeletePost(p) \/ AdminRetryFailedPost(p)
       \/ \E r \in Requests : CheckUpdate(r, p)
  \/ \E r \in Requests : ReadUpdate(r) \/ WriteUpdate(r)
  \/ \E a \in Accounts : DisconnectAccount(a)
  \/ RepairFuturePosted

Next ==
  \/ \E i \in Instances : SchedulerStep(i) \/ Crash(i)
  \/ \E w \in Workers : WorkerStep(w)
  \/ RequestStep

Spec == Init /\ [][Next]_vars

\* The goroutines of a running process are scheduled, and time passes; nobody
\* has to send a request.
FairSpec ==
  /\ Spec
  /\ \A i \in Instances : WF_vars(SchedulerStep(i))
  /\ \A w \in Workers : WF_vars(WorkerStep(w))
  /\ \A p \in Posts : WF_vars(BecomeDue(p))
-----------------------------------------------------------------------------
(* Properties.                                                             *)

\* A worker holds a target from ClaimTarget until its outcome is recorded.
Holds(w, p, a) == /\ worker[w].pc \in {"prepare", "publish", "persist"}
                  /\ worker[w].job.post = p
                  /\ worker[w].cur = a

\* The remote account shows a post at most once, whatever crashes, is retried,
\* or answers too late (processPost, ClaimPostTargetPublication).
AtMostOnce == \A p \in Posts, a \in Accounts : accepted[p][a] <= 1

\* Two workers never hold the same target: a provider call in flight is the
\* only one for its post and account.
NoConcurrentPublication ==
  \A v, w \in Workers, p \in Posts, a \in Accounts :
    Holds(v, p, a) /\ Holds(w, p, a) => v = w

\* Places in the memory of the replicas from which p can still be published.
QueuedAt(p) == {s \in Instances \X (1..QueueCap) :
                  s[2] <= Len(queue[s[1]]) /\ queue[s[1]][s[2]].post = p}
SendingAt(p) == {i \in Instances : loop[i] = "send" /\ Head(dueList[i]).post = p}
WorkedBy(p) == {w \in Workers : worker[w].pc # "idle" /\ worker[w].job.post = p}

\* A post is in at most one of these places, and while it is there no request
\* has put it back into the review queue or among the due posts: the guarded
\* MarkPostProcessing and ResolvePostStatusOnUpdate keep the claim exclusive.
ExclusiveClaim ==
  \A p \in Posts :
    LET n == Cardinality(QueuedAt(p)) + Cardinality(SendingAt(p)) + Cardinality(WorkedBy(p))
    IN /\ n <= 1
       /\ n = 1 => status[p] \in {"processing", "cancelled", "deleted"}

\* The status a user sees tells the truth about the targets behind it. A posted post has no
\* target left behind: MarkPostResult(posted) is reached only after every row that was not
\* posted yet has been published. A failed post, which AdminRetryFailedPost may reset, has no
\* target whose outcome is unknown.
StatusMatchesTargets ==
  \A p \in Posts, a \in Accounts :
    /\ status[p] = "posted" => target[p][a] \in {"posted", "none"}
    /\ status[p] = "failed" => target[p][a] # "processing"

Evidence == outbox \cup auditLog

\* Durable evidence comes first: nothing is shown by a remote account without a
\* publish_started event per attempt, and a row says posted only with a
\* publish_success event of an attempt that really was accepted.
EvidenceFirst ==
  \A p \in Posts, a \in Accounts :
    /\ accepted[p][a] <= claims[p][a]
    /\ \A n \in 1..claims[p][a] : Event(p, a, n, "started") \in Evidence
    /\ target[p][a] = "posted" =>
         /\ accepted[p][a] > 0
         /\ \E n \in 1..claims[p][a] : Event(p, a, n, "success") \in Evidence

\* An attempt is settled once: no attempt_id has two outcome events.
OneOutcomePerTry ==
  \A e, f \in Evidence :
    /\ e.post = f.post /\ e.account = f.account /\ e.try = f.try
    /\ e.kind # "started" /\ f.kind # "started"
    => e = f

\* Delivery loses and repeats nothing: an event leaves audit_pending only for
\* audit_events, in the same step, and is never in both.
DeliveryExactlyOnce ==
  [][/\ auditLog \subseteq auditLog'
     /\ Evidence \subseteq Evidence'
     /\ outbox' \cap auditLog' = {}]_vars

\* A target is tried at most MaxAttempts times: every opened attempt is paid for
\* with attempt_count, although it is counted from a snapshot.
RetryBudget == \A p \in Posts, a \in Accounts : claims[p][a] <= MaxAttempts

\* Some target of p waits for reconciliation against the remote account.
Unresolved(p) == \E a \in Accounts : target[p][a] = "processing"

\* The loop has marked p, a queue holds it or a worker has it.
InHand(p) ==
  \/ \E i \in Instances : \/ loop[i] = "send" /\ Head(dueList[i]).post = p
                         \/ \E k \in DOMAIN queue[i] : queue[i][k].post = p
  \/ \E w \in Workers : worker[w].pc # "idle" /\ worker[w].job.post = p
Stranded(p) == status[p] = "processing" /\ ~Unresolved(p) /\ ~InHand(p)

\* A due post is worked on until it is settled, over any number of stops as long as they
\* come to an end: it does not stay pending or in processing, unless the outcome of one of
\* its targets is unknown or a stop took it out of the hands of the process that had marked
\* it (no list selects it then); nothing but a stop does that.
DuePostSettles ==
  /\ <>[][\A i \in Instances : ~Crash(i)]_vars =>
       \A p \in Posts :
         IsDue(p) ~> (status[p] \notin {"pending", "processing"} \/ Unresolved(p) \/ Stranded(p))
  /\ [][\A p \in Posts : Stranded(p)' /\ ~Stranded(p) => \E i \in Instances : Crash(i)]_vars

\* Evidence left in audit_pending by a worker that stopped is delivered by the
\* poll loop of the process that starts next, however often it stops in turn:
\* every loop begins with a drain (LoopDrain).
EvidenceDelivered == []<>(outbox = {})

\* A cancelled post stays cancelled until it is deleted.
CancelledIsFinal ==
  [][\A p \in Posts :
       status[p] = "cancelled" => status'[p] \in {"cancelled", "deleted"}]_vars

\* The scheduler takes a post only when its scheduled_at has passed.
NeverBeforeSchedule ==
  [][\A p \in Posts :
       status[p] # "processing" /\ status'[p] = "processing" => due[p]]_vars
=============================================================================
