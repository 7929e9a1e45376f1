---------------------- MODULE PublicationSafetyProofs ----------------------
(***************************************************************************)
(* At-most-once publication, the places from which a post can be           *)
(* published, its status against its targets and its retry budget, for any *)
(* number of posts, accounts, workers and requests and with every fault.   *)
(***************************************************************************)
EXTENDS PostPublicationProofs, FiniteSetTheorems

\* No request takes the row of a target back to pending: no administrator
\* retries a post and no PATCH names the target accounts again.
NoResets == "retry" \notin Ops /\ \A in \in Patches : ~in.retarget

\* The rest of the holder's work cannot follow an accepted publication.
Unpublished(w) == \/ worker[w].pc \in {"prepare", "publish"}
                  \/ worker[w].pc = "persist" /\ worker[w].outcome = "failed"

HeldIsClaimed ==
  \A w \in Workers, p \in Posts, a \in Accounts :
    Holds(w, p, a) => target[p][a] \in {"processing", "none"}

HeldIsUnpublished ==
  \A w \in Workers, p \in Posts, a \in Accounts :
    Holds(w, p, a) /\ Unpublished(w) => accepted[p][a] = 0

AcceptedIsClaimed ==
  \A p \in Posts, a \in Accounts :
    accepted[p][a] > 0 => target[p][a] \in {"processing", "posted", "none"}

NewIsUntouched ==
  \A p \in Posts : status[p] = "new" =>
    \A a \in Accounts : /\ target[p][a] = "none" /\ accepted[p][a] = 0
                        /\ \A w \in Workers : ~Holds(w, p, a)

ClaimInv ==
  /\ TypeInv
  /\ HeldIsClaimed
  /\ HeldIsUnpublished
  /\ AcceptedIsClaimed
  /\ NewIsUntouched
  /\ NoConcurrentPublication
  /\ AtMostOnce

\* The invariant holds before the first post is created.
LEMMA ClaimInit == Init => ClaimInv
<1> SUFFICES ASSUME Init PROVE ClaimInv
  OBVIOUS
<1>1. TypeInv
  BY TypeInit
<1>2. \A w \in Workers, p \in Posts, a \in Accounts : ~Holds(w, p, a)
  BY DEF Init, Holds, IdleWorker
<1> QED
  BY <1>1, <1>2 DEF Init, NoRows, ClaimInv, HeldIsClaimed, HeldIsUnpublished,
     AcceptedIsClaimed, NewIsUntouched, NoConcurrentPublication, AtMostOnce

\* A step that changes no publication and only lets workers go.
LEMMA ReleaseOnly ==
  ASSUME ClaimInv, TypeInv', UNCHANGED accepted,
         \A w \in Workers : \/ worker'[w] = worker[w]
                            \/ worker'[w].pc \notin {"prepare", "publish", "persist"},
         \A p \in Posts : status'[p] = "new" => status[p] = "new",
         \A p \in Posts, a \in Accounts :
           \/ target'[p][a] = target[p][a]
           \/ target'[p][a] = "none"
           \/ status[p] = "new" /\ status'[p] # "new"
           \/ target[p][a] \in {"pending", "failed"}
  PROVE  ClaimInv'
<1>1. ASSUME NEW w \in Workers, NEW p \in Posts, NEW a \in Accounts, Holds(w, p, a)'
      PROVE  worker'[w] = worker[w] /\ Holds(w, p, a)
  BY <1>1 DEF Holds
<1>2. HeldIsClaimed'
  BY <1>1 DEF ClaimInv, HeldIsClaimed, NewIsUntouched
<1>3. HeldIsUnpublished'
  BY <1>1 DEF ClaimInv, HeldIsUnpublished, Unpublished
<1>4. AcceptedIsClaimed'
  <2> SUFFICES ASSUME NEW p \in Posts, NEW a \in Accounts, accepted[p][a] > 0
               PROVE  target'[p][a] \in {"processing", "posted", "none"}
    BY DEF AcceptedIsClaimed
  <2>1. status[p] # "new"
    BY DEF ClaimInv, NewIsUntouched
  <2> QED
    BY <2>1 DEF ClaimInv, AcceptedIsClaimed
<1>5. NewIsUntouched'
  BY <1>1 DEF ClaimInv, NewIsUntouched
<1>6. NoConcurrentPublication'
  BY <1>1 DEF ClaimInv, NoConcurrentPublication
<1>7. AtMostOnce'
  BY DEF ClaimInv, AtMostOnce
<1> QED
  BY <1>2, <1>3, <1>4, <1>5, <1>6, <1>7 DEF ClaimInv

\* The poll loop, and a restart, touch no target row.
LEMMA ClaimScheduler ==
  ASSUME ClaimInv, NEW i \in Instances, SchedulerStep(i) \/ Crash(i)
  PROVE  ClaimInv'
<1>1. TypeInv'
  BY TypeScheduler, TypeCrash DEF ClaimInv
<1>2. UNCHANGED <<accepted, target>>
  BY DEF SchedulerStep, LoopDrain, ListDuePosts, MarkListed, Enqueue, Crash, dbVars, histVars
<1>3. \A w \in Workers : \/ worker'[w] = worker[w]
                         \/ worker'[w].pc \notin {"prepare", "publish", "persist"}
  BY DEF SchedulerStep, LoopDrain, ListDuePosts, MarkListed, Enqueue, Crash, IdleWorker
<1>4. \A p \in Posts : status'[p] = "new" => status[p] = "new"
  BY DEF SchedulerStep, LoopDrain, ListDuePosts, MarkListed, MarkPostProcessing, Enqueue,
     Crash, dbVars, ClaimInv, TypeInv, TypeOK
<1> QED
  BY <1>1, <1>2, <1>3, <1>4, ReleaseOnly

\* Without resets a PATCH does not touch the target rows.
LEMMA PatchKeepsTargets ==
  ASSUME TypeInv, NoResets, NEW p \in Posts, NEW in \in Patches, NEW was \in PostStatus,
         NEW wasDue \in BOOLEAN, PatchScheduledPost(p, in, was, wasDue)
  PROVE  /\ UNCHANGED target
         /\ \A q \in Posts : status'[q] = "new" => status[q] = "new"
<1>1. ASSUME NEW d, NEW f PROVE ResolvePostStatusOnUpdate(was, d, f) \in PostStatus
  BY DEF ResolvePostStatusOnUpdate, PostStatus
<1>2. "new" \notin PostStatus
  BY DEF PostStatus
<1> QED
  BY <1>1, <1>2 DEF PatchScheduledPost, NoResets, TypeInv, TypeOK

\* No request that leaves the target rows alone, or removes them, disturbs a claim.
LEMMA ClaimRequest ==
  ASSUME ClaimInv, NoResets, RequestStep
  PROVE  ClaimInv'
<1> USE ConstantsAssumption DEF dbVars, histVars, Send
<1> DEFINE Quiet == /\ \A p \in Posts : status'[p] = "new" => status[p] = "new"
                    /\ \A p \in Posts, a \in Accounts :
                         \/ target'[p][a] = target[p][a]
                         \/ target'[p][a] = "none"
                         \/ status[p] = "new" /\ status'[p] # "new"
<1>0. TypeInv /\ TypeInv'
  BY TypeRequest DEF ClaimInv
<1>1. UNCHANGED <<worker, accepted>>
  BY DEF RequestStep, CreatePost, BecomeDue, UpdatePost, CheckUpdate, ReadUpdate, WriteUpdate,
     CompleteReview, CancelPost, DeletePost, DisconnectAccount, AdminRetryFailedPost,
     RepairFuturePosted
<1>2. ASSUME NEW p \in Posts, CreatePost(p) PROVE Quiet
  BY <1>0, <1>2 DEF CreatePost, TypeInv, TypeOK
<1>3. ASSUME NEW p \in Posts, UpdatePost(p) PROVE Quiet
  <2>1. PICK in \in Patches : UpdateAllowed(p, in) /\ PatchScheduledPost(p, in, status[p], due[p])
    BY <1>3 DEF UpdatePost
  <2>2. status[p] \in PostStatus /\ due[p] \in BOOLEAN
    BY <1>0, <2>1 DEF UpdateAllowed, Exists, TypeInv, TypeOK
  <2> QED
    BY <1>0, <2>1, <2>2, PatchKeepsTargets
<1>4. ASSUME NEW r \in Requests, WriteUpdate(r) PROVE Quiet
  <2>1. request[r] \in RequestStates /\ RequestShape(request[r]) /\ request[r].pc = "read"
    BY <1>0, <1>4 DEF WriteUpdate, TypeInv, TypeOK, ShapeOK
  <2>2. /\ request[r].post \in Posts /\ request[r].in \in Patches
        /\ request[r].was \in PostStatus /\ request[r].wasDue \in BOOLEAN
    BY <2>1 DEF RequestStates, RequestShape
  <2> QED
    BY <1>0, <1>4, <2>2, PatchKeepsTargets DEF WriteUpdate
<1>5. ASSUME NEW p \in Posts, DeletePost(p) PROVE Quiet
  BY <1>0, <1>5 DEF DeletePost, NoRows, TypeInv, TypeOK
<1>6. ASSUME NEW a \in Accounts, DisconnectAccount(a) PROVE Quiet
  BY <1>0, <1>6 DEF DisconnectAccount, TypeInv, TypeOK
<1>7. ASSUME RepairFuturePosted PROVE Quiet
  BY <1>0, <1>7 DEF RepairFuturePosted, TypeInv, TypeOK
<1>8. ASSUME NEW p \in Posts, CompleteReview(p) \/ CancelPost(p) PROVE Quiet
  BY <1>0, <1>8 DEF CompleteReview, CancelPost, TypeInv, TypeOK
<1>9. ASSUME NEW p \in Posts, BecomeDue(p) \/ AdminRetryFailedPost(p) PROVE Quiet
  BY <1>0, <1>9 DEF BecomeDue, AdminRetryFailedPost, NoResets
<1>10. ASSUME NEW r \in Requests, ReadUpdate(r) \/ \E p \in Posts : CheckUpdate(r, p) PROVE Quiet
  BY <1>0, <1>10 DEF ReadUpdate, CheckUpdate
<1>11. Quiet
  BY <1>2, <1>3, <1>4, <1>5, <1>6, <1>7, <1>8, <1>9, <1>10 DEF RequestStep
<1> QED
  BY <1>0, <1>1, <1>11, ReleaseOnly

\* Each step of processPost keeps the claims exclusive.
LEMMA ClaimWorker ==
  ASSUME ClaimInv, NEW w \in Workers, WorkerStep(w)
  PROVE  ClaimInv'
<1> USE ConstantsAssumption DEF dbVars, histVars, schedVars, auditVars
<1> DEFINE W == worker[w]
<1>0. TypeInv /\ TypeInv'
  BY TypeWorker DEF ClaimInv
<1>1. \A v \in Workers : v # w => worker'[v] = worker[v]
  BY <1>0, OthersWait
<1>2. W \in WorkerStates
  BY <1>0 DEF TypeInv, TypeOK
<1>3. CASE \/ Dequeue(w) \/ ResolveTargets(w) \/ LoadPostTargets(w) \/ WorkerDrain(w)
           \/ WriteResult(w)
  <2>1. UNCHANGED <<target, accepted>>
    BY <1>3 DEF Dequeue, ResolveTargets, LoadPostTargets, WorkerDrain, WriteResult
  <2>2. worker'[w].pc \notin {"prepare", "publish", "persist"}
    BY <1>0, <1>3, OutsideMoves
  <2>3. \A p \in Posts : status'[p] = "new" => status[p] = "new"
    <3>1. CASE WriteResult(w)
      <4>1. \/ UNCHANGED status
            \/ \E v \in {"posted", "failed"} : status' = [status EXCEPT ![W.job.post] = v]
        BY <3>1 DEF WriteResult, MarkPostResult
      <4> QED
        BY <1>0, <4>1 DEF TypeInv, TypeOK
    <3> QED
      BY <1>3, <3>1 DEF Dequeue, ResolveTargets, LoadPostTargets, WorkerDrain
  <2> QED
    BY <1>0, <1>1, <2>1, <2>2, <2>3, ReleaseOnly
<1>a. ASSUME NEW v \in Workers, NEW p \in Posts, NEW a \in Accounts, v # w
      PROVE  /\ Holds(v, p, a)' <=> Holds(v, p, a)
             /\ Unpublished(v)' <=> Unpublished(v)
  BY <1>1, <1>a DEF Holds, Unpublished
<1>4. CASE PreparePublish(w)
  <2>1. UNCHANGED <<target, accepted, status>>
    BY <1>4 DEF PreparePublish
  <2>2. /\ worker'[w].job = W.job /\ worker'[w].cur = W.cur
        /\ W.pc = "prepare" /\ worker'[w].pc \in {"publish", "persist"}
        /\ worker'[w].pc = "persist" => worker'[w].outcome = "failed"
    <3>1. \/ worker'[w] = [W EXCEPT !.pc = "publish"]
          \/ worker'[w] = [W EXCEPT !.pc = "persist", !.outcome = "failed"]
      BY <1>0, <1>4, GotoValue DEF PreparePublish
    <3> QED
      <4>1. W.pc = "prepare"
        BY <1>4 DEF PreparePublish
      <4>2. CASE worker'[w] = [W EXCEPT !.pc = "publish"]
        BY <1>2, <4>1, <4>2, WorkerFields
      <4>3. CASE worker'[w] = [W EXCEPT !.pc = "persist", !.outcome = "failed"]
        BY <1>2, <4>1, <4>3, WorkerFields
      <4> QED
        BY <3>1, <4>2, <4>3
  <2>3. ASSUME NEW p \in Posts, NEW a \in Accounts
        PROVE  (Holds(w, p, a)' <=> Holds(w, p, a)) /\ Unpublished(w)
    BY <2>2 DEF Holds, Unpublished
  <2> QED
    BY <1>0, <1>a, <2>1, <2>3 DEF ClaimInv, HeldIsClaimed, HeldIsUnpublished,
       AcceptedIsClaimed, NewIsUntouched, NoConcurrentPublication, AtMostOnce
<1>5. CASE Publish(w)
  <2> DEFINE p == W.job.post
             a == W.cur
  <2>1. UNCHANGED <<target, status>> /\ p \in Posts /\ a \in Accounts
    BY <1>0, <1>5 DEF Publish, TypeInv, ShapeOK, WorkerShape, Snapshots
  <2>2. PICK r \in PublishResults :
          /\ accepted' = [accepted EXCEPT ![p][a] = @ + r.shown]
          /\ Goto(w, [W EXCEPT !.pc = "persist", !.outcome = r.outcome])
    BY <1>5 DEF Publish
  <2>3. /\ worker'[w].job = W.job /\ worker'[w].cur = W.cur /\ W.pc = "publish"
        /\ worker'[w].pc = "persist" /\ worker'[w].outcome = r.outcome
    <3>1. worker'[w] = [W EXCEPT !.pc = "persist", !.outcome = r.outcome]
      BY <1>0, <2>2, GotoValue
    <3> QED
      BY <1>2, <1>5, <3>1, WorkerFields DEF Publish
  <2>4. r.shown \in {0, 1} /\ (r.outcome = "failed" => r.shown = 0)
    BY <2>2 DEF PublishResults
  <2>5. \A q \in Posts, b \in Accounts : Holds(w, q, b)' <=> Holds(w, q, b)
    BY <2>3 DEF Holds
  <2>6. Holds(w, p, a) /\ Unpublished(w) /\ (Unpublished(w)' => r.shown = 0)
    BY <2>3, <2>4 DEF Holds, Unpublished
  <2>7. accepted[p][a] = 0 /\ target[p][a] \in {"processing", "none"} /\ status[p] # "new"
    BY <2>1, <2>6 DEF ClaimInv, HeldIsClaimed, HeldIsUnpublished, NewIsUntouched
  <2>8. \A q \in Posts, b \in Accounts :
          accepted'[q][b] = IF q = p /\ b = a THEN r.shown ELSE accepted[q][b]
    <3>0. accepted[p][a] + r.shown = r.shown /\ r.shown \in Nat
      BY <2>4, <2>7
    <3>1. accepted' = [accepted EXCEPT ![p][a] = r.shown]
      BY <2>2, <3>0
    <3>2. accepted \in [Posts -> [Accounts -> Nat]]
      BY <1>0 DEF TypeInv, TypeOK
    <3> QED
      BY <2>1, <3>0, <3>1, <3>2, TableUpdate
  <2>9. HeldIsClaimed' /\ NoConcurrentPublication'
    BY <1>a, <2>1, <2>5 DEF ClaimInv, HeldIsClaimed, NoConcurrentPublication
  <2>10. HeldIsUnpublished'
    <3> SUFFICES ASSUME NEW v \in Workers, NEW q \in Posts, NEW b \in Accounts,
                        Holds(v, q, b)', Unpublished(v)'
                 PROVE  accepted'[q][b] = 0
      BY DEF HeldIsUnpublished
    <3>1. CASE v = w
      <4>1. q = p /\ b = a
        BY <2>5, <3>1 DEF Holds
      <4> QED
        BY <2>6, <2>8, <3>1, <4>1
    <3>2. CASE v # w
      <4>1. Holds(v, q, b) /\ Unpublished(v)
        BY <1>a, <3>2
      <4>2. accepted[q][b] = 0 /\ ~(q = p /\ b = a)
        BY <2>1, <2>6, <3>2, <4>1 DEF ClaimInv, HeldIsUnpublished, NoConcurrentPublication
      <4> QED
        BY <2>8, <4>2
    <3> QED
      BY <3>1, <3>2
  <2>11. AcceptedIsClaimed' /\ AtMostOnce'
    BY <2>1, <2>4, <2>7, <2>8 DEF ClaimInv, AcceptedIsClaimed, AtMostOnce
  <2>12. NewIsUntouched'
    BY <1>a, <2>1, <2>5, <2>7, <2>8 DEF ClaimInv, NewIsUntouched
  <2> QED
    BY <1>0, <2>9, <2>10, <2>11, <2>12 DEF ClaimInv
<1>6. CASE ClaimTarget(w)
  <2> DEFINE p == W.job.post
  <2>1. /\ UNCHANGED <<accepted, status>>
        /\ p \in Posts /\ W.todo \subseteq Accounts /\ W.job \in Snapshots
    BY <1>0, <1>2, <1>6 DEF ClaimTarget, TypeInv, ShapeOK, WorkerShape, WorkerStates, Snapshots
  <2>2. CASE UNCHANGED target /\ (Goto(w, IdleWorker) \/ Goto(w, [W EXCEPT !.pc = "result", !.err = TRUE]))
    <3>1. worker'[w].pc \in {"idle", "result"}
      <4>1. CASE Goto(w, IdleWorker)
        BY <1>0, <4>1, GotoValue DEF IdleWorker
      <4>2. CASE Goto(w, [W EXCEPT !.pc = "result", !.err = TRUE])
        <5>1. worker'[w] = [W EXCEPT !.pc = "result", !.err = TRUE]
          BY <1>0, <4>2, GotoValue
        <5> QED
          BY <1>2, <5>1, WorkerFields
      <4> QED
        BY <2>2, <4>1, <4>2
    <3> QED
      BY <1>0, <1>1, <2>1, <2>2, <3>1, ReleaseOnly
  <2>3. ASSUME NEW a \in W.todo, Claimable(p, a), target' = [target EXCEPT ![p][a] = "processing"],
               Goto(w, [W EXCEPT !.pc = "prepare", !.cur = a, !.try = claims[p][a] + 1])
        PROVE  ClaimInv'
    <3>1. worker'[w].job = W.job /\ worker'[w].cur = a /\ worker'[w].pc = "prepare"
      <4>1. worker'[w] = [W EXCEPT !.pc = "prepare", !.cur = a, !.try = claims[p][a] + 1]
        BY <1>0, <2>3, GotoValue
      <4> QED
        BY <1>2, <4>1, WorkerFields
    <3>2. a \in Accounts /\ target[p][a] \in {"pending", "failed"}
      BY <2>1, <2>3 DEF Claimable
    <3>3. \A q \in Posts, b \in Accounts :
            target'[q][b] = IF q = p /\ b = a THEN "processing" ELSE target[q][b]
      <4>1. target \in [Posts -> [Accounts -> TargetStatus \cup {"none"}]]
            /\ "processing" \in TargetStatus \cup {"none"}
        BY <1>0 DEF TypeInv, TypeOK, TargetStatus
      <4> QED
        BY <2>1, <2>3, <3>2, <4>1, TableUpdate
    <3>4. accepted[p][a] = 0
      <4>1. accepted[p][a] \in Nat
        BY <1>0, <2>1, <3>2 DEF TypeInv, TypeOK
      <4>2. ~(accepted[p][a] > 0)
        BY <2>1, <3>2 DEF ClaimInv, AcceptedIsClaimed
      <4> QED
        BY <4>1, <4>2
    <3>5. status[p] # "new" /\ \A v \in Workers : ~Holds(v, p, a)
      BY <2>1, <3>2 DEF ClaimInv, NewIsUntouched, HeldIsClaimed
    <3>6. \A q \in Posts, b \in Accounts : Holds(w, q, b)' <=> q = p /\ b = a
      BY <3>1 DEF Holds
    <3>7. HeldIsClaimed' /\ AcceptedIsClaimed'
      BY <1>a, <2>1, <3>3, <3>6 DEF ClaimInv, HeldIsClaimed, AcceptedIsClaimed
    <3>8. HeldIsUnpublished' /\ AtMostOnce'
      BY <1>a, <2>1, <3>4, <3>6 DEF ClaimInv, HeldIsUnpublished, AtMostOnce
    <3>9. NoConcurrentPublication'
      BY <1>a, <3>5, <3>6 DEF ClaimInv, NoConcurrentPublication
    <3>10. NewIsUntouched'
      BY <1>a, <2>1, <3>3, <3>5, <3>6 DEF ClaimInv, NewIsUntouched
    <3> QED
      BY <1>0, <3>7, <3>8, <3>9, <3>10 DEF ClaimInv
  <2> QED
    BY <1>6, <2>2, <2>3 DEF ClaimTarget
<1>7. CASE PersistTargetOutcome(w)
  <2> DEFINE p == W.job.post
             a == W.cur
             o == W.outcome
  <2>1. UNCHANGED <<accepted, status>> /\ p \in Posts /\ a \in Accounts /\ W.pc = "persist"
        /\ o \in {"posted", "failed", "unknown"}
    BY <1>0, <1>2, <1>7 DEF PersistTargetOutcome, TypeInv, ShapeOK, WorkerShape, WorkerStates, Snapshots
  <2>2. worker'[w].pc \in {"idle", "drain"}
    <3>1. worker'[w] = IdleWorker \/ worker'[w] = [W EXCEPT !.pc = "drain"]
      BY <1>0, <1>7, GotoValue DEF PersistTargetOutcome
    <3> QED
      <4>1. CASE worker'[w] = IdleWorker
        BY <4>1 DEF IdleWorker
      <4>2. CASE worker'[w] = [W EXCEPT !.pc = "drain"]
        BY <1>2, <4>2, WorkerFields
      <4> QED
        BY <3>1, <4>1, <4>2
  <2>3. CASE UNCHANGED target
    BY <1>0, <1>1, <2>1, <2>2, <2>3, ReleaseOnly
  <2>4. CASE target' = [target EXCEPT ![p][a] = IF @ = "none" THEN @ ELSE OutcomeStatus[o]]
    <3> DEFINE u == IF target[p][a] = "none" THEN "none" ELSE OutcomeStatus[o]
    <3>1. Holds(w, p, a) /\ (o = "failed" => Unpublished(w))
      BY <2>1 DEF Holds, Unpublished
    <3>2. u \in TargetStatus \cup {"none"} /\ (u \in {"processing", "posted", "none"} \/ o = "failed")
      BY <2>1 DEF OutcomeStatus, TargetStatus
    <3>3. target' = [target EXCEPT ![p][a] = u]
      BY <2>4
    <3> HIDE DEF u
    <3>4. \A q \in Posts, b \in Accounts :
            target'[q][b] = IF q = p /\ b = a THEN u ELSE target[q][b]
      <4>1. target \in [Posts -> [Accounts -> TargetStatus \cup {"none"}]]
        BY <1>0 DEF TypeInv, TypeOK
      <4> QED
        BY <2>1, <3>2, <3>3, <4>1, TableUpdate
    <3>5. \A q \in Posts, b \in Accounts : ~Holds(w, q, b)'
      BY <2>2 DEF Holds
    <3>6. /\ status[p] # "new" /\ (o = "failed" => accepted[p][a] = 0)
          /\ \A v \in Workers : v # w => ~Holds(v, p, a)
      BY <2>1, <3>1 DEF ClaimInv, NewIsUntouched, HeldIsUnpublished, NoConcurrentPublication
    <3>7. HeldIsClaimed'
      BY <1>a, <3>4, <3>5, <3>6 DEF ClaimInv, HeldIsClaimed
    <3>8. AcceptedIsClaimed'
      BY <2>1, <3>2, <3>4, <3>6 DEF ClaimInv, AcceptedIsClaimed
    <3>9. HeldIsUnpublished' /\ AtMostOnce' /\ NoConcurrentPublication'
      BY <1>a, <2>1, <3>5 DEF ClaimInv, HeldIsUnpublished, AtMostOnce, NoConcurrentPublication
    <3>10. NewIsUntouched'
      BY <1>a, <2>1, <3>4, <3>5, <3>6 DEF ClaimInv, NewIsUntouched
    <3> QED
      BY <1>0, <3>7, <3>8, <3>9, <3>10 DEF ClaimInv
  <2> QED
    BY <1>7, <2>3, <2>4 DEF PersistTargetOutcome
<1> QED
  BY <1>3, <1>4, <1>5, <1>6, <1>7 DEF WorkerStep

\* The claim invariant is inductive as long as no target row is reset.
LEMMA ClaimStep == NoResets /\ ClaimInv /\ [Next]_vars => ClaimInv'
<1> SUFFICES ASSUME NoResets, ClaimInv, [Next]_vars PROVE ClaimInv'
  OBVIOUS
<1>1. CASE UNCHANGED vars
  <2>1. TypeInv'
    BY <1>1, TypeStep DEF ClaimInv
  <2>2. UNCHANGED <<worker, target, accepted, status>>
    BY <1>1 DEF vars, dbVars, histVars
  <2> QED
    BY <2>1, <2>2, ReleaseOnly
<1>2. CASE Next
  BY <1>2, ClaimScheduler, ClaimWorker, ClaimRequest DEF Next
<1> QED
  BY <1>1, <1>2

\* A remote account shows a post at most once, for any number of replicas and
\* workers, on either backend, through crashes, lost answers and failed
\* transactions, as long as no request resets a target row: what the guarded
\* ClaimPostTargetPublication in processPost is for.
THEOREM PublishedAtMostOnce == NoResets => (Spec => []AtMostOnce)
<1> SUFFICES ASSUME NoResets PROVE Spec => []AtMostOnce
  OBVIOUS
<1>1. ClaimInv /\ [Next]_vars => ClaimInv'
  BY ClaimStep
<1>2. ClaimInv => AtMostOnce
  BY DEF ClaimInv
<1> QED
  BY <1>1, <1>2, ClaimInit, PTL DEF Spec

\* Under the same assumption no two workers are ever between the claim and the
\* outcome of the same target.
THEOREM NeverConcurrent == NoResets => (Spec => []NoConcurrentPublication)
<1> SUFFICES ASSUME NoResets PROVE Spec => []NoConcurrentPublication
  OBVIOUS
<1>1. ClaimInv /\ [Next]_vars => ClaimInv'
  BY ClaimStep
<1>2. ClaimInv => NoConcurrentPublication
  BY DEF ClaimInv
<1> QED
  BY <1>1, <1>2, ClaimInit, PTL DEF Spec
-----------------------------------------------------------------------------
(* On SQLite a PATCH is one transaction, so a post that a replica took is  *)
(* in one place until its result is written.                               *)

OnSQLite == Backend = "sqlite"

\* No request finds a post the scheduler took in another status than these.
Taken == {"processing", "cancelled", "deleted"}

\* The places in memory from which a post can still be published.
Queued(i, k, p) == k \in 1..Len(queue[i]) /\ queue[i][k].post = p
Sending(i, p)   == loop[i] = "send" /\ Head(dueList[i]).post = p
Worked(w, p)    == worker[w].pc # "idle" /\ worker[w].job.post = p

Waiting(p) == \E i \in Instances : Sending(i, p) \/ (\E k \in Nat : Queued(i, k, p))
Held(p)    == Waiting(p) \/ (\E w \in Workers : Worked(w, p))

OnePlace ==
  \A p \in Posts :
    /\ \A i, j \in Instances, k, l \in Nat : Queued(i, k, p) /\ Queued(j, l, p) => i = j /\ k = l
    /\ \A i, j \in Instances : Sending(i, p) /\ Sending(j, p) => i = j
    /\ \A v, w \in Workers : Worked(v, p) /\ Worked(w, p) => v = w
    /\ \A i, j \in Instances, k \in Nat : ~(Sending(i, p) /\ Queued(j, k, p))
    /\ \A w \in Workers : Worked(w, p) => ~Waiting(p)

HeldIsTaken == \A p \in Posts : Held(p) => status[p] \in Taken

NoRequestInFlight == \A r \in Requests : request[r].pc = "idle"

PlaceInv ==
  /\ TypeInv
  /\ NoRequestInFlight
  /\ OnePlace
  /\ HeldIsTaken

\* Nothing is held before the first poll.
LEMMA PlaceInit == Init => PlaceInv
<1> SUFFICES ASSUME Init PROVE PlaceInv
  OBVIOUS
<1>1. TypeInv
  BY TypeInit
<1>2. /\ \A i \in Instances, k \in Nat, p \in Posts : ~Queued(i, k, p)
      /\ \A i \in Instances, p \in Posts : ~Sending(i, p)
      /\ \A w \in Workers, p \in Posts : ~Worked(w, p)
  BY EmptySeq DEF Init, Queued, Sending, Worked, IdleWorker
<1>3. NoRequestInFlight
  BY DEF Init, NoRequestInFlight, IdleRequest
<1> QED
  BY <1>1, <1>2, <1>3 DEF PlaceInv, OnePlace, HeldIsTaken, Held, Waiting

\* A step that gives no post a new place.
LEMMA PlacesKept ==
  ASSUME PlaceInv, TypeInv', NoRequestInFlight',
         \A i \in Instances, k \in Nat, p \in Posts : Queued(i, k, p)' => Queued(i, k, p),
         \A i \in Instances, p \in Posts : Sending(i, p)' => Sending(i, p),
         \A w \in Workers, p \in Posts : Worked(w, p)' => Worked(w, p),
         \A p \in Posts : Held(p)' => status'[p] \in Taken
  PROVE  PlaceInv'
<1>1. \A p \in Posts : Waiting(p)' => Waiting(p)
  BY DEF Waiting
<1>2. OnePlace'
  BY <1>1 DEF PlaceInv, OnePlace
<1> QED
  BY <1>2 DEF PlaceInv, HeldIsTaken

\* The guarded UPDATE takes a post that is in no place yet; after it the post moves from the
\* poll loop into the queue.
LEMMA PlaceScheduler ==
  ASSUME PlaceInv, NEW i \in Instances, SchedulerStep(i)
  PROVE  /\ PlaceInv'
         /\ \A p \in Posts : Waiting(p)' =>
              \/ Waiting(p)
              \/ /\ status[p] \notin Taken /\ p = Head(dueList[i]).post
                 /\ loop[i] = "mark" /\ loop'[i] = "send" /\ UNCHANGED dueList
<1> USE DEF dbVars, histVars, schedVars, auditVars
<1>0. TypeInv /\ TypeInv'
  BY TypeScheduler DEF PlaceInv
<1>1. NoRequestInFlight' /\ UNCHANGED worker
  BY DEF PlaceInv, NoRequestInFlight, SchedulerStep, LoopDrain, ListDuePosts, MarkListed, Enqueue
<1>2. \A w \in Workers, p \in Posts : Worked(w, p)' <=> Worked(w, p)
  BY <1>1 DEF Worked
<1>3. CASE LoopDrain(i) \/ ListDuePosts(i) \/ (MarkListed(i) /\ NextListed(i) /\ UNCHANGED status)
  <2>1. UNCHANGED <<queue, status>>
    BY <1>3 DEF LoopDrain, ListDuePosts, MarkListed
  <2>2. loop' \in [Instances -> {"drain", "list", "mark", "send"}] /\ loop'[i] # "send"
        /\ \A j \in Instances : j # i => loop'[j] = loop[j] /\ dueList'[j] = dueList[j]
    BY <1>0, <1>3 DEF LoopDrain, ListDuePosts, MarkListed, NextListed, TypeInv, TypeOK
  <2>3. \A j \in Instances, p \in Posts : Sending(j, p)' => Sending(j, p)
    BY <2>2 DEF Sending
  <2>4. \A j \in Instances, k \in Nat, p \in Posts : Queued(j, k, p)' => Queued(j, k, p)
    BY <2>1 DEF Queued
  <2>5. \A p \in Posts : Held(p)' => status'[p] \in Taken
    BY <1>2, <2>1, <2>3, <2>4 DEF PlaceInv, HeldIsTaken, Held, Waiting
  <2>6. \A p \in Posts : Waiting(p)' => Waiting(p)
    BY <2>3, <2>4 DEF Waiting
  <2> QED
    BY <1>0, <1>1, <1>2, <2>3, <2>4, <2>5, <2>6, PlacesKept
<1>4. CASE MarkListed(i) /\ MarkPostProcessing(Head(dueList[i]).post) /\ loop' = [loop EXCEPT ![i] = "send"]
           /\ UNCHANGED dueList
  <2> DEFINE q == Head(dueList[i]).post
  <2>1. dueList[i] # <<>> /\ dueList[i] \in Seq(Snapshots) /\ loop[i] = "mark"
    BY <1>0, <1>4 DEF MarkListed, TypeInv, TypeOK, ShapeOK
  <2>2. Head(dueList[i]) \in Snapshots
    BY <2>1, HeadTailProperties
  <2>3. q \in Posts /\ status[q] \notin Taken /\ status'[q] = "processing"
        /\ \A p \in Posts : p # q => status'[p] = status[p]
    BY <1>0, <1>4, <2>2 DEF MarkPostProcessing, Snapshots, Taken, TypeInv, TypeOK
  <2>4. ~Held(q)
    BY <2>3 DEF PlaceInv, HeldIsTaken
  <2>5. \A j \in Instances, p \in Posts : Sending(j, p)' <=> Sending(j, p) \/ (j = i /\ p = q)
    BY <1>0, <1>4, <2>1 DEF Sending, TypeInv, TypeOK
  <2>6. \A j \in Instances, k \in Nat, p \in Posts : Queued(j, k, p)' <=> Queued(j, k, p)
    BY <1>4 DEF Queued, MarkListed
  <2>7. \A p \in Posts : Waiting(p)' <=> Waiting(p) \/ p = q
    BY <2>5, <2>6 DEF Waiting
  <2>8. OnePlace'
    BY <1>2, <2>4, <2>5, <2>6, <2>7 DEF PlaceInv, OnePlace, Held, Waiting
  <2>9. HeldIsTaken'
    BY <1>2, <2>3, <2>7 DEF PlaceInv, HeldIsTaken, Held, Taken
  <2>10. loop'[i] = "send"
    BY <1>0, <1>4 DEF TypeInv, TypeOK
  <2> QED
    BY <1>0, <1>1, <1>4, <2>1, <2>3, <2>7, <2>8, <2>9, <2>10 DEF PlaceInv
<1>5. CASE Enqueue(i)
  <2> DEFINE q == Head(dueList[i]).post
             n == Len(queue[i]) + 1
  <2>1. dueList[i] # <<>> /\ dueList[i] \in Seq(Snapshots) /\ loop[i] = "send"
        /\ queue[i] \in Seq(Snapshots) /\ queue \in [Instances -> Seq(Snapshots)]
    BY <1>0, <1>5 DEF Enqueue, TypeInv, TypeOK, ShapeOK
  <2>2. Head(dueList[i]) \in Snapshots
    BY <2>1, HeadTailProperties
  <2>3. q \in Posts /\ Sending(i, q)
    BY <2>1, <2>2 DEF Snapshots, Sending
  <2>4. /\ queue'[i] = Append(queue[i], Head(dueList[i]))
        /\ \A j \in Instances : j # i => queue'[j] = queue[j]
    BY <1>5, <2>1 DEF Enqueue
  <2>5. /\ Len(queue'[i]) = n /\ queue'[i][n] = Head(dueList[i])
        /\ \A k \in 1..Len(queue[i]) : queue'[i][k] = queue[i][k]
    BY <2>1, <2>2, <2>4, AppendProperties
  <2>6. \A j \in Instances, k \in Nat, p \in Posts :
          Queued(j, k, p)' <=> Queued(j, k, p) \/ (j = i /\ k = n /\ p = q)
    <3> SUFFICES ASSUME NEW j \in Instances, NEW k \in Nat, NEW p \in Posts
                 PROVE  Queued(j, k, p)' <=> Queued(j, k, p) \/ (j = i /\ k = n /\ p = q)
      OBVIOUS
    <3>1. Len(queue[i]) \in Nat
      BY <2>1, LenProperties
    <3> HIDE DEF q
    <3>2. CASE j # i
      BY <2>4, <3>2 DEF Queued
    <3>3. CASE j = i /\ k = n
      BY <2>5, <3>1, <3>3 DEF Queued, q
    <3>4. CASE j = i /\ k # n
      <4>1. k \in 1..n <=> k \in 1..Len(queue[i])
        BY <3>1, <3>4
      <4> QED
        BY <2>5, <3>4, <4>1 DEF Queued
    <3> QED
      BY <3>2, <3>3, <3>4
  <2>7. \A j \in Instances, p \in Posts : Sending(j, p)' <=> Sending(j, p) /\ j # i
    BY <1>0, <1>5 DEF Sending, Enqueue, NextListed, TypeInv, TypeOK
  <2>8. n \in Nat
    BY <2>1, LenProperties
  <2> HIDE DEF n, q
  <2>9. \A p \in Posts : Waiting(p)' <=> Waiting(p)
    <3> SUFFICES ASSUME NEW p \in Posts PROVE Waiting(p)' <=> Waiting(p)
      OBVIOUS
    <3>1. CASE p = q
      BY <2>3, <2>6, <2>8, <3>1 DEF Waiting
    <3>2. CASE p # q
      <4>1. \A j \in Instances : Sending(j, p)' <=> Sending(j, p)
        BY <2>3, <2>7, <3>2 DEF Sending, q
      <4>2. \A j \in Instances, k \in Nat : Queued(j, k, p)' <=> Queued(j, k, p)
        BY <2>6, <3>2
      <4> QED
        BY <4>1, <4>2 DEF Waiting
    <3> QED
      BY <3>1, <3>2
  <2>10. OnePlace'
    BY <1>2, <2>3, <2>6, <2>7, <2>9 DEF PlaceInv, OnePlace
  <2>11. HeldIsTaken'
    BY <1>2, <1>5, <2>9 DEF PlaceInv, HeldIsTaken, Held, Enqueue
  <2> QED
    BY <1>0, <1>1, <2>9, <2>10, <2>11 DEF PlaceInv
<1> QED
  BY <1>3, <1>4, <1>5 DEF SchedulerStep, MarkListed

\* A restart empties the memory of a replica; the others keep theirs.
LEMMA PlaceCrash ==
  ASSUME PlaceInv, NEW i \in Instances, Crash(i)
  PROVE  PlaceInv' /\ \A p \in Posts : Waiting(p)' => Waiting(p)
<1> USE DEF dbVars
<1>0. TypeInv /\ TypeInv'
  BY TypeCrash DEF PlaceInv
<1>1. NoRequestInFlight' /\ UNCHANGED status
  BY DEF PlaceInv, NoRequestInFlight, Crash
<1>2. \A j \in Instances, k \in Nat, p \in Posts : Queued(j, k, p)' => Queued(j, k, p)
  BY <1>0, EmptySeq DEF Crash, Queued, TypeInv, TypeOK
<1>3. \A j \in Instances, p \in Posts : Sending(j, p)' => Sending(j, p)
  BY <1>0 DEF Crash, Sending, TypeInv, TypeOK
<1>4. \A w \in Workers, p \in Posts : Worked(w, p)' => Worked(w, p)
  BY DEF Crash, Worked, IdleWorker
<1>5. \A p \in Posts : Held(p)' => status'[p] \in Taken
  BY <1>1, <1>2, <1>3, <1>4 DEF PlaceInv, HeldIsTaken, Held, Waiting
<1>6. \A p \in Posts : Waiting(p)' => Waiting(p)
  BY <1>2, <1>3 DEF Waiting
<1> QED
  BY <1>0, <1>1, <1>2, <1>3, <1>4, <1>5, <1>6, PlacesKept

\* Past Dequeue a worker keeps the post it was handed, or lets it go.
LEMMA JobKept ==
  ASSUME TypeInv, NEW w \in Workers, WorkerStep(w), ~Dequeue(w)
  PROVE  /\ worker[w].pc # "idle"
         /\ worker'[w].pc = "idle" \/ worker'[w].job = worker[w].job
         /\ UNCHANGED queue
<1> DEFINE W == worker[w]
<1> USE DEF schedVars
<1>0. W \in WorkerStates
  BY DEF TypeInv, TypeOK
<1>1. ASSUME NEW t, Goto(w, t), t.job = W.job \/ t = IdleWorker
      PROVE  worker'[w].pc = "idle" \/ worker'[w].job = W.job
  BY <1>1, GotoValue DEF IdleWorker
<1>2. /\ \A c, S : [W EXCEPT !.pc = c, !.todo = S].job = W.job
      /\ \A c, e : [W EXCEPT !.pc = c, !.err = e].job = W.job
      /\ \A c : [W EXCEPT !.pc = c].job = W.job
  BY <1>0 DEF WorkerStates
<1>3. CASE ResolveTargets(w) \/ LoadPostTargets(w)
  <2>1. \/ Goto(w, [W EXCEPT !.pc = "load"])
        \/ Goto(w, [W EXCEPT !.pc = "result", !.err = TRUE])
        \/ \E c, S : Goto(w, [W EXCEPT !.pc = c, !.todo = S])
    BY <1>3 DEF ResolveTargets, LoadPostTargets
  <2>2. worker'[w].pc = "idle" \/ worker'[w].job = W.job
    BY <1>1, <1>2, <2>1
  <2> QED
    BY <1>3, <2>2 DEF ResolveTargets, LoadPostTargets
<1>4. CASE ClaimTarget(w)
  <2>1. \A a, n : [W EXCEPT !.pc = "prepare", !.cur = a, !.try = n].job = W.job
    BY <1>0 DEF WorkerStates
  <2>2. \/ \E a, n : Goto(w, [W EXCEPT !.pc = "prepare", !.cur = a, !.try = n])
        \/ Goto(w, IdleWorker)
        \/ Goto(w, [W EXCEPT !.pc = "result", !.err = TRUE])
    BY <1>4 DEF ClaimTarget
  <2>3. ASSUME NEW a, NEW n, Goto(w, [W EXCEPT !.pc = "prepare", !.cur = a, !.try = n])
        PROVE  worker'[w].job = W.job
    <3> DEFINE t == [W EXCEPT !.pc = "prepare", !.cur = a, !.try = n]
    <3>1. Goto(w, t) /\ t.job = W.job
      BY <2>1, <2>3
    <3> HIDE DEF t
    <3> QED
      BY <3>1, GotoValue
  <2>4. worker'[w].pc = "idle" \/ worker'[w].job = W.job
    BY <1>1, <1>2, <2>2, <2>3
  <2> QED
    BY <1>4, <2>4 DEF ClaimTarget
<1>5. CASE PreparePublish(w) \/ Publish(w) \/ PersistTargetOutcome(w)
  <2>1. \A o : [W EXCEPT !.pc = "persist", !.outcome = o].job = W.job
    BY <1>0 DEF WorkerStates
  <2> QED
    BY <1>1, <1>2, <1>5, <2>1 DEF PreparePublish, Publish, PersistTargetOutcome
<1>6. CASE WorkerDrain(w)
  <2> DEFINE t == [W EXCEPT !.pc = IF W.todo \ {W.cur} = {} THEN "result" ELSE "claim",
                            !.todo = W.todo \ {W.cur}, !.cur = None, !.try = 0,
                            !.outcome = "none", !.err = W.err \/ W.outcome = "failed"]
  <2>1. t.job = W.job
    BY <1>0 DEF WorkerStates
  <2>2. Goto(w, IdleWorker) \/ Goto(w, t)
    BY <1>6 DEF WorkerDrain
  <2> HIDE DEF t
  <2> QED
    BY <1>1, <1>6, <2>1, <2>2 DEF WorkerDrain
<1>7. CASE WriteResult(w)
  BY <1>1, <1>7 DEF WriteResult
<1> QED
  BY <1>3, <1>4, <1>5, <1>6, <1>7 DEF WorkerStep

\* What a worker does to the status of a post: only WriteResult writes one.
LEMMA WorkerStatus ==
  ASSUME TypeInv, NEW w \in Workers, WorkerStep(w)
  PROVE  \/ UNCHANGED status
         \/ /\ WriteResult(w) /\ worker'[w].pc = "idle"
            /\ \A p \in Posts : p # worker[w].job.post => status'[p] = status[p]
<1> USE DEF dbVars
<1>1. CASE WriteResult(w)
  <2>1. worker'[w].pc = "idle"
    BY <1>1, GotoValue DEF WriteResult, IdleWorker
  <2>2. \/ UNCHANGED status
        \/ \E v \in {"posted", "failed"} : status' = [status EXCEPT ![worker[w].job.post] = v]
    BY <1>1 DEF WriteResult, MarkPostResult
  <2> QED
    BY <1>1, <2>1, <2>2 DEF TypeInv, TypeOK
<1> QED
  BY <1>1 DEF WorkerStep, Dequeue, ResolveTargets, LoadPostTargets, ClaimTarget, PreparePublish,
     Publish, PersistTargetOutcome, WorkerDrain

\* A worker takes the head of the queue, keeps it, and lets it go with its result.
LEMMA PlaceWorker ==
  ASSUME PlaceInv, NEW w \in Workers, WorkerStep(w)
  PROVE  /\ PlaceInv'
         /\ \A p \in Posts : Waiting(p)' => Waiting(p)
         /\ Dequeue(w) => \A p \in Posts : Worked(w, p)' => Waiting(p)
         /\ \A p \in Posts : Held(p)' => Held(p)
<1> USE DEF dbVars, schedVars
<1>0. TypeInv /\ TypeInv'
  BY TypeWorker DEF PlaceInv
<1>1. NoRequestInFlight' /\ UNCHANGED <<loop, dueList>>
  BY DEF PlaceInv, NoRequestInFlight, WorkerStep, Dequeue, ResolveTargets, LoadPostTargets,
     ClaimTarget, PreparePublish, Publish, PersistTargetOutcome, WorkerDrain, WriteResult
<1>2. \A j \in Instances, p \in Posts : Sending(j, p)' <=> Sending(j, p)
  BY <1>1 DEF Sending
<1>3. \A v \in Workers, p \in Posts : v # w => (Worked(v, p)' <=> Worked(v, p))
  BY <1>0, OthersWait DEF Worked
<1>4. CASE Dequeue(w)
  <2> DEFINE i == Host[w]
  <2>1. /\ i \in Instances /\ queue \in [Instances -> Seq(Snapshots)] /\ queue[i] # <<>>
        /\ worker[w].pc = "idle" /\ UNCHANGED status
    BY <1>0, <1>4, ConstantsAssumption DEF Dequeue, TypeInv, TypeOK
  <2>2. /\ Head(queue[i]) \in Snapshots /\ Len(Tail(queue[i])) = Len(queue[i]) - 1
        /\ \A k \in 1..Len(Tail(queue[i])) : Tail(queue[i])[k] = queue[i][k + 1]
        /\ Len(queue[i]) \in Nat \ {0} /\ Head(queue[i]) = queue[i][1]
    BY <2>1, HeadTailProperties, LenProperties, EmptySeq
  <2>3. queue'[i] = Tail(queue[i]) /\ \A j \in Instances : j # i => queue'[j] = queue[j]
    BY <1>4, <2>1 DEF Dequeue
  <2>q. PICK q \in Posts : q = Head(queue[i]).post
    BY <2>2 DEF Snapshots
  <2>4. q \in Posts /\ Queued(i, 1, q)
    BY <2>2, <2>q DEF Queued
  <2>5. \A p \in Posts : Worked(w, p)' <=> p = q
    <3>1. worker'[w] = [IdleWorker EXCEPT !.pc = "resolve", !.job = Head(queue[i])]
      BY <1>0, <1>4, GotoValue DEF Dequeue
    <3>2. worker'[w].pc = "resolve" /\ worker'[w].job = Head(queue[i])
      BY <3>1 DEF IdleWorker
    <3> QED
      BY <2>q, <3>2 DEF Worked
  <2> HIDE DEF i
  <2>6. \A j \in Instances, k \in Nat, p \in Posts :
          Queued(j, k, p)' => Queued(j, IF j = i THEN k + 1 ELSE k, p)
    <3> SUFFICES ASSUME NEW j \in Instances, NEW k \in Nat, NEW p \in Posts, Queued(j, k, p)'
                 PROVE  Queued(j, IF j = i THEN k + 1 ELSE k, p)
      OBVIOUS
    <3>1. CASE j = i
      <4>1. k \in 1..Len(Tail(queue[i])) /\ Tail(queue[i])[k].post = p
        BY <2>3, <3>1 DEF Queued
      <4>2. k + 1 \in 1..Len(queue[i]) /\ queue[i][k + 1].post = p
        BY <2>2, <4>1
      <4> QED
        BY <3>1, <4>2 DEF Queued
    <3>2. CASE j # i
      BY <2>3, <3>2 DEF Queued
    <3> QED
      BY <3>1, <3>2
  <2>7. \A p \in Posts : (Waiting(p)' => Waiting(p)) /\ (Held(p)' => Held(p))
    <3>1. \A p \in Posts : Waiting(p)' => Waiting(p)
      BY <1>2, <2>6 DEF Waiting
    <3> QED
      BY <1>3, <2>1, <2>4, <2>5, <3>1 DEF Held, Waiting
  <2>8. ~Waiting(q)' /\ \A v \in Workers : ~Worked(v, q)
    <3>1. \A j \in Instances : ~Sending(j, q)'
      <4>1. \A j \in Instances, k \in Nat : ~(Sending(j, q) /\ Queued(i, k, q))
        BY <2>1, <2>4 DEF PlaceInv, OnePlace
      <4>2. \A j \in Instances : ~Sending(j, q)
        BY <2>4, <4>1
      <4> QED
        BY <1>2, <2>4, <4>2
    <3>2. \A j \in Instances, k \in Nat : ~Queued(j, k, q)'
      <4> SUFFICES ASSUME NEW j \in Instances, NEW k \in Nat, Queued(j, k, q)' PROVE FALSE
        OBVIOUS
      <4>1. Queued(j, IF j = i THEN k + 1 ELSE k, q) /\ k # 0
        <5>1. Queued(j, IF j = i THEN k + 1 ELSE k, q)
          BY <2>4, <2>6
        <5>2. k \in 1..Len(queue'[j])
          BY DEF Queued
        <5> QED
          BY <5>1, <5>2
      <4> DEFINE l == IF j = i THEN k + 1 ELSE k
      <4>2. l \in Nat /\ (j = i => l # 1)
        BY <4>1
      <4> HIDE DEF l
      <4>3. i = j /\ 1 = l
        BY <2>1, <2>4, <4>1, <4>2 DEF PlaceInv, OnePlace, l
      <4> QED
        BY <4>2, <4>3
    <3>3. Waiting(q)
      BY <2>1, <2>4 DEF Waiting
    <3> QED
      BY <2>4, <3>1, <3>2, <3>3 DEF PlaceInv, OnePlace, Waiting
  <2>9. OnePlace'
    <3> SUFFICES ASSUME NEW p \in Posts
                 PROVE  /\ \A m, j \in Instances, k, l \in Nat :
                             Queued(m, k, p)' /\ Queued(j, l, p)' => m = j /\ k = l
                        /\ \A m, j \in Instances : Sending(m, p)' /\ Sending(j, p)' => m = j
                        /\ \A v, u \in Workers : Worked(v, p)' /\ Worked(u, p)' => v = u
                        /\ \A m, j \in Instances, k \in Nat : ~(Sending(m, p)' /\ Queued(j, k, p)')
                        /\ \A v \in Workers : Worked(v, p)' => ~Waiting(p)'
      BY DEF OnePlace
    <3>1. ASSUME NEW m \in Instances, NEW j \in Instances, NEW k \in Nat, NEW l \in Nat,
                 Queued(m, k, p)', Queued(j, l, p)'
          PROVE  m = j /\ k = l
      <4> DEFINE a == IF m = i THEN k + 1 ELSE k
                 b == IF j = i THEN l + 1 ELSE l
      <4>1. a \in Nat /\ b \in Nat /\ Queued(m, a, p) /\ Queued(j, b, p)
        BY <2>6, <3>1
      <4> HIDE DEF a, b
      <4>2. m = j /\ a = b
        BY <4>1 DEF PlaceInv, OnePlace
      <4> QED
        BY <4>2 DEF a, b
    <3>2. \A m, j \in Instances : Sending(m, p)' /\ Sending(j, p)' => m = j
      BY <1>2 DEF PlaceInv, OnePlace
    <3>3. \A v, u \in Workers : Worked(v, p)' /\ Worked(u, p)' => v = u
      BY <1>3, <2>5, <2>8 DEF PlaceInv, OnePlace
    <3>4. ASSUME NEW m \in Instances, NEW j \in Instances, NEW k \in Nat,
                 Sending(m, p)', Queued(j, k, p)'
          PROVE  FALSE
      <4>1. \E l \in Nat : Queued(j, l, p)
        BY <2>6, <3>4
      <4> QED
        BY <1>2, <3>4, <4>1 DEF PlaceInv, OnePlace
    <3>5. ASSUME NEW v \in Workers, Worked(v, p)' PROVE ~Waiting(p)'
      <4>1. CASE p = q
        BY <2>8, <4>1
      <4>2. CASE p # q
        <5>1. Worked(v, p)
          BY <1>3, <2>5, <3>5, <4>2
        <5> QED
          BY <2>7, <5>1 DEF PlaceInv, OnePlace
      <4> QED
        BY <4>1, <4>2
    <3> QED
      BY <3>1, <3>2, <3>3, <3>4, <3>5
  <2>10. HeldIsTaken'
    BY <2>1, <2>7 DEF PlaceInv, HeldIsTaken
  <2>11. Waiting(q)
    BY <2>1, <2>4 DEF Waiting
  <2> QED
    BY <1>0, <1>1, <2>5, <2>7, <2>9, <2>10, <2>11 DEF PlaceInv
<1>5. CASE ~Dequeue(w)
  <2>1. \A p \in Posts : Worked(w, p)' => Worked(w, p)
    BY <1>0, <1>5, JobKept DEF Worked
  <2>2. \A j \in Instances, k \in Nat, p \in Posts : Queued(j, k, p)' <=> Queued(j, k, p)
    BY <1>0, <1>5, JobKept DEF Queued
  <2>3. \A p \in Posts : Held(p)' => Held(p)
    BY <1>2, <1>3, <2>1, <2>2 DEF Held, Waiting
  <2>5. \A p \in Posts : Waiting(p)' => Waiting(p)
    BY <1>2, <2>2 DEF Waiting
  <2>4. ASSUME NEW p \in Posts, Held(p)' PROVE status'[p] \in Taken
    <3>1. CASE status'[p] = status[p]
      BY <2>3, <2>4, <3>1 DEF PlaceInv, HeldIsTaken
    <3>2. CASE WriteResult(w) /\ worker'[w].pc = "idle" /\ p = worker[w].job.post
      <4>1. Worked(w, p) /\ ~Worked(w, p)'
        BY <3>2 DEF Worked, WriteResult
      <4>2. ~Held(p)'
        BY <1>2, <1>3, <2>2, <4>1 DEF PlaceInv, OnePlace, Held, Waiting
      <4> QED
        BY <2>4, <4>2
    <3> QED
      BY <1>0, <3>1, <3>2, WorkerStatus
  <2> QED
    BY <1>0, <1>1, <1>2, <1>3, <1>5, <2>1, <2>2, <2>3, <2>4, <2>5, PlacesKept
<1> QED
  BY <1>4, <1>5

\* What a request does to the status of a post on SQLite: it never takes a post out of the
\* scheduler's hands, and it declares none posted or failed.
LEMMA RequestStatus ==
  ASSUME TypeInv, OnSQLite, NoRequestInFlight, RequestStep
  PROVE  /\ NoRequestInFlight' /\ UNCHANGED <<loop, dueList, queue, worker, claims, accepted>>
         /\ \A p \in Posts :
              /\ status[p] \in Taken => status'[p] \in Taken
              /\ \A s \in {"posted", "failed", "new"} : status'[p] = s => status[p] = s
<1> USE DEF dbVars, schedVars, histVars, Taken, Exists, PostStatus
<1> DEFINE Quiet == \A p \in Posts :
              /\ status[p] \in Taken => status'[p] \in Taken
              /\ \A s \in {"posted", "failed", "new"} : status'[p] = s => status[p] = s
<1>0. status \in [Posts -> PostStatus \cup {"new", "deleted"}]
  BY DEF TypeInv, TypeOK
<1>1. /\ NoRequestInFlight' /\ UNCHANGED <<loop, dueList, queue, worker, claims, accepted>>
      /\ \A r \in Requests : ~ReadUpdate(r) /\ ~WriteUpdate(r) /\ \A p \in Posts : ~CheckUpdate(r, p)
  BY DEF OnSQLite, NoRequestInFlight, RequestStep, CreatePost, BecomeDue, UpdatePost,
     CheckUpdate, ReadUpdate, WriteUpdate, CompleteReview, CancelPost, DeletePost,
     DisconnectAccount, AdminRetryFailedPost, RepairFuturePosted
<1>2. ASSUME NEW p \in Posts, CreatePost(p) PROVE Quiet
  BY <1>0, <1>2 DEF CreatePost
<1>3. ASSUME NEW p \in Posts, UpdatePost(p) PROVE Quiet
  <2>1. PICK in \in Patches : UpdateAllowed(p, in) /\ PatchScheduledPost(p, in, status[p], due[p])
    BY <1>3 DEF UpdatePost
  <2>2. status[p] \in PostStatus
    BY <2>1 DEF UpdateAllowed
  <2> DEFINE v == ResolvePostStatusOnUpdate(status[p], MergedDraft(in, status[p]),
                                           MergedFuture(in, due[p]))
  <2>3. UNCHANGED status \/ status' = [status EXCEPT ![p] = v]
    BY <2>1 DEF PatchScheduledPost
  <2>4. /\ status[p] \in Taken => v \in Taken
        /\ \A s \in {"posted", "failed", "new"} : v = s => status[p] = s
    <3>1. \/ v = status[p] \/ (status[p] \notin Taken /\ v \in {"draft", "pending"})
      BY <2>2 DEF ResolvePostStatusOnUpdate
    <3> QED
      BY <3>1
  <2> HIDE DEF v
  <2>5. \A q \in Posts : status'[q] = status[q] \/ (q = p /\ status'[q] = v)
    BY <1>0, <2>3
  <2> QED
    BY <2>4, <2>5
<1>4. ASSUME NEW p \in Posts, CompleteReview(p) \/ CancelPost(p) \/ DeletePost(p) PROVE Quiet
  BY <1>0, <1>4 DEF CompleteReview, CancelPost, DeletePost
<1>5. ASSUME NEW p \in Posts, BecomeDue(p) PROVE Quiet
  BY <1>5 DEF BecomeDue
<1>6. ASSUME NEW p \in Posts, AdminRetryFailedPost(p) PROVE Quiet
  BY <1>0, <1>6 DEF AdminRetryFailedPost
<1>7. ASSUME NEW a \in Accounts, DisconnectAccount(a) PROVE Quiet
  BY <1>7 DEF DisconnectAccount
<1>8. ASSUME RepairFuturePosted PROVE Quiet
  BY <1>0, <1>8 DEF RepairFuturePosted
<1>9. Quiet
  BY <1>1, <1>2, <1>3, <1>4, <1>5, <1>6, <1>7, <1>8 DEF RequestStep
<1> QED
  BY <1>1, <1>9

\* No request changes the place of a post, or takes it back from there.
LEMMA PlaceRequest ==
  ASSUME PlaceInv, OnSQLite, RequestStep
  PROVE  PlaceInv' /\ \A p \in Posts : Waiting(p)' <=> Waiting(p)
<1>0. TypeInv /\ TypeInv'
  BY TypeRequest DEF PlaceInv
<1>1. NoRequestInFlight' /\ UNCHANGED <<loop, dueList, queue, worker>>
  BY <1>0, RequestStatus DEF PlaceInv
<1>2. /\ \A i \in Instances, k \in Nat, p \in Posts : Queued(i, k, p)' <=> Queued(i, k, p)
      /\ \A i \in Instances, p \in Posts : Sending(i, p)' <=> Sending(i, p)
      /\ \A w \in Workers, p \in Posts : Worked(w, p)' <=> Worked(w, p)
  BY <1>1 DEF Queued, Sending, Worked
<1>3. \A p \in Posts : (Waiting(p)' <=> Waiting(p)) /\ (Held(p)' <=> Held(p))
  BY <1>2 DEF Held, Waiting
<1>4. \A p \in Posts : Held(p)' => status'[p] \in Taken
  BY <1>0, <1>3, RequestStatus DEF PlaceInv, HeldIsTaken
<1> QED
  BY <1>0, <1>1, <1>2, <1>3, <1>4, PlacesKept

\* The place invariant is inductive on SQLite.
LEMMA PlaceStep == OnSQLite /\ PlaceInv /\ [Next]_vars => PlaceInv'
<1> SUFFICES ASSUME OnSQLite, PlaceInv, [Next]_vars PROVE PlaceInv'
  OBVIOUS
<1>1. CASE UNCHANGED vars
  <2>1. TypeInv'
    BY <1>1, TypeStep DEF PlaceInv
  <2>2. UNCHANGED <<status, loop, dueList, queue, worker, request>>
    BY <1>1 DEF vars, dbVars, schedVars
  <2>3. /\ \A i \in Instances, k \in Nat, p \in Posts : Queued(i, k, p)' <=> Queued(i, k, p)
        /\ \A i \in Instances, p \in Posts : Sending(i, p)' <=> Sending(i, p)
        /\ \A w \in Workers, p \in Posts : Worked(w, p)' <=> Worked(w, p)
    BY <2>2 DEF Queued, Sending, Worked
  <2>4. \A p \in Posts : Held(p)' => status'[p] \in Taken
    BY <2>2, <2>3 DEF PlaceInv, HeldIsTaken, Held, Waiting
  <2>5. NoRequestInFlight'
    BY <2>2 DEF PlaceInv, NoRequestInFlight
  <2> QED
    BY <2>1, <2>3, <2>4, <2>5, PlacesKept
<1>2. CASE Next
  BY <1>2, PlaceScheduler, PlaceCrash, PlaceWorker, PlaceRequest DEF Next
<1> QED
  BY <1>1, <1>2

\* Where all elements are equal there is at most one.
LEMMA AtMostOneElement ==
  ASSUME NEW S, \A x, y \in S : x = y
  PROVE  /\ Cardinality(S) \in {0, 1}
         /\ Cardinality(S) = 0 <=> S = {}
<1>1. CASE S = {}
  BY <1>1, FS_EmptySet
<1>2. CASE S # {}
  <2>1. PICK x : x \in S
    BY <1>2
  <2>2. S = {x}
    BY <2>1
  <2> QED
    BY <2>2, FS_Singleton
<1> QED
  BY <1>1, <1>2

\* On SQLite a post is never in two places from which it can be published, and a post in such
\* a place has not been given back to the review queue or to the due posts, for any number
\* of replicas and workers, through crashes and failed transactions and whatever the
\* clients send: the guarded MarkPostProcessing and ResolvePostStatusOnUpdate.
THEOREM ClaimIsExclusive == OnSQLite => (Spec => []ExclusiveClaim)
<1> SUFFICES ASSUME OnSQLite PROVE Spec => []ExclusiveClaim
  OBVIOUS
<1>1. PlaceInv /\ [Next]_vars => PlaceInv'
  BY PlaceStep
<1>2. PlaceInv => ExclusiveClaim
  <2> SUFFICES ASSUME PlaceInv, NEW p \in Posts
               PROVE  LET n == Cardinality(QueuedAt(p)) + Cardinality(SendingAt(p))
                               + Cardinality(WorkedBy(p))
                      IN  n <= 1 /\ (n = 1 => status[p] \in {"processing", "cancelled", "deleted"})
    BY DEF ExclusiveClaim
  <2>1. \A s \in QueuedAt(p) : s[1] \in Instances /\ s[2] \in Nat /\ Queued(s[1], s[2], p)
    <3> SUFFICES ASSUME NEW i \in Instances, NEW k \in 1..QueueCap,
                        k <= Len(queue[i]), queue[i][k].post = p
                 PROVE  k \in Nat /\ Queued(i, k, p)
      BY DEF QueuedAt
    <3>1. Len(queue[i]) \in Nat
      BY LenProperties DEF PlaceInv, TypeInv, TypeOK
    <3> QED
      BY <3>1, ConstantsAssumption DEF Queued
  <2>2. /\ \A i \in SendingAt(p) : i \in Instances /\ Sending(i, p)
        /\ \A w \in WorkedBy(p) : w \in Workers /\ Worked(w, p)
    BY DEF SendingAt, WorkedBy, Sending, Worked
  <2>3. \A s, t \in QueuedAt(p) : s = t
    <3> SUFFICES ASSUME NEW s \in QueuedAt(p), NEW t \in QueuedAt(p) PROVE s = t
      OBVIOUS
    <3>1. s[1] = t[1] /\ s[2] = t[2]
      BY <2>1 DEF PlaceInv, OnePlace
    <3>2. s \in Instances \X (1..QueueCap) /\ t \in Instances \X (1..QueueCap)
      BY DEF QueuedAt
    <3> QED
      BY <3>1, <3>2
  <2>4. /\ \A i, j \in SendingAt(p) : i = j
        /\ \A v, w \in WorkedBy(p) : v = w
    BY <2>2 DEF PlaceInv, OnePlace
  <2>5. /\ QueuedAt(p) # {} => Waiting(p) /\ SendingAt(p) = {}
        /\ SendingAt(p) # {} => Waiting(p)
        /\ WorkedBy(p) # {} => ~Waiting(p)
    BY <2>1, <2>2 DEF PlaceInv, OnePlace, Waiting
  <2>6. QueuedAt(p) # {} \/ SendingAt(p) # {} \/ WorkedBy(p) # {} => Held(p)
    BY <2>2, <2>5 DEF Held
  <2>7. Held(p) => status[p] \in {"processing", "cancelled", "deleted"}
    BY DEF PlaceInv, HeldIsTaken, Taken
  <2> DEFINE x == Cardinality(QueuedAt(p))
             y == Cardinality(SendingAt(p))
             z == Cardinality(WorkedBy(p))
  <2>8. /\ x \in {0, 1} /\ (x = 0 <=> QueuedAt(p) = {})
        /\ y \in {0, 1} /\ (y = 0 <=> SendingAt(p) = {})
        /\ z \in {0, 1} /\ (z = 0 <=> WorkedBy(p) = {})
    BY <2>3, <2>4, AtMostOneElement
  <2> HIDE DEF x, y, z
  <2>9. x + y + z <= 1 /\ (x + y + z = 1 => Held(p))
    BY <2>5, <2>6, <2>8
  <2> QED
    BY <2>7, <2>9 DEF x, y, z
<1> QED
  BY <1>1, <1>2, PlaceInit, PTL DEF Spec

-----------------------------------------------------------------------------
(* The status of a post agrees with its target rows: what a worker knows   *)
(* of the rows of its post, and what no longer changes once it let go.     *)

\* No PATCH names the target accounts of a post again.
NoRetarget == \A in \in Patches : ~in.retarget

\* The worker has claimed a target and not moved on from it.
Busy == {"prepare", "publish", "persist", "drain"}

\* The worker is through with the account: it is none of those left to publish to.
Done(w, a) == \/ worker[w].pc = "result"
              \/ worker[w].pc \in Busy \cup {"claim"} /\ a \notin worker[w].todo

\* Without firstErr every account the worker is through with has been published to, and
\* an unsettled row of its post is the one the worker is busy with.
WorkerRows(w) ==
  /\ \A p \in Posts, a \in Accounts : Worked(w, p) =>
       /\ Done(w, a) /\ ~worker[w].err => target[p][a] \in {"posted", "none"}
       /\ target[p][a] = "processing" => worker[w].pc \in Busy /\ worker[w].cur = a
  /\ worker[w].pc \in Busy => worker[w].cur \in worker[w].todo
  /\ worker[w].pc = "drain" =>
       target[worker[w].job.post][worker[w].cur] \in {OutcomeStatus[worker[w].outcome], "none"}

\* A post whose worker left an outcome unknown is never taken again.
PostRows(p) ==
  \A a \in Accounts :
    /\ status[p] = "posted" => target[p][a] \in {"posted", "none"}
    /\ target[p][a] = "processing" => status[p] \in Taken /\ ~Waiting(p)

StatusInv ==
  /\ PlaceInv
  /\ \A w \in Workers : WorkerRows(w)
  /\ \A p \in Posts : PostRows(p)

\* Before the first post there is nothing to agree on.
LEMMA StatusInit == Init => StatusInv
<1> SUFFICES ASSUME Init PROVE StatusInv
  OBVIOUS
<1>1. PlaceInv
  BY PlaceInit
<1>2. \A w \in Workers : WorkerRows(w)
  BY DEF Init, WorkerRows, Worked, IdleWorker, Busy
<1>3. \A p \in Posts : PostRows(p)
  BY DEF Init, PostRows, NoRows
<1> QED
  BY <1>1, <1>2, <1>3 DEF StatusInv

\* A step in which no worker moves on and no row of a taken post changes but by deletion.
LEMMA StatusKept ==
  ASSUME StatusInv, PlaceInv',
         \A w \in Workers : worker'[w] = worker[w] \/ worker'[w].pc = "idle",
         \A p \in Posts :
           /\ Waiting(p)' => Waiting(p) \/ status[p] \notin Taken
           /\ status[p] \in Taken => status'[p] \in Taken
           /\ status'[p] = "posted" => status[p] = "posted",
         \A p \in Posts, a \in Accounts :
           \/ target'[p][a] = target[p][a]
           \/ target'[p][a] = "none"
           \/ status[p] \notin Taken /\ status'[p] # "posted" /\ target'[p][a] # "processing"
  PROVE  StatusInv'
<1>1. ASSUME NEW w \in Workers PROVE WorkerRows(w)'
  <2>1. CASE worker'[w].pc = "idle"
    BY <2>1 DEF WorkerRows, Worked, Busy
  <2>2. CASE worker'[w] = worker[w] /\ worker[w].pc # "idle"
    <3> DEFINE q == worker[w].job.post
    <3>1. q \in Posts /\ (worker[w].pc = "drain" => worker[w].cur \in Accounts)
      BY <2>2 DEF StatusInv, PlaceInv, TypeInv, ShapeOK, WorkerShape, Snapshots
    <3>2. Worked(w, q)
      BY <2>2 DEF Worked
    <3>3. status[q] \in Taken
      BY <3>1, <3>2 DEF StatusInv, PlaceInv, HeldIsTaken, Held
    <3>4. \A a \in Accounts : target'[q][a] = target[q][a] \/ target'[q][a] = "none"
      BY <3>1, <3>3
    <3>5. \A p \in Posts : Worked(w, p)' => p = q
      BY <2>2 DEF Worked
    <3>6. \A a \in Accounts : Done(w, a)' <=> Done(w, a)
      BY <2>2 DEF Done
    <3>7. WorkerRows(w)
      BY DEF StatusInv
    <3> QED
      BY <2>2, <3>1, <3>2, <3>4, <3>5, <3>6, <3>7 DEF WorkerRows
  <2> QED
    BY <2>1, <2>2
<1>2. ASSUME NEW p \in Posts PROVE PostRows(p)'
  <2> SUFFICES ASSUME NEW a \in Accounts
               PROVE  /\ status'[p] = "posted" => target'[p][a] \in {"posted", "none"}
                      /\ target'[p][a] = "processing" => status'[p] \in Taken /\ ~Waiting(p)'
    BY DEF PostRows
  <2>1. PostRows(p)
    BY DEF StatusInv
  <2> QED
    BY <2>1 DEF PostRows
<1> QED
  BY <1>1, <1>2 DEF StatusInv

\* The poll loop and a restart write no row; a post is taken only out of a settled status.
LEMMA StatusScheduler ==
  ASSUME StatusInv, NEW i \in Instances, SchedulerStep(i) \/ Crash(i)
  PROVE  StatusInv'
<1> USE DEF dbVars
<1>0. PlaceInv /\ PlaceInv' /\ TypeInv
  BY PlaceScheduler, PlaceCrash DEF StatusInv, PlaceInv
<1>1. /\ UNCHANGED target
      /\ \A w \in Workers : worker'[w] = worker[w] \/ worker'[w].pc = "idle"
  BY DEF SchedulerStep, LoopDrain, ListDuePosts, MarkListed, Enqueue, Crash, IdleWorker
<1>2. ASSUME NEW p \in Posts
      PROVE  /\ status[p] \in Taken => status'[p] \in Taken
             /\ status'[p] = "posted" => status[p] = "posted"
  BY <1>0 DEF SchedulerStep, LoopDrain, ListDuePosts, MarkListed, MarkPostProcessing, Enqueue, Crash,
     Taken, TypeInv, TypeOK
<1>3. \A p \in Posts : Waiting(p)' => Waiting(p) \/ status[p] \notin Taken
  BY <1>0, PlaceScheduler, PlaceCrash
<1> QED
  BY <1>0, <1>1, <1>2, <1>3, StatusKept

\* What a request does to the target rows as long as no PATCH retargets.
LEMMA RequestRows ==
  ASSUME TypeInv, OnSQLite, NoRetarget, NoRequestInFlight, RequestStep,
         NEW p \in Posts, NEW a \in Accounts
  PROVE  \/ target'[p][a] = target[p][a]
         \/ target'[p][a] = "none"
         \/ status[p] = "new" /\ status'[p] \in {"draft", "pending"} /\ target'[p][a] = "pending"
         \/ /\ "retry" \in Ops /\ status[p] = "failed" /\ status'[p] = "pending"
            /\ target[p][a] \notin {"posted", "none"} /\ target'[p][a] = "pending"
<1> USE DEF dbVars
<1>0. /\ target \in [Posts -> [Accounts -> TargetStatus \cup {"none"}]]
      /\ status \in [Posts -> PostStatus \cup {"new", "deleted"}]
  BY DEF TypeInv, TypeOK
<1>1. \A r \in Requests : ~ReadUpdate(r) /\ ~WriteUpdate(r) /\ \A q \in Posts : ~CheckUpdate(r, q)
  BY DEF OnSQLite, NoRequestInFlight, CheckUpdate, ReadUpdate, WriteUpdate
<1>2. ASSUME NEW q \in Posts, CreatePost(q) PROVE target'[p][a] = target[p][a] \/
               (target'[p][a] = "none" \/ (status[p] = "new" /\ status'[p] \in {"draft", "pending"}
                                          /\ target'[p][a] = "pending"))
  <2>1. PICK S \in SUBSET accounts, draft \in BOOLEAN :
          /\ status' = [status EXCEPT ![q] = IF draft THEN "draft" ELSE "pending"]
          /\ target' = [target EXCEPT ![q] = PendingRows(S)]
    BY <1>2 DEF CreatePost
  <2>2. PendingRows(S)[a] \in {"pending", "none"}
    BY DEF PendingRows
  <2>3. CASE p = q
    BY <1>0, <1>2, <2>1, <2>2, <2>3 DEF CreatePost
  <2>4. CASE p # q
    BY <1>0, <2>1, <2>4
  <2> QED
    BY <2>3, <2>4
<1>3. ASSUME NEW q \in Posts, UpdatePost(q) PROVE UNCHANGED target
  BY <1>3 DEF UpdatePost, PatchScheduledPost, NoRetarget
<1>4. ASSUME NEW q \in Posts, BecomeDue(q) \/ CompleteReview(q) \/ CancelPost(q) PROVE UNCHANGED target
  BY <1>4 DEF BecomeDue, CompleteReview, CancelPost
<1>5. ASSUME NEW q \in Posts, DeletePost(q) PROVE target'[p][a] = target[p][a] \/ target'[p][a] = "none"
  BY <1>0, <1>5 DEF DeletePost, NoRows
<1>6. ASSUME NEW q \in Posts, AdminRetryFailedPost(q)
      PROVE  \/ target'[p][a] = target[p][a]
             \/ /\ "retry" \in Ops /\ status[p] = "failed" /\ status'[p] = "pending"
                /\ target[p][a] \notin {"posted", "none"} /\ target'[p][a] = "pending"
  <2>1. CASE p = q
    BY <1>0, <1>6, <2>1 DEF AdminRetryFailedPost
  <2>2. CASE p # q
    BY <1>0, <1>6, <2>2 DEF AdminRetryFailedPost
  <2> QED
    BY <2>1, <2>2
<1>7. ASSUME NEW b \in Accounts, DisconnectAccount(b)
      PROVE  target'[p][a] = target[p][a] \/ target'[p][a] = "none"
  BY <1>0, <1>7 DEF DisconnectAccount
<1>8. ASSUME RepairFuturePosted PROVE UNCHANGED target
  BY <1>8 DEF RepairFuturePosted
<1> QED
  BY <1>1, <1>2, <1>3, <1>4, <1>5, <1>6, <1>7, <1>8 DEF RequestStep

\* No request but a retarget makes the rows disagree with the status.
LEMMA StatusRequest ==
  ASSUME StatusInv, OnSQLite, NoRetarget, RequestStep
  PROVE  StatusInv'
<1>0. TypeInv /\ NoRequestInFlight /\ PlaceInv' /\ \A p \in Posts : Waiting(p)' <=> Waiting(p)
  BY PlaceRequest DEF StatusInv, PlaceInv
<1>1. UNCHANGED worker
      /\ \A p \in Posts : /\ status[p] \in Taken => status'[p] \in Taken
                          /\ status'[p] = "posted" => status[p] = "posted"
  BY <1>0, RequestStatus
<1>2. \A p \in Posts, a \in Accounts :
        \/ target'[p][a] = target[p][a]
        \/ target'[p][a] = "none"
        \/ status[p] \notin Taken /\ status'[p] # "posted" /\ target'[p][a] # "processing"
  BY <1>0, RequestRows DEF Taken
<1> QED
  BY <1>0, <1>1, <1>2, StatusKept

\* The fields of a worker's state after each of its moves.
LEMMA MoveFields ==
  ASSUME NEW s \in WorkerStates, NEW o, NEW c, NEW n, NEW a, NEW S, NEW e
  PROVE  /\ LET t == [s EXCEPT !.pc = c]
            IN  t.pc = c /\ t.job = s.job /\ t.todo = s.todo /\ t.cur = s.cur /\ t.err = s.err
                /\ t.outcome = s.outcome
         /\ LET t == [s EXCEPT !.pc = c, !.outcome = o]
            IN  t.pc = c /\ t.job = s.job /\ t.todo = s.todo /\ t.cur = s.cur /\ t.err = s.err
                /\ t.outcome = o
         /\ LET t == [s EXCEPT !.pc = c, !.cur = a, !.try = n]
            IN  t.pc = c /\ t.job = s.job /\ t.todo = s.todo /\ t.cur = a /\ t.err = s.err
         /\ LET t == [s EXCEPT !.pc = c, !.todo = S]
            IN  t.pc = c /\ t.job = s.job /\ t.todo = S /\ t.err = s.err
         /\ LET t == [s EXCEPT !.pc = c, !.err = e]
            IN  t.pc = c /\ t.job = s.job /\ t.todo = s.todo /\ t.err = e
         /\ LET t == [s EXCEPT !.pc = c, !.todo = S, !.cur = a, !.try = n, !.outcome = o, !.err = e]
            IN  t.pc = c /\ t.job = s.job /\ t.todo = S /\ t.err = e
  BY DEF WorkerStates

\* What each step of processPost does to the worker's own state and to the rows of its post.
LEMMA WorkerEffects ==
  ASSUME TypeInv, NEW w \in Workers, WorkerStep(w), ~Dequeue(w)
  PROVE  LET W == worker[w]
             V == worker'[w]
             p == W.job.post
             \* A step that writes no row.
             NoWrite == UNCHANGED <<target, claims>>
         IN  \/ V.pc = "idle" /\ NoWrite
             \/ /\ W.pc \in {"resolve", "load", "claim"} /\ V.pc = "result" /\ V.err /\ NoWrite
             \/ /\ W.pc = "resolve" /\ V.pc = "load" /\ NoWrite
             \/ /\ W.pc = "load" /\ NoWrite
                /\ V.todo = {a \in Accounts : target[p][a] \notin {"none", "posted"}}
                /\ V.pc = IF V.todo = {} THEN "result" ELSE "claim"
             \/ \E a \in W.todo :
                  /\ W.pc = "claim" /\ V.pc = "prepare" /\ V.cur = a
                  /\ V.todo = W.todo /\ V.err = W.err
                  /\ target' = [target EXCEPT ![p][a] = "processing"]
                  /\ claims' = [claims EXCEPT ![p][a] = @ + 1]
             \/ /\ W.pc \in {"prepare", "publish"} /\ V.pc \in {"publish", "persist"}
                /\ V.cur = W.cur /\ V.todo = W.todo /\ V.err = W.err /\ NoWrite
             \/ /\ W.pc = "persist" /\ V.pc = "drain" /\ V.cur = W.cur /\ V.todo = W.todo
                /\ V.err = W.err /\ V.outcome = W.outcome /\ UNCHANGED claims
                /\ target' = [target EXCEPT ![p][W.cur] =
                                IF @ = "none" THEN @ ELSE OutcomeStatus[W.outcome]]
             \/ /\ W.pc = "drain" /\ W.outcome # "unknown" /\ NoWrite
                /\ V.todo = W.todo \ {W.cur}
                /\ V.pc = IF V.todo = {} THEN "result" ELSE "claim"
                /\ V.err = (W.err \/ W.outcome = "failed")
<1> USE DEF dbVars, histVars
<1> DEFINE W == worker[w]
           V == worker'[w]
<1>0. W \in WorkerStates
  BY DEF TypeInv, TypeOK
<1>a. Goto(w, IdleWorker) => V.pc = "idle"
  BY GotoValue DEF IdleWorker
<1>b. ASSUME Goto(w, [W EXCEPT !.pc = "result", !.err = TRUE]) PROVE V.pc = "result" /\ V.err
  <2>1. V = [W EXCEPT !.pc = "result", !.err = TRUE]
    BY <1>b, GotoValue
  <2> QED
    BY <1>0, <2>1, MoveFields
<1>1. CASE ResolveTargets(w)
  <2>1. ASSUME Goto(w, [W EXCEPT !.pc = "load"]) PROVE V.pc = "load"
    <3>1. V = [W EXCEPT !.pc = "load"]
      BY <2>1, GotoValue
    <3> QED
      BY <1>0, <3>1, MoveFields
  <2> QED
    BY <1>1, <1>b, <2>1 DEF ResolveTargets
<1>2. CASE LoadPostTargets(w)
  <2> DEFINE rows == {a \in Accounts : target[W.job.post][a] \notin {"none", "posted"}}
             c == IF rows = {} THEN "result" ELSE "claim"
  <2>1. ASSUME Goto(w, [W EXCEPT !.pc = c, !.todo = rows]) PROVE V.pc = c /\ V.todo = rows
    <3>1. V = [W EXCEPT !.pc = c, !.todo = rows]
      BY <2>1, GotoValue
    <3> HIDE DEF c, rows
    <3> QED
      BY <1>0, <3>1, MoveFields
  <2>2. /\ W.pc = "load" /\ UNCHANGED <<target, claims>>
        /\ \/ Goto(w, [W EXCEPT !.pc = c, !.todo = rows])
           \/ Goto(w, [W EXCEPT !.pc = "result", !.err = TRUE])
    BY <1>2 DEF LoadPostTargets
  <2> QED
    BY <1>b, <2>1, <2>2
<1>3. CASE ClaimTarget(w)
  <2>1. ASSUME NEW a, NEW n, Goto(w, [W EXCEPT !.pc = "prepare", !.cur = a, !.try = n])
        PROVE  V.pc = "prepare" /\ V.cur = a /\ V.todo = W.todo /\ V.err = W.err
    <3>1. V = [W EXCEPT !.pc = "prepare", !.cur = a, !.try = n]
      BY <2>1, GotoValue
    <3> QED
      BY <1>0, <3>1, MoveFields
  <2>2. PICK a \in W.todo :
          \/ /\ target' = [target EXCEPT ![W.job.post][a] = "processing"]
             /\ claims' = [claims EXCEPT ![W.job.post][a] = @ + 1]
             /\ Goto(w, [W EXCEPT !.pc = "prepare", !.cur = a, !.try = claims[W.job.post][a] + 1])
          \/ UNCHANGED <<target, claims>> /\ Goto(w, IdleWorker)
          \/ UNCHANGED <<target, claims>> /\ Goto(w, [W EXCEPT !.pc = "result", !.err = TRUE])
    BY <1>3 DEF ClaimTarget
  <2>3. W.pc = "claim"
    BY <1>3 DEF ClaimTarget
  <2> QED
    BY <1>a, <1>b, <2>1, <2>2, <2>3
<1>4. CASE PreparePublish(w) \/ Publish(w)
  <2>1. ASSUME NEW o, \/ Goto(w, [W EXCEPT !.pc = "persist", !.outcome = o])
                      \/ Goto(w, [W EXCEPT !.pc = "publish"])
        PROVE  V.pc \in {"publish", "persist"} /\ V.cur = W.cur /\ V.todo = W.todo /\ V.err = W.err
    <3>1. \/ V = [W EXCEPT !.pc = "persist", !.outcome = o]
          \/ V = [W EXCEPT !.pc = "publish"]
      BY <2>1, GotoValue
    <3>2. CASE V = [W EXCEPT !.pc = "persist", !.outcome = o]
      BY <1>0, <3>2, MoveFields
    <3>3. CASE V = [W EXCEPT !.pc = "publish"]
      BY <1>0, <3>3, MoveFields
    <3> QED
      BY <3>1, <3>2, <3>3
  <2>2. \E o : \/ Goto(w, [W EXCEPT !.pc = "persist", !.outcome = o])
               \/ Goto(w, [W EXCEPT !.pc = "publish"])
    BY <1>4 DEF PreparePublish, Publish
  <2>3. W.pc \in {"prepare", "publish"} /\ UNCHANGED <<target, claims>>
    BY <1>4 DEF PreparePublish, Publish
  <2> QED
    BY <2>1, <2>2, <2>3
<1>5. CASE PersistTargetOutcome(w)
  <2>1. ASSUME Goto(w, [W EXCEPT !.pc = "drain"])
        PROVE  V.pc = "drain" /\ V.cur = W.cur /\ V.todo = W.todo /\ V.err = W.err /\ V.outcome = W.outcome
    <3>1. V = [W EXCEPT !.pc = "drain"]
      BY <2>1, GotoValue
    <3> QED
      BY <1>0, <3>1, MoveFields
  <2>2. W.pc = "persist" /\ UNCHANGED claims
    BY <1>5 DEF PersistTargetOutcome
  <2>3. \/ /\ target' = [target EXCEPT ![W.job.post][W.cur] =
                           IF @ = "none" THEN @ ELSE OutcomeStatus[W.outcome]]
           /\ Goto(w, [W EXCEPT !.pc = "drain"])
        \/ UNCHANGED target /\ Goto(w, IdleWorker)
    BY <1>5 DEF PersistTargetOutcome
  <2> QED
    BY <1>a, <2>1, <2>2, <2>3
<1>6. CASE WorkerDrain(w)
  <2> DEFINE rest == W.todo \ {W.cur}
             c == IF rest = {} THEN "result" ELSE "claim"
             e == W.err \/ W.outcome = "failed"
  <2>1. ASSUME Goto(w, [W EXCEPT !.pc = c, !.todo = rest, !.cur = None, !.try = 0,
                                 !.outcome = "none", !.err = e])
        PROVE  V.pc = c /\ V.todo = rest /\ V.err = e
    <3>1. V = [W EXCEPT !.pc = c, !.todo = rest, !.cur = None, !.try = 0,
                        !.outcome = "none", !.err = e]
      BY <2>1, GotoValue
    <3> HIDE DEF c, rest, e
    <3> QED
      BY <1>0, <3>1, MoveFields
  <2>2. W.pc = "drain" /\ UNCHANGED <<target, claims>>
    BY <1>6 DEF WorkerDrain
  <2>3. \/ Goto(w, IdleWorker)
        \/ /\ W.outcome # "unknown"
           /\ Goto(w, [W EXCEPT !.pc = c, !.todo = rest, !.cur = None, !.try = 0,
                                !.outcome = "none", !.err = e])
    BY <1>6 DEF WorkerDrain
  <2> HIDE DEF e
  <2>4. CASE Goto(w, IdleWorker)
    BY <1>a, <2>2, <2>4
  <2>5. CASE /\ W.outcome # "unknown"
             /\ Goto(w, [W EXCEPT !.pc = c, !.todo = rest, !.cur = None, !.try = 0,
                                  !.outcome = "none", !.err = e])
    BY <2>1, <2>2, <2>5 DEF e
  <2> QED
    BY <2>3, <2>4, <2>5
<1>7. CASE WriteResult(w)
  BY <1>7, <1>a DEF WriteResult
<1> QED
  BY <1>1, <1>2, <1>3, <1>4, <1>5, <1>6, <1>7 DEF WorkerStep

\* A worker's step concerns its own post; the rest of the invariant follows.
LEMMA StatusLocal ==
  ASSUME StatusInv, PlaceInv', NEW w \in Workers, WorkerStep(w), WorkerRows(w)',
         \A p \in Posts : Waiting(p)' => Waiting(p),
         \A p \in Posts : ~Worked(w, p) =>
           status'[p] = status[p] /\ \A a \in Accounts : target'[p][a] = target[p][a],
         \A p \in Posts : Worked(w, p) => \A a \in Accounts :
           /\ status'[p] = "posted" => target'[p][a] \in {"posted", "none"}
           /\ target'[p][a] = "processing" => status'[p] \in Taken
  PROVE  StatusInv'
<1>0. TypeInv /\ PlaceInv
  BY DEF StatusInv, PlaceInv
<1>1. ASSUME NEW v \in Workers, v # w PROVE WorkerRows(v)'
  <2>1. worker'[v] = worker[v] /\ WorkerRows(v)
    BY <1>0, <1>1, OthersWait DEF StatusInv
  <2>2. /\ \A p \in Posts : Worked(v, p)' <=> Worked(v, p)
        /\ \A a \in Accounts : Done(v, a)' <=> Done(v, a)
    BY <2>1 DEF Worked, Done
  <2>3. ASSUME NEW p \in Posts, Worked(v, p)
        PROVE  \A a \in Accounts : target'[p][a] = target[p][a]
    <3>1. ~Worked(w, p)
      BY <1>0, <1>1, <2>3 DEF PlaceInv, OnePlace
    <3> QED
      BY <3>1
  <2>4. worker[v].pc = "drain" => /\ Worked(v, worker[v].job.post) /\ worker[v].job.post \in Posts
                                  /\ worker[v].cur \in Accounts
    BY <1>0 DEF TypeInv, ShapeOK, WorkerShape, Snapshots, Worked
  <2> QED
    BY <2>1, <2>2, <2>3, <2>4 DEF WorkerRows
<1>2. ASSUME NEW p \in Posts PROVE PostRows(p)'
  <2> SUFFICES ASSUME NEW a \in Accounts
               PROVE  /\ status'[p] = "posted" => target'[p][a] \in {"posted", "none"}
                      /\ target'[p][a] = "processing" => status'[p] \in Taken /\ ~Waiting(p)'
    BY DEF PostRows
  <2>1. CASE Worked(w, p)
    <3>1. ~Waiting(p)'
      BY <1>0, <2>1 DEF PlaceInv, OnePlace
    <3> QED
      BY <2>1, <3>1
  <2>2. CASE ~Worked(w, p)
    <3>1. PostRows(p) /\ status'[p] = status[p] /\ target'[p][a] = target[p][a]
      BY <2>2 DEF StatusInv
    <3> QED
      BY <3>1 DEF PostRows
  <2> QED
    BY <2>1, <2>2
<1> QED
  BY <1>1, <1>2 DEF StatusInv

\* Whatever becomes of its targets, a worker settles them before it writes the result.
LEMMA StatusWorker ==
  ASSUME StatusInv, NEW w \in Workers, WorkerStep(w)
  PROVE  StatusInv'
<1> DEFINE W == worker[w]
           V == worker'[w]
           q == W.job.post
<1>0. /\ TypeInv /\ PlaceInv /\ PlaceInv' /\ WorkerRows(w)
      /\ \A p \in Posts : Waiting(p)' => Waiting(p)
  BY PlaceWorker DEF StatusInv, PlaceInv
<1>1. CASE Dequeue(w)
  <2>1. UNCHANGED <<status, target>> /\ W.pc = "idle"
    BY <1>1 DEF Dequeue, dbVars
  <2>2. V.pc = "resolve"
    <3>1. V = [IdleWorker EXCEPT !.pc = "resolve", !.job = Head(queue[Host[w]])]
      BY <1>0, <1>1, GotoValue DEF Dequeue
    <3> QED
      BY <3>1 DEF IdleWorker
  <2>3. WorkerRows(w)'
    <3>1. \A p \in Posts : Worked(w, p)' => PostRows(p) /\ Waiting(p)
      BY <1>0, <1>1, PlaceWorker DEF StatusInv
    <3> QED
      BY <2>1, <2>2, <3>1 DEF WorkerRows, PostRows, Done, Busy
  <2> QED
    BY <1>0, <2>1, <2>3, StatusLocal DEF Worked
<1>2. CASE ~Dequeue(w)
  <2>0. /\ W.pc # "idle" /\ (V.pc = "idle" \/ V.job = W.job) /\ q \in Posts
        /\ \A p \in Posts : Worked(w, p) <=> p = q
        /\ \A p \in Posts : Worked(w, p)' <=> V.pc # "idle" /\ p = q
    <3>1. W.pc # "idle" /\ (V.pc = "idle" \/ V.job = W.job)
      BY <1>0, <1>2, JobKept
    <3>2. q \in Posts
      BY <1>0, <3>1 DEF TypeInv, ShapeOK, WorkerShape, Snapshots
    <3> QED
      BY <3>1, <3>2 DEF Worked
  <2>s. /\ status[q] \in Taken
        /\ \A a \in Accounts :
             /\ Done(w, a) /\ ~W.err => target[q][a] \in {"posted", "none"}
             /\ target[q][a] = "processing" => W.pc \in Busy /\ W.cur = a
        /\ W.pc \in Busy => W.cur \in W.todo /\ W.cur \in Accounts
        /\ W.pc = "drain" => target[q][W.cur] \in {OutcomeStatus[W.outcome], "none"}
        /\ W.pc \in {"persist", "drain"} => W.outcome \in {"posted", "failed", "unknown"}
    <3>1. status[q] \in Taken
      BY <1>0, <2>0 DEF PlaceInv, HeldIsTaken, Held
    <3>2. /\ W.pc \in Busy => W.cur \in Accounts
          /\ W.pc \in {"persist", "drain"} => W.outcome \in {"posted", "failed", "unknown"}
      BY <1>0 DEF TypeInv, TypeOK, ShapeOK, WorkerShape, WorkerStates, Busy
    <3> QED
      BY <1>0, <2>0, <3>1, <3>2 DEF WorkerRows
  <2>t. target \in [Posts -> [Accounts -> TargetStatus \cup {"none"}]] /\ W.todo \subseteq Accounts
    BY <1>0 DEF TypeInv, TypeOK, WorkerStates
  <2>1. CASE WriteResult(w)
    <3>1. UNCHANGED target /\ W.pc = "result" /\ W.err \in BOOLEAN
      BY <1>0, <2>1 DEF WriteResult, TypeInv, TypeOK, WorkerStates
    <3>2. V.pc = "idle"
      BY <1>0, <2>1, GotoValue DEF WriteResult, IdleWorker
    <3>3. WorkerRows(w)'
      BY <3>2 DEF WorkerRows, Worked, Busy
    <3>4. \A p \in Posts : p # q => status'[p] = status[p]
      BY <1>0, <2>1, WorkerStatus
    <3>5. \A a \in Accounts : target[q][a] # "processing"
      BY <2>s, <3>1 DEF Busy
    <3>6. status'[q] = "posted" => ~W.err
      <4>1. \/ UNCHANGED status
            \/ status' = [status EXCEPT ![q] = IF ~W.err THEN "posted" ELSE "failed"]
        BY <2>1 DEF WriteResult, MarkPostResult
      <4>2. status \in [Posts -> PostStatus \cup {"new", "deleted"}]
        BY <1>0 DEF TypeInv, TypeOK
      <4> QED
        BY <2>0, <2>s, <3>1, <4>1, <4>2 DEF Taken
    <3>7. \A a \in Accounts : status'[q] = "posted" => target[q][a] \in {"posted", "none"}
      BY <2>s, <3>1, <3>6 DEF Done
    <3> QED
      BY <1>0, <2>0, <3>1, <3>3, <3>4, <3>5, <3>7, StatusLocal
  <2>2. CASE ~WriteResult(w)
    <3>0. UNCHANGED status
      BY <1>0, <2>2, WorkerStatus
    <3>1. ASSUME UNCHANGED target, WorkerRows(w)' PROVE StatusInv'
      BY <1>0, <2>0, <2>s, <3>0, <3>1, StatusLocal DEF Taken
    <3>2. CASE V.pc = "idle" /\ UNCHANGED target
      <4>1. WorkerRows(w)'
        BY <3>2 DEF WorkerRows, Worked, Busy
      <4> QED
        BY <3>1, <3>2, <4>1
    <3>3. CASE /\ W.pc \in {"resolve", "load", "claim"} /\ V.pc = "result" /\ V.err
               /\ UNCHANGED target
      <4>1. WorkerRows(w)'
        BY <2>0, <2>s, <3>3 DEF WorkerRows, Busy
      <4> QED
        BY <3>1, <3>3, <4>1
    <3>4. CASE W.pc = "resolve" /\ V.pc = "load" /\ UNCHANGED target
      <4>1. WorkerRows(w)'
        BY <2>0, <2>s, <3>4 DEF WorkerRows, Busy, Done
      <4> QED
        BY <3>1, <3>4, <4>1
    <3>5. CASE /\ W.pc = "load" /\ UNCHANGED target
               /\ V.todo = {a \in Accounts : target[q][a] \notin {"none", "posted"}}
               /\ V.pc = IF V.todo = {} THEN "result" ELSE "claim"
      <4>1. \A a \in Accounts : Done(w, a)' => target[q][a] \in {"posted", "none"}
        BY <3>5 DEF Done, Busy
      <4>2. \A a \in Accounts : target[q][a] # "processing"
        BY <2>s, <3>5 DEF Busy
      <4>3. V.pc \notin Busy /\ V.pc # "drain"
        BY <3>5 DEF Busy
      <4>4. WorkerRows(w)'
        BY <2>0, <3>5, <4>1, <4>2, <4>3 DEF WorkerRows
      <4> QED
        BY <3>1, <3>5, <4>4
    <3>6. ASSUME NEW a \in W.todo, W.pc = "claim", V.pc = "prepare", V.cur = a,
                 V.todo = W.todo, V.err = W.err, target' = [target EXCEPT ![q][a] = "processing"]
          PROVE  StatusInv'
      <4>1. \A p \in Posts, b \in Accounts :
              target'[p][b] = IF p = q /\ b = a THEN "processing" ELSE target[p][b]
        BY <2>0, <2>t, <3>6, TableUpdate DEF TargetStatus
      <4>2. \A b \in Accounts : Done(w, b)' => Done(w, b) /\ b # a
        BY <3>6 DEF Done, Busy
      <4>3. \A b \in Accounts : target[q][b] # "processing"
        BY <2>s, <3>6 DEF Busy
      <4>4. WorkerRows(w)'
        <5>1. \A b \in Accounts : Done(w, b)' /\ ~V.err => target'[q][b] \in {"posted", "none"}
          BY <2>0, <2>s, <3>6, <4>1, <4>2
        <5>2. \A b \in Accounts : target'[q][b] = "processing" => b = a
          BY <2>0, <4>1, <4>3
        <5> QED
          BY <2>0, <3>6, <5>1, <5>2 DEF WorkerRows, Busy
      <4> QED
        BY <1>0, <2>0, <2>s, <3>0, <4>1, <4>4, StatusLocal DEF Taken
    <3>7. CASE /\ W.pc \in {"prepare", "publish"} /\ V.pc \in {"publish", "persist"}
               /\ V.cur = W.cur /\ V.todo = W.todo /\ V.err = W.err /\ UNCHANGED target
      <4>1. \A a \in Accounts : Done(w, a)' => Done(w, a)
        BY <3>7 DEF Done, Busy
      <4>2. WorkerRows(w)'
        BY <2>0, <2>s, <3>7, <4>1 DEF WorkerRows, Busy
      <4> QED
        BY <3>1, <3>7, <4>2
    <3>8. CASE /\ W.pc = "persist" /\ V.pc = "drain" /\ V.cur = W.cur /\ V.todo = W.todo
               /\ V.err = W.err /\ V.outcome = W.outcome
               /\ target' = [target EXCEPT ![q][W.cur] =
                               IF @ = "none" THEN @ ELSE OutcomeStatus[W.outcome]]
      <4>a. W.cur \in Accounts /\ W.cur \in W.todo /\ W.outcome \in {"posted", "failed", "unknown"}
        BY <2>s, <3>8 DEF Busy
      <4> DEFINE u == IF target[q][W.cur] = "none" THEN "none" ELSE OutcomeStatus[W.outcome]
      <4>b. u \in TargetStatus \cup {"none"} /\ u \in {OutcomeStatus[W.outcome], "none"}
        BY <4>a DEF OutcomeStatus, TargetStatus
      <4>c. target' = [target EXCEPT ![q][W.cur] = u]
        BY <3>8
      <4> HIDE DEF u
      <4>1. \A p \in Posts, b \in Accounts :
              target'[p][b] = IF p = q /\ b = W.cur THEN u ELSE target[p][b]
        BY <2>0, <2>t, <4>a, <4>b, <4>c, TableUpdate
      <4>2. \A b \in Accounts : Done(w, b)' => Done(w, b) /\ b # W.cur
        BY <3>8, <4>a DEF Done, Busy
      <4>3. WorkerRows(w)'
        <5>1. \A b \in Accounts : Done(w, b)' /\ ~V.err => target'[q][b] \in {"posted", "none"}
          BY <2>0, <2>s, <3>8, <4>1, <4>2
        <5>2. \A b \in Accounts : target'[q][b] = "processing" => b = W.cur
          BY <2>0, <2>s, <4>1
        <5>3. target'[q][W.cur] \in {OutcomeStatus[W.outcome], "none"}
          BY <2>0, <4>1, <4>a, <4>b
        <5> QED
          BY <2>0, <3>8, <4>a, <5>1, <5>2, <5>3 DEF WorkerRows, Busy
      <4> QED
        BY <1>0, <2>0, <2>s, <3>0, <4>1, <4>3, StatusLocal DEF Taken
    <3>9. CASE /\ W.pc = "drain" /\ W.outcome # "unknown" /\ UNCHANGED target
               /\ V.todo = W.todo \ {W.cur}
               /\ V.pc = IF V.todo = {} THEN "result" ELSE "claim"
               /\ V.err = (W.err \/ W.outcome = "failed")
      <4>1. W.outcome \in {"posted", "failed"} /\ W.cur \in Accounts
        BY <2>s, <3>9 DEF Busy
      <4>2. /\ target[q][W.cur] # "processing"
            /\ W.outcome = "posted" => target[q][W.cur] \in {"posted", "none"}
        BY <2>s, <3>9, <4>1 DEF OutcomeStatus
      <4>3. \A a \in Accounts : target[q][a] # "processing"
        BY <2>s, <4>2
      <4>4. \A a \in Accounts : Done(w, a)' => a = W.cur \/ Done(w, a)
        BY <3>9 DEF Done, Busy
      <4>5. ~V.err => ~W.err /\ W.outcome = "posted"
        BY <3>9, <4>1
      <4>6. \A a \in Accounts : Done(w, a)' /\ ~V.err => target[q][a] \in {"posted", "none"}
        BY <2>s, <4>2, <4>4, <4>5
      <4>7. V.pc \notin Busy /\ V.pc # "drain"
        BY <3>9 DEF Busy
      <4>8. WorkerRows(w)'
        BY <2>0, <3>9, <4>3, <4>6, <4>7 DEF WorkerRows
      <4> QED
        BY <3>1, <3>9, <4>8
    <3> QED
      BY <1>0, <1>2, <3>2, <3>3, <3>4, <3>5, <3>6, <3>7, <3>8, <3>9, WorkerEffects
  <2> QED
    BY <2>1, <2>2
<1> QED
  BY <1>1, <1>2

\* The status invariant is inductive on SQLite as long as no PATCH retargets.
LEMMA StatusStep == OnSQLite /\ NoRetarget /\ StatusInv /\ [Next]_vars => StatusInv'
<1> SUFFICES ASSUME OnSQLite, NoRetarget, StatusInv, [Next]_vars PROVE StatusInv'
  OBVIOUS
<1>1. CASE UNCHANGED vars
  <2>1. PlaceInv'
    BY PlaceStep DEF StatusInv
  <2>2. UNCHANGED <<status, target, loop, dueList, queue, worker>>
    BY <1>1 DEF vars, dbVars, schedVars
  <2>3. \A p \in Posts : Waiting(p)' <=> Waiting(p)
    BY <2>2 DEF Waiting, Queued, Sending
  <2> QED
    BY <2>1, <2>2, <2>3, StatusKept
<1>2. CASE Next
  BY <1>2, StatusScheduler, StatusWorker, StatusRequest DEF Next
<1> QED
  BY <1>1, <1>2

\* On SQLite, for any number of workers and with every fault and request but a PATCH that
\* names the target accounts again, the status a user sees tells the truth: a posted post has
\* no target left behind, and a failed post, which AdminRetryFailedPost may reset, has no
\* target whose outcome is unknown.
THEOREM StatusTellsTruth == OnSQLite /\ NoRetarget => (Spec => []StatusMatchesTargets)
<1> SUFFICES ASSUME OnSQLite, NoRetarget PROVE Spec => []StatusMatchesTargets
  OBVIOUS
<1>1. StatusInv /\ [Next]_vars => StatusInv'
  BY StatusStep
<1>2. StatusInv => StatusMatchesTargets
  BY DEF StatusInv, PostRows, StatusMatchesTargets, Taken
<1> QED
  BY <1>1, <1>2, StatusInit, PTL DEF Spec

\* A reset by AdminRetryFailedPost finds no target in flight and none that may have been
\* accepted, because the failed post is settled.
LEMMA ClaimRetry ==
  ASSUME ClaimInv, StatusInv, OnSQLite, NoRetarget, RequestStep
  PROVE  ClaimInv'
<1>0. TypeInv /\ TypeInv' /\ NoRequestInFlight
  BY TypeRequest DEF ClaimInv, StatusInv, PlaceInv
<1>1. /\ UNCHANGED <<worker, accepted>>
      /\ \A p \in Posts : status'[p] = "new" => status[p] = "new"
  BY <1>0, RequestStatus
<1>2. ASSUME NEW p \in Posts, NEW a \in Accounts
      PROVE  \/ target'[p][a] = target[p][a]
             \/ target'[p][a] = "none"
             \/ status[p] = "new" /\ status'[p] # "new"
             \/ target[p][a] \in {"pending", "failed"}
  <2>1. target[p][a] \in TargetStatus \cup {"none"}
    BY <1>0 DEF TypeInv, TypeOK
  <2>2. status[p] = "failed" => target[p][a] # "processing"
    BY DEF StatusInv, PostRows, Taken
  <2> QED
    BY <1>0, <2>1, <2>2, RequestRows DEF TargetStatus
<1> QED
  BY <1>0, <1>1, <1>2, ReleaseOnly

\* On SQLite a remote account shows a post at most once although an administrator retries
\* failed posts, any number of times: AdminRetryFailedPost resets only targets of a post
\* that no worker holds and none of whose targets may have been accepted.
THEOREM PublishedAtMostOnceDespiteRetry == OnSQLite /\ NoRetarget => (Spec => []AtMostOnce)
<1> SUFFICES ASSUME OnSQLite, NoRetarget PROVE Spec => []AtMostOnce
  OBVIOUS
<1>1. StatusInv /\ ClaimInv /\ [Next]_vars => StatusInv' /\ ClaimInv'
  <2> SUFFICES ASSUME StatusInv, ClaimInv, [Next]_vars PROVE StatusInv' /\ ClaimInv'
    OBVIOUS
  <2>1. StatusInv'
    BY StatusStep
  <2>2. CASE UNCHANGED vars
    <3>1. TypeInv'
      BY TypeStep DEF ClaimInv
    <3>2. UNCHANGED <<worker, target, accepted, status>>
      BY <2>2 DEF vars, dbVars, histVars
    <3> QED
      BY <2>1, <3>1, <3>2, ReleaseOnly
  <2>3. CASE Next
    BY <2>1, <2>3, ClaimScheduler, ClaimWorker, ClaimRetry DEF Next
  <2> QED
    BY <2>2, <2>3
<1>2. ClaimInv => AtMostOnce
  BY DEF ClaimInv
<1> QED
  BY <1>1, <1>2, ClaimInit, StatusInit, PTL DEF Spec

-----------------------------------------------------------------------------
(* The retry budget: with one replica the attempt number a worker counts   *)
(* from is the one of the row, although it was read when the post was      *)
(* listed.                                                                 *)

OneReplica == \A i, j \in Instances : i = j

\* The snapshots on their way to a worker are as fresh as the rows, and a post that waits in
\* the list of the poll loop is in no other place and there only once.
QueueFresh == \A i \in Instances, k \in Nat, p \in Posts :
                Queued(i, k, p) => queue[i][k].attempts = attempts[p]
WorkFresh  == \A w \in Workers, p \in Posts : Worked(w, p) => worker[w].job.attempts = attempts[p]
ListFresh  ==
  \A i \in Instances : loop[i] \in {"mark", "send"} =>
    \A k \in 1..Len(dueList[i]), p \in Posts : dueList[i][k].post = p =>
      /\ dueList[i][k].attempts = attempts[p]
      /\ loop[i] = "mark" \/ k # 1 => ~Held(p)
      /\ \A j \in 1..Len(dueList[i]) : dueList[i][j].post = p => j = k

\* The attempt on a target that attempt_count does not show yet: of the worker that will
\* write the result, or of one that left the post behind for good.
Spent(p, a) ==
  /\ claims[p][a] <= attempts[p] + 1 /\ attempts[p] < MaxAttempts
  /\ status[p] \in Taken /\ ~Waiting(p)
  /\ \A w \in Workers : Worked(w, p) => Done(w, a) \/ (worker[w].pc \in Busy /\ worker[w].cur = a)

Budgeted == \A p \in Posts, a \in Accounts : claims[p][a] <= attempts[p] \/ Spent(p, a)

BudgetInv == PlaceInv /\ QueueFresh /\ WorkFresh /\ ListFresh /\ Budgeted

\* No attempt has been made before the first poll.
LEMMA BudgetInit == Init => BudgetInv
<1> SUFFICES ASSUME Init PROVE BudgetInv
  OBVIOUS
<1>1. PlaceInv
  BY PlaceInit
<1>2. QueueFresh /\ WorkFresh
  BY EmptySeq DEF Init, QueueFresh, WorkFresh, Queued, Worked, IdleWorker
<1>3. ListFresh
  BY DEF Init, ListFresh
<1>4. Budgeted
  BY DEF Init, Budgeted
<1> QED
  BY <1>1, <1>2, <1>3, <1>4 DEF BudgetInv

\* A step in which no attempt is opened or counted and no worker moves on.
LEMMA BudgetKept ==
  ASSUME BudgetInv, UNCHANGED <<claims, attempts>>,
         \A p \in Posts : /\ Waiting(p)' => Waiting(p) \/ status[p] \notin Taken
                          /\ status[p] \in Taken => status'[p] \in Taken,
         \A w \in Workers : worker'[w] = worker[w] \/ worker'[w].pc = "idle"
  PROVE  Budgeted' /\ WorkFresh'
<1>1. ASSUME NEW w \in Workers, NEW p \in Posts, Worked(w, p)'
      PROVE  worker'[w] = worker[w] /\ Worked(w, p)
  BY <1>1 DEF Worked
<1>2. WorkFresh'
  BY <1>1 DEF BudgetInv, WorkFresh
<1>3. ASSUME NEW p \in Posts, NEW a \in Accounts, Spent(p, a) PROVE Spent(p, a)'
  BY <1>1, <1>3 DEF Spent, Done
<1> QED
  BY <1>2, <1>3 DEF BudgetInv, Budgeted

\* What a listed post is: an element of the poll that no replica holds.
LEMMA ListedPost ==
  ASSUME TypeInv, NEW s \in DueLists, NEW k \in 1..Len(s)
  PROVE  /\ s[k] \in Posts /\ status[s[k]] \notin Taken
         /\ \A j \in 1..Len(s) : s[j] = s[k] => j = k
         /\ s \in Seq(Posts) /\ DOMAIN s = 1..Len(s)
<1>1. s \in Seq(Posts) /\ \A j \in DOMAIN s : IsDue(s[j])
  <2>1. PICK n \in 0..DueLimit : s \in [1..n -> {p \in Posts : IsDue(p)}]
    BY DEF DueLists
  <2> QED
    BY <2>1, SeqDef
<1>2. DOMAIN s = 1..Len(s)
  BY <1>1, LenProperties
<1>3. \A i, j \in DOMAIN s : s[i] = s[j] => i = j
  BY DEF DueLists
<1>4. s[k] \in Posts
  BY <1>1, ElementOfSeq
<1> QED
  BY <1>1, <1>2, <1>3, <1>4 DEF IsDue, Taken

\* The poll loop lists fresh snapshots and takes each post once.
LEMMA BudgetScheduler ==
  ASSUME BudgetInv, OneReplica, NEW i \in Instances, SchedulerStep(i)
  PROVE  BudgetInv'
<1> USE DEF dbVars, schedVars, histVars
<1>0. TypeInv /\ PlaceInv /\ PlaceInv'
  BY PlaceScheduler DEF BudgetInv, PlaceInv
<1>1. UNCHANGED <<claims, attempts, worker>>
  BY DEF SchedulerStep, LoopDrain, ListDuePosts, MarkListed, Enqueue
<1>2. ASSUME NEW p \in Posts, status[p] \in Taken PROVE status'[p] \in Taken
  BY <1>0, <1>2 DEF SchedulerStep, LoopDrain, ListDuePosts, MarkListed, MarkPostProcessing, Enqueue,
     Taken, TypeInv, TypeOK
<1>3. ASSUME NEW p \in Posts, Waiting(p)'
      PROVE  \/ Waiting(p)
             \/ /\ status[p] \notin Taken /\ p = Head(dueList[i]).post
                /\ loop[i] = "mark" /\ loop'[i] = "send" /\ UNCHANGED dueList
  BY <1>0, <1>3, PlaceScheduler
<1>4. Budgeted' /\ WorkFresh'
  BY <1>1, <1>2, <1>3, BudgetKept
<1>5. ASSUME NEW p \in Posts, Held(p)'
      PROVE  \/ Held(p)
             \/ /\ p = Head(dueList[i]).post /\ loop[i] = "mark" /\ loop'[i] = "send"
                /\ UNCHANGED dueList
  BY <1>1, <1>3, <1>5 DEF Held, Worked
<1>6. /\ dueList \in [Instances -> Seq(Snapshots)] /\ queue \in [Instances -> Seq(Snapshots)]
      /\ loop \in [Instances -> {"drain", "list", "mark", "send"}]
      /\ loop[i] \in {"mark", "send"} => dueList[i] # <<>>
  BY <1>0 DEF TypeInv, TypeOK, ShapeOK
<1>7. ASSUME loop[i] \in {"mark", "send"}
      PROVE  /\ Len(dueList[i]) \in Nat \ {0} /\ Head(dueList[i]) = dueList[i][1]
             /\ Len(Tail(dueList[i])) = Len(dueList[i]) - 1
             /\ \A k \in 1..Len(Tail(dueList[i])) : Tail(dueList[i])[k] = dueList[i][k + 1]
             /\ \A k \in 1..Len(dueList[i]) : dueList[i][k].post \in Posts
  <2>1. dueList[i] \in Seq(Snapshots) /\ dueList[i] # <<>>
    BY <1>6, <1>7
  <2>2. \A k \in 1..Len(dueList[i]) : dueList[i][k] \in Snapshots
    BY <2>1, ElementOfSeq
  <2>3. \A k \in 1..Len(dueList[i]) : dueList[i][k].post \in Posts
    BY <2>2 DEF Snapshots
  <2> QED
    BY <2>1, <2>3, HeadTailProperties, LenProperties, EmptySeq
<1>8. QueueFresh'
  <2>1. CASE LoopDrain(i) \/ ListDuePosts(i) \/ MarkListed(i)
    <3>1. UNCHANGED queue
      BY <2>1 DEF LoopDrain, ListDuePosts, MarkListed
    <3> QED
      BY <1>1, <3>1 DEF BudgetInv, QueueFresh, Queued
  <2>2. CASE Enqueue(i)
    <3>1. loop[i] = "send" /\ Head(dueList[i]) \in Snapshots
      BY <1>6, <2>2, HeadTailProperties DEF Enqueue
    <3>2. queue' = [queue EXCEPT ![i] = Append(queue[i], Head(dueList[i]))]
      BY <2>2 DEF Enqueue
    <3>3. Head(dueList[i]).attempts = attempts[Head(dueList[i]).post]
      BY <1>7, <3>1 DEF BudgetInv, ListFresh
    <3>4. /\ Len(queue'[i]) = Len(queue[i]) + 1 /\ queue'[i][Len(queue[i]) + 1] = Head(dueList[i])
          /\ \A k \in 1..Len(queue[i]) : queue'[i][k] = queue[i][k]
          /\ Len(queue[i]) \in Nat
      BY <1>6, <3>1, <3>2, AppendProperties, LenProperties
    <3> SUFFICES ASSUME NEW j \in Instances, NEW k \in Nat, NEW p \in Posts, Queued(j, k, p)'
                 PROVE  queue'[j][k].attempts = attempts'[p]
      BY DEF QueueFresh
    <3>5. CASE j # i
      <4>1. queue'[j] = queue[j]
        BY <1>6, <3>2, <3>5
      <4> QED
        BY <1>1, <4>1 DEF BudgetInv, QueueFresh, Queued
    <3>6. CASE j = i /\ k = Len(queue[i]) + 1
      BY <1>1, <3>3, <3>4, <3>6 DEF Queued
    <3>7. CASE j = i /\ k # Len(queue[i]) + 1
      <4>1. k \in 1..Len(queue[i])
        BY <3>4, <3>7 DEF Queued
      <4>2. Queued(j, k, p) /\ queue'[j][k] = queue[j][k]
        BY <3>4, <3>7, <4>1 DEF Queued
      <4> QED
        BY <1>1, <4>2 DEF BudgetInv, QueueFresh
    <3> QED
      BY <3>5, <3>6, <3>7
  <2> QED
    BY <2>1, <2>2 DEF SchedulerStep
<1>9. ListFresh'
  <2> SUFFICES ASSUME loop'[i] \in {"mark", "send"}, NEW k \in 1..Len(dueList'[i]), NEW p \in Posts,
                      dueList'[i][k].post = p
               PROVE  /\ dueList'[i][k].attempts = attempts[p]
                      /\ loop'[i] = "mark" \/ k # 1 => ~Held(p)'
                      /\ \A j \in 1..Len(dueList'[i]) : dueList'[i][j].post = p => j = k
    <3>1. \A j \in Instances : j = i
      BY DEF OneReplica
    <3> QED
      BY <1>1, <3>1 DEF ListFresh
  <2>1. CASE LoopDrain(i)
    BY <1>6, <2>1 DEF LoopDrain
  <2>2. CASE ListDuePosts(i)
    <3>1. loop[i] = "list" /\ (loop'[i] = "drain" \/ \E s \in DueLists :
            dueList' = [dueList EXCEPT ![i] = [j \in DOMAIN s |-> Snapshot(s[j])]])
      BY <1>6, <2>2 DEF ListDuePosts
    <3>2. PICK s \in DueLists : dueList'[i] = [j \in DOMAIN s |-> Snapshot(s[j])]
      BY <1>6, <3>1
    <3>a. s \in Seq(Posts)
      <4>1. PICK n \in 0..DueLimit : s \in [1..n -> {q \in Posts : IsDue(q)}]
        BY DEF DueLists
      <4> QED
        BY <4>1, SeqDef
    <3>3. Len(dueList'[i]) = Len(s) /\ \A j \in 1..Len(s) : dueList'[i][j] = Snapshot(s[j])
      BY <3>2, <3>a, LenProperties
    <3>4. \A q : Snapshot(q).post = q /\ Snapshot(q).attempts = attempts[q]
      BY DEF Snapshot
    <3>5. /\ k \in 1..Len(s) /\ s[k] = p /\ dueList'[i][k].attempts = attempts[p]
          /\ \A j \in 1..Len(s) : dueList'[i][j].post = s[j]
      BY <3>3, <3>4
    <3>6. status[p] \notin Taken /\ \A j \in 1..Len(s) : s[j] = p => j = k
      BY <1>0, <3>5, ListedPost
    <3>7. ~Held(p)
      BY <1>0, <3>6 DEF PlaceInv, HeldIsTaken
    <3>8. ~Held(p)'
      BY <1>5, <3>1, <3>7
    <3> QED
      BY <3>3, <3>5, <3>6, <3>8
  <2>3. CASE loop[i] = "mark" /\ loop'[i] = "send" /\ UNCHANGED dueList
    <3>1. /\ dueList[i][k].attempts = attempts[p] /\ ~Held(p)
          /\ \A j \in 1..Len(dueList[i]) : dueList[i][j].post = p => j = k
      BY <2>3 DEF BudgetInv, ListFresh
    <3>2. k # 1 => p # Head(dueList[i]).post
      BY <1>7, <2>3, <3>1
    <3>3. k # 1 => ~Held(p)'
      BY <1>5, <3>1, <3>2
    <3> QED
      BY <2>3, <3>1, <3>3
  <2>4. CASE NextListed(i) /\ loop[i] \in {"mark", "send"}
    <3>1. dueList'[i] = Tail(dueList[i]) /\ loop'[i] # "send"
      BY <1>6, <2>4 DEF NextListed
    <3>2. k + 1 \in 1..Len(dueList[i]) /\ dueList[i][k + 1].post = p /\ k + 1 # 1
          /\ dueList'[i][k].attempts = dueList[i][k + 1].attempts
      BY <1>7, <2>4, <3>1
    <3>3. /\ dueList[i][k + 1].attempts = attempts[p] /\ ~Held(p)
          /\ \A j \in 1..Len(dueList[i]) : dueList[i][j].post = p => j = k + 1
      BY <2>4, <3>2 DEF BudgetInv, ListFresh
    <3>4. ~Held(p)'
      BY <1>5, <3>1, <3>3
    <3>5. ASSUME NEW j \in 1..Len(dueList'[i]), dueList'[i][j].post = p PROVE j = k
      <4>1. j + 1 \in 1..Len(dueList[i]) /\ dueList[i][j + 1].post = p
        BY <1>7, <2>4, <3>1, <3>5
      <4>2. j + 1 = k + 1
        BY <3>3, <4>1
      <4> QED
        BY <4>2
    <3> QED
      BY <3>2, <3>3, <3>4, <3>5
  <2>5. CASE MarkListed(i)
    <3>1. loop[i] = "mark"
      BY <2>5 DEF MarkListed
    <3>2. NextListed(i) \/ (loop'[i] = "send" /\ UNCHANGED dueList)
      BY <1>6, <2>5 DEF MarkListed
    <3> QED
      BY <2>3, <2>4, <3>1, <3>2
  <2>6. CASE Enqueue(i)
    BY <2>4, <2>6 DEF Enqueue
  <2> QED
    BY <2>1, <2>2, <2>5, <2>6 DEF SchedulerStep
<1> QED
  BY <1>0, <1>4, <1>8, <1>9 DEF BudgetInv

\* A restart forgets the snapshots of a replica, and no attempt.
LEMMA BudgetCrash ==
  ASSUME BudgetInv, OneReplica, NEW i \in Instances, Crash(i)
  PROVE  BudgetInv'
<1> USE DEF dbVars, histVars
<1>0. TypeInv /\ PlaceInv /\ PlaceInv' /\ \A p \in Posts : Waiting(p)' => Waiting(p)
  BY PlaceCrash DEF BudgetInv, PlaceInv
<1>1. UNCHANGED <<claims, attempts, status>>
      /\ \A w \in Workers : worker'[w] = worker[w] \/ worker'[w].pc = "idle"
  BY DEF Crash, IdleWorker
<1>2. Budgeted' /\ WorkFresh'
  BY <1>0, <1>1, BudgetKept
<1>3. \A j \in Instances : queue'[j] = <<>> /\ loop'[j] = "drain"
  BY <1>0 DEF Crash, OneReplica, TypeInv, TypeOK
<1>4. QueueFresh' /\ ListFresh'
  BY <1>3, EmptySeq DEF QueueFresh, Queued, ListFresh
<1> QED
  BY <1>0, <1>2, <1>4 DEF BudgetInv

\* No request counts an attempt, as long as no administrator resets the count.
LEMMA BudgetRequest ==
  ASSUME BudgetInv, OnSQLite, "retry" \notin Ops, RequestStep
  PROVE  BudgetInv'
<1> USE DEF dbVars
<1>0. TypeInv /\ NoRequestInFlight /\ PlaceInv' /\ \A p \in Posts : Waiting(p)' <=> Waiting(p)
  BY PlaceRequest DEF BudgetInv, PlaceInv
<1>1. /\ UNCHANGED <<claims, worker, loop, dueList, queue>>
      /\ \A p \in Posts : status[p] \in Taken => status'[p] \in Taken
  BY <1>0, RequestStatus
<1>2. UNCHANGED attempts
  BY DEF RequestStep, CreatePost, BecomeDue, UpdatePost, CheckUpdate, ReadUpdate, WriteUpdate,
     CompleteReview, CancelPost, DeletePost, DisconnectAccount, AdminRetryFailedPost,
     RepairFuturePosted
<1>3. Budgeted' /\ WorkFresh'
  BY <1>0, <1>1, <1>2, BudgetKept
<1>4. \A p \in Posts : Held(p)' <=> Held(p)
  BY <1>0, <1>1 DEF Held, Worked
<1>5. QueueFresh' /\ ListFresh'
  BY <1>1, <1>2, <1>4 DEF BudgetInv, QueueFresh, Queued, ListFresh
<1> QED
  BY <1>0, <1>3, <1>5 DEF BudgetInv

\* Dequeue hands the worker the head of its replica's queue; the others move up.
LEMMA DequeueMoves ==
  ASSUME TypeInv, NEW w \in Workers, Dequeue(w)
  PROVE  /\ Host[w] \in Instances /\ worker'[w].pc = "resolve"
         /\ worker'[w].job = queue[Host[w]][1] /\ Queued(Host[w], 1, worker'[w].job.post)
         /\ \A i \in Instances, k \in Nat, p \in Posts : Queued(i, k, p)' =>
              \E l \in Nat : Queued(i, l, p) /\ queue'[i][k] = queue[i][l]
<1> DEFINE h == Host[w]
<1>1. h \in Instances /\ queue \in [Instances -> Seq(Snapshots)] /\ queue[h] # <<>>
      /\ queue' = [queue EXCEPT ![h] = Tail(queue[h])]
  BY ConstantsAssumption DEF Dequeue, TypeInv, TypeOK
<1>2. /\ Len(Tail(queue[h])) = Len(queue[h]) - 1 /\ Len(queue[h]) \in Nat \ {0}
      /\ \A k \in 1..Len(Tail(queue[h])) : Tail(queue[h])[k] = queue[h][k + 1]
      /\ Head(queue[h]) = queue[h][1]
  BY <1>1, HeadTailProperties, LenProperties, EmptySeq
<1>3. worker'[w].pc = "resolve" /\ worker'[w].job = Head(queue[h])
  <2>1. worker'[w] = [IdleWorker EXCEPT !.pc = "resolve", !.job = Head(queue[h])]
    BY GotoValue DEF Dequeue
  <2> QED
    BY <2>1 DEF IdleWorker
<1>4. Queued(h, 1, worker'[w].job.post)
  BY <1>2, <1>3 DEF Queued
<1> HIDE DEF h
<1>5. ASSUME NEW i \in Instances, NEW k \in Nat, NEW p \in Posts, Queued(i, k, p)'
      PROVE  \E l \in Nat : Queued(i, l, p) /\ queue'[i][k] = queue[i][l]
  <2>1. CASE i = h
    <3>1. queue'[i] = Tail(queue[h])
      BY <1>1, <2>1
    <3>2. k \in 1..Len(Tail(queue[h])) /\ Tail(queue[h])[k].post = p
      BY <1>5, <3>1 DEF Queued
    <3>3. k + 1 \in 1..Len(queue[h]) /\ queue[h][k + 1].post = p /\ queue'[i][k] = queue[h][k + 1]
      BY <1>2, <3>1, <3>2
    <3>4. Queued(i, k + 1, p) /\ queue'[i][k] = queue[i][k + 1]
      BY <2>1, <3>3 DEF Queued
    <3> QED
      BY <3>4
  <2>2. CASE i # h
    BY <1>1, <1>5, <2>2 DEF Queued
  <2> QED
    BY <2>1, <2>2
<1> QED
  BY <1>1, <1>2, <1>3, <1>4, <1>5 DEF h

\* A worker that writes its result pays for the attempt it opened.
LEMMA BudgetWorker ==
  ASSUME BudgetInv, NEW w \in Workers, WorkerStep(w)
  PROVE  BudgetInv'
<1> DEFINE W == worker[w]
           V == worker'[w]
<1>0. /\ TypeInv /\ PlaceInv /\ PlaceInv'
      /\ \A p \in Posts : (Waiting(p)' => Waiting(p)) /\ (Held(p)' => Held(p))
  BY PlaceWorker DEF BudgetInv, PlaceInv
<1>1. \A v \in Workers : v # w => worker'[v] = worker[v]
  BY <1>0, OthersWait
<1>2. ASSUME NEW v \in Workers, v # w, NEW p \in Posts
      PROVE  /\ Worked(v, p)' <=> Worked(v, p)
             /\ \A a \in Accounts : Done(v, a)' <=> Done(v, a)
  BY <1>1, <1>2 DEF Worked, Done
<1>3. UNCHANGED <<loop, dueList>>
  BY DEF WorkerStep, Dequeue, ResolveTargets, LoadPostTargets, ClaimTarget, PreparePublish,
     Publish, PersistTargetOutcome, WorkerDrain, WriteResult, schedVars
<1>4. CASE Dequeue(w)
  <2>1. UNCHANGED <<status, attempts, claims>> /\ W.pc = "idle"
    BY <1>4 DEF Dequeue, dbVars, histVars
  <2>2. /\ Host[w] \in Instances /\ V.pc = "resolve"
        /\ V.job = queue[Host[w]][1] /\ Queued(Host[w], 1, V.job.post)
        /\ \A i \in Instances, k \in Nat, p \in Posts : Queued(i, k, p)' =>
             \E l \in Nat : Queued(i, l, p) /\ queue'[i][k] = queue[i][l]
    BY <1>0, <1>4, DequeueMoves
  <2>3. QueueFresh'
    BY <2>1, <2>2 DEF BudgetInv, QueueFresh
  <2>4. WorkFresh'
    <3>1. ASSUME NEW p \in Posts, Worked(w, p)' PROVE V.job.attempts = attempts[p]
      BY <2>2, <3>1 DEF BudgetInv, QueueFresh, Worked
    <3> QED
      BY <1>1, <1>2, <2>1, <3>1 DEF BudgetInv, WorkFresh
  <2>5. ListFresh'
    BY <1>0, <1>3, <2>1 DEF BudgetInv, ListFresh
  <2>6. \A p \in Posts : Worked(w, p)' => Waiting(p)
    BY <1>0, <1>4, PlaceWorker
  <2>7. ASSUME NEW p \in Posts, NEW a \in Accounts, Spent(p, a) PROVE Spent(p, a)'
    BY <1>0, <1>1, <1>2, <2>1, <2>6, <2>7 DEF Spent
  <2>8. Budgeted'
    BY <2>1, <2>7 DEF BudgetInv, Budgeted
  <2> QED
    BY <1>0, <2>3, <2>4, <2>5, <2>8 DEF BudgetInv
<1>5. CASE ~Dequeue(w)
  <2>a. W.pc # "idle" /\ (V.pc = "idle" \/ V.job = W.job) /\ UNCHANGED queue
    BY <1>0, <1>5, JobKept
  <2>b. PICK q \in Posts : q = W.job.post
    BY <1>0, <2>a DEF TypeInv, ShapeOK, WorkerShape, Snapshots
  <2>0. /\ W.pc # "idle" /\ q \in Posts /\ UNCHANGED queue /\ Worked(w, q)
        /\ \A p \in Posts : Worked(w, p) => p = q
        /\ \A p \in Posts : Worked(w, p)' => V.pc # "idle" /\ p = q
        /\ V.pc # "idle" => Worked(w, q)'
    BY <2>a, <2>b DEF Worked
  <2>1. /\ status[q] \in Taken /\ Held(q) /\ ~Waiting(q)
        /\ \A v \in Workers : Worked(v, q) => v = w
    BY <1>0, <2>0 DEF PlaceInv, HeldIsTaken, OnePlace, Held
  <2>2. W.job.attempts = attempts[q] /\ attempts[q] \in Nat /\ attempts[q] < MaxAttempts
    <3>1. W.job.attempts = attempts[q]
      BY <2>0 DEF BudgetInv, WorkFresh
    <3>2. W.job.attempts \in 0..(MaxAttempts - 1)
      BY <1>0, <2>0 DEF TypeInv, ShapeOK, WorkerShape, Snapshots
    <3> QED
      BY <3>1, <3>2, ConstantsAssumption
  <2>3. /\ claims \in [Posts -> [Accounts -> Nat]] /\ attempts \in [Posts -> 0..MaxAttempts]
        /\ target \in [Posts -> [Accounts -> TargetStatus \cup {"none"}]]
        /\ status \in [Posts -> PostStatus \cup {"new", "deleted"}]
        /\ W.todo \subseteq Accounts
    BY <1>0 DEF TypeInv, TypeOK, WorkerStates
  <2>4. \A p \in Posts : p # q => attempts'[p] = attempts[p] /\ status'[p] = status[p]
    BY <2>3, <2>b DEF WorkerStep, Dequeue, ResolveTargets, LoadPostTargets, ClaimTarget, PreparePublish,
       Publish, PersistTargetOutcome, WorkerDrain, WriteResult, MarkPostResult, dbVars
  <2>5. QueueFresh'
    <3> SUFFICES ASSUME NEW i \in Instances, NEW k \in Nat, NEW p \in Posts, Queued(i, k, p)
                 PROVE  queue[i][k].attempts = attempts'[p]
      BY <2>0 DEF QueueFresh, Queued
    <3>1. p # q
      BY <2>1 DEF Waiting
    <3> QED
      BY <2>4, <3>1 DEF BudgetInv, QueueFresh
  <2>6. ListFresh'
    <3> SUFFICES ASSUME NEW i \in Instances, loop[i] \in {"mark", "send"},
                        NEW k \in 1..Len(dueList[i]), NEW p \in Posts, dueList[i][k].post = p
                 PROVE  /\ dueList[i][k].attempts = attempts'[p]
                        /\ loop[i] = "mark" \/ k # 1 => ~Held(p)'
                        /\ \A j \in 1..Len(dueList[i]) : dueList[i][j].post = p => j = k
      BY <1>3 DEF ListFresh
    <3>1. p # q
      <4>1. CASE loop[i] = "mark" \/ k # 1
        BY <2>1, <4>1 DEF BudgetInv, ListFresh
      <4>2. CASE loop[i] = "send" /\ k = 1
        <5>1. Head(dueList[i]) = dueList[i][1]
          <6>1. dueList[i] \in Seq(Snapshots) /\ dueList[i] # <<>>
            BY <1>0 DEF TypeInv, TypeOK, ShapeOK
          <6> QED
            BY <6>1, HeadTailProperties
        <5>2. Sending(i, p)
          BY <4>2, <5>1 DEF Sending
        <5> QED
          BY <2>1, <5>2 DEF Waiting
      <4> QED
        BY <4>1, <4>2
    <3> QED
      BY <1>0, <2>4, <3>1 DEF BudgetInv, ListFresh
  <2>7. ASSUME NEW p \in Posts, p # q, NEW a \in Accounts, claims'[p][a] = claims[p][a],
               claims[p][a] <= attempts[p] \/ Spent(p, a)
        PROVE  claims'[p][a] <= attempts'[p] \/ Spent(p, a)'
    <3>1. ~Worked(w, p)'
      BY <2>0, <2>7
    <3>2. \A v \in Workers : Worked(v, p)' => v # w /\ Worked(v, p) /\ worker'[v] = worker[v]
      BY <1>1, <1>2, <3>1
    <3> QED
      BY <1>0, <1>2, <2>4, <2>7, <3>2 DEF Spent
  <2>8. CASE WriteResult(w)
    <3>1. UNCHANGED claims /\ V.pc = "idle"
      BY <1>0, <2>8, GotoValue DEF WriteResult, IdleWorker, histVars
    <3>2. WorkFresh'
      <4> SUFFICES ASSUME NEW v \in Workers, NEW p \in Posts, Worked(v, p)'
                   PROVE  worker'[v].job.attempts = attempts'[p]
        BY DEF WorkFresh
      <4>1. v # w /\ Worked(v, p) /\ p # q
        BY <1>2, <2>0, <2>1, <3>1
      <4> QED
        BY <1>1, <2>4, <4>1 DEF BudgetInv, WorkFresh
    <3>3. ASSUME NEW a \in Accounts PROVE claims'[q][a] <= attempts'[q] \/ Spent(q, a)'
      <4>0. claims[q][a] \in Nat /\ (claims[q][a] <= attempts[q] \/ Spent(q, a))
        BY <2>0, <2>3 DEF BudgetInv, Budgeted
      <4>1. CASE attempts' = [attempts EXCEPT ![q] = W.job.attempts + 1]
        <5>1. attempts'[q] = attempts[q] + 1
          BY <2>0, <2>2, <2>3, <4>1
        <5>2. claims[q][a] <= attempts[q] + 1
          BY <2>2, <4>0 DEF Spent
        <5> QED
          BY <3>1, <5>1, <5>2
      <4>2. CASE UNCHANGED <<status, attempts>>
        <5>1. ~Waiting(q)' /\ \A v \in Workers : ~Worked(v, q)'
          BY <1>0, <1>2, <2>0, <2>1, <3>1
        <5> QED
          BY <2>1, <3>1, <4>0, <4>2, <5>1 DEF Spent
      <4> QED
        BY <2>8, <2>b, <4>1, <4>2 DEF WriteResult, MarkPostResult
    <3>4. Budgeted'
      BY <2>7, <3>1, <3>3 DEF BudgetInv, Budgeted
    <3> QED
      BY <1>0, <2>5, <2>6, <3>2, <3>4 DEF BudgetInv
  <2>9. CASE ~WriteResult(w)
    <3>0. UNCHANGED <<status, attempts>>
      BY <1>5, <2>9 DEF WorkerStep, ResolveTargets, LoadPostTargets, ClaimTarget, PreparePublish,
         Publish, PersistTargetOutcome, WorkerDrain, dbVars
    <3>1. WorkFresh'
      BY <1>1, <1>2, <2>a, <2>0, <3>0 DEF BudgetInv, WorkFresh
    <3>2. ASSUME NEW a \in Accounts, Spent(q, a), claims'[q][a] = claims[q][a],
                 \/ V.pc = "idle"
                 \/ Done(w, a)' \/ (V.pc \in Busy /\ V.cur = a)
          PROVE  Spent(q, a)'
      <4>1. \A v \in Workers : Worked(v, q)' => v = w /\ V.pc # "idle"
        BY <1>2, <2>0, <2>1
      <4> QED
        BY <1>0, <2>0, <2>1, <3>0, <3>2, <4>1 DEF Spent
    <3>3. ASSUME UNCHANGED claims,
                 \A a \in Accounts : Done(w, a) \/ (W.pc \in Busy /\ W.cur = a)
                   => V.pc = "idle" \/ Done(w, a)' \/ (V.pc \in Busy /\ V.cur = a)
          PROVE  Budgeted'
      <4>1. ASSUME NEW a \in Accounts PROVE claims'[q][a] <= attempts'[q] \/ Spent(q, a)'
        <5>1. CASE claims[q][a] <= attempts[q]
          BY <3>0, <3>3, <5>1
        <5>2. CASE Spent(q, a)
          <6>1. Done(w, a) \/ (W.pc \in Busy /\ W.cur = a)
            BY <2>0, <5>2 DEF Spent
          <6> QED
            BY <3>2, <3>3, <5>2, <6>1
        <5> QED
          BY <2>0, <5>1, <5>2 DEF BudgetInv, Budgeted
      <4> QED
        BY <2>7, <3>3, <4>1 DEF BudgetInv, Budgeted
    <3>4. ASSUME UNCHANGED claims,
                 V.pc \in {"idle", "result"} \/ (V.pc = "load" /\ W.pc = "resolve")
          PROVE  Budgeted'
      <4>1. ASSUME NEW a \in Accounts, Done(w, a) \/ (W.pc \in Busy /\ W.cur = a)
            PROVE  V.pc = "idle" \/ Done(w, a)'
        BY <3>4, <4>1 DEF Done, Busy
      <4> QED
        BY <3>3, <3>4, <4>1
    <3>5. ASSUME UNCHANGED claims, W.pc = "load" PROVE Budgeted'
      <4>1. ASSUME NEW a \in Accounts PROVE ~(Done(w, a) \/ (W.pc \in Busy /\ W.cur = a))
        BY <3>5 DEF Done, Busy
      <4> QED
        BY <3>3, <3>5, <4>1
    <3>6. ASSUME UNCHANGED claims, W.pc \in Busy, V.pc \in Busy, V.cur = W.cur, V.todo = W.todo
          PROVE  Budgeted'
      <4>1. ASSUME NEW a \in Accounts, Done(w, a) \/ (W.pc \in Busy /\ W.cur = a)
            PROVE  Done(w, a)' \/ (V.pc \in Busy /\ V.cur = a)
        BY <3>6, <4>1 DEF Done, Busy
      <4> QED
        BY <3>3, <3>6, <4>1
    <3>7. ASSUME UNCHANGED claims, W.pc = "drain", V.todo = W.todo \ {W.cur},
                 V.pc \in {"result", "claim"}
          PROVE  Budgeted'
      <4>1. ASSUME NEW a \in Accounts, Done(w, a) \/ (W.pc \in Busy /\ W.cur = a)
            PROVE  Done(w, a)'
        BY <3>7, <4>1 DEF Done, Busy
      <4> QED
        BY <3>3, <3>7, <4>1
    <3>8. ASSUME NEW a \in W.todo, W.pc = "claim", V.pc = "prepare", V.cur = a, V.todo = W.todo,
                 claims' = [claims EXCEPT ![q][a] = @ + 1]
          PROVE  Budgeted'
      <4>1. a \in Accounts /\ claims[q][a] \in Nat
        BY <2>0, <2>3, <3>8
      <4>2. \A p \in Posts, b \in Accounts :
              claims'[p][b] = IF p = q /\ b = a THEN claims[q][a] + 1 ELSE claims[p][b]
        <5>1. claims' = [claims EXCEPT ![q][a] = claims[q][a] + 1]
          BY <3>8
        <5>2. claims \in [Posts -> [Accounts -> Nat]] /\ claims[q][a] + 1 \in Nat
          BY <2>3, <4>1
        <5> HIDE <2>3
        <5> QED
          BY <4>1, <5>1, <5>2, TableUpdate
      <4>3. claims[q][a] <= attempts[q]
        <5>1. ~Done(w, a) /\ W.pc \notin Busy
          BY <3>8 DEF Done, Busy
        <5>2. ~Spent(q, a)
          BY <2>0, <5>1 DEF Spent
        <5> QED
          BY <2>0, <4>1, <5>2 DEF BudgetInv, Budgeted
      <4>4. Spent(q, a)'
        <5>1. claims'[q][a] <= attempts[q] + 1
          BY <2>0, <2>2, <4>1, <4>2, <4>3
        <5>2. \A v \in Workers : Worked(v, q)' => v = w
          BY <1>2, <2>0, <2>1
        <5> QED
          BY <1>0, <2>0, <2>1, <2>2, <3>0, <3>8, <5>1, <5>2 DEF Spent, Busy
      <4>5. ASSUME NEW b \in Accounts, b # a PROVE claims'[q][b] <= attempts'[q] \/ Spent(q, b)'
        <5>1. claims'[q][b] = claims[q][b]
          BY <2>0, <4>2, <4>5
        <5>2. Done(w, b) \/ (W.pc \in Busy /\ W.cur = b) => Done(w, b)'
          BY <3>8 DEF Done, Busy
        <5>3. Spent(q, b) => Spent(q, b)'
          <6>1. ASSUME Spent(q, b) PROVE Done(w, b) \/ (W.pc \in Busy /\ W.cur = b)
            BY <2>0, <6>1 DEF Spent
          <6> QED
            BY <3>2, <5>1, <5>2, <6>1
        <5> QED
          BY <2>0, <3>0, <5>1, <5>3 DEF BudgetInv, Budgeted
      <4>6. \A p \in Posts, b \in Accounts : p # q => claims'[p][b] = claims[p][b]
        BY <4>2
      <4> QED
        BY <2>7, <4>4, <4>5, <4>6 DEF BudgetInv, Budgeted
    <3>9. Budgeted'
      BY <1>0, <1>5, <2>b, <3>4, <3>5, <3>6, <3>7, <3>8, WorkerEffects DEF Busy
    <3> QED
      BY <1>0, <2>5, <2>6, <3>1, <3>9 DEF BudgetInv
  <2> QED
    BY <2>8, <2>9
<1> QED
  BY <1>4, <1>5

\* The budget invariant is inductive with one replica on SQLite.
LEMMA BudgetStep ==
  OnSQLite /\ OneReplica /\ "retry" \notin Ops /\ BudgetInv /\ [Next]_vars => BudgetInv'
<1> SUFFICES ASSUME OnSQLite, OneReplica, "retry" \notin Ops, BudgetInv, [Next]_vars
             PROVE  BudgetInv'
  OBVIOUS
<1>1. CASE UNCHANGED vars
  <2>1. PlaceInv'
    BY PlaceStep DEF BudgetInv
  <2>2. UNCHANGED <<status, attempts, claims, loop, dueList, queue, worker>>
    BY <1>1 DEF vars, dbVars, schedVars, histVars
  <2>3. \A p \in Posts : (Waiting(p)' <=> Waiting(p)) /\ (Held(p)' <=> Held(p))
    BY <2>2 DEF Held, Waiting, Queued, Sending, Worked
  <2>4. Budgeted' /\ WorkFresh'
    BY <2>2, <2>3, BudgetKept
  <2>5. QueueFresh' /\ ListFresh'
    BY <2>2, <2>3 DEF BudgetInv, QueueFresh, Queued, ListFresh
  <2> QED
    BY <2>1, <2>4, <2>5 DEF BudgetInv
<1>2. CASE Next
  BY <1>2, BudgetScheduler, BudgetCrash, BudgetWorker, BudgetRequest DEF Next
<1> QED
  BY <1>1, <1>2

\* One replica on SQLite tries a target at most MaxAttempts times unless an administrator
\* resets the count: with any number of workers, every fault, and whatever the clients send,
\* every attempt ClaimPostTargetPublication opens is paid for by MarkPostResult, or is the
\* last one of a post that is never taken again.
THEOREM BudgetIsKept == OnSQLite /\ OneReplica /\ "retry" \notin Ops => (Spec => []RetryBudget)
<1> SUFFICES ASSUME OnSQLite, OneReplica, "retry" \notin Ops PROVE Spec => []RetryBudget
  OBVIOUS
<1>1. BudgetInv /\ [Next]_vars => BudgetInv'
  BY BudgetStep
<1>2. BudgetInv => RetryBudget
  <2> SUFFICES ASSUME BudgetInv, NEW p \in Posts, NEW a \in Accounts
               PROVE  claims[p][a] <= MaxAttempts
    BY DEF RetryBudget
  <2>1. claims[p][a] \in Nat /\ attempts[p] \in 0..MaxAttempts /\ MaxAttempts \in Nat
    BY ConstantsAssumption DEF BudgetInv, PlaceInv, TypeInv, TypeOK
  <2>2. claims[p][a] <= attempts[p] \/ (claims[p][a] <= attempts[p] + 1 /\ attempts[p] < MaxAttempts)
    BY DEF BudgetInv, Budgeted, Spent
  <2> QED
    BY <2>1, <2>2
<1> QED
  BY <1>1, <1>2, BudgetInit, PTL DEF Spec
=============================================================================
