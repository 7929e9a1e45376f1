------------------------ MODULE AuditEvidenceProofs ------------------------
(***************************************************************************)
(* The publication evidence in audit_pending and audit_events: every       *)
(* attempt_id is settled at most once, delivery loses and repeats nothing, *)
(* and nothing is shown or said to be posted before its evidence, for      *)
(* every value of the constants, every request and fault.                  *)
(***************************************************************************)
EXTENDS PostPublicationProofs, FiniteSetTheorems

\* Events are about attempts that were opened.
EvidenceOpened == \A e \in Evidence : e.try <= claims[e.post][e.account]

\* An opened attempt has its publish_started event.
OpenedHasEvidence ==
  \A p \in Posts, a \in Accounts, n \in Nat \ {0} :
    n <= claims[p][a] => Event(p, a, n, "started") \in Evidence

\* The attempt a worker holds is opened and not settled.
HeldIsOpen ==
  \A w \in Workers, p \in Posts, a \in Accounts : Holds(w, p, a) =>
    /\ worker[w].try <= claims[p][a]
    /\ \A e \in Evidence : e.post = p /\ e.account = a /\ e.try = worker[w].try
                           => e.kind = "started"

\* Workers that hold the same target, after a reset, hold different attempts.
DistinctTries ==
  \A v, w \in Workers, p \in Posts, a \in Accounts :
    Holds(v, p, a) /\ Holds(w, p, a) /\ worker[v].try = worker[w].try => v = w

Undelivered == outbox \cap auditLog = {}

TryInv ==
  /\ TypeInv
  /\ EvidenceOpened
  /\ OpenedHasEvidence
  /\ HeldIsOpen
  /\ DistinctTries
  /\ OneOutcomePerTry
  /\ Undelivered

\* What DeliveryExactlyOnce asks of a step.
Delivery == /\ auditLog \subseteq auditLog'
            /\ Evidence \subseteq Evidence'
            /\ outbox' \cap auditLog' = {}

\* The invariant holds before the first attempt is opened.
LEMMA TryInit == Init => TryInv
<1> SUFFICES ASSUME Init PROVE TryInv
  OBVIOUS
<1>1. TypeInv
  BY TypeInit
<1>2. \A w \in Workers, p \in Posts, a \in Accounts : ~Holds(w, p, a)
  BY DEF Init, Holds, IdleWorker
<1>3. Evidence = {}
  BY DEF Init, Evidence
<1>4. OpenedHasEvidence
  BY DEF Init, OpenedHasEvidence
<1> QED
  BY <1>1, <1>2, <1>3, <1>4 DEF TryInv, EvidenceOpened, HeldIsOpen, DistinctTries,
     OneOutcomePerTry, Undelivered, Init

\* A drain moves events and neither adds nor drops one.
LEMMA DrainMoves ==
  ASSUME TryInv, DrainAuditEvents
  PROVE  Evidence' = Evidence /\ Delivery
<1>1. CASE UNCHANGED auditVars
  BY <1>1 DEF auditVars, Evidence, Delivery, TryInv, Undelivered
<1>2. ASSUME NEW b \in Batches, outbox' = outbox \ b, auditLog' = auditLog \cup b
      PROVE  Evidence' = Evidence /\ Delivery
  <2>1. b \subseteq outbox
    BY DEF Batches
  <2> QED
    BY <1>2, <2>1 DEF Evidence, Delivery, TryInv, Undelivered
<1> QED
  BY <1>1, <1>2 DEF DrainAuditEvents

\* A step that opens and settles no attempt.
LEMMA QuietTry ==
  ASSUME TryInv, TypeInv', UNCHANGED claims, Evidence' = Evidence, Delivery,
         \A w \in Workers : 
           \/ /\ worker'[w].job = worker[w].job /\ worker'[w].cur = worker[w].cur
              /\ worker'[w].try = worker[w].try
              /\ worker[w].pc \in {"prepare", "publish", "persist"}
           \/ worker'[w] = worker[w]
           \/ worker'[w].pc \notin {"prepare", "publish", "persist"}
  PROVE  TryInv' /\ Delivery
<1>1. ASSUME NEW w \in Workers, NEW p \in Posts, NEW a \in Accounts, Holds(w, p, a)'
      PROVE  worker'[w].try = worker[w].try /\ Holds(w, p, a)
  BY <1>1 DEF Holds
<1>2. EvidenceOpened' /\ OpenedHasEvidence' /\ OneOutcomePerTry' /\ Undelivered'
  BY DEF TryInv, EvidenceOpened, OpenedHasEvidence, OneOutcomePerTry, Undelivered, Delivery
<1>3. HeldIsOpen'
  BY <1>1 DEF TryInv, HeldIsOpen
<1>4. DistinctTries'
  BY <1>1 DEF TryInv, DistinctTries
<1> QED
  BY <1>2, <1>3, <1>4 DEF TryInv

\* The poll loop and a restart only move events.
LEMMA TryScheduler ==
  ASSUME TryInv, NEW i \in Instances, SchedulerStep(i) \/ Crash(i)
  PROVE  TryInv' /\ Delivery
<1> USE DEF auditVars, histVars
<1>1. TypeInv' /\ UNCHANGED claims
  BY TypeScheduler, TypeCrash
  DEF TryInv, SchedulerStep, LoopDrain, ListDuePosts, MarkListed, Enqueue, Crash
<1>2. Evidence' = Evidence /\ Delivery
  <2>1. CASE LoopDrain(i)
    BY <2>1, DrainMoves DEF LoopDrain
  <2>2. CASE UNCHANGED auditVars
    BY <2>2 DEF Evidence, Delivery, TryInv, Undelivered
  <2> QED
    BY <2>1, <2>2 DEF SchedulerStep, ListDuePosts, MarkListed, Enqueue, Crash
<1>3. \A w \in Workers : \/ worker'[w] = worker[w]
                         \/ worker'[w].pc \notin {"prepare", "publish", "persist"}
  BY DEF SchedulerStep, LoopDrain, ListDuePosts, MarkListed, Enqueue, Crash, IdleWorker
<1> QED
  BY <1>1, <1>2, <1>3, QuietTry

\* No request opens or settles an attempt.
LEMMA TryRequest ==
  ASSUME TryInv, RequestStep
  PROVE  TryInv' /\ Delivery
<1>1. TypeInv'
  BY TypeRequest DEF TryInv
<1>2. UNCHANGED <<worker, claims, auditVars>>
  BY DEF RequestStep, CreatePost, BecomeDue, UpdatePost, CheckUpdate, ReadUpdate, WriteUpdate,
     CompleteReview, CancelPost, DeletePost, DisconnectAccount, AdminRetryFailedPost,
     RepairFuturePosted, histVars
<1>3. Evidence' = Evidence /\ Delivery
  BY <1>2 DEF auditVars, Evidence, Delivery, TryInv, Undelivered
<1> QED
  BY <1>1, <1>2, <1>3, QuietTry

\* A worker settles only the attempt it opened, and settles it once.
LEMMA TryWorker ==
  ASSUME TryInv, NEW w \in Workers, WorkerStep(w)
  PROVE  TryInv' /\ Delivery
<1> USE DEF auditVars, histVars
<1> DEFINE W == worker[w]
<1>0. TypeInv /\ TypeInv' /\ W \in WorkerStates /\ WorkerShape(W)
  BY TypeWorker DEF TryInv, TypeInv, TypeOK, ShapeOK
<1>1. \A v \in Workers : v # w => worker'[v] = worker[v]
  BY <1>0, OthersWait
<1>2. CASE \/ Dequeue(w) \/ ResolveTargets(w) \/ LoadPostTargets(w) \/ WorkerDrain(w)
           \/ WriteResult(w)
  <2>1. worker'[w].pc \notin {"prepare", "publish", "persist"}
    BY <1>0, <1>2, OutsideMoves
  <2>2. UNCHANGED claims
    BY <1>2 DEF Dequeue, ResolveTargets, LoadPostTargets, WorkerDrain, WriteResult
  <2>3. Evidence' = Evidence /\ Delivery
    <3>1. CASE WorkerDrain(w)
      BY <3>1, DrainMoves DEF WorkerDrain
    <3>2. CASE UNCHANGED auditVars
      BY <3>2 DEF Evidence, Delivery, TryInv, Undelivered
    <3> QED
      BY <1>2, <3>1, <3>2 DEF Dequeue, ResolveTargets, LoadPostTargets, WriteResult
  <2> QED
    BY <1>0, <1>1, <2>1, <2>2, <2>3, QuietTry
<1>3. CASE PreparePublish(w) \/ Publish(w)
  <2>1. UNCHANGED claims /\ Evidence' = Evidence /\ Delivery
    BY <1>3 DEF PreparePublish, Publish, Evidence, Delivery, TryInv, Undelivered
  <2>2. W.pc \in {"prepare", "publish"}
    BY <1>3 DEF PreparePublish, Publish
  <2>3. \E c, o : worker'[w] = [W EXCEPT !.pc = c] \/ worker'[w] = [W EXCEPT !.pc = c, !.outcome = o]
    BY <1>0, <1>3, GotoValue DEF PreparePublish, Publish
  <2>4. worker'[w].job = W.job /\ worker'[w].cur = W.cur /\ worker'[w].try = W.try
    <3>1. PICK c, o : \/ worker'[w] = [W EXCEPT !.pc = c]
                      \/ worker'[w] = [W EXCEPT !.pc = c, !.outcome = o]
      BY <2>3
    <3>2. CASE worker'[w] = [W EXCEPT !.pc = c]
      BY <1>0, <3>2, WorkerFields
    <3>3. CASE worker'[w] = [W EXCEPT !.pc = c, !.outcome = o]
      BY <1>0, <3>3, WorkerFields
    <3> QED
      BY <3>1, <3>2, <3>3
  <2> QED
    BY <1>0, <1>1, <2>1, <2>2, <2>4, QuietTry
<1>4. CASE ClaimTarget(w)
  <2> DEFINE p == W.job.post
  <2>1. p \in Posts /\ W.todo \subseteq Accounts /\ UNCHANGED auditLog
    BY <1>0, <1>4 DEF ClaimTarget, WorkerShape, WorkerStates, Snapshots
  <2>2. CASE /\ UNCHANGED <<claims, outbox>>
             /\ Goto(w, IdleWorker) \/ Goto(w, [W EXCEPT !.pc = "result", !.err = TRUE])
    <3>1. worker'[w].pc \in {"idle", "result"}
      <4>1. CASE Goto(w, IdleWorker)
        BY <1>0, <4>1, GotoValue DEF IdleWorker
      <4>2. CASE Goto(w, [W EXCEPT !.pc = "result", !.err = TRUE])
        <5>1. worker'[w] = [W EXCEPT !.pc = "result", !.err = TRUE]
          BY <1>0, <4>2, GotoValue
        <5> QED
          BY <1>0, <5>1, WorkerFields
      <4> QED
        BY <2>2, <4>1, <4>2
    <3>2. Evidence' = Evidence /\ Delivery
      BY <2>1, <2>2 DEF Evidence, Delivery, TryInv, Undelivered
    <3> QED
      BY <1>0, <1>1, <2>2, <3>1, <3>2, QuietTry
  <2>3. ASSUME NEW a \in W.todo,
               claims' = [claims EXCEPT ![p][a] = @ + 1],
               outbox' = outbox \cup {Event(p, a, claims[p][a] + 1, "started")},
               Goto(w, [W EXCEPT !.pc = "prepare", !.cur = a, !.try = claims[p][a] + 1])
        PROVE  TryInv' /\ Delivery
    <3> DEFINE n == claims[p][a] + 1
               e == Event(p, a, n, "started")
    <3>1. a \in Accounts
      BY <2>1, <2>3
    <3>2. claims[p][a] \in Nat /\ n \in Nat /\ claims[p][a] < n
      <4>1. claims[p][a] \in Nat
        BY <1>0, <2>1, <3>1 DEF TypeInv, TypeOK
      <4> QED
        BY <4>1
    <3>3. worker'[w].job = W.job /\ worker'[w].cur = a /\ worker'[w].pc = "prepare"
          /\ worker'[w].try = n
      <4>1. worker'[w] = [W EXCEPT !.pc = "prepare", !.cur = a, !.try = n]
        BY <1>0, <2>3, GotoValue
      <4> QED
        BY <1>0, <4>1, WorkerFields
    <3>4. \A q \in Posts, b \in Accounts :
            claims'[q][b] = IF q = p /\ b = a THEN n ELSE claims[q][b]
      <4>1. claims \in [Posts -> [Accounts -> Nat]]
        BY <1>0 DEF TypeInv, TypeOK
      <4> QED
        BY <2>1, <2>3, <3>1, <3>2, <4>1, TableUpdate
    <3>5. e.post = p /\ e.account = a /\ e.try = n /\ e.kind = "started"
      BY DEF Event
    <3> HIDE DEF n, e
    <3>6. Evidence' = Evidence \cup {e}
      BY <2>1, <2>3 DEF Evidence, e, n
    <3>7. \A f \in Evidence : /\ f.post \in Posts /\ f.account \in Accounts /\ f.try \in Nat
                              /\ f.post = p /\ f.account = a => f.try # n
      <4>1. \A f \in Evidence : f.post \in Posts /\ f.account \in Accounts /\ f.try \in Nat
        BY <1>0 DEF TypeInv, TypeOK, Evidence, Events
      <4> QED
        BY <4>1, <3>2 DEF TryInv, EvidenceOpened
    <3>8. Delivery
      <4>1. e \notin Evidence
        BY <3>5, <3>7
      <4>2. outbox' = outbox \cup {e}
        BY <2>3 DEF e, n
      <4> QED
        BY <2>1, <3>6, <4>1, <4>2 DEF Delivery, Evidence, TryInv, Undelivered
    <3>9. EvidenceOpened'
      <4> SUFFICES ASSUME NEW f \in Evidence' PROVE f.try <= claims'[f.post][f.account]
        BY DEF EvidenceOpened
      <4>1. CASE f = e
        BY <2>1, <3>1, <3>2, <3>4, <3>5, <4>1
      <4>2. CASE f \in Evidence
        <5>1. /\ f.try <= claims[f.post][f.account] /\ f.try \in Nat
              /\ f.post \in Posts /\ f.account \in Accounts
          BY <3>7, <4>2 DEF TryInv, EvidenceOpened
        <5>2. CASE f.post = p /\ f.account = a
          BY <3>2, <3>4, <5>1, <5>2
        <5>3. CASE ~(f.post = p /\ f.account = a)
          BY <3>4, <5>1, <5>3
        <5> QED
          BY <5>2, <5>3
      <4> QED
        BY <3>6, <4>1, <4>2
    <3>10. OpenedHasEvidence'
      <4> SUFFICES ASSUME NEW q \in Posts, NEW b \in Accounts, NEW k \in Nat \ {0},
                          k <= claims'[q][b]
                   PROVE  Event(q, b, k, "started") \in Evidence'
        BY DEF OpenedHasEvidence
      <4>1. CASE q = p /\ b = a /\ k = n
        BY <3>6, <4>1 DEF e, n
      <4>2. CASE ~(q = p /\ b = a /\ k = n)
        <5>1. k <= claims[q][b]
          BY <3>2, <3>4, <4>2 DEF n
        <5> QED
          BY <3>6, <5>1 DEF TryInv, OpenedHasEvidence
      <4> QED
        BY <4>1, <4>2
    <3>11. OneOutcomePerTry'
      BY <3>5, <3>6 DEF TryInv, OneOutcomePerTry
    <3>12. ASSUME NEW v \in Workers, NEW q \in Posts, NEW b \in Accounts, Holds(v, q, b)'
           PROVE  \/ v = w /\ q = p /\ b = a /\ worker'[v].try = n
                  \/ v # w /\ Holds(v, q, b) /\ worker'[v].try = worker[v].try
      BY <1>1, <3>3, <3>12 DEF Holds
    <3>13. \A v \in Workers, q \in Posts, b \in Accounts : Holds(v, q, b) =>
             /\ worker[v].try <= claims[q][b]
             /\ worker[v].try \in Nat
      BY <1>0 DEF TryInv, HeldIsOpen, TypeInv, TypeOK, WorkerStates
    <3>14. HeldIsOpen'
      <4> SUFFICES ASSUME NEW v \in Workers, NEW q \in Posts, NEW b \in Accounts, Holds(v, q, b)'
                   PROVE  /\ worker'[v].try <= claims'[q][b]
                          /\ \A f \in Evidence' :
                               f.post = q /\ f.account = b /\ f.try = worker'[v].try
                               => f.kind = "started"
        BY DEF HeldIsOpen
      <4>1. CASE v = w /\ q = p /\ b = a /\ worker'[v].try = n
        BY <2>1, <3>1, <3>2, <3>4, <3>5, <3>6, <3>7, <4>1
      <4>2. CASE v # w /\ Holds(v, q, b) /\ worker'[v].try = worker[v].try
        <5>1. claims[q][b] <= claims'[q][b] /\ claims[q][b] \in Nat /\ claims'[q][b] \in Nat
          <6>1. claims[q][b] \in Nat
            BY <1>0 DEF TypeInv, TypeOK
          <6> QED
            BY <3>2, <3>4, <6>1
        <5>2. worker[v].try <= claims'[q][b]
          BY <3>13, <4>2, <5>1
        <5> QED
          BY <3>5, <3>6, <4>2, <5>2 DEF TryInv, HeldIsOpen
      <4> QED
        BY <3>12, <4>1, <4>2
    <3>15. DistinctTries'
      <4> SUFFICES ASSUME NEW u \in Workers, NEW v \in Workers, NEW q \in Posts, NEW b \in Accounts,
                          Holds(u, q, b)', Holds(v, q, b)', worker'[u].try = worker'[v].try
                   PROVE  u = v
        BY DEF DistinctTries
      <4>1. CASE u # w /\ v # w
        BY <3>12, <4>1 DEF TryInv, DistinctTries
      <4>2. ASSUME NEW x \in Workers, x # w, Holds(x, p, a), worker[x].try = n PROVE FALSE
        BY <2>1, <3>1, <3>2, <3>13, <4>2
      <4> QED
        BY <3>12, <4>1, <4>2
    <3> QED
      BY <1>0, <3>8, <3>9, <3>10, <3>11, <3>14, <3>15 DEF TryInv, Delivery, Undelivered
  <2> QED
    BY <1>4, <2>2, <2>3 DEF ClaimTarget
<1>5. CASE PersistTargetOutcome(w)
  <2> DEFINE p == W.job.post
             a == W.cur
             e == Event(p, a, W.try, OutcomeKind[W.outcome])
  <2>1. /\ UNCHANGED <<claims, auditLog>> /\ W.pc = "persist" /\ Holds(w, p, a)
        /\ p \in Posts /\ a \in Accounts
        /\ W.outcome \in {"posted", "failed", "unknown"}
    BY <1>0, <1>5 DEF PersistTargetOutcome, Holds, WorkerShape, WorkerStates, Snapshots
  <2>2. worker'[w].pc \in {"idle", "drain"}
    <3>1. worker'[w] = IdleWorker \/ worker'[w] = [W EXCEPT !.pc = "drain"]
      BY <1>0, <1>5, GotoValue DEF PersistTargetOutcome
    <3>2. CASE worker'[w] = IdleWorker
      BY <3>2 DEF IdleWorker
    <3>3. CASE worker'[w] = [W EXCEPT !.pc = "drain"]
      BY <1>0, <3>3, WorkerFields
    <3> QED
      BY <3>1, <3>2, <3>3
  <2>3. CASE UNCHANGED outbox
    <3>1. Evidence' = Evidence /\ Delivery
      BY <2>1, <2>3 DEF Evidence, Delivery, TryInv, Undelivered
    <3> QED
      BY <1>0, <1>1, <2>1, <2>2, <3>1, QuietTry
  <2>4. CASE outbox' = outbox \cup {e}
    <3>1. e.post = p /\ e.account = a /\ e.try = W.try /\ e.kind # "started"
      BY <2>1 DEF Event, OutcomeKind
    <3>2. Evidence' = Evidence \cup {e}
      BY <2>1, <2>4 DEF Evidence
    <3> HIDE DEF e
    <3>3. /\ W.try <= claims[p][a]
          /\ \A f \in Evidence : f.post = p /\ f.account = a /\ f.try = W.try => f.kind = "started"
      BY <2>1 DEF TryInv, HeldIsOpen
    <3>4. Delivery
      <4>1. e \notin Evidence
        BY <3>1, <3>3
      <4> QED
        BY <2>1, <2>4, <3>2, <4>1 DEF Delivery, Evidence, TryInv, Undelivered
    <3>5. EvidenceOpened' /\ OpenedHasEvidence'
      BY <2>1, <3>1, <3>2, <3>3 DEF TryInv, EvidenceOpened, OpenedHasEvidence
    <3>6. OneOutcomePerTry'
      BY <3>1, <3>2, <3>3 DEF TryInv, OneOutcomePerTry
    <3>7. ASSUME NEW v \in Workers, NEW q \in Posts, NEW b \in Accounts, Holds(v, q, b)'
          PROVE  v # w /\ Holds(v, q, b) /\ worker'[v].try = worker[v].try
      BY <1>1, <2>2, <3>7 DEF Holds
    <3>8. HeldIsOpen'
      <4> SUFFICES ASSUME NEW v \in Workers, NEW q \in Posts, NEW b \in Accounts, Holds(v, q, b)'
                   PROVE  /\ worker'[v].try <= claims'[q][b]
                          /\ \A f \in Evidence' :
                               f.post = q /\ f.account = b /\ f.try = worker'[v].try
                               => f.kind = "started"
        BY DEF HeldIsOpen
      <4>1. ~(q = p /\ b = a /\ worker[v].try = W.try)
        BY <2>1, <3>7 DEF TryInv, DistinctTries
      <4> QED
        BY <2>1, <3>1, <3>2, <3>7, <4>1 DEF TryInv, HeldIsOpen
    <3>9. DistinctTries'
      BY <3>7 DEF TryInv, DistinctTries
    <3> QED
      BY <1>0, <3>4, <3>5, <3>6, <3>8, <3>9 DEF TryInv, Delivery, Undelivered
  <2> QED
    BY <1>5, <2>3, <2>4 DEF PersistTargetOutcome
<1> QED
  BY <1>2, <1>3, <1>4, <1>5 DEF WorkerStep

\* The evidence invariant is inductive, and every step delivers in order.
LEMMA TryStep == TryInv /\ [Next]_vars => TryInv' /\ [Delivery]_vars
<1> SUFFICES ASSUME TryInv, [Next]_vars PROVE TryInv' /\ [Delivery]_vars
  OBVIOUS
<1>1. CASE UNCHANGED vars
  <2>1. TypeInv'
    BY <1>1, TypeStep DEF TryInv
  <2>2. UNCHANGED <<worker, claims, outbox, auditLog>>
    BY <1>1 DEF vars, auditVars, histVars
  <2>3. Evidence' = Evidence /\ Delivery
    BY <2>2 DEF Evidence, Delivery, TryInv, Undelivered
  <2> QED
    BY <2>1, <2>2, <2>3, QuietTry
<1>2. CASE Next
  BY <1>2, TryScheduler, TryWorker, TryRequest DEF Next
<1> QED
  BY <1>1, <1>2

\* An attempt_id is settled at most once, although an administrator's retry or
\* a PATCH may hand its target to a second worker while the first still holds
\* it (processPost makes the attempt_id with the claim).
THEOREM SettledOnce == Spec => []OneOutcomePerTry
<1>1. TryInv => OneOutcomePerTry
  BY DEF TryInv
<1> QED
  BY <1>1, TryInit, TryStep, PTL DEF Spec

\* An event leaves audit_pending only for audit_events, in the same step, and is
\* in one of them from then on (EnqueueAuditEvent, DrainAuditEvents).
THEOREM DeliveredOnce == Spec => DeliveryExactlyOnce
  BY TryInit, TryStep, PTL DEF Spec, DeliveryExactlyOnce, Delivery
-----------------------------------------------------------------------------
(* Evidence comes first.  The hard part is the count: workers that hold    *)
(* the same target after a reset, and crashed ones, never publish more     *)
(* often than attempts were opened.                                        *)

\* The workers that opened an attempt for the target and have not called the provider.
InFlight(p, a) ==
  {w \in Workers : /\ worker[w].pc \in {"prepare", "publish"}
                   /\ worker[w].job.post = p /\ worker[w].cur = a}

\* An attempt pays for one publication: made or still to come.
Paid ==
  \A p \in Posts, a \in Accounts :
    accepted[p][a] + Cardinality(InFlight(p, a)) <= claims[p][a]

\* A worker that is about to record "posted" has seen the provider accept.
Known ==
  \A w \in Workers : worker[w].pc = "persist" /\ worker[w].outcome = "posted" =>
    accepted[worker[w].job.post][worker[w].cur] > 0

\* A row that says posted is covered by an acceptance and its event.
Covered ==
  \A p \in Posts, a \in Accounts : target[p][a] = "posted" =>
    /\ accepted[p][a] > 0
    /\ \E n \in 1..claims[p][a] : Event(p, a, n, "success") \in Evidence

FirstInv == TryInv /\ Paid /\ Known /\ Covered

\* Sets of workers are finite, and a smaller set has no more members.
LEMMA Fewer ==
  ASSUME NEW S \in SUBSET Workers, NEW T \in SUBSET S
  PROVE  /\ IsFiniteSet(S) /\ Cardinality(S) \in Nat /\ Cardinality(T) \in Nat
         /\ Cardinality(T) <= Cardinality(S)
<1>1. IsFiniteSet(S)
  BY ConstantsAssumption, FS_Subset
<1> QED
  BY <1>1, FS_Subset, FS_CardinalityType

\* One member more or less.
LEMMA OneMore ==
  ASSUME NEW S \in SUBSET Workers, NEW w
  PROVE  /\ Cardinality(S \cup {w}) \in Nat /\ Cardinality(S \cup {w}) <= Cardinality(S) + 1
         /\ w \in S => Cardinality(S \ {w}) = Cardinality(S) - 1
<1>1. IsFiniteSet(S) /\ Cardinality(S) \in Nat
  BY Fewer
<1>2. Cardinality(S \cup {w}) = IF w \in S THEN Cardinality(S) ELSE Cardinality(S) + 1
  BY <1>1, FS_AddElement
<1>3. w \in S => Cardinality(S \ {w}) = Cardinality(S) - 1
  BY <1>1, FS_RemoveElement
<1> QED
  BY <1>1, <1>2, <1>3

\* No attempt is open at the start.
LEMMA FirstInit == Init => FirstInv
<1> SUFFICES ASSUME Init PROVE FirstInv
  OBVIOUS
<1>1. TryInv
  BY TryInit
<1>2. \A p \in Posts, a \in Accounts : InFlight(p, a) = {}
  BY DEF Init, InFlight, IdleWorker
<1>3. Paid
  <2> SUFFICES ASSUME NEW p \in Posts, NEW a \in Accounts
               PROVE  accepted[p][a] + Cardinality(InFlight(p, a)) <= claims[p][a]
    BY DEF Paid
  <2>1. accepted[p][a] = 0 /\ claims[p][a] = 0
    BY DEF Init
  <2>2. Cardinality(InFlight(p, a)) = 0
    BY <1>2, FS_EmptySet
  <2> QED
    BY <2>1, <2>2
<1>4. Known /\ Covered
  BY DEF Init, Known, Covered, IdleWorker, NoRows
<1> QED
  BY <1>1, <1>3, <1>4 DEF FirstInv

\* A step that opens no attempt, publishes nothing and marks no row posted.
LEMMA QuietFirst ==
  ASSUME FirstInv, TryInv', Delivery, UNCHANGED <<claims, accepted>>,
         \A w \in Workers :
           /\ worker'[w].pc \in {"prepare", "publish"} =>
                /\ worker[w].pc \in {"prepare", "publish"}
                /\ worker'[w].job = worker[w].job /\ worker'[w].cur = worker[w].cur
           /\ worker'[w].pc = "persist" /\ worker'[w].outcome = "posted" => worker'[w] = worker[w],
         \A p \in Posts, a \in Accounts : target'[p][a] = "posted" => target[p][a] = "posted"
  PROVE  FirstInv'
<1>1. Paid'
  <2> SUFFICES ASSUME NEW p \in Posts, NEW a \in Accounts
               PROVE  accepted'[p][a] + Cardinality(InFlight(p, a)') <= claims'[p][a]
    BY DEF Paid
  <2>1. InFlight(p, a)' \in SUBSET InFlight(p, a) /\ InFlight(p, a) \in SUBSET Workers
    BY DEF InFlight
  <2>2. Cardinality(InFlight(p, a)') <= Cardinality(InFlight(p, a))
        /\ Cardinality(InFlight(p, a)') \in Nat /\ Cardinality(InFlight(p, a)) \in Nat
    BY <2>1, Fewer
  <2>3. accepted[p][a] \in Nat /\ claims[p][a] \in Nat
    BY DEF FirstInv, TryInv, TypeInv, TypeOK
  <2> QED
    BY <2>2, <2>3 DEF FirstInv, Paid
<1>2. Known'
  BY DEF FirstInv, Known
<1>3. Covered'
  BY DEF FirstInv, Covered, Delivery
<1> QED
  BY <1>1, <1>2, <1>3 DEF FirstInv

\* The poll loop and a restart touch neither attempts nor rows.
LEMMA FirstScheduler ==
  ASSUME FirstInv, NEW i \in Instances, SchedulerStep(i) \/ Crash(i)
  PROVE  FirstInv'
<1>1. TryInv' /\ Delivery
  BY TryScheduler DEF FirstInv
<1>2. UNCHANGED <<claims, accepted, target>>
  BY DEF SchedulerStep, LoopDrain, ListDuePosts, MarkListed, Enqueue, Crash, dbVars, histVars
<1>3. \A w \in Workers : worker'[w] = worker[w] \/ worker'[w].pc = "idle"
  BY DEF SchedulerStep, LoopDrain, ListDuePosts, MarkListed, Enqueue, Crash, IdleWorker
<1> QED
  BY <1>1, <1>2, <1>3, QuietFirst

\* No request marks a target posted; the ones that touch rows reset or remove them.
LEMMA FirstRequest ==
  ASSUME FirstInv, RequestStep
  PROVE  FirstInv'
<1> USE DEF dbVars, histVars, Send
<1>0. TypeInv /\ TryInv' /\ Delivery
  BY TryRequest DEF FirstInv, TryInv
<1>1. UNCHANGED <<worker, claims, accepted>>
  BY DEF RequestStep, CreatePost, BecomeDue, UpdatePost, CheckUpdate, ReadUpdate, WriteUpdate,
     CompleteReview, CancelPost, DeletePost, DisconnectAccount, AdminRetryFailedPost,
     RepairFuturePosted
<1> DEFINE NonePosted == \A p \in Posts, a \in Accounts :
                            target'[p][a] = "posted" => target[p][a] = "posted"
<1>2. ASSUME NEW p, NEW S, target' = [target EXCEPT ![p] = PendingRows(S)] PROVE NonePosted
  BY <1>0, <1>2 DEF PendingRows, TypeInv, TypeOK
<1>3. ASSUME NEW p, NEW in, NEW was, NEW d, PatchScheduledPost(p, in, was, d) PROVE NonePosted
  <2>1. \/ UNCHANGED target
        \/ target' = [target EXCEPT ![p] = PendingRows(in.targets)]
    BY <1>3 DEF PatchScheduledPost
  <2> QED
    BY <1>2, <2>1
<1>4. CASE \/ \E p \in Posts : CreatePost(p) \/ DeletePost(p)
           \/ \E a \in Accounts : DisconnectAccount(a)
  <2>1. ASSUME NEW p \in Posts, CreatePost(p) PROVE NonePosted
    BY <1>2, <2>1 DEF CreatePost
  <2>2. ASSUME NEW p \in Posts, DeletePost(p) PROVE NonePosted
    BY <1>0, <2>2 DEF DeletePost, NoRows, TypeInv, TypeOK
  <2>3. ASSUME NEW a \in Accounts, DisconnectAccount(a) PROVE NonePosted
    BY <1>0, <2>3 DEF DisconnectAccount, TypeInv, TypeOK
  <2> QED
    BY <1>0, <1>1, <1>4, <2>1, <2>2, <2>3, QuietFirst
<1>5. CASE \E p \in Posts : AdminRetryFailedPost(p)
  BY <1>0, <1>1, <1>5, QuietFirst DEF AdminRetryFailedPost, TypeInv, TypeOK
<1>6. CASE (\E p \in Posts : UpdatePost(p)) \/ (\E r \in Requests : WriteUpdate(r))
  <2>1. NonePosted
    BY <1>3, <1>6 DEF UpdatePost, WriteUpdate
  <2> QED
    BY <1>0, <1>1, <2>1, QuietFirst
<1>7. CASE UNCHANGED target
  BY <1>0, <1>1, <1>7, QuietFirst
<1> QED
  BY <1>4, <1>5, <1>6, <1>7
  DEF RequestStep, BecomeDue, CheckUpdate, ReadUpdate, CompleteReview, CancelPost, RepairFuturePosted

-----------------------------------------------------------------------------
\* A claim opens the attempt that pays for the publication to come.
LEMMA FirstClaim ==
  ASSUME FirstInv, NEW w \in Workers, ClaimTarget(w), NEW a \in worker[w].todo,
         TryInv', Delivery,
         target' = [target EXCEPT ![worker[w].job.post][a] = "processing"],
         claims' = [claims EXCEPT ![worker[w].job.post][a] = @ + 1],
         Goto(w, [worker[w] EXCEPT !.pc = "prepare", !.cur = a,
                                   !.try = claims[worker[w].job.post][a] + 1])
  PROVE  FirstInv'
<1> DEFINE W == worker[w]
           p == W.job.post
<1>0. /\ TypeInv /\ W \in WorkerStates /\ W.pc = "claim" /\ UNCHANGED accepted
      /\ p \in Posts /\ a \in Accounts
      /\ claims \in [Posts -> [Accounts -> Nat]] /\ accepted \in [Posts -> [Accounts -> Nat]]
      /\ target \in [Posts -> [Accounts -> TargetStatus \cup {"none"}]]
  BY DEF ClaimTarget, FirstInv, TryInv, TypeInv, TypeOK, ShapeOK, WorkerShape, WorkerStates, Snapshots
<1>1. \A v \in Workers : v # w => worker'[v] = worker[v]
  BY <1>0, OthersWait DEF WorkerStep
<1>2. worker'[w].job = W.job /\ worker'[w].cur = a /\ worker'[w].pc = "prepare"
  <2>1. worker'[w] = [W EXCEPT !.pc = "prepare", !.cur = a, !.try = claims[p][a] + 1]
    BY <1>0, GotoValue
  <2> QED
    BY <1>0, <2>1, WorkerFields
<1>3. \A q \in Posts, b \in Accounts :
        claims'[q][b] = IF q = p /\ b = a THEN claims[p][a] + 1 ELSE claims[q][b]
  BY <1>0
<1>4. \A q \in Posts, b \in Accounts :
        InFlight(q, b)' = IF q = p /\ b = a THEN InFlight(p, a) \cup {w} ELSE InFlight(q, b)
  BY <1>0, <1>1, <1>2 DEF InFlight
<1>5. Paid'
  <2> SUFFICES ASSUME NEW q \in Posts, NEW b \in Accounts
               PROVE  accepted[q][b] + Cardinality(InFlight(q, b)') <= claims'[q][b]
    BY <1>0 DEF Paid
  <2>0. InFlight(q, b) \in SUBSET Workers
    BY DEF InFlight
  <2>1. Cardinality(InFlight(q, b)) \in Nat
    BY <2>0, Fewer
  <2>2. accepted[q][b] + Cardinality(InFlight(q, b)) <= claims[q][b]
        /\ accepted[q][b] \in Nat /\ claims[q][b] \in Nat
    BY <1>0 DEF FirstInv, Paid
  <2>3. CASE q = p /\ b = a
    <3>1. InFlight(q, b)' = InFlight(q, b) \cup {w} /\ claims'[q][b] = claims[q][b] + 1
      BY <1>3, <1>4, <2>3
    <3>2. Cardinality(InFlight(q, b)') <= Cardinality(InFlight(q, b)) + 1
          /\ Cardinality(InFlight(q, b)') \in Nat
      BY <2>0, <3>1, OneMore
    <3> QED
      BY <2>1, <2>2, <3>1, <3>2
  <2>4. CASE ~(q = p /\ b = a)
    BY <1>3, <1>4, <2>2, <2>4
  <2> QED
    BY <2>3, <2>4
<1>6. Known'
  BY <1>0, <1>1, <1>2 DEF FirstInv, Known
<1>7. Covered'
  <2> SUFFICES ASSUME NEW q \in Posts, NEW b \in Accounts, target'[q][b] = "posted"
               PROVE  /\ accepted'[q][b] > 0
                      /\ \E n \in 1..claims'[q][b] : Event(q, b, n, "success") \in Evidence'
    BY DEF Covered
  <2>1. target[q][b] = "posted"
    BY <1>0
  <2>2. claims[q][b] <= claims'[q][b] /\ claims[q][b] \in Nat /\ claims'[q][b] \in Nat
    BY <1>0, <1>3
  <2> QED
    BY <1>0, <2>1, <2>2 DEF FirstInv, Covered, Delivery
<1> QED
  BY <1>5, <1>6, <1>7 DEF FirstInv

\* The provider call uses up the attempt.
LEMMA FirstPublish ==
  ASSUME FirstInv, NEW w \in Workers, Publish(w), TryInv', Delivery
  PROVE  FirstInv'
<1> DEFINE W == worker[w]
           p == W.job.post
           a == W.cur
<1>0. /\ TypeInv /\ W \in WorkerStates /\ W.pc = "publish"
      /\ UNCHANGED <<claims, target>>
      /\ p \in Posts /\ a \in Accounts
      /\ claims \in [Posts -> [Accounts -> Nat]] /\ accepted \in [Posts -> [Accounts -> Nat]]
  BY DEF Publish, FirstInv, TryInv, TypeInv, TypeOK, ShapeOK, WorkerShape, WorkerStates, Snapshots,
         histVars, dbVars
<1>1. \A v \in Workers : v # w => worker'[v] = worker[v]
  BY <1>0, OthersWait DEF WorkerStep
<1>2. PICK r \in PublishResults :
        /\ accepted' = [accepted EXCEPT ![p][a] = @ + r.shown]
        /\ Goto(w, [W EXCEPT !.pc = "persist", !.outcome = r.outcome])
  BY DEF Publish
<1>3. r.shown \in 0..1 /\ (r.outcome = "posted" => r.shown = 1)
  BY DEF PublishResults
<1>4. worker'[w].job = W.job /\ worker'[w].cur = a /\ worker'[w].pc = "persist"
      /\ worker'[w].outcome = r.outcome
  <2>1. worker'[w] = [W EXCEPT !.pc = "persist", !.outcome = r.outcome]
    BY <1>0, <1>2, GotoValue
  <2> QED
    BY <1>0, <2>1, WorkerFields
<1>5. \A q \in Posts, b \in Accounts :
        /\ accepted'[q][b] = IF q = p /\ b = a THEN accepted[p][a] + r.shown ELSE accepted[q][b]
        /\ accepted'[q][b] >= accepted[q][b] /\ accepted[q][b] \in Nat /\ accepted'[q][b] \in Nat
  BY <1>0, <1>2, <1>3
<1>6. \A q \in Posts, b \in Accounts :
        InFlight(q, b)' = IF q = p /\ b = a THEN InFlight(p, a) \ {w} ELSE InFlight(q, b)
  BY <1>0, <1>1, <1>4 DEF InFlight
<1>7. Paid'
  <2> SUFFICES ASSUME NEW q \in Posts, NEW b \in Accounts
               PROVE  accepted'[q][b] + Cardinality(InFlight(q, b)') <= claims[q][b]
    BY <1>0 DEF Paid
  <2>0. InFlight(q, b) \in SUBSET Workers
    BY DEF InFlight
  <2>1. Cardinality(InFlight(q, b)) \in Nat
    BY <2>0, Fewer
  <2>2. accepted[q][b] + Cardinality(InFlight(q, b)) <= claims[q][b]
        /\ accepted[q][b] \in Nat /\ claims[q][b] \in Nat
    BY <1>0 DEF FirstInv, Paid
  <2>3. CASE q = p /\ b = a
    <3>1. w \in InFlight(q, b)
      BY <1>0, <2>3 DEF InFlight
    <3>2. Cardinality(InFlight(q, b) \ {w}) = Cardinality(InFlight(q, b)) - 1
      BY <2>0, <3>1, OneMore
    <3>3. InFlight(q, b)' = InFlight(q, b) \ {w} /\ accepted'[q][b] = accepted[q][b] + r.shown
      BY <1>5, <1>6, <2>3
    <3> QED
      BY <1>3, <2>1, <2>2, <3>2, <3>3
  <2>4. CASE ~(q = p /\ b = a)
    BY <1>5, <1>6, <2>2, <2>4
  <2> QED
    BY <2>3, <2>4
<1>8. Known'
  <2> SUFFICES ASSUME NEW v \in Workers, worker'[v].pc = "persist", worker'[v].outcome = "posted"
               PROVE  accepted'[worker'[v].job.post][worker'[v].cur] > 0
    BY DEF Known
  <2>1. CASE v = w
    BY <1>0, <1>3, <1>4, <1>5, <2>1
  <2>2. CASE v # w
    <3>1. worker[v].job.post \in Posts /\ worker[v].cur \in Accounts
      BY <1>0, <1>1, <2>2 DEF TypeInv, TypeOK, ShapeOK, WorkerShape, Snapshots
    <3>2. accepted[worker[v].job.post][worker[v].cur] > 0
      BY <1>1, <2>2 DEF FirstInv, Known
    <3> QED
      BY <1>1, <1>5, <2>2, <3>1, <3>2
  <2> QED
    BY <2>1, <2>2
<1>9. Covered'
  <2> SUFFICES ASSUME NEW q \in Posts, NEW b \in Accounts, target[q][b] = "posted"
               PROVE  /\ accepted'[q][b] > 0
                      /\ \E n \in 1..claims[q][b] : Event(q, b, n, "success") \in Evidence'
    BY <1>0 DEF Covered
  <2> QED
    BY <1>5 DEF FirstInv, Covered, Delivery
<1> QED
  BY <1>7, <1>8, <1>9 DEF FirstInv

\* The row and the event of an outcome are written together.
LEMMA FirstPersist ==
  ASSUME FirstInv, NEW w \in Workers, PersistTargetOutcome(w), TryInv', Delivery
  PROVE  FirstInv'
<1> DEFINE W == worker[w]
           p == W.job.post
           a == W.cur
           e == Event(p, a, W.try, OutcomeKind[W.outcome])
<1>0. /\ TypeInv /\ W \in WorkerStates /\ W.pc = "persist" /\ Holds(w, p, a)
      /\ UNCHANGED <<claims, accepted>>
      /\ p \in Posts /\ a \in Accounts /\ W.try \in Nat /\ W.try > 0
      /\ claims \in [Posts -> [Accounts -> Nat]] /\ accepted \in [Posts -> [Accounts -> Nat]]
      /\ target \in [Posts -> [Accounts -> TargetStatus \cup {"none"}]]
      /\ W.outcome \in {"posted", "failed", "unknown"}
  BY DEF PersistTargetOutcome, FirstInv, TryInv, TypeInv, TypeOK, ShapeOK, WorkerShape, WorkerStates,
         Snapshots, histVars, Holds
<1>1. \A v \in Workers : v # w => worker'[v] = worker[v]
  BY <1>0, OthersWait DEF WorkerStep
<1>2. worker'[w].pc \in {"idle", "drain"}
  <2>1. worker'[w] = IdleWorker \/ worker'[w] = [W EXCEPT !.pc = "drain"]
    BY <1>0, GotoValue DEF PersistTargetOutcome
  <2>2. CASE worker'[w] = IdleWorker
    BY <2>2 DEF IdleWorker
  <2>3. CASE worker'[w] = [W EXCEPT !.pc = "drain"]
    BY <1>0, <2>3, WorkerFields
  <2> QED
    BY <2>1, <2>2, <2>3
<1>3. CASE \A q \in Posts, b \in Accounts : target'[q][b] = "posted" => target[q][b] = "posted"
  BY <1>0, <1>1, <1>2, <1>3, QuietFirst
<1>4. CASE /\ target' = [target EXCEPT ![p][a] = IF @ = "none" THEN @ ELSE OutcomeStatus[W.outcome]]
           /\ outbox' = outbox \cup {e} /\ W.outcome = "posted"
  <2>1. e = Event(p, a, W.try, "success") /\ e \in Evidence'
    BY <1>4 DEF OutcomeKind, Evidence
  <2>2. W.try \in 1..claims[p][a]
    BY <1>0 DEF FirstInv, TryInv, HeldIsOpen
  <2>3. accepted[p][a] > 0
    BY <1>0, <1>4 DEF FirstInv, Known
  <2>4. Covered'
    <3> SUFFICES ASSUME NEW q \in Posts, NEW b \in Accounts, target'[q][b] = "posted"
                 PROVE  /\ accepted[q][b] > 0
                        /\ \E n \in 1..claims[q][b] : Event(q, b, n, "success") \in Evidence'
      BY <1>0 DEF Covered
    <3>1. CASE q = p /\ b = a
      BY <2>1, <2>2, <2>3, <3>1
    <3>2. CASE ~(q = p /\ b = a)
      <4>1. target[q][b] = "posted"
        BY <1>0, <1>4, <3>2
      <4> QED
        BY <4>1 DEF FirstInv, Covered, Delivery
    <3> QED
      BY <3>1, <3>2
  <2>5. Known'
    BY <1>0, <1>1, <1>2 DEF FirstInv, Known
  <2>6. \A q \in Posts, b \in Accounts : InFlight(q, b)' = InFlight(q, b)
    BY <1>0, <1>1, <1>2 DEF InFlight
  <2>7. Paid'
    BY <1>0, <2>6 DEF FirstInv, Paid
  <2> QED
    BY <2>4, <2>5, <2>7 DEF FirstInv
<1>5. CASE /\ target' = [target EXCEPT ![p][a] = IF @ = "none" THEN @ ELSE OutcomeStatus[W.outcome]]
           /\ W.outcome # "posted"
  <2>1. OutcomeStatus[W.outcome] # "posted"
    BY <1>0, <1>5 DEF OutcomeStatus
  <2> QED
    BY <1>0, <1>3, <1>5, <2>1
<1>6. CASE UNCHANGED target
  BY <1>3, <1>6
<1> QED
  BY <1>4, <1>5, <1>6 DEF PersistTargetOutcome

\* What a step of processPost does to attempts, publications and rows.
LEMMA FirstWorker ==
  ASSUME FirstInv, NEW w \in Workers, WorkerStep(w)
  PROVE  FirstInv'
<1> DEFINE W == worker[w]
<1>0. TypeInv /\ TryInv' /\ Delivery /\ W \in WorkerStates
  BY TryWorker DEF FirstInv, TryInv, TypeInv, TypeOK
<1>1. \A v \in Workers : v # w => worker'[v] = worker[v]
  BY <1>0, OthersWait
<1>2. CASE \/ Dequeue(w) \/ ResolveTargets(w) \/ LoadPostTargets(w) \/ WorkerDrain(w)
           \/ WriteResult(w)
  <2>1. worker'[w].pc \notin {"prepare", "publish", "persist"}
    BY <1>0, <1>2, OutsideMoves
  <2>2. UNCHANGED <<claims, accepted, target>>
    BY <1>2 DEF Dequeue, ResolveTargets, LoadPostTargets, WorkerDrain, WriteResult, histVars, dbVars
  <2> QED
    BY <1>0, <1>1, <2>1, <2>2, QuietFirst
<1>3. CASE PreparePublish(w)
  <2>1. UNCHANGED <<claims, accepted, target>> /\ W.pc = "prepare"
    BY <1>3 DEF PreparePublish, histVars, dbVars
  <2>2. \/ worker'[w] = [W EXCEPT !.pc = "publish"]
        \/ worker'[w] = [W EXCEPT !.pc = "persist", !.outcome = "failed"]
    BY <1>0, <1>3, GotoValue DEF PreparePublish
  <2>3. /\ worker'[w].job = W.job /\ worker'[w].cur = W.cur
        /\ worker'[w].pc = "publish" \/ worker'[w].outcome = "failed"
    <3>1. CASE worker'[w] = [W EXCEPT !.pc = "publish"]
      BY <1>0, <3>1, WorkerFields
    <3>2. CASE worker'[w] = [W EXCEPT !.pc = "persist", !.outcome = "failed"]
      BY <1>0, <3>2, WorkerFields
    <3> QED
      BY <2>2, <3>1, <3>2
  <2> QED
    BY <1>0, <1>1, <2>1, <2>3, QuietFirst
<1>4. CASE ClaimTarget(w)
  <2>1. CASE /\ UNCHANGED <<target, claims>>
             /\ Goto(w, IdleWorker) \/ Goto(w, [W EXCEPT !.pc = "result", !.err = TRUE])
    <3>1. worker'[w].pc \in {"idle", "result"}
      <4>1. CASE Goto(w, IdleWorker)
        BY <1>0, <4>1, GotoValue DEF IdleWorker
      <4>2. CASE Goto(w, [W EXCEPT !.pc = "result", !.err = TRUE])
        <5>1. worker'[w] = [W EXCEPT !.pc = "result", !.err = TRUE]
          BY <1>0, <4>2, GotoValue
        <5> QED
          BY <1>0, <5>1, WorkerFields
      <4> QED
        BY <2>1, <4>1, <4>2
    <3>2. UNCHANGED accepted
      BY <1>4 DEF ClaimTarget
    <3> QED
      BY <1>0, <1>1, <2>1, <3>1, <3>2, QuietFirst
  <2>2. ASSUME NEW a \in W.todo,
               target' = [target EXCEPT ![W.job.post][a] = "processing"],
               claims' = [claims EXCEPT ![W.job.post][a] = @ + 1],
               Goto(w, [W EXCEPT !.pc = "prepare", !.cur = a, !.try = claims[W.job.post][a] + 1])
        PROVE  FirstInv'
    BY <1>0, <1>4, <2>2, FirstClaim
  <2> QED
    BY <1>4, <2>1, <2>2 DEF ClaimTarget
<1>5. CASE Publish(w)
  BY <1>0, <1>5, FirstPublish
<1>6. CASE PersistTargetOutcome(w)
  BY <1>0, <1>6, FirstPersist
<1> QED
  BY <1>2, <1>3, <1>4, <1>5, <1>6 DEF WorkerStep

LEMMA FirstStep == FirstInv /\ [Next]_vars => FirstInv'
<1> SUFFICES ASSUME FirstInv, [Next]_vars PROVE FirstInv'
  OBVIOUS
<1>1. CASE UNCHANGED vars
  <2>1. TryInv'
    BY TryStep DEF FirstInv
  <2>2. UNCHANGED <<worker, claims, accepted, target, outbox, auditLog>>
    BY <1>1 DEF vars, dbVars, auditVars, histVars
  <2>3. Delivery
    BY <2>2 DEF Delivery, Evidence, FirstInv, TryInv, Undelivered
  <2> QED
    BY <2>1, <2>2, <2>3, QuietFirst
<1>2. CASE Next
  BY <1>2, FirstScheduler, FirstWorker, FirstRequest DEF Next
<1> QED
  BY <1>1, <1>2

\* Durable evidence comes first: a remote account never shows more than the
\* publish_started events that were written before, and a row says posted only with a
\* publish_success event of an attempt that really was accepted (ClaimPostTargetPublication,
\* persistTargetOutcome).
THEOREM EvidenceComesFirst == Spec => []EvidenceFirst
<1>1. FirstInv => EvidenceFirst
  <2> SUFFICES ASSUME FirstInv, NEW p \in Posts, NEW a \in Accounts
               PROVE  /\ accepted[p][a] <= claims[p][a]
                      /\ \A n \in 1..claims[p][a] : Event(p, a, n, "started") \in Evidence
                      /\ target[p][a] = "posted" =>
                           /\ accepted[p][a] > 0
                           /\ \E n \in 1..claims[p][a] : Event(p, a, n, "success") \in Evidence
    BY DEF EvidenceFirst
  <2>1. accepted[p][a] \in Nat /\ claims[p][a] \in Nat
    BY DEF FirstInv, TryInv, TypeInv, TypeOK
  <2>2. Cardinality(InFlight(p, a)) \in Nat
    BY Fewer DEF InFlight
  <2>3. accepted[p][a] <= claims[p][a]
    BY <2>1, <2>2 DEF FirstInv, Paid
  <2>4. \A n \in 1..claims[p][a] : Event(p, a, n, "started") \in Evidence
    BY <2>1 DEF FirstInv, TryInv, OpenedHasEvidence
  <2> QED
    BY <2>3, <2>4 DEF FirstInv, Covered
<1> QED
  BY <1>1, FirstInit, FirstStep, PTL DEF Spec
=============================================================================
