----------------------- MODULE PostPublicationProofs -----------------------
(* Theorems about PostPublication, for every value of its constants.       *)
EXTENDS PostPublication, SequenceTheorems, TLAPS

TypeInv == TypeOK /\ ShapeOK

\* A listing of due posts is a sequence of snapshots, no longer than the limit.
LEMMA DueListType ==
  ASSUME TypeOK, NEW s \in DueLists
  PROVE  /\ [j \in DOMAIN s |-> Snapshot(s[j])] \in Seq(Snapshots)
         /\ s # <<>> => [j \in DOMAIN s |-> Snapshot(s[j])] # <<>>
<1>1. PICK n \in 0..DueLimit : s \in [1..n -> {p \in Posts : IsDue(p)}]
  BY DEF DueLists
<1>2. n \in Nat
  BY <1>1, ConstantsAssumption
<1>3. ASSUME NEW j \in 1..n PROVE Snapshot(s[j]) \in Snapshots
  <2>1. s[j] \in Posts /\ IsDue(s[j])
    BY <1>1
  <2>2. attempts[s[j]] \in 0..(MaxAttempts - 1)
    BY <2>1, ConstantsAssumption DEF TypeOK, IsDue
  <2> QED
    BY <2>1, <2>2 DEF Snapshot, Snapshots
<1>4. DOMAIN s = 1..n
  BY <1>1
<1>5. [j \in 1..n |-> Snapshot(s[j])] \in [1..n -> Snapshots]
  BY <1>3
<1>6. [j \in 1..n |-> Snapshot(s[j])] \in Seq(Snapshots)
  BY <1>2, <1>5
<1>7. s # <<>> => [j \in 1..n |-> Snapshot(s[j])] # <<>>
  <2> SUFFICES ASSUME [j \in 1..n |-> Snapshot(s[j])] = <<>> PROVE s = <<>>
    OBVIOUS
  <2>1. 1..n = {}
    OBVIOUS
  <2>2. s = [j \in 1..n |-> s[j]]
    BY <1>1
  <2> QED
    BY <2>1, <2>2
<1> QED
  BY <1>4, <1>6, <1>7

\* What is left of a list after its head is a list, empty only if it had one entry.
LEMMA TailNonEmpty ==
  ASSUME NEW S, NEW s \in Seq(S), s # <<>>, Len(s) # 1
  PROVE  Tail(s) # <<>>
<1>1. Len(s) \in Nat /\ Len(s) # 0
  BY EmptySeq
<1>2. Tail(s) \in Seq(S) /\ Len(Tail(s)) = Len(s) - 1
  BY HeadTailProperties
<1>3. Len(Tail(s)) # 0
  BY <1>1, <1>2
<1>4. Len(<<>>) = 0
  BY EmptySeq
<1> QED
  BY <1>3, <1>4, Zenon

\* One cell of a table over posts and accounts.
LEMMA TableUpdate ==
  ASSUME NEW P, NEW A, NEW S, NEW f \in [P -> [A -> S]], NEW p \in P, NEW a \in A, NEW v \in S
  PROVE  /\ [f EXCEPT ![p][a] = v] \in [P -> [A -> S]]
         /\ \A q \in P, b \in A :
              [f EXCEPT ![p][a] = v][q][b] = IF q = p /\ b = a THEN v ELSE f[q][b]
  OBVIOUS

\* A step of the poll loop leaves a sequence of snapshots behind.
LEMMA NextListedType ==
  ASSUME TypeOK, NEW i \in Instances, dueList[i] # <<>>, NextListed(i)
  PROVE  /\ dueList' \in [Instances -> Seq(Snapshots)]
         /\ loop' \in [Instances -> {"drain", "list", "mark", "send"}]
         /\ \A j \in Instances : j # i =>
              dueList'[j] = dueList[j] /\ loop'[j] = loop[j]
         /\ loop'[i] \in {"mark", "send"} => dueList'[i] # <<>>
<1>1. dueList[i] \in Seq(Snapshots)
  BY DEF TypeOK
<1>2. Tail(dueList[i]) \in Seq(Snapshots)
  BY <1>1, HeadTailProperties
<1>3. Len(dueList[i]) # 1 => Tail(dueList[i]) # <<>>
  BY <1>1, TailNonEmpty
<1> QED
  BY <1>1, <1>2, <1>3 DEF TypeOK, NextListed

\* The resting states of a worker and of a request have the right type and shape.
LEMMA IdleTypes ==
  /\ NoPatch \in PatchInput
  /\ IdleWorker \in WorkerStates /\ WorkerShape(IdleWorker)
  /\ IdleRequest \in RequestStates /\ RequestShape(IdleRequest)
<1>1. NoPatch \in PatchInput
  BY DEF NoPatch, PatchInput
<1> QED
  BY <1>1 DEF IdleWorker, IdleRequest, WorkerStates, RequestStates, WorkerShape, RequestShape

\* The type invariant holds of the empty database and of a process that has just started.
LEMMA TypeInit == Init => TypeInv
<1> SUFFICES ASSUME Init PROVE TypeInv
  OBVIOUS
<1> USE ConstantsAssumption DEF Init
<1>2. TypeOK
  BY IdleTypes DEF TypeOK, NoRows
<1>3. ShapeOK
  BY IdleTypes DEF ShapeOK
<1> QED
  BY <1>2, <1>3 DEF TypeInv

\* What a replica's poll loop does keeps the types.
LEMMA TypeScheduler ==
  ASSUME TypeInv, NEW i \in Instances, SchedulerStep(i)
  PROVE  TypeInv'
<1> USE ConstantsAssumption
<1> USE DEF dbVars, schedVars, auditVars, histVars
<1>1. CASE LoopDrain(i)
  <2>1. outbox' \in SUBSET Events /\ auditLog' \in SUBSET Events
    BY <1>1 DEF LoopDrain, DrainAuditEvents, Batches, TypeInv, TypeOK
  <2> QED
    BY <1>1, <2>1 DEF LoopDrain, TypeInv, TypeOK, ShapeOK
<1>2. CASE ListDuePosts(i)
  <2> DEFINE Listed == /\ dueList' \in [Instances -> Seq(Snapshots)]
                       /\ loop' \in [Instances -> {"drain", "list", "mark", "send"}]
                       /\ \A j \in Instances :
                            loop'[j] \in {"mark", "send"} => dueList'[j] # <<>>
  <2>1. Listed
    <3>1. ASSUME NEW s \in DueLists,
                 dueList' = [dueList EXCEPT ![i] = [j \in DOMAIN s |-> Snapshot(s[j])]],
                 loop' = [loop EXCEPT ![i] = IF s = <<>> THEN "drain" ELSE "mark"]
          PROVE  Listed
      <4> DEFINE l == [j \in DOMAIN s |-> Snapshot(s[j])]
      <4>1. l \in Seq(Snapshots) /\ (s # <<>> => l # <<>>)
        BY DueListType DEF TypeInv
      <4>2. dueList' = [dueList EXCEPT ![i] = l]
        BY <3>1
      <4>3. loop' = [loop EXCEPT ![i] = IF s = <<>> THEN "drain" ELSE "mark"]
        BY <3>1
      <4> HIDE DEF l
      <4>4. l # <<>> \/ loop'[i] = "drain"
        BY <4>1, <4>3 DEF TypeInv, TypeOK
      <4>5. dueList'[i] = l /\ dueList' \in [Instances -> Seq(Snapshots)]
        BY <4>1, <4>2 DEF TypeInv, TypeOK
      <4>6. \A j \in Instances : j # i => dueList'[j] = dueList[j] /\ loop'[j] = loop[j]
        BY <4>2, <4>3 DEF TypeInv, TypeOK
      <4>7. loop' \in [Instances -> {"drain", "list", "mark", "send"}]
        BY <4>3 DEF TypeInv, TypeOK
      <4> QED
        BY <4>4, <4>5, <4>6, <4>7 DEF TypeInv, ShapeOK
    <3>2. ASSUME loop' = [loop EXCEPT ![i] = "drain"], UNCHANGED dueList
          PROVE  Listed
      BY <3>2 DEF TypeInv, TypeOK, ShapeOK
    <3> QED
      BY <1>2, <3>1, <3>2 DEF ListDuePosts
  <2> QED
    BY <1>2, <2>1 DEF ListDuePosts, TypeInv, TypeOK, ShapeOK
<1>3. CASE MarkListed(i)
  <2>1. dueList[i] # <<>> /\ dueList[i] \in Seq(Snapshots)
    BY <1>3 DEF MarkListed, TypeInv, TypeOK, ShapeOK
  <2>5. Head(dueList[i]) \in Snapshots
    BY <2>1, HeadTailProperties
  <2>2. Head(dueList[i]).post \in Posts
    BY <2>5 DEF Snapshots
  <2>3. CASE MarkPostProcessing(Head(dueList[i]).post) /\ loop' = [loop EXCEPT ![i] = "send"] /\ UNCHANGED dueList
    BY <1>3, <2>1, <2>2, <2>3 DEF MarkListed, MarkPostProcessing, TypeInv, TypeOK, ShapeOK, PostStatus
  <2>4. CASE NextListed(i) /\ UNCHANGED status
    BY <1>3, <2>1, <2>4, NextListedType DEF MarkListed, TypeInv, TypeOK, ShapeOK
  <2> QED
    BY <1>3, <2>3, <2>4 DEF MarkListed
<1>4. CASE Enqueue(i)
  <2>1. dueList[i] # <<>> /\ dueList[i] \in Seq(Snapshots)
    BY <1>4 DEF Enqueue, TypeInv, TypeOK, ShapeOK
  <2>2. Append(queue[i], Head(dueList[i])) \in Seq(Snapshots)
    BY <2>1, HeadTailProperties, AppendProperties DEF TypeInv, TypeOK
  <2>3. NextListed(i)
    BY <1>4 DEF Enqueue
  <2> QED
    BY <1>4, <2>1, <2>2, <2>3, NextListedType DEF Enqueue, TypeInv, TypeOK, ShapeOK
<1> QED
  BY <1>1, <1>2, <1>3, <1>4 DEF SchedulerStep

\* A worker step is well typed when the state it goes to is.
LEMMA GotoType ==
  ASSUME TypeInv, NEW w \in Workers, NEW s \in WorkerStates, WorkerShape(s), Goto(w, s)
  PROVE  /\ worker' \in [Workers -> WorkerStates]
         /\ \A v \in Workers : WorkerShape(worker'[v])
  BY DEF TypeInv, TypeOK, ShapeOK, Goto

\* After Goto the worker is in the state it was sent to.
LEMMA GotoValue ==
  ASSUME TypeInv, NEW w \in Workers, NEW t, Goto(w, t)
  PROVE  worker'[w] = t
  BY DEF TypeInv, TypeOK, Goto

\* What the moves between claim and drain leave alone.
LEMMA WorkerFields ==
  ASSUME NEW s \in WorkerStates, NEW o, NEW c, NEW n, NEW a, NEW S, NEW e
  PROVE  /\ LET t == [s EXCEPT !.pc = c, !.outcome = o]
            IN  /\ t.pc = c /\ t.outcome = o /\ t.job = s.job /\ t.cur = s.cur
                /\ t.try = s.try
         /\ LET t == [s EXCEPT !.pc = c]
            IN  /\ t.pc = c /\ t.outcome = s.outcome /\ t.job = s.job /\ t.cur = s.cur
                /\ t.try = s.try
         /\ LET t == [s EXCEPT !.pc = c, !.cur = a, !.try = n]
            IN  /\ t.pc = c /\ t.outcome = s.outcome /\ t.job = s.job /\ t.cur = a
                /\ t.try = n
         /\ [s EXCEPT !.pc = c, !.todo = S, !.cur = a, !.try = n, !.outcome = o, !.err = e].pc = c
         /\ [s EXCEPT !.pc = c, !.err = e].pc = c
  BY DEF WorkerStates

\* A worker step changes one worker.
LEMMA OthersWait ==
  ASSUME TypeInv, NEW w \in Workers, WorkerStep(w), NEW v \in Workers, v # w
  PROVE  worker'[v] = worker[v]
  BY DEF TypeInv, TypeOK, Goto, WorkerStep, Dequeue, ResolveTargets, LoadPostTargets,
     ClaimTarget, PreparePublish, Publish, PersistTargetOutcome, WorkerDrain, WriteResult

\* These steps of processPost end outside a claim.
LEMMA OutsideMoves ==
  ASSUME TypeInv, NEW w \in Workers,
         \/ Dequeue(w) \/ ResolveTargets(w) \/ LoadPostTargets(w) \/ WorkerDrain(w)
         \/ WriteResult(w)
  PROVE  worker'[w].pc \notin {"prepare", "publish", "persist"}
<1> DEFINE W == worker[w]
<1>0. W \in WorkerStates
  BY DEF TypeInv, TypeOK
<1>1. ASSUME NEW t, Goto(w, t), t.pc \notin {"prepare", "publish", "persist"}
      PROVE  worker'[w].pc \notin {"prepare", "publish", "persist"}
  BY <1>1, GotoValue
<1>2. /\ IdleWorker.pc = "idle"
      /\ \A j : [IdleWorker EXCEPT !.pc = "resolve", !.job = j].pc = "resolve"
  BY DEF IdleWorker
<1>3. CASE Dequeue(w)
  BY <1>1, <1>2, <1>3 DEF Dequeue
<1>4. CASE ResolveTargets(w)
  BY <1>0, <1>1, <1>4 DEF ResolveTargets, WorkerStates
<1>5. CASE LoadPostTargets(w)
  BY <1>0, <1>1, <1>5 DEF LoadPostTargets, WorkerStates
<1>6. CASE WorkerDrain(w)
  <2> DEFINE t == [W EXCEPT !.pc = IF W.todo \ {W.cur} = {} THEN "result" ELSE "claim",
                            !.todo = W.todo \ {W.cur}, !.cur = None, !.try = 0,
                            !.outcome = "none", !.err = W.err \/ W.outcome = "failed"]
  <2>1. t.pc \in {"result", "claim"}
    BY <1>0, WorkerFields
  <2>2. Goto(w, IdleWorker) \/ Goto(w, t)
    BY <1>6 DEF WorkerDrain
  <2> HIDE DEF t
  <2> QED
    BY <1>1, <1>2, <2>1, <2>2
<1>7. CASE WriteResult(w)
  BY <1>1, <1>2, <1>7 DEF WriteResult
<1> QED
  BY <1>3, <1>4, <1>5, <1>6, <1>7

\* Every value a step of processPost moves on to has the right shape.
LEMMA WorkerMoves ==
  ASSUME NEW s \in WorkerStates, s.job \in Snapshots
  PROVE  /\ [s EXCEPT !.pc = "load"] \in WorkerStates
         /\ [s EXCEPT !.pc = "result", !.err = TRUE] \in WorkerStates
         /\ \A S \in SUBSET Accounts, c \in {"result", "claim"} :
              /\ [s EXCEPT !.pc = c, !.todo = S] \in WorkerStates
              /\ WorkerShape([s EXCEPT !.pc = c, !.todo = S])
         /\ WorkerShape([s EXCEPT !.pc = "load"])
         /\ WorkerShape([s EXCEPT !.pc = "result", !.err = TRUE])
  BY DEF WorkerStates, WorkerShape

\* The claim of a target hands the worker an account and a positive attempt number.
LEMMA WorkerClaims ==
  ASSUME NEW s \in WorkerStates, s.job \in Snapshots, NEW a \in Accounts, NEW n \in Nat \ {0}
  PROVE  /\ [s EXCEPT !.pc = "prepare", !.cur = a, !.try = n] \in WorkerStates
         /\ WorkerShape([s EXCEPT !.pc = "prepare", !.cur = a, !.try = n])
<1>1. [s EXCEPT !.pc = "prepare", !.cur = a, !.try = n] \in WorkerStates
  BY DEF WorkerStates
<1>2. WorkerShape([s EXCEPT !.pc = "prepare", !.cur = a, !.try = n])
  BY DEF WorkerStates, WorkerShape
<1> QED
  BY <1>1, <1>2

\* What processPost does keeps the types.
LEMMA TypeWorker ==
  ASSUME TypeInv, NEW w \in Workers, WorkerStep(w)
  PROVE  TypeInv'
<1> USE ConstantsAssumption, IdleTypes
<1> USE DEF dbVars, schedVars, auditVars, histVars
<1> DEFINE W == worker[w]
<1>a. W \in WorkerStates /\ WorkerShape(W)
  BY DEF TypeInv, TypeOK, ShapeOK
<1>b. ASSUME NEW s \in WorkerStates, WorkerShape(s), Goto(w, s)
      PROVE  /\ worker' \in [Workers -> WorkerStates]
             /\ \A v \in Workers : WorkerShape(worker'[v])
  BY <1>b, GotoType
<1>1. CASE Dequeue(w)
  <2>1. Host[w] \in Instances /\ queue[Host[w]] \in Seq(Snapshots) /\ queue[Host[w]] # <<>>
    BY <1>1 DEF Dequeue, TypeInv, TypeOK
  <2>2. Head(queue[Host[w]]) \in Snapshots /\ Tail(queue[Host[w]]) \in Seq(Snapshots)
    BY <2>1, HeadTailProperties
  <2>3. ASSUME NEW j \in Snapshots
        PROVE  /\ [IdleWorker EXCEPT !.pc = "resolve", !.job = j] \in WorkerStates
               /\ WorkerShape([IdleWorker EXCEPT !.pc = "resolve", !.job = j])
    BY DEF WorkerStates, WorkerShape, IdleWorker
  <2>4. /\ worker' \in [Workers -> WorkerStates]
        /\ \A v \in Workers : WorkerShape(worker'[v])
    BY <1>1, <1>b, <2>2, <2>3 DEF Dequeue
  <2> QED
    BY <1>1, <2>1, <2>2, <2>4 DEF Dequeue, TypeInv, TypeOK, ShapeOK
<1>2. CASE ResolveTargets(w)
  <2>1. /\ worker' \in [Workers -> WorkerStates]
        /\ \A v \in Workers : WorkerShape(worker'[v])
    <3>1. W.job \in Snapshots
      BY <1>a, <1>2 DEF ResolveTargets, WorkerShape
    <3> QED
      BY <1>2, <1>a, <1>b, <3>1, WorkerMoves DEF ResolveTargets
  <2> QED
    BY <1>2, <2>1 DEF ResolveTargets, TypeInv, TypeOK, ShapeOK
<1>3. CASE LoadPostTargets(w)
  <2>1. /\ worker' \in [Workers -> WorkerStates]
        /\ \A v \in Workers : WorkerShape(worker'[v])
    <3>1. W.job \in Snapshots
      BY <1>a, <1>3 DEF LoadPostTargets, WorkerShape
    <3> QED
      BY <1>3, <1>a, <1>b, <3>1, WorkerMoves DEF LoadPostTargets
  <2> QED
    BY <1>3, <2>1 DEF LoadPostTargets, TypeInv, TypeOK, ShapeOK
<1>4. CASE ClaimTarget(w)
  <2> DEFINE p == W.job.post
  <2>1. W.job \in Snapshots /\ p \in Posts /\ W.todo \subseteq Accounts
    BY <1>a, <1>4 DEF ClaimTarget, WorkerShape, WorkerStates, Snapshots
  <2>3. PICK a \in W.todo :
          \/ /\ target' = [target EXCEPT ![p][a] = "processing"]
             /\ claims' = [claims EXCEPT ![p][a] = @ + 1]
             /\ outbox' = outbox \cup {Event(p, a, claims[p][a] + 1, "started")}
             /\ Goto(w, [W EXCEPT !.pc = "prepare", !.cur = a, !.try = claims[p][a] + 1])
          \/ /\ Goto(w, IdleWorker) \/ Goto(w, [W EXCEPT !.pc = "result", !.err = TRUE])
             /\ UNCHANGED <<target, claims, outbox>>
    BY <1>4 DEF ClaimTarget
  <2>2. a \in Accounts
    BY <2>1, <2>3
  <2>4. claims[p][a] + 1 \in Nat \ {0}
    <3>1. claims[p][a] \in Nat
      BY <2>1, <2>2 DEF TypeInv, TypeOK
    <3> QED
      BY <3>1
  <2>5. /\ worker' \in [Workers -> WorkerStates]
        /\ \A v \in Workers : WorkerShape(worker'[v])
    BY <1>a, <1>b, <2>1, <2>2, <2>3, <2>4, WorkerMoves, WorkerClaims
  <2>6. Event(p, a, claims[p][a] + 1, "started") \in Events
    BY <2>1, <2>2, <2>4 DEF Event, Events, Kinds
  <2>7. /\ target' \in [Posts -> [Accounts -> TargetStatus \cup {"none"}]]
        /\ claims' \in [Posts -> [Accounts -> Nat]]
        /\ outbox' \in SUBSET Events
    <3>1. CASE UNCHANGED <<target, claims, outbox>>
      BY <3>1 DEF TypeInv, TypeOK
    <3>2. CASE /\ target' = [target EXCEPT ![p][a] = "processing"]
               /\ claims' = [claims EXCEPT ![p][a] = claims[p][a] + 1]
               /\ outbox' = outbox \cup {Event(p, a, claims[p][a] + 1, "started")}
      <4>1. target' \in [Posts -> [Accounts -> TargetStatus \cup {"none"}]]
        BY <2>1, <2>2, <3>2, TableUpdate DEF TypeInv, TypeOK, TargetStatus
      <4>2. claims' \in [Posts -> [Accounts -> Nat]]
        BY <2>1, <2>2, <2>4, <3>2, TableUpdate DEF TypeInv, TypeOK
      <4>3. outbox' \in SUBSET Events
        BY <2>6, <3>2 DEF TypeInv, TypeOK
      <4> QED
        BY <4>1, <4>2, <4>3
    <3> QED
      BY <2>3, <3>1, <3>2
  <2> QED
    BY <1>4, <2>5, <2>7 DEF ClaimTarget, TypeInv, TypeOK, ShapeOK
<1>5. CASE PreparePublish(w)
  <2>1. /\ [W EXCEPT !.pc = "publish"] \in WorkerStates
        /\ WorkerShape([W EXCEPT !.pc = "publish"])
        /\ [W EXCEPT !.pc = "persist", !.outcome = "failed"] \in WorkerStates
        /\ WorkerShape([W EXCEPT !.pc = "persist", !.outcome = "failed"])
    BY <1>5, <1>a DEF PreparePublish, WorkerStates, WorkerShape
  <2>2. /\ worker' \in [Workers -> WorkerStates]
        /\ \A v \in Workers : WorkerShape(worker'[v])
    BY <1>5, <1>b, <2>1 DEF PreparePublish
  <2> QED
    BY <1>5, <2>2 DEF PreparePublish, TypeInv, TypeOK, ShapeOK
<1>6. CASE Publish(w)
  <2> DEFINE p == W.job.post
             a == W.cur
  <2>1. p \in Posts /\ a \in Accounts
    BY <1>a, <1>6 DEF Publish, WorkerShape, Snapshots
  <2>2. ASSUME NEW o \in {"posted", "failed", "unknown"}
        PROVE  /\ [W EXCEPT !.pc = "persist", !.outcome = o] \in WorkerStates
               /\ WorkerShape([W EXCEPT !.pc = "persist", !.outcome = o])
    BY <1>6, <1>a DEF Publish, WorkerStates, WorkerShape
  <2>3. PICK r \in PublishResults :
          /\ accepted' = [accepted EXCEPT ![p][a] = @ + r.shown]
          /\ Goto(w, [W EXCEPT !.pc = "persist", !.outcome = r.outcome])
    BY <1>6 DEF Publish
  <2>4. r.outcome \in {"posted", "failed", "unknown"} /\ r.shown \in Nat
    BY <2>3 DEF PublishResults
  <2>5. /\ worker' \in [Workers -> WorkerStates]
        /\ \A v \in Workers : WorkerShape(worker'[v])
    BY <1>b, <2>2, <2>3, <2>4
  <2>6. accepted' \in [Posts -> [Accounts -> Nat]]
    <3>1. accepted[p][a] + r.shown \in Nat
      BY <2>1, <2>4 DEF TypeInv, TypeOK
    <3> QED
      BY <2>1, <2>3, <3>1, TableUpdate DEF TypeInv, TypeOK
  <2> QED
    BY <1>6, <2>5, <2>6 DEF Publish, TypeInv, TypeOK, ShapeOK
<1>7. CASE PersistTargetOutcome(w)
  <2> DEFINE p == W.job.post
             a == W.cur
  <2>1. /\ p \in Posts /\ a \in Accounts /\ W.try \in Nat \ {0}
        /\ W.outcome \in {"posted", "failed", "unknown"}
    BY <1>a, <1>7 DEF PersistTargetOutcome, WorkerShape, WorkerStates, Snapshots
  <2>2. [W EXCEPT !.pc = "drain"] \in WorkerStates /\ WorkerShape([W EXCEPT !.pc = "drain"])
    BY <1>7, <1>a DEF PersistTargetOutcome, WorkerStates, WorkerShape
  <2>3. /\ worker' \in [Workers -> WorkerStates]
        /\ \A v \in Workers : WorkerShape(worker'[v])
    BY <1>7, <1>b, <2>2 DEF PersistTargetOutcome
  <2>4. /\ OutcomeStatus[W.outcome] \in TargetStatus
        /\ OutcomeKind[W.outcome] \in Kinds
    BY <2>1 DEF OutcomeStatus, OutcomeKind, TargetStatus, Kinds
  <2>5. Event(p, a, W.try, OutcomeKind[W.outcome]) \in Events
    BY <2>1, <2>4 DEF Event, Events
  <2>6. /\ target' \in [Posts -> [Accounts -> TargetStatus \cup {"none"}]]
        /\ outbox' \in SUBSET Events
    <3>1. CASE UNCHANGED <<target, outbox>>
      BY <3>1 DEF TypeInv, TypeOK
    <3>2. CASE /\ target' = [target EXCEPT ![p][a] =
                               IF @ = "none" THEN @ ELSE OutcomeStatus[W.outcome]]
               /\ outbox' = outbox \cup {Event(p, a, W.try, OutcomeKind[W.outcome])}
      <4> DEFINE v == IF target[p][a] = "none" THEN target[p][a]
                     ELSE OutcomeStatus[W.outcome]
      <4>1. v \in TargetStatus \cup {"none"}
        BY <2>4
      <4>2. target' = [target EXCEPT ![p][a] = v]
        BY <3>2
      <4> HIDE DEF v
      <4>3. target' \in [Posts -> [Accounts -> TargetStatus \cup {"none"}]]
        <5>1. target \in [Posts -> [Accounts -> TargetStatus \cup {"none"}]]
          BY DEF TypeInv, TypeOK
        <5> QED
          BY <2>1, <4>1, <4>2, <5>1, TableUpdate
      <4>4. outbox' \in SUBSET Events
        BY <2>5, <3>2 DEF TypeInv, TypeOK
      <4> QED
        BY <4>3, <4>4
    <3> QED
      BY <1>7, <3>1, <3>2 DEF PersistTargetOutcome
  <2> QED
    BY <1>7, <2>3, <2>6 DEF PersistTargetOutcome, TypeInv, TypeOK, ShapeOK
<1>8. CASE WorkerDrain(w)
  <2>1. outbox' \in SUBSET Events /\ auditLog' \in SUBSET Events
    BY <1>8 DEF WorkerDrain, DrainAuditEvents, Batches, TypeInv, TypeOK
  <2>2. ASSUME NEW c \in {"result", "claim"}, NEW S \in SUBSET Accounts, NEW e \in BOOLEAN
        PROVE  LET t == [W EXCEPT !.pc = c, !.todo = S, !.cur = None, !.try = 0,
                                  !.outcome = "none", !.err = e]
               IN  t \in WorkerStates /\ WorkerShape(t)
    BY <1>8, <1>a DEF WorkerDrain, WorkerStates, WorkerShape
  <2>3. W.todo \ {W.cur} \in SUBSET Accounts
    BY <1>a DEF WorkerStates
  <2>4. (W.err \/ W.outcome = "failed") \in BOOLEAN
    OBVIOUS
  <2>5. /\ worker' \in [Workers -> WorkerStates]
        /\ \A v \in Workers : WorkerShape(worker'[v])
    <3> DEFINE c == IF W.todo \ {W.cur} = {} THEN "result" ELSE "claim"
               t == [W EXCEPT !.pc = c, !.todo = W.todo \ {W.cur}, !.cur = None, !.try = 0,
                              !.outcome = "none", !.err = W.err \/ W.outcome = "failed"]
    <3>1. t \in WorkerStates /\ WorkerShape(t)
      BY <2>2, <2>3, <2>4
    <3>2. Goto(w, IdleWorker) \/ Goto(w, t)
      BY <1>8 DEF WorkerDrain
    <3> QED
      BY <1>b, <3>1, <3>2
  <2> QED
    BY <1>8, <2>1, <2>5 DEF WorkerDrain, TypeInv, TypeOK, ShapeOK
<1>9. CASE WriteResult(w)
  <2>1. /\ worker' \in [Workers -> WorkerStates]
        /\ \A v \in Workers : WorkerShape(worker'[v])
    BY <1>9, <1>b DEF WriteResult
  <2>2. W.job \in Snapshots /\ W.err \in BOOLEAN
    BY <1>a, <1>9 DEF WriteResult, WorkerShape, WorkerStates
  <2>3. W.job.post \in Posts /\ W.job.attempts + 1 \in 0..MaxAttempts
    BY <2>2 DEF Snapshots
  <2>4. /\ status' \in [Posts -> PostStatus \cup {"new", "deleted"}]
        /\ attempts' \in [Posts -> 0..MaxAttempts]
        /\ due' \in [Posts -> BOOLEAN]
    <3>1. CASE UNCHANGED <<status, attempts, due>>
      BY <3>1 DEF TypeInv, TypeOK
    <3>2. CASE MarkPostResult(W.job.post, W.job.attempts + 1, ~W.err)
      <4> DEFINE p == W.job.post  n == W.job.attempts + 1
      <4>1. CASE ~Exists(p)
        BY <3>1, <3>2, <4>1 DEF MarkPostResult
      <4>2. CASE Exists(p)
        <5>1. due' = [due EXCEPT ![p] = IF W.err /\ n < MaxAttempts THEN FALSE ELSE @]
          BY <2>2, <3>2, <4>2 DEF MarkPostResult
        <5>2. due' \in [Posts -> BOOLEAN]
          BY <5>1, <2>3 DEF TypeInv, TypeOK
        <5>3. attempts' \in [Posts -> 0..MaxAttempts]
          BY <3>2, <4>2, <2>3 DEF MarkPostResult, TypeInv, TypeOK
        <5>4. status' \in [Posts -> PostStatus \cup {"new", "deleted"}]
          BY <3>2, <4>2, <2>3 DEF MarkPostResult, PostStatus, TypeInv, TypeOK
        <5> QED
          BY <3>2, <4>2, <5>2, <5>3, <5>4 DEF MarkPostResult
      <4> QED
        BY <4>1, <4>2
    <3> QED
      BY <1>9, <3>1, <3>2 DEF WriteResult
  <2> QED
    BY <1>9, <2>1, <2>4 DEF WriteResult, TypeInv, TypeOK, ShapeOK
<1> QED
  BY <1>1, <1>2, <1>3, <1>4, <1>5, <1>6, <1>7, <1>8, <1>9 DEF WorkerStep

\* A restart leaves an idle process, which is well typed.
LEMMA TypeCrash ==
  ASSUME TypeInv, NEW i \in Instances, Crash(i)
  PROVE  TypeInv'
  BY ConstantsAssumption, IdleTypes, EmptySeq
  DEF Crash, TypeInv, TypeOK, ShapeOK, dbVars, auditVars, histVars

\* What PatchScheduledPost writes, whatever it read.
LEMMA PatchType ==
  ASSUME TypeInv, NEW p \in Posts, NEW in \in PatchInput, NEW was \in PostStatus,
         NEW wasDue \in BOOLEAN, PatchScheduledPost(p, in, was, wasDue)
  PROVE  /\ status' \in [Posts -> PostStatus \cup {"new", "deleted"}]
         /\ due' \in [Posts -> BOOLEAN]
         /\ target' \in [Posts -> [Accounts -> TargetStatus \cup {"none"}]]
<1>1. ASSUME NEW d, NEW f PROVE ResolvePostStatusOnUpdate(was, d, f) \in PostStatus
  BY DEF ResolvePostStatusOnUpdate, PostStatus
<1>2. (~MergedFuture(in, wasDue)) \in BOOLEAN
  BY DEF MergedFuture
<1>3. PendingRows(in.targets) \in [Accounts -> TargetStatus \cup {"none"}]
  BY DEF PendingRows, TargetStatus
<1>4. status' \in [Posts -> PostStatus \cup {"new", "deleted"}]
  <2>1. CASE UNCHANGED status
    BY <2>1 DEF TypeInv, TypeOK
  <2>2. ASSUME NEW v \in PostStatus, status' = [status EXCEPT ![p] = v]
        PROVE  status' \in [Posts -> PostStatus \cup {"new", "deleted"}]
    BY <2>2 DEF TypeInv, TypeOK
  <2> QED
    BY <1>1, <2>1, <2>2 DEF PatchScheduledPost
<1>5. due' \in [Posts -> BOOLEAN]
  BY <1>2 DEF PatchScheduledPost, TypeInv, TypeOK
<1>6. target' \in [Posts -> [Accounts -> TargetStatus \cup {"none"}]]
  BY <1>3 DEF PatchScheduledPost, TypeInv, TypeOK
<1> QED
  BY <1>4, <1>5, <1>6

\* What the requests do keeps the types.
LEMMA TypeRequest ==
  ASSUME TypeInv, RequestStep
  PROVE  TypeInv'
<1> USE ConstantsAssumption, IdleTypes
<1> USE DEF dbVars, schedVars, auditVars, histVars
<1>1. ASSUME NEW p \in Posts, CreatePost(p) PROVE TypeInv'
  <2>1. \A S : PendingRows(S) \in [Accounts -> TargetStatus \cup {"none"}]
    BY DEF PendingRows, TargetStatus
  <2>2. /\ status' \in [Posts -> PostStatus \cup {"new", "deleted"}]
        /\ due' \in [Posts -> BOOLEAN]
        /\ target' \in [Posts -> [Accounts -> TargetStatus \cup {"none"}]]
    BY <1>1, <2>1 DEF CreatePost, TypeInv, TypeOK, PostStatus
  <2> QED
    BY <1>1, <2>2 DEF CreatePost, TypeInv, TypeOK, ShapeOK
<1>2. ASSUME NEW p \in Posts, BecomeDue(p) PROVE TypeInv'
  BY <1>2 DEF BecomeDue, TypeInv, TypeOK, ShapeOK
<1>3. ASSUME NEW p \in Posts, UpdatePost(p) PROVE TypeInv'
  <2>1. PICK in \in Patches : UpdateAllowed(p, in) /\ PatchScheduledPost(p, in, status[p], due[p])
    BY <1>3 DEF UpdatePost
  <2>2. in \in PatchInput /\ status[p] \in PostStatus /\ due[p] \in BOOLEAN
    BY <1>3, <2>1 DEF UpdateAllowed, Exists, TypeInv, TypeOK
  <2>3. /\ status' \in [Posts -> PostStatus \cup {"new", "deleted"}]
        /\ due' \in [Posts -> BOOLEAN]
        /\ target' \in [Posts -> [Accounts -> TargetStatus \cup {"none"}]]
    BY <1>3, <2>1, <2>2, PatchType
  <2> QED
    BY <1>3, <2>3 DEF UpdatePost, Send, TypeInv, TypeOK, ShapeOK
<1>4. ASSUME NEW p \in Posts, CompleteReview(p) PROVE TypeInv'
  BY <1>4 DEF CompleteReview, Send, TypeInv, TypeOK, ShapeOK, PostStatus
<1>5. ASSUME NEW p \in Posts, CancelPost(p) PROVE TypeInv'
  BY <1>5 DEF CancelPost, Send, TypeInv, TypeOK, ShapeOK, PostStatus
<1>6. ASSUME NEW p \in Posts, DeletePost(p) PROVE TypeInv'
  BY <1>6 DEF DeletePost, NoRows, Send, TypeInv, TypeOK, ShapeOK
<1>7. ASSUME NEW p \in Posts, AdminRetryFailedPost(p) PROVE TypeInv'
  <2>1. target' \in [Posts -> [Accounts -> TargetStatus \cup {"none"}]]
    BY <1>7 DEF AdminRetryFailedPost, TargetStatus, TypeInv, TypeOK
  <2> QED
    BY <1>7, <2>1 DEF AdminRetryFailedPost, Send, TypeInv, TypeOK, ShapeOK, PostStatus
<1>8. ASSUME NEW p \in Posts, NEW r \in Requests, CheckUpdate(r, p) PROVE TypeInv'
  <2>1. PICK in \in Patches : request' = [request EXCEPT ![r] =
                                 [IdleRequest EXCEPT !.pc = "checked", !.post = p, !.in = in]]
    BY <1>8 DEF CheckUpdate
  <2>2. in \in PatchInput
    BY <2>1
  <2> DEFINE s == [IdleRequest EXCEPT !.pc = "checked", !.post = p, !.in = in]
  <2>3. s \in RequestStates /\ RequestShape(s)
    BY <1>8, <2>1, <2>2 DEF RequestStates, RequestShape, IdleRequest
  <2> HIDE DEF s
  <2>4. request' = [request EXCEPT ![r] = s]
    BY <2>1 DEF s
  <2>5. /\ request' \in [Requests -> RequestStates]
        /\ \A q \in Requests : RequestShape(request'[q])
    BY <1>8, <2>3, <2>4 DEF TypeInv, TypeOK, ShapeOK
  <2> QED
    BY <1>8, <2>5 DEF CheckUpdate, Send, TypeInv, TypeOK, ShapeOK
<1>9. ASSUME NEW r \in Requests, ReadUpdate(r) PROVE TypeInv'
  <2> DEFINE p == request[r].post
             s == [request[r] EXCEPT !.pc = "read", !.was = status[p], !.wasDue = due[p]]
  <2>1. request[r] \in RequestStates /\ RequestShape(request[r]) /\ request[r].pc = "checked"
    BY <1>9 DEF ReadUpdate, TypeInv, TypeOK, ShapeOK
  <2>2. p \in Posts
    BY <2>1 DEF RequestShape
  <2>3. due[p] \in BOOLEAN
    BY <2>2 DEF TypeInv, TypeOK
  <2>4. Exists(p) => s \in RequestStates /\ RequestShape(s)
    BY <2>1, <2>2, <2>3 DEF Exists, RequestStates, RequestShape
  <2>5. /\ request' \in [Requests -> RequestStates]
        /\ \A q \in Requests : RequestShape(request'[q])
    BY <1>9, <2>4 DEF ReadUpdate, TypeInv, TypeOK, ShapeOK
  <2> QED
    BY <1>9, <2>5 DEF ReadUpdate, TypeInv, TypeOK, ShapeOK
<1>10. ASSUME NEW r \in Requests, WriteUpdate(r) PROVE TypeInv'
  <2> DEFINE s == request[r]
  <2>1. s \in RequestStates /\ RequestShape(s) /\ s.pc = "read"
    BY <1>10 DEF WriteUpdate, TypeInv, TypeOK, ShapeOK
  <2>2. s.post \in Posts /\ s.in \in PatchInput /\ s.was \in PostStatus /\ s.wasDue \in BOOLEAN
    BY <2>1 DEF RequestStates, RequestShape
  <2>3. /\ status' \in [Posts -> PostStatus \cup {"new", "deleted"}]
        /\ due' \in [Posts -> BOOLEAN]
        /\ target' \in [Posts -> [Accounts -> TargetStatus \cup {"none"}]]
    BY <1>10, <2>2, PatchType DEF WriteUpdate
  <2>4. /\ request' \in [Requests -> RequestStates]
        /\ \A q \in Requests : RequestShape(request'[q])
    BY <1>10 DEF WriteUpdate, TypeInv, TypeOK, ShapeOK
  <2> QED
    BY <1>10, <2>3, <2>4 DEF WriteUpdate, TypeInv, TypeOK, ShapeOK
<1>11. ASSUME NEW a \in Accounts, DisconnectAccount(a) PROVE TypeInv'
  <2>1. target' \in [Posts -> [Accounts -> TargetStatus \cup {"none"}]]
    BY <1>11 DEF DisconnectAccount, TypeInv, TypeOK
  <2> QED
    BY <1>11, <2>1 DEF DisconnectAccount, Send, TypeInv, TypeOK, ShapeOK
<1>12. ASSUME RepairFuturePosted PROVE TypeInv'
  BY <1>12 DEF RepairFuturePosted, Send, TypeInv, TypeOK, ShapeOK, PostStatus
<1> QED
  BY <1>1, <1>2, <1>3, <1>4, <1>5, <1>6, <1>7, <1>8, <1>9, <1>10, <1>11, <1>12
  DEF RequestStep

\* The type invariant is inductive.
LEMMA TypeStep == TypeInv /\ [Next]_vars => TypeInv'
<1> SUFFICES ASSUME TypeInv, [Next]_vars PROVE TypeInv'
  OBVIOUS
<1>1. CASE UNCHANGED vars
  BY <1>1 DEF vars, dbVars, schedVars, auditVars, histVars, TypeInv, TypeOK, ShapeOK
<1>2. CASE Next
  BY <1>2, TypeScheduler, TypeWorker, TypeCrash, TypeRequest DEF Next
<1> QED
  BY <1>1, <1>2

\* Every variable keeps its type, and every goroutine its shape, in every
\* behaviour of the pipeline, for any number of posts, accounts and replicas.
THEOREM TypeCorrect == Spec => []TypeInv
  BY TypeInit, TypeStep, PTL DEF Spec

\* The type invariant the runs check holds in every behaviour, for every value of the
\* constants: in particular attempt_count never exceeds the limit that ListDuePosts
\* compares it with, although MarkPostResult writes it without a guard.
THEOREM TypesHold == Spec => []TypeOK
<1>1. TypeInv => TypeOK
  BY DEF TypeInv
<1> QED
  BY <1>1, TypeCorrect, PTL
=============================================================================
