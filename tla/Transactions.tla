---------------------------- MODULE Transactions ----------------------------
(* Audited requests on SQLite: WithAuditTransaction opens a transaction, or a  *)
(* savepoint inside the one its context carries; side effects registered with  *)
(* AfterCommit wait for the outermost commit, and each savepoint has a list of *)
(* its own (txcontext). A step is a write with its audit event and the side    *)
(* effect that goes with it; its level is the depth of the frame that holds it.*)
EXTENDS Integers, FiniteSets

CONSTANTS
  Requests,   \* callers: a request, a job that ends, a round of the scheduler
  Steps,
  By,         \* the caller of each step
  MaxDepth    \* bound of the nesting

ASSUME TransactionsAssumption == By \in [Steps -> Requests] /\ MaxDepth \in Nat

VARIABLES
  depth,      \* per caller, the frames it has open; the first is the transaction
  doomed,     \* callers with a savepoint that could not be released: the error goes up
  cancelled,  \* callers whose context has ended
  seen,       \* per caller, what was stored when its transaction began
  committed,  \* callers whose transaction is committed
  answer,     \* per caller: "none", "ok", "error", "lost"
  level,      \* per step: Untried, Undone, or the frame that holds its write
  hook,       \* per step, the frame whose list holds its side effect; 0: none
  called,     \* steps whose side effect was registered
  running,    \* callbacks the outermost commit runs
  stored, sent

txVars == <<depth, doomed, cancelled, seen, committed, answer, level, hook, called, running, stored, sent>>
frameVars == <<depth, doomed, level, hook>>

Untried == -1
Undone == 0
Of(r) == {s \in Steps: By[s] = r}

TxInit ==
  /\ depth = [r \in Requests |-> 0] /\ doomed = {} /\ cancelled = {}
  /\ seen = [r \in Requests |-> {}] /\ committed = {}
  /\ answer = [r \in Requests |-> "none"]
  /\ level = [s \in Steps |-> Untried] /\ hook = [s \in Steps |-> 0]
  /\ called = {} /\ running = {} /\ stored = {} /\ sent = {}

\* A caller is new until its transaction begins and over when that has ended.
Untouched(r) == \A s \in Of(r): level[s] = Untried

(* _txlock=immediate: a transaction takes the write lock before it reads.      *)
WriteLockFree(r) == \A q \in Requests: depth[q] = 0

WithAuditTransaction(r) ==
  /\ answer[r] = "none" /\ r \notin committed \cup cancelled \cup doomed
  /\ depth[r] < MaxDepth
  /\ IF depth[r] = 0 THEN Untouched(r) /\ WriteLockFree(r) /\ seen' = [seen EXCEPT ![r] = stored]
                     ELSE UNCHANGED seen
  /\ depth' = [depth EXCEPT ![r] = @ + 1]
  /\ UNCHANGED <<doomed, cancelled, committed, answer, level, hook, called, running, stored, sent>>

(* The statement runs on the transaction its context carries.                  *)
Exec(s) ==
  /\ level[s] = Untried /\ depth[By[s]] > 0 /\ By[s] \notin cancelled \cup doomed
  /\ level' = [level EXCEPT ![s] = depth[By[s]]]
  /\ UNCHANGED <<depth, doomed, cancelled, seen, committed, answer, hook, called, running, stored, sent>>

(* The effect is registered by the frame that wrote, or by the one the write   *)
(* was released into; after the outermost commit it is performed at once.      *)
AfterCommit(s) ==
  /\ s \notin called
  /\ \/ /\ level[s] > 0 /\ level[s] = depth[By[s]] /\ By[s] \notin doomed
        /\ hook' = [hook EXCEPT ![s] = level[s]]
        /\ UNCHANGED sent
     \/ /\ s \in stored /\ answer[By[s]] = "none"
        /\ sent' = sent \cup {s} /\ UNCHANGED hook
  /\ called' = called \cup {s}
  /\ UNCHANGED <<depth, doomed, cancelled, seen, committed, answer, level, running, stored>>

\* What the innermost frame of r holds moves to the frame around it, or is undone.
MovedTo(r, d, f) == [s \in Steps |-> IF By[s] = r /\ f[s] = depth[r] THEN d ELSE f[s]]
Leave(r) == depth' = [depth EXCEPT ![r] = @ - 1]

Release(r) ==
  /\ depth[r] > 1 /\ r \notin doomed \cup cancelled
  /\ Leave(r) /\ level' = MovedTo(r, depth[r] - 1, level) /\ hook' = MovedTo(r, depth[r] - 1, hook)
  /\ UNCHANGED <<doomed, cancelled, seen, committed, answer, called, running, stored, sent>>

(* The savepoint counts as done, so the deferred Rollback does nothing: its    *)
(* writes stay in the transaction, its side effects do not. Every caller       *)
(* returns this error.                                                         *)
ReleaseFails(r) ==
  /\ depth[r] > 1 /\ r \notin doomed
  /\ Leave(r) /\ level' = MovedTo(r, depth[r] - 1, level) /\ hook' = MovedTo(r, 0, hook)
  /\ doomed' = doomed \cup {r}
  /\ UNCHANGED <<cancelled, seen, committed, answer, called, running, stored, sent>>

(* fn failed: what it did in its frame is undone; around a savepoint the work  *)
(* may go on (CompleteAIJob records the failure).                              *)
KeptHooks(r) == MovedTo(r, depth[r] - 1, hook)
DiscardedHooks(r) == MovedTo(r, 0, hook)
Rollback(r) ==
  /\ depth[r] > 0
  /\ Leave(r) /\ level' = MovedTo(r, Undone, level) /\ hook' = DiscardedHooks(r)
  /\ doomed' = IF depth[r] = 1 THEN doomed \ {r} ELSE doomed
  /\ UNCHANGED <<cancelled, seen, committed, answer, called, running, stored, sent>>

(* The outermost commit; a context that ended before it is refused.            *)
Commit(r) ==
  /\ depth[r] = 1 /\ r \notin doomed \cup cancelled
  /\ LET work == {s \in Of(r): level[s] = 1}
         held == {s \in Of(r): hook[s] = 1}
     IN /\ stored' = stored \cup work
        /\ running' = running \cup held
        /\ level' = MovedTo(r, Undone, level) /\ hook' = MovedTo(r, 0, hook)
  /\ Leave(r) /\ committed' = committed \cup {r}
  /\ UNCHANGED <<doomed, cancelled, seen, answer, called, sent>>

(* finish: the callbacks run in turn before WithAuditTransaction returns.      *)
RunHook(s) ==
  /\ s \in running
  /\ running' = running \ {s} /\ sent' = sent \cup {s}
  /\ UNCHANGED <<frameVars, cancelled, seen, committed, answer, called, stored>>

(* auditedHandler buffers the response until the transaction has ended.        *)
Respond(r) ==
  /\ answer[r] = "none" /\ depth[r] = 0
  /\ r \in committed \/ ~Untouched(r)
  /\ \A s \in Of(r) \cap stored: s \in called /\ s \notin running
  /\ answer' = [answer EXCEPT ![r] = IF r \in committed THEN "ok" ELSE "error"]
  /\ UNCHANGED <<frameVars, cancelled, seen, committed, called, running, stored, sent>>

Cancel(r) ==
  /\ answer[r] = "none" /\ cancelled' = cancelled \cup {r}
  /\ UNCHANGED <<frameVars, seen, committed, answer, called, running, stored, sent>>

(* The process stops: open transactions are rolled back, callbacks are lost.   *)
CrashTx ==
  /\ depth' = [r \in Requests |-> 0] /\ doomed' = {} /\ running' = {}
  /\ level' = [s \in Steps |-> IF level[s] > 0 THEN Undone ELSE level[s]]
  /\ hook' = [s \in Steps |-> 0]
  /\ called' = called \cup stored
  /\ answer' = [r \in Requests |->
                  IF answer[r] = "none" /\ (r \in committed \/ depth[r] > 0 \/ ~Untouched(r)) THEN "lost" ELSE answer[r]]
  /\ UNCHANGED <<cancelled, seen, committed, stored, sent>>

TxNext ==
  \/ \E r \in Requests:
       \/ WithAuditTransaction(r) \/ Release(r) \/ ReleaseFails(r) \/ Rollback(r)
       \/ Commit(r) \/ Respond(r) \/ Cancel(r)
  \/ \E s \in Steps: Exec(s) \/ AfterCommit(s) \/ RunHook(s)
  \/ CrashTx

TxSpec == TxInit /\ [][TxNext]_txVars

(* An audited request is atomic (store.go: "atomically commits all store calls *)
(* made with callback's context"): the refinement of AtomicWork. A savepoint   *)
(* that is rolled back takes its side effects along and leaves those of the    *)
(* work around it; nothing of a request that fails is stored or performed; no  *)
(* other request commits between what a request read and what it writes; and   *)
(* a caller that is told "ok" finds the writes stored and the effects done.    *)
Owed == {s \in stored \ sent: s \in running \/ s \notin called}
Atomic == INSTANCE AtomicWork WITH
  basis <- [r \in Requests |-> IF r \in committed THEN seen[r] ELSE {}],
  done <- committed, owed <- Owed, told <- answer
RequestsAreAtomic == Atomic!Spec
=============================================================================
