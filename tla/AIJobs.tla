------------------------------- MODULE AIJobs -------------------------------
(***************************************************************************)
(* The AI jobs of goloom: the rows of ai_jobs, the goroutine that executes *)
(* each job in the process that accepted it (internal/aijobs), the         *)
(* completion transaction with its side effects (api/ai_callback.go),      *)
(* cancellation (api/ai_cancel.go) and the sweep that fails the jobs whose *)
(* process died.  Several replicas share the rows; a goroutine, its slot   *)
(* and its cancel function are memory of one of them.                      *)
(*                                                                         *)
(* Time passes in ticks.  A tick is longer than the scheduling delays of a *)
(* healthy process: it waits for what the code does at once.               *)
(***************************************************************************)
EXTENDS Naturals, Sequences, FiniteSets

CONSTANTS
  Jobs,           \* job identifiers; a uuid is never used for a second job
  Origins,        \* which of the Kinds of jobs are submitted
  Instances,      \* replicas sharing the database
  MaxConcurrent,  \* slots of a replica (4 in the code)
  RunLimit,       \* jobExecutionTimeout, in ticks (10 minutes)
  StaleAfter,     \* jobExecutionTimeout + staleMargin, in ticks (12 minutes)
  Faults,         \* what can go wrong
  MaxFaults       \* bound: how many faults happen

\* Where a job comes from, and so what its completion does: its origin and the
\* automation metadata in its payload.  "legacy" is metadata without provenance.
Kinds == {"user", "preview", "rss", "recurring", "legacy"}

ASSUME JobsAssumption ==
  /\ Origins \subseteq Kinds
  /\ Instances # {}
  /\ MaxConcurrent \in Nat \ {0}
  /\ RunLimit \in Nat \ {0}
  /\ StaleAfter \in Nat /\ RunLimit < StaleAfter
  /\ Faults \subseteq {"db", "crash"}
  /\ MaxFaults \in Nat

VARIABLES
  row,      \* ai_jobs.status; "none" before the insert
  kind,     \* ai_jobs.origin and the automation metadata of the payload
  age,      \* time since ai_jobs.updated_at
  task,     \* the goroutine of a job
  hooks,    \* after-commit hooks of cancellations: pairs of replica and job
  sweep,    \* jobs RecoverInterrupted listed and has not dealt with
  audit,    \* the terminal audit events of a job, in the order of their commits
  posts,    \* posts the side effects of a job created
  released, \* RSS jobs whose item was handed back for another attempt
  faults    \* history: faults so far

rowVars == <<row, kind, age>>
outVars == <<audit, posts, released>>
jobVars == <<row, kind, age, task, hooks, sweep, audit, posts, released, faults>>

Unfinished == {"pending", "processing"}
Terminal   == {"completed", "failed"}

\* The local state of execute: where it stands, in which replica, the time since
\* its deadline was set, whether jobCtx is cancelled, whether it holds a slot,
\* and the status it is going to report.  "finishing" still has the deadline of
\* the run, "detached" is a final write with a context of its own.
TaskStates ==
  [pc: {"none", "committed", "waiting", "marking", "running", "finishing",
        "detached", "gone"},
   at: Instances, runtime: 0..StaleAfter, cancelled: BOOLEAN, slot: BOOLEAN,
   status: Terminal]

TerminalEvents == {"complete", "fail", "fallback", "cancel"}

JobsTypeOK ==
  /\ row \in [Jobs -> Unfinished \cup Terminal \cup {"none"}]
  /\ kind \in [Jobs -> Kinds]
  /\ age \in [Jobs -> 0..(StaleAfter + 1)]
  /\ task \in [Jobs -> TaskStates]
  /\ hooks \in SUBSET (Instances \X Jobs)
  /\ sweep \in [Instances -> SUBSET Jobs]
  /\ audit \in [Jobs -> Seq(TerminalEvents)]
  /\ posts \in [Jobs -> Nat]
  /\ released \in SUBSET Jobs
  /\ faults \in Nat

Live(j)   == task[j].pc \notin {"none", "gone"}
Slots(i)  == {j \in Jobs : task[j].at = i /\ task[j].slot}
FreeSlot(i) == Cardinality(Slots(i)) < MaxConcurrent

NoTask == [pc |-> "none", at |-> CHOOSE i \in Instances : TRUE, runtime |-> 0,
           cancelled |-> FALSE, slot |-> FALSE, status |-> "failed"]

JobsInit ==
  /\ row = [j \in Jobs |-> "none"]
  /\ kind = [j \in Jobs |-> "user"]
  /\ age = [j \in Jobs |-> 0]
  /\ task = [j \in Jobs |-> NoTask]
  /\ hooks = {}
  /\ sweep = [i \in Instances |-> {}]
  /\ audit = [j \in Jobs |-> <<>>]
  /\ posts = [j \in Jobs |-> 0]
  /\ released = {}
  /\ faults = 0

Fault(f) == /\ f \in Faults
            /\ faults < MaxFaults
            /\ faults' = faults + 1
-----------------------------------------------------------------------------
(* Submission and execution.                                               *)

Become(j, state) == task' = [task EXCEPT ![j] = state]
Gone == [NoTask EXCEPT !.pc = "gone"]

\* SubmitJob: what can fail comes first; then one transaction inserts the row.
\* The goroutine starts in an after-commit hook.
SubmitJob(i, j) ==
  /\ row[j] = "none"
  /\ row' = [row EXCEPT ![j] = "pending"]
  /\ \E k \in Origins : kind' = [kind EXCEPT ![j] = k]
  /\ age' = [age EXCEPT ![j] = 0]
  /\ Become(j, [NoTask EXCEPT !.pc = "committed", !.at = i])
  /\ UNCHANGED <<hooks, sweep, outVars, faults>>

\* The after-commit hook registers the cancel function and starts execute.
Launch(j) ==
  /\ task[j].pc = "committed"
  /\ Become(j, [task[j] EXCEPT !.pc = "waiting"])
  /\ UNCHANGED <<rowVars, hooks, sweep, outVars, faults>>

\* The select at the head of execute: a free slot, or the cancelled jobCtx.  The
\* select may pick the slot although the job is cancelled.
TakeSlot(j) ==
  /\ task[j].pc = "waiting"
  /\ \/ /\ FreeSlot(task[j].at)
        /\ Become(j, [task[j] EXCEPT !.pc = IF task[j].cancelled
                                            THEN "detached" ELSE "marking",
                                     !.slot = TRUE])
     \/ /\ task[j].cancelled
        /\ Become(j, [task[j] EXCEPT !.pc = "detached"])
  /\ UNCHANGED <<rowVars, hooks, sweep, outVars, faults>>

\* Mutant: the UPDATE forgets that the job must be pending.
MarkAnyStatus(j) ==
  /\ task[j].pc = "marking"
  /\ row' = [row EXCEPT ![j] = "processing"]
  /\ age' = [age EXCEPT ![j] = 0]
  /\ Become(j, [task[j] EXCEPT !.pc = "running"])
  /\ UNCHANGED <<kind, hooks, sweep, outVars, faults>>

\* The conditional pending -> processing.  An error, of the database or of the
\* cancelled jobCtx, is only logged and the job runs.
MarkAIJobProcessing(j) ==
  /\ task[j].pc = "marking"
  /\ \/ /\ row[j] = "pending" /\ ~task[j].cancelled
        /\ row' = [row EXCEPT ![j] = "processing"]
        /\ age' = [age EXCEPT ![j] = 0]
        /\ Become(j, [task[j] EXCEPT !.pc = "running"])
        /\ UNCHANGED <<kind, faults>>
     \/ /\ row[j] # "pending" /\ ~task[j].cancelled
        /\ Become(j, Gone)
        /\ UNCHANGED <<rowVars, faults>>
     \/ /\ (task[j].cancelled /\ UNCHANGED faults) \/ Fault("db")
        /\ Become(j, [task[j] EXCEPT !.pc = "running"])
        /\ UNCHANGED rowVars
  /\ UNCHANGED <<hooks, sweep, outVars>>

\* RunJob answers or fails, at the latest when its deadline passes.
RunJob(j) ==
  /\ task[j].pc = "running"
  /\ \E s \in Terminal :
       Become(j, [task[j] EXCEPT
                    !.pc = IF task[j].cancelled \/ task[j].runtime = RunLimit
                           THEN "detached" ELSE "finishing",
                    !.status = s])
  /\ UNCHANGED <<rowVars, hooks, sweep, outVars, faults>>
-----------------------------------------------------------------------------
(* Completion: CompleteAIJob, one transaction.                             *)

Result(r, e, n, back) == [row |-> r, event |-> e, posts |-> n, release |-> back]

\* What the transaction can record of a job that reports status s.  An automation
\* job falls back to its template when the model failed or its text cannot be
\* used; when that fails too its savepoint rolls back, and an RSS item is handed
\* back (unless the feed is gone).  Auto-publishing may be off, or fail.
Results(k, s) ==
  CASE k = "legacy"  -> {Result("failed", "fail", 0, FALSE)}
    [] k = "preview" -> {IF s = "completed" THEN Result("completed", "complete", 0, FALSE)
                            ELSE Result("failed", "fail", 0, FALSE)}
    [] k = "user" ->
         {Result("failed", "fail", 0, FALSE)} \cup
         IF s = "completed" THEN {Result("completed", "complete", n, FALSE) : n \in {0, 1}}
         ELSE {}
    [] k \in {"rss", "recurring"} ->
         {Result("failed", "fallback", 1, FALSE), Result("failed", "fail", 0, FALSE)} \cup
         (IF s = "completed" THEN {Result("completed", "complete", 1, FALSE)} ELSE {}) \cup
         (IF k = "rss" THEN {Result("failed", "fail", 0, TRUE)} ELSE {})

\* ClaimAIJobCompletion assigns the terminal status to one caller.
ClaimAIJobCompletion(j) == row[j] \in Unfinished

Record(j, r) ==
  /\ row' = [row EXCEPT ![j] = r.row]
  /\ age' = [age EXCEPT ![j] = 0]
  /\ audit' = [audit EXCEPT ![j] = Append(@, r.event)]
  /\ posts' = [posts EXCEPT ![j] = @ + r.posts]
  /\ released' = IF r.release THEN released \cup {j} ELSE released
  /\ UNCHANGED kind

\* Mutant: a side effect that fails after the post was created is not rolled back.
CompleteKeepsPost(j, s) ==
  IF ~ClaimAIJobCompletion(j) THEN UNCHANGED <<rowVars, outVars>>
  ELSE \E r \in Results(kind[j], s) :
         Record(j, [r EXCEPT !.posts = IF kind[j] = "recurring" THEN 1 ELSE @])

CompleteAIJob(j, s) ==
  IF ~ClaimAIJobCompletion(j) THEN UNCHANGED <<rowVars, outVars>>
  ELSE \E r \in Results(kind[j], s) : Record(j, r)

\* finish: the transaction, and the end of the goroutine.  It is lost when the
\* database fails, or when the deadline of the run passes after finish looked at
\* it and before the commit; the row then stays as it is.
Finish(j) ==
  /\ task[j].pc \in {"finishing", "detached"}
  /\ \/ /\ task[j].pc = "detached" \/ task[j].runtime < RunLimit
        /\ CompleteAIJob(j, task[j].status)
        /\ UNCHANGED faults
     \/ /\ \/ Fault("db")
           \/ task[j].pc = "finishing" /\ task[j].runtime = RunLimit /\ UNCHANGED faults
        /\ UNCHANGED <<rowVars, outVars>>
  /\ Become(j, Gone)
  /\ UNCHANGED <<hooks, sweep>>
-----------------------------------------------------------------------------
(* Cancellation.                                                           *)

\* handleCancelAIJob: one transaction fails the job, hands an RSS item back and
\* records the event.  A job that is finished already is left alone.
CancelAIJob(i, j) ==
  /\ ClaimAIJobCompletion(j)
  /\ \E back \in IF kind[j] = "rss" THEN BOOLEAN ELSE {FALSE} :
       Record(j, Result("failed", "cancel", 0, back))
  /\ hooks' = hooks \cup {<<i, j>>}
  /\ UNCHANGED <<task, sweep, faults>>

\* The after-commit hook: Manager.Cancel, a no-op where the job is not known.
AbortJob(i, j) ==
  /\ <<i, j>> \in hooks
  /\ hooks' = hooks \ {<<i, j>>}
  /\ task' = IF task[j].at = i /\ task[j].pc \in {"waiting", "marking", "running", "finishing", "detached"}
             THEN [task EXCEPT ![j].cancelled = TRUE] ELSE task
  /\ UNCHANGED <<rowVars, sweep, outVars, faults>>
-----------------------------------------------------------------------------
(* Recovery and time.                                                      *)

\* Mutant: only the jobs that were already running are recovered.
StaleProcessing == {j \in Jobs : row[j] = "processing" /\ age[j] > StaleAfter}

\* Mutant: the margin is forgotten.
StaleAtTimeout == {j \in Jobs : row[j] \in Unfinished /\ age[j] > RunLimit}

\* ListUnfinishedAIJobs.
Stale == {j \in Jobs : row[j] \in Unfinished /\ age[j] > StaleAfter}

\* RecoverInterrupted, at start and every recoveryInterval: list ...
ListStale(i) ==
  /\ sweep[i] = {}
  /\ Stale # {}
  /\ sweep' = [sweep EXCEPT ![i] = Stale]
  /\ UNCHANGED <<rowVars, task, hooks, outVars, faults>>

\* ... and fail one after the other, each in a transaction of its own.  An error
\* is only logged.
RecoverJob(i, j) ==
  /\ j \in sweep[i]
  /\ sweep' = [sweep EXCEPT ![i] = @ \ {j}]
  /\ \/ CompleteAIJob(j, "failed") /\ UNCHANGED faults
     \/ Fault("db") /\ UNCHANGED <<rowVars, outVars>>
  /\ UNCHANGED <<task, hooks>>

\* A process stops: its goroutines, hooks and sweep are gone, the rows stay.
CrashInstance(i) ==
  /\ Fault("crash")
  /\ task' = [j \in Jobs |-> IF task[j].at = i /\ Live(j) THEN Gone ELSE task[j]]
  /\ hooks' = {h \in hooks : h[1] # i}
  /\ sweep' = [sweep EXCEPT ![i] = {}]
  /\ UNCHANGED <<rowVars, outVars>>

\* A goroutine that can go on at once does so within the tick; RunJob returns at
\* its deadline, and the final write ends within the staleMargin after it.
Prompt(j) ==
  \/ task[j].pc \in {"committed", "marking"}
  \/ task[j].pc = "waiting" /\ (FreeSlot(task[j].at) \/ task[j].cancelled)
  \/ task[j].pc \in {"running", "finishing"} /\ task[j].runtime = RunLimit
  \/ task[j].pc = "detached" /\ task[j].runtime = StaleAfter

Older(n) == IF n > StaleAfter THEN n ELSE n + 1

Tick ==
  /\ \A j \in Jobs : ~Prompt(j)
  /\ age' = [j \in Jobs |-> IF row[j] \in Unfinished THEN Older(age[j]) ELSE age[j]]
  /\ task' = [j \in Jobs |-> IF task[j].pc \in {"running", "finishing", "detached"}
                             THEN [task[j] EXCEPT !.runtime = @ + 1] ELSE task[j]]
  /\ UNCHANGED <<row, kind, hooks, sweep, outVars, faults>>
-----------------------------------------------------------------------------
TaskStep(j) == Launch(j) \/ TakeSlot(j) \/ MarkAIJobProcessing(j) \/ RunJob(j) \/ Finish(j)
SweepStep(i) == ListStale(i) \/ \E j \in Jobs : RecoverJob(i, j)

JobsNext ==
  \/ \E j \in Jobs : TaskStep(j)
  \/ \E i \in Instances, j \in Jobs : SubmitJob(i, j) \/ CancelAIJob(i, j) \/ AbortJob(i, j)
  \/ \E i \in Instances : SweepStep(i) \/ CrashInstance(i)
  \/ Tick

JobsSpec == JobsInit /\ [][JobsNext]_jobVars

\* Goroutines are scheduled, the recovery ticker fires, time passes; nobody has
\* to submit or cancel anything.
JobsFairSpec ==
  /\ JobsSpec
  /\ \A j \in Jobs : WF_jobVars(TaskStep(j))
  /\ \A i \in Instances : WF_jobVars(SweepStep(i))
  /\ WF_jobVars(Tick)
-----------------------------------------------------------------------------
(* Properties.                                                             *)

\* The first terminal status stands: whoever comes later - the goroutine, the
\* sweep of another replica, a cancellation - finds the claim taken
\* (ClaimAIJobCompletion).
TerminalIsFinal ==
  [][\A j \in Jobs : row[j] \in Terminal => row'[j] = row[j]]_jobVars

\* Row, audit and side effects tell one story, however often the completion of a
\* job was tried: one terminal event, that of the row; a post exactly where the
\* event says so; a cancelled job has left nothing behind.
OneOutcome ==
  \A j \in Jobs :
    /\ row[j] = "completed" <=> audit[j] = <<"complete">>
    /\ row[j] = "failed"    <=> audit[j] \in {<<"fail">>, <<"fallback">>, <<"cancel">>}
    /\ row[j] \notin Terminal => audit[j] = <<>>
    /\ audit[j] = <<"fallback">> => posts[j] = 1
    /\ audit[j] = <<"complete">> => posts[j] <= 1
    /\ audit[j] \notin {<<"fallback">>, <<"complete">>} => posts[j] = 0
    /\ j \in released => row[j] = "failed" /\ posts[j] = 0

\* What the sweep is about to fail is dead: no goroutine of any replica is still
\* going to run or finish it (RecoverInterrupted).
RecoversOnlyDead ==
  \A i \in Instances : \A j \in sweep[i] : row[j] \in Unfinished => ~Live(j)

\* Every job ends, although its process may die, its completion may be lost, and
\* the sweep may fail: the recovery of some replica reaches it.
JobEnds == \A j \in Jobs : row[j] \in Unfinished ~> row[j] \in Terminal
=============================================================================
