---------------------------- MODULE AIJobsProofs ----------------------------
(***************************************************************************)
(* AI jobs end once, with one consistent outcome, whatever races, crashes  *)
(* and lost completions there are; and the recovery sweep touches no job   *)
(* that is alive as long as no job has to wait for a slot.                 *)
(***************************************************************************)
EXTENDS AIJobs, FiniteSetTheorems, SequenceTheorems, TLAPS

\* What the deadline of a run does to the clock of its goroutine, and where a
\* goroutine can hold a slot.
TaskShape(t) ==
  /\ t.pc \in {"none", "committed", "waiting", "marking", "gone"} => t.runtime = 0
  /\ t.pc \in {"running", "finishing"} => t.runtime <= RunLimit
  /\ t.pc \in {"none", "committed", "waiting", "gone"} => ~t.slot

Deadlines == \A j \in Jobs : TaskShape(task[j])

JobsInv == JobsTypeOK /\ Deadlines /\ OneOutcome

\* A goroutine that is gone, or not there yet, has the right type.
LEMMA NoTaskType == NoTask \in TaskStates /\ Gone \in TaskStates /\ TaskShape(Gone)
<1>1. (CHOOSE i \in Instances : TRUE) \in Instances
  BY JobsAssumption
<1>2. NoTask \in TaskStates
  BY <1>1, JobsAssumption DEF NoTask, TaskStates, Terminal
<1>3. Gone \in TaskStates
  BY <1>2 DEF Gone, TaskStates
<1>4. TaskShape(Gone)
  BY DEF Gone, NoTask, TaskShape
<1> QED
  BY <1>2, <1>3, <1>4

\* Every result of a completion is consistent in itself.
LEMMA ResultsConsistent ==
  ASSUME NEW k \in Kinds, NEW s \in Terminal, NEW r \in Results(k, s)
  PROVE  /\ r.row \in Terminal
         /\ r.event \in {"complete", "fail", "fallback"}
         /\ r.row = "completed" <=> r.event = "complete"
         /\ r.posts \in {0, 1}
         /\ r.event = "fallback" => r.posts = 1
         /\ r.event = "fail" => r.posts = 0
         /\ r.release \in BOOLEAN
         /\ r.release => r.event = "fail"
<1>1. \E n \in {0, 1}, back \in BOOLEAN :
        \/ r = Result("failed", "fail", 0, back)
        \/ r = Result("failed", "fallback", 1, FALSE)
        \/ r = Result("completed", "complete", n, FALSE)
  <2>1. CASE k = "legacy"
    BY <2>1 DEF Results
  <2>2. CASE k = "preview"
    BY <2>2 DEF Results
  <2>3. CASE k = "user"
    BY <2>3 DEF Results
  <2>4. CASE k \in {"rss", "recurring"}
    BY <2>4 DEF Results
  <2> QED
    BY <2>1, <2>2, <2>3, <2>4 DEF Kinds
<1>2. PICK n \in {0, 1}, back \in BOOLEAN :
        \/ r = Result("failed", "fail", 0, back)
        \/ r = Result("failed", "fallback", 1, FALSE)
        \/ r = Result("completed", "complete", n, FALSE)
  BY <1>1
<1>3. CASE r = Result("failed", "fail", 0, back)
  BY <1>3 DEF Result, Terminal
<1>4. CASE r = Result("failed", "fallback", 1, FALSE)
  BY <1>4 DEF Result, Terminal
<1>5. CASE r = Result("completed", "complete", n, FALSE)
  BY <1>5 DEF Result, Terminal
<1> QED
  BY <1>2, <1>3, <1>4, <1>5

\* What a job that can still be claimed looks like.
LEMMA ClaimableIsFresh ==
  ASSUME JobsTypeOK, OneOutcome, NEW j \in Jobs, ClaimAIJobCompletion(j)
  PROVE  audit[j] = <<>> /\ posts[j] = 0 /\ j \notin released
<1>1. row[j] \notin Terminal /\ row[j] # "failed"
  BY DEF ClaimAIJobCompletion, Unfinished, Terminal
<1>2. audit[j] = <<>> /\ j \notin released
  BY <1>1 DEF OneOutcome
<1>3. <<>> # <<"fallback">> /\ <<>> # <<"complete">>
  OBVIOUS
<1> QED
  BY <1>2, <1>3 DEF OneOutcome

\* A consistent record on a job that can be claimed keeps the story straight.
LEMMA RecordKeeps ==
  ASSUME JobsTypeOK, OneOutcome, NEW j \in Jobs, ClaimAIJobCompletion(j),
         NEW r, Record(j, r),
         r.row \in Terminal, r.event \in TerminalEvents,
         r.row = "completed" <=> r.event = "complete",
         r.posts \in {0, 1}, r.event = "fallback" => r.posts = 1,
         r.event \in {"fail", "cancel"} => r.posts = 0,
         r.release \in BOOLEAN, r.release => r.event \in {"fail", "cancel"}
  PROVE  /\ OneOutcome'
         /\ row' \in [Jobs -> Unfinished \cup Terminal \cup {"none"}]
         /\ kind' \in [Jobs -> Kinds]
         /\ age' \in [Jobs -> 0..(StaleAfter + 1)]
         /\ audit' \in [Jobs -> Seq(TerminalEvents)]
         /\ posts' \in [Jobs -> Nat]
         /\ released' \in SUBSET Jobs
<1>1. audit[j] = <<>> /\ posts[j] = 0 /\ j \notin released
  BY ClaimableIsFresh
<1>2. /\ row'[j] = r.row /\ audit'[j] = <<r.event>> /\ posts'[j] = r.posts
      /\ (j \in released' <=> r.release)
  BY <1>1 DEF Record, JobsTypeOK
<1>3. \A k \in Jobs \ {j} : /\ row'[k] = row[k] /\ audit'[k] = audit[k] /\ posts'[k] = posts[k]
                            /\ (k \in released' <=> k \in released)
  BY DEF Record, JobsTypeOK
<1>4. r.event # "complete" => r.row = "failed"
  BY DEF Terminal
<1>5. /\ <<r.event>> = <<"complete">> <=> r.event = "complete"
      /\ <<r.event>> = <<"fail">> <=> r.event = "fail"
      /\ <<r.event>> = <<"fallback">> <=> r.event = "fallback"
      /\ <<r.event>> = <<"cancel">> <=> r.event = "cancel"
  OBVIOUS
<1>6. OneOutcome'
  <2> SUFFICES ASSUME NEW k \in Jobs
               PROVE  /\ row'[k] = "completed" <=> audit'[k] = <<"complete">>
                      /\ row'[k] = "failed"
                           <=> audit'[k] \in {<<"fail">>, <<"fallback">>, <<"cancel">>}
                      /\ row'[k] \notin Terminal => audit'[k] = <<>>
                      /\ audit'[k] = <<"fallback">> => posts'[k] = 1
                      /\ audit'[k] = <<"complete">> => posts'[k] <= 1
                      /\ audit'[k] \notin {<<"fallback">>, <<"complete">>} => posts'[k] = 0
                      /\ k \in released' => row'[k] = "failed" /\ posts'[k] = 0
    BY DEF OneOutcome
  <2>1. CASE k # j
    BY <2>1, <1>3 DEF OneOutcome
  <2>2. CASE k = j
    <3>1. r.event = "complete" \/ r.event = "fail" \/ r.event = "fallback" \/ r.event = "cancel"
      BY DEF TerminalEvents
    <3>2. r.row = "completed" \/ r.row = "failed"
      BY DEF Terminal
    <3> QED
      BY <2>2, <3>1, <3>2, <1>2, <1>5 DEF Terminal
  <2> QED
    BY <2>1, <2>2
<1>7. row' \in [Jobs -> Unfinished \cup Terminal \cup {"none"}] /\ kind' \in [Jobs -> Kinds]
  BY DEF Record, JobsTypeOK
<1>8. age' \in [Jobs -> 0..(StaleAfter + 1)]
  BY JobsAssumption DEF Record, JobsTypeOK
<1>9. audit' \in [Jobs -> Seq(TerminalEvents)]
  <2>1. Append(audit[j], r.event) \in Seq(TerminalEvents)
    BY <1>1, AppendProperties DEF JobsTypeOK
  <2> QED
    BY <2>1 DEF Record, JobsTypeOK
<1>10. posts' \in [Jobs -> Nat] /\ released' \in SUBSET Jobs
  BY DEF Record, JobsTypeOK
<1> QED
  BY <1>6, <1>7, <1>8, <1>9, <1>10

\* The completion transaction keeps the story straight, whether or not it claims.
LEMMA CompleteKeeps ==
  ASSUME JobsTypeOK, OneOutcome, NEW j \in Jobs, NEW s \in Terminal, CompleteAIJob(j, s)
  PROVE  /\ OneOutcome'
         /\ row' \in [Jobs -> Unfinished \cup Terminal \cup {"none"}]
         /\ kind' \in [Jobs -> Kinds]
         /\ age' \in [Jobs -> 0..(StaleAfter + 1)]
         /\ audit' \in [Jobs -> Seq(TerminalEvents)]
         /\ posts' \in [Jobs -> Nat]
         /\ released' \in SUBSET Jobs
<1>1. CASE ~ClaimAIJobCompletion(j)
  BY <1>1 DEF CompleteAIJob, OneOutcome, JobsTypeOK, rowVars, outVars
<1>2. CASE ClaimAIJobCompletion(j)
  <2>1. PICK r \in Results(kind[j], s) : Record(j, r)
    BY <1>2 DEF CompleteAIJob
  <2>2. kind[j] \in Kinds
    BY DEF JobsTypeOK
  <2>3. /\ r.row \in Terminal
        /\ r.event \in {"complete", "fail", "fallback"}
        /\ r.row = "completed" <=> r.event = "complete"
        /\ r.posts \in {0, 1}
        /\ r.event = "fallback" => r.posts = 1
        /\ r.event = "fail" => r.posts = 0
        /\ r.release \in BOOLEAN
        /\ r.release => r.event = "fail"
    BY <2>2, ResultsConsistent
  <2>4. r.event \in TerminalEvents /\ (r.event \in {"fail", "cancel"} => r.posts = 0)
        /\ (r.release => r.event \in {"fail", "cancel"})
    BY <2>3 DEF TerminalEvents
  <2> QED
    BY <1>2, <2>1, <2>3, <2>4, RecordKeeps
<1> QED
  BY <1>1, <1>2

\* The invariant holds of an empty table and idle replicas.
LEMMA JobsInvInit == JobsInit => JobsInv
<1> SUFFICES ASSUME JobsInit PROVE JobsInv
  OBVIOUS
<1>1. JobsTypeOK
  <2>1. <<>> \in Seq(TerminalEvents)
    OBVIOUS
  <2> QED
    BY <2>1, NoTaskType, JobsAssumption DEF JobsInit, JobsTypeOK, Kinds
<1>2. Deadlines
  BY JobsAssumption DEF JobsInit, Deadlines, TaskShape, NoTask
<1>3. OneOutcome
  <2>1. <<>> # <<"complete">> /\ <<>> # <<"fail">> /\ <<>> # <<"fallback">> /\ <<>> # <<"cancel">>
    OBVIOUS
  <2> QED
    BY <2>1 DEF JobsInit, OneOutcome, Terminal
<1> QED
  BY <1>1, <1>2, <1>3 DEF JobsInv

\* A goroutine that moves to a well-formed state keeps the table of goroutines so.
LEMMA BecomeType ==
  ASSUME JobsTypeOK, Deadlines, NEW j \in Jobs, NEW t \in TaskStates, TaskShape(t), Become(j, t)
  PROVE  task' \in [Jobs -> TaskStates] /\ Deadlines'
  BY DEF JobsTypeOK, Deadlines, Become

\* A step that leaves the rows and the outcomes alone.
LEMMA QuietStep ==
  ASSUME JobsInv, task' \in [Jobs -> TaskStates], Deadlines', UNCHANGED <<rowVars, outVars>>,
         hooks' \in SUBSET (Instances \X Jobs), sweep' \in [Instances -> SUBSET Jobs], faults' \in Nat
  PROVE  JobsInv'
<1>1. JobsTypeOK'
  BY DEF JobsInv, JobsTypeOK, rowVars, outVars
<1>2. OneOutcome'
  BY DEF JobsInv, OneOutcome, rowVars, outVars
<1> QED
  BY <1>1, <1>2 DEF JobsInv

\* What execute does keeps the invariant.
LEMMA JobsTask ==
  ASSUME JobsInv, NEW j \in Jobs, TaskStep(j)
  PROVE  JobsInv'
<1> USE JobsAssumption
<1>a. JobsTypeOK /\ Deadlines /\ OneOutcome
  BY DEF JobsInv
<1>b. task[j] \in TaskStates /\ TaskShape(task[j])
  BY <1>a DEF JobsTypeOK, Deadlines
<1>c. Gone \in TaskStates /\ TaskShape(Gone)
  BY NoTaskType
<1>d. hooks \in SUBSET (Instances \X Jobs) /\ sweep \in [Instances -> SUBSET Jobs] /\ faults \in Nat
  BY <1>a DEF JobsTypeOK
<1>1. CASE Launch(j)
  <2> DEFINE t == [task[j] EXCEPT !.pc = "waiting"]
  <2>1. t \in TaskStates /\ TaskShape(t)
    BY <1>1, <1>b DEF Launch, TaskStates, TaskShape
  <2>2. Become(j, t) /\ UNCHANGED <<rowVars, hooks, sweep, outVars, faults>>
    BY <1>1 DEF Launch
  <2> QED
    BY <2>1, <2>2, <1>a, <1>d, BecomeType, QuietStep
<1>2. CASE TakeSlot(j)
  <2> DEFINE d == [task[j] EXCEPT !.pc = "detached"]
             m == [task[j] EXCEPT !.pc = "marking", !.slot = TRUE]
             e == [task[j] EXCEPT !.pc = "detached", !.slot = TRUE]
  <2>1. /\ d \in TaskStates /\ TaskShape(d)
        /\ m \in TaskStates /\ TaskShape(m)
        /\ e \in TaskStates /\ TaskShape(e)
    BY <1>2, <1>b DEF TakeSlot, TaskStates, TaskShape
  <2>2. Become(j, d) \/ Become(j, m) \/ Become(j, e)
    BY <1>2 DEF TakeSlot
  <2>3. UNCHANGED <<rowVars, hooks, sweep, outVars, faults>>
    BY <1>2 DEF TakeSlot
  <2>4. task' \in [Jobs -> TaskStates] /\ Deadlines'
    BY <2>1, <2>2, <1>a, BecomeType
  <2> QED
    BY <2>3, <2>4, <1>d, QuietStep
<1>3. CASE MarkAIJobProcessing(j)
  <2> DEFINE t == [task[j] EXCEPT !.pc = "running"]
  <2>1. t \in TaskStates /\ TaskShape(t)
    BY <1>3, <1>b DEF MarkAIJobProcessing, TaskStates, TaskShape
  <2>2. hooks' = hooks /\ sweep' = sweep /\ faults' \in Nat
    BY <1>3, <1>d DEF MarkAIJobProcessing, Fault
  <2>3. task' \in [Jobs -> TaskStates] /\ Deadlines'
    <3>1. Become(j, t) \/ Become(j, Gone)
      BY <1>3 DEF MarkAIJobProcessing
    <3> QED
      BY <3>1, <2>1, <1>a, <1>c, BecomeType
  <2>4. CASE UNCHANGED rowVars
    BY <2>2, <2>3, <2>4, <1>3, <1>d, QuietStep DEF MarkAIJobProcessing
  <2>5. CASE /\ row[j] = "pending"
             /\ row' = [row EXCEPT ![j] = "processing"]
             /\ age' = [age EXCEPT ![j] = 0]
             /\ UNCHANGED <<kind, outVars>>
    <3>1. JobsTypeOK'
      BY <2>2, <2>3, <2>5, <1>a, <1>d DEF JobsTypeOK, Unfinished, outVars
    <3>2. OneOutcome'
      BY <2>5, <1>a DEF JobsTypeOK, OneOutcome, Terminal, outVars
    <3> QED
      BY <3>1, <3>2, <2>3 DEF JobsInv
  <2> QED
    BY <1>3, <2>4, <2>5 DEF MarkAIJobProcessing
<1>4. CASE RunJob(j)
  <2>1. PICK s \in Terminal :
          Become(j, [task[j] EXCEPT !.pc = IF task[j].cancelled \/ task[j].runtime = RunLimit
                                           THEN "detached" ELSE "finishing",
                                    !.status = s])
    BY <1>4 DEF RunJob
  <2> DEFINE t == [task[j] EXCEPT !.pc = IF task[j].cancelled \/ task[j].runtime = RunLimit
                                         THEN "detached" ELSE "finishing",
                                  !.status = s]
  <2>2. t \in TaskStates /\ TaskShape(t)
    BY <1>4, <1>b DEF RunJob, TaskStates, TaskShape
  <2>3. UNCHANGED <<rowVars, hooks, sweep, outVars, faults>>
    BY <1>4 DEF RunJob
  <2> QED
    BY <2>1, <2>2, <2>3, <1>a, <1>d, BecomeType, QuietStep
<1>5. CASE Finish(j)
  <2>1. task' \in [Jobs -> TaskStates] /\ Deadlines'
    BY <1>5, <1>a, <1>c, BecomeType DEF Finish
  <2>2. hooks' = hooks /\ sweep' = sweep /\ faults' \in Nat
    BY <1>5, <1>d DEF Finish, Fault
  <2>3. task[j].status \in Terminal
    BY <1>b DEF TaskStates
  <2>4. CASE CompleteAIJob(j, task[j].status)
    <3>1. /\ OneOutcome'
          /\ row' \in [Jobs -> Unfinished \cup Terminal \cup {"none"}]
          /\ kind' \in [Jobs -> Kinds]
          /\ age' \in [Jobs -> 0..(StaleAfter + 1)]
          /\ audit' \in [Jobs -> Seq(TerminalEvents)]
          /\ posts' \in [Jobs -> Nat]
          /\ released' \in SUBSET Jobs
      BY <2>3, <2>4, <1>a, CompleteKeeps
    <3> QED
      BY <3>1, <2>1, <2>2, <1>d DEF JobsInv, JobsTypeOK
  <2>5. CASE UNCHANGED <<rowVars, outVars>>
    BY <2>1, <2>2, <2>5, <1>d, QuietStep
  <2> QED
    BY <1>5, <2>4, <2>5 DEF Finish
<1> QED
  BY <1>1, <1>2, <1>3, <1>4, <1>5 DEF TaskStep

\* What a tick does to the clock of a goroutine.
LEMMA TickTask ==
  ASSUME NEW j \in Jobs, task[j] \in TaskStates, TaskShape(task[j]), ~Prompt(j),
         task[j].pc \in {"running", "finishing", "detached"}
  PROVE  [task[j] EXCEPT !.runtime = @ + 1] \in TaskStates
         /\ TaskShape([task[j] EXCEPT !.runtime = @ + 1])
<1> USE JobsAssumption
<1>1. task[j].runtime + 1 \in 0..StaleAfter
  BY DEF TaskStates, TaskShape, Prompt
<1>2. task[j].pc \in {"running", "finishing"} => task[j].runtime + 1 <= RunLimit
  BY DEF TaskStates, TaskShape, Prompt
<1> QED
  BY <1>1, <1>2 DEF TaskStates, TaskShape

\* Submissions, cancellations, sweeps, crashes and the clock keep the invariant.
LEMMA JobsOther ==
  ASSUME JobsInv,
         \/ \E i \in Instances, j \in Jobs : SubmitJob(i, j) \/ CancelAIJob(i, j) \/ AbortJob(i, j)
         \/ \E i \in Instances : SweepStep(i) \/ CrashInstance(i)
         \/ Tick
  PROVE  JobsInv'
<1> USE JobsAssumption
<1>a. JobsTypeOK /\ Deadlines /\ OneOutcome
  BY DEF JobsInv
<1>b. \A j \in Jobs : task[j] \in TaskStates /\ TaskShape(task[j])
  BY <1>a DEF JobsTypeOK, Deadlines
<1>c. Gone \in TaskStates /\ TaskShape(Gone)
  BY NoTaskType
<1>d. /\ hooks \in SUBSET (Instances \X Jobs) /\ sweep \in [Instances -> SUBSET Jobs]
      /\ faults \in Nat /\ task \in [Jobs -> TaskStates]
  BY <1>a DEF JobsTypeOK
<1>1. ASSUME NEW i \in Instances, NEW j \in Jobs, SubmitJob(i, j) PROVE JobsInv'
  <2> DEFINE t == [NoTask EXCEPT !.pc = "committed", !.at = i]
  <2>1. t \in TaskStates
    BY NoTaskType DEF TaskStates
  <2>2. TaskShape(t)
    BY DEF NoTask, TaskShape
  <2>3. task' \in [Jobs -> TaskStates] /\ Deadlines'
    BY <1>1, <2>1, <2>2, <1>a, BecomeType DEF SubmitJob
  <2>4. PICK k \in Origins : kind' = [kind EXCEPT ![j] = k]
    BY <1>1 DEF SubmitJob
  <2>5. k \in Kinds
    OBVIOUS
  <2>6. JobsTypeOK'
    <3>1. row' \in [Jobs -> Unfinished \cup Terminal \cup {"none"}]
      BY <1>1, <1>a DEF SubmitJob, JobsTypeOK, Unfinished
    <3>2. kind' \in [Jobs -> Kinds]
      BY <2>4, <2>5, <1>a DEF JobsTypeOK
    <3>3. age' \in [Jobs -> 0..(StaleAfter + 1)]
      <4>1. age' = [age EXCEPT ![j] = 0]
        BY <1>1 DEF SubmitJob
      <4>2. 0 \in 0..(StaleAfter + 1)
        BY JobsAssumption
      <4> QED
        BY <4>1, <4>2, <1>a DEF JobsTypeOK
    <3>4. UNCHANGED <<hooks, sweep, audit, posts, released, faults>>
      BY <1>1 DEF SubmitJob, outVars
    <3> QED
      BY <3>1, <3>2, <3>3, <3>4, <2>3, <1>a DEF JobsTypeOK
  <2>7. OneOutcome'
    BY <1>1, <1>a DEF SubmitJob, JobsTypeOK, OneOutcome, Terminal, outVars
  <2> QED
    BY <2>3, <2>6, <2>7 DEF JobsInv
<1>2. ASSUME NEW i \in Instances, NEW j \in Jobs, CancelAIJob(i, j) PROVE JobsInv'
  <2>1. PICK back \in BOOLEAN : Record(j, Result("failed", "cancel", 0, back))
    BY <1>2 DEF CancelAIJob
  <2> DEFINE r == Result("failed", "cancel", 0, back)
  <2>2. /\ r.row = "failed" /\ r.event = "cancel" /\ r.posts = 0 /\ r.release \in BOOLEAN
    BY DEF Result
  <2>3. /\ r.row \in Terminal /\ r.event \in TerminalEvents
        /\ r.row = "completed" <=> r.event = "complete"
        /\ r.posts \in {0, 1} /\ (r.event = "fallback" => r.posts = 1)
        /\ (r.event \in {"fail", "cancel"} => r.posts = 0)
        /\ (r.release => r.event \in {"fail", "cancel"})
    BY <2>2 DEF Terminal, TerminalEvents
  <2>4. /\ OneOutcome'
        /\ row' \in [Jobs -> Unfinished \cup Terminal \cup {"none"}]
        /\ kind' \in [Jobs -> Kinds]
        /\ age' \in [Jobs -> 0..(StaleAfter + 1)]
        /\ audit' \in [Jobs -> Seq(TerminalEvents)]
        /\ posts' \in [Jobs -> Nat]
        /\ released' \in SUBSET Jobs
    <3> HIDE DEF r
    <3> QED
      BY <1>2, <2>1, <2>2, <2>3, <1>a, RecordKeeps DEF CancelAIJob, r
  <2>5. hooks' \in SUBSET (Instances \X Jobs)
    BY <1>2, <1>d DEF CancelAIJob
  <2> QED
    BY <1>2, <2>4, <2>5, <1>a, <1>d DEF CancelAIJob, JobsInv, JobsTypeOK, Deadlines
<1>3. ASSUME NEW i \in Instances, NEW j \in Jobs, AbortJob(i, j) PROVE JobsInv'
  <2> DEFINE t == [task[j] EXCEPT !.cancelled = TRUE]
  <2>1. t \in TaskStates /\ TaskShape(t)
    BY <1>b DEF TaskStates, TaskShape
  <2>2. task' = task \/ Become(j, t)
    BY <1>3, <1>d DEF AbortJob, Become
  <2>3. task' \in [Jobs -> TaskStates] /\ Deadlines'
    BY <2>1, <2>2, <1>a, <1>d, BecomeType DEF Deadlines
  <2>4. hooks' \in SUBSET (Instances \X Jobs)
    BY <1>3, <1>d DEF AbortJob
  <2> QED
    BY <1>3, <2>3, <2>4, <1>d, QuietStep DEF AbortJob
<1>4. ASSUME NEW i \in Instances, ListStale(i) PROVE JobsInv'
  <2>1. sweep' \in [Instances -> SUBSET Jobs]
    BY <1>4, <1>d DEF ListStale, Stale
  <2> QED
    BY <1>4, <2>1, <1>a, <1>d, QuietStep DEF ListStale, Deadlines
<1>5. ASSUME NEW i \in Instances, NEW j \in Jobs, RecoverJob(i, j) PROVE JobsInv'
  <2>1. sweep' \in [Instances -> SUBSET Jobs] /\ faults' \in Nat
    BY <1>5, <1>d DEF RecoverJob, Fault
  <2>2. CASE CompleteAIJob(j, "failed")
    <3>1. "failed" \in Terminal
      BY DEF Terminal
    <3>2. /\ OneOutcome'
          /\ row' \in [Jobs -> Unfinished \cup Terminal \cup {"none"}]
          /\ kind' \in [Jobs -> Kinds]
          /\ age' \in [Jobs -> 0..(StaleAfter + 1)]
          /\ audit' \in [Jobs -> Seq(TerminalEvents)]
          /\ posts' \in [Jobs -> Nat]
          /\ released' \in SUBSET Jobs
      BY <2>2, <3>1, <1>a, CompleteKeeps
    <3> QED
      BY <1>5, <2>1, <3>2, <1>a, <1>d DEF RecoverJob, JobsInv, JobsTypeOK, Deadlines
  <2>3. CASE UNCHANGED <<rowVars, outVars>>
    BY <1>5, <2>1, <2>3, <1>a, <1>d, QuietStep DEF RecoverJob, Deadlines
  <2> QED
    BY <1>5, <2>2, <2>3 DEF RecoverJob
<1>6. ASSUME NEW i \in Instances, CrashInstance(i) PROVE JobsInv'
  <2>1. task' \in [Jobs -> TaskStates] /\ Deadlines'
    BY <1>6, <1>b, <1>c DEF CrashInstance, Deadlines
  <2>2. hooks' \in SUBSET (Instances \X Jobs) /\ sweep' \in [Instances -> SUBSET Jobs] /\ faults' \in Nat
    BY <1>6, <1>d DEF CrashInstance, Fault
  <2> QED
    BY <1>6, <2>1, <2>2, QuietStep DEF CrashInstance
<1>7. CASE Tick
  <2>1. task' \in [Jobs -> TaskStates] /\ Deadlines'
    BY <1>7, <1>b, TickTask DEF Tick, Deadlines
  <2>2. age' \in [Jobs -> 0..(StaleAfter + 1)]
    BY <1>7, <1>a DEF Tick, JobsTypeOK, Older
  <2>3. JobsTypeOK'
    BY <1>7, <2>1, <2>2, <1>a DEF Tick, JobsTypeOK, outVars
  <2>4. OneOutcome'
    BY <1>7, <1>a DEF Tick, OneOutcome, outVars
  <2> QED
    BY <2>1, <2>3, <2>4 DEF JobsInv
<1> QED
  BY <1>1, <1>2, <1>3, <1>4, <1>5, <1>6, <1>7 DEF SweepStep

\* The invariant is inductive.
LEMMA JobsStep == JobsInv /\ [JobsNext]_jobVars => JobsInv'
<1> SUFFICES ASSUME JobsInv, [JobsNext]_jobVars PROVE JobsInv'
  OBVIOUS
<1>1. CASE UNCHANGED jobVars
  BY <1>1 DEF jobVars, JobsInv, JobsTypeOK, Deadlines, OneOutcome
<1>2. CASE \E j \in Jobs : TaskStep(j)
  BY <1>2, JobsTask
<1> QED
  BY <1>1, <1>2, JobsOther DEF JobsNext

\* Everything the module keeps about a job has its type, and no goroutine outlives
\* its deadline by more than the staleMargin, in every behaviour.
THEOREM JobsTypesHold == JobsSpec => []JobsTypeOK
<1>1. JobsInv => JobsTypeOK
  BY DEF JobsInv
<1> QED
  BY <1>1, JobsInvInit, JobsStep, PTL DEF JobsSpec

\* Row, audit trail and side effects of a job agree in every behaviour: for any
\* number of jobs, replicas and slots, with crashes, lost completions, late
\* cancellations and sweeps of jobs that are still alive (CompleteAIJob,
\* handleCancelAIJob, RecoverInterrupted).
THEOREM JobHasOneOutcome == JobsSpec => []OneOutcome
<1>1. JobsInv => OneOutcome
  BY DEF JobsInv
<1> QED
  BY <1>1, JobsInvInit, JobsStep, PTL DEF JobsSpec

\* A terminal status is never replaced, whatever runs late: no step of any replica
\* rewrites a finished job (ClaimAIJobCompletion, MarkAIJobProcessing).
THEOREM FirstTerminalStands == JobsSpec => TerminalIsFinal
<1>1. ASSUME JobsInv, [JobsNext]_jobVars, NEW j \in Jobs, row[j] \in Terminal
      PROVE  row'[j] = row[j]
  <2>0. row[j] \notin Unfinished /\ row[j] # "none" /\ row \in [Jobs -> Unfinished \cup Terminal \cup {"none"}]
    BY <1>1 DEF Terminal, Unfinished, JobsInv, JobsTypeOK
  <2>1. ASSUME NEW k \in Jobs, NEW s, CompleteAIJob(k, s) PROVE row'[j] = row[j]
    BY <2>0, <2>1 DEF CompleteAIJob, ClaimAIJobCompletion, Record, rowVars
  <2>2. CASE UNCHANGED jobVars
    BY <2>2 DEF jobVars
  <2>3. ASSUME NEW k \in Jobs, TaskStep(k) PROVE row'[j] = row[j]
    <3>1. CASE Launch(k) \/ TakeSlot(k) \/ RunJob(k)
      BY <3>1 DEF Launch, TakeSlot, RunJob, rowVars
    <3>2. CASE MarkAIJobProcessing(k)
      BY <3>2, <2>0 DEF MarkAIJobProcessing, rowVars, Unfinished
    <3>3. CASE Finish(k)
      BY <3>3, <2>1 DEF Finish, rowVars
    <3> QED
      BY <2>3, <3>1, <3>2, <3>3 DEF TaskStep
  <2>4. ASSUME NEW i \in Instances, NEW k \in Jobs,
               SubmitJob(i, k) \/ CancelAIJob(i, k) \/ AbortJob(i, k)
        PROVE  row'[j] = row[j]
    BY <2>4, <2>0 DEF SubmitJob, CancelAIJob, AbortJob, Record, ClaimAIJobCompletion, rowVars
  <2>5. ASSUME NEW i \in Instances, SweepStep(i) \/ CrashInstance(i) PROVE row'[j] = row[j]
    BY <2>5, <2>1 DEF SweepStep, ListStale, RecoverJob, CrashInstance, rowVars
  <2>6. CASE Tick
    BY <2>6 DEF Tick
  <2> QED
    BY <1>1, <2>2, <2>3, <2>4, <2>5, <2>6 DEF JobsNext
<1>2. JobsInv /\ [JobsNext]_jobVars
        => [\A j \in Jobs : row[j] \in Terminal => row'[j] = row[j]]_jobVars
  BY <1>1
<1> QED
  BY <1>2, JobsInvInit, JobsStep, PTL DEF JobsSpec, TerminalIsFinal
-----------------------------------------------------------------------------
(* Recovery.                                                               *)

\* No job has to wait for a slot.
EnoughSlots == IsFiniteSet(Jobs) /\ Cardinality(Jobs) <= MaxConcurrent

\* The row of a live job is not older than its run.
LiveIsYoung ==
  \A j \in Jobs : Live(j) /\ row[j] \in Unfinished => age[j] <= task[j].runtime

SweptExists == \A i \in Instances : \A j \in sweep[i] : row[j] # "none"

RecoveryInv == JobsInv /\ LiveIsYoung /\ SweptExists /\ RecoversOnlyDead

\* A waiting job finds a slot at once.
LEMMA WaitingFindsSlot ==
  ASSUME EnoughSlots, JobsInv, NEW j \in Jobs, task[j].pc = "waiting"
  PROVE  FreeSlot(task[j].at)
<1> DEFINE S == Slots(task[j].at)
<1>1. ~task[j].slot
  BY DEF JobsInv, Deadlines, TaskShape
<1>2. S \subseteq Jobs \ {j}
  BY <1>1 DEF Slots
<1>3. IsFiniteSet(Jobs \ {j}) /\ Cardinality(Jobs \ {j}) = Cardinality(Jobs) - 1
  BY FS_RemoveElement DEF EnoughSlots
<1>4. Cardinality(S) <= Cardinality(Jobs \ {j}) /\ Cardinality(S) \in Nat
  BY <1>2, <1>3, FS_Subset, FS_CardinalityType
<1>5. Cardinality(Jobs) \in Nat
  BY FS_CardinalityType DEF EnoughSlots
<1> QED
  BY <1>3, <1>4, <1>5, JobsAssumption DEF FreeSlot, EnoughSlots

\* Nothing is alive, young or swept at the start.
LEMMA RecoveryInit == JobsInit => RecoveryInv
<1> SUFFICES ASSUME JobsInit PROVE RecoveryInv
  OBVIOUS
<1>1. LiveIsYoung
  BY DEF JobsInit, LiveIsYoung, Unfinished
<1>2. SweptExists /\ RecoversOnlyDead
  BY DEF JobsInit, SweptExists, RecoversOnlyDead
<1> QED
  BY <1>1, <1>2, JobsInvInit DEF RecoveryInv

\* A job that reaches the sweep is older than any run can be.
LEMMA StaleIsDead ==
  ASSUME RecoveryInv, NEW j \in Stale
  PROVE  ~Live(j) /\ row[j] # "none" /\ j \in Jobs
<1>1. j \in Jobs /\ row[j] \in Unfinished /\ age[j] > StaleAfter
  BY DEF Stale
<1>2. task[j].runtime <= StaleAfter /\ task[j].runtime \in Nat /\ age[j] \in Nat
  BY <1>1, JobsAssumption DEF RecoveryInv, JobsInv, JobsTypeOK, TaskStates
<1> QED
  BY <1>1, <1>2, JobsAssumption DEF RecoveryInv, LiveIsYoung, Unfinished

\* Nothing comes to life, and no unfinished row gets older than its run.
NothingAgesOrRevives ==
  \A j \in Jobs :
    /\ task'[j].pc \notin {"none", "gone"} => /\ task[j].pc \notin {"none", "gone"}
                                              /\ task'[j].runtime = task[j].runtime
    /\ age'[j] <= age[j]
    /\ row'[j] \in Unfinished => row[j] \in Unfinished
    /\ row[j] # "none" => row'[j] # "none"

\* Such a step keeps the recovery invariant.
LEMMA QuietRecovery ==
  ASSUME JobsInv, JobsInv', LiveIsYoung, SweptExists, RecoversOnlyDead,
         NothingAgesOrRevives, \A i \in Instances : sweep'[i] \subseteq sweep[i]
  PROVE  RecoveryInv'
<1>0. \A j \in Jobs : age[j] \in Nat /\ age'[j] \in Nat /\ task[j].runtime \in Nat
  BY JobsAssumption DEF JobsInv, JobsTypeOK, TaskStates
<1>1. \A i \in Instances : sweep[i] \subseteq Jobs
  BY DEF JobsInv, JobsTypeOK
<1>2. LiveIsYoung'
  BY <1>0 DEF LiveIsYoung, Live, NothingAgesOrRevives
<1>3. SweptExists'
  BY <1>1 DEF SweptExists, NothingAgesOrRevives
<1>4. RecoversOnlyDead'
  BY <1>1 DEF RecoversOnlyDead, Live, NothingAgesOrRevives
<1> QED
  BY <1>2, <1>3, <1>4 DEF RecoveryInv

\* The recovery invariant is inductive when no job waits for a slot.
LEMMA RecoveryStep == EnoughSlots /\ RecoveryInv /\ [JobsNext]_jobVars => RecoveryInv'
<1> SUFFICES ASSUME EnoughSlots, RecoveryInv, [JobsNext]_jobVars PROVE RecoveryInv'
  OBVIOUS
<1> USE JobsAssumption
<1>a. JobsInv /\ LiveIsYoung /\ SweptExists /\ RecoversOnlyDead
  BY DEF RecoveryInv
<1>b. JobsInv'
  BY <1>a, JobsStep
<1>c. /\ row \in [Jobs -> Unfinished \cup Terminal \cup {"none"}] /\ sweep \in [Instances -> SUBSET Jobs]
      /\ task \in [Jobs -> TaskStates] /\ age \in [Jobs -> 0..(StaleAfter + 1)]
  BY <1>a DEF JobsInv, JobsTypeOK
<1>d. \A j \in Jobs : TaskShape(task[j]) /\ task[j] \in TaskStates
  BY <1>a DEF JobsInv, Deadlines, JobsTypeOK
<1>g. \A j \in Jobs : age[j] \in Nat /\ age'[j] \in Nat /\ task[j].runtime \in Nat
  BY <1>a, <1>b DEF JobsInv, JobsTypeOK, TaskStates
<1>e. ASSUME NothingAgesOrRevives, \A i \in Instances : sweep'[i] \subseteq sweep[i]
      PROVE  RecoveryInv'
  BY <1>a, <1>b, <1>e, QuietRecovery
\* What completing a job does to the rows.
<1>f. ASSUME NEW k \in Jobs, NEW s \in Terminal, CompleteAIJob(k, s)
      PROVE  \A j \in Jobs : age'[j] <= age[j] /\ (row[j] # "none" => row'[j] # "none")
                            /\ (row'[j] \in Unfinished => row[j] \in Unfinished)
  <2>0. \A j \in Jobs : age[j] \in Nat
    BY <1>c
  <2>1. CASE ~ClaimAIJobCompletion(k)
    BY <1>f, <2>1, <2>0 DEF CompleteAIJob, rowVars
  <2>2. CASE ClaimAIJobCompletion(k)
    <3>1. PICK r \in Results(kind[k], s) : Record(k, r)
      BY <1>f, <2>2 DEF CompleteAIJob
    <3>2. kind[k] \in Kinds
      BY <1>a DEF JobsInv, JobsTypeOK
    <3>3. r.row \in Terminal
      BY <3>2, ResultsConsistent
    <3> QED
      BY <3>1, <3>3, <1>c, <2>0 DEF Record, Terminal, Unfinished
  <2> QED
    BY <2>1, <2>2
<1>1. CASE UNCHANGED jobVars
  BY <1>1, <1>b, <1>a DEF jobVars, RecoveryInv, LiveIsYoung, SweptExists, RecoversOnlyDead, Live
<1>2. ASSUME NEW k \in Jobs, TaskStep(k) PROVE RecoveryInv'
  <2>0. \A j \in Jobs : age[j] \in Nat
    BY <1>c
  <2>1. CASE Launch(k) \/ TakeSlot(k) \/ RunJob(k)
    <3>1. row' = row /\ age' = age /\ sweep' = sweep
      BY <2>1 DEF Launch, TakeSlot, RunJob, rowVars
    <3>2. task[k].pc \in {"committed", "waiting", "running"}
      BY <2>1 DEF Launch, TakeSlot, RunJob
    <3>3. \E t : Become(k, t) /\ t.runtime = task[k].runtime
      <4>1. CASE Launch(k)
        BY <4>1, <1>d DEF Launch, TaskStates
      <4>2. CASE TakeSlot(k)
        <5> DEFINE d == [task[k] EXCEPT !.pc = "detached"]
                   m == [task[k] EXCEPT !.pc = IF task[k].cancelled THEN "detached" ELSE "marking",
                                        !.slot = TRUE]
        <5>1. d.runtime = task[k].runtime /\ m.runtime = task[k].runtime
          BY <1>d DEF TaskStates
        <5>2. Become(k, d) \/ Become(k, m)
          BY <4>2 DEF TakeSlot
        <5> QED
          BY <5>1, <5>2
      <4>3. CASE RunJob(k)
        <5>1. PICK s \in Terminal :
                Become(k, [task[k] EXCEPT !.pc = IF task[k].cancelled \/ task[k].runtime = RunLimit
                                                 THEN "detached" ELSE "finishing",
                                          !.status = s])
          BY <4>3 DEF RunJob
        <5> DEFINE u == [task[k] EXCEPT !.pc = IF task[k].cancelled \/ task[k].runtime = RunLimit
                                               THEN "detached" ELSE "finishing",
                                        !.status = s]
        <5>2. u.runtime = task[k].runtime
          BY <1>d DEF TaskStates
        <5> QED
          BY <5>1, <5>2
      <4> QED
        BY <2>1, <4>1, <4>2, <4>3
    <3>4. task'[k].runtime = task[k].runtime /\ \A j \in Jobs \ {k} : task'[j] = task[j]
      BY <3>3, <1>c DEF Become
    <3>5. NothingAgesOrRevives
      BY <1>g, <3>1, <3>2, <3>4, <2>0 DEF NothingAgesOrRevives
    <3> QED
      BY <3>1, <3>5, <1>e
  <2>2. CASE MarkAIJobProcessing(k)
    <3>1. Live(k) /\ sweep' = sweep
      BY <2>2 DEF MarkAIJobProcessing, Live
    <3>2. \A j \in Jobs \ {k} : task'[j] = task[j] /\ row'[j] = row[j] /\ age'[j] = age[j]
      BY <2>2, <1>c DEF MarkAIJobProcessing, Become, rowVars
    <3>3. \/ task'[k] = Gone
          \/ task'[k].runtime = task[k].runtime
      BY <2>2, <1>c, <1>d DEF MarkAIJobProcessing, Become, TaskStates
    <3>4. Live(k)' => task'[k].runtime = task[k].runtime
      BY <3>3 DEF Live, Gone, NoTask
    <3>5. /\ age'[k] <= age[k]
          /\ row'[k] # "none" \/ row'[k] = row[k]
          /\ row'[k] \in Unfinished => row[k] \in Unfinished
      BY <2>2, <1>c, <2>0 DEF MarkAIJobProcessing, rowVars, Unfinished
    <3>6. NothingAgesOrRevives
      BY <1>g, <3>1, <3>2, <3>4, <3>5, <2>0 DEF NothingAgesOrRevives, Live
    <3> QED
      BY <3>1, <3>6, <1>e
  <2>3. CASE Finish(k)
    <3>1. sweep' = sweep /\ \A j \in Jobs \ {k} : task'[j] = task[j]
      BY <2>3, <1>c DEF Finish, Become
    <3>2. ~Live(k)'
      BY <2>3, <1>c DEF Finish, Become, Live, Gone, NoTask
    <3>3. \A j \in Jobs : age'[j] <= age[j] /\ (row[j] # "none" => row'[j] # "none")
                            /\ (row'[j] \in Unfinished => row[j] \in Unfinished)
      <4>1. task[k].status \in Terminal
        BY <1>d DEF TaskStates
      <4>2. CASE UNCHANGED rowVars
        BY <4>2, <2>0 DEF rowVars
      <4> QED
        BY <2>3, <4>1, <4>2, <1>f DEF Finish
    <3>4. task[k].pc \in {"finishing", "detached"}
      BY <2>3 DEF Finish
    <3>5. NothingAgesOrRevives
      BY <1>g, <3>1, <3>2, <3>3 DEF NothingAgesOrRevives, Live
    <3> QED
      BY <3>1, <3>5, <1>e
  <2> QED
    BY <1>2, <2>1, <2>2, <2>3 DEF TaskStep
<1>3. ASSUME NEW i \in Instances, NEW k \in Jobs, SubmitJob(i, k) PROVE RecoveryInv'
  <2>1. /\ row[k] = "none" /\ row'[k] = "pending" /\ age'[k] = 0 /\ sweep' = sweep
        /\ task'[k] = [NoTask EXCEPT !.pc = "committed", !.at = i]
        /\ \A j \in Jobs \ {k} : row'[j] = row[j] /\ age'[j] = age[j] /\ task'[j] = task[j]
    BY <1>3, <1>c DEF SubmitJob, Become
  <2>2. task'[k].runtime = 0
    BY <2>1 DEF NoTask
  <2>4. LiveIsYoung'
    <3> SUFFICES ASSUME NEW j \in Jobs, Live(j)', row'[j] \in Unfinished
                 PROVE  age'[j] <= task'[j].runtime
      BY DEF LiveIsYoung
    <3>0. age'[k] = 0
      BY <2>1
    <3>1. CASE j = k
      BY <2>2, <3>0, <3>1
    <3>2. CASE j # k
      BY <2>1, <3>2, <1>a DEF LiveIsYoung, Live
    <3> QED
      BY <3>1, <3>2
  <2>5. \A h \in Instances : k \notin sweep[h] /\ sweep[h] \subseteq Jobs
    BY <2>1, <1>a, <1>c DEF SweptExists
  <2>6. SweptExists' /\ RecoversOnlyDead'
    BY <2>1, <2>5, <1>a DEF SweptExists, RecoversOnlyDead, Live
  <2> QED
    BY <1>b, <2>4, <2>6 DEF RecoveryInv
<1>4. ASSUME NEW i \in Instances, NEW k \in Jobs, CancelAIJob(i, k) PROVE RecoveryInv'
  <2>0. \A j \in Jobs : age[j] \in Nat
    BY <1>c
  <2>1. task' = task /\ sweep' = sweep
    BY <1>4 DEF CancelAIJob
  <2>2. row' = [row EXCEPT ![k] = "failed"] /\ age' = [age EXCEPT ![k] = 0]
    BY <1>4 DEF CancelAIJob, Record, Result
  <2>3. NothingAgesOrRevives
    BY <1>g, <2>0, <2>1, <2>2, <1>c DEF NothingAgesOrRevives, Unfinished
  <2> QED
    BY <2>1, <2>3, <1>e
<1>5. ASSUME NEW i \in Instances, NEW k \in Jobs, AbortJob(i, k) PROVE RecoveryInv'
  <2>0. \A j \in Jobs : age[j] \in Nat
    BY <1>c
  <2>1. row' = row /\ age' = age /\ sweep' = sweep
    BY <1>5 DEF AbortJob, rowVars
  <2>2. task' = task \/ task' = [task EXCEPT ![k].cancelled = TRUE]
    BY <1>5 DEF AbortJob
  <2>3. \A j \in Jobs : task'[j].pc = task[j].pc /\ task'[j].runtime = task[j].runtime
    BY <2>2, <1>c DEF TaskStates
  <2>4. NothingAgesOrRevives
    BY <1>g, <2>0, <2>1, <2>3 DEF NothingAgesOrRevives
  <2> QED
    BY <2>1, <2>4, <1>e
<1>6. ASSUME NEW i \in Instances, ListStale(i) PROVE RecoveryInv'
  <2>1. row' = row /\ age' = age /\ task' = task /\ sweep' = [sweep EXCEPT ![i] = Stale]
    BY <1>6 DEF ListStale, rowVars
  <2>2. LiveIsYoung'
    BY <2>1, <1>a DEF LiveIsYoung, Live
  <2>3. \A h \in Instances : \A j \in sweep'[h] : j \in sweep[h] \/ j \in Stale
    BY <2>1, <1>c
  <2>4. \A j \in Stale : ~Live(j) /\ row[j] # "none"
    BY StaleIsDead
  <2>5. SweptExists' /\ RecoversOnlyDead'
    BY <2>1, <2>3, <2>4, <1>a DEF SweptExists, RecoversOnlyDead, Live
  <2> QED
    BY <1>b, <2>2, <2>5 DEF RecoveryInv
<1>7. ASSUME NEW i \in Instances, NEW k \in Jobs, RecoverJob(i, k) PROVE RecoveryInv'
  <2>0. \A j \in Jobs : age[j] \in Nat
    BY <1>c
  <2>1. task' = task /\ \A h \in Instances : sweep'[h] \subseteq sweep[h]
    BY <1>7, <1>c DEF RecoverJob
  <2>2. \A j \in Jobs : age'[j] <= age[j] /\ (row[j] # "none" => row'[j] # "none")
                            /\ (row'[j] \in Unfinished => row[j] \in Unfinished)
    <3>1. "failed" \in Terminal
      BY DEF Terminal
    <3>2. CASE UNCHANGED rowVars
      BY <3>2, <2>0 DEF rowVars
    <3> QED
      BY <1>7, <3>1, <3>2, <1>f DEF RecoverJob
  <2>3. NothingAgesOrRevives
    BY <1>g, <2>1, <2>2 DEF NothingAgesOrRevives
  <2> QED
    BY <2>1, <2>3, <1>e
<1>8. ASSUME NEW i \in Instances, CrashInstance(i) PROVE RecoveryInv'
  <2>0. \A j \in Jobs : age[j] \in Nat
    BY <1>c
  <2>1. row' = row /\ age' = age /\ \A h \in Instances : sweep'[h] \subseteq sweep[h]
    BY <1>8, <1>c DEF CrashInstance, rowVars
  <2>2. \A j \in Jobs : task'[j] = Gone \/ task'[j] = task[j]
    BY <1>8 DEF CrashInstance
  <2>3. \A j \in Jobs : task'[j].pc \notin {"none", "gone"} => task'[j] = task[j]
    BY <2>2 DEF Gone, NoTask
  <2>4. NothingAgesOrRevives
    BY <1>g, <2>0, <2>1, <2>3 DEF NothingAgesOrRevives
  <2> QED
    BY <2>1, <2>4, <1>e
<1>9. CASE Tick
  <2>1. row' = row /\ sweep' = sweep
    BY <1>9 DEF Tick
  <2>2. \A j \in Jobs : task'[j].pc = task[j].pc
    BY <1>9, <1>c DEF Tick, TaskStates
  <2>3. \A j \in Jobs : Live(j) => task[j].pc \in {"running", "finishing", "detached"}
    <3> SUFFICES ASSUME NEW j \in Jobs, Live(j)
                 PROVE  task[j].pc \in {"running", "finishing", "detached"}
      OBVIOUS
    <3>1. ~Prompt(j)
      BY <1>9 DEF Tick
    <3>2. task[j].pc # "waiting"
      BY <3>1, <1>a, WaitingFindsSlot DEF Prompt
    <3> QED
      BY <3>1, <3>2, <1>d DEF Prompt, Live, TaskStates
  <2>4. \A j \in Jobs : Live(j) => task'[j].runtime = task[j].runtime + 1
    BY <2>3, <1>9, <1>d DEF Tick, TaskStates
  <2>5. \A j \in Jobs : age[j] \in Nat /\ age'[j] \in Nat /\ age'[j] <= age[j] + 1 /\ task[j].runtime \in Nat
    BY <1>9, <1>c, <1>d DEF Tick, Older, TaskStates
  <2>6. LiveIsYoung'
    BY <2>1, <2>2, <2>4, <2>5, <1>a DEF LiveIsYoung, Live
  <2>7. SweptExists' /\ RecoversOnlyDead'
    BY <2>1, <2>2, <1>a, <1>c DEF SweptExists, RecoversOnlyDead, Live
  <2> QED
    BY <1>b, <2>6, <2>7 DEF RecoveryInv
<1> QED
  BY <1>1, <1>2, <1>3, <1>4, <1>5, <1>6, <1>7, <1>8, <1>9 DEF JobsNext, SweepStep

\* With a slot for every job the sweep fails only jobs whose goroutine is gone, for
\* any number of replicas and with every fault: the staleMargin is enough.  Without
\* that assumption it is not (DefaultMaxConcurrent is 4): a job that waits for a
\* slot longer than StaleAfter is failed while it is alive.
THEOREM RecoveryIsSafe == EnoughSlots => (JobsSpec => []RecoversOnlyDead)
<1> SUFFICES ASSUME EnoughSlots PROVE JobsSpec => []RecoversOnlyDead
  OBVIOUS
<1>1. RecoveryInv /\ [JobsNext]_jobVars => RecoveryInv'
  BY RecoveryStep
<1>2. RecoveryInv => RecoversOnlyDead
  BY DEF RecoveryInv
<1> QED
  BY <1>1, <1>2, RecoveryInit, PTL DEF JobsSpec
=============================================================================
