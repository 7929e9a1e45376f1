---------------------------- MODULE PostTemplates ----------------------------
(***************************************************************************)
(* One recurring template: its row, its skips and shifts, the posts and AI *)
(* jobs made from it, and what works on them: the polls of the scheduler   *)
(* (internal/scheduler/template_materialize.go), skip, shift and           *)
(* regenerate (template_skip.go, template_regenerate.go), the end of a job *)
(* (api/recurring_automation_callback.go) and the requests of editors.     *)
(*                                                                         *)
(* Time is a number of slots; a recurrence rule is the set of slots it     *)
(* names, in the order NextOccurrence gives.  A post is "open" while its   *)
(* status is draft, pending or failed, "taken" when it is processing or    *)
(* posted.                                                                 *)
(* Every change of a template is one transaction that holds the lock of    *)
(* its row (LockAutomationSource); it is computed on the record            *)
(*   [tmpl, posts, jobs]                                                   *)
(* of what the transaction reads and writes, and an error leaves all of it *)
(* as it was.                                                              *)
(***************************************************************************)
EXTENDS Naturals, FiniteSets, FiniteSetsExt

CONSTANTS
  MaxTime,       \* bound: the last slot
  Rules,         \* the recurrence rules: sets of slots
  Shifts,        \* the pairs <<slot, new slot>> an editor may ask for
  HorizonDays,   \* materialize_horizon_days, in slots
  TPollers,      \* goroutines that run materializePostTemplates
  Setups,        \* announcement_enabled and the roles the AI is asked for
  TOps,          \* the requests editors send
  MaxTOps        \* bound: how many of them

Slots   == 1..MaxTime
NoTime  == 0
Roles   == {"main", "announcement"}
Scopes  == {"none", "announcement", "occurrence"}

ASSUME TemplateAssumption ==
  /\ MaxTime \in Nat /\ MaxTime > 0 /\ HorizonDays \in Nat /\ MaxTOps \in Nat
  /\ Rules # {} /\ \A r \in Rules : r \subseteq Slots
  /\ Shifts \subseteq Slots \X Slots
  /\ Setups \subseteq [annOn: BOOLEAN, ai: SUBSET Roles]

VARIABLES
  tmpl,     \* the row of post_templates
  skips,    \* the rows of post_template_skips, by slot
  tposts,   \* the scheduled posts linked to the template
  tjobs,    \* its unfinished AI jobs
  walker,   \* the local state of a poll
  now,
  since,    \* history: the slot from which the cursor was last set by hand
  removed,  \* history: an editor took a post or job away, or a job made no post
  gaps,     \* history: another rule, or a horizon made again without its first jobs
  tops      \* history: requests so far

tmplVars == <<tmpl, skips, tposts, tjobs, walker, now, since, removed, gaps, tops>>

\* What a post or a job knows of the round (parseRecurringAutomationMeta).
Entries == [id: Nat, occ: Slots, role: Roles, ctr: Nat]

\* scanPostTemplate; the cursor is next_materialize_at, NoTime for null.
TemplateRows == [exists: BOOLEAN, enabled: BOOLEAN, rule: Rules, cursor: 0..MaxTime + 1,
                 counter: Nat \ {0}, annOn: BOOLEAN, annCounter: Nat \ {0}, ai: SUBSET Roles]

TemplateTypeOK ==
  /\ tmpl \in TemplateRows
  /\ skips \in [Slots -> [scope: Scopes, shift: Slots \cup {NoTime}]]
  /\ \A p \in tposts : /\ p.status \in {"open", "taken", "cancelled"}
                       /\ [id |-> p.id, occ |-> p.occ, role |-> p.role, ctr |-> p.ctr] \in Entries
  /\ tjobs \subseteq Entries
  /\ walker \in [TPollers -> [pc: {"idle", "read", "walk"}, occ: 0..MaxTime + 1,
                              until: Nat]]
  /\ now \in Slots /\ since \in Slots
  /\ removed \in BOOLEAN /\ gaps \in BOOLEAN
  /\ tops \in 0..MaxTOps
-----------------------------------------------------------------------------
(* The store.                                                              *)

\* NextOccurrence: the first slot of the rule after t; beyond the last slot there
\* is only the first one of the time not looked at.
NextOccurrence(rule, t) ==
  LET later == {u \in rule : u > t} IN IF later = {} THEN MaxTime + 1 ELSE Min(later)

FreshId(st) == Min({i \in 1..Cardinality(st.posts \cup st.jobs) + 1 :
                      \A e \in st.posts \cup st.jobs : e.id # i})

\* Mutant: a round that is still with the AI counts as not materialized.
HasPostOnly(st, occ, role) ==
  \E p \in st.posts : p.occ = occ /\ p.role = role /\ p.status # "cancelled"

\* HasPostTemplateRoleMaterialized.
Has(st, occ, role) ==
  \/ \E p \in st.posts : p.occ = occ /\ p.role = role /\ p.status # "cancelled"
  \/ \E j \in st.jobs : j.occ = occ /\ j.role = role

IsPostTemplateOccurrenceSkipped(sk, occ) == sk[occ].scope = "occurrence"
IsPostTemplateAnnouncementSkipped(sk, occ) == sk[occ].scope # "none"

\* AddPostTemplateSkip, AddPostTemplateAnnouncementSkip: an upsert that leaves
\* shift_to alone.
AddPostTemplateSkip(sk, occ) == [sk EXCEPT ![occ].scope = "occurrence"]
AddPostTemplateAnnouncementSkip(sk, occ) == [sk EXCEPT ![occ].scope = "announcement"]

\* ShiftPostTemplateOccurrence: a plain insert, an error when there is a row.
\* The row it writes counts as a skip of the slot.
CanShift(sk, occ) == sk[occ].scope = "none"
ShiftPostTemplateOccurrence(sk, occ, to) == [sk EXCEPT ![occ] = [scope |-> "occurrence", shift |-> to]]

\* ListPostTemplateLinkedPosts.
LinkedPosts(st) == {p \in st.posts : p.status # "cancelled"}

\* UpdatePostTemplate: a disabled template has no cursor; a rule, or enabling it
\* again, sets the cursor to the first slot after now, over rounds that are there
\* already; a rule does so even when it is the one the template has.
MovesCursor(t, op, enabled) == enabled /\ (op = "rule" \/ ~t.enabled)

UpdatePostTemplate(t, op, enabled, rule) ==
  [t EXCEPT !.enabled = enabled, !.rule = rule,
            !.cursor = IF ~enabled THEN NoTime
                       ELSE IF MovesCursor(t, op, enabled) THEN NextOccurrence(rule, now)
                       ELSE @]

DeletePostTemplateLinkedPosts(st, ps) == [st EXCEPT !.posts = @ \ ps]

SetPostTemplateMaterializationState(st, occ, main, ann) ==
  [st EXCEPT !.tmpl.cursor = occ, !.tmpl.counter = main, !.tmpl.annCounter = ann]

AdvancePostTemplateAnnouncementCounter(st, counter) == [st EXCEPT !.tmpl.annCounter = counter]

\* GetPostTemplateShiftTo.
ShiftTo(sk, occ) == sk[occ].shift

AdvancePostTemplateSchedule(st, next, counter) ==
  [st EXCEPT !.tmpl.cursor = next, !.tmpl.counter = counter]
-----------------------------------------------------------------------------
(* Making the posts of a round.                                            *)

\* createAutomationPost, under the lock it shares with the transaction around it:
\* nothing when the role has its post already.
createAutomationPost(st, occ, role, ctr) ==
  IF Has(st, occ, role) THEN st
  ELSE [st EXCEPT !.posts = @ \cup {[id |-> FreshId(st), occ |-> occ, role |-> role,
                                     ctr |-> ctr, status |-> "open"]}]

submitRecurringAIJob(st, occ, role, ctr) ==
  [st EXCEPT !.jobs = @ \cup {[id |-> FreshId(st), occ |-> occ, role |-> role, ctr |-> ctr]}]

\* createScheduledPostFromTemplate(Once): a job where the AI is asked and answers,
\* otherwise the post itself.  (The time of the post is not that of the round when
\* the round is shifted; here only the round matters.)
createScheduledPostFromTemplate(st, occ, ctr, ai) ==
  IF Has(st, occ, "main") THEN st
  ELSE IF "main" \in ai THEN submitRecurringAIJob(st, occ, "main", ctr)
  ELSE createAutomationPost(st, occ, "main", ctr)

materializeAnnouncement(st, sk, occ, annCtr, advance, ai) ==
  IF ~st.tmpl.annOn \/ IsPostTemplateAnnouncementSkipped(sk, occ) \/ Has(st, occ, "announcement")
  THEN st
  ELSE LET made == IF "announcement" \in ai
                   THEN submitRecurringAIJob(st, occ, "announcement", annCtr)
                   ELSE createAutomationPost(st, occ, "announcement", annCtr)
       IN  IF advance THEN AdvancePostTemplateAnnouncementCounter(made, annCtr + 1) ELSE made

\* materializeTemplateOccurrenceOnce: a skipped slot is stepped over; the round of
\* a shifted one is made at its new slot; a round that is there already does not
\* move the counters.
Once(st, sk, slot, ai) ==
  LET t      == st.tmpl
      next   == NextOccurrence(t.rule, slot)
      occ    == IF IsPostTemplateOccurrenceSkipped(sk, slot) /\ ShiftTo(sk, slot) # NoTime
                THEN ShiftTo(sk, slot) ELSE slot
      exists == Has(st, occ, "main")
      made   == createScheduledPostFromTemplate(st, occ, t.counter, ai)
      adv    == AdvancePostTemplateSchedule(made, next, IF exists THEN t.counter ELSE t.counter + 1)
  IN  IF IsPostTemplateOccurrenceSkipped(sk, slot) /\ ShiftTo(sk, slot) = NoTime
      THEN AdvancePostTemplateSchedule(st, next, t.counter)
      ELSE materializeAnnouncement(adv, sk, occ, t.annCounter, ~exists, ai)

\* materializeTemplateHorizon inside a transaction: from the cursor to the horizon.
\* (The code stops after 64 rounds.)
Horizon(st, sk, until, ai) ==
  LET w[n \in 0..MaxTime] ==
        IF n = 0 THEN st
        ELSE IF w[n-1].tmpl.cursor \in 1..Min({until, MaxTime})
             THEN Once(w[n-1], sk, w[n-1].tmpl.cursor, ai) ELSE w[n-1]
  IN  w[MaxTime]

maybeShiftOccurrence(sk, occ) == IF ShiftTo(sk, occ) # NoTime THEN ShiftTo(sk, occ) ELSE occ

\* rematerializeOccurrence: the main post belongs to the slot, the announcement to
\* the slot the round is shifted to.
Rematerialize(st, sk, occ, main, ann, ai) ==
  LET at   == maybeShiftOccurrence(sk, occ)
      made == createScheduledPostFromTemplate(st, occ, main, ai)
  IN  materializeAnnouncement(made, sk, at, ann, FALSE, ai)
-----------------------------------------------------------------------------
(* Skip, shift and regenerate: functions of the record.                    *)

AtOrAfter(ps, occ) == {p \in ps : p.occ >= occ}
Blocked(ps)        == {p \in ps : p.status = "taken"}
Regenerable(ps)    == {p \in ps : p.status = "open"}

\* countersForOccurrence: a role without a post has number 1.  (Two posts of a role
\* would leave the choice to their order; OneLivePerRole.)
CounterOf(ps, occ, role) ==
  LET mine == {p \in ps : p.occ = occ /\ p.role = role}
  IN  IF mine = {} THEN 1 ELSE Max({p.ctr : p \in mine})

HasCounters(ps, occ) == \E p \in ps : p.occ = occ

cancelPendingRecurringAIJobs(st, js) == [st EXCEPT !.jobs = @ \ js]

Record == [tmpl |-> tmpl, posts |-> tposts, jobs |-> tjobs]

Apply(st) == tmpl' = st.tmpl /\ tposts' = st.posts /\ tjobs' = st.jobs

\* Mutant: only the round itself is torn down, the later ones keep their numbers.
TearDownOne(st, sk, occ, scope, ai) ==
  LET del == DeletePostTemplateLinkedPosts(st, {p \in Regenerable(scope) : p.occ = occ})
      set == SetPostTemplateMaterializationState(del, occ, CounterOf(scope, occ, "main"),
                                                 CounterOf(scope, occ, "announcement"))
  IN  Horizon(set, sk, now + HorizonDays, ai)

\* Mutant: the rounds are made again before the skip is recorded.
TearDownFirst(st, sk, occ, scope, ai) ==
  LET can == cancelPendingRecurringAIJobs(st, AtOrAfter(st.jobs, occ))
      del == DeletePostTemplateLinkedPosts(can, Regenerable(scope))
      set == SetPostTemplateMaterializationState(del, occ, st.tmpl.counter, st.tmpl.annCounter)
  IN  Horizon(set, skips, now + HorizonDays, ai)

\* skipPostTemplateOccurrence with posts to tear down: every round from occ on goes,
\* and is made again with the numbers from that of occ on.
TearDown(st, sk, occ, scope, ai) ==
  LET main == IF HasCounters(scope, occ) THEN CounterOf(scope, occ, "main") ELSE st.tmpl.counter
      ann  == IF HasCounters(scope, occ) THEN CounterOf(scope, occ, "announcement")
              ELSE st.tmpl.annCounter
      can  == cancelPendingRecurringAIJobs(st, AtOrAfter(st.jobs, occ))
      del  == DeletePostTemplateLinkedPosts(can, Regenerable(scope))
      set  == SetPostTemplateMaterializationState(del, occ, main, ann)
  IN  Horizon(set, sk, now + HorizonDays, ai)

\* ... without any: only the jobs of the very slot are cancelled, and a shifted
\* round is made at its new time with the numbers of its jobs.
PendingHere(st, occ) == {j \in st.jobs : j.occ = occ}

CountersKnown(st, occ) ==
  /\ \E j \in PendingHere(st, occ) : j.role = "main"
  /\ st.tmpl.annOn => \E j \in PendingHere(st, occ) : j.role = "announcement"

SkipPending(st, sk, occ, shifted, ai) ==
  LET can == cancelPendingRecurringAIJobs(st, PendingHere(st, occ))
  IN  IF PendingHere(st, occ) = {} \/ ~shifted THEN can
      ELSE Rematerialize(can, sk, occ, CounterOf(st.jobs, occ, "main"),
                         CounterOf(st.jobs, occ, "announcement"), ai)
-----------------------------------------------------------------------------
(* The requests of editors.  Each is one transaction.                      *)

\* shouldEnhanceRecurringWithAI, shouldEnhanceRecurringAnnouncementWithAI: the roles
\* the template asks the AI for; a job that cannot be submitted leaves the post to
\* the template's own text.
Dispatched == {tmpl.ai, {}}

Request(op) == op \in TOps /\ tops < MaxTOps /\ tops' = tops + 1

\* handleSkipPostTemplateOccurrence, SkipPostTemplateOccurrence.
SkipOccurrence(occ, ai) ==
  LET scope == AtOrAfter(LinkedPosts(Record), occ)
      sk    == AddPostTemplateSkip(skips, occ)
  IN  /\ Request("skip")
      /\ tmpl.exists /\ ~IsPostTemplateOccurrenceSkipped(skips, occ) /\ Blocked(scope) = {}
      /\ skips' = sk
      /\ Apply(IF Regenerable(scope) = {} THEN SkipPending(Record, sk, occ, FALSE, ai)
               ELSE TearDown(Record, sk, occ, scope, ai))
      /\ removed' = (removed \/ (Regenerable(scope) = {} /\ PendingHere(Record, occ) # {}))
      /\ UNCHANGED <<walker, now, since, gaps>>

ShiftOccurrence(occ, to, ai) ==
  LET scope == AtOrAfter(LinkedPosts(Record), occ)
      sk    == ShiftPostTemplateOccurrence(skips, occ, to)
  IN  /\ Request("shift")
      /\ tmpl.exists /\ CanShift(skips, occ) /\ Blocked(scope) = {}
      /\ Regenerable(scope) = {} /\ PendingHere(Record, occ) # {} => CountersKnown(Record, occ)
      /\ skips' = sk
      /\ Apply(IF Regenerable(scope) = {} THEN SkipPending(Record, sk, occ, TRUE, ai)
               ELSE TearDown(Record, sk, occ, scope, ai))
      /\ UNCHANGED <<walker, now, since, removed, gaps>>

\* regeneratePostTemplateOccurrence.
RegenerateOccurrence(occ, ai) ==
  LET scope == {p \in LinkedPosts(Record) : p.occ = occ}
      can   == cancelPendingRecurringAIJobs(Record, PendingHere(Record, occ))
      del   == DeletePostTemplateLinkedPosts(can, Regenerable(scope))
  IN  /\ Request("regenerate")
      /\ tmpl.exists /\ Blocked(scope) = {} /\ Regenerable(scope) # {}
      /\ Apply(Rematerialize(del, skips, occ, CounterOf(scope, occ, "main"),
                             CounterOf(scope, occ, "announcement"), ai))
      /\ UNCHANGED <<skips, walker, now, since, removed, gaps>>

\* Mutant: the walk starts again at the last of the rounds.
RegenerateFromLast(ai) ==
  LET until == IF HorizonDays = 0 THEN MaxTime ELSE now + HorizonDays
      scope == {p \in LinkedPosts(Record) : p.occ \in now..until}
      first == Max({p.occ : p \in Regenerable(scope)})
      can   == cancelPendingRecurringAIJobs(Record, tjobs)
      del   == DeletePostTemplateLinkedPosts(can, Regenerable(scope))
      set   == SetPostTemplateMaterializationState(del, first, CounterOf(scope, first, "main"),
                                                   CounterOf(scope, first, "announcement"))
  IN  /\ Request("horizon")
      /\ tmpl.exists /\ Blocked(scope) = {} /\ Regenerable(scope) # {}
      /\ Apply(Horizon(set, skips, now + HorizonDays, ai))
      /\ UNCHANGED <<skips, walker, now, since, removed, gaps>>

\* regeneratePostTemplateHorizon: the rounds from now to the horizon (a year without
\* one), made again from the earliest.
RegenerateHorizon(ai) ==
  LET until == IF HorizonDays = 0 THEN MaxTime ELSE now + HorizonDays
      scope == {p \in LinkedPosts(Record) : p.occ \in now..until}
      first == Min({p.occ : p \in Regenerable(scope)})
      can   == cancelPendingRecurringAIJobs(Record, tjobs)
      del   == DeletePostTemplateLinkedPosts(can, Regenerable(scope))
      set   == SetPostTemplateMaterializationState(del, first, CounterOf(scope, first, "main"),
                                                   CounterOf(scope, first, "announcement"))
  IN  /\ Request("horizon")
      /\ tmpl.exists /\ Blocked(scope) = {} /\ Regenerable(scope) # {}
      /\ Apply(Horizon(set, skips, now + HorizonDays, ai))
      /\ gaps' = (gaps \/ \E j \in tjobs : j.occ < first)
      /\ UNCHANGED <<skips, walker, now, since, removed>>

\* handleUpdatePostTemplate, with what the request says of enabled and of the rule.
\* The handler's other fields do not touch the cursor.
EditTemplate(op, enabled, rule) ==
  /\ Request(op)
  /\ tmpl.exists
  /\ tmpl' = UpdatePostTemplate(tmpl, op, enabled, rule)
  /\ since' = IF MovesCursor(tmpl, op, enabled) THEN now ELSE since
  /\ gaps' = (gaps \/ rule # tmpl.rule)
  /\ UNCHANGED <<skips, tposts, tjobs, walker, now, removed>>

\* handleDeletePostTemplate: the skips go with the row, posts and jobs stay.
DeleteTemplate ==
  /\ Request("drop")
  /\ tmpl.exists
  /\ tmpl' = [tmpl EXCEPT !.exists = FALSE]
  /\ skips' = [t \in Slots |-> [scope |-> "none", shift |-> NoTime]]
  /\ UNCHANGED <<tposts, tjobs, walker, now, since, removed, gaps>>

\* skipRecurringOccurrenceForDeletedPost: in full for a main post, for the
\* announcement otherwise.
SkipForDeletedPost(p) ==
  IF p.role = "announcement" THEN AddPostTemplateAnnouncementSkip(skips, p.occ)
  ELSE AddPostTemplateSkip(skips, p.occ)

\* handleDeletePost: the slot of a deleted post is recorded as skipped.
DeleteTemplatePost(p) ==
  /\ Request("delete")
  /\ tposts' = tposts \ {p}
  /\ skips' = IF tmpl.exists THEN SkipForDeletedPost(p) ELSE skips
  /\ removed' = TRUE
  /\ UNCHANGED <<tmpl, tjobs, walker, now, since, gaps>>

\* handleCancelPost leaves no skip.
CancelTemplatePost(p) ==
  /\ Request("cancel")
  /\ p.status # "cancelled"
  /\ tposts' = (tposts \ {p}) \cup {[p EXCEPT !.status = "cancelled"]}
  /\ removed' = TRUE
  /\ UNCHANGED <<tmpl, skips, tjobs, walker, now, since, gaps>>
-----------------------------------------------------------------------------
(* The polls.                                                              *)

ListEnabledPostTemplates == tmpl.exists /\ tmpl.enabled /\ tmpl.cursor # NoTime

\* materializePostTemplates: the horizon is that of the start of the poll.
ListTemplates(w) ==
  /\ walker[w].pc = "idle"
  /\ ListEnabledPostTemplates
  /\ tmpl.cursor <= now + HorizonDays /\ tmpl.cursor <= MaxTime
  /\ walker' = [walker EXCEPT ![w] = [pc |-> "walk", occ |-> tmpl.cursor,
                                      until |-> now + HorizonDays]]
  /\ UNCHANGED <<tmpl, skips, tposts, tjobs, now, since, removed, gaps, tops>>

\* materializeTemplateOccurrence: one transaction; a cursor that moved since it was
\* read, or a template that is gone, ends the poll.
WalkOccurrence(w, ai) ==
  /\ walker[w].pc = "walk"
  /\ IF tmpl.exists /\ tmpl.cursor = walker[w].occ
     THEN Apply(Once(Record, skips, walker[w].occ, ai)) /\ walker' = [walker EXCEPT ![w].pc = "read"]
     ELSE UNCHANGED <<tmpl, tposts, tjobs>> /\ walker' = [walker EXCEPT ![w].pc = "idle"]
  /\ UNCHANGED <<skips, now, since, removed, gaps, tops>>

\* materializeTemplateHorizon: the row is read again for the next round.
WalkOn(w) ==
  /\ walker[w].pc = "read"
  /\ walker' = [walker EXCEPT ![w] =
       IF tmpl.exists /\ tmpl.cursor \in 1..Min({MaxTime, @.until})
       THEN [@ EXCEPT !.pc = "walk", !.occ = tmpl.cursor]
       ELSE [@ EXCEPT !.pc = "idle"]]
  /\ UNCHANGED <<tmpl, skips, tposts, tjobs, now, since, removed, gaps, tops>>

\* A transaction fails, or the process stops: the next poll goes on from the row.
WalkFails(w) ==
  /\ walker[w].pc # "idle"
  /\ Request("fault")
  /\ walker' = [walker EXCEPT ![w].pc = "idle"]
  /\ UNCHANGED <<tmpl, skips, tposts, tjobs, now, since, removed, gaps>>
-----------------------------------------------------------------------------
(* Jobs, publication and time.                                             *)

\* createRecurringAutomationPost: round, role and number are those of the job.
PostOfJob(j) == [id |-> j.id, occ |-> j.occ, role |-> j.role, ctr |-> j.ctr, status |-> "open"]

\* finishRecurringAutomationFromAI: the post of the generated text or, failing that,
\* of the template's ...
CompleteTemplateJob(j) ==
  /\ tmpl.exists
  /\ tjobs' = tjobs \ {j}
  /\ tposts' = tposts \cup {PostOfJob(j)}
  /\ UNCHANGED <<tmpl, skips, walker, now, since, removed, gaps, tops>>

\* ... or none, when the template is gone, its media are, or its own text is not
\* valid; or when an editor cancels the job.
LoseTemplateJob(j) ==
  /\ tops < MaxTOps /\ tops' = tops + 1
  /\ tjobs' = tjobs \ {j}
  /\ removed' = TRUE
  /\ UNCHANGED <<tmpl, skips, tposts, walker, now, since, gaps>>

\* PostPublication: a post is taken to be published, and may fail.  An editor may
\* move a post, so this does not wait for the slot.
PublishTemplatePost(p) ==
  /\ p.status \in {"open", "taken"}
  /\ tposts' = (tposts \ {p}) \cup
                {[p EXCEPT !.status = IF p.status = "open" THEN "taken" ELSE "open"]}
  /\ UNCHANGED <<tmpl, skips, tjobs, walker, now, since, removed, gaps, tops>>

TimePasses ==
  /\ now < MaxTime
  /\ now' = now + 1
  /\ UNCHANGED <<tmpl, skips, tposts, tjobs, walker, since, removed, gaps, tops>>
-----------------------------------------------------------------------------
\* CreatePostTemplate: counters start at 1, the cursor at the first slot after now.
TemplateInit ==
  /\ \E r \in Rules : \E s \in Setups :
       tmpl = [exists |-> TRUE, enabled |-> TRUE, rule |-> r, cursor |-> NextOccurrence(r, 1),
               counter |-> 1, annOn |-> s.annOn, annCounter |-> 1, ai |-> s.ai]
  /\ skips = [t \in Slots |-> [scope |-> "none", shift |-> NoTime]]
  /\ tposts = {} /\ tjobs = {}
  /\ walker = [w \in TPollers |-> [pc |-> "idle", occ |-> NoTime, until |-> 0]]
  /\ now = 1 /\ since = 1
  /\ removed = FALSE /\ gaps = FALSE
  /\ tops = 0

TemplateRequest ==
  \E ai \in Dispatched :
    \/ \E occ \in Slots : occ \in tmpl.rule /\ (SkipOccurrence(occ, ai) \/ RegenerateOccurrence(occ, ai))
    \/ \E s \in Shifts : s[1] \in tmpl.rule /\ ShiftOccurrence(s[1], s[2], ai)
    \/ RegenerateHorizon(ai)

TemplateEdit ==
  \/ EditTemplate("disable", FALSE, tmpl.rule)
  \/ EditTemplate("enable", TRUE, tmpl.rule)
  \/ \E r \in Rules : EditTemplate("rule", tmpl.enabled, r)
  \/ DeleteTemplate
  \/ \E p \in tposts : DeleteTemplatePost(p) \/ CancelTemplatePost(p)

Walk(w) == ListTemplates(w) \/ WalkOn(w) \/ \E ai \in Dispatched : WalkOccurrence(w, ai)

TemplateNext ==
  \/ TemplateRequest \/ TemplateEdit
  \/ \E w \in TPollers : Walk(w) \/ WalkFails(w)
  \/ \E j \in tjobs : CompleteTemplateJob(j) \/ LoseTemplateJob(j)
  \/ \E p \in tposts : PublishTemplatePost(p)
  \/ TimePasses

TemplateSpec == TemplateInit /\ [][TemplateNext]_tmplVars
-----------------------------------------------------------------------------
(* Properties.                                                             *)

\* A round has at most one post or unfinished job of each role, whatever polls,
\* requests and jobs do to it at once (HasPostTemplateRoleMaterialized under the
\* lock of the source).
OneLivePerRole ==
  \A e, f \in LinkedPosts(Record) \cup tjobs : e.occ = f.occ /\ e.role = f.role => e = f

Editions == {e \in LinkedPosts(Record) \cup tjobs : e.role = "main"}

\* countersForOccurrence reads the number of a round from its posts: with the AI, which
\* is late with them, numbers are kept without announcements and shifts only.
PostsTellNumbers ==
  "main" \in tmpl.ai => ~tmpl.annOn /\ \A t \in Slots : skips[t].shift = NoTime

\* No editor removed a post by hand or gave the template another rule, and no job was
\* lost: after that a cursor set back finds rounds of before that were not made, and
\* numbers them behind later ones.
Undisturbed == ~removed /\ ~gaps /\ tmpl.exists /\ PostsTellNumbers

\* No two main posts or jobs of a template that is undisturbed have the same edition
\* number, and counter_next is above all of them: skipping, shifting and regenerating
\* rounds tears numbers down and hands them on, never twice.
EditionsKept ==
  Undisturbed =>
    /\ \A e, f \in Editions : e.ctr = f.ctr => e = f
    /\ \A e \in Editions : e.ctr < tmpl.counter

\* A slot that is skipped and not shifted has no main post left to publish and no job
\* that would make one, unless an editor removed a post by hand.
SkipHolds ==
  ~removed =>
    \A occ \in Slots :
      skips[occ].scope = "occurrence" /\ skips[occ].shift = NoTime =>
        \A e \in Regenerable(tposts) \cup tjobs : e.occ = occ => e.role # "main"

\* No round of such a template is passed over: what the cursor has walked by since it
\* was last set is skipped, or has its main post or job, at its own slot or the one it
\* was shifted to; an interrupted poll or one that lost the race leaves no hole.
RoundsAccounted ==
  Undisturbed /\ tmpl.enabled =>
    \A occ \in tmpl.rule :
      since < occ /\ occ < tmpl.cursor =>
        \/ skips[occ].scope = "occurrence" /\ skips[occ].shift = NoTime
        \/ Has(Record, occ, "main")
        \/ skips[occ].shift # NoTime /\ Has(Record, skips[occ].shift, "main")
=============================================================================
