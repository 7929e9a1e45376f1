----------------------------- MODULE AtomicWork -----------------------------
(* What an audited request promises: all it writes becomes visible at one      *)
(* instant, worked out from what is stored at that instant; the side effects   *)
(* that go with the writes are performed afterwards, once each, and a crash is *)
(* all that can lose one; who is told that it worked finds all of it done.     *)
CONSTANTS
  Requests, Steps,
  By  \* the request of each step

VARIABLES
  stored,  \* steps whose writes and audit events are in the database
  basis,   \* per request, what was stored when its work took effect
  done,    \* requests whose work took effect
  owed,    \* stored steps whose side effect has not been performed
  sent,    \* side effects performed
  told     \* per request, the answer: "none", "ok" or "error"

vars == <<stored, basis, done, owed, sent, told>>

Init ==
  /\ stored = {} /\ done = {} /\ owed = {} /\ sent = {}
  /\ basis = [r \in Requests |-> {}]
  /\ told = [r \in Requests |-> "none"]

TakeEffect(r) ==
  /\ r \notin done /\ done' = done \cup {r}
  /\ told[r] = "none"
  /\ \E work \in SUBSET {s \in Steps: By[s] = r /\ s \notin stored}:
       stored' = stored \cup work /\ owed' = owed \cup work
  /\ basis' = [basis EXCEPT ![r] = stored]
  /\ UNCHANGED <<sent, told>>

Perform(s) ==
  /\ s \in owed /\ s \notin sent
  /\ owed' = owed \ {s} /\ sent' = sent \cup {s}
  /\ UNCHANGED <<stored, basis, done, told>>

\* The caller hears "ok" when its work is stored and the side effects are done.
Tell(r, answer) ==
  /\ told[r] = "none" /\ told' = [told EXCEPT ![r] = answer]
  /\ answer = "ok" => r \in done /\ \A s \in owed: By[s] # r
  /\ answer = "error" => r \notin done
  /\ UNCHANGED <<stored, basis, done, owed, sent>>

\* The callers that had no answer yet may lose it, and every side effect that is owed.
Crash ==
  /\ owed' = {}
  /\ \E open \in SUBSET {r \in Requests: told[r] = "none"}:
       told' = [r \in Requests |-> IF r \in open THEN "lost" ELSE told[r]]
  /\ UNCHANGED <<stored, basis, done, sent>>

Next ==
  \/ \E r \in Requests: TakeEffect(r) \/ \E answer \in {"ok", "error"}: Tell(r, answer)
  \/ \E s \in Steps: Perform(s)
  \/ Crash

Spec == Init /\ [][Next]_vars
=============================================================================
