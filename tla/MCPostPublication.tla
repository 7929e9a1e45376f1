------------------------- MODULE MCPostPublication -------------------------
(* Instances of PostPublication for TLC.                                   *)
EXTENDS PostPublication, TLC

Patch(d, t, c) == [draft |-> d, at |-> t, content |-> c, retarget |-> FALSE, targets |-> {}]

\* A composer save of the text, a reschedule, back to the review queue, out of
\* it with a date, publish now.
EditPatches == {Patch("keep", "keep", TRUE), Patch("keep", "future", FALSE),
                Patch("draft", "keep", FALSE), Patch("live", "future", FALSE),
                Patch("live", "now", FALSE)}

\* A reschedule that also names the target accounts again.
RetargetPatches == {[Patch("keep", "future", TRUE) EXCEPT !.retarget = TRUE, !.targets = S] :
                      S \in SUBSET Accounts \ {{}}}

\* Moving a post in the calendar.
Reschedules == {Patch("keep", "future", FALSE)}

TwoHosts == CHOOSE h \in [Workers -> Instances] : \A i \in Instances : \E w \in Workers : h[w] = i
OneHost == [w \in Workers |-> CHOOSE i \in Instances : TRUE]

Symmetry == Permutations(Posts) \cup Permutations(Accounts) \cup Permutations(Workers)
=============================================================================
