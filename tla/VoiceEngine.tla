---------------------------- MODULE VoiceEngine ----------------------------
(***************************************************************************)
(* The job workers of src/internal/ai that ask a language model for a post *)
(* and check what comes back: the voice engine (one text for the account   *)
(* with the largest limit, shorter variants for the others), the campaign  *)
(* autopilot and the single-question profile workers, over the OpenAI      *)
(* client that corrects the parameters a model rejects and the process     *)
(* wide memory of the token budget each model needs.                       *)
(*                                                                         *)
(* A text is its length; a hashtag adds Tag characters and a blank.  Token *)
(* budgets are counted in steps of tokenBudgetStep (1024).  One job is     *)
(* followed; the others that share the memory act through OtherJob.        *)
(***************************************************************************)
EXTENDS Integers, FiniteSets

CONSTANTS Accounts,        \* the connected accounts of the team
          MaxChars,        \* the limit each account's provider gives
          Lengths,         \* the lengths the model's texts may have
          Offers,          \* and those of the variants it adds
          HashtagCounts,   \* how many hashtags it proposes
          Tag,             \* the length of a hashtag
          Required         \* how many hashtags the campaign format requires

ASSUME VoiceAssumption ==
    /\ IsFiniteSet(Accounts)
    /\ MaxChars \in [Accounts -> Nat \ {0}]
    /\ Lengths \subseteq Nat /\ Offers \subseteq Nat /\ HashtagCounts \subseteq Nat
    /\ Tag \in Nat /\ Required \in Nat

VARIABLES work,      \* the job being run
          budgets    \* modelBudgets of one model: [start, truncs]
voiceVars == <<work, budgets>>

Least(m, n) == IF m < n THEN m ELSE n
Most(m, n)  == IF m > n THEN m ELSE n

defaultMaxTokens      == 2
maxTokenBudget        == 8
truncationsBeforeRaise == 3
maxHashtags           == 2

(* A text of its own is asked to be long; one that refines a draft, renders *)
(* a feed item or a recurring template ("grounded") is not.                *)
Drafting == {"plain", "grounded"}
Kinds    == Drafting \cup {"campaign", "profile"}
(* The parameters newer models reject: max_tokens and a temperature.       *)
Params   == {"tokens", "temperature"}

RetriesFor(kind) == IF kind \in Drafting THEN 3
                    ELSE IF kind = "campaign" THEN 2 ELSE 0

(***************************************************************************)
(* Limits.                                                                 *)
(***************************************************************************)
(* The account with the largest limit writes the text; ties go to the      *)
(* first one listed, which one it is makes no difference to a length.      *)
primaryAccount(chosen) ==
    CHOOSE a \in chosen : \A b \in chosen : MaxChars[b] <= MaxChars[a]

minPrimaryLength(limit, chosen) ==
    LET base  == Least(limit - 20, (limit * 85) \div 100)
        lower == {MaxChars[a] : a \in {b \in chosen : MaxChars[b] < limit}}
    IN  IF lower # {}
        THEN Most(base, 1 + (CHOOSE n \in lower : \A m \in lower : m <= n))
        ELSE Most(base, (limit * 70) \div 100)

(* What is left of a text cut at the last blank of the window before the   *)
(* limit: the longest and the shortest it may become.                      *)
truncateToLimit(len, limit) ==
    IF len <= limit THEN {len}
    ELSE {limit, Most(1, limit - Most(20, limit \div 6) + 1)}

Over(f, D) == [a \in D |-> f[a]]

(* One member of each set: the functions that choose from a family.        *)
Choices(family) ==
    {f \in [DOMAIN family -> UNION {family[a] : a \in DOMAIN family}] :
       \A a \in DOMAIN family : f[a] \in family[a]}

(* The results normalizeMultiAccountResult may give for a text of length   *)
(* len and the variants the model offered.                                 *)
normalizeMultiAccountResult(len, offered, chosen) ==
    LET main  == primaryAccount(chosen)
        limit == MaxChars[main]
        Kept(content) == {a \in (DOMAIN offered \cap chosen) \ {main} :
                            MaxChars[a] < limit /\ content > MaxChars[a] /\ offered[a] > 0}
        Cuts(content) == Choices([a \in Kept(content) |->
                                    truncateToLimit(offered[a], MaxChars[a])])
    IN  UNION {{[content |-> content,
                 variants |-> Over(f, {a \in DOMAIN f : f[a] < content})]
                  : f \in Cuts(content)}
                : content \in truncateToLimit(len, limit)}

FillNothing(result, chosen) == {result}
(* The last answer is completed with compressions of its own text.         *)
fillMissingOverrides(result, chosen) ==
    LET missing == {a \in chosen \ {primaryAccount(chosen)} :
                      result.content > MaxChars[a] /\ a \notin DOMAIN result.variants}
        Cuts    == Choices([a \in missing |-> truncateToLimit(result.content, MaxChars[a])])
    IN  {[result EXCEPT !.variants =
            [a \in DOMAIN result.variants \cup missing |->
               IF a \in missing THEN f[a] ELSE result.variants[a]]] : f \in Cuts}

(* validateLengths accepts: the text is long enough where a long one was   *)
(* asked for, and every account is served by it or by a fitting variant.   *)
validateLengths(result, kind, chosen) ==
    LET main  == primaryAccount(chosen)
        limit == MaxChars[main]
    IN  /\ kind = "plain" => result.content >= minPrimaryLength(limit, chosen)
        /\ result.content \in 1 .. limit
        /\ main \notin DOMAIN result.variants
        /\ \A a \in chosen \ {main} :
             IF result.content <= MaxChars[a] THEN a \notin DOMAIN result.variants
             ELSE /\ a \in DOMAIN result.variants
                  /\ result.variants[a] <= MaxChars[a]
                  /\ result.variants[a] < result.content

(* Each hashtag the text lacks is appended while the text stays within the *)
(* limit of the primary account; the first that does not fit ends it.      *)
mergeHashtagsIntoContent(content, tags, charLimit) ==
    LET fitting == {k \in 0 .. Least(tags, maxHashtags) : content + k * (Tag + 1) <= charLimit}
    IN  content + (CHOOSE k \in fitting : \A j \in fitting : j <= k) * (Tag + 1)

(* Required hashtags are appended first and the limit checked after it.    *)
validateCampaignResult(content, missing, charLimit) ==
    content > 0 /\ content + missing * (Tag + 1) <= charLimit

(***************************************************************************)
(* Token budgets.                                                          *)
(***************************************************************************)
escalateBudget(current) == Least(current * 2, maxTokenBudget)

starting(memory) == Most(memory.start, defaultMaxTokens)

learnTruncation(memory) ==
    IF memory.truncs + 1 < truncationsBeforeRaise
    THEN [memory EXCEPT !.truncs = @ + 1]
    ELSE [start  |-> Least(Most(memory.start, defaultMaxTokens) + 1, maxTokenBudget),
          truncs |-> 0]

(***************************************************************************)
(* The run of a job.                                                       *)
(***************************************************************************)
Nobody == [a \in {} |-> 0]
NoDraft == [phase |-> "idle", kind |-> "plain", chosen |-> {}, demands |-> {}, fixed |-> {},
         attempt |-> 0, try |-> 0, budget |-> 0, why |-> "",
         checked |-> 0, content |-> 0, variants |-> Nobody]

VoiceInit ==
    /\ work = NoDraft
    /\ budgets = [start |-> 0, truncs |-> 0]

(* prepareVoicePrompt: at least one account is selected.  demands are the  *)
(* parameters the configured model will reject; the client is built for    *)
(* the job and knows nothing of them.                                      *)
prepareVoicePrompt(kind, chosen, demands) ==
    /\ work.phase # "asking"
    /\ kind \in Drafting => chosen # {}
    /\ kind \notin Drafting => chosen = {}
    /\ work' = [NoDraft EXCEPT !.phase = "asking", !.kind = kind, !.chosen = chosen,
                            !.demands = demands,
                            !.budget = IF kind = "profile" THEN defaultMaxTokens
                                       ELSE starting(budgets)]
    /\ UNCHANGED budgets

Asking == work.phase = "asking"
Fail(why) == work' = [work EXCEPT !.phase = "failed", !.why = why]

(* Complete: a rejected parameter is corrected and the request sent again, *)
(* at most three times in all.                                             *)
applyCorrection(d) ==
    /\ Asking /\ d \in work.demands \ work.fixed
    /\ IF work.attempt < 2
       THEN work' = [work EXCEPT !.fixed = @ \cup {d}, !.attempt = @ + 1]
       ELSE Fail("parameter")
    /\ UNCHANGED budgets

Served == Asking /\ work.demands \subseteq work.fixed

(* The transport fails, the provider answers another error, or it refuses. *)
CallFails ==
    /\ Asking /\ Fail("llm") /\ UNCHANGED budgets

(* Truncation needs room, not another prompt.                              *)
Truncated ==
    /\ Served
    /\ IF work.try < RetriesFor(work.kind)
       THEN /\ budgets' = learnTruncation(budgets)
            /\ work' = [work EXCEPT !.try = @ + 1, !.attempt = 0,
                                    !.budget = escalateBudget(@)]
       ELSE Fail("truncated") /\ UNCHANGED budgets

(* The next request states the defect of this answer.                      *)
Revise(why) ==
    IF work.try < RetriesFor(work.kind)
    THEN work' = [work EXCEPT !.try = @ + 1, !.attempt = 0]
    ELSE Fail(why)

(* No JSON object, no content, or no title where one is required.          *)
Unusable ==
    /\ Served /\ Revise("unusable") /\ UNCHANGED budgets

Finish(checked, content, variants) ==
    work' = [work EXCEPT !.phase = "done", !.checked = checked, !.content = content,
                         !.variants = variants]

generateWithRetries(len, offered, tags) ==
    /\ Served /\ work.kind \in Drafting
    /\ \E normal \in normalizeMultiAccountResult(len, offered, work.chosen) :
       \E result \in IF work.try >= RetriesFor(work.kind)
                     THEN fillMissingOverrides(normal, work.chosen) ELSE {normal} :
         IF validateLengths(result, work.kind, work.chosen)
         THEN \E n \in normalizeMultiAccountResult(result.content, result.variants, work.chosen) :
                Finish(n.content,
                       mergeHashtagsIntoContent(n.content, tags,
                                                MaxChars[primaryAccount(work.chosen)]),
                       n.variants)
         ELSE Revise("lengths")
    /\ UNCHANGED budgets

(* The campaign's text is written for one platform's limit: the largest.   *)
runCampaignAutopilot(len, missing) ==
    /\ Served /\ work.kind = "campaign"
    /\ LET charLimit == MaxChars[primaryAccount(Accounts)]
       IN  IF validateCampaignResult(len, missing, charLimit)
           THEN Finish(len, len + missing * (Tag + 1), Nobody)
           ELSE Revise("lengths")
    /\ UNCHANGED budgets

(* Profile analysis, profile assistant and vibe preview ask once.          *)
runProfileAnalysis ==
    /\ Served /\ work.kind = "profile" /\ Finish(0, 0, Nobody) /\ UNCHANGED budgets

(* Another job of the same model is truncated.                             *)
OtherJob ==
    /\ budgets' = learnTruncation(budgets) /\ UNCHANGED work

Partial == UNION {[D -> Offers] : D \in SUBSET Accounts}

VoiceNext ==
    \/ \E kind \in Kinds, chosen \in SUBSET Accounts, demands \in SUBSET Params :
         prepareVoicePrompt(kind, chosen, demands)
    \/ \E d \in Params : applyCorrection(d)
    \/ CallFails \/ Truncated \/ Unusable \/ OtherJob
    \/ \E len \in Lengths \ {0}, offered \in Partial, tags \in HashtagCounts :
         generateWithRetries(len, offered, tags)
    \/ \E len \in Lengths, missing \in 0 .. Required : runCampaignAutopilot(len, missing)
    \/ runProfileAnalysis

VoiceSpec == VoiceInit /\ [][VoiceNext]_voiceVars

(***************************************************************************)
(* Properties.                                                             *)
(***************************************************************************)
(* The text a job was checked with fits each chosen account that has no    *)
(* variant (validateLengths), every variant its own account; of the text   *)
(* delivered, which has the hashtags appended after that check, it is only *)
(* said that it fits the primary account (mergeHashtagsIntoContent). A     *)
(* campaign's text holds its required hashtags and its platform's limit.   *)
(* What DraftsFit leaves open is DeliveredTextFits.  And the engine gives up *)
(* only where it has to: the last answer that holds a text is completed    *)
(* with compressions and fails for its length only where a long text was   *)
(* asked for, and no job is lost to a parameter the client can correct.    *)
DraftsFit ==
    /\ work.phase = "done" /\ work.kind \in Drafting =>
         LET main == primaryAccount(work.chosen)
         IN  /\ work.content <= MaxChars[main]
             /\ DOMAIN work.variants \subseteq work.chosen \ {main}
             /\ \A a \in work.chosen :
                  (IF a \in DOMAIN work.variants THEN work.variants[a] ELSE work.checked)
                    \in 1 .. MaxChars[a]
    /\ work.phase = "done" /\ work.kind = "campaign" =>
         work.content <= MaxChars[primaryAccount(Accounts)]
    /\ work.phase = "failed" /\ work.kind \in Drafting /\ work.why = "lengths" =>
         work.kind = "plain"
    /\ work.why # "parameter"
    /\ work.phase = "asking" => work.budget \in defaultMaxTokens .. maxTokenBudget

(* The text as delivered, hashtags included, fits every account that       *)
(* publishes it without a variant of its own.                              *)
DeliveredTextFits ==
    work.phase = "done" /\ work.kind \in Drafting =>
      \A a \in work.chosen \ DOMAIN work.variants : work.content <= MaxChars[a]
=============================================================================
