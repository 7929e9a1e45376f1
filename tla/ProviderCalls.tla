---------------------------- MODULE ProviderCalls ----------------------------
(* One call of a provider adapter: the HTTP exchanges it makes, the retries  *)
(* after 429, the polling of an upload and what the caller is told.  A call   *)
(* is a script of steps; a step is one request, sent up to retries + 1 times. *)
(* The body of a JSON request is one reader that the first attempt consumes,  *)
(* so every retry is sent without it.                                         *)
EXTENDS Naturals, Sequences

CONSTANTS MaxRetries,          \* DefaultRetryPolicy.MaxRetries
          MinBackoff, MaxBackoff,
          RetryAfters,         \* values of the header Retry-After
          PollLimit            \* polls of an upload before the deadline

ASSUME RetryAssumption == MaxRetries \in Nat /\ PollLimit \in Nat \ {0}

VARIABLES call,     \* the call in progress
          remote    \* what the provider holds: statuses made by the call, the upload

callVars == <<call, remote>>

-----------------------------------------------------------------------------
(* The scripts.  needed: a failure of the step fails the call; final: a       *)
(* success of the step ends it.                                               *)

Request(name, body, retries) ==
  [name |-> name, body |-> body, retries |-> retries, needed |-> TRUE, final |-> FALSE]

doJSONRequest(name, body) == Request(name, body, MaxRetries)

\* A request of its own: the form posts of OAuth, uploads, pictures.
PlainRequest(name, body) == Request(name, body, 0)

Try(step) == [step EXCEPT !.needed = FALSE]
TryLast(step) == [step EXCEPT !.needed = FALSE, !.final = TRUE]

createSession == doJSONRequest("session", TRUE)

\* An app password is exchanged for a session by every call.
blueskyAccessToken(auth) == IF auth = "password" THEN <<createSession>> ELSE <<>>

fetchBlueskyActorAvatar == TryLast(PlainRequest("avatar", FALSE))

fetchMastodonCompatibleAvatar == Try(PlainRequest("avatar", FALSE))

blueskyFetchPostCounts(name) == doJSONRequest(name, FALSE)

\* The account's server first, the public view when it does not answer.
BlueskyMetrics(auth) ==
  blueskyAccessToken(auth) \o <<TryLast(blueskyFetchPostCounts("counts")), blueskyFetchPostCounts("public")>>

BlueskyAccountMetrics(auth) == blueskyAccessToken(auth) \o <<doJSONRequest("profile", FALSE)>>

BlueskyConnect(auth) ==
  (IF auth = "password" THEN <<createSession>> ELSE <<doJSONRequest("verify", FALSE)>>)
    \o <<fetchBlueskyActorAvatar, fetchBlueskyActorAvatar>>

BlueskyUpload(auth) == blueskyAccessToken(auth) \o <<PlainRequest("blob", TRUE)>>

BlueskyPublish(auth) == blueskyAccessToken(auth) \o <<doJSONRequest("status", TRUE)>>

BlueskyAuthorPosts(auth) == blueskyAccessToken(auth) \o <<doJSONRequest("feed", FALSE)>>

MastodonPublish == <<doJSONRequest("status", TRUE)>>

FriendicaPublish == <<doJSONRequest("status", TRUE)>>

FriendicaConnect == <<fetchMastodonCompatibleAvatar>>

FriendicaAccountMetrics == <<doJSONRequest("profile", FALSE)>>

\* A file that is already processed is ready at once; any other is polled.
uploadMastodonV2Media == <<PlainRequest("upload", TRUE), PlainRequest("poll", FALSE)>>

connectAccountWithToken == doJSONRequest("verify", FALSE)

MastodonConnect == <<connectAccountWithToken>>

ConnectAccountOAuthCallback == <<PlainRequest("token", TRUE), connectAccountWithToken>>

RefreshAccessToken == <<PlainRequest("token", TRUE)>>

RevokeAccessToken == <<PlainRequest("revoke", TRUE)>>

MastodonAccountMetrics == <<doJSONRequest("profile", FALSE)>>

\* The replies are counted a second time in the thread, when it can be read.
fetchMastodonCompatibleMetrics == <<doJSONRequest("counts", FALSE), Try(doJSONRequest("context", FALSE))>>

MastodonAuthorPosts == <<doJSONRequest("feed", FALSE)>>

registerApplication == doJSONRequest("app", TRUE)

\* Without metadata the usual endpoints are assumed.
discoverMastodonOAuthMetadata == Try(doJSONRequest("discover", FALSE))

\* A client that is registered by hand is not registered again.
PrepareMastodonInstance(registered) ==
  (IF registered THEN <<>> ELSE <<registerApplication>>) \o <<discoverMastodonOAuthMetadata>>

\* The thread below a post is read with an empty retry policy.
fetchMastodonCompatibleThread == <<Request("thread", FALSE, 0)>>

\* Every call of an adapter that sends a request, by name.
Scripts ==
  [ publishMastodon |-> MastodonPublish, publishFriendica |-> FriendicaPublish,
    publishBluesky |-> BlueskyPublish("password"), publishBlueskyToken |-> BlueskyPublish("token"),
    uploadMastodon |-> uploadMastodonV2Media, uploadBluesky |-> BlueskyUpload("password"),
    connectMastodon |-> MastodonConnect, connectFriendica |-> FriendicaConnect,
    connectBluesky |-> BlueskyConnect("password"), connectBlueskyToken |-> BlueskyConnect("token"),
    oauthConnect |-> ConnectAccountOAuthCallback, refresh |-> RefreshAccessToken,
    revoke |-> RevokeAccessToken, metricsMastodon |-> fetchMastodonCompatibleMetrics,
    metricsBluesky |-> BlueskyMetrics("token"), followersMastodon |-> MastodonAccountMetrics,
    followersFriendica |-> FriendicaAccountMetrics,
    followersBluesky |-> BlueskyAccountMetrics("password"),
    feedMastodon |-> MastodonAuthorPosts, feedBluesky |-> BlueskyAuthorPosts("password"),
    prepare |-> PrepareMastodonInstance(FALSE), prepareKnown |-> PrepareMastodonInstance(TRUE),
    thread |-> fetchMastodonCompatibleThread ]

-----------------------------------------------------------------------------
(* The provider.                                                             *)

\* What can come back.  bad: a 2xx whose body cannot be used; lost: no answer in time.
Answers == {"ok", "bad", "429", "408", "4xx", "5xx", "lost"}

\* A request that needs a body and has none is never carried out; the answer to a
\* revocation is not read.
AnswersTo(step, body) ==
  Answers \ (IF step.body /\ body = "spent" THEN {"ok", "bad"}
             ELSE IF step.name = "revoke" THEN {"bad"} ELSE {})

\* The provider may have done what it was asked although the answer does not say so.
MayHaveActed(step, body, answer) ==
  /\ ~(step.body /\ body = "spent")
  /\ answer \in {"ok", "bad", "408", "5xx", "lost"}

MustHaveActed(answer) == answer \in {"ok", "bad"}

Effects(step, body, answer) ==
  LET acted == CASE step.name = "status" -> {[remote EXCEPT !.statuses = @ + 1]}
                 [] step.name = "upload" -> {[remote EXCEPT !.media = m] : m \in {"processing", "ready"}}
                 [] OTHER -> {remote}
  IN (IF MayHaveActed(step, body, answer) THEN acted ELSE {})
       \cup (IF MustHaveActed(answer) THEN {} ELSE {remote})

-----------------------------------------------------------------------------
(* The adapter.                                                              *)

CallsInit ==
  /\ call = [op |-> "none", script |-> <<>>, left |-> 0, body |-> "full", wait |-> MinBackoff,
             polls |-> 0, out |-> "idle"]
  /\ remote = [statuses |-> 0, media |-> "none"]

\* The call moves on to the next step, or answers ok when there is none.
Onwards(script) ==
  IF script = <<>> THEN [call EXCEPT !.script = <<>>, !.out = "ok"]
  ELSE [call EXCEPT !.script = script, !.left = Head(script).retries, !.body = "full",
                    !.wait = MinBackoff]

Begin(op) ==
  /\ call.out = "idle"
  /\ call' = [call EXCEPT !.op = op, !.script = Scripts[op], !.out = "running",
                          !.left = Head(Scripts[op]).retries]
  /\ UNCHANGED remote

\* What a status code of 400 and above is for the caller of Publish.  A plausible slip:
\* every 4xx is a refusal.
AnyClientError(answer) == IF answer \in {"429", "408", "4xx"} THEN "rejected" ELSE "error"

\* publicationHTTPError: 408 and 5xx may have been carried out.
publicationHTTPError(answer) == IF answer \in {"429", "4xx"} THEN "rejected" ELSE "error"

StepFailed(step, answer) ==
  IF step.needed
  THEN [call EXCEPT !.script = <<>>,
                    !.out = IF step.name = "status" THEN publicationHTTPError(answer) ELSE "error"]
  ELSE Onwards(Tail(call.script))

\* Retry-After is taken when it is there, otherwise the wait doubles; both are capped.
Backoffs(wait) ==
  LET Capped(n) == IF n > MaxBackoff THEN MaxBackoff ELSE n
  IN {Capped(2 * wait)} \cup {Capped(n) : n \in RetryAfters}

\* doRequestWithRetry: only a 429 is repeated, after a wait.
doRequestWithRetry(step, answer) ==
  /\ answer = "429" /\ call.left > 0
  /\ \E w \in Backoffs(call.wait) :
       call' = [call EXCEPT !.left = @ - 1, !.wait = w,
                            !.body = IF step.body THEN "spent" ELSE @]

\* The upload answers with the file's address when it is processed, else without.
Uploaded == IF remote'.media = "ready" THEN [call EXCEPT !.script = <<>>, !.out = "ok"]
            ELSE Onwards(Tail(call.script))

\* One request of the current step and its answer.
Exchange ==
  /\ call.out = "running" /\ Head(call.script).name # "poll"
  /\ LET step == Head(call.script) IN
       \E answer \in AnswersTo(step, call.body) :
         /\ \E r \in Effects(step, call.body, answer) : remote' = r
         /\ \/ doRequestWithRetry(step, answer)
            \/ /\ answer = "ok"
               /\ call' = CASE step.name = "upload" -> Uploaded
                            [] step.final -> [call EXCEPT !.script = <<>>, !.out = "ok"]
                            [] OTHER -> Onwards(Tail(call.script))
            \/ /\ answer # "ok" /\ ~(answer = "429" /\ call.left > 0)
               /\ call' = StepFailed(step, answer)

\* The context ends while the call waits for its next attempt.
CancelCall ==
  /\ call.out = "running" /\ call.left < Head(call.script).retries
  /\ call' = [call EXCEPT !.script = <<>>, !.out = "error"]
  /\ UNCHANGED remote

\* The provider finishes an upload.
ProcessMedia ==
  /\ remote.media = "processing"
  /\ \E m \in {"ready", "broken"} : remote' = [remote EXCEPT !.media = m]
  /\ UNCHANGED call

\* waitMastodonMediaReady: poll until the file is ready, broken or the deadline passes;
\* any answer that is not a plain state ends the wait.
waitMastodonMediaReady ==
  /\ call.out = "running" /\ Head(call.script).name = "poll"
  /\ \/ /\ call.polls < PollLimit
        /\ call' = CASE remote.media = "ready" -> [call EXCEPT !.script = <<>>, !.out = "ok"]
                     [] remote.media = "processing" -> [call EXCEPT !.polls = @ + 1]
                     [] OTHER -> [call EXCEPT !.script = <<>>, !.out = "error"]
     \/ call' = [call EXCEPT !.script = <<>>, !.out = "error"]
  /\ UNCHANGED remote

CallsNext ==
  \/ \E op \in DOMAIN Scripts : Begin(op)
  \/ Exchange
  \/ CancelCall
  \/ ProcessMedia
  \/ waitMastodonMediaReady

CallsSpec == CallsInit /\ [][CallsNext]_callVars

-----------------------------------------------------------------------------
\* What an adapter answers is what the provider did, whatever was lost or repeated on the
\* way: one call of Publish makes at most one status, exactly one when it succeeds and none
\* when it is reported as rejected (the scheduler publishes again after a rejection only);
\* an upload that returns an id is processed, so that a status may refer to it.
AnswersAreTrue ==
  /\ remote.statuses <= 1
  /\ call.out = "rejected" => remote.statuses = 0
  /\ call.out = "ok" /\ call.op \in {"publishMastodon", "publishFriendica", "publishBluesky", "publishBlueskyToken"}
       => remote.statuses = 1
  /\ call.out = "ok" /\ call.op = "uploadMastodon" => remote.media = "ready"
==============================================================================
