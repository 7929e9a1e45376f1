----------------------------- MODULE MCDelivery -----------------------------
(* Eight instances in one run: the scene is chosen in the initial state and   *)
(* only its module moves.                                                     *)
EXTENDS ProviderCalls, MediaLibrary, LiveEvents, WebPush, VoiceEngine, ReplyThreads,
        AccountTokens, LogSink, TLC

CONSTANTS wide, narrow
VARIABLE scene

\* The account with the larger limit and the one with the lower one.
Limits == [a \in {wide, narrow} |-> IF a = wide THEN 100 ELSE 90]

\* The interchangeable actors of all scenes are the same model values: one
\* permutation of each pair serves every scene.
Symmetric == Permutations(Viewers) \cup Permutations(Threads)

DeliveryVars == <<callVars, mediaVars, hubVars, pushVars, voiceVars, threadVars, tokenVars, logVars, scene>>

DeliveryInit ==
  /\ scene \in {"calls", "media", "hub", "push", "voice", "threads", "tokens", "logs"}
  /\ CallsInit /\ MediaInit /\ HubInit /\ PushInit
  /\ VoiceInit /\ ThreadsInit /\ TokensInit /\ LogInit
  /\ scene # "tokens" => rotates
  /\ scene # "push" => pinned = NoKey /\ \A p \in People, c \in Crews: roles[p][c] = "owner"

\* All but the module of the scene.
Others(s) ==
  /\ s # "calls" => UNCHANGED callVars
  /\ s # "media" => UNCHANGED mediaVars
  /\ s # "hub" => UNCHANGED hubVars
  /\ s # "push" => UNCHANGED pushVars
  /\ s # "voice" => UNCHANGED voiceVars
  /\ s # "threads" => UNCHANGED threadVars
  /\ s # "tokens" => UNCHANGED tokenVars
  /\ s # "logs" => UNCHANGED logVars

DeliveryNext ==
  /\ UNCHANGED scene
  /\ \/ scene = "calls" /\ CallsNext /\ Others("calls")
     \/ scene = "media" /\ MediaNext /\ Others("media")
     \/ scene = "hub" /\ HubNext /\ Others("hub")
     \/ scene = "push" /\ PushNext /\ Others("push")
     \/ scene = "voice" /\ VoiceNext /\ Others("voice")
     \/ scene = "threads" /\ ThreadsNext /\ Others("threads")
     \/ scene = "tokens" /\ TokensNext /\ Others("tokens")
     \/ scene = "logs" /\ LogNext /\ Others("logs")

DeliverySpec == DeliveryInit /\ [][DeliveryNext]_DeliveryVars
=============================================================================
