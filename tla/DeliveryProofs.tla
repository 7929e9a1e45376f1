--------------------------- MODULE DeliveryProofs ---------------------------
(***************************************************************************)
(* What goes out and comes in around the publication, for any number of    *)
(* clients, devices, workers, uploads and requests: live events, push      *)
(* notifications, the tokens of an account, the media library, the calls   *)
(* of a provider, the replies below a post, the drafts of a language model *)
(* and the log table.                                                      *)
(***************************************************************************)
EXTENDS LiveEvents, WebPush, AccountTokens, MediaLibrary, ReplyThreads, ProviderCalls, VoiceEngine,
        LogSink, SequenceTheorems, FiniteSetTheorems, WellFoundedInduction, TLAPS

(* Live events. *)

SenderStates == [pc : {"idle", "send", "holding", "remove", "wait"}, todo : SUBSET Streams,
                at : SUBSET Streams, event : Nat]

HubTyped ==
  /\ hubClosed \in BOOLEAN /\ registered \subseteq Streams /\ missed \subseteq Streams
  /\ chan \in [Streams -> Seq(Nat)] /\ events \in Nat
  /\ closing \in [Streams -> {"new", "open", "begun", "closed"}]
  /\ sender \in [Senders -> SenderStates]

\* What a sender has yet to do concerns clients that subscribed, and the channel of the
\* client whose lock it holds is not closed.
SendersKnow ==
  \A s \in Senders :
    /\ \A c \in sender[s].todo \cup sender[s].at : closing[c] # "new"
    /\ sender[s].pc = "holding" =>
         \E c \in Streams : sender[s].at = {c} /\ closing[c] # "closed"

\* An open client is in the hub, and a closed hub has none.
OpenIsRegistered == \A c \in Streams :
  /\ closing[c] = "open" => c \in registered
  /\ c \in registered => closing[c] # "new" /\ ~hubClosed
MissedIsClosing == \A c \in missed : closing[c] \in {"begun", "closed"}

HubInv == HubTyped /\ SendersKnow /\ OpenIsRegistered /\ MissedIsClosing /\ ~panicked

\* One entry of a table of the hub is replaced.
LEMMA HubEntry ==
  ASSUME NEW D, NEW R, NEW f \in [D -> R], NEW x \in D, NEW v \in R
  PROVE  /\ [f EXCEPT ![x] = v] \in [D -> R]
         /\ \A y \in D : [f EXCEPT ![x] = v][y] = IF y = x THEN v ELSE f[y]
OBVIOUS

\* A client that is closed stays so, an open one is closing, a new one stays new.
LEMMA BeginCloseEffect ==
  ASSUME HubTyped, NEW C
  PROVE  /\ BeginClose(C) \in [Streams -> {"new", "open", "begun", "closed"}]
         /\ \A c \in Streams : /\ BeginClose(C)[c] = "new" <=> closing[c] = "new"
                               /\ BeginClose(C)[c] = "closed" <=> closing[c] = "closed"
                               /\ BeginClose(C)[c] = "open" <=> closing[c] = "open" /\ c \notin C
BY DEF BeginClose, HubTyped

LEMMA HubInvInit == HubInit => HubInv
<1> SUFFICES ASSUME HubInit PROVE HubInv
  OBVIOUS
<1>1. Idle \in SenderStates /\ Idle.todo = {} /\ Idle.at = {} /\ Idle.pc = "idle"
  BY DEF Idle, SenderStates
<1>2. <<>> \in Seq(Nat)
  OBVIOUS
<1>3. HubTyped
  BY <1>1, <1>2 DEF HubInit, HubTyped
<1>4. SendersKnow
  BY <1>1 DEF HubInit, SendersKnow
<1> QED
  BY <1>3, <1>4 DEF HubInit, HubInv, OpenIsRegistered, MissedIsClosing

\* A client subscribes, disconnects, reads or is closed; the hub is closed.
LEMMA ClientKeeps ==
  ASSUME HubInv, \/ \E c \in Streams : Subscribe(c) \/ CloseClient(c) \/ Deliver(c) \/ Unsubscribe(c)
                 \/ CloseHub
  PROVE  HubInv'
<1> USE DEF HubInv
<1>1. ASSUME NEW c \in Streams, Subscribe(c) PROVE HubInv'
  <2>1. /\ closing[c] = "new" /\ UNCHANGED <<hubClosed, chan, missed, sender, events, panicked>>
        /\ \/ hubClosed /\ closing' = [closing EXCEPT ![c] = "closed"] /\ UNCHANGED registered
           \/ /\ ~hubClosed /\ closing' = [closing EXCEPT ![c] = "open"]
              /\ registered' = registered \cup {c}
    BY <1>1 DEF Subscribe
  <2>2. HubTyped'
    BY <2>1 DEF HubTyped
  <2>3. \A d \in Streams : d # c => closing'[d] = closing[d]
    BY <2>1 DEF HubTyped
  <2>4. SendersKnow'
    BY <2>1, <2>3 DEF SendersKnow, HubTyped, SenderStates
  <2>5. OpenIsRegistered' /\ MissedIsClosing'
    BY <2>1, <2>3 DEF OpenIsRegistered, MissedIsClosing, HubTyped
  <2> QED BY <2>1, <2>2, <2>4, <2>5
<1>2. ASSUME NEW c \in Streams, CloseClient(c) PROVE HubInv'
  <2>1. /\ closing[c] = "begun" /\ Readers(c) = {} /\ closing' = [closing EXCEPT ![c] = "closed"]
        /\ UNCHANGED <<hubClosed, registered, chan, missed, sender, events, panicked>>
    BY <1>2 DEF CloseClient
  <2>2. HubTyped' /\ \A d \in Streams : d # c => closing'[d] = closing[d]
    BY <2>1 DEF HubTyped
  <2>3. \A s \in Senders : sender[s].pc = "holding" => c \notin sender[s].at
    BY <2>1 DEF Readers
  <2>4. SendersKnow'
    BY <2>1, <2>2, <2>3 DEF SendersKnow, HubTyped, SenderStates
  <2>5. OpenIsRegistered' /\ MissedIsClosing'
    BY <2>1, <2>2 DEF OpenIsRegistered, MissedIsClosing, HubTyped
  <2> QED BY <2>1, <2>2, <2>4, <2>5
<1>3. ASSUME NEW c \in Streams, Deliver(c) PROVE HubInv'
  <2>1. /\ chan[c] # <<>> /\ chan' = [chan EXCEPT ![c] = Tail(chan[c])]
        /\ UNCHANGED <<hubClosed, registered, closing, missed, sender, events, panicked>>
    BY <1>3 DEF Deliver
  <2>2. Tail(chan[c]) \in Seq(Nat)
    BY <2>1, HeadTailProperties DEF HubTyped
  <2>3. HubTyped'
    BY <2>1, <2>2 DEF HubTyped
  <2> QED BY <2>1, <2>3 DEF SendersKnow, OpenIsRegistered, MissedIsClosing
<1>4. ASSUME NEW C, closing' = BeginClose(C), registered' \subseteq registered,
             \A c \in Streams : closing'[c] = "open" => c \in registered',
             hubClosed' \in BOOLEAN, hubClosed' => hubClosed \/ registered' = {},
             UNCHANGED <<chan, missed, sender, events, panicked>>
      PROVE  HubInv'
  <2>1. /\ closing' \in [Streams -> {"new", "open", "begun", "closed"}]
        /\ \A c \in Streams : /\ closing'[c] = "new" <=> closing[c] = "new"
                              /\ closing'[c] = "closed" <=> closing[c] = "closed"
                              /\ closing'[c] = "open" <=> closing[c] = "open" /\ c \notin C
    BY <1>4, BeginCloseEffect
  <2>2. HubTyped'
    BY <1>4, <2>1 DEF HubTyped
  <2>3. SendersKnow'
    BY <1>4, <2>1 DEF SendersKnow, HubTyped, SenderStates
  <2>4. OpenIsRegistered' /\ MissedIsClosing'
    BY <1>4, <2>1, <2>2 DEF OpenIsRegistered, MissedIsClosing, HubTyped
  <2> QED BY <1>4, <2>2, <2>3, <2>4
<1>5. ASSUME NEW c \in Streams, Unsubscribe(c) PROVE HubInv'
  <2>1. /\ registered' = registered \ {c} /\ closing' = BeginClose({c})
        /\ UNCHANGED <<hubClosed, chan, missed, sender, events, panicked>>
    BY <1>5 DEF Unsubscribe
  <2>2. \A d \in Streams : closing'[d] = "open" => d \in registered'
    BY <2>1, BeginCloseEffect DEF OpenIsRegistered
  <2> QED BY <1>4, <2>1, <2>2 DEF HubTyped
<1>6. ASSUME CloseHub PROVE HubInv'
  <2>1. /\ hubClosed' = TRUE /\ registered' = {} /\ closing' = BeginClose(registered)
        /\ UNCHANGED <<chan, missed, sender, events, panicked>>
    BY <1>6 DEF CloseHub
  <2>2. \A d \in Streams : closing'[d] # "open"
    BY <2>1, BeginCloseEffect DEF OpenIsRegistered
  <2> QED BY <1>4, <2>1, <2>2
<1> QED BY <1>1, <1>2, <1>3, <1>5, <1>6

\* A sender moves on, and nothing but its own state changes.
LEMMA SenderMoves ==
  ASSUME HubInv, NEW s \in Senders, NEW new \in SenderStates,
         sender' = [sender EXCEPT ![s] = new], events' \in Nat,
         UNCHANGED <<hubClosed, registered, chan, closing, missed, panicked>>,
         \A c \in new.todo \cup new.at : closing[c] # "new",
         new.pc = "holding" => \E c \in Streams : new.at = {c} /\ closing[c] # "closed"
  PROVE  HubInv'
<1> USE DEF HubInv
<1>1. HubTyped' /\ \A t \in Senders : sender'[t] = IF t = s THEN new ELSE sender[t]
  BY DEF HubTyped
<1>2. SendersKnow'
  BY <1>1 DEF SendersKnow
<1> QED BY <1>1, <1>2 DEF OpenIsRegistered, MissedIsClosing

LEMMA SenderKeeps ==
  ASSUME HubInv, NEW s \in Senders,
         Publish(s) \/ runHeartbeat(s) \/ SendNext(s) \/ \E c \in Streams : SendCheck(s, c)
  PROVE  HubInv'
<1> USE DEF HubInv
<1>0. sender[s] \in SenderStates /\ Idle \in SenderStates
      /\ Idle.pc = "idle" /\ Idle.todo = {} /\ Idle.at = {}
  BY DEF HubTyped, Idle, SenderStates
<1>1. CASE Publish(s)
  <2> DEFINE new == [pc |-> "send", todo |-> registered, at |-> {}, event |-> events + 1]
  <2>1. /\ sender' = [sender EXCEPT ![s] = new] /\ events' = events + 1
        /\ UNCHANGED <<hubClosed, registered, chan, closing, missed, panicked>>
    BY <1>1 DEF Publish
  <2>2. new \in SenderStates /\ new.pc = "send" /\ new.todo = registered /\ new.at = {}
        /\ events + 1 \in Nat
    BY DEF SenderStates, HubTyped
  <2>3. \A c \in registered : closing[c] # "new"
    BY DEF OpenIsRegistered, HubTyped
  <2> HIDE DEF new
  <2> QED BY <2>1, <2>2, <2>3, SenderMoves
<1>2. CASE runHeartbeat(s)
  <2>1. PICK c \in Streams :
          /\ closing[c] \in {"open", "begun"} /\ events' = events + 1
          /\ sender' = [sender EXCEPT ![s] = [pc |-> "send", todo |-> {c}, at |-> {}, event |-> 0]]
          /\ UNCHANGED <<hubClosed, registered, chan, closing, missed, panicked>>
    BY <1>2 DEF runHeartbeat
  <2> DEFINE new == [pc |-> "send", todo |-> {c}, at |-> {}, event |-> 0]
  <2>2. new \in SenderStates /\ new.pc = "send" /\ new.todo = {c} /\ new.at = {}
        /\ events + 1 \in Nat
    BY DEF SenderStates, HubTyped
  <2>3. sender' = [sender EXCEPT ![s] = new]
    BY <2>1
  <2> HIDE DEF new
  <2> QED BY <2>1, <2>2, <2>3, SenderMoves
<1>3. CASE SendNext(s)
  <2> DEFINE again == [sender[s] EXCEPT !.pc = "send", !.at = {}]
             new == IF sender[s].todo = {} THEN Idle ELSE again
  <2>1. /\ sender' = [sender EXCEPT ![s] = new]
        /\ UNCHANGED <<hubClosed, registered, chan, closing, missed, events, panicked>>
    BY <1>3 DEF SendNext
  <2>2. again \in SenderStates /\ again.pc = "send" /\ again.todo = sender[s].todo /\ again.at = {}
    BY <1>0 DEF SenderStates
  <2> HIDE DEF again
  <2>3. /\ new \in SenderStates /\ new.pc # "holding"
        /\ new.todo \cup new.at \subseteq sender[s].todo
    BY <1>0, <2>2
  <2>4. \A c \in new.todo \cup new.at : closing[c] # "new"
    BY <2>3 DEF SendersKnow
  <2> HIDE DEF new
  <2> QED BY <2>1, <2>3, <2>4, SenderMoves DEF HubTyped
<1>4. CASE \E c \in Streams : SendCheck(s, c)
  <2> PICK c \in Streams : SendCheck(s, c)
    BY <1>4
  <2> DEFINE pc == IF closing[c] = "closed" THEN "remove" ELSE "holding"
             new == [sender[s] EXCEPT !.todo = @ \ {c}, !.at = {c}, !.pc = pc]
  <2>1. /\ c \in sender[s].todo
        /\ UNCHANGED <<hubClosed, registered, chan, closing, missed, events, panicked>>
        /\ sender' = [sender EXCEPT ![s] = new]
    BY DEF SendCheck
  <2>2. pc \in {"remove", "holding"} /\ (pc = "holding" => closing[c] # "closed")
    OBVIOUS
  <2> HIDE DEF pc
  <2>3. new \in SenderStates /\ new.todo = sender[s].todo \ {c} /\ new.at = {c} /\ new.pc = pc
    BY <1>0, <2>1, <2>2 DEF SenderStates
  <2>4. \A d \in new.todo \cup new.at : closing[d] # "new"
    BY <2>1, <2>3 DEF SendersKnow
  <2> HIDE DEF new
  <2> QED BY <2>1, <2>2, <2>3, <2>4, SenderMoves DEF HubTyped
<1> QED BY <1>1, <1>2, <1>3, <1>4

\* The sender that holds the lock writes to a channel that is not closed, or has the client
\* closed; the lock it holds keeps CloseClient out.
LEMMA SendWriteKeeps ==
  ASSUME HubInv, NEW s \in Senders, SendWrite(s)
  PROVE  HubInv'
<1> USE DEF HubInv
<1>1. PICK c \in Streams : sender[s].at = {c} /\ closing[c] # "closed"
  BY DEF SendWrite, SendersKnow
<1>2. (CHOOSE d \in sender[s].at : TRUE) = c
  BY <1>1
<1>3. closing[c] # "new" /\ sender[s] \in SenderStates
  BY <1>1 DEF SendersKnow, HubTyped
<1>4. CASE Len(chan[c]) >= BufferSize
  <2> DEFINE new == [sender[s] EXCEPT !.pc = "remove"]
  <2>1. new \in SenderStates /\ new.todo = sender[s].todo /\ new.at = {c} /\ new.pc = "remove"
    BY <1>1, <1>3 DEF SenderStates
  <2>2. sender' = [sender EXCEPT ![s].pc = "remove", ![s].at = sender[s].at]
    BY <1>2, <1>4 DEF SendWrite
  <2>3. sender' = [sender EXCEPT ![s] = new]
    BY <1>3, <2>2 DEF HubTyped, SenderStates
  <2>4. /\ panicked' = (panicked \/ closing[c] = "closed") /\ chan' = chan
        /\ missed' \in {missed, missed \cup {c}}
        /\ closing' = BeginClose({c}) /\ UNCHANGED <<hubClosed, registered, events>>
    BY <1>2, <1>4 DEF SendWrite
  <2>5. /\ closing' \in [Streams -> {"new", "open", "begun", "closed"}]
        /\ \A d \in Streams : /\ closing'[d] = "new" <=> closing[d] = "new"
                              /\ closing'[d] = "closed" <=> closing[d] = "closed"
                              /\ closing'[d] = "open" <=> closing[d] = "open" /\ d # c
    BY <2>4, BeginCloseEffect
  <2> HIDE DEF new
  <2>6. \A t \in Senders : sender'[t] = IF t = s THEN new ELSE sender[t]
    BY <2>3 DEF HubTyped
  <2>7. HubTyped'
    BY <2>1, <2>3, <2>4, <2>5 DEF HubTyped
  <2>8. SendersKnow'
    <3> SUFFICES ASSUME NEW t \in Senders
                 PROVE  /\ \A d \in sender'[t].todo \cup sender'[t].at : closing'[d] # "new"
                        /\ sender'[t].pc = "holding" =>
                             \E d \in Streams : sender'[t].at = {d} /\ closing'[d] # "closed"
      BY DEF SendersKnow
    <3>1. sender[t].todo \cup sender[t].at \subseteq Streams /\ sender[s].at = {c}
      BY <1>1 DEF HubTyped, SenderStates
    <3>2. sender'[t].todo \cup sender'[t].at \subseteq sender[t].todo \cup sender[t].at
      BY <2>1, <2>6, <3>1
    <3>3. sender'[t].pc = "holding" => sender'[t] = sender[t]
      BY <2>1, <2>6
    <3> QED BY <2>5, <3>1, <3>2, <3>3 DEF SendersKnow
  <2>9. OpenIsRegistered' /\ MissedIsClosing'
    BY <1>3, <2>4, <2>5, <2>7 DEF OpenIsRegistered, MissedIsClosing, HubTyped
  <2> QED BY <1>1, <2>4, <2>7, <2>8, <2>9
<1>5. CASE ~(Len(chan[c]) >= BufferSize)
  <2> DEFINE new == [sender[s] EXCEPT !.pc = "send", !.at = {}]
  <2>1. new \in SenderStates /\ new.todo = sender[s].todo /\ new.at = {} /\ new.pc = "send"
    BY <1>3 DEF SenderStates
  <2>2. sender' = [sender EXCEPT ![s].pc = "send", ![s].at = {}]
    BY <1>2, <1>5 DEF SendWrite
  <2>3. sender' = [sender EXCEPT ![s] = new]
    BY <1>3, <2>2 DEF HubTyped, SenderStates
  <2>4. /\ panicked' = (panicked \/ closing[c] = "closed")
        /\ chan' = [chan EXCEPT ![c] = Append(chan[c], sender[s].event)]
        /\ UNCHANGED <<closing, missed, hubClosed, registered, events>>
    BY <1>2, <1>5 DEF SendWrite
  <2>5. Append(chan[c], sender[s].event) \in Seq(Nat)
    BY <1>3, AppendProperties DEF HubTyped, SenderStates
  <2> HIDE DEF new
  <2>6. \A t \in Senders : sender'[t] = IF t = s THEN new ELSE sender[t]
    BY <2>3 DEF HubTyped
  <2>7. HubTyped'
    BY <2>1, <2>3, <2>4, <2>5 DEF HubTyped
  <2>8. SendersKnow'
    BY <2>1, <2>4, <2>6 DEF SendersKnow
  <2>9. OpenIsRegistered' /\ MissedIsClosing'
    BY <2>4 DEF OpenIsRegistered, MissedIsClosing
  <2> QED BY <1>1, <2>4, <2>7, <2>8, <2>9
<1> QED BY <1>4, <1>5

\* removeClient takes its client out of the hub and closes it.
LEMMA RemoveClientKeeps ==
  ASSUME HubInv, NEW s \in Senders, removeClient(s)
  PROVE  HubInv'
<1> USE DEF HubInv
<1>1. sender[s] \in SenderStates
  BY DEF HubTyped
<1>2. CASE sender[s].event = 0
  <2>1. Idle \in SenderStates /\ Idle.pc = "idle" /\ Idle.todo = {} /\ Idle.at = {}
    BY DEF Idle, SenderStates
  <2> QED BY <1>2, <2>1, SenderMoves DEF removeClient, HubTyped
<1>3. CASE sender[s].event # 0
  <2> DEFINE C == sender[s].at
             new == [sender[s] EXCEPT !.pc = "wait"]
  <2>1. new \in SenderStates /\ new.todo = sender[s].todo /\ new.at = C /\ new.pc = "wait"
    BY <1>1 DEF SenderStates
  <2>2. /\ registered' = registered \ C /\ closing' = BeginClose(C)
        /\ sender' = [sender EXCEPT ![s] = new]
        /\ UNCHANGED <<hubClosed, chan, missed, events, panicked>>
    BY <1>3 DEF removeClient
  <2> HIDE DEF new
  <2>3. /\ closing' \in [Streams -> {"new", "open", "begun", "closed"}]
        /\ \A c \in Streams : /\ closing'[c] = "new" <=> closing[c] = "new"
                              /\ closing'[c] = "closed" <=> closing[c] = "closed"
                              /\ closing'[c] = "open" <=> closing[c] = "open" /\ c \notin C
    BY <2>2, BeginCloseEffect
  <2>4. \A t \in Senders : sender'[t] = IF t = s THEN new ELSE sender[t]
    BY <2>2 DEF HubTyped
  <2>5. HubTyped'
    BY <2>1, <2>2, <2>3 DEF HubTyped
  <2>6. SendersKnow'
    <3> SUFFICES ASSUME NEW t \in Senders
                 PROVE  /\ \A d \in sender'[t].todo \cup sender'[t].at : closing'[d] # "new"
                        /\ sender'[t].pc = "holding" =>
                             \E d \in Streams : sender'[t].at = {d} /\ closing'[d] # "closed"
      BY DEF SendersKnow
    <3>1. sender[t].todo \cup sender[t].at \subseteq Streams
      BY DEF HubTyped, SenderStates
    <3>2. sender'[t].todo \cup sender'[t].at \subseteq sender[t].todo \cup sender[t].at
      BY <2>1, <2>4
    <3>3. sender'[t].pc = "holding" => sender'[t] = sender[t]
      BY <2>1, <2>4
    <3> QED BY <2>3, <3>1, <3>2, <3>3 DEF SendersKnow
  <2>7. OpenIsRegistered' /\ MissedIsClosing'
    BY <2>2, <2>3, <2>5 DEF OpenIsRegistered, MissedIsClosing, HubTyped
  <2> QED BY <2>2, <2>5, <2>6, <2>7
<1> QED BY <1>2, <1>3

\* Whatever clients, publishers and heartbeats do at once, no send meets a closed channel
\* (Client.Send holds the lock from its check to its write, Client.Close takes it), a client
\* that misses an event is closed, and no client stays open in a closed hub.
THEOREM StreamsEnd == HubSpec => []StreamsEndCleanly
<1>1. HubInv /\ [HubNext]_hubVars => HubInv'
  <2> SUFFICES ASSUME HubInv, [HubNext]_hubVars PROVE HubInv'
    OBVIOUS
  <2>1. CASE HubNext
    BY <2>1, ClientKeeps, SenderKeeps, SendWriteKeeps, RemoveClientKeeps DEF HubNext
  <2>2. CASE UNCHANGED hubVars
    BY <2>2 DEF hubVars, HubInv, HubTyped, SendersKnow, OpenIsRegistered, MissedIsClosing
  <2> QED BY <2>1, <2>2
<1>2. HubInv => StreamsEndCleanly
  BY DEF HubInv, OpenIsRegistered, MissedIsClosing, StreamsEndCleanly
<1> QED BY <1>1, <1>2, HubInvInit, PTL DEF HubSpec

-----------------------------------------------------------------------------
(* Push notifications. *)

PushRow(r) == r \in [id : {r.id}, device : Devices, user : People, on : BOOLEAN]

\* The pair the process works with: the pinned one, else the stored one.
Working == IF pinned # NoKey THEN pinned ELSE vapid

\* One key is ever stored; a device has subscribed with it or with a pinned one.
OneKey ==
  /\ pinned \in Pins \cup {NoKey} /\ made \in Nat /\ vapid \in Nat \cup {NoKey}
  /\ keyring # NoKey => keyring = Working
  /\ \A d \in Devices : device[d].key # NoKey => device[d].key \in Pins \/ device[d].key = vapid

\* A row names the user who last registered its device, and the device has a key.
RowsAreCurrent ==
  \A r \in subs : PushRow(r) /\ device[r.device].user = r.user /\ device[r.device].key # NoKey

\* A message is on its way, while the process has a key, to devices that have one and are
\* still their users', but for those that were registered since the rows were listed.
BatchIsSigned ==
  /\ batch = [crew |-> batch.crew, targets |-> batch.targets, moved |-> batch.moved]
  /\ \A r \in batch.targets :
       /\ r.device \in Devices /\ device[r.device].key # NoKey /\ keyring # NoKey
       /\ r.device \in batch.moved \/ device[r.device].user = r.user

DevicesTyped ==
  /\ device = [d \in Devices |-> device[d]]
  /\ \A d \in Devices : device[d] = [key |-> device[d].key, user |-> device[d].user]

PushInv ==
  /\ DevicesTyped /\ OneKey /\ RowsAreCurrent /\ BatchIsSigned /\ DevicesHearTheirOwn

\* ensureKeys uses the pinned key or the stored one; a stored key is never replaced.
LEMMA KeyEffect ==
  ASSUME OneKey, UNCHANGED pinned, \E loads, stores \in BOOLEAN : ensureKeys(loads, stores)
  PROVE  /\ pinned' \in Pins \cup {NoKey} /\ made' \in Nat /\ vapid' \in Nat \cup {NoKey}
         /\ keyring' # NoKey => keyring' = Working'
         /\ vapid # NoKey => vapid' = vapid
         /\ keyring # NoKey => keyring' = keyring
         /\ \A d \in Devices : device[d].key # NoKey => device[d].key \in Pins \/ device[d].key = vapid'
<1> PICK loads, stores \in BOOLEAN : ensureKeys(loads, stores)
  OBVIOUS
<1>1. CASE KnownKey \/ PinnedKey \/ StoredKey \/ FailedLoad
  BY <1>1 DEF OneKey, Working, KnownKey, PinnedKey, StoredKey, FailedLoad
<1>2. CASE vapid = NoKey /\ GenerateVAPIDKeys(stores)
  BY <1>2, PushAssumption DEF OneKey, Working, GenerateVAPIDKeys
<1> QED BY <1>1, <1>2 DEF ensureKeys

LEMMA PushInvInit == PushInit => PushInv
BY DEF PushInit, PushInv, DevicesTyped, OneKey, RowsAreCurrent, BatchIsSigned, NoBatch,
       DevicesHearTheirOwn

\* A browser fetches the key.
LEMMA KeyKeeps ==
  ASSUME PushInv, NEW d \in Devices, handleGetMyVAPIDPublicKey(d)
  PROVE  PushInv'
<1> USE DEF PushInv
<1>1. /\ UNCHANGED <<pinned, subs, batch, wrong>>
      /\ \E loads, stores \in BOOLEAN : ensureKeys(loads, stores)
      /\ device' = IF keyring' = NoKey THEN device ELSE [device EXCEPT ![d].key = keyring']
  BY DEF handleGetMyVAPIDPublicKey
<1>0. /\ pinned' \in Pins \cup {NoKey} /\ made' \in Nat /\ vapid' \in Nat \cup {NoKey}
      /\ keyring' # NoKey => keyring' = Working'
      /\ keyring # NoKey => keyring' = keyring
      /\ \A e \in Devices : device[e].key # NoKey => device[e].key \in Pins \/ device[e].key = vapid'
  BY <1>1, KeyEffect
<1>2. /\ device' = [e \in Devices |-> device'[e]]
      /\ \A e \in Devices : /\ device'[e] = [key |-> device'[e].key, user |-> device[e].user]
                            /\ device'[e].key = device[e].key \/ device'[e].key = keyring'
                            /\ device[e].key # NoKey => device'[e].key # NoKey
  BY <1>1 DEF DevicesTyped
<1>3. DevicesTyped'
  BY <1>2 DEF DevicesTyped
<1>6. OneKey'
  BY <1>0, <1>1, <1>2 DEF OneKey, Working
<1>4. RowsAreCurrent'
  BY <1>1, <1>2 DEF RowsAreCurrent, PushRow
<1>5. BatchIsSigned'
  BY <1>0, <1>1, <1>2 DEF BatchIsSigned
<1> QED BY <1>1, <1>3, <1>4, <1>5, <1>6 DEF DevicesHearTheirOwn

\* A device that registers has a key, and its row changes hands with it.
LEMMA SubscriptionKeeps ==
  ASSUME PushInv, NEW u \in People, NEW d \in Devices, handleCreateMyPushSubscription(u, d)
  PROVE  PushInv'
<1> USE DEF PushInv
<1>1. PICK id : subs' = (subs \ RowsOf(d)) \cup {[id |-> id, device |-> d, user |-> u, on |-> TRUE]}
  BY DEF handleCreateMyPushSubscription, CreatePushSubscription
<1>2. /\ device[d].key # NoKey /\ device' = [device EXCEPT ![d].user = u]
      /\ batch' = IF batch = NoBatch THEN batch ELSE [batch EXCEPT !.moved = batch.moved \cup {d}]
      /\ UNCHANGED <<pinned, vapid, keyring, made, wrong>>
  BY DEF handleCreateMyPushSubscription
<1>3. /\ device' = [e \in Devices |-> device'[e]]
      /\ \A e \in Devices : /\ device'[e] = [key |-> device[e].key, user |-> device'[e].user]
                            /\ device'[e].user = IF e = d THEN u ELSE device[e].user
                            /\ device'[e].key = device[e].key
  BY <1>2 DEF DevicesTyped
<1>4. DevicesTyped' /\ OneKey' /\ BatchIsSigned'
  <2>1. DevicesTyped'
    BY <1>3 DEF DevicesTyped
  <2>2. OneKey'
    BY <1>2, <1>3 DEF OneKey, Working
  <2>3. /\ batch' = [crew |-> batch'.crew, targets |-> batch'.targets, moved |-> batch'.moved]
        /\ batch'.targets = batch.targets /\ batch.moved \subseteq batch'.moved
        /\ batch.targets # {} => d \in batch'.moved
    BY <1>2 DEF BatchIsSigned, NoBatch
  <2>4. BatchIsSigned'
    BY <1>2, <1>3, <2>3 DEF BatchIsSigned
  <2> QED BY <2>1, <2>2, <2>4
<1>5. RowsAreCurrent'
  <2> SUFFICES ASSUME NEW r \in subs'
               PROVE  PushRow(r) /\ device'[r.device].user = r.user /\ device'[r.device].key # NoKey
    BY DEF RowsAreCurrent, PushRow
  <2>1. CASE r \in subs \ RowsOf(d)
    <3>1. r.device \in Devices /\ r.device # d
      BY <2>1 DEF RowsOf, RowsAreCurrent, PushRow
    <3> QED BY <1>3, <2>1, <3>1 DEF RowsAreCurrent
  <2>2. CASE r = [id |-> id, device |-> d, user |-> u, on |-> TRUE]
    <3>1. r.device = d /\ r.user = u /\ PushRow(r)
      BY <2>2 DEF PushRow
    <3> QED BY <1>2, <1>3, <3>1
  <2> QED BY <1>1, <2>1, <2>2
<1> QED BY <1>2, <1>4, <1>5 DEF DevicesHearTheirOwn

\* Rows are switched on and off or deleted, by their user or a push service.
LEMMA RowsKeep ==
  ASSUME PushInv, UNCHANGED <<pinned, vapid, keyring, made, device, batch, wrong>>,
         \A r \in subs' : \/ r \in subs
                          \/ \E q \in subs : r = [q EXCEPT !.on = ~q.on]
  PROVE  PushInv'
<1> USE DEF PushInv
<1>1. RowsAreCurrent'
  <2> SUFFICES ASSUME NEW r \in subs'
               PROVE  PushRow(r) /\ device[r.device].user = r.user /\ device[r.device].key # NoKey
    BY DEF RowsAreCurrent, PushRow
  <2>1. ASSUME NEW q \in subs, r = [q EXCEPT !.on = ~q.on] PROVE PushRow(r) /\ r.device = q.device /\ r.user = q.user
    BY <2>1 DEF RowsAreCurrent, PushRow
  <2> QED BY <2>1 DEF RowsAreCurrent
<1> QED BY <1>1 DEF DevicesTyped, OneKey, Working, BatchIsSigned, DevicesHearTheirOwn

LEMMA PreferencesKeep ==
  ASSUME PushInv, NEW u \in People,
         \/ \E r \in subs : handleUpdateMyPushSubscription(u, r) \/ handleDeleteMyPushSubscription(u, r)
         \/ \E t \in Crews : \/ handleSetMyTeamNotificationPref(u, t)
                             \/ \E role \in {"owner", "viewer"} : ChangeRole(u, t, role)
  PROVE  PushInv'
<1>1. /\ UNCHANGED <<pinned, vapid, keyring, made, device, batch, wrong>>
      /\ \A r \in subs' : r \in subs \/ \E q \in subs : r = [q EXCEPT !.on = ~q.on]
  BY DEF handleUpdateMyPushSubscription, handleDeleteMyPushSubscription,
     handleSetMyTeamNotificationPref, ChangeRole
<1> QED BY <1>1, RowsKeep

\* A batch starts with rows as they are, under the key of the process.
LEMMA SendKeeps ==
  ASSUME PushInv, \/ \E t \in Crews : SendNewReview(t)
                  \/ \E u \in People, r \in subs : SendTest(u, r)
  PROVE  PushInv'
<1> USE DEF PushInv
<1>1. PICK R, crew :
        /\ R \in SUBSET subs
        /\ \E loads, stores \in BOOLEAN : ensureKeys(loads, stores)
        /\ batch' = IF keyring' = NoKey THEN batch ELSE [crew |-> crew, targets |-> R, moved |-> {}]
        /\ batch = NoBatch /\ UNCHANGED <<pinned, device, subs, wrong>>
  <2>1. \A t : ListPushTargets(t) \in SUBSET subs
    BY DEF ListPushTargets
  <2>2. CASE \E t \in Crews : SendNewReview(t)
    BY <2>1, <2>2 DEF SendNewReview
  <2>3. CASE \E u \in People, r \in subs : SendTest(u, r)
    <3> PICK u \in People, r \in subs : SendTest(u, r)
      BY <2>3
    <3>1. {r} \in SUBSET subs
      OBVIOUS
    <3> QED BY <3>1 DEF SendTest
  <2> QED BY <2>2, <2>3
<1>2. /\ pinned' \in Pins \cup {NoKey} /\ made' \in Nat /\ vapid' \in Nat \cup {NoKey}
      /\ keyring' # NoKey => keyring' = Working'
      /\ \A d \in Devices : device[d].key # NoKey => device[d].key \in Pins \/ device[d].key = vapid'
  BY <1>1, KeyEffect
<1>4. DevicesTyped' /\ OneKey' /\ RowsAreCurrent' /\ DevicesHearTheirOwn'
  BY <1>1, <1>2 DEF DevicesTyped, OneKey, RowsAreCurrent, PushRow, DevicesHearTheirOwn
<1>5. BatchIsSigned'
  <2>1. CASE keyring' = NoKey
    BY <1>1, <2>1 DEF BatchIsSigned, NoBatch
  <2>2. CASE keyring' # NoKey
    <3>1. batch' = [crew |-> crew, targets |-> R, moved |-> {}]
      BY <1>1, <2>2
    <3>2. \A r \in R : /\ r.device \in Devices /\ device[r.device].key # NoKey
                       /\ device[r.device].user = r.user
      BY <1>1 DEF RowsAreCurrent, PushRow
    <3> QED BY <1>1, <2>2, <3>1, <3>2 DEF BatchIsSigned
  <2> QED BY <2>1, <2>2
<1> QED BY <1>4, <1>5

\* The device of a message has the key of the process, if the installation is configured as
\* it was when the device subscribed; and it is its user's, if it was not registered since.
LEMMA DeliverKeeps ==
  ASSUME PushInv, NEW r \in batch.targets, deliver(r)
  PROVE  PushInv'
<1> USE DEF PushInv
<1>1. Undecipherable(r) = {}
  BY PushAssumption DEF BatchIsSigned, OneKey, Working, Undecipherable, ConfiguredFor
<1>4. \A w \in Misdirected(r) : w[1] = "late"
  BY DEF BatchIsSigned, Misdirected
<1>2. /\ UNCHANGED <<pinned, vapid, keyring, made, device>> /\ subs' \subseteq subs
      /\ wrong' = wrong \cup Misdirected(r)
  BY <1>1 DEF deliver
<1>5. DevicesHearTheirOwn'
  BY <1>2, <1>4 DEF DevicesHearTheirOwn
<1>3. BatchIsSigned'
  <2>1. batch' = NoBatch \/ batch' = [batch EXCEPT !.targets = batch.targets \ {r}]
    BY DEF deliver
  <2>2. /\ batch' = [crew |-> batch'.crew, targets |-> batch'.targets, moved |-> batch'.moved]
        /\ batch'.targets \subseteq batch.targets
        /\ batch'.moved = batch.moved \/ batch'.targets = {}
    BY <2>1 DEF BatchIsSigned, NoBatch
  <2> QED BY <1>2, <2>2 DEF BatchIsSigned
<1> QED BY <1>2, <1>3, <1>5 DEF DevicesTyped, OneKey, Working, RowsAreCurrent, PushRow

\* Every message is signed with the key its device subscribed with, across restarts, pinned
\* keys, reads and writes of the pair that fail (ensureKeys), unless the installation was
\* given another pinned key, or lost it, since; and one that goes to somebody else's device
\* was listed before that device was registered (CreatePushSubscription replaces the row).
THEOREM DevicesHear == PushSpec => []DevicesHearTheirOwn
<1>1. PushInv /\ [PushNext]_pushVars => PushInv'
  <2> SUFFICES ASSUME PushInv, [PushNext]_pushVars PROVE PushInv'
    OBVIOUS
  <2>1. CASE Restart
    <3>1. /\ pinned' \in Pins \cup {NoKey} /\ keyring' = NoKey /\ batch' = NoBatch
          /\ UNCHANGED <<vapid, made, device, subs, wrong>>
      BY <2>1 DEF Restart
    <3> QED BY <3>1 DEF PushInv, DevicesTyped, OneKey, RowsAreCurrent, PushRow, BatchIsSigned, NoBatch,
                        DevicesHearTheirOwn
  <2>2. CASE UNCHANGED pushVars
    BY <2>2 DEF pushVars, PushInv, DevicesTyped, OneKey, Working, RowsAreCurrent, PushRow, BatchIsSigned,
                DevicesHearTheirOwn
  <2>3. CASE PushNext
    BY <2>1, <2>3, KeyKeeps, SubscriptionKeeps, PreferencesKeep, SendKeeps, DeliverKeeps DEF PushNext
  <2> QED BY <2>2, <2>3
<1>2. PushInv => DevicesHearTheirOwn
  BY DEF PushInv
<1> QED BY <1>1, <1>2, PushInvInit, PTL DEF PushSpec

-----------------------------------------------------------------------------
(* The tokens of an account. *)

RefreshTokens ==
  {t \in [grant : Grants, number : Nat \cup {-1}] : t.number = -1 => t = NoToken}

TokensTyped ==
  /\ account \in [connected : BOOLEAN, tokens : RefreshTokens, near : BOOLEAN]
  /\ instance \in [Grants -> Nat \cup {-1}]
  /\ rotates \in BOOLEAN /\ lost \in BOOLEAN
  /\ worker \in [Workers -> [pc : {"idle", "loaded", "answered"}, tokens : RefreshTokens, near : BOOLEAN]]
  /\ patch \in [pc : {"idle", "loaded"}, tokens : RefreshTokens, near : BOOLEAN]

\* Nobody holds a token the instance has not given yet.
NoneAhead ==
  /\ account.tokens.number <= instance[account.tokens.grant]
  /\ \A w \in Workers : worker[w].pc # "idle" =>
       worker[w].tokens.number <= instance[worker[w].tokens.grant]

\* The answer a worker holds is accepted, and, when tokens rotate, nobody else has it.
AnswersAreNewest ==
  \A w \in Workers : worker[w].pc = "answered" =>
    /\ Accepts(worker[w].tokens)
    /\ rotates => /\ account.tokens # worker[w].tokens
                  /\ \A v \in Workers \ {w} : worker[v].pc # "idle" =>
                       worker[v].tokens # worker[w].tokens

\* The transaction of an update of the account keeps other writers of the row out.
PatchIsCurrent == patch.pc = "loaded" => patch.tokens = account.tokens

AccountInv ==
  /\ TokensTyped
  /\ account.connected /\ ~lost => NoneAhead /\ AnswersAreNewest /\ PatchIsCurrent /\ StaysConnected

\* Nothing more is promised of an account that is gone or lost a token.
AccountSafe == NoneAhead /\ AnswersAreNewest /\ PatchIsCurrent /\ StaysConnected

LEMMA GrantZero == 0 \in Grants /\ Grants \subseteq Nat /\ NoToken \in RefreshTokens
BY TokensAssumption DEF Grants, NoToken, RefreshTokens

LEMMA AccountInvInit == TokensInit => AccountInv
<1> SUFFICES ASSUME TokensInit PROVE AccountInv
  OBVIOUS
<1>1. \A w \in Workers : worker[w] = NoWork
  BY DEF TokensInit
<1>2. /\ account.connected /\ account.tokens = [grant |-> 0, number |-> 0]
      /\ account.tokens.grant = 0 /\ account.tokens.number = 0 /\ account.near = FALSE
      /\ instance[0] = 0 /\ NoWork.pc = "idle" /\ NoWork.tokens = NoToken /\ NoWork.near = FALSE
  BY GrantZero DEF TokensInit, NoWork
<1>3. TokensTyped
  <2>1. account \in [connected : BOOLEAN, tokens : RefreshTokens, near : BOOLEAN]
    BY GrantZero DEF TokensInit, RefreshTokens
  <2>2. /\ NoWork \in [pc : {"idle", "loaded", "answered"}, tokens : RefreshTokens, near : BOOLEAN]
        /\ NoWork \in [pc : {"idle", "loaded"}, tokens : RefreshTokens, near : BOOLEAN]
    BY GrantZero DEF NoWork
  <2>3. instance \in [Grants -> Nat \cup {-1}] /\ rotates \in BOOLEAN /\ lost \in BOOLEAN
    BY DEF TokensInit
  <2> QED BY <2>1, <2>2, <2>3 DEF TokensInit, TokensTyped
<1>4. NoneAhead /\ AnswersAreNewest /\ PatchIsCurrent
  BY <1>1, <1>2 DEF NoneAhead, AnswersAreNewest, PatchIsCurrent, TokensInit
<1>5. Accepts(account.tokens)
  BY <1>2 DEF Accepts, NoToken
<1> QED BY <1>3, <1>4, <1>5 DEF AccountInv, StaysConnected

\* A worker loads the account, or ends without an answer; time passes.
LEMMA WorkerLoads ==
  ASSUME AccountInv,
         \/ TimePasses
         \/ \E w \in Workers : LoadAccount(w) \/ UseSnapshot(w) \/ RefreshRefused(w)
  PROVE  AccountInv'
<1>1. UNCHANGED <<instance, rotates, patch, lost>> /\ account'.tokens = account.tokens
      /\ account'.connected = account.connected
      /\ account' \in [connected : BOOLEAN, tokens : RefreshTokens, near : BOOLEAN]
  BY DEF TimePasses, LoadAccount, UseSnapshot, RefreshRefused, AccountInv, TokensTyped
<1>2. /\ worker' \in [Workers -> [pc : {"idle", "loaded", "answered"}, tokens : RefreshTokens, near : BOOLEAN]]
      /\ \A v \in Workers : \/ worker'[v] = worker[v]
                            \/ worker[v].pc # "answered" /\ worker'[v].pc = "idle"
                            \/ /\ worker[v].pc = "idle" /\ worker'[v].pc = "loaded"
                               /\ worker'[v].tokens = account.tokens
  <2>1. NoWork \in [pc : {"idle", "loaded", "answered"}, tokens : RefreshTokens, near : BOOLEAN]
        /\ NoWork.pc = "idle"
    BY GrantZero DEF NoWork
  <2>2. CASE TimePasses
    BY <2>2 DEF TimePasses, AccountInv, TokensTyped
  <2>3. CASE \E w \in Workers : LoadAccount(w)
    <3> PICK w \in Workers : LoadAccount(w)
      BY <2>3
    <3> DEFINE new == [pc |-> "loaded", tokens |-> account.tokens, near |-> account.near]
    <3>1. worker' = [worker EXCEPT ![w] = new] /\ worker[w].pc = "idle"
      BY DEF LoadAccount
    <3>2. /\ new \in [pc : {"idle", "loaded", "answered"}, tokens : RefreshTokens, near : BOOLEAN]
          /\ new.pc = "loaded" /\ new.tokens = account.tokens
      BY DEF AccountInv, TokensTyped
    <3> HIDE DEF new
    <3> QED BY <3>1, <3>2 DEF AccountInv, TokensTyped
  <2>4. CASE \E w \in Workers : UseSnapshot(w) \/ RefreshRefused(w)
    BY <2>1, <2>4 DEF UseSnapshot, RefreshRefused, Done, AccountInv, TokensTyped
  <2> QED BY <2>2, <2>3, <2>4
<1>3. TokensTyped'
  BY <1>1, <1>2 DEF AccountInv, TokensTyped
<1>4. ASSUME AccountSafe PROVE AccountSafe'
  <2>1. \A v \in Workers : worker'[v].pc = "answered" <=> worker[v].pc = "answered"
    BY <1>2
  <2>2. \A v \in Workers : worker'[v].pc = "answered" => worker'[v] = worker[v]
    BY <1>2
  <2>3. \A v \in Workers : worker'[v].pc # "idle" => worker'[v] = worker[v] \/ worker'[v].tokens = account.tokens
    BY <1>2
  <2>4. \A v \in Workers : worker'[v].pc # "idle" =>
           worker'[v].tokens = account.tokens \/ (worker[v].pc # "idle" /\ worker'[v] = worker[v])
    BY <2>3
  <2>5. NoneAhead'
    BY <1>1, <1>4, <2>4 DEF AccountSafe, NoneAhead
  <2>6. AnswersAreNewest'
    BY <1>1, <1>4, <2>1, <2>2, <2>4 DEF AccountSafe, AnswersAreNewest, Accepts
  <2>7. PatchIsCurrent' /\ StaysConnected'
    BY <1>1, <1>4, <2>1, <2>2 DEF AccountSafe, PatchIsCurrent, StaysConnected, Accepts
  <2> QED BY <2>5, <2>6, <2>7 DEF AccountSafe
<1> QED BY <1>1, <1>3, <1>4 DEF AccountInv, AccountSafe

\* The instance answers the newest token and, when it rotates, gives one nobody has yet.
LEMMA RefreshKeeps ==
  ASSUME AccountInv, NEW w \in Workers, NEW arrives \in BOOLEAN, RefreshAtInstance(w, arrives)
  PROVE  AccountInv'
<1> DEFINE used == worker[w].tokens
           next == [used EXCEPT !.number = used.number + 1]
           W    == [pc : {"idle", "loaded", "answered"}, tokens : RefreshTokens, near : BOOLEAN]
<1>0. /\ worker[w] \in W /\ used \in RefreshTokens /\ worker[w].pc = "loaded" /\ used # NoToken
      /\ instance[used.grant] = used.number /\ UNCHANGED <<account, rotates, patch>>
      /\ instance \in [Grants -> Nat \cup {-1}] /\ used.grant \in Grants /\ used.number \in Nat \cup {-1}
  BY DEF RefreshAtInstance, Accepts, AccountInv, TokensTyped, RefreshTokens
<1>1. next \in RefreshTokens /\ next.grant = used.grant /\ next.number = used.number + 1
      /\ next.number \in Nat
  BY <1>0 DEF RefreshTokens
<1>2. instance' = IF rotates THEN [instance EXCEPT ![used.grant] = used.number + 1] ELSE instance
  BY <1>0 DEF RefreshAtInstance
<1>3. instance' \in [Grants -> Nat \cup {-1}]
  BY <1>0, <1>1, <1>2
<1>4. /\ lost' \in BOOLEAN /\ (~lost' => ~lost)
      /\ \/ arrives /\ worker' = [worker EXCEPT ![w].pc = "answered",
                                                ![w].tokens = IF rotates THEN next ELSE used]
         \/ ~arrives /\ worker' = [worker EXCEPT ![w] = NoWork] /\ (~lost' => ~rotates)
  BY DEF RefreshAtInstance, Done, NextRefreshToken, AccountInv, TokensTyped
<1>5. \A v \in Workers : v # w => worker'[v] = worker[v]
  BY <1>4 DEF AccountInv, TokensTyped
<1>6. CASE ~arrives
  <2>1. NoWork \in W /\ NoWork.pc = "idle"
    BY GrantZero DEF NoWork
  <2>2. worker'[w].pc = "idle" /\ worker' \in [Workers -> W]
    BY <1>4, <1>6, <2>1 DEF AccountInv, TokensTyped
  <2>3. TokensTyped'
    BY <1>0, <1>3, <1>4, <2>2 DEF AccountInv, TokensTyped
  <2>4. ASSUME ~lost', AccountSafe PROVE AccountSafe'
    <3>1. UNCHANGED instance
      BY <1>2, <1>4, <1>6, <2>4
    <3>2. \A v \in Workers : worker'[v].pc # "idle" => v # w /\ worker'[v] = worker[v]
      BY <1>5, <2>2
    <3>3. \A v \in Workers : worker[v].pc = "answered" => worker'[v] = worker[v]
      BY <1>0, <1>5
    <3>4. NoneAhead' /\ AnswersAreNewest'
      BY <1>0, <2>4, <3>1, <3>2 DEF AccountSafe, NoneAhead, AnswersAreNewest, Accepts
    <3>5. PatchIsCurrent' /\ StaysConnected'
      BY <1>0, <1>4, <2>4, <3>1, <3>3 DEF AccountSafe, PatchIsCurrent, StaysConnected, Accepts
    <3> QED BY <3>4, <3>5 DEF AccountSafe
  <2> QED BY <1>0, <1>4, <2>3, <2>4 DEF AccountInv, AccountSafe
<1>7. CASE arrives
  <2> DEFINE t == IF rotates THEN next ELSE used
             new == [worker[w] EXCEPT !.pc = "answered", !.tokens = t]
  <2>1. t \in RefreshTokens /\ t.grant = used.grant /\ instance'[t.grant] = t.number /\ t # NoToken
    <3>1. CASE rotates
      BY <1>0, <1>1, <1>2, <3>1 DEF NoToken
    <3>2. CASE ~rotates
      BY <1>0, <1>2, <3>2
    <3> QED BY <3>1, <3>2
  <2>2. worker' = [worker EXCEPT ![w].pc = "answered", ![w].tokens = t]
    BY <1>4, <1>7
  <2> HIDE DEF t
  <2>3. new \in W /\ new.pc = "answered" /\ new.tokens = t
    BY <1>0, <2>1
  <2>4. worker' = [worker EXCEPT ![w] = new]
    BY <2>2 DEF AccountInv, TokensTyped
  <2> HIDE DEF new
  <2>5. worker'[w] = new /\ worker' \in [Workers -> W]
    BY <2>3, <2>4 DEF AccountInv, TokensTyped
  <2>6. TokensTyped'
    BY <1>0, <1>3, <1>4, <2>5 DEF AccountInv, TokensTyped
  <2>7. ASSUME ~lost', AccountSafe PROVE AccountSafe'
    <3>0. /\ \A v \in Workers : worker[v].tokens \in RefreshTokens
          /\ account.tokens \in RefreshTokens
          /\ \A g \in Grants : instance'[g] >= instance[g]
      BY <1>0, <1>2 DEF AccountInv, TokensTyped
    <3>1. NoneAhead'
      <4> SUFFICES ASSUME NEW u \in RefreshTokens, u.number <= instance[u.grant]
                   PROVE  u.number <= instance'[u.grant]
        <5>1. account.tokens.number <= instance'[account.tokens.grant]
          BY <2>7, <3>0 DEF AccountSafe, NoneAhead
        <5>2. \A v \in Workers : worker'[v].pc # "idle" =>
                worker'[v].tokens.number <= instance'[worker'[v].tokens.grant]
          <6> SUFFICES ASSUME NEW v \in Workers, worker'[v].pc # "idle"
                       PROVE  worker'[v].tokens.number <= instance'[worker'[v].tokens.grant]
            OBVIOUS
          <6>1. CASE v = w
            BY <2>1, <2>3, <2>5, <6>1 DEF RefreshTokens
          <6>2. CASE v # w
            BY <1>5, <2>7, <3>0, <6>2 DEF AccountSafe, NoneAhead
          <6> QED BY <6>1, <6>2
        <5> QED BY <1>0, <5>1, <5>2 DEF NoneAhead
      <4>1. u.grant \in Grants /\ u.number \in Nat \cup {-1}
        BY DEF RefreshTokens
      <4> QED BY <1>0, <1>3, <3>0, <4>1
    <3>2. Accepts(worker[w].tokens)' /\ worker'[w].pc = "answered" /\ worker'[w].tokens = t
      BY <2>1, <2>3, <2>5 DEF Accepts
    <3>3. PatchIsCurrent' /\ StaysConnected'
      BY <1>0, <2>7, <3>2 DEF AccountSafe, PatchIsCurrent, StaysConnected
    <3>4. CASE ~rotates
      <4>1. UNCHANGED instance /\ ~rotates'
        BY <1>0, <1>2, <3>4
      <4>2. AnswersAreNewest'
        <5>1. \A v \in Workers : worker'[v].pc = "answered" => Accepts(worker[v].tokens)'
          BY <1>5, <2>7, <3>2, <4>1 DEF AccountSafe, AnswersAreNewest, Accepts
        <5> QED BY <4>1, <5>1 DEF AnswersAreNewest
      <4> QED BY <3>1, <3>3, <4>2 DEF AccountSafe
    <3>5. CASE rotates
      <4>1. t = next
        BY <3>5 DEF t
      <4>2. \A u \in RefreshTokens : u.number <= instance[u.grant] => u # next
        BY <1>0, <1>1 DEF RefreshTokens
      <4>3. account.tokens # next /\ \A v \in Workers : worker[v].pc # "idle" => worker[v].tokens # next
        BY <2>7, <3>0, <4>2 DEF AccountSafe, NoneAhead
      <4>4. ASSUME NEW v \in Workers, v # w, worker[v].pc = "answered"
            PROVE  Accepts(worker[v].tokens)'
        <5>1. Accepts(worker[v].tokens) /\ worker[v].tokens # used
          BY <1>0, <2>7, <3>5, <4>4 DEF AccountSafe, AnswersAreNewest
        <5>2. worker[v].tokens \in RefreshTokens
          BY <3>0
        <5>3. worker[v].tokens.grant # used.grant
          BY <1>0, <5>1, <5>2 DEF Accepts, RefreshTokens
        <5> QED BY <1>0, <1>2, <1>5, <4>4, <5>1, <5>2, <5>3 DEF Accepts, RefreshTokens
      <4>5. AnswersAreNewest'
        <5> SUFFICES ASSUME NEW v \in Workers, worker'[v].pc = "answered"
                     PROVE  /\ Accepts(worker[v].tokens)'
                            /\ account.tokens # worker'[v].tokens
                            /\ \A x \in Workers \ {v} : worker'[x].pc # "idle" =>
                                 worker'[x].tokens # worker'[v].tokens
          BY <1>0 DEF AnswersAreNewest
        <5>1. CASE v = w
          <6>1. worker'[v].tokens = next
            BY <3>2, <4>1, <5>1
          <6>2. \A x \in Workers \ {v} : worker'[x] = worker[x]
            BY <1>5, <5>1
          <6> QED BY <3>2, <4>3, <5>1, <6>1, <6>2
        <5>2. CASE v # w
          BY <1>5, <2>3, <2>5, <2>7, <3>5, <4>1, <4>3, <4>4, <5>2 DEF AccountSafe, AnswersAreNewest
        <5> QED BY <5>1, <5>2
      <4> QED BY <3>1, <3>3, <4>5 DEF AccountSafe
    <3> QED BY <3>4, <3>5
  <2> QED BY <1>0, <1>4, <2>6, <2>7 DEF AccountInv, AccountSafe
<1> QED BY <1>6, <1>7

\* The answer is saved: the account has the newest token again.
LEMMA SaveKeeps ==
  ASSUME SerialWrites, AccountInv, NEW w \in Workers,
         UpdateSocialAccountTokens(w) \/ SaveFails(w)
  PROVE  AccountInv'
<1> DEFINE t == worker[w].tokens
           A == [connected : BOOLEAN, tokens : RefreshTokens, near : BOOLEAN]
           W == [pc : {"idle", "loaded", "answered"}, tokens : RefreshTokens, near : BOOLEAN]
<1>1. /\ UNCHANGED <<instance, rotates, patch>> /\ worker[w].pc = "answered" /\ t \in RefreshTokens
      /\ account' \in A /\ account'.connected = account.connected
      /\ lost' \in BOOLEAN /\ (~lost' => ~lost)
  BY DEF UpdateSocialAccountTokens, SaveFails, AccountInv, TokensTyped
<1>2. /\ worker' \in [Workers -> W] /\ worker'[w].pc = "idle"
      /\ \A v \in Workers : v # w => worker'[v] = worker[v]
  <2>1. NoWork \in W /\ NoWork.pc = "idle"
    BY GrantZero DEF NoWork
  <2> QED BY <2>1 DEF UpdateSocialAccountTokens, SaveFails, Done, AccountInv, TokensTyped
<1>3. TokensTyped'
  BY <1>1, <1>2 DEF AccountInv, TokensTyped
<1>4. ASSUME account.connected, ~lost', AccountSafe PROVE AccountSafe'
  <2>1. Accepts(t) /\ t.number <= instance[t.grant]
    BY <1>1, <1>4 DEF AccountSafe, AnswersAreNewest, Accepts, RefreshTokens
  <2>2. account'.tokens = t
    BY <1>1, <1>4 DEF UpdateSocialAccountTokens, SaveFails
  <2>3. \A v \in Workers : worker'[v].pc # "idle" => v # w /\ worker'[v] = worker[v]
    BY <1>2
  <2>4. PatchIsCurrent'
    <3>1. CASE UpdateSocialAccountTokens(w)
      BY <1>1, <3>1 DEF UpdateSocialAccountTokens, WriteLockFree, PatchIsCurrent
    <3>2. CASE SaveFails(w)
      BY <1>1, <1>4, <3>2 DEF SaveFails, AccountSafe, PatchIsCurrent
    <3> QED BY <3>1, <3>2
  <2>5. NoneAhead'
    BY <1>1, <1>4, <2>1, <2>2, <2>3 DEF AccountSafe, NoneAhead
  <2>6. AnswersAreNewest'
    <3>1. \A v \in Workers : worker'[v].pc = "answered" =>
            /\ Accepts(worker[v].tokens) /\ Accepts(worker[v].tokens)'
            /\ rotates => t # worker[v].tokens
      BY <1>1, <1>4, <2>3 DEF AccountSafe, AnswersAreNewest, Accepts
    <3> QED BY <1>1, <1>4, <2>2, <2>3, <3>1 DEF AccountSafe, AnswersAreNewest
  <2>7. StaysConnected'
    BY <1>1, <2>1, <2>2 DEF StaysConnected, Accepts
  <2> QED BY <2>4, <2>5, <2>6, <2>7 DEF AccountSafe
<1> QED BY <1>1, <1>3, <1>4 DEF AccountInv, AccountSafe

\* An update of the account writes back the tokens it read.
LEMMA PatchKeeps ==
  ASSUME AccountInv, UpdateAccountReads \/ UpdateAccountWrites
  PROVE  AccountInv'
<1>1. /\ UNCHANGED <<instance, rotates, worker, lost>> /\ account'.connected = account.connected
      /\ account' \in [connected : BOOLEAN, tokens : RefreshTokens, near : BOOLEAN]
      /\ patch' \in [pc : {"idle", "loaded"}, tokens : RefreshTokens, near : BOOLEAN]
  <2>1. CASE UpdateAccountReads
    <3>1. patch' = [pc |-> "loaded", tokens |-> account.tokens, near |-> FALSE]
      BY <2>1 DEF UpdateAccountReads, NoWork
    <3>2. account.tokens \in RefreshTokens
      BY DEF AccountInv, TokensTyped
    <3>3. patch' \in [pc : {"idle", "loaded"}, tokens : RefreshTokens, near : BOOLEAN]
      BY <3>1, <3>2
    <3> QED BY <2>1, <3>3 DEF UpdateAccountReads, AccountInv, TokensTyped
  <2>2. CASE UpdateAccountWrites
    <3>1. patch' = [pc |-> "idle", tokens |-> NoToken, near |-> FALSE]
      BY <2>2 DEF UpdateAccountWrites, NoWork
    <3> QED BY <2>2, <3>1, GrantZero DEF UpdateAccountWrites, AccountInv, TokensTyped
  <2> QED BY <2>1, <2>2
<1>2. TokensTyped'
  BY <1>1 DEF AccountInv, TokensTyped
<1>3. ASSUME AccountSafe PROVE AccountSafe'
  <2>1. account'.tokens = account.tokens /\ (patch'.pc = "loaded" => patch'.tokens = account.tokens)
    <3>1. CASE UpdateAccountReads
      <4>1. patch'.tokens = account.tokens /\ UNCHANGED account
        BY <3>1 DEF UpdateAccountReads, NoWork
      <4> QED BY <4>1
    <3>2. CASE UpdateAccountWrites
      <4>1. patch'.pc = "idle" /\ patch.tokens = account.tokens
        BY <1>3, <3>2 DEF UpdateAccountWrites, NoWork, AccountSafe, PatchIsCurrent
      <4>2. account' = account \/ account' = [account EXCEPT !.tokens = account.tokens]
        BY <3>2, <4>1 DEF UpdateAccountWrites
      <4>3. account'.tokens = account.tokens
        BY <4>2 DEF AccountInv, TokensTyped
      <4> QED BY <4>1, <4>3
    <3> QED BY <3>1, <3>2
  <2> QED BY <1>1, <1>3, <2>1 DEF AccountSafe, NoneAhead, AnswersAreNewest, PatchIsCurrent,
                                  StaysConnected, Accepts
<1> QED BY <1>1, <1>2, <1>3 DEF AccountInv, AccountSafe

\* A token of a new grant is typed, or none: no worker holds it.
LEMMA TypeKeeps ==
  ASSUME SerialWrites, AccountInv, NEW g \in Grants, TypeTokens(g)
  PROVE  AccountInv'
<1> DEFINE new == [grant |-> g, number |-> 0]
<1>1. UNCHANGED <<rotates, worker, patch, lost>> /\ patch.pc = "idle" /\ account.connected
  BY DEF TypeTokens, WriteLockFree, AccountInv, TokensTyped
<1>2. /\ new \in RefreshTokens /\ new.grant = g /\ new.number = 0 /\ new # NoToken
      /\ instance \in [Grants -> Nat \cup {-1}]
  BY DEF RefreshTokens, NoToken, AccountInv, TokensTyped
<1> HIDE DEF new
<1>3. \/ /\ account' = [account EXCEPT !.tokens = new] /\ instance[g] = -1
         /\ instance' = [instance EXCEPT ![g] = 0]
      \/ account' = [account EXCEPT !.tokens = NoToken] /\ UNCHANGED instance
  BY DEF TypeTokens, new
<1>4. /\ account'.connected /\ account' \in [connected : BOOLEAN, tokens : RefreshTokens, near : BOOLEAN]
      /\ instance' \in [Grants -> Nat \cup {-1}]
      /\ \A h \in Grants : instance[h] <= instance'[h]
  BY <1>1, <1>2, <1>3, GrantZero DEF AccountInv, TokensTyped
<1>5. TokensTyped'
  BY <1>1, <1>4 DEF AccountInv, TokensTyped
<1>6. ASSUME AccountSafe PROVE AccountSafe'
  <2>0. /\ \A w \in Workers : worker[w].tokens \in RefreshTokens
        /\ \A u \in RefreshTokens : u.grant \in Grants /\ u.number \in Nat \cup {-1}
    BY DEF AccountInv, TokensTyped, RefreshTokens
  <2>1. /\ account'.tokens \in {new, NoToken}
        /\ account'.tokens.number <= instance'[account'.tokens.grant]
        /\ account'.tokens # NoToken => Accepts(account.tokens)'
    <3>1. CASE account' = [account EXCEPT !.tokens = new] /\ instance' = [instance EXCEPT ![g] = 0]
      <4>1. account'.tokens = new /\ instance'[g] = 0
        BY <1>2, <3>1 DEF AccountInv, TokensTyped
      <4> QED BY <1>2, <4>1 DEF Accepts
    <3>2. CASE account' = [account EXCEPT !.tokens = NoToken]
      <4>1. account'.tokens = NoToken /\ instance'[0] \in Nat \cup {-1}
        BY <1>4, <3>2, GrantZero DEF AccountInv, TokensTyped
      <4> QED BY <4>1 DEF NoToken
    <3> QED BY <1>3, <3>1, <3>2
  <2>2. NoneAhead'
    <3>1. \A w \in Workers : worker[w].pc # "idle" =>
            worker[w].tokens.number <= instance'[worker[w].tokens.grant]
      <4> SUFFICES ASSUME NEW w \in Workers, worker[w].pc # "idle"
                   PROVE  worker[w].tokens.number <= instance'[worker[w].tokens.grant]
        OBVIOUS
      <4> DEFINE u == worker[w].tokens
      <4>1. /\ u.number <= instance[u.grant] /\ u.grant \in Grants /\ u.number \in Nat \cup {-1}
            /\ instance[u.grant] <= instance'[u.grant] /\ instance[u.grant] \in Nat \cup {-1}
            /\ instance'[u.grant] \in Nat \cup {-1}
        BY <1>2, <1>4, <1>6, <2>0 DEF AccountSafe, NoneAhead
      <4> HIDE DEF u
      <4>2. u.number <= instance'[u.grant]
        BY <4>1
      <4> QED BY <4>2 DEF u
    <3> QED BY <1>1, <2>1, <3>1 DEF NoneAhead
  <2>3. \A w \in Workers : worker[w].pc = "answered" =>
          Accepts(worker[w].tokens)' /\ worker[w].tokens # account'.tokens
    <3> SUFFICES ASSUME NEW w \in Workers, worker[w].pc = "answered"
                 PROVE  Accepts(worker[w].tokens)' /\ worker[w].tokens # account'.tokens
      OBVIOUS
    <3>1. Accepts(worker[w].tokens) /\ worker[w].tokens \in RefreshTokens
      BY <1>6, <2>0 DEF AccountSafe, AnswersAreNewest
    <3>2. instance[g] = -1 => worker[w].tokens.grant # g
      BY <3>1 DEF Accepts, RefreshTokens
    <3>3. instance'[worker[w].tokens.grant] = instance[worker[w].tokens.grant]
      BY <1>2, <1>3, <2>0, <3>1, <3>2
    <3>4. worker[w].tokens # account'.tokens
      <4>1. CASE account' = [account EXCEPT !.tokens = new] /\ instance[g] = -1
        BY <1>2, <3>2, <4>1 DEF AccountInv, TokensTyped
      <4>2. CASE account' = [account EXCEPT !.tokens = NoToken]
        BY <3>1, <4>2 DEF AccountInv, TokensTyped, Accepts
      <4> QED BY <1>3, <4>1, <4>2
    <3> QED BY <1>1, <3>1, <3>3, <3>4 DEF Accepts
  <2>4. AnswersAreNewest'
    BY <1>1, <1>6, <2>3 DEF AccountSafe, AnswersAreNewest
  <2>5. PatchIsCurrent' /\ StaysConnected'
    BY <1>1, <2>1 DEF PatchIsCurrent, StaysConnected
  <2> QED BY <2>2, <2>4, <2>5 DEF AccountSafe
<1> QED BY <1>1, <1>5, <1>6 DEF AccountInv, AccountSafe

\* An account whose tokens are revoked is deleted, or its token is lost.
LEMMA DeleteKeeps ==
  ASSUME AccountInv, NEW revoked \in BOOLEAN, NEW deleted \in BOOLEAN,
         handleDeleteAccount(revoked, deleted)
  PROVE  AccountInv'
<1>1. /\ UNCHANGED <<rotates, worker, patch>> /\ lost' = (lost \/ (revoked /\ ~deleted))
      /\ account' = [account EXCEPT !.connected = ~deleted] /\ account.connected
      /\ instance' = IF revoked /\ account.tokens # NoToken
                     THEN [instance EXCEPT ![account.tokens.grant] = -1] ELSE instance
  BY DEF handleDeleteAccount
<1>2. /\ account' \in [connected : BOOLEAN, tokens : RefreshTokens, near : BOOLEAN]
      /\ account'.connected = ~deleted /\ account'.tokens = account.tokens
      /\ instance' \in [Grants -> Nat \cup {-1}] /\ lost' \in BOOLEAN
  BY <1>1 DEF AccountInv, TokensTyped, RefreshTokens
<1>3. TokensTyped'
  BY <1>1, <1>2 DEF AccountInv, TokensTyped
<1>4. ASSUME account'.connected, ~lost' PROVE AccountSafe'
  <2>1. ~revoked /\ ~lost /\ UNCHANGED instance
    BY <1>1, <1>2, <1>4
  <2> QED BY <1>1, <1>2, <2>1 DEF AccountInv, AccountSafe, NoneAhead, AnswersAreNewest,
                                  PatchIsCurrent, StaysConnected, Accepts
<1> QED BY <1>3, <1>4 DEF AccountInv, AccountSafe

\* As long as no token is lost, a connected account can be refreshed: the instance accepts
\* its token, or the worker that holds the newer one is about to save it (EnsureFresh), for
\* any number of workers and tokens, where the transaction that updates an account keeps
\* other writers out from its start, as on SQLite.
THEOREM StaysRefreshable ==
  ASSUME SerialWrites
  PROVE  TokensSpec => []StaysConnected
<1>1. TokensInit => AccountInv
  BY AccountInvInit
<1>2. AccountInv /\ [TokensNext]_tokenVars => AccountInv'
  <2> SUFFICES ASSUME AccountInv, [TokensNext]_tokenVars PROVE AccountInv'
    OBVIOUS
  <2>1. CASE \/ TimePasses
             \/ \E w \in Workers : LoadAccount(w) \/ UseSnapshot(w) \/ RefreshRefused(w)
    BY <2>1, WorkerLoads
  <2>2. CASE \E w \in Workers : UpdateSocialAccountTokens(w) \/ SaveFails(w)
    BY <2>2, SaveKeeps
  <2>3. CASE \E w \in Workers, arrives \in BOOLEAN : RefreshAtInstance(w, arrives)
    BY <2>3, RefreshKeeps
  <2>4. CASE UpdateAccountReads \/ UpdateAccountWrites
    BY <2>4, PatchKeeps
  <2>5. CASE \E g \in Grants : TypeTokens(g)
    BY <2>5, TypeKeeps
  <2>6. CASE \E revoked, deleted \in BOOLEAN : handleDeleteAccount(revoked, deleted)
    BY <2>6, DeleteKeeps
  <2>7. CASE UNCHANGED tokenVars
    BY <2>7 DEF tokenVars, AccountInv, AccountSafe, TokensTyped, NoneAhead, AnswersAreNewest,
                PatchIsCurrent, StaysConnected, Accepts
  <2> QED BY <2>1, <2>2, <2>3, <2>4, <2>5, <2>6, <2>7 DEF TokensNext
<1>3. AccountInv => StaysConnected
  BY DEF AccountInv, AccountSafe, StaysConnected
<1> QED BY <1>1, <1>2, <1>3, PTL DEF TokensSpec

(* The media library. *)

UploadStates == [pc : {"idle", "saved", "create"}, sha : Contents \cup {NoItem}]
DeleteStates == [pc : {"idle", "row", "file"}, item : ItemIds \cup {NoItem},
                 sha : Contents \cup {NoItem}]

MediaTyped ==
  /\ rows \in [ItemIds -> Contents \cup {NoItem, Gone}]
  /\ up \in [Uploaders -> UploadStates] /\ del \in [Deleters -> DeleteStates]

OneRowPerContent == \A i, j \in ItemIds : rows[i] \in Contents /\ rows[i] = rows[j] => i = j

\* The file an upload is about to make a row for is there, or a deletion has crossed it.
UploadsHaveFiles == \A u \in Uploaders : up[u].pc # "idle" => up[u].sha \in files \cup dropped

\* What a deletion is about to remove has no row but the deletion's own, and nobody uploads
\* it, unless the two have crossed.
DeletesAreAlone ==
  \A d \in Deleters : del[d].pc # "idle" /\ del[d].sha \notin dropped =>
    /\ \A i \in ItemIds : rows[i] = del[d].sha => del[d].pc = "row" /\ i = del[d].item
    /\ \A u \in Uploaders : up[u].pc # "idle" => up[u].sha # del[d].sha
DeletesHaveItems ==
  \A d \in Deleters : del[d].pc # "idle" => del[d].item \in ItemIds /\ del[d].sha \in Contents

RowsHaveFiles == \A i \in ItemIds : rows[i] \in Contents => rows[i] \in files \cup dropped

LibraryInv ==
  MediaTyped /\ OneRowPerContent /\ UploadsHaveFiles /\ DeletesAreAlone /\ DeletesHaveItems
  /\ RowsHaveFiles

\* A mapping leads to an upload of its item, as it is, for its account.
MappingsMatch ==
  \A k \in DOMAIN mappings :
    /\ mappings[k] \in provided /\ k = <<mappings[k].item, mappings[k].account>>
    /\ mappings[k].item \in ItemIds
    /\ mappings[k].sha \in Contents /\ rows[mappings[k].item] = mappings[k].sha

\* What a worker has translated so far is right; p are the uploads.
Reading == {"mapping", "upload"}
SyncStates(p) == [pc : {"idle", "item", "done"} \cup Reading, account : Outlets \cup {NoItem},
                  ids : Seq(ItemIds), out : Seq(p \cup ItemIds), saw : Seq(Contents \cup {NoItem})]
MediumRight(s, n, p) ==
  IF s.saw[n] = NoItem THEN s.out[n] = s.ids[n]
  ELSE \E q \in p : s.out[n] = q /\ q.account = s.account /\ q.item = s.ids[n] /\ q.sha = s.saw[n]
SyncRight(s, p) ==
  /\ s \in SyncStates(p)
  /\ Len(s.saw) = Len(s.out) + (IF s.pc \in Reading THEN 1 ELSE 0)
  /\ s.pc \in {"item"} \cup Reading => Len(s.out) < Len(s.ids)
  /\ \A n \in 1..Len(s.out) : MediumRight(s, n, p)
SyncsMatch == DOMAIN sync = Syncers /\ \A w \in Syncers : SyncRight(sync[w], provided)

\* The item a worker has read is as it was, or deleted.
ReadsHold ==
  \A w \in Syncers : sync[w].pc \in Reading =>
    RowRead(w) \in Contents /\ rows[Current(w)] \in {RowRead(w), Gone}

MediaInv == LibraryInv /\ MappingsMatch /\ SyncsMatch /\ ReadsHold /\ DOMAIN sync = Syncers

\* A worker that has nothing to translate, or nothing translated yet.
LEMMA FreshIsRight ==
  ASSUME NEW p, NEW pc \in {"idle", "item"}, NEW a \in Outlets \cup {NoItem}, NEW ids \in Seq(ItemIds),
         pc = "item" => 0 < Len(ids)
  PROVE  SyncRight([pc |-> pc, account |-> a, ids |-> ids, out |-> <<>>, saw |-> <<>>], p)
<1> DEFINE s == [pc |-> pc, account |-> a, ids |-> ids, out |-> <<>>, saw |-> <<>>]
<1>1. /\ s.pc = pc /\ s.ids = ids /\ s.out = <<>> /\ s.saw = <<>> /\ pc \notin Reading
      /\ Len(<<>>) = 0 /\ s \in SyncStates(p)
  BY DEF SyncStates, Reading
<1> HIDE DEF s
<1>2. SyncRight(s, p)
  BY <1>1 DEF SyncRight, Reading
<1> QED BY <1>2 DEF s
LEMMA IdleIsRight == \A p : SyncRight(IdleSync, p)
<1>1. <<>> \in Seq(ItemIds)
  OBVIOUS
<1> QED BY <1>1, FreshIsRight DEF IdleSync

LEMMA MediaInvInit == MediaInit => MediaInv
<1> SUFFICES ASSUME MediaInit PROVE MediaInv
  OBVIOUS
<1>1. LibraryInv
  BY MediaAssumption DEF MediaInit, LibraryInv, MediaTyped, UploadStates, DeleteStates, OneRowPerContent,
         UploadsHaveFiles, DeletesAreAlone, DeletesHaveItems, RowsHaveFiles
<1>2. MappingsMatch
  BY DEF MediaInit, MappingsMatch
<1>3. SyncsMatch /\ ReadsHold
  BY IdleIsRight DEF MediaInit, SyncsMatch, ReadsHold, Reading, IdleSync
<1> QED BY <1>1, <1>2, <1>3 DEF MediaInv, SyncsMatch

\* Saving a file, finding its row and making one keep the library whole.
LEMMA UploadKeeps ==
  ASSUME LibraryInv, NEW u \in Uploaders,
         (\E c \in Contents : SaveMediaFile(u, c)) \/ FindOrCreate(u) \/ CreateMediaItem(u)
  PROVE  LibraryInv'
<1>1. CASE \E c \in Contents : SaveMediaFile(u, c)
  <2> PICK c \in Contents : SaveMediaFile(u, c)
    BY <1>1
  <2> DEFINE new == [pc |-> "saved", sha |-> c]
  <2>1. /\ UNCHANGED <<rows, del>> /\ files' = files \cup {c} /\ dropped \subseteq dropped'
        /\ \A d \in Deleters : del[d].pc # "idle" /\ del[d].sha = c => c \in dropped'
        /\ up' = [up EXCEPT ![u] = new]
    BY DEF SaveMediaFile
  <2>2. new \in UploadStates /\ new.pc = "saved" /\ new.sha = c
    BY DEF UploadStates
  <2> HIDE DEF new
  <2>3. /\ up' \in [Uploaders -> UploadStates] /\ up'[u] = new
        /\ \A v \in Uploaders : v # u => up'[v] = up[v]
    BY <2>1, <2>2 DEF LibraryInv, MediaTyped
  <2>4. MediaTyped' /\ OneRowPerContent' /\ DeletesHaveItems' /\ RowsHaveFiles'
    BY <2>1, <2>3 DEF LibraryInv, MediaTyped, OneRowPerContent, DeletesHaveItems, RowsHaveFiles
  <2>5. UploadsHaveFiles'
    BY <2>1, <2>2, <2>3 DEF LibraryInv, UploadsHaveFiles
  <2>6. DeletesAreAlone'
    BY <2>1, <2>2, <2>3 DEF LibraryInv, DeletesAreAlone
  <2> QED BY <2>4, <2>5, <2>6 DEF LibraryInv
<1>2. CASE FindOrCreate(u)
  <2>1. /\ UNCHANGED <<rows, del, files, dropped>> /\ up[u].pc = "saved"
        /\ \E pc \in {"create", "idle"} : up' = [up EXCEPT ![u].pc = pc]
    BY <1>2 DEF FindOrCreate
  <2>2. /\ up' \in [Uploaders -> UploadStates]
        /\ \A v \in Uploaders : up'[v].pc # "idle" => up[v].pc # "idle" /\ up'[v].sha = up[v].sha
    BY <2>1 DEF LibraryInv, MediaTyped, UploadStates
  <2> QED BY <2>1, <2>2 DEF LibraryInv, MediaTyped, OneRowPerContent, DeletesHaveItems,
                            RowsHaveFiles, UploadsHaveFiles, DeletesAreAlone
<1>3. CASE CreateMediaItem(u)
  <2> DEFINE c == up[u].sha
  <2>1. /\ UNCHANGED <<del, files, dropped>> /\ up[u].pc = "create"
        /\ up' = [up EXCEPT ![u].pc = "idle"]
        /\ \/ UNCHANGED rows
           \/ /\ \A j \in ItemIds : rows[j] \in Contents => rows[j] # c
              /\ \E i \in ItemIds : rows[i] = NoItem /\ rows' = [rows EXCEPT ![i] = c]
    BY <1>3 DEF CreateMediaItem, FindMediaItemByTeamSHA256, Items
  <2>2. /\ up' \in [Uploaders -> UploadStates] /\ c \in Contents \cup {NoItem}
        /\ \A v \in Uploaders : up'[v].pc # "idle" => up[v].pc # "idle" /\ up'[v].sha = up[v].sha
    BY <2>1 DEF LibraryInv, MediaTyped, UploadStates
  <2>3. CASE UNCHANGED rows
    BY <2>1, <2>2, <2>3 DEF LibraryInv, MediaTyped, OneRowPerContent, DeletesHaveItems,
                            RowsHaveFiles, UploadsHaveFiles, DeletesAreAlone
  <2>4. ASSUME NEW i \in ItemIds, rows[i] = NoItem, rows' = [rows EXCEPT ![i] = c],
               \A j \in ItemIds : rows[j] \in Contents => rows[j] # c
        PROVE  LibraryInv'
    <3>1. /\ rows' \in [ItemIds -> Contents \cup {NoItem, Gone}] /\ rows'[i] = c
          /\ \A j \in ItemIds : j # i => rows'[j] = rows[j]
      BY <2>2, <2>4 DEF LibraryInv, MediaTyped
    <3>2. MediaTyped' /\ DeletesHaveItems' /\ UploadsHaveFiles'
      BY <2>1, <2>2, <3>1 DEF LibraryInv, MediaTyped, DeletesHaveItems, UploadsHaveFiles
    <3>3. OneRowPerContent' /\ RowsHaveFiles'
      BY <2>1, <2>4, <3>1 DEF LibraryInv, OneRowPerContent, RowsHaveFiles, UploadsHaveFiles
    <3>4. \A d \in Deleters : del[d].pc # "idle" /\ del[d].sha \notin dropped => c # del[d].sha
      BY <2>1 DEF LibraryInv, DeletesAreAlone
    <3>5. DeletesAreAlone'
      BY <2>1, <2>2, <3>1, <3>4 DEF LibraryInv, DeletesAreAlone
    <3> QED BY <3>2, <3>3, <3>5 DEF LibraryInv
  <2> QED BY <2>1, <2>3, <2>4
<1> QED BY <1>1, <1>2, <1>3

\* A deletion removes its row, then its file, or is refused.
LEMMA DeletionKeeps ==
  ASSUME LibraryInv, NEW d \in Deleters,
         \/ \E i \in ItemIds : StartDelete(d, i)
         \/ DeleteMediaItem(d) \/ DeleteRefused(d) \/ DeleteMediaFile(d)
  PROVE  LibraryInv'
<1> DEFINE none == [pc |-> "idle", item |-> NoItem, sha |-> NoItem]
<1>0. none \in DeleteStates /\ none.pc = "idle"
  BY DEF DeleteStates
<1> HIDE DEF none
<1>1. CASE \E i \in ItemIds : StartDelete(d, i)
  <2> PICK i \in ItemIds : StartDelete(d, i)
    BY <1>1
  <2> DEFINE new == [pc |-> "row", item |-> i, sha |-> rows[i]]
  <2>1. /\ UNCHANGED <<rows, files, up>> /\ dropped \subseteq dropped' /\ rows[i] \in Contents
        /\ \A u \in Uploaders : up[u].pc # "idle" /\ up[u].sha = rows[i] => rows[i] \in dropped'
        /\ del' = [del EXCEPT ![d] = new]
    BY DEF StartDelete, Items
  <2>2. new \in DeleteStates /\ new.pc = "row" /\ new.item = i /\ new.sha = rows[i]
    BY <2>1 DEF DeleteStates
  <2> HIDE DEF new
  <2>3. /\ del' \in [Deleters -> DeleteStates] /\ del'[d] = new
        /\ \A e \in Deleters : e # d => del'[e] = del[e]
    BY <2>1, <2>2 DEF LibraryInv, MediaTyped
  <2>4. MediaTyped' /\ OneRowPerContent' /\ RowsHaveFiles' /\ UploadsHaveFiles' /\ DeletesHaveItems'
    BY <2>1, <2>2, <2>3 DEF LibraryInv, MediaTyped, OneRowPerContent, RowsHaveFiles,
                            UploadsHaveFiles, DeletesHaveItems
  <2>5. DeletesAreAlone'
    BY <2>1, <2>2, <2>3 DEF LibraryInv, DeletesAreAlone, OneRowPerContent
  <2> QED BY <2>4, <2>5 DEF LibraryInv
<1>2. CASE DeleteMediaItem(d)
  <2> DEFINE i == del[d].item
  <2>1. /\ UNCHANGED <<files, dropped, up>> /\ del[d].pc = "row"
        /\ rows' = [rows EXCEPT ![i] = Gone] /\ del' = [del EXCEPT ![d].pc = "file"]
    BY <1>2 DEF DeleteMediaItem
  <2>2. /\ del' \in [Deleters -> DeleteStates] /\ del'[d].sha = del[d].sha /\ del'[d].item = i
        /\ \A e \in Deleters : e # d => del'[e] = del[e]
    BY <2>1 DEF LibraryInv, MediaTyped, DeleteStates
  <2>3. /\ rows' \in [ItemIds -> Contents \cup {NoItem, Gone}] /\ i \in ItemIds /\ rows'[i] = Gone
        /\ \A j \in ItemIds : j # i => rows'[j] = rows[j]
    BY <2>1 DEF LibraryInv, MediaTyped, DeletesHaveItems
  <2>4. DeletesHaveItems'
    BY <2>1, <2>2 DEF LibraryInv, DeletesHaveItems
  <2>5. MediaTyped' /\ OneRowPerContent' /\ RowsHaveFiles' /\ UploadsHaveFiles'
    BY <2>1, <2>2, <2>3, MediaAssumption DEF LibraryInv, MediaTyped, OneRowPerContent,
                                             RowsHaveFiles, UploadsHaveFiles
  <2>6. DeletesAreAlone'
    <3> SUFFICES ASSUME NEW e \in Deleters, del'[e].pc # "idle", del'[e].sha \notin dropped
                 PROVE  /\ \A j \in ItemIds : rows'[j] = del'[e].sha =>
                             del'[e].pc = "row" /\ j = del'[e].item
                        /\ \A u \in Uploaders : up[u].pc # "idle" => up[u].sha # del'[e].sha
      BY <2>1 DEF DeletesAreAlone
    <3>1. del'[e].sha # Gone
      BY <2>4, MediaAssumption DEF DeletesHaveItems
    <3>2. CASE e = d
      BY <2>1, <2>2, <2>3, <3>1, <3>2 DEF LibraryInv, DeletesAreAlone
    <3>3. CASE e # d
      BY <2>1, <2>2, <2>3, <3>1, <3>3 DEF LibraryInv, DeletesAreAlone
    <3> QED BY <3>2, <3>3
  <2> QED BY <2>4, <2>5, <2>6 DEF LibraryInv
<1>3. CASE DeleteRefused(d) \/ DeleteMediaFile(d)
  <2>1. /\ UNCHANGED <<rows, dropped, up>> /\ del' = [del EXCEPT ![d] = none]
        /\ files' = files \/ (del[d].pc = "file" /\ files' = files \ {del[d].sha})
    BY <1>3 DEF DeleteRefused, DeleteMediaFile, none
  <2>2. /\ del' \in [Deleters -> DeleteStates] /\ del'[d].pc = "idle"
        /\ \A e \in Deleters : e # d => del'[e] = del[e]
    BY <1>0, <2>1 DEF LibraryInv, MediaTyped
  <2>3. MediaTyped' /\ OneRowPerContent' /\ DeletesHaveItems' /\ DeletesAreAlone'
    BY <2>1, <2>2 DEF LibraryInv, MediaTyped, OneRowPerContent, DeletesHaveItems, DeletesAreAlone
  <2>4. RowsHaveFiles' /\ UploadsHaveFiles'
    BY <2>1 DEF LibraryInv, RowsHaveFiles, UploadsHaveFiles, DeletesAreAlone
  <2> QED BY <2>3, <2>4 DEF LibraryInv
<1> QED BY <1>1, <1>2, <1>3

\* More uploads take nothing from a worker.
LEMMA SyncStaysRight ==
  ASSUME NEW s, NEW p, NEW q, p \subseteq q, SyncRight(s, p)
  PROVE  SyncRight(s, q)
<1> DEFINE P == p \cup ItemIds
           Q == q \cup ItemIds
<1>1. s.out \in Seq(P) /\ P \subseteq Q
  BY DEF SyncRight, SyncStates
<1> HIDE DEF P, Q
<1>2. s.out \in Seq(Q)
  BY <1>1, SeqDef
<1>3. s \in SyncStates(q)
  BY <1>2 DEF SyncRight, SyncStates, Q
<1>4. \A n \in 1..Len(s.out) : MediumRight(s, n, p) => MediumRight(s, n, q)
  BY DEF MediumRight
<1> QED BY <1>3, <1>4 DEF SyncRight

LEMMA CurrentIsItem ==
  ASSUME NEW s, NEW p, SyncRight(s, p), Len(s.out) < Len(s.ids) \/ s.pc \in Reading
  PROVE  s.ids[Len(s.out) + 1] \in ItemIds
<1>1. s.ids \in Seq(ItemIds) /\ Len(s.out) \in Nat /\ Len(s.ids) \in Nat /\ Len(s.out) < Len(s.ids)
  BY DEF SyncRight, SyncStates
<1>2. Len(s.out) + 1 \in 1..Len(s.ids)
  BY <1>1
<1> QED BY <1>1, <1>2, ElementOfSeq

\* Rows are made for ids that had none, and deleted ids stay so.
RowsStay ==
  \A i \in ItemIds : /\ rows[i] \in Contents => rows'[i] \in {rows[i], Gone}
                     /\ rows[i] = Gone => rows'[i] = Gone

\* Those who upload and delete leave the workers alone, and the mappings of what stays.
LEMMA LibraryOnly ==
  ASSUME MediaInv, LibraryInv', UNCHANGED <<provided, sync>>, RowsStay,
         \A k \in DOMAIN mappings' : /\ k \in DOMAIN mappings /\ mappings'[k] = mappings[k]
                                     /\ rows'[mappings[k].item] = rows[mappings[k].item]
  PROVE  MediaInv'
<1>1. MappingsMatch'
  BY DEF MediaInv, MappingsMatch
<1>2. ASSUME NEW w \in Syncers, sync[w].pc \in Reading
      PROVE  RowRead(w) \in Contents /\ rows'[Current(w)] \in {RowRead(w), Gone}
  <2>1. Current(w) \in ItemIds
    BY <1>2, CurrentIsItem DEF MediaInv, SyncsMatch, Current
  <2> QED BY <1>2, <2>1 DEF RowsStay, MediaInv, ReadsHold
<1>3. ReadsHold'
  BY <1>2 DEF ReadsHold, RowRead, Current
<1> QED BY <1>1, <1>3 DEF MediaInv, SyncsMatch

\* One worker moves; what it holds is right.
LEMMA SyncEntry ==
  ASSUME MediaInv, NEW w \in Syncers, NEW s, sync' = [sync EXCEPT ![w] = s],
         provided \subseteq provided', SyncRight(s, provided'), UNCHANGED rows,
         s.pc \in Reading => /\ s.saw[Len(s.saw)] \in Contents
                             /\ rows[s.ids[Len(s.out) + 1]] \in {s.saw[Len(s.saw)], Gone}
  PROVE  SyncsMatch' /\ ReadsHold'
<1>1. DOMAIN sync' = Syncers /\ \A v \in Syncers : sync'[v] = IF v = w THEN s ELSE sync[v]
  BY DEF MediaInv
<1>2. \A v \in Syncers : SyncRight(sync[v], provided')
  BY SyncStaysRight DEF MediaInv, SyncsMatch
<1>3. SyncsMatch'
  BY <1>1, <1>2 DEF SyncsMatch
<1>4. ASSUME NEW v \in Syncers, sync'[v].pc \in Reading
      PROVE  /\ sync'[v].saw[Len(sync'[v].saw)] \in Contents
             /\ rows[sync'[v].ids[Len(sync'[v].out) + 1]] \in {sync'[v].saw[Len(sync'[v].saw)], Gone}
  BY <1>1, <1>4 DEF MediaInv, ReadsHold, RowRead, Current
<1> QED BY <1>3, <1>4 DEF ReadsHold, RowRead, Current

Fits(q, acct, item, sha, p) == q \in p /\ q.account = acct /\ q.item = item /\ q.sha = sha

\* One more id is translated, into what it should be.
LEMMA Translated ==
  ASSUME NEW s, NEW p, SyncRight(s, p), NEW given \in p \cup ItemIds, NEW pc \in {"item", "done"},
         NEW saw \in Seq(Contents \cup {NoItem}), Len(saw) = Len(s.out) + 1,
         pc = "item" => Len(s.out) + 1 < Len(s.ids),
         \A n \in 1..Len(s.out) : saw[n] = s.saw[n],
         saw[Len(s.out) + 1] = NoItem => given = s.ids[Len(s.out) + 1],
         saw[Len(s.out) + 1] # NoItem => Fits(given, s.account, s.ids[Len(s.out) + 1], saw[Len(s.out) + 1], p)
  PROVE  SyncRight([s EXCEPT !.out = Append(s.out, given), !.pc = pc, !.saw = saw], p)
<1> DEFINE new == [s EXCEPT !.out = Append(s.out, given), !.pc = pc, !.saw = saw]
           P == p \cup ItemIds
<1>1. s \in SyncStates(p) /\ s.out \in Seq(P) /\ Len(s.out) \in Nat
  BY DEF SyncRight, SyncStates
<1>2. /\ Append(s.out, given) \in Seq(P) /\ Len(Append(s.out, given)) = Len(s.out) + 1
      /\ \A n \in 1..Len(s.out) : Append(s.out, given)[n] = s.out[n]
      /\ Append(s.out, given)[Len(s.out) + 1] = given
  BY <1>1
<1>3. /\ new \in SyncStates(p) /\ new.out = Append(s.out, given) /\ new.pc = pc /\ new.saw = saw
      /\ new.ids = s.ids /\ new.account = s.account
  BY <1>1, <1>2 DEF SyncStates
<1> HIDE DEF new
<1>4. ASSUME NEW n \in 1..Len(s.out) PROVE MediumRight(new, n, p)
  <2>1. MediumRight(s, n, p)
    BY DEF SyncRight
  <2> QED BY <1>2, <1>3, <2>1 DEF MediumRight
<1>5. MediumRight(new, Len(s.out) + 1, p)
  BY <1>2, <1>3 DEF MediumRight, Fits
<1>6. \A n \in 1..Len(new.out) : MediumRight(new, n, p)
  <2> SUFFICES ASSUME NEW n \in 1..Len(new.out) PROVE MediumRight(new, n, p)
    OBVIOUS
  <2>1. n \in 1..Len(s.out) \/ n = Len(s.out) + 1
    BY <1>1, <1>2, <1>3
  <2> QED BY <1>4, <1>5, <2>1
<1>8. /\ new.pc \notin Reading /\ Len(new.saw) = Len(new.out)
      /\ new.pc = "item" => Len(new.out) < Len(new.ids)
  BY <1>2, <1>3 DEF Reading
<1>7. SyncRight(new, p)
  <2>1. Len(new.out) + 0 = Len(new.out)
    BY <1>1, <1>2, <1>3
  <2> QED BY <1>3, <1>6, <1>8, <2>1 DEF SyncRight
<1> QED BY <1>7 DEF new

\* A worker translates the media of a post, one id after the other.
LEMMA SyncKeeps ==
  ASSUME MediaInv, NEW w \in Syncers,
         \/ \E a \in Outlets, ids \in PostMedia : StartSync(w, a, ids)
         \/ GetMediaItemByID(w) \/ GetMediaProviderMapping(w) \/ UploadAndMap(w)
               \/ UploadFails(w) \/ PublishWith(w)
  PROVE  MediaInv'
<1> DEFINE s == sync[w]
           id == Current(w)
<1>0. /\ LibraryInv' /\ UNCHANGED rows
  <2>1. UNCHANGED <<rows, files, dropped, up, del>>
    BY DEF StartSync, GetMediaItemByID, GetMediaProviderMapping, UploadAndMap, UploadFails, PublishWith
  <2> QED BY <2>1 DEF MediaInv, LibraryInv, MediaTyped, OneRowPerContent, UploadsHaveFiles,
                      DeletesAreAlone, DeletesHaveItems, RowsHaveFiles
<1>1. CASE \/ \E a \in Outlets, ids \in PostMedia : StartSync(w, a, ids)
           \/ UploadFails(w) \/ PublishWith(w)
  <2>1. UNCHANGED <<mappings, provided>>
    BY <1>1 DEF StartSync, UploadFails, PublishWith
  <2>2. CASE UploadFails(w) \/ PublishWith(w)
    <3>1. sync' = [sync EXCEPT ![w] = IdleSync] /\ IdleSync.pc \notin Reading
      BY <2>2 DEF UploadFails, PublishWith, IdleSync, Reading
    <3>2. SyncsMatch' /\ ReadsHold'
      BY <1>0, <2>1, <3>1, IdleIsRight, SyncEntry
    <3> QED BY <1>0, <2>1, <3>2 DEF MediaInv, MappingsMatch, SyncsMatch
  <2>3. ASSUME NEW a \in Outlets, NEW ids \in PostMedia, StartSync(w, a, ids) PROVE MediaInv'
    <3> DEFINE new == [pc |-> "item", account |-> a, ids |-> ids, out |-> <<>>, saw |-> <<>>]
    <3>1. sync' = [sync EXCEPT ![w] = new] /\ new.pc \notin Reading
      BY <2>3 DEF StartSync, Reading
    <3>2. ids \in Seq(ItemIds) /\ 0 < Len(ids)
      <4>1. \A i, j \in ItemIds : /\ <<i>> \in Seq(ItemIds) /\ Len(<<i>>) = 1
                                  /\ <<i, j>> \in Seq(ItemIds) /\ Len(<<i, j>>) = 2
        OBVIOUS
      <4>2. PICK i, j \in ItemIds : ids = <<i>> \/ ids = <<i, j>>
        BY DEF PostMedia
      <4>3. CASE ids = <<i>>
        BY <4>1, <4>3
      <4>4. CASE ids = <<i, j>>
        BY <4>1, <4>4
      <4> QED BY <4>2, <4>3, <4>4
    <3>3. SyncRight(new, provided')
      BY <3>2, FreshIsRight
    <3> HIDE DEF new
    <3>4. SyncsMatch' /\ ReadsHold'
      BY <1>0, <2>1, <3>1, <3>3, SyncEntry
    <3> QED BY <1>0, <2>1, <3>4 DEF MediaInv, MappingsMatch, SyncsMatch
  <2> QED BY <1>1, <2>2, <2>3
<1>2. CASE GetMediaItemByID(w)
  <2>1. /\ UNCHANGED <<mappings, provided>> /\ s.pc = "item" /\ SyncRight(s, provided)
        /\ Len(s.out) < Len(s.ids)
    BY <1>2 DEF GetMediaItemByID, MediaInv, SyncsMatch, SyncRight
  <2>2. id \in ItemIds
    BY <2>1, CurrentIsItem DEF Current
  <2>3. /\ s \in SyncStates(provided) /\ Len(s.saw) = Len(s.out) /\ Len(s.out) \in Nat /\ Len(s.ids) \in Nat
        /\ s.saw \in Seq(Contents \cup {NoItem})
    BY <2>1 DEF SyncRight, SyncStates, Reading
  <2>4. ASSUME NEW c \in Contents \cup {NoItem}
        PROVE  /\ Append(s.saw, c) \in Seq(Contents \cup {NoItem}) /\ Len(Append(s.saw, c)) = Len(s.out) + 1
               /\ \A n \in 1..Len(s.out) : Append(s.saw, c)[n] = s.saw[n]
               /\ Append(s.saw, c)[Len(s.out) + 1] = c
    BY <2>3
  <2>5. CASE sync' = [sync EXCEPT ![w] = [Resolved(s, id) EXCEPT !.saw = Append(@, NoItem)]]
    <3> DEFINE pc == IF Len(s.out) + 1 = Len(s.ids) THEN "done" ELSE "item"
               new == [s EXCEPT !.out = Append(s.out, id), !.pc = pc, !.saw = Append(s.saw, NoItem)]
    <3>1. [Resolved(s, id) EXCEPT !.saw = Append(@, NoItem)] = new /\ new.pc = pc /\ pc \in {"item", "done"}
      BY <2>3 DEF Resolved, SyncStates
    <3>2. pc = "item" => Len(s.out) + 1 < Len(s.ids)
      BY <2>1, <2>3
    <3> HIDE DEF pc
    <3>3. SyncRight(new, provided)
      <4>1. id = s.ids[Len(s.out) + 1] /\ id \in provided \cup ItemIds
        BY <2>2 DEF Current
      <4>2. NoItem \in Contents \cup {NoItem}
        OBVIOUS
      <4> DEFINE saw == Append(s.saw, NoItem)
      <4>3. /\ saw \in Seq(Contents \cup {NoItem}) /\ Len(saw) = Len(s.out) + 1
            /\ \A n \in 1..Len(s.out) : saw[n] = s.saw[n]
            /\ saw[Len(s.out) + 1] = NoItem => id = s.ids[Len(s.out) + 1]
            /\ saw[Len(s.out) + 1] # NoItem =>
                 Fits(id, s.account, s.ids[Len(s.out) + 1], saw[Len(s.out) + 1], provided)
        BY <4>1, <2>4, <4>2
      <4>4. SyncRight(s, provided) /\ pc \in {"item", "done"}
        BY <2>1, <3>1
      <4> HIDE DEF s, id, saw
      <4>5. SyncRight([s EXCEPT !.out = Append(s.out, id), !.pc = pc, !.saw = saw], provided)
        BY ONLY <3>2, <4>1, <4>3, <4>4, Translated, ZenonT(60)
      <4> QED BY <4>5 DEF saw
    <3> HIDE DEF new
    <3>4. SyncsMatch' /\ ReadsHold'
      BY <1>0, <2>1, <2>5, <3>1, <3>3, SyncEntry DEF Reading
    <3> QED BY <1>0, <2>1, <3>4 DEF MediaInv, MappingsMatch, SyncsMatch
  <2>6. CASE id \in Items /\ sync' = [sync EXCEPT ![w].pc = "mapping", ![w].saw = Append(@, rows[id])]
    <3> DEFINE new == [s EXCEPT !.pc = "mapping", !.saw = Append(s.saw, rows[id])]
    <3>1. sync' = [sync EXCEPT ![w] = new] /\ rows[id] \in Contents
      BY <2>6 DEF MediaInv, Items
    <3>2. /\ new \in SyncStates(provided) /\ new.pc = "mapping" /\ new.saw = Append(s.saw, rows[id])
          /\ new.ids = s.ids /\ new.out = s.out /\ new.account = s.account
      BY <2>3, <2>4, <3>1 DEF SyncStates, Reading
    <3> HIDE DEF new
    <3>3. \A n \in 1..Len(s.out) : MediumRight(new, n, provided)
      BY <2>1, <2>4, <3>1, <3>2 DEF SyncRight, MediumRight
    <3>4. SyncRight(new, provided)
      BY <2>1, <2>3, <2>4, <3>1, <3>2, <3>3 DEF SyncRight, Reading
    <3>5. new.saw[Len(new.saw)] = rows[id] /\ new.ids[Len(new.out) + 1] = id
      BY <2>4, <3>1, <3>2 DEF Current
    <3>6. SyncsMatch' /\ ReadsHold'
      BY <1>0, <2>1, <3>1, <3>4, <3>5, SyncEntry
    <3> QED BY <1>0, <2>1, <3>6 DEF MediaInv, MappingsMatch, SyncsMatch
  <2> QED BY <1>2, <2>5, <2>6 DEF GetMediaItemByID
<1>3. CASE GetMediaProviderMapping(w) \/ UploadAndMap(w)
  <2>1. /\ s.pc \in Reading /\ SyncRight(s, provided) /\ Len(s.out) < Len(s.ids)
        /\ RowRead(w) \in Contents /\ rows[id] \in {RowRead(w), Gone}
    BY <1>3 DEF GetMediaProviderMapping, UploadAndMap, MediaInv, SyncsMatch, SyncRight, ReadsHold, Reading
  <2>2. id \in ItemIds
    BY <2>1, CurrentIsItem DEF Current
  <2>3. /\ s \in SyncStates(provided) /\ Len(s.saw) = Len(s.out) + 1 /\ Len(s.out) \in Nat /\ Len(s.ids) \in Nat
        /\ s.saw \in Seq(Contents \cup {NoItem}) /\ RowRead(w) = s.saw[Len(s.out) + 1]
    BY <2>1 DEF SyncRight, SyncStates, RowRead
  <2>4. ASSUME NEW given \in provided', provided \subseteq provided', given.account = s.account,
               given.item = id, given.sha = RowRead(w), sync' = [sync EXCEPT ![w] = Resolved(s, given)]
        PROVE  SyncsMatch' /\ ReadsHold'
    <3> DEFINE pc == IF Len(s.out) + 1 = Len(s.ids) THEN "done" ELSE "item"
               new == [s EXCEPT !.out = Append(s.out, given), !.pc = pc, !.saw = s.saw]
    <3>1. Resolved(s, given) = new /\ new.pc = pc /\ pc \in {"item", "done"}
      BY <2>3 DEF Resolved, SyncStates
    <3>2. pc = "item" => Len(s.out) + 1 < Len(s.ids)
      BY <2>1, <2>3
    <3> HIDE DEF pc
    <3>3. SyncRight(new, provided')
      <4>1. id = s.ids[Len(s.out) + 1]
        BY DEF Current
      <4>2. SyncRight(s, provided')
        BY <2>1, <2>4, SyncStaysRight
      <4>3. s.saw[Len(s.out) + 1] # NoItem
        BY <2>1, <2>3, MediaAssumption
      <4> HIDE DEF s, id
      <4> DEFINE P == provided'
      <4>4. /\ s.saw \in Seq(Contents \cup {NoItem}) /\ Len(s.saw) = Len(s.out) + 1
            /\ \A n \in 1..Len(s.out) : s.saw[n] = s.saw[n]
            /\ s.saw[Len(s.out) + 1] = NoItem => given = s.ids[Len(s.out) + 1]
        BY <2>3, <4>3
      <4>5. /\ SyncRight(s, P) /\ pc \in {"item", "done"} /\ given \in P \cup ItemIds
            /\ s.saw[Len(s.out) + 1] # NoItem =>
                 Fits(given, s.account, s.ids[Len(s.out) + 1], s.saw[Len(s.out) + 1], P)
        BY <2>3, <2>4, <3>1, <4>1, <4>2 DEF Fits
      <4> HIDE DEF P
      <4>6. SyncRight([s EXCEPT !.out = Append(s.out, given), !.pc = pc, !.saw = s.saw], P)
        BY ONLY <3>2, <4>4, <4>5, Translated, ZenonT(60)
      <4> QED BY <4>6 DEF P
    <3> HIDE DEF new
    <3> QED BY <1>0, <2>4, <3>1, <3>3, SyncEntry DEF Reading
  <2>5. CASE GetMediaProviderMapping(w)
    <3>1. UNCHANGED <<mappings, provided>>
      BY <2>5 DEF GetMediaProviderMapping
    <3>2. ASSUME NEW given \in MappingOf(id, s.account), sync' = [sync EXCEPT ![w] = Resolved(s, given)]
          PROVE  SyncsMatch' /\ ReadsHold'
      <4>1. PICK k \in DOMAIN mappings : k = <<id, s.account>> /\ given = mappings[k]
        BY DEF MappingOf
      <4>2. /\ given \in provided /\ given.item = id /\ given.account = s.account
            /\ given.sha \in Contents /\ rows[id] = given.sha
        BY <4>1 DEF MediaInv, MappingsMatch
      <4> QED BY <2>1, <2>4, <3>1, <3>2, <4>2, MediaAssumption
    <3>3. ASSUME sync' = [sync EXCEPT ![w].pc = "upload"] PROVE SyncsMatch' /\ ReadsHold'
      <4> DEFINE new == [s EXCEPT !.pc = "upload"]
      <4>1. sync' = [sync EXCEPT ![w] = new]
        BY <3>3 DEF MediaInv
      <4>2. /\ new \in SyncStates(provided) /\ new.pc = "upload" /\ new.saw = s.saw
            /\ new.ids = s.ids /\ new.out = s.out /\ new.account = s.account
        BY <2>3 DEF SyncStates, Reading
      <4> HIDE DEF new
      <4>3. SyncRight(new, provided)
        BY <2>1, <2>3, <4>2 DEF SyncRight, MediumRight, Reading
      <4>4. new.saw[Len(new.saw)] = RowRead(w) /\ new.ids[Len(new.out) + 1] = id
        BY <4>2 DEF Current, RowRead
      <4>5. /\ SyncRight(new, provided') /\ provided \subseteq provided'
            /\ new.saw[Len(new.saw)] \in Contents
            /\ rows[new.ids[Len(new.out) + 1]] \in {new.saw[Len(new.saw)], Gone}
        BY <2>1, <3>1, <4>3, <4>4
      <4> QED BY ONLY MediaInv, w \in Syncers, <1>0, <4>1, <4>5, SyncEntry
    <3>4. SyncsMatch' /\ ReadsHold'
      <4>1. \/ \E given \in MappingOf(id, s.account) : sync' = [sync EXCEPT ![w] = Resolved(s, given)]
            \/ sync' = [sync EXCEPT ![w].pc = "upload"]
        BY <2>5 DEF GetMediaProviderMapping
      <4> QED BY <3>2, <3>3, <4>1
    <3> QED BY <1>0, <3>1, <3>4 DEF MediaInv, MappingsMatch, SyncsMatch
  <2>6. CASE UploadAndMap(w)
    <3> DEFINE given == [n |-> Cardinality(provided), account |-> s.account, item |-> id, sha |-> RowRead(w)]
    <3>1. /\ provided' = provided \cup {given} /\ UpsertMediaProviderMapping(id, s.account, given)
          /\ sync' = [sync EXCEPT ![w] = Resolved(s, given)]
      BY <2>6 DEF UploadAndMap
    <3>2. given.account = s.account /\ given.item = id /\ given.sha = RowRead(w)
      OBVIOUS
    <3> HIDE DEF given, s, id
    <3>3. SyncsMatch' /\ ReadsHold'
      BY <2>4, <3>1, <3>2
    <3>4. MappingsMatch'
      <4>1. CASE id \in Items /\ mappings' = [k \in DOMAIN mappings \cup {<<id, s.account>>} |->
                                                IF k = <<id, s.account>> THEN given ELSE mappings[k]]
        <5>1. rows[id] = RowRead(w)
          BY <2>1, <4>1, MediaAssumption DEF Items
        <5> SUFFICES ASSUME NEW k \in DOMAIN mappings'
                     PROVE  /\ mappings'[k] \in provided' /\ k = <<mappings'[k].item, mappings'[k].account>>
                            /\ mappings'[k].item \in ItemIds /\ mappings'[k].sha \in Contents
                            /\ rows[mappings'[k].item] = mappings'[k].sha
          BY <1>0 DEF MappingsMatch
        <5>2. CASE k = <<id, s.account>>
          <6>1. mappings'[k] = given
            BY <4>1, <5>2
          <6> QED BY <2>1, <2>2, <3>1, <3>2, <5>1, <5>2, <6>1
        <5>3. CASE k # <<id, s.account>>
          <6>1. k \in DOMAIN mappings /\ mappings'[k] = mappings[k]
            BY <4>1, <5>3
          <6> QED BY <3>1, <6>1 DEF MediaInv, MappingsMatch
        <5> QED BY <5>2, <5>3
      <4>2. CASE UNCHANGED mappings
        BY <1>0, <3>1, <4>2 DEF MediaInv, MappingsMatch
      <4> QED BY <3>1, <4>1, <4>2 DEF UpsertMediaProviderMapping
    <3> QED BY <1>0, <3>3, <3>4 DEF MediaInv, SyncsMatch
  <2> QED BY <1>3, <2>5, <2>6
<1> QED BY <1>1, <1>2, <1>3

\* Media are whole for those who use them: an item's file is on disk unless a deletion
\* crossed an upload of the same content, and a post goes out with its media in their order,
\* each an upload of that item, as it was read, for that account (upload and DeleteMediaItem,
\* syncMediaToProvider), for any number of items, files, accounts and workers.
THEOREM MediaStaysWhole == MediaSpec => []MediaIsWhole
<1>1. MediaInit => MediaInv
  BY MediaInvInit
<1>2. MediaInv /\ [MediaNext]_mediaVars => MediaInv'
  <2> SUFFICES ASSUME MediaInv, [MediaNext]_mediaVars PROVE MediaInv'
    OBVIOUS
  <2>1. ASSUME NEW u \in Uploaders,
               (\E c \in Contents : SaveMediaFile(u, c)) \/ FindOrCreate(u) \/ CreateMediaItem(u)
        PROVE  MediaInv'
    <3>1. LibraryInv'
      BY <2>1, UploadKeeps DEF MediaInv
    <3>2. RowsStay /\ UNCHANGED <<mappings, provided, sync>>
      BY <2>1, MediaAssumption DEF RowsStay, SaveMediaFile, FindOrCreate, CreateMediaItem, MediaInv, LibraryInv, MediaTyped
    <3>3. \A k \in DOMAIN mappings : mappings[k].item \in ItemIds /\ rows'[mappings[k].item] = rows[mappings[k].item]
      BY <2>1, MediaAssumption DEF SaveMediaFile, FindOrCreate, CreateMediaItem, MediaInv, LibraryInv, MediaTyped, MappingsMatch
    <3> QED BY <3>1, <3>2, <3>3, LibraryOnly
  <2>2. ASSUME NEW d \in Deleters,
               \/ \E i \in ItemIds : StartDelete(d, i)
               \/ DeleteMediaItem(d) \/ DeleteRefused(d) \/ DeleteMediaFile(d)
        PROVE  MediaInv'
    <3>1. LibraryInv'
      BY <2>2, DeletionKeeps DEF MediaInv
    <3>2. RowsStay /\ UNCHANGED <<provided, sync>>
      BY <2>2, MediaAssumption DEF RowsStay, StartDelete, DeleteMediaItem, DeleteRefused, DeleteMediaFile, MediaInv, LibraryInv, MediaTyped
    <3>3. \A k \in DOMAIN mappings' : /\ k \in DOMAIN mappings /\ mappings'[k] = mappings[k]
                                      /\ rows'[mappings[k].item] = rows[mappings[k].item]
      <4>1. CASE DeleteMediaItem(d)
        <5>1. /\ rows' = [rows EXCEPT ![del[d].item] = Gone]
              /\ mappings' = [k \in {k \in DOMAIN mappings : k[1] # del[d].item} |-> mappings[k]]
          BY <4>1 DEF DeleteMediaItem
        <5>2. \A k \in DOMAIN mappings : k[1] = mappings[k].item
          BY DEF MediaInv, MappingsMatch
        <5> QED BY <5>1, <5>2 DEF MediaInv, LibraryInv, MediaTyped
      <4>2. CASE (\E i \in ItemIds : StartDelete(d, i)) \/ DeleteRefused(d) \/ DeleteMediaFile(d)
        BY <4>2 DEF StartDelete, DeleteRefused, DeleteMediaFile
      <4> QED BY <2>2, <4>1, <4>2
    <3> QED BY <3>1, <3>2, <3>3, LibraryOnly
  <2>3. ASSUME NEW w \in Syncers,
               \/ \E a \in Outlets, ids \in PostMedia : StartSync(w, a, ids)
               \/ GetMediaItemByID(w) \/ GetMediaProviderMapping(w) \/ UploadAndMap(w)
               \/ UploadFails(w) \/ PublishWith(w)
        PROVE  MediaInv'
    BY <2>3, SyncKeeps
  <2>4. CASE UNCHANGED mediaVars
    BY <2>4 DEF mediaVars, MediaInv, LibraryInv, MediaTyped, OneRowPerContent, UploadsHaveFiles,
                DeletesAreAlone, DeletesHaveItems, RowsHaveFiles, MappingsMatch, SyncsMatch,
                ReadsHold, RowRead, Current
  <2> QED BY <2>1, <2>2, <2>3, <2>4 DEF MediaNext
<1>3. MediaInv => MediaIsWhole
  <2> SUFFICES ASSUME MediaInv PROVE MediaIsWhole
    OBVIOUS
  <2>1. \A i \in Items : rows[i] \in files \cup dropped
    BY DEF MediaInv, LibraryInv, RowsHaveFiles, Items
  <2>2. ASSUME NEW w \in Syncers, NEW n \in 1 .. Len(sync[w].out) PROVE RightMedium(sync[w], n)
    BY DEF MediaInv, SyncsMatch, SyncRight, MediumRight, RightMedium
  <2> QED BY <2>1, <2>2 DEF MediaIsWhole
<1> QED BY <1>1, <1>2, <1>3, PTL DEF MediaSpec

(* The calls of a provider. *)

StepNames == {"session", "avatar", "counts", "public", "context", "profile", "verify", "blob",
              "upload", "poll", "feed", "token", "revoke", "app", "discover", "thread", "status"}
Steps == [name : StepNames, body : BOOLEAN, retries : Nat, needed : BOOLEAN, final : BOOLEAN]
statusStep == doJSONRequest("status", TRUE)
\* The steps that make no status.
QuietSteps == {s \in Steps : s.name # "status"}
PublishOps == {"publishMastodon", "publishFriendica", "publishBluesky", "publishBlueskyToken"}
Outcomes == {"idle", "running", "ok", "error", "rejected"}

CallTyped ==
  /\ call \in [op : {"none"} \cup DOMAIN Scripts, script : {call.script}, left : {call.left},
               body : {call.body}, wait : {call.wait}, polls : {call.polls}, out : Outcomes]
  /\ remote \in [statuses : Nat, media : {"none", "processing", "ready", "broken"}]
  /\ call.out = "idle" <=> call.op = "none"

\* The status is the last step of a call that publishes and has not been made while the
\* call runs.
StatusComesLast ==
  call.op \in PublishOps =>
    /\ call.out = "running" =>
         remote.statuses = 0 /\ call.script \in {<<statusStep>>, <<createSession, statusStep>>}
    /\ call.out = "ok" => remote.statuses = 1
    /\ call.out = "rejected" => remote.statuses = 0
    /\ remote.statuses <= 1

\* No other call makes one.
OthersAreQuiet ==
  call.op \notin PublishOps =>
    /\ remote.statuses = 0
    /\ call.out = "running" => call.script \in Seq(QuietSteps) /\ call.script # <<>>

UploadIsReady ==
  call.op = "uploadMastodon" =>
    /\ call.out = "running" =>
         call.script \in {uploadMastodonV2Media, <<PlainRequest("poll", FALSE)>>}
    /\ call.out = "ok" => remote.media = "ready"

CallInv == CallTyped /\ StatusComesLast /\ OthersAreQuiet /\ UploadIsReady

\* Requests that are named for anything but a status are quiet.
LEMMA QuietRequests ==
  ASSUME NEW name \in StepNames, name # "status", NEW body \in BOOLEAN, NEW retries \in Nat
  PROVE  /\ Request(name, body, retries) \in QuietSteps
         /\ Try(Request(name, body, retries)) \in QuietSteps
         /\ TryLast(Request(name, body, retries)) \in QuietSteps
BY DEF Request, Try, TryLast, QuietSteps, Steps

LEMMA QuietScripts ==
  ASSUME NEW op \in DOMAIN Scripts, op \notin PublishOps
  PROVE  Scripts[op] \in Seq(QuietSteps) /\ Scripts[op] # <<>>
<1> DEFINE Quiet(s) == s \in Seq(QuietSteps) /\ s # <<>>
<1>1. \A s \in QuietSteps : Quiet(<<s>>)
  OBVIOUS
<1>2. \A s, t \in QuietSteps : Quiet(<<s, t>>) /\ Quiet(<<s>> \o <<t>>)
  OBVIOUS
<1>3. \A s, t, u \in QuietSteps : Quiet(<<s>> \o <<t, u>>)
  OBVIOUS
<1>4. \A s, t \in QuietSteps : Quiet(<<>> \o <<s>>) /\ Quiet(<<>> \o <<s, t>>)
  OBVIOUS
<1>5. MaxRetries \in Nat
  BY RetryAssumption
<1>6. \A name \in StepNames : name # "status" =>
        /\ doJSONRequest(name, TRUE) \in QuietSteps /\ doJSONRequest(name, FALSE) \in QuietSteps
        /\ PlainRequest(name, TRUE) \in QuietSteps /\ PlainRequest(name, FALSE) \in QuietSteps
        /\ Try(doJSONRequest(name, FALSE)) \in QuietSteps
        /\ Try(PlainRequest(name, FALSE)) \in QuietSteps
        /\ TryLast(doJSONRequest(name, FALSE)) \in QuietSteps
        /\ TryLast(PlainRequest(name, FALSE)) \in QuietSteps
        /\ Request(name, FALSE, 0) \in QuietSteps
  BY <1>5, QuietRequests DEF doJSONRequest, PlainRequest
<1>7. /\ createSession \in QuietSteps /\ connectAccountWithToken \in QuietSteps
      /\ registerApplication \in QuietSteps
  BY <1>6 DEF StepNames, createSession, connectAccountWithToken, registerApplication
<1>8. /\ fetchBlueskyActorAvatar \in QuietSteps /\ fetchMastodonCompatibleAvatar \in QuietSteps
      /\ discoverMastodonOAuthMetadata \in QuietSteps
  BY <1>6 DEF StepNames, fetchBlueskyActorAvatar, fetchMastodonCompatibleAvatar,
              discoverMastodonOAuthMetadata
<1> HIDE DEF Quiet
<1>9. /\ Quiet(uploadMastodonV2Media) /\ Quiet(RefreshAccessToken) /\ Quiet(RevokeAccessToken)
  BY <1>1, <1>2, <1>6 DEF StepNames, uploadMastodonV2Media, RefreshAccessToken, RevokeAccessToken
<1>10. /\ Quiet(MastodonConnect) /\ Quiet(FriendicaConnect) /\ Quiet(ConnectAccountOAuthCallback)
  BY <1>1, <1>2, <1>6, <1>7, <1>8 DEF StepNames, MastodonConnect, FriendicaConnect,
                                      ConnectAccountOAuthCallback
<1>11. /\ Quiet(MastodonAccountMetrics) /\ Quiet(FriendicaAccountMetrics)
       /\ Quiet(MastodonAuthorPosts) /\ Quiet(fetchMastodonCompatibleThread)
  BY <1>1, <1>6 DEF StepNames, MastodonAccountMetrics, FriendicaAccountMetrics, MastodonAuthorPosts,
                    fetchMastodonCompatibleThread
<1>12. Quiet(fetchMastodonCompatibleMetrics)
  BY <1>2, <1>6 DEF StepNames, fetchMastodonCompatibleMetrics
<1>13. Quiet(PrepareMastodonInstance(FALSE)) /\ Quiet(PrepareMastodonInstance(TRUE))
  BY <1>2, <1>4, <1>7, <1>8 DEF PrepareMastodonInstance
<1>14. /\ Quiet(BlueskyUpload("password")) /\ Quiet(BlueskyAccountMetrics("password"))
       /\ Quiet(BlueskyAuthorPosts("password"))
  BY <1>2, <1>6, <1>7 DEF StepNames, BlueskyUpload, BlueskyAccountMetrics, BlueskyAuthorPosts,
                          blueskyAccessToken
<1>15. Quiet(BlueskyMetrics("token"))
  BY <1>4, <1>6 DEF StepNames, BlueskyMetrics, blueskyAccessToken, blueskyFetchPostCounts
<1>16. Quiet(BlueskyConnect("password")) /\ Quiet(BlueskyConnect("token"))
  BY <1>3, <1>6, <1>7, <1>8 DEF StepNames, BlueskyConnect
<1> SUFFICES Quiet(Scripts[op])
  BY DEF Quiet
<1>17. op \in {"uploadMastodon", "uploadBluesky", "connectMastodon", "connectFriendica",
              "connectBluesky", "connectBlueskyToken", "oauthConnect", "refresh", "revoke",
              "metricsMastodon", "metricsBluesky", "followersMastodon", "followersFriendica",
              "followersBluesky", "feedMastodon", "feedBluesky", "prepare", "prepareKnown", "thread"}
  BY DEF Scripts, PublishOps
<1>18. CASE op \in {"uploadMastodon", "refresh", "revoke", "connectMastodon", "connectFriendica",
                    "oauthConnect"}
  BY <1>9, <1>10, <1>18 DEF Scripts
<1>19. CASE op \in {"followersMastodon", "followersFriendica", "feedMastodon", "thread",
                    "metricsMastodon"}
  BY <1>11, <1>12, <1>19 DEF Scripts
<1>20. CASE op \in {"uploadBluesky", "followersBluesky", "feedBluesky", "metricsBluesky",
                    "connectBluesky", "connectBlueskyToken"}
  BY <1>14, <1>15, <1>16, <1>20 DEF Scripts
<1>21. CASE op \in {"prepare", "prepareKnown"}
  <2>1. /\ Scripts["prepare"] = PrepareMastodonInstance(FALSE)
        /\ Scripts["prepareKnown"] = PrepareMastodonInstance(TRUE)
    BY DEF Scripts, PrepareMastodonInstance
  <2> QED BY <1>13, <1>21, <2>1
<1> QED BY <1>17, <1>18, <1>19, <1>20, <1>21

LEMMA PublishScripts ==
  ASSUME NEW op \in PublishOps
  PROVE  op \in DOMAIN Scripts /\ Scripts[op] \in {<<statusStep>>, <<createSession, statusStep>>}
<1>1. /\ <<createSession>> \o <<statusStep>> = <<createSession, statusStep>>
      /\ <<>> \o <<statusStep>> = <<statusStep>>
  <2> DEFINE S == {createSession, statusStep}
  <2>1. /\ <<createSession>> \in Seq(S) /\ <<statusStep>> \in Seq(S) /\ <<>> \in Seq(S)
        /\ <<createSession, statusStep>> \in Seq(S)
    OBVIOUS
  <2>2. <<createSession>> \o <<statusStep>> = <<createSession, statusStep>>
    <3> DEFINE s == <<createSession>> \o <<statusStep>>
               u == <<createSession, statusStep>>
    <3>1. /\ s \in Seq(S) /\ Len(s) = 2
          /\ \A i \in 1 .. 2 : s[i] = IF i <= 1 THEN <<createSession>>[i] ELSE <<statusStep>>[i - 1]
      BY <2>1, ConcatProperties
    <3>2. Len(u) = 2 /\ u[1] = createSession /\ u[2] = statusStep
      OBVIOUS
    <3>3. s[1] = createSession /\ s[2] = statusStep
      BY <3>1
    <3> HIDE DEF s, u
    <3>4. \A i \in 1 .. Len(s) : s[i] = u[i]
      BY <3>1, <3>2, <3>3
    <3>5. s = u
      BY <2>1, <3>1, <3>2, <3>4, SeqEqual DEF u
    <3> QED BY <3>5 DEF s, u
  <2>3. <<>> \o <<statusStep>> = <<statusStep>>
    BY <2>1, ConcatEmptySeq
  <2> QED BY <2>2, <2>3
<1>2. /\ BlueskyPublish("password") = <<createSession, statusStep>>
      /\ BlueskyPublish("token") = <<statusStep>>
  BY <1>1 DEF BlueskyPublish, blueskyAccessToken, statusStep
<1>3. MastodonPublish = <<statusStep>> /\ FriendicaPublish = <<statusStep>>
  BY DEF MastodonPublish, FriendicaPublish, statusStep
<1> QED BY <1>2, <1>3 DEF Scripts, PublishOps

LEMMA CallInvInit == CallsInit => CallInv
<1> SUFFICES ASSUME CallsInit PROVE CallInv
  OBVIOUS
<1>1. "none" \notin PublishOps
  BY DEF PublishOps
<1>2. CallTyped
  BY DEF CallsInit, CallTyped, Outcomes
<1> QED BY <1>1, <1>2 DEF CallsInit, CallInv, StatusComesLast, OthersAreQuiet, UploadIsReady

LEMMA BeginKeeps ==
  ASSUME CallInv, NEW op \in DOMAIN Scripts, Begin(op)
  PROVE  CallInv'
<1>1. call.op = "none" /\ call.out = "idle" /\ UNCHANGED remote /\ remote.statuses = 0
  BY DEF Begin, CallInv, CallTyped, OthersAreQuiet, PublishOps
<1>2. /\ call'.op = op /\ call'.script = Scripts[op] /\ call'.out = "running" /\ op # "none"
      /\ CallTyped'
  <2>1. op # "none"
    BY DEF Scripts
  <2> QED BY <1>1, <2>1 DEF Begin, CallInv, CallTyped, Outcomes
<1>3. StatusComesLast'
  BY <1>1, <1>2, PublishScripts DEF StatusComesLast
<1>4. OthersAreQuiet'
  BY <1>1, <1>2, QuietScripts DEF OthersAreQuiet
<1>5. UploadIsReady'
  BY <1>2 DEF UploadIsReady, Scripts
<1> QED BY <1>2, <1>3, <1>4, <1>5 DEF CallInv

\* What the provider may have done when an answer comes, or none.
LEMMA EffectOnRemote ==
  ASSUME CallTyped, NEW step \in Steps, NEW body, NEW answer \in Answers,
         remote' \in Effects(step, body, answer)
  PROVE  /\ remote' \in [statuses : Nat, media : {"none", "processing", "ready", "broken"}]
         /\ step.name # "status" => remote'.statuses = remote.statuses
         /\ step.name = "status" =>
              /\ remote'.statuses \in {remote.statuses, remote.statuses + 1}
              /\ answer \in {"429", "4xx"} => remote'.statuses = remote.statuses
              /\ answer = "ok" => remote'.statuses = remote.statuses + 1
<1>1. remote \in [statuses : Nat, media : {"none", "processing", "ready", "broken"}]
  BY DEF CallTyped
<1>2. CASE step.name = "status"
  <2> DEFINE more == [remote EXCEPT !.statuses = remote.statuses + 1]
  <2>1. /\ more \in [statuses : Nat, media : {"none", "processing", "ready", "broken"}]
        /\ more.statuses = remote.statuses + 1
    BY <1>1
  <2>2. \/ remote' = more /\ MayHaveActed(step, body, answer)
        \/ remote' = remote /\ ~MustHaveActed(answer)
    BY <1>2 DEF Effects
  <2> HIDE DEF more
  <2> QED BY <1>1, <1>2, <2>1, <2>2 DEF MayHaveActed, MustHaveActed
<1>3. CASE step.name = "upload"
  <2>1. remote' = remote \/ \E m \in {"processing", "ready"} : remote' = [remote EXCEPT !.media = m]
    BY <1>3 DEF Effects
  <2> QED BY <1>1, <1>3, <2>1
<1>4. CASE step.name \notin {"status", "upload"}
  <2>1. remote' = remote
    BY <1>4 DEF Effects
  <2> QED BY <1>1, <1>4, <2>1
<1> QED BY <1>2, <1>3, <1>4

\* The call goes on behind its first step, or is done.
Moved ==
  IF Tail(call.script) = <<>> THEN call'.script = <<>> /\ call'.out = "ok"
  ELSE call'.script = Tail(call.script) /\ call'.out = call.out

LEMMA OnwardsMoves ==
  ASSUME CallTyped, call.out = "running", call' = Onwards(Tail(call.script))
  PROVE  Moved /\ call'.op = call.op
         /\ call' \in [op : {"none"} \cup DOMAIN Scripts, script : {call.script}', left : {call.left}',
                       body : {call.body}', wait : {call.wait}', polls : {call.polls}', out : Outcomes]
<1>1. CASE Tail(call.script) = <<>>
  BY <1>1 DEF Onwards, Moved, CallTyped, Outcomes
<1>2. CASE Tail(call.script) # <<>>
  BY <1>2 DEF Onwards, Moved, CallTyped, Outcomes
<1> QED BY <1>1, <1>2

\* One exchange: the request is sent again, the call goes on or it ends.
LEMMA ExchangeEffect ==
  ASSUME CallTyped, Exchange, Head(call.script) \in Steps
  PROVE  LET step == Head(call.script)
         IN  /\ call.out = "running" /\ step.name # "poll" /\ CallTyped' /\ call'.op = call.op
             /\ \E answer \in Answers :
                  /\ remote' \in Effects(step, call.body, answer)
                  /\ \/ answer = "429" /\ call'.script = call.script /\ call'.out = "running"
                     \/ answer = "ok" /\ step.name = "upload" /\ remote'.media = "ready"
                          /\ call'.script = <<>> /\ call'.out = "ok"
                     \/ answer = "ok" /\ step.final /\ call'.script = <<>> /\ call'.out = "ok"
                     \/ (answer = "ok" \/ ~step.needed) /\ Moved
                     \/ answer # "ok" /\ step.needed /\ call'.script = <<>>
                          /\ call'.out \in {"error", "rejected"}
                          /\ (call'.out = "rejected" => step.name = "status" /\ answer \in {"429", "4xx"})
<1> DEFINE step == Head(call.script)
           Typed == call' \in [op : {"none"} \cup DOMAIN Scripts, script : {call.script}', left : {call.left}',
                               body : {call.body}', wait : {call.wait}', polls : {call.polls}', out : Outcomes]
<1>1. PICK answer \in AnswersTo(step, call.body) :
        /\ remote' \in Effects(step, call.body, answer)
        /\ \/ doRequestWithRetry(step, answer)
           \/ /\ answer = "ok"
              /\ call' = CASE step.name = "upload" -> Uploaded
                           [] step.final -> [call EXCEPT !.script = <<>>, !.out = "ok"]
                           [] OTHER -> Onwards(Tail(call.script))
           \/ /\ answer # "ok" /\ ~(answer = "429" /\ call.left > 0)
              /\ call' = StepFailed(step, answer)
  BY DEF Exchange
<1>2. call.out = "running" /\ step.name # "poll" /\ answer \in Answers
  BY DEF Exchange, AnswersTo
<1>3. remote' \in [statuses : Nat, media : {"none", "processing", "ready", "broken"}]
  BY <1>1, <1>2, EffectOnRemote
<1>4. ASSUME call' = [call EXCEPT !.script = <<>>, !.out = "ok"]
      PROVE  Typed /\ call'.op = call.op /\ call'.script = <<>> /\ call'.out = "ok"
  BY <1>4 DEF CallTyped, Outcomes
<1> DEFINE Ends(a) ==
      \/ a = "429" /\ call'.script = call.script /\ call'.out = "running"
      \/ a = "ok" /\ step.name = "upload" /\ remote'.media = "ready"
           /\ call'.script = <<>> /\ call'.out = "ok"
      \/ a = "ok" /\ step.final /\ call'.script = <<>> /\ call'.out = "ok"
      \/ (a = "ok" \/ ~step.needed) /\ Moved
      \/ a # "ok" /\ step.needed /\ call'.script = <<>>
           /\ call'.out \in {"error", "rejected"}
           /\ (call'.out = "rejected" => step.name = "status" /\ a \in {"429", "4xx"})
<1>5. Typed /\ call'.op = call.op /\ Ends(answer)
  <2>1. CASE doRequestWithRetry(step, answer)
    BY <1>2, <2>1 DEF doRequestWithRetry, CallTyped, Outcomes
  <2>2. CASE answer = "ok" /\ step.name = "upload" /\ call' = Uploaded
    <3>1. CASE remote'.media = "ready"
      BY <1>4, <2>2, <3>1 DEF Uploaded
    <3>2. CASE remote'.media # "ready"
      BY <1>2, <2>2, <3>2, OnwardsMoves DEF Uploaded
    <3> QED BY <3>1, <3>2
  <2>3. CASE answer = "ok" /\ step.final /\ call' = [call EXCEPT !.script = <<>>, !.out = "ok"]
    BY <1>4, <2>3
  <2>4. CASE answer = "ok" /\ call' = Onwards(Tail(call.script))
    BY <1>2, <2>4, OnwardsMoves
  <2>5. CASE answer # "ok" /\ call' = StepFailed(step, answer)
    <3>1. CASE step.needed
      <4>1. PICK out \in {"error", "rejected"} :
              /\ call' = [call EXCEPT !.script = <<>>, !.out = out]
              /\ out = "rejected" => step.name = "status" /\ answer \in {"429", "4xx"}
        BY <2>5, <3>1 DEF StepFailed, publicationHTTPError
      <4>2. Typed /\ call'.op = call.op /\ call'.script = <<>> /\ call'.out = out
        BY <4>1 DEF CallTyped, Outcomes
      <4> QED BY <2>5, <3>1, <4>1, <4>2
    <3>2. CASE ~step.needed
      BY <1>2, <2>5, <3>2, OnwardsMoves DEF StepFailed
    <3> QED BY <3>1, <3>2
  <2> QED BY <1>1, <2>1, <2>2, <2>3, <2>4, <2>5
<1>6. CallTyped'
  <2>1. call.op # "none" /\ call'.out # "idle"
    <3>1. call.op # "none"
      BY <1>2 DEF CallTyped
    <3>2. Moved => call'.out # "idle"
      BY <1>2 DEF Moved
    <3>3. Ends(answer) => call'.out # "idle"
      <4> HIDE DEF Moved
      <4> QED BY <3>2
    <3> QED BY <1>5, <3>1, <3>3
  <2>2. Typed
    BY <1>5
  <2>3. call'.op = call.op
    BY <1>5
  <2> QED BY <1>3, <2>1, <2>2, <2>3 DEF CallTyped
<1> QED BY <1>1, <1>2, <1>5, <1>6

\* One exchange of a call that publishes.
LEMMA PublishExchange ==
  ASSUME CallInv, Exchange, call.op \in PublishOps
  PROVE  CallInv'
<1> DEFINE step == Head(call.script)
<1>1. /\ call.out = "running" /\ remote.statuses = 0
      /\ \/ call.script = <<statusStep>> /\ step = statusStep /\ Tail(call.script) = <<>>
         \/ /\ call.script = <<createSession, statusStep>> /\ step = createSession
            /\ Tail(call.script) = <<statusStep>>
  <2>1. /\ call.out = "running" /\ remote.statuses = 0
        /\ call.script \in {<<statusStep>>, <<createSession, statusStep>>}
    BY DEF Exchange, CallInv, StatusComesLast
  <2>2. \A s, u : /\ Head(<<s>>) = s /\ Tail(<<s>>) = <<>>
                  /\ Head(<<s, u>>) = s /\ Tail(<<s, u>>) = <<u>>
    OBVIOUS
  <2> QED BY <2>1, <2>2
<1>2. /\ statusStep \in Steps /\ statusStep.name = "status" /\ statusStep.needed /\ ~statusStep.final
      /\ createSession \in Steps /\ createSession.name = "session" /\ createSession.needed
      /\ ~createSession.final
  BY RetryAssumption DEF statusStep, createSession, doJSONRequest, Request, Steps, StepNames
<1>3. step \in Steps /\ step.name # "upload" /\ step.needed /\ ~step.final
  BY <1>1, <1>2
<1>4. PICK answer \in Answers :
        /\ remote' \in Effects(step, call.body, answer)
        /\ \/ answer = "429" /\ call'.script = call.script /\ call'.out = "running"
           \/ answer = "ok" /\ Moved
           \/ answer # "ok" /\ call'.script = <<>> /\ call'.out \in {"error", "rejected"}
                /\ (call'.out = "rejected" => step.name = "status" /\ answer \in {"429", "4xx"})
  BY <1>3, ExchangeEffect DEF CallInv
<1>5. CallTyped' /\ call'.op = call.op
  BY <1>3, ExchangeEffect DEF CallInv
<1>6. /\ step.name # "status" => remote'.statuses = 0
      /\ step.name = "status" => /\ remote'.statuses \in {0, 1}
                                 /\ answer \in {"429", "4xx"} => remote'.statuses = 0
                                 /\ answer = "ok" => remote'.statuses = 1
  BY <1>1, <1>3, <1>4, EffectOnRemote DEF CallInv
<1>7. StatusComesLast'
  <2>1. CASE answer = "429" /\ call'.script = call.script /\ call'.out = "running"
    <3>1. remote'.statuses = 0
      BY <1>6, <2>1
    <3>2. call'.script \in {<<statusStep>>, <<createSession, statusStep>>}
      BY <1>1, <2>1
    <3> QED BY <2>1, <3>1, <3>2 DEF StatusComesLast
  <2>2. CASE answer = "ok" /\ Moved
    <3>1. <<statusStep>> # <<>>
      OBVIOUS
    <3>2. CASE step = statusStep /\ Tail(call.script) = <<>>
      <4>1. call'.out = "ok" /\ remote'.statuses = 1
        BY <1>2, <1>6, <2>2, <3>2 DEF Moved
      <4> QED BY <4>1 DEF StatusComesLast
    <3>3. CASE step = createSession /\ Tail(call.script) = <<statusStep>>
      <4>1. call'.out = "running" /\ remote'.statuses = 0 /\ call'.script = <<statusStep>>
        BY <1>1, <1>2, <1>6, <2>2, <3>1, <3>3 DEF Moved
      <4> QED BY <4>1 DEF StatusComesLast
    <3> QED BY <1>1, <3>2, <3>3
  <2>3. CASE answer # "ok" /\ call'.script = <<>> /\ call'.out \in {"error", "rejected"}
                /\ (call'.out = "rejected" => step.name = "status" /\ answer \in {"429", "4xx"})
    BY <1>1, <1>2, <1>6, <2>3 DEF StatusComesLast
  <2> QED BY <1>4, <2>1, <2>2, <2>3
<1>8. call'.op \in PublishOps /\ call'.op # "uploadMastodon"
  BY <1>5 DEF PublishOps
<1> QED BY <1>5, <1>7, <1>8 DEF CallInv, OthersAreQuiet, UploadIsReady

\* One exchange of any other call.
LEMMA QuietExchange ==
  ASSUME CallInv, Exchange, call.op \notin PublishOps
  PROVE  CallInv'
<1> DEFINE step == Head(call.script)
<1>1. /\ call.out = "running" /\ remote.statuses = 0 /\ step.name # "poll"
      /\ call.script \in Seq(QuietSteps) /\ call.script # <<>>
  BY DEF Exchange, CallInv, OthersAreQuiet
<1>2. step \in QuietSteps /\ Tail(call.script) \in Seq(QuietSteps)
  BY <1>1
<1>3. step \in Steps /\ step.name # "status"
  BY <1>2 DEF QuietSteps
<1>4. PICK answer \in Answers :
        /\ remote' \in Effects(step, call.body, answer)
        /\ \/ answer = "429" /\ call'.script = call.script /\ call'.out = "running"
           \/ answer = "ok" /\ step.name = "upload" /\ remote'.media = "ready"
                /\ call'.script = <<>> /\ call'.out = "ok"
           \/ answer = "ok" /\ step.final /\ call'.script = <<>> /\ call'.out = "ok"
           \/ (answer = "ok" \/ ~step.needed) /\ Moved
           \/ answer # "ok" /\ step.needed /\ call'.script = <<>> /\ call'.out \in {"error", "rejected"}
  BY <1>3, ExchangeEffect DEF CallInv
<1>5. CallTyped' /\ call'.op = call.op
  BY <1>3, ExchangeEffect DEF CallInv
<1>6. remote'.statuses = 0
  BY <1>1, <1>3, <1>4, EffectOnRemote DEF CallInv
<1>7. \/ call'.script = call.script
      \/ call'.out # "running"
      \/ call'.script = Tail(call.script) /\ Tail(call.script) # <<>>
  BY <1>4 DEF Moved
<1>8. OthersAreQuiet'
  BY <1>1, <1>2, <1>5, <1>6, <1>7 DEF OthersAreQuiet
<1>9. UploadIsReady'
  <2> DEFINE poll == PlainRequest("poll", FALSE)
             upload == PlainRequest("upload", TRUE)
  <2> SUFFICES ASSUME call.op = "uploadMastodon" PROVE UploadIsReady'
    BY <1>5 DEF UploadIsReady
  <2>1. /\ upload.name = "upload" /\ upload.needed /\ ~upload.final /\ poll.name = "poll"
        /\ uploadMastodonV2Media = <<upload, poll>>
    BY DEF PlainRequest, Request, uploadMastodonV2Media
  <2> HIDE DEF poll, upload
  <2>2. call.script = <<upload, poll>>
    <3>1. call.script \in {<<upload, poll>>, <<poll>>}
      BY <1>1, <2>1 DEF CallInv, UploadIsReady, poll
    <3> QED BY <1>1, <2>1, <3>1
  <2>3. step = upload /\ Tail(call.script) = <<poll>>
    BY <2>2
  <2>4. /\ call'.out = "running" => call'.script \in {<<upload, poll>>, <<poll>>}
        /\ call'.out = "ok" => remote'.media = "ready"
    <3>1. Moved => call'.script = <<poll>> /\ call'.out = "running"
      <4>1. <<poll>> # <<>>
        OBVIOUS
      <4> QED BY <1>1, <2>3, <4>1 DEF Moved
    <3> QED BY <1>4, <2>1, <2>2, <2>3, <3>1
  <2> QED BY <2>1, <2>4 DEF UploadIsReady, poll
<1>10. StatusComesLast'
  BY <1>5 DEF StatusComesLast
<1> QED BY <1>5, <1>8, <1>9, <1>10 DEF CallInv

\* The wait for an upload, the end of the context and the provider's own work.
LEMMA WaitKeeps ==
  ASSUME CallInv, CancelCall \/ ProcessMedia \/ waitMastodonMediaReady
  PROVE  CallInv'
<1>1. CASE ProcessMedia
  <2>1. /\ UNCHANGED call /\ remote'.statuses = remote.statuses /\ remote.media # "ready"
        /\ remote' \in [statuses : Nat, media : {"none", "processing", "ready", "broken"}]
    BY <1>1 DEF ProcessMedia, CallInv, CallTyped
  <2> QED BY <2>1 DEF CallInv, CallTyped, StatusComesLast, OthersAreQuiet, UploadIsReady
<1>2. CASE CancelCall \/ waitMastodonMediaReady
  <2>1. call.out = "running" /\ UNCHANGED remote /\ call.op # "none"
    BY <1>2 DEF CancelCall, waitMastodonMediaReady, CallInv, CallTyped
  <2>2. \/ call' = [call EXCEPT !.script = <<>>, !.out = "error"]
        \/ /\ waitMastodonMediaReady
           /\ \/ call' = [call EXCEPT !.script = <<>>, !.out = "ok"] /\ remote.media = "ready"
              \/ call' = [call EXCEPT !.polls = @ + 1]
    BY <1>2 DEF CancelCall, waitMastodonMediaReady
  <2>3. /\ CallTyped' /\ call'.op = call.op
        /\ \/ call'.out = "error"
           \/ call'.out = "ok" /\ remote.media = "ready" /\ waitMastodonMediaReady
           \/ call'.out = "running" /\ call'.script = call.script
    BY <2>1, <2>2 DEF CallInv, CallTyped, Outcomes
  <2>4. call.op \in PublishOps => ~waitMastodonMediaReady
    <3>1. statusStep.name = "status" /\ createSession.name = "session"
      BY DEF statusStep, createSession, doJSONRequest, Request
    <3>2. call.op \in PublishOps => Head(call.script) \in {statusStep, createSession}
      BY <2>1 DEF CallInv, StatusComesLast
    <3> QED BY <3>1, <3>2 DEF waitMastodonMediaReady
  <2> QED BY <2>1, <2>3, <2>4 DEF CallInv, StatusComesLast, OthersAreQuiet, UploadIsReady
<1> QED BY <1>1, <1>2

\* What an adapter answers is what the provider did, whatever was lost or repeated on the
\* way: at most one status, none after a rejection, an upload that is ready (Publish,
\* publicationHTTPError, waitMastodonMediaReady), for any number of retries and polls.
THEOREM AnswersStayTrue == CallsSpec => []AnswersAreTrue
<1>1. CallsInit => CallInv
  BY CallInvInit
<1>2. CallInv /\ [CallsNext]_callVars => CallInv'
  <2> SUFFICES ASSUME CallInv, [CallsNext]_callVars PROVE CallInv'
    OBVIOUS
  <2>1. CASE \E op \in DOMAIN Scripts : Begin(op)
    BY <2>1, BeginKeeps
  <2>2. CASE Exchange
    BY <2>2, PublishExchange, QuietExchange
  <2>3. CASE CancelCall \/ ProcessMedia \/ waitMastodonMediaReady
    BY <2>3, WaitKeeps
  <2>4. CASE UNCHANGED callVars
    BY <2>4 DEF callVars, CallInv, CallTyped, StatusComesLast, OthersAreQuiet, UploadIsReady
  <2> QED BY <2>1, <2>2, <2>3, <2>4 DEF CallsNext
<1>3. CallInv => AnswersAreTrue
  <2> SUFFICES ASSUME CallInv PROVE AnswersAreTrue
    OBVIOUS
  <2>1. CASE call.op \in PublishOps
    <3>1. call.op # "uploadMastodon"
      BY <2>1 DEF PublishOps
    <3> QED BY <2>1, <3>1 DEF CallInv, StatusComesLast, AnswersAreTrue
  <2>2. CASE call.op \notin PublishOps
    <3>1. remote.statuses = 0
      BY <2>2 DEF CallInv, OthersAreQuiet
    <3>2. call.out = "ok" /\ call.op = "uploadMastodon" => remote.media = "ready"
      BY DEF CallInv, UploadIsReady
    <3> HIDE DEF CallInv
    <3>3. call.op \notin {"publishMastodon", "publishFriendica", "publishBluesky", "publishBlueskyToken"}
      BY <2>2 DEF PublishOps
    <3>4. remote.statuses <= 1
      BY <3>1
    <3> QED BY <3>1, <3>2, <3>3, <3>4 DEF AnswersAreTrue
  <2> QED BY <2>1, <2>2
<1> QED BY <1>1, <1>2, <1>3, PTL DEF CallsSpec

(* Replies below a post. *)

\* A finite set has a member with the largest value.
LEMMA LargestMember ==
  ASSUME NEW S, IsFiniteSet(S), S # {}, NEW f \in [S -> Int]
  PROVE  \E a \in S : \A b \in S : f[b] <= f[a]
<1> DEFINE Upper == {U \in SUBSET S : U # {} /\ \A a \in U, b \in S : f[b] >= f[a] => b \in U}
<1>1. Upper \subseteq FiniteSubsetsOf(S) /\ S \in Upper
  <2>1. FiniteSubsetsOf(S) = SUBSET S
    BY FS_FiniteSubsetsOfFinite
  <2> QED BY <2>1
<1>2. PICK U \in Upper : \A V \in Upper : ~ (<<V, U>> \in StrictSubsetOrdering(S))
  <2>1. IsWellFoundedOn(StrictSubsetOrdering(S), FiniteSubsetsOf(S))
    BY FS_StrictSubsetOrderingWellFounded
  <2> HIDE DEF Upper
  <2> QED BY <1>1, <2>1, WFMin
<1>3. PICK a \in U : TRUE
  OBVIOUS
<1> DEFINE V == {b \in U : f[b] > f[a]}
<1>4. V = {}
  <2> SUFFICES ASSUME V # {} PROVE FALSE
    OBVIOUS
  <2>1. V \in Upper
    OBVIOUS
  <2>2. <<V, U>> \in StrictSubsetOrdering(S)
    BY <1>3 DEF StrictSubsetOrdering
  <2> QED BY <1>2, <2>1, <2>2
<1>5. \A b \in S : f[b] <= f[a]
  BY <1>3, <1>4
<1> QED BY <1>3, <1>5

Results == [at : Nat \cup {-1}, replies : SUBSET Nat, truncated : BOOLEAN, upto : Nat]
ReaderPhases == {"idle", "asking", "missed", "waiting", "served", "refused"}
ViewerStates == [pc : ReaderPhases, key : Threads \cup {NoReader.key}, asked : Nat, answer : Results]

ThreadsTyped ==
  /\ instant \in Nat
  /\ thread \in [Threads -> Seq(Visibilities)]
  /\ entries \in [Threads -> Results] /\ upstream \in [Threads -> Nat]
  /\ reader \in [Viewers -> ViewerStates]

\* What a result says of a thread that may have grown since.
TrueOf(e, statuses) ==
  LET there == {j \in 1 .. e.upto : statuses[j] = "visible"}
  IN  /\ e.upto <= Len(statuses)
      /\ e.replies \subseteq there
      /\ ~e.truncated => e.replies = there

EntriesTrue == \A k \in Threads : TrueOf(entries[k], thread[k]) /\ entries[k].at <= instant

ReadersTrue ==
  \A r \in Viewers :
    /\ reader[r].pc # "idle" => reader[r].key \in Threads
    /\ reader[r].asked <= instant
    /\ reader[r].pc = "served" => /\ TrueOf(reader[r].answer, thread[reader[r].key])
                                  /\ reader[r].answer.at > reader[r].asked - threadCacheTTL

\* A call is under way only for a thread the cache has no answer to.
AskedWhenExpired == \A k \in Threads : upstream[k] > 0 => Expired(entries[k])

HeldThreads == {k \in Threads : entries[k] # NoResult}
CacheBounded == IsFiniteSet(HeldThreads) /\ Cardinality(HeldThreads) <= threadCacheMaxKeys

ThreadsInv == ThreadsTyped /\ EntriesTrue /\ ReadersTrue /\ AskedWhenExpired /\ CacheBounded

LEMMA NoResultTyped ==
  NoResult \in Results /\ \A statuses \in Seq(Visibilities) : TrueOf(NoResult, statuses)
BY DEF NoResult, Results, TrueOf

LEMMA ThreadsInvInit == ThreadsInit => ThreadsInv
<1> SUFFICES ASSUME ThreadsInit PROVE ThreadsInv
  OBVIOUS
<1>1. ThreadsTyped
  <2>1. NoReader \in ViewerStates
    BY NoResultTyped DEF NoReader, ViewerStates, ReaderPhases
  <2> QED BY <2>1, NoResultTyped DEF ThreadsInit, ThreadsTyped
<1>2. EntriesTrue
  <2>1. NoResult.at <= 0
    BY DEF NoResult
  <2>2. \A k \in Threads : entries[k] = NoResult /\ thread[k] \in Seq(Visibilities) /\ instant = 0
    BY <1>1 DEF ThreadsInit, ThreadsTyped
  <2> QED BY <2>1, <2>2, NoResultTyped DEF EntriesTrue
<1>3. ReadersTrue
  <2>1. NoReader.pc = "idle" /\ NoReader.asked = 0
    BY DEF NoReader
  <2> QED BY <2>1 DEF ThreadsInit, ReadersTrue
<1>4. AskedWhenExpired
  BY DEF ThreadsInit, AskedWhenExpired
<1>5. CacheBounded
  <2>1. HeldThreads = {}
    BY DEF ThreadsInit, HeldThreads
  <2> QED BY <2>1, FS_EmptySet, ThreadsAssumption DEF CacheBounded
<1> QED BY <1>1, <1>2, <1>3, <1>4, <1>5 DEF ThreadsInv

\* What is read of a thread says the truth about it.
LEMMA DecodedIsTrue ==
  ASSUME NEW statuses \in Seq(Visibilities), instant \in Nat
  PROVE  /\ decodeThreadContext(statuses) \in Results
         /\ TrueOf(decodeThreadContext(statuses), statuses)
         /\ decodeThreadContext(statuses).at = instant
<1> DEFINE Seen(n) == {i \in 1 .. n : threadVisible(statuses[i])}
           read == {n \in 0 .. Len(statuses) : n > 0 => Cardinality(Seen(n - 1)) < maxThreadReplies}
           last == CHOOSE n \in read : \A m \in read : m <= n
           e == [at |-> instant, replies |-> Seen(last), truncated |-> last < Len(statuses),
                 upto |-> Len(statuses)]
<1>0. Len(statuses) \in Nat
  OBVIOUS
<1>1. \E n \in read : \A m \in read : m <= n
  <2> DEFINE id == [n \in read |-> n]
  <2>1. IsFiniteSet(read)
    <3>1. IsFiniteSet(0 .. Len(statuses)) /\ read \subseteq 0 .. Len(statuses)
      BY <1>0, FS_Interval
    <3> HIDE DEF read
    <3> QED BY <3>1, FS_Subset
  <2>2. read # {}
    <3>1. 0 \in read
      BY <1>0
    <3> QED BY <3>1
  <2>3. read \subseteq Int
    BY <1>0
  <2> HIDE DEF read
  <2>4. id \in [read -> Int]
    BY <2>3
  <2>5. PICK a \in read : \A b \in read : id[b] <= id[a]
    <3> HIDE DEF id
    <3> QED BY <2>1, <2>2, <2>4, LargestMember
  <2> QED BY <2>5
<1>2. last \in 0 .. Len(statuses)
  <2>1. last \in read
    <3> HIDE DEF read
    <3> QED BY <1>1
  <2> QED BY <2>1
<1> HIDE DEF read, last
<1>3. e \in Results
  BY <1>0, <1>2 DEF Results
<1>4. TrueOf(e, statuses)
  <2>1. \A n \in 0 .. Len(statuses) : Seen(n) \subseteq Seen(Len(statuses))
    BY <1>0
  <2>2. Seen(Len(statuses)) = {j \in 1 .. Len(statuses) : statuses[j] = "visible"}
    BY DEF threadVisible
  <2>3. ~(last < Len(statuses)) => last = Len(statuses)
    BY <1>0, <1>2
  <2>4. e.replies = Seen(last) /\ e.upto = Len(statuses) /\ (~e.truncated => last = Len(statuses))
    BY <2>3
  <2> HIDE DEF e
  <2>5. e.replies \subseteq Seen(Len(statuses)) /\ (~e.truncated => e.replies = Seen(Len(statuses)))
    BY <1>2, <2>1, <2>4
  <2> QED BY <1>0, <2>2, <2>4, <2>5 DEF TrueOf
<1>5. decodeThreadContext(statuses) = e
  BY DEF decodeThreadContext, last, read
<1> QED BY <1>3, <1>4, <1>5

\* A result stays true when a reply arrives and when time passes.
LEMMA TrueGrows ==
  ASSUME NEW e \in Results, NEW statuses \in Seq(Visibilities), NEW v \in Visibilities,
         TrueOf(e, statuses)
  PROVE  TrueOf(e, Append(statuses, v))
<1>1. /\ Len(Append(statuses, v)) = Len(statuses) + 1 /\ Len(statuses) \in Nat
      /\ \A j \in 1 .. Len(statuses) : Append(statuses, v)[j] = statuses[j]
  BY AppendProperties, LenProperties
<1>2. e.upto \in Nat /\ e.upto <= Len(statuses)
  BY DEF Results, TrueOf
<1>3. {j \in 1 .. e.upto : Append(statuses, v)[j] = "visible"}
      = {j \in 1 .. e.upto : statuses[j] = "visible"}
  BY <1>1, <1>2
<1> QED BY <1>1, <1>2, <1>3 DEF TrueOf

\* One entry is dropped, which changes nothing of what the cache says.
LEMMA SweptKeeps ==
  ASSUME ThreadsInv, NEW k \in Threads
  PROVE  /\ Swept(k) \in [Threads -> Results]
         /\ \A j \in Threads : Swept(k)[j] = entries[j] \/ (Swept(k)[j] = NoResult /\ Expired(entries[j]))
         /\ \A j \in Threads : j # k => Swept(k)[j] = entries[j]
BY NoResultTyped DEF ThreadsInv, ThreadsTyped, Swept

\* Entries that go or stay keep a cache true and within its bound.
LEMMA EntriesDrop ==
  ASSUME ThreadsInv, entries' \in [Threads -> Results], UNCHANGED <<instant, thread>>,
         \A j \in Threads : entries'[j] = entries[j] \/ (entries'[j] = NoResult /\ Expired(entries[j]))
  PROVE  EntriesTrue' /\ CacheBounded' /\ \A j \in Threads : Expired(entries[j]) => Expired(entries[j])'
<1>1. NoResult.at <= instant
  BY DEF NoResult, ThreadsInv, ThreadsTyped
<1>2. EntriesTrue'
  BY <1>1, NoResultTyped DEF ThreadsInv, ThreadsTyped, EntriesTrue
<1>3. CacheBounded'
  <2>1. HeldThreads' \subseteq HeldThreads
    BY DEF HeldThreads
  <2>2. IsFiniteSet(HeldThreads) /\ Cardinality(HeldThreads) <= threadCacheMaxKeys
    BY DEF ThreadsInv, CacheBounded
  <2>3. /\ IsFiniteSet(HeldThreads') /\ Cardinality(HeldThreads') <= Cardinality(HeldThreads)
        /\ Cardinality(HeldThreads) \in Nat /\ Cardinality(HeldThreads') \in Nat
    BY <2>1, <2>2, FS_Subset, FS_CardinalityType
  <2> QED BY <2>2, <2>3, ThreadsAssumption DEF CacheBounded
<1>4. \A j \in Threads : Expired(entries[j]) => Expired(entries[j])'
  BY DEF Expired
<1> QED BY <1>2, <1>3, <1>4

\* A request that is served by the cache: its answer is younger than the time to live.
LEMMA HitIsYoung ==
  ASSUME ThreadsInv, NEW r \in Viewers, NEW k \in Threads, ~Expired(entries[k]),
         reader[r].asked <= instant
  PROVE  entries[k].at > reader[r].asked - threadCacheTTL
<1>1. /\ instant \in Nat /\ reader[r].asked \in Nat /\ entries[k].at \in Nat \cup {-1}
      /\ threadCacheTTL \in Nat
  BY ThreadsAssumption DEF ThreadsInv, ThreadsTyped, ViewerStates, Results
<1>2. ~(instant - entries[k].at >= threadCacheTTL)
  BY DEF Expired
<1> QED BY <1>1, <1>2

\* One reader moves.
LEMMA ReaderMoves ==
  ASSUME ThreadsInv, NEW r \in Viewers, NEW s \in ViewerStates, reader' = [reader EXCEPT ![r] = s],
         UNCHANGED <<instant, thread>>,
         s.pc # "idle" => s.key \in Threads,
         s.asked <= instant,
         s.pc = "served" => TrueOf(s.answer, thread[s.key]) /\ s.answer.at > s.asked - threadCacheTTL
  PROVE  ReadersTrue' /\ reader' \in [Viewers -> ViewerStates]
<1>1. /\ reader' \in [Viewers -> ViewerStates] /\ reader'[r] = s
      /\ \A q \in Viewers : q # r => reader'[q] = reader[q]
  BY DEF ThreadsInv, ThreadsTyped
<1>2. ASSUME NEW q \in Viewers
      PROVE  /\ reader'[q].pc # "idle" => reader'[q].key \in Threads
             /\ reader'[q].asked <= instant
             /\ reader'[q].pc = "served" => /\ TrueOf(reader'[q].answer, thread[reader'[q].key])
                                            /\ reader'[q].answer.at > reader'[q].asked - threadCacheTTL
  <2>1. CASE q = r
    BY <1>1, <2>1
  <2>2. CASE q # r
    BY <1>1, <2>2 DEF ThreadsInv, ReadersTrue
  <2> QED BY <2>1, <2>2
<1>3. ReadersTrue'
  BY <1>2 DEF ReadersTrue
<1> QED BY <1>1, <1>3

LEMMA RequestKeeps ==
  ASSUME ThreadsInv, NEW r \in Viewers, NEW k \in Threads, NEW authorized \in BOOLEAN,
         handlePostThread(r, k, authorized)
  PROVE  ThreadsInv'
<1>1. PICK pc \in {"asking", "refused"} :
        reader' = [reader EXCEPT ![r] = [NoReader EXCEPT !.key = k, !.asked = instant, !.pc = pc]]
  BY DEF handlePostThread
<1> DEFINE s == [NoReader EXCEPT !.key = k, !.asked = instant, !.pc = pc]
<1>2. s \in ViewerStates /\ s.pc \in {"asking", "refused"} /\ s.key = k /\ s.asked = instant
  BY NoResultTyped DEF NoReader, ViewerStates, ReaderPhases, ThreadsInv, ThreadsTyped
<1>3. UNCHANGED <<instant, thread, entries, upstream>>
  BY DEF handlePostThread
<1> HIDE DEF s
<1>4. instant <= instant
  BY DEF ThreadsInv, ThreadsTyped
<1>5. reader' = [reader EXCEPT ![r] = s]
  BY <1>1 DEF s
<1>6. ReadersTrue' /\ reader' \in [Viewers -> ViewerStates]
  BY <1>2, <1>3, <1>4, <1>5, ReaderMoves
<1> QED BY <1>3, <1>6 DEF ThreadsInv, ThreadsTyped, EntriesTrue, AskedWhenExpired, Expired,
                          CacheBounded, HeldThreads

\* A request is answered from the cache, or goes on without an answer.
LEMMA ServedByCache ==
  ASSUME ThreadsInv, NEW r \in Viewers, reader[r].pc # "idle", ~Expired(entries[reader[r].key]),
         Serve(r, entries[reader[r].key]), UNCHANGED <<instant, thread>>
  PROVE  ReadersTrue' /\ reader' \in [Viewers -> ViewerStates]
<1> DEFINE k == reader[r].key
           s == [reader[r] EXCEPT !.pc = "served", !.answer = entries[k]]
<1>1. /\ k \in Threads /\ reader[r].asked <= instant /\ reader[r] \in ViewerStates
      /\ entries[k] \in Results /\ TrueOf(entries[k], thread[k])
  BY DEF ThreadsInv, ThreadsTyped, ReadersTrue, EntriesTrue
<1>2. entries[k].at > reader[r].asked - threadCacheTTL
  BY <1>1, HitIsYoung
<1>3. /\ s \in ViewerStates /\ s.pc = "served" /\ s.key = k /\ s.asked = reader[r].asked
      /\ s.answer = entries[k]
  BY <1>1 DEF ViewerStates, ReaderPhases
<1>4. reader' = [reader EXCEPT ![r] = s]
  BY DEF Serve, ThreadsInv, ThreadsTyped
<1> HIDE DEF s, k
<1> QED BY <1>1, <1>2, <1>3, <1>4, ReaderMoves

LEMMA PhaseMoves ==
  ASSUME ThreadsInv, NEW r \in Viewers, reader[r].pc # "idle", NEW pc \in {"missed", "waiting"},
         reader' = [reader EXCEPT ![r].pc = pc], UNCHANGED <<instant, thread>>
  PROVE  ReadersTrue' /\ reader' \in [Viewers -> ViewerStates]
<1> DEFINE s == [reader[r] EXCEPT !.pc = pc]
<1>1. reader[r].key \in Threads /\ reader[r].asked <= instant /\ reader[r] \in ViewerStates
  BY DEF ThreadsInv, ThreadsTyped, ReadersTrue
<1>2. /\ s \in ViewerStates /\ s.pc \in {"missed", "waiting"} /\ s.key = reader[r].key
      /\ s.asked = reader[r].asked
  BY <1>1 DEF ViewerStates, ReaderPhases
<1>3. reader' = [reader EXCEPT ![r] = s]
  BY DEF ThreadsInv, ThreadsTyped
<1> HIDE DEF s
<1> QED BY <1>1, <1>2, <1>3, ReaderMoves

\* The cache is looked up, once more before a call of the instance starts.
LEMMA LookupsKeep ==
  ASSUME ThreadsInv, NEW r \in Viewers, getCached(r) \/ getShared(r)
  PROVE  ThreadsInv'
<1> DEFINE k == reader[r].key
<1>1. /\ UNCHANGED <<instant, thread>> /\ reader[r].pc \in {"asking", "missed"}
      /\ \/ ~Expired(entries[k]) /\ Serve(r, entries[k]) /\ UNCHANGED upstream
         \/ \E pc \in {"missed", "waiting"} : reader' = [reader EXCEPT ![r].pc = pc]
      /\ UNCHANGED entries \/ entries' = Swept(k)
      /\ UNCHANGED upstream \/ (upstream' = [upstream EXCEPT ![k] = 1] /\ Expired(entries[k]))
  <2>1. CASE getCached(r)
    BY <2>1 DEF getCached, lookup
  <2>2. CASE getShared(r)
    BY <2>2 DEF getShared, LookupAgain, lookup
  <2> QED BY <2>1, <2>2
<1>2. k \in Threads
  BY <1>1 DEF ThreadsInv, ReadersTrue
<1>3. ReadersTrue' /\ reader' \in [Viewers -> ViewerStates]
  BY <1>1, ServedByCache, PhaseMoves
<1>4. /\ entries' \in [Threads -> Results]
      /\ \A j \in Threads : entries'[j] = entries[j] \/ (entries'[j] = NoResult /\ Expired(entries[j]))
  <2>1. CASE UNCHANGED entries
    BY <2>1 DEF ThreadsInv, ThreadsTyped
  <2>2. CASE entries' = Swept(k)
    BY <1>2, <2>2, SweptKeeps
  <2> QED BY <1>1, <2>1, <2>2
<1>5. EntriesTrue' /\ CacheBounded' /\ \A j \in Threads : Expired(entries[j]) => Expired(entries[j])'
  BY <1>1, <1>4, EntriesDrop
<1>6. /\ upstream' \in [Threads -> Nat]
      /\ \A j \in Threads : upstream'[j] > 0 => upstream[j] > 0 \/ Expired(entries[j])
  <2>1. CASE UNCHANGED upstream
    BY <2>1 DEF ThreadsInv, ThreadsTyped
  <2>2. CASE upstream' = [upstream EXCEPT ![k] = 1] /\ Expired(entries[k])
    <3>1. /\ upstream' \in [Threads -> Nat]
          /\ \A j \in Threads : j # k => upstream'[j] = upstream[j]
      BY <1>2, <2>2 DEF ThreadsInv, ThreadsTyped
    <3> QED BY <2>2, <3>1
  <2> QED BY <1>1, <2>1, <2>2
<1>7. AskedWhenExpired'
  BY <1>5, <1>6 DEF ThreadsInv, AskedWhenExpired
<1> QED BY <1>1, <1>3, <1>4, <1>5, <1>6, <1>7 DEF ThreadsInv, ThreadsTyped

\* An answer reaches those who wait for it, and nobody else.
LEMMA AnswerReaches ==
  ASSUME ThreadsInv, NEW k \in Threads, NEW pc \in {"served", "refused"}, NEW e \in Results,
         Answer(k, pc, e), UNCHANGED <<instant, thread>>, TrueOf(e, thread[k]),
         pc = "served" => e.at = instant
  PROVE  /\ ReadersTrue' /\ reader' \in [Viewers -> ViewerStates]
         /\ upstream' \in [Threads -> Nat] /\ upstream'[k] = 0
         /\ \A j \in Threads : j # k => upstream'[j] = upstream[j]
<1>1. /\ upstream' \in [Threads -> Nat] /\ upstream'[k] = 0
      /\ \A j \in Threads : j # k => upstream'[j] = upstream[j]
  BY DEF Answer, ThreadsInv, ThreadsTyped
<1>2. ASSUME NEW r \in Viewers
      PROVE  /\ reader'[r] \in ViewerStates
             /\ reader'[r].pc # "idle" => reader'[r].key \in Threads
             /\ reader'[r].asked <= instant
             /\ reader'[r].pc = "served" => /\ TrueOf(reader'[r].answer, thread[reader'[r].key])
                                            /\ reader'[r].answer.at > reader'[r].asked - threadCacheTTL
  <2>1. CASE reader[r].pc = "waiting" /\ reader[r].key = k
    <3> DEFINE s == [reader[r] EXCEPT !.pc = pc, !.answer = e]
    <3>1. reader'[r] = s
      BY <2>1 DEF Answer
    <3>2. /\ s \in ViewerStates /\ s.pc = pc /\ s.key = k /\ s.asked = reader[r].asked /\ s.answer = e
      BY <2>1 DEF ViewerStates, ReaderPhases, ThreadsInv, ThreadsTyped
    <3>3. /\ reader[r].asked <= instant /\ reader[r].asked \in Nat /\ instant \in Nat
          /\ threadCacheTTL \in Nat \ {0}
      BY ThreadsAssumption DEF ThreadsInv, ThreadsTyped, ReadersTrue, ViewerStates
    <3> HIDE DEF s
    <3>4. pc = "served" => e.at > reader[r].asked - threadCacheTTL
      BY <3>3
    <3> QED BY <3>1, <3>2, <3>3, <3>4
  <2>2. CASE ~(reader[r].pc = "waiting" /\ reader[r].key = k)
    <3>1. reader'[r] = reader[r]
      BY <2>2 DEF Answer
    <3> QED BY <3>1 DEF ThreadsInv, ThreadsTyped, ReadersTrue
  <2> QED BY <2>1, <2>2
<1>3. reader' = [r \in Viewers |-> reader'[r]]
  BY DEF Answer
<1>4. reader' \in [Viewers -> ViewerStates]
  BY <1>2, <1>3
<1>5. ReadersTrue'
  BY <1>2 DEF ReadersTrue
<1> QED BY <1>1, <1>4, <1>5

\* What the cache keeps beside a new entry leaves room for it.
LEMMA StoreKeeps ==
  ASSUME ThreadsInv, NEW k \in Threads, NEW e \in Results, entries' = store(k, e),
         UNCHANGED <<instant, thread>>, TrueOf(e, thread[k]), e.at = instant
  PROVE  /\ entries' \in [Threads -> Results] /\ EntriesTrue' /\ CacheBounded'
         /\ \A j \in Threads : j # k => entries'[j] \in {entries[j], NoResult}
<1> DEFINE alive == IF Cardinality(HeldThreads) >= threadCacheMaxKeys
                    THEN {j \in HeldThreads : ~Expired(entries[j])} ELSE HeldThreads
           kept  == IF Cardinality(alive) >= threadCacheMaxKeys THEN {} ELSE alive
<1>1. entries' = [j \in Threads |-> IF j = k THEN e ELSE IF j \in kept THEN entries[j] ELSE NoResult]
  BY DEF store, HeldThreads
<1>2. /\ IsFiniteSet(kept) /\ Cardinality(kept) < threadCacheMaxKeys /\ Cardinality(kept) \in Nat
  <2>1. IsFiniteSet(HeldThreads) /\ threadCacheMaxKeys \in Nat \ {0}
    BY ThreadsAssumption DEF ThreadsInv, CacheBounded
  <2>2. IsFiniteSet(alive) /\ Cardinality(alive) \in Nat
    <3>1. alive \subseteq HeldThreads
      OBVIOUS
    <3> HIDE DEF alive
    <3> QED BY <2>1, <3>1, FS_Subset, FS_CardinalityType
  <2>3. IsFiniteSet({}) /\ Cardinality({}) = 0
    BY FS_EmptySet
  <2> HIDE DEF alive
  <2>4. CASE Cardinality(alive) >= threadCacheMaxKeys
    BY <2>1, <2>3, <2>4
  <2>5. CASE ~(Cardinality(alive) >= threadCacheMaxKeys)
    BY <2>1, <2>2, <2>5
  <2> QED BY <2>4, <2>5
<1> HIDE DEF kept
<1>3. entries' \in [Threads -> Results]
  BY <1>1, NoResultTyped DEF ThreadsInv, ThreadsTyped
<1>4. \A j \in Threads : j # k => entries'[j] \in {entries[j], NoResult}
  BY <1>1
<1>5. EntriesTrue'
  <2>1. NoResult.at <= instant /\ e.at <= instant
    BY DEF NoResult, ThreadsInv, ThreadsTyped
  <2>2. entries'[k] = e
    BY <1>1
  <2>3. \A j \in Threads : TrueOf(NoResult, thread[j])
    BY NoResultTyped DEF ThreadsInv, ThreadsTyped
  <2> QED BY <1>4, <2>1, <2>2, <2>3 DEF ThreadsInv, EntriesTrue
<1>6. CacheBounded'
  <2>1. HeldThreads' \subseteq kept \cup {k}
    BY <1>1 DEF HeldThreads
  <2>2. IsFiniteSet(kept \cup {k}) /\ Cardinality(kept \cup {k}) <= Cardinality(kept) + 1
    <3>1. /\ IsFiniteSet(kept \cup {k})
          /\ Cardinality(kept \cup {k}) = IF k \in kept THEN Cardinality(kept) ELSE Cardinality(kept) + 1
      BY <1>2, FS_AddElement
    <3> QED BY <1>2, <3>1
  <2>3. /\ IsFiniteSet(HeldThreads') /\ Cardinality(HeldThreads') <= Cardinality(kept \cup {k})
        /\ Cardinality(HeldThreads') \in Nat /\ Cardinality(kept \cup {k}) \in Nat
    BY <2>1, <2>2, FS_Subset, FS_CardinalityType
  <2> QED BY <1>2, <2>2, <2>3, ThreadsAssumption DEF CacheBounded
<1> QED BY <1>3, <1>4, <1>5, <1>6

LEMMA FetchKeeps ==
  ASSUME ThreadsInv, NEW k \in Threads, GetThread(k) \/ GetThreadFails(k)
  PROVE  ThreadsInv'
<1>1. CASE GetThread(k)
  <2> DEFINE e == decodeThreadContext(thread[k])
  <2>1. /\ Answer(k, "served", e) /\ entries' = store(k, e) /\ UNCHANGED <<instant, thread>>
    BY <1>1 DEF GetThread
  <2>2. e \in Results /\ TrueOf(e, thread[k]) /\ e.at = instant
    BY DecodedIsTrue DEF ThreadsInv, ThreadsTyped
  <2> HIDE DEF e
  <2>3. /\ ReadersTrue' /\ reader' \in [Viewers -> ViewerStates]
        /\ upstream' \in [Threads -> Nat] /\ upstream'[k] = 0
        /\ \A j \in Threads : j # k => upstream'[j] = upstream[j]
    BY <2>1, <2>2, AnswerReaches
  <2>4. /\ entries' \in [Threads -> Results] /\ EntriesTrue' /\ CacheBounded'
        /\ \A j \in Threads : j # k => entries'[j] \in {entries[j], NoResult}
    BY <2>1, <2>2, StoreKeeps
  <2>5. AskedWhenExpired'
    BY <2>1, <2>3, <2>4 DEF ThreadsInv, AskedWhenExpired, Expired
  <2> QED BY <2>1, <2>3, <2>4, <2>5 DEF ThreadsInv, ThreadsTyped
<1>2. CASE GetThreadFails(k)
  <2>1. Answer(k, "refused", NoResult) /\ UNCHANGED <<instant, thread, entries>>
    BY <1>2 DEF GetThreadFails
  <2>2. NoResult \in Results /\ TrueOf(NoResult, thread[k])
    BY NoResultTyped DEF ThreadsInv, ThreadsTyped
  <2>3. /\ ReadersTrue' /\ reader' \in [Viewers -> ViewerStates]
        /\ upstream' \in [Threads -> Nat] /\ upstream'[k] = 0
        /\ \A j \in Threads : j # k => upstream'[j] = upstream[j]
    BY <2>1, <2>2, AnswerReaches
  <2>4. ThreadsTyped'
    BY <2>1, <2>3 DEF ThreadsInv, ThreadsTyped
  <2>5. EntriesTrue' /\ CacheBounded'
    BY <2>1 DEF ThreadsInv, EntriesTrue, CacheBounded, HeldThreads
  <2>6. AskedWhenExpired'
    BY <2>1, <2>3 DEF ThreadsInv, AskedWhenExpired, Expired
  <2> QED BY <2>3, <2>4, <2>5, <2>6 DEF ThreadsInv
<1> QED BY <1>1, <1>2

\* A reply arrives at the instance; time passes.
LEMMA OutsideKeeps ==
  ASSUME ThreadsInv,
         PassTick \/ \E k \in Threads, v \in Visibilities : ReplyArrives(k, v)
  PROVE  ThreadsInv'
<1>1. /\ UNCHANGED <<entries, upstream, reader>> /\ instant' \in Nat /\ instant <= instant'
      /\ thread' \in [Threads -> Seq(Visibilities)]
      /\ \A j \in Threads : thread'[j] = thread[j] \/ \E v \in Visibilities : thread'[j] = Append(thread[j], v)
  <2>1. CASE PassTick
    BY <2>1 DEF PassTick, ThreadsInv, ThreadsTyped
  <2>2. CASE \E k \in Threads, v \in Visibilities : ReplyArrives(k, v)
    BY <2>2 DEF ReplyArrives, ThreadsInv, ThreadsTyped
  <2> QED BY <2>1, <2>2
<1>2. \A j \in Threads, e \in Results : TrueOf(e, thread[j]) => TrueOf(e, thread'[j])
  BY <1>1, TrueGrows DEF ThreadsInv, ThreadsTyped
<1>3. /\ \A j \in Threads : entries[j] \in Results /\ entries[j].at \in Int
      /\ \A r \in Viewers : reader[r].answer \in Results /\ reader[r].asked \in Nat
      /\ instant \in Nat /\ threadCacheTTL \in Nat
  BY ThreadsAssumption DEF ThreadsInv, ThreadsTyped, ViewerStates, Results
<1>4. EntriesTrue'
  BY <1>1, <1>2, <1>3 DEF ThreadsInv, EntriesTrue
<1>5. ReadersTrue'
  BY <1>1, <1>2, <1>3 DEF ThreadsInv, ReadersTrue
<1>6. AskedWhenExpired'
  BY <1>1, <1>3 DEF ThreadsInv, AskedWhenExpired, Expired
<1> QED BY <1>1, <1>4, <1>5, <1>6 DEF ThreadsInv, ThreadsTyped, CacheBounded, HeldThreads

\* What a viewer is shown is young enough, complete or said not to be, and free of direct
\* messages; nothing is asked twice and the cache keeps its bound (handlePostThread,
\* threadCache), for any number of viewers, threads and replies.
THEOREM ThreadsStayTrue == ThreadsSpec => []ThreadsTrue
<1>1. ThreadsInit => ThreadsInv
  BY ThreadsInvInit
<1>2. ThreadsInv /\ [ThreadsNext]_threadVars => ThreadsInv'
  <2> SUFFICES ASSUME ThreadsInv, [ThreadsNext]_threadVars PROVE ThreadsInv'
    OBVIOUS
  <2>1. CASE \E r \in Viewers, k \in Threads, ok \in BOOLEAN : handlePostThread(r, k, ok)
    BY <2>1, RequestKeeps
  <2>2. CASE \E r \in Viewers : getCached(r) \/ getShared(r)
    BY <2>2, LookupsKeep
  <2>3. CASE \E k \in Threads : GetThread(k) \/ GetThreadFails(k)
    BY <2>3, FetchKeeps
  <2>4. CASE PassTick \/ \E k \in Threads, v \in Visibilities : ReplyArrives(k, v)
    BY <2>4, OutsideKeeps
  <2>5. CASE UNCHANGED threadVars
    BY <2>5 DEF threadVars, ThreadsInv, ThreadsTyped, EntriesTrue, ReadersTrue, AskedWhenExpired,
                Expired, CacheBounded, HeldThreads
  <2> QED BY <2>1, <2>2, <2>3, <2>4, <2>5 DEF ThreadsNext
<1>3. ThreadsInv => ThreadsTrue
  BY DEF ThreadsInv, ReadersTrue, TrueOf, AskedWhenExpired, CacheBounded, HeldThreads, ThreadsTrue
<1> QED BY <1>1, <1>2, <1>3, PTL DEF ThreadsSpec

(* The drafts of a language model. *)

\* A text cut to a limit fits it, and one that fits is left alone.
LEMMA CutsFit ==
  ASSUME NEW len \in Nat \ {0}, NEW limit \in Nat \ {0}, NEW cut \in truncateToLimit(len, limit)
  PROVE  cut \in 1 .. limit /\ (len <= limit => cut = len)
<1>1. CASE len <= limit
  BY <1>1 DEF truncateToLimit
<1>2. CASE ~(len <= limit)
  <2>1. Most(20, limit \div 6) \in Nat /\ Most(20, limit \div 6) >= 20
    BY DEF Most
  <2>2. CASE cut = limit
    BY <1>2, <2>2
  <2>3. CASE cut = Most(1, limit - Most(20, limit \div 6) + 1)
    <3> DEFINE m == Most(20, limit \div 6)
    <3>1. m \in Nat /\ m >= 20
      BY <2>1
    <3> HIDE DEF m
    <3>2. cut = Most(1, limit - m + 1)
      BY <2>3 DEF m
    <3>3. cut \in 1 .. limit
      BY <3>1, <3>2 DEF Most
    <3> QED BY <1>2, <3>3
  <2> QED BY <1>2, <2>2, <2>3 DEF truncateToLimit
<1> QED BY <1>1, <1>2

\* The account that writes has the largest limit.
LEMMA PrimaryIsLargest ==
  ASSUME NEW chosen \in SUBSET Accounts, chosen # {}
  PROVE  /\ primaryAccount(chosen) \in chosen
         /\ MaxChars[primaryAccount(chosen)] \in Nat \ {0}
         /\ \A a \in chosen : MaxChars[a] \in Nat \ {0} /\ MaxChars[a] <= MaxChars[primaryAccount(chosen)]
<1>1. \A a \in chosen : MaxChars[a] \in Nat \ {0}
  BY VoiceAssumption
<1> DEFINE limits == [a \in chosen |-> MaxChars[a]]
<1>2. limits \in [chosen -> Int] /\ \A a \in chosen : limits[a] = MaxChars[a]
  BY <1>1
<1>3. IsFiniteSet(chosen)
  BY VoiceAssumption, FS_Subset
<1>4. \E a \in chosen : \A b \in chosen : MaxChars[b] <= MaxChars[a]
  <2> HIDE DEF limits
  <2>1. PICK a \in chosen : \A b \in chosen : limits[b] <= limits[a]
    BY <1>2, <1>3, LargestMember
  <2> QED BY <1>2, <2>1
<1>5. /\ primaryAccount(chosen) \in chosen
      /\ \A b \in chosen : MaxChars[b] <= MaxChars[primaryAccount(chosen)]
  BY <1>4 DEF primaryAccount
<1> QED BY <1>1, <1>5

\* A result that the checks may accept: the text fits the account that writes it, and each
\* variant belongs to an account the text is too long for, fits it and is shorter.
Fitting(result, chosen) ==
  /\ result \in [content : {result.content}, variants : {result.variants}]
  /\ result.content \in 1 .. MaxChars[primaryAccount(chosen)]
  /\ DOMAIN result.variants \subseteq chosen \ {primaryAccount(chosen)}
  /\ \A a \in DOMAIN result.variants :
       /\ result.content > MaxChars[a]
       /\ result.variants[a] \in 1 .. MaxChars[a] /\ result.variants[a] < result.content

\* Offers that are positive where they count, as functions of some accounts.
Offered(f) == \A a \in DOMAIN f : f[a] \in Nat

\* What the normalization makes of any answer fits, and a variant that fits is kept.
LEMMA NormalFits ==
  ASSUME NEW chosen \in SUBSET Accounts, chosen # {}, NEW len \in Nat \ {0}, NEW offered,
         Offered(offered), NEW n \in normalizeMultiAccountResult(len, offered, chosen)
  PROVE  /\ Fitting(n, chosen)
         /\ len <= MaxChars[primaryAccount(chosen)] => n.content = len
         /\ \A a \in DOMAIN offered \cap chosen :
              a # primaryAccount(chosen) /\ MaxChars[a] < n.content /\ offered[a] \in 1 .. MaxChars[a]
                /\ offered[a] < n.content
              => a \in DOMAIN n.variants /\ n.variants[a] = offered[a]
<1> DEFINE main  == primaryAccount(chosen)
           limit == MaxChars[main]
           Kept(content) == {a \in (DOMAIN offered \cap chosen) \ {main} :
                               MaxChars[a] < limit /\ content > MaxChars[a] /\ offered[a] > 0}
           Family(content) == [a \in Kept(content) |-> truncateToLimit(offered[a], MaxChars[a])]
<1>1. /\ main \in chosen /\ limit \in Nat \ {0}
      /\ \A a \in chosen : MaxChars[a] \in Nat \ {0} /\ MaxChars[a] <= limit
  BY PrimaryIsLargest
<1>2. PICK content \in truncateToLimit(len, limit) :
        \E f \in Choices(Family(content)) :
          n = [content |-> content, variants |-> Over(f, {a \in DOMAIN f : f[a] < content})]
  BY DEF normalizeMultiAccountResult
<1>3. PICK f \in Choices(Family(content)) :
        n = [content |-> content, variants |-> Over(f, {a \in DOMAIN f : f[a] < content})]
  BY <1>2
<1>4. content \in 1 .. limit /\ (len <= limit => content = len)
  BY <1>1, <1>2, CutsFit
<1>5. DOMAIN f = Kept(content) /\ \A a \in Kept(content) : f[a] \in truncateToLimit(offered[a], MaxChars[a])
  BY <1>3 DEF Choices
<1>6. \A a \in Kept(content) :
        /\ a \in chosen /\ a # main /\ a \in DOMAIN offered /\ content > MaxChars[a]
        /\ f[a] \in 1 .. MaxChars[a]
        /\ offered[a] <= MaxChars[a] => f[a] = offered[a]
  <2> SUFFICES ASSUME NEW a \in Kept(content)
               PROVE  /\ a \in chosen /\ a # main /\ a \in DOMAIN offered /\ content > MaxChars[a]
                      /\ f[a] \in 1 .. MaxChars[a]
                      /\ offered[a] <= MaxChars[a] => f[a] = offered[a]
    OBVIOUS
  <2>1. offered[a] \in Nat \ {0} /\ MaxChars[a] \in Nat \ {0}
    BY <1>1 DEF Offered
  <2>2. f[a] \in truncateToLimit(offered[a], MaxChars[a])
    BY <1>5
  <2> QED BY <2>1, <2>2, CutsFit
<1>7. /\ n.content = content /\ DOMAIN n.variants = {a \in Kept(content) : f[a] < content}
      /\ \A a \in DOMAIN n.variants : n.variants[a] = f[a]
  BY <1>3, <1>5 DEF Over
<1>8. Fitting(n, chosen)
  <2>1. n \in [content : {n.content}, variants : {n.variants}]
    BY <1>3
  <2> HIDE DEF Kept
  <2> QED BY <1>4, <1>6, <1>7, <2>1 DEF Fitting
<1>9. ASSUME NEW a \in DOMAIN offered \cap chosen, a # main, MaxChars[a] < content,
             offered[a] \in 1 .. MaxChars[a], offered[a] < content
      PROVE  a \in DOMAIN n.variants /\ n.variants[a] = offered[a]
  <2>1. a \in Kept(content)
    BY <1>1, <1>4, <1>9
  <2> QED BY <1>6, <1>7, <1>9, <2>1
<1> HIDE DEF Kept
<1> QED BY <1>4, <1>7, <1>8, <1>9

\* A fitting result that is completed fits and serves every account.
LEMMA FilledFits ==
  ASSUME NEW chosen \in SUBSET Accounts, chosen # {}, NEW normal, Fitting(normal, chosen),
         NEW result \in fillMissingOverrides(normal, chosen)
  PROVE  /\ Fitting(result, chosen)
         /\ \A a \in chosen : MaxChars[a] < result.content => a \in DOMAIN result.variants
<1> DEFINE main == primaryAccount(chosen)
           missing == {a \in chosen \ {main} :
                         normal.content > MaxChars[a] /\ a \notin DOMAIN normal.variants}
           Family == [a \in missing |-> truncateToLimit(normal.content, MaxChars[a])]
           Joined(f) == [a \in DOMAIN normal.variants \cup missing |->
                           IF a \in missing THEN f[a] ELSE normal.variants[a]]
<1>1. /\ main \in chosen /\ MaxChars[main] \in Nat \ {0}
      /\ \A a \in chosen : MaxChars[a] \in Nat \ {0} /\ MaxChars[a] <= MaxChars[main]
  BY PrimaryIsLargest
<1>2. PICK f \in Choices(Family) : result = [normal EXCEPT !.variants = Joined(f)]
  BY DEF fillMissingOverrides
<1>3. DOMAIN f = missing /\ \A a \in missing : f[a] \in truncateToLimit(normal.content, MaxChars[a])
  BY <1>2 DEF Choices
<1>4. normal.content \in Nat \ {0} /\ normal.content <= MaxChars[main]
  BY <1>1 DEF Fitting
<1>5. \A a \in missing : f[a] \in 1 .. MaxChars[a] /\ f[a] < normal.content
  <2> SUFFICES ASSUME NEW a \in missing PROVE f[a] \in 1 .. MaxChars[a] /\ f[a] < normal.content
    OBVIOUS
  <2>1. MaxChars[a] \in Nat \ {0} /\ MaxChars[a] < normal.content
    BY <1>1, <1>4
  <2>2. f[a] \in 1 .. MaxChars[a]
    BY <1>3, <1>4, <2>1, CutsFit
  <2> QED BY <1>4, <2>1, <2>2
<1> DEFINE joined == Joined(f)
<1>6. /\ DOMAIN joined = DOMAIN normal.variants \cup missing
      /\ \A a \in missing : joined[a] = f[a]
      /\ \A a \in DOMAIN normal.variants \ missing : joined[a] = normal.variants[a]
  OBVIOUS
<1>7. result = [normal EXCEPT !.variants = joined]
  BY <1>2
<1> HIDE DEF joined
<1>8. /\ result.content = normal.content /\ result.variants = joined
      /\ result \in [content : {result.content}, variants : {result.variants}]
  BY <1>7 DEF Fitting
<1>9. DOMAIN joined \subseteq chosen \ {main}
  BY <1>6 DEF Fitting
<1>10. ASSUME NEW a \in DOMAIN joined
       PROVE  normal.content > MaxChars[a] /\ joined[a] \in 1 .. MaxChars[a] /\ joined[a] < normal.content
  <2>1. CASE a \in missing
    BY <1>5, <1>6, <2>1
  <2>2. CASE a \in DOMAIN normal.variants \ missing
    BY <1>6, <2>2 DEF Fitting
  <2> QED BY <1>6, <2>1, <2>2
<1>11. ASSUME NEW a \in chosen, MaxChars[a] < normal.content PROVE a \in DOMAIN joined
  <2>1. a # main
    BY <1>1, <1>4, <1>11
  <2>2. a \in missing \/ a \in DOMAIN normal.variants
    BY <1>1, <1>4, <1>11, <2>1
  <2> QED BY <1>6, <2>2
<1>12. normal.content \in 1 .. MaxChars[primaryAccount(chosen)]
  BY DEF Fitting
<1>13. Fitting(result, chosen)
  BY <1>8, <1>9, <1>10, <1>12 DEF Fitting
<1> QED BY <1>8, <1>11, <1>13

\* A fitting result is refused only where a long text was asked for or an account has nothing.
LEMMA FittingIsAccepted ==
  ASSUME NEW chosen \in SUBSET Accounts, chosen # {}, NEW result, Fitting(result, chosen),
         \A a \in chosen : MaxChars[a] < result.content => a \in DOMAIN result.variants
  PROVE  validateLengths(result, "grounded", chosen)
<1>1. /\ \A a \in chosen : MaxChars[a] \in Nat \ {0}
      /\ result.content \in Int
  BY PrimaryIsLargest DEF Fitting
<1>2. \A a \in chosen \ {primaryAccount(chosen)} :
        IF result.content <= MaxChars[a] THEN a \notin DOMAIN result.variants
        ELSE /\ a \in DOMAIN result.variants
             /\ result.variants[a] <= MaxChars[a]
             /\ result.variants[a] < result.content
  BY <1>1 DEF Fitting
<1> QED BY <1>2 DEF Fitting, validateLengths

\* Hashtags are added while they fit.
LEMMA HashtagsFit ==
  ASSUME NEW content \in Nat, NEW tags \in Nat, NEW limit \in Nat, content <= limit
  PROVE  mergeHashtagsIntoContent(content, tags, limit) \in Nat
         /\ mergeHashtagsIntoContent(content, tags, limit) <= limit
<1> DEFINE fitting == {k \in 0 .. Least(tags, maxHashtags) : content + k * (Tag + 1) <= limit}
           most == CHOOSE k \in fitting : \A j \in fitting : j <= k
<1>1. Least(tags, maxHashtags) \in Nat /\ Tag \in Nat
  BY VoiceAssumption DEF Least, maxHashtags
<1>2. 0 \in fitting /\ fitting \subseteq 0 .. Least(tags, maxHashtags)
  BY <1>1
<1>3. IsFiniteSet(fitting)
  <2>1. IsFiniteSet(0 .. Least(tags, maxHashtags))
    BY <1>1, FS_Interval
  <2> HIDE DEF fitting
  <2> QED BY <1>2, <2>1, FS_Subset
<1>4. \E k \in fitting : \A j \in fitting : j <= k
  <2> DEFINE id == [k \in fitting |-> k]
  <2> HIDE DEF fitting
  <2>1. id \in [fitting -> Int] /\ \A k \in fitting : id[k] = k
    BY <1>1, <1>2
  <2> HIDE DEF id
  <2>2. PICK k \in fitting : \A j \in fitting : id[j] <= id[k]
    BY <1>2, <1>3, <2>1, LargestMember
  <2> QED BY <2>1, <2>2
<1>5. most \in fitting
  <2> HIDE DEF fitting
  <2> QED BY <1>4
<1>6. mergeHashtagsIntoContent(content, tags, limit) = content + most * (Tag + 1)
  BY DEF mergeHashtagsIntoContent
<1> HIDE DEF most
<1>7. most \in Nat /\ content + most * (Tag + 1) <= limit
  BY <1>1, <1>5
<1>8. most * (Tag + 1) \in Nat
  BY <1>1, <1>7
<1> QED BY <1>6, <1>7, <1>8

\* What is delivered after the checks serves every account: the normalization of a result
\* that passed them changes nothing an account needs.
LEMMA CheckedFits ==
  ASSUME NEW chosen \in SUBSET Accounts, chosen # {}, NEW result, Fitting(result, chosen),
         NEW kind, validateLengths(result, kind, chosen),
         NEW n \in normalizeMultiAccountResult(result.content, result.variants, chosen)
  PROVE  /\ n.content = result.content /\ Fitting(n, chosen)
         /\ \A a \in chosen :
              (IF a \in DOMAIN n.variants THEN n.variants[a] ELSE n.content) \in 1 .. MaxChars[a]
<1> DEFINE main == primaryAccount(chosen)
<1>1. /\ main \in chosen /\ \A a \in chosen : MaxChars[a] \in Nat \ {0} /\ MaxChars[a] <= MaxChars[main]
  BY PrimaryIsLargest
<1>2. /\ result.content \in Nat \ {0} /\ result.content <= MaxChars[main]
      /\ Offered(result.variants)
  <2>1. \A a \in DOMAIN result.variants : result.variants[a] \in Nat
    BY <1>1 DEF Fitting
  <2> QED BY <1>1, <2>1 DEF Fitting, Offered
<1>3. /\ Fitting(n, chosen) /\ n.content = result.content
      /\ \A a \in DOMAIN result.variants \cap chosen :
           a # main /\ MaxChars[a] < n.content /\ result.variants[a] \in 1 .. MaxChars[a]
             /\ result.variants[a] < n.content
           => a \in DOMAIN n.variants
  BY <1>2, NormalFits
<1>4. ASSUME NEW a \in chosen
      PROVE  (IF a \in DOMAIN n.variants THEN n.variants[a] ELSE n.content) \in 1 .. MaxChars[a]
  <2>1. CASE a \in DOMAIN n.variants
    BY <1>3, <2>1 DEF Fitting
  <2>2. CASE a \notin DOMAIN n.variants
    <3>1. CASE a = main
      BY <1>1, <1>2, <1>3, <2>2, <3>1
    <3>2. CASE a # main /\ result.content <= MaxChars[a]
      BY <1>1, <1>2, <1>3, <2>2, <3>2
    <3>3. CASE a # main /\ ~(result.content <= MaxChars[a])
      <4>1. a \in DOMAIN result.variants
        BY <3>3 DEF validateLengths
      <4>2. result.variants[a] \in 1 .. MaxChars[a] /\ result.variants[a] < result.content
        BY <4>1 DEF Fitting
      <4>3. MaxChars[a] < n.content
        BY <1>1, <1>2, <1>3, <3>3
      <4> QED BY <1>3, <2>2, <3>3, <4>1, <4>2, <4>3
    <3> QED BY <3>1, <3>2, <3>3
  <2> QED BY <2>1, <2>2
<1> QED BY <1>3, <1>4

Reasons == {"", "parameter", "llm", "truncated", "unusable", "lengths"}

VoiceTyped ==
  /\ work \in [phase : {"idle", "asking", "done", "failed"}, kind : Kinds, chosen : SUBSET Accounts,
               demands : SUBSET Params, fixed : SUBSET Params, attempt : Nat, try : Nat,
               budget : Nat, why : Reasons, checked : {work.checked}, content : {work.content},
               variants : {work.variants}]
  /\ budgets \in [start : 0 .. maxTokenBudget, truncs : Nat]

\* An account is chosen for a draft, and every correction was one of the two parameters.
CorrectionsCount ==
  /\ work.phase = "asking" /\ work.kind \in Drafting => work.chosen # {}
  /\ work.fixed \subseteq work.demands
  /\ \/ work.attempt = 0
     \/ work.attempt = 1 /\ work.fixed # {}
     \/ work.attempt = 2 /\ work.fixed = Params

VoiceInv == VoiceTyped /\ CorrectionsCount /\ DraftsFit

\* The memory of budgets stays within its bounds.
LEMMA MemoryBounded ==
  ASSUME budgets \in [start : 0 .. maxTokenBudget, truncs : Nat]
  PROVE  /\ learnTruncation(budgets) \in [start : 0 .. maxTokenBudget, truncs : Nat]
         /\ starting(budgets) \in defaultMaxTokens .. maxTokenBudget
<1>1. budgets.start \in 0 .. 8 /\ budgets.truncs \in Nat
  BY DEF maxTokenBudget
<1>2. starting(budgets) \in defaultMaxTokens .. maxTokenBudget
  BY <1>1 DEF starting, Most, defaultMaxTokens, maxTokenBudget
<1>3. Least(Most(budgets.start, defaultMaxTokens) + 1, maxTokenBudget) \in 0 .. maxTokenBudget
  BY <1>1 DEF Least, Most, defaultMaxTokens, maxTokenBudget
<1>4. learnTruncation(budgets) \in [start : 0 .. maxTokenBudget, truncs : Nat]
  <2>1. CASE budgets.truncs + 1 < truncationsBeforeRaise
    BY <1>1, <2>1 DEF learnTruncation
  <2>2. CASE ~(budgets.truncs + 1 < truncationsBeforeRaise)
    BY <1>3, <2>2 DEF learnTruncation
  <2> QED BY <2>1, <2>2
<1> QED BY <1>2, <1>4

LEMMA VoiceInvInit == VoiceInit => VoiceInv
<1> SUFFICES ASSUME VoiceInit PROVE VoiceInv
  OBVIOUS
<1>1. VoiceTyped
  <2>1. "plain" \in Kinds /\ "" \in Reasons /\ 0 \in 0 .. maxTokenBudget
    BY DEF Kinds, Drafting, Reasons, maxTokenBudget
  <2>2. work = NoDraft /\ budgets = [start |-> 0, truncs |-> 0]
    BY DEF VoiceInit
  <2>3. work \in [phase : {"idle", "asking", "done", "failed"}, kind : Kinds, chosen : SUBSET Accounts,
                  demands : SUBSET Params, fixed : SUBSET Params, attempt : Nat, try : Nat,
                  budget : Nat, why : Reasons, checked : {work.checked}, content : {work.content},
                  variants : {work.variants}]
    BY <2>1, <2>2 DEF NoDraft
  <2> QED BY <2>1, <2>2, <2>3 DEF VoiceTyped
<1>2. work.phase = "idle" /\ work.why = "" /\ work.fixed = {} /\ work.demands = {} /\ work.attempt = 0
  BY DEF VoiceInit, NoDraft
<1> QED BY <1>1, <1>2 DEF VoiceInv, CorrectionsCount, DraftsFit

\* A job ends without a draft: nothing is delivered, and not for a parameter.
LEMMA FailKeeps ==
  ASSUME VoiceInv, NEW why \in {"llm", "truncated", "unusable", "lengths"}, Fail(why), UNCHANGED budgets,
         why = "lengths" => work.kind \notin {"grounded"}
  PROVE  VoiceInv'
<1>1. /\ VoiceTyped' /\ work'.phase = "failed" /\ work'.why = why /\ work'.kind = work.kind
      /\ work'.fixed = work.fixed /\ work'.demands = work.demands /\ work'.attempt = work.attempt
  BY DEF Fail, VoiceInv, VoiceTyped, Reasons
<1> QED BY <1>1 DEF VoiceInv, CorrectionsCount, DraftsFit, Drafting

\* A request is sent again, with the parameters, the budget or the prompt changed.
LEMMA AskingKeeps ==
  ASSUME VoiceInv, NEW s, work' = s, budgets' \in [start : 0 .. maxTokenBudget, truncs : Nat],
         s \in [phase : {"asking"}, kind : Kinds, chosen : SUBSET Accounts,
                demands : SUBSET Params, fixed : SUBSET Params, attempt : Nat, try : Nat,
                budget : defaultMaxTokens .. maxTokenBudget, why : Reasons \ {"parameter"},
                checked : {s.checked}, content : {s.content}, variants : {s.variants}],
         s.kind \in Drafting => s.chosen # {},
         s.fixed \subseteq s.demands,
         \/ s.attempt = 0
         \/ s.attempt = 1 /\ s.fixed # {}
         \/ s.attempt = 2 /\ s.fixed = Params
  PROVE  VoiceInv'
<1>1. VoiceTyped'
  BY DEF VoiceTyped, defaultMaxTokens, maxTokenBudget
<1>2. s.phase = "asking" /\ s.why # "parameter" /\ s.budget \in defaultMaxTokens .. maxTokenBudget
  OBVIOUS
<1>3. CorrectionsCount'
  BY DEF CorrectionsCount
<1>4. DraftsFit'
  BY <1>2 DEF DraftsFit
<1> QED BY <1>1, <1>3, <1>4 DEF VoiceInv

LEMMA PrepareKeeps ==
  ASSUME VoiceInv, NEW kind \in Kinds, NEW chosen \in SUBSET Accounts, NEW demands \in SUBSET Params,
         prepareVoicePrompt(kind, chosen, demands)
  PROVE  VoiceInv'
<1> DEFINE budget == IF kind = "profile" THEN defaultMaxTokens ELSE starting(budgets)
           s == [NoDraft EXCEPT !.phase = "asking", !.kind = kind, !.chosen = chosen,
                                !.demands = demands, !.budget = budget]
<1>1. work' = s /\ UNCHANGED budgets /\ (kind \in Drafting => chosen # {})
  BY DEF prepareVoicePrompt
<1>2. budget \in defaultMaxTokens .. maxTokenBudget
  BY MemoryBounded DEF VoiceInv, VoiceTyped, defaultMaxTokens, maxTokenBudget
<1> HIDE DEF budget
<1>3. /\ s \in [phase : {"asking"}, kind : Kinds, chosen : SUBSET Accounts,
                demands : SUBSET Params, fixed : SUBSET Params, attempt : Nat, try : Nat,
                budget : defaultMaxTokens .. maxTokenBudget, why : Reasons \ {"parameter"},
                checked : {s.checked}, content : {s.content}, variants : {s.variants}]
      /\ s.kind = kind /\ s.chosen = chosen /\ s.fixed = {} /\ s.attempt = 0
  BY <1>2 DEF NoDraft, Reasons
<1> HIDE DEF s
<1> QED BY <1>1, <1>3, AskingKeeps DEF VoiceInv, VoiceTyped

\* What is asked again keeps what is known of the model's demands.
LEMMA AskAgain ==
  ASSUME VoiceInv, work.phase = "asking", NEW fixed \in SUBSET Params, fixed \subseteq work.demands,
         NEW attempt \in {0, 1, 2}, NEW try \in Nat, NEW budget \in defaultMaxTokens .. maxTokenBudget,
         work' = [work EXCEPT !.fixed = fixed, !.attempt = attempt, !.try = try, !.budget = budget],
         \/ attempt = 0
         \/ attempt = 1 /\ fixed # {}
         \/ attempt = 2 /\ fixed = Params,
         budgets' \in [start : 0 .. maxTokenBudget, truncs : Nat]
  PROVE  VoiceInv'
<1> DEFINE s == [work EXCEPT !.fixed = fixed, !.attempt = attempt, !.try = try, !.budget = budget]
<1>1. work.why \in Reasons \ {"parameter"} /\ (work.kind \in Drafting => work.chosen # {})
  BY DEF VoiceInv, VoiceTyped, CorrectionsCount, DraftsFit
<1>2. work \in [phase : {"asking"}, kind : Kinds, chosen : SUBSET Accounts,
                demands : SUBSET Params, fixed : SUBSET Params, attempt : Nat, try : Nat,
                budget : Nat, why : Reasons \ {"parameter"}, checked : {work.checked},
                content : {work.content}, variants : {work.variants}]
  BY <1>1 DEF VoiceInv, VoiceTyped
<1>3. /\ s.kind = work.kind /\ s.chosen = work.chosen /\ s.fixed = fixed /\ s.attempt = attempt
      /\ s.demands = work.demands /\ s.checked = work.checked /\ s.content = work.content
      /\ s.variants = work.variants
  BY <1>2
<1>4. s \in [phase : {"asking"}, kind : Kinds, chosen : SUBSET Accounts,
             demands : SUBSET Params, fixed : SUBSET Params, attempt : Nat, try : Nat,
             budget : defaultMaxTokens .. maxTokenBudget, why : Reasons \ {"parameter"},
             checked : {work.checked}, content : {work.content}, variants : {work.variants}]
  <2> DEFINE T == defaultMaxTokens .. maxTokenBudget
             C == {work.checked}
             X == {work.content}
             V == {work.variants}
             W == Reasons \ {"parameter"}
  <2>1. budget \in T /\ attempt \in Nat
    OBVIOUS
  <2>2. work \in [phase : {"asking"}, kind : Kinds, chosen : SUBSET Accounts,
                  demands : SUBSET Params, fixed : SUBSET Params, attempt : Nat, try : Nat,
                  budget : Nat, why : W, checked : C, content : X, variants : V]
    BY <1>2
  <2> HIDE DEF T, C, X, V, W
  <2>3. s \in [phase : {"asking"}, kind : Kinds, chosen : SUBSET Accounts,
               demands : SUBSET Params, fixed : SUBSET Params, attempt : Nat, try : Nat,
               budget : T, why : W, checked : C, content : X, variants : V]
    BY <2>1, <2>2
  <2> QED BY <2>3 DEF T, C, X, V, W
<1>5. work' = s
  OBVIOUS
<1> HIDE DEF s
<1>6. s.kind \in Drafting => s.chosen # {}
  BY <1>1, <1>3
<1>7. \/ s.attempt = 0
      \/ s.attempt = 1 /\ s.fixed # {}
      \/ s.attempt = 2 /\ s.fixed = Params
  BY <1>3
<1> QED BY <1>3, <1>4, <1>5, <1>6, <1>7, AskingKeeps

LEMMA CorrectionKeeps ==
  ASSUME VoiceInv, NEW d \in Params, applyCorrection(d)
  PROVE  VoiceInv'
<1>1. /\ work.phase = "asking" /\ d \in work.demands /\ d \notin work.fixed /\ UNCHANGED budgets
      /\ work.fixed \in SUBSET Params /\ work.fixed \subseteq work.demands
      /\ \/ work.attempt = 0
         \/ work.attempt = 1 /\ work.fixed # {}
         \/ work.attempt = 2 /\ work.fixed = Params
  BY DEF applyCorrection, Asking, VoiceInv, VoiceTyped, CorrectionsCount
<1>2. work.attempt < 2
  BY <1>1
<1>3. work' = [work EXCEPT !.fixed = work.fixed \cup {d}, !.attempt = work.attempt + 1]
  BY <1>2 DEF applyCorrection
<1>4. work' = [work EXCEPT !.fixed = work.fixed \cup {d}, !.attempt = work.attempt + 1,
                           !.try = work.try, !.budget = work.budget]
  BY <1>3 DEF VoiceInv, VoiceTyped
<1>5. \/ work.attempt + 1 = 1 /\ work.fixed \cup {d} # {}
      \/ work.attempt + 1 = 2 /\ work.fixed \cup {d} = Params
  BY <1>1, <1>2 DEF Params
<1>6. /\ work.fixed \cup {d} \in SUBSET Params /\ work.fixed \cup {d} \subseteq work.demands
      /\ work.attempt + 1 \in {0, 1, 2} /\ work.try \in Nat
      /\ work.budget \in defaultMaxTokens .. maxTokenBudget
      /\ budgets' \in [start : 0 .. maxTokenBudget, truncs : Nat]
  BY <1>1, <1>5 DEF VoiceInv, VoiceTyped, DraftsFit
<1> QED BY <1>1, <1>4, <1>5, <1>6, AskAgain

\* The next request states the defect of the answer, or the job fails.
LEMMA ReviseKeeps ==
  ASSUME VoiceInv, work.phase = "asking", NEW why \in {"unusable", "lengths"}, Revise(why),
         UNCHANGED budgets,
         why = "lengths" /\ work.kind = "grounded" => work.try < RetriesFor(work.kind)
  PROVE  VoiceInv'
<1>1. CASE work.try < RetriesFor(work.kind)
  <2>1. work' = [work EXCEPT !.try = work.try + 1, !.attempt = 0]
    BY <1>1 DEF Revise
  <2>2. work' = [work EXCEPT !.fixed = work.fixed, !.attempt = 0, !.try = work.try + 1,
                             !.budget = work.budget]
    BY <2>1 DEF VoiceInv, VoiceTyped
  <2>3. /\ work.fixed \in SUBSET Params /\ work.fixed \subseteq work.demands /\ work.try + 1 \in Nat
        /\ work.budget \in defaultMaxTokens .. maxTokenBudget
        /\ budgets' \in [start : 0 .. maxTokenBudget, truncs : Nat]
    BY DEF VoiceInv, VoiceTyped, CorrectionsCount, DraftsFit
  <2> QED BY <2>2, <2>3, AskAgain
<1>2. CASE ~(work.try < RetriesFor(work.kind))
  BY <1>2, FailKeeps DEF Revise
<1> QED BY <1>1, <1>2

LEMMA TruncatedKeeps ==
  ASSUME VoiceInv, Truncated
  PROVE  VoiceInv'
<1>1. work.phase = "asking"
  BY DEF Truncated, Served, Asking
<1>2. CASE work.try < RetriesFor(work.kind)
  <2>1. /\ work' = [work EXCEPT !.try = work.try + 1, !.attempt = 0,
                                !.budget = escalateBudget(work.budget)]
        /\ budgets' = learnTruncation(budgets)
    BY <1>2 DEF Truncated
  <2>2. work' = [work EXCEPT !.fixed = work.fixed, !.attempt = 0, !.try = work.try + 1,
                             !.budget = escalateBudget(work.budget)]
    BY <2>1 DEF VoiceInv, VoiceTyped
  <2>3. work.budget \in 2 .. 8
    BY <1>1 DEF VoiceInv, DraftsFit, defaultMaxTokens, maxTokenBudget
  <2>4. escalateBudget(work.budget) \in defaultMaxTokens .. maxTokenBudget
    BY <2>3 DEF escalateBudget, Least, defaultMaxTokens, maxTokenBudget
  <2>5. /\ work.fixed \in SUBSET Params /\ work.fixed \subseteq work.demands /\ work.try + 1 \in Nat
        /\ budgets' \in [start : 0 .. maxTokenBudget, truncs : Nat]
    BY <2>1, MemoryBounded DEF VoiceInv, VoiceTyped, CorrectionsCount
  <2> QED BY <1>1, <2>2, <2>4, <2>5, AskAgain
<1>3. CASE ~(work.try < RetriesFor(work.kind))
  BY <1>3, FailKeeps DEF Truncated
<1> QED BY <1>2, <1>3

\* A job delivers: what it delivers is all that is left to show.
LEMMA FinishKeeps ==
  ASSUME VoiceInv, work.phase = "asking", NEW checked, NEW content, NEW variants,
         Finish(checked, content, variants), UNCHANGED budgets,
         work.kind \in Drafting =>
           /\ content <= MaxChars[primaryAccount(work.chosen)]
           /\ DOMAIN variants \subseteq work.chosen \ {primaryAccount(work.chosen)}
           /\ \A a \in work.chosen :
                (IF a \in DOMAIN variants THEN variants[a] ELSE checked) \in 1 .. MaxChars[a],
         work.kind = "campaign" => content <= MaxChars[primaryAccount(Accounts)]
  PROVE  VoiceInv'
<1> DEFINE s == [work EXCEPT !.phase = "done", !.checked = checked, !.content = content,
                             !.variants = variants]
<1>1. work' = s
  BY DEF Finish
<1>2. /\ s.phase = "done" /\ s.checked = checked /\ s.content = content /\ s.variants = variants
      /\ s.kind = work.kind /\ s.chosen = work.chosen /\ s.demands = work.demands
      /\ s.fixed = work.fixed /\ s.attempt = work.attempt /\ s.why = work.why
  BY DEF VoiceInv, VoiceTyped
<1>3. s \in [phase : {"idle", "asking", "done", "failed"}, kind : Kinds, chosen : SUBSET Accounts,
             demands : SUBSET Params, fixed : SUBSET Params, attempt : Nat, try : Nat,
             budget : Nat, why : Reasons, checked : {checked}, content : {content},
             variants : {variants}]
  BY DEF VoiceInv, VoiceTyped
<1> HIDE DEF s
<1>4. VoiceTyped'
  BY <1>1, <1>2, <1>3 DEF VoiceInv, VoiceTyped
<1>5. CorrectionsCount'
  BY <1>1, <1>2 DEF VoiceInv, CorrectionsCount
<1>6. DraftsFit'
  <2>1. work.why # "parameter"
    BY DEF VoiceInv, DraftsFit
  <2>2. /\ work'.phase = "done" /\ work'.kind = work.kind /\ work'.chosen = work.chosen
        /\ work'.content = content /\ work'.checked = checked /\ work'.variants = variants
        /\ work'.why # "parameter"
    BY <1>1, <1>2, <2>1
  <2> QED BY <2>2 DEF DraftsFit
<1> QED BY <1>4, <1>5, <1>6 DEF VoiceInv

\* An answer of the voice engine: it is delivered once it serves every account, and only a
\* text asked to be long can be refused for its length to the end.
LEMMA GenerateKeeps ==
  ASSUME VoiceInv, NEW len \in Lengths \ {0}, NEW offered \in Partial, NEW tags \in HashtagCounts,
         generateWithRetries(len, offered, tags)
  PROVE  VoiceInv'
<1> DEFINE chosen == work.chosen
           limit  == MaxChars[primaryAccount(work.chosen)]
<1>1. /\ work.phase = "asking" /\ work.kind \in Drafting /\ chosen \in SUBSET Accounts /\ chosen # {}
      /\ UNCHANGED budgets
  BY DEF generateWithRetries, Served, Asking, VoiceInv, VoiceTyped, CorrectionsCount
<1>2. len \in Nat \ {0} /\ Offered(offered) /\ tags \in Nat
  <2>1. len \in Nat \ {0} /\ tags \in Nat
    BY VoiceAssumption
  <2>2. PICK D \in SUBSET Accounts : offered \in [D -> Offers]
    BY DEF Partial
  <2>3. \A a \in DOMAIN offered : offered[a] \in Nat
    BY <2>2, VoiceAssumption
  <2> QED BY <2>1, <2>3 DEF Offered
<1> DEFINE Outcome(result) ==
      IF validateLengths(result, work.kind, work.chosen)
      THEN \E n \in normalizeMultiAccountResult(result.content, result.variants, work.chosen) :
             Finish(n.content,
                    mergeHashtagsIntoContent(n.content, tags,
                                             MaxChars[primaryAccount(work.chosen)]),
                    n.variants)
      ELSE Revise("lengths")
<1>3. PICK normal \in normalizeMultiAccountResult(len, offered, work.chosen) :
        \E result \in IF work.try >= RetriesFor(work.kind)
                      THEN fillMissingOverrides(normal, work.chosen) ELSE {normal} :
          Outcome(result)
  BY DEF generateWithRetries
<1>4. PICK result \in IF work.try >= RetriesFor(work.kind)
                      THEN fillMissingOverrides(normal, work.chosen) ELSE {normal} :
        Outcome(result)
  BY <1>3
<1>5. Fitting(normal, chosen)
  BY <1>1, <1>2, NormalFits
<1>6. /\ Fitting(result, chosen)
      /\ work.try >= RetriesFor(work.kind) =>
           \A a \in chosen : MaxChars[a] < result.content => a \in DOMAIN result.variants
  BY <1>1, <1>4, <1>5, FilledFits
<1>7. CASE validateLengths(result, work.kind, chosen)
  <2>1. PICK n \in normalizeMultiAccountResult(result.content, result.variants, work.chosen) :
          Finish(n.content, mergeHashtagsIntoContent(n.content, tags, limit), n.variants)
    BY <1>4, <1>7
  <2>2. /\ Fitting(n, chosen)
        /\ \A a \in chosen :
             (IF a \in DOMAIN n.variants THEN n.variants[a] ELSE n.content) \in 1 .. MaxChars[a]
    BY <1>1, <1>6, <1>7, CheckedFits
  <2>3. limit \in Nat \ {0}
    BY <1>1, PrimaryIsLargest
  <2>4. /\ n.content \in Nat /\ n.content <= limit
        /\ DOMAIN n.variants \subseteq chosen \ {primaryAccount(chosen)}
    BY <2>2, <2>3 DEF Fitting
  <2>5. mergeHashtagsIntoContent(n.content, tags, limit) <= limit
    BY <1>2, <2>3, <2>4, HashtagsFit
  <2>6. work.kind # "campaign"
    BY <1>1 DEF Drafting
  <2> QED BY <1>1, <2>1, <2>2, <2>4, <2>5, <2>6, FinishKeeps
<1>8. CASE ~validateLengths(result, work.kind, chosen)
  <2>1. Revise("lengths")
    BY <1>4, <1>8
  <2>2. ASSUME work.kind = "grounded", ~(work.try < RetriesFor(work.kind)) PROVE FALSE
    <3>1. work.try >= RetriesFor(work.kind)
      BY <2>2 DEF VoiceInv, VoiceTyped, RetriesFor, Drafting
    <3>2. validateLengths(result, "grounded", chosen)
      BY <1>1, <1>6, <3>1, FittingIsAccepted
    <3> QED BY <1>8, <2>2, <3>2
  <2> QED BY <1>1, <2>1, <2>2, ReviseKeeps
<1> QED BY <1>7, <1>8

\* A campaign's text is delivered with its hashtags within the platform's limit.
LEMMA CampaignKeeps ==
  ASSUME VoiceInv, NEW len \in Lengths, NEW missing \in 0 .. Required,
         runCampaignAutopilot(len, missing)
  PROVE  VoiceInv'
<1> DEFINE charLimit == MaxChars[primaryAccount(Accounts)]
<1>1. /\ work.phase = "asking" /\ work.kind = "campaign" /\ UNCHANGED budgets
      /\ work.kind \notin Drafting
  BY DEF runCampaignAutopilot, Served, Asking, Drafting
<1>2. CASE validateCampaignResult(len, missing, charLimit)
  <2>1. Finish(len, len + missing * (Tag + 1), Nobody)
    BY <1>2 DEF runCampaignAutopilot
  <2>2. len + missing * (Tag + 1) <= charLimit
    BY <1>2 DEF validateCampaignResult
  <2> QED BY <1>1, <2>1, <2>2, FinishKeeps
<1>3. CASE ~validateCampaignResult(len, missing, charLimit)
  <2>1. Revise("lengths")
    BY <1>3 DEF runCampaignAutopilot
  <2> QED BY <1>1, <2>1, ReviseKeeps
<1> QED BY <1>2, <1>3

\* DraftsFit: the text that was checked fits the chosen accounts without a variant, each
\* variant its account and the delivered text the primary account, whatever texts the model
\* writes and whatever limits the providers give (validateLengths, fillMissingOverrides);
\* nothing is said of the delivered text at the other accounts. Only a text asked to be
\* long fails for its length, and no job is lost to a parameter.
THEOREM DraftsStayFit == VoiceSpec => []DraftsFit
<1>1. VoiceInit => VoiceInv
  BY VoiceInvInit
<1>2. VoiceInv /\ [VoiceNext]_voiceVars => VoiceInv'
  <2> SUFFICES ASSUME VoiceInv, [VoiceNext]_voiceVars PROVE VoiceInv'
    OBVIOUS
  <2>1. CASE \E kind \in Kinds, chosen \in SUBSET Accounts, demands \in SUBSET Params :
               prepareVoicePrompt(kind, chosen, demands)
    BY <2>1, PrepareKeeps
  <2>2. CASE \E d \in Params : applyCorrection(d)
    BY <2>2, CorrectionKeeps
  <2>3. CASE CallFails
    BY <2>3, FailKeeps DEF CallFails
  <2>4. CASE Truncated
    BY <2>4, TruncatedKeeps
  <2>5. CASE Unusable
    BY <2>5, ReviseKeeps DEF Unusable, Served, Asking
  <2>6. CASE OtherJob
    <3>1. budgets' \in [start : 0 .. maxTokenBudget, truncs : Nat] /\ UNCHANGED work
      BY <2>6, MemoryBounded DEF OtherJob, VoiceInv, VoiceTyped
    <3> QED BY <3>1 DEF VoiceInv, VoiceTyped, CorrectionsCount, DraftsFit
  <2>7. CASE \E len \in Lengths \ {0}, offered \in Partial, tags \in HashtagCounts :
               generateWithRetries(len, offered, tags)
    BY <2>7, GenerateKeeps
  <2>8. CASE \E len \in Lengths, missing \in 0 .. Required : runCampaignAutopilot(len, missing)
    BY <2>8, CampaignKeeps
  <2>9. CASE runProfileAnalysis
    <3>1. /\ work.phase = "asking" /\ work.kind = "profile" /\ UNCHANGED budgets
          /\ Finish(0, 0, Nobody)
      BY <2>9 DEF runProfileAnalysis, Served, Asking
    <3>2. work.kind \notin Drafting /\ work.kind # "campaign"
      BY <3>1 DEF Drafting
    <3> QED BY <3>1, <3>2, FinishKeeps
  <2>10. CASE UNCHANGED voiceVars
    BY <2>10 DEF voiceVars, VoiceInv, VoiceTyped, CorrectionsCount, DraftsFit
  <2> QED BY <2>1, <2>2, <2>3, <2>4, <2>5, <2>6, <2>7, <2>8, <2>9, <2>10 DEF VoiceNext
<1>3. VoiceInv => DraftsFit
  BY DEF VoiceInv
<1> QED BY <1>1, <1>2, <1>3, PTL DEF VoiceSpec

(* The log table. *)

LogTyped ==
  /\ logged \in Nat /\ inserts \in Nat /\ running \in BOOLEAN
  /\ channel \in Seq(Nat) /\ \A i \in 1 .. Len(channel) : channel[i] \in 1 .. logged
  /\ bundle \in Seq(Nat) /\ \A i \in 1 .. Len(bundle) : bundle[i] \in 1 .. logged
  /\ written \in -1 .. Len(bundle)
  /\ table \subseteq [record : 1 .. logged, place : 1 .. inserts]
  /\ gone \subseteq 1 .. logged

Rising(s) == \A i, j \in 1 .. Len(s) : i < j => s[i] < s[j]

\* A record moves from the channel to the bundle to the table behind every older one.
LogMovesInOrder ==
  /\ Rising(channel) /\ Rising(bundle)
  /\ \A i \in 1 .. Len(bundle), j \in 1 .. Len(channel) : bundle[i] < channel[j]
  /\ \A r \in table : /\ \A j \in 1 .. Len(channel) : r.record < channel[j]
                      /\ \A i \in NotTried : r.record < bundle[i]
  /\ \A r, q \in table : r.place <= q.place <=> r.record <= q.record

\* Every record is in exactly one place, and only a record of the table is archived.
RecordsAccounted ==
  /\ 1 .. logged = Held \cup OnItsWay \cup gone
  /\ Held \cap gone = {} /\ OnItsWay \cap gone = {}
  /\ archived \subseteq Held

LogIInv == LogTyped /\ LogMovesInOrder /\ RecordsAccounted
           /\ (~ running => bundle = <<>> \/ written >= 0)

LEMMA LogIInvInit == LogInit => LogIInv
<1> SUFFICES ASSUME LogInit PROVE LogIInv
  OBVIOUS
<1>1. LogTyped
  BY DEF LogInit, LogTyped
<1>2. LogMovesInOrder
  BY DEF LogInit, LogMovesInOrder, Rising
<1>3. Held = {} /\ OnItsWay = {} /\ 1 .. logged = {}
  BY DEF LogInit, Held, OnItsWay, NotTried
<1> QED
  BY <1>1, <1>2, <1>3 DEF LogInit, LogIInv, RecordsAccounted

LEMMA LogIInvHolds == LogIInv => LogIsWhole
<1> SUFFICES ASSUME LogIInv PROVE LogIsWhole
  OBVIOUS
<1>1. Held \cap OnItsWay = {}
  <2> SUFFICES ASSUME NEW r \in table, r.record \in OnItsWay PROVE FALSE
    BY DEF Held
  <2>1. CASE \E j \in 1 .. Len(channel) : r.record = channel[j]
    BY <2>1 DEF LogIInv, LogTyped, LogMovesInOrder
  <2>2. CASE \E i \in NotTried : r.record = bundle[i]
    BY <2>2 DEF LogIInv, LogTyped, LogMovesInOrder
  <2> QED
    BY <2>1, <2>2 DEF OnItsWay
<1>2. ~ running => Len(bundle) = 0 \/ written >= 0
  BY DEF LogIInv
<1> QED
  BY <1>1, <1>2 DEF LogIInv, LogIsWhole, LogMovesInOrder, RecordsAccounted

LEMMA HeldLogged == ASSUME LogIInv PROVE Held \subseteq 1 .. logged
BY DEF LogIInv, LogTyped, Held

\* The elements of a sequence to which one is appended.
LEMMA AppendedEntries ==
  ASSUME NEW s \in Seq(Nat), NEW x \in Nat
  PROVE  /\ Append(s, x) \in Seq(Nat) /\ Len(s) \in Nat /\ Len(Append(s, x)) = Len(s) + 1
         /\ Append(s, x)[Len(s) + 1] = x
         /\ \A i \in 1 .. Len(s) : Append(s, x)[i] = s[i] /\ s[i] \in Nat
OBVIOUS

\* A call that logs.
LEMMA HandleKeeps ==
  ASSUME LogIInv, Handle PROVE LogIInv'
<1>1. /\ logged' = logged + 1 /\ 1 .. logged' = 1 .. logged \cup {logged + 1} /\ logged \in Nat
      /\ UNCHANGED <<bundle, written, table, inserts, archived, running>>
      /\ \A n \in 1 .. logged : n < logged + 1
  BY DEF LogIInv, LogTyped, Handle
<1>2. CASE Len(channel) < logChanCap
  <2>1. channel' = Append(channel, logged + 1) /\ gone' = gone
    BY <1>2 DEF Handle
  <2>2. channel \in Seq(Nat) /\ logged + 1 \in Nat
    BY <1>1 DEF LogIInv, LogTyped
  <2>3. /\ channel' \in Seq(Nat) /\ Len(channel) \in Nat /\ Len(channel') = Len(channel) + 1
        /\ channel'[Len(channel) + 1] = logged + 1
        /\ \A i \in 1 .. Len(channel) : channel'[i] = channel[i] /\ channel[i] \in Nat
    BY <2>1, <2>2, AppendedEntries
  <2>4. /\ \A i \in 1 .. Len(channel) : channel[i] \in 1 .. logged
        /\ \A i \in 1 .. Len(bundle) : bundle[i] \in 1 .. logged
        /\ \A r \in table : r.record \in 1 .. logged
    BY DEF LogIInv, LogTyped
  <2>5. LogTyped'
    <3>1. \A i \in 1 .. Len(channel') : channel'[i] \in 1 .. logged'
      BY <1>1, <2>3, <2>4
    <3>2. gone \subseteq 1 .. logged' /\ \A i \in 1 .. Len(bundle) : bundle[i] \in 1 .. logged'
      BY <1>1, <2>4 DEF LogIInv, LogTyped
    <3>3. table \subseteq [record : 1 .. logged', place : 1 .. inserts]
      BY <1>1 DEF LogIInv, LogTyped
    <3> QED
      BY <1>1, <2>1, <2>3, <3>1, <3>2, <3>3 DEF LogIInv, LogTyped
  <2>6. LogMovesInOrder'
    <3>1. Rising(channel')
      <4>1. Rising(channel)
        BY DEF LogIInv, LogMovesInOrder
      <4>2. \A i \in 1 .. Len(channel') : i \in 1 .. Len(channel) \/ i = Len(channel) + 1
        BY <2>3
      <4> SUFFICES ASSUME NEW i \in 1 .. Len(channel'), NEW k \in 1 .. Len(channel'), i < k
                   PROVE  channel'[i] < channel'[k]
        BY DEF Rising
      <4>3. i \in 1 .. Len(channel)
        BY <2>3
      <4>4. CASE k = Len(channel) + 1
        BY <1>1, <2>3, <2>4, <4>3, <4>4
      <4>5. CASE k \in 1 .. Len(channel)
        BY <2>3, <4>1, <4>3, <4>5 DEF Rising
      <4> QED
        BY <4>2, <4>4, <4>5
    <3>2. \A i \in 1 .. Len(bundle), k \in 1 .. Len(channel') : bundle[i] < channel'[k]
      <4>1. \A i \in 1 .. Len(bundle), k \in 1 .. Len(channel) : bundle[i] < channel[k]
        BY DEF LogIInv, LogMovesInOrder
      <4> QED
        BY <1>1, <2>3, <2>4, <4>1
    <3>3. \A r \in table, k \in 1 .. Len(channel') : r.record < channel'[k]
      <4>1. \A r \in table, k \in 1 .. Len(channel) : r.record < channel[k]
        BY DEF LogIInv, LogMovesInOrder
      <4> QED
        BY <1>1, <2>3, <2>4, <4>1
    <3> QED
      BY <1>1, <3>1, <3>2, <3>3 DEF LogIInv, LogMovesInOrder, NotTried
  <2>7. OnItsWay' = OnItsWay \cup {logged + 1}
    <3>1. {channel'[i] : i \in 1 .. Len(channel')} = {channel[i] : i \in 1 .. Len(channel)} \cup {logged + 1}
      <4>1. 1 .. Len(channel') = 1 .. Len(channel) \cup {Len(channel) + 1}
        BY <2>3
      <4> QED
        BY <2>3, <4>1
    <3> QED
      BY <1>1, <3>1 DEF OnItsWay, NotTried
  <2>8. Held' = Held /\ logged + 1 \notin gone
    BY <1>1 DEF Held, LogIInv, LogTyped
  <2>9. RecordsAccounted'
    BY <1>1, <2>1, <2>7, <2>8, HeldLogged DEF LogIInv, RecordsAccounted
  <2> QED
    BY <1>1, <2>1, <2>5, <2>6, <2>9 DEF LogIInv
<1>3. CASE ~(Len(channel) < logChanCap)
  <2>1. channel' = channel /\ gone' = gone \cup {logged + 1}
    BY <1>3 DEF Handle
  <2>2. LogTyped'
    BY <1>1, <2>1 DEF LogIInv, LogTyped
  <2>3. LogMovesInOrder' /\ Held' = Held /\ OnItsWay' = OnItsWay
    BY <1>1, <2>1 DEF LogIInv, LogMovesInOrder, Held, OnItsWay, NotTried
  <2>4. logged + 1 \notin Held /\ logged + 1 \notin OnItsWay
    <3>1. OnItsWay \subseteq 1 .. logged
      BY DEF LogIInv, RecordsAccounted
    <3> QED
      BY <1>1, <3>1, HeldLogged
  <2>5. RecordsAccounted'
    BY <1>1, <2>1, <2>3, <2>4 DEF LogIInv, RecordsAccounted
  <2> QED
    BY <1>1, <2>1, <2>2, <2>3, <2>5 DEF LogIInv
<1> QED
  BY <1>2, <1>3

\* The loop takes the oldest entry of the channel.
LEMMA ReceiveKeeps ==
  ASSUME LogIInv, Receive PROVE LogIInv'
<1> USE DEF Receive
<1>1. /\ channel' \in Seq(Nat) /\ Len(channel') = Len(channel) - 1
      /\ Len(channel) \in Nat \ {0} /\ channel[1] \in 1 .. logged
      /\ \A i \in 1 .. Len(channel') : channel'[i] = channel[i + 1]
  BY DEF LogIInv, LogTyped
<1>2. /\ bundle' \in Seq(Nat) /\ Len(bundle') = Len(bundle) + 1
      /\ Len(bundle) \in Nat
      /\ bundle'[Len(bundle) + 1] = channel[1]
      /\ \A i \in 1 .. Len(bundle) : bundle'[i] = bundle[i]
  BY <1>1 DEF LogIInv, LogTyped
<1>3. written = -1 /\ written' \in {-1, 0}
  BY DEF Idling
<1>4. NotTried = 1 .. Len(bundle) /\ NotTried' = 1 .. Len(bundle) + 1
  BY <1>2, <1>3 DEF NotTried
<1>5. LogTyped'
  BY <1>1, <1>2, <1>3 DEF LogIInv, LogTyped
<1>6. LogMovesInOrder'
  <2>1. Rising(channel')
    BY <1>1 DEF LogIInv, LogTyped, LogMovesInOrder, Rising
  <2>2. Rising(bundle')
    <3>1. Rising(bundle) /\ \A i \in 1 .. Len(bundle) : bundle[i] < channel[1]
      BY <1>1 DEF LogIInv, LogMovesInOrder
    <3>2. \A i \in 1 .. Len(bundle') : i \in 1 .. Len(bundle) \/ i = Len(bundle) + 1
      BY <1>2
    <3> QED
      BY <1>2, <3>1, <3>2 DEF Rising
  <2>3. \A i \in 1 .. Len(bundle'), j \in 1 .. Len(channel') : bundle'[i] < channel'[j]
    <3> SUFFICES ASSUME NEW i \in 1 .. Len(bundle'), NEW j \in 1 .. Len(channel')
                 PROVE  bundle'[i] < channel'[j]
      OBVIOUS
    <3>1. channel'[j] = channel[j + 1] /\ j + 1 \in 1 .. Len(channel) /\ 1 \in 1 .. Len(channel)
      BY <1>1
    <3>2. CASE i = Len(bundle) + 1
      BY <1>2, <3>1, <3>2 DEF LogIInv, LogMovesInOrder, Rising
    <3>3. CASE i \in 1 .. Len(bundle)
      BY <1>2, <3>1, <3>3 DEF LogIInv, LogMovesInOrder
    <3> QED
      BY <1>2, <3>2, <3>3
  <2>4. \A r \in table' : /\ \A j \in 1 .. Len(channel') : r.record < channel'[j]
                          /\ \A i \in NotTried' : r.record < bundle'[i]
    <3> SUFFICES ASSUME NEW r \in table
                 PROVE  /\ \A j \in 1 .. Len(channel') : r.record < channel'[j]
                        /\ \A i \in NotTried' : r.record < bundle'[i]
      OBVIOUS
    <3>1. /\ \A j \in 1 .. Len(channel) : r.record < channel[j]
          /\ \A i \in 1 .. Len(bundle) : r.record < bundle[i]
      BY <1>4 DEF LogIInv, LogMovesInOrder
    <3> QED
      BY <1>1, <1>2, <1>4, <3>1
  <2> QED
    BY <2>1, <2>2, <2>3, <2>4 DEF LogIInv, LogMovesInOrder
<1>7. OnItsWay' = OnItsWay
  <2> DEFINE before == {channel[i] : i \in 1 .. Len(channel)}
             after == {channel'[i] : i \in 1 .. Len(channel')}
  <2>1. before = after \cup {channel[1]}
    <3>1. before \subseteq after \cup {channel[1]}
      <4> SUFFICES ASSUME NEW i \in 1 .. Len(channel) PROVE channel[i] \in after \cup {channel[1]}
        OBVIOUS
      <4>1. CASE i = 1
        BY <4>1
      <4>2. CASE i # 1
        <5>1. i - 1 \in 1 .. Len(channel') /\ channel'[i - 1] = channel[i]
          BY <1>1, <4>2
        <5> QED
          BY <5>1
      <4> QED
        BY <4>1, <4>2
    <3>2. after \subseteq before /\ channel[1] \in before
      BY <1>1
    <3> QED
      BY <3>1, <3>2
  <2>2. {bundle'[i] : i \in NotTried'} = {bundle[i] : i \in NotTried} \cup {channel[1]}
    <3>1. NotTried' = NotTried \cup {Len(bundle) + 1}
      BY <1>2, <1>4
    <3> QED
      BY <1>2, <1>4, <3>1
  <2> QED
    BY <2>1, <2>2 DEF OnItsWay
<1>8. RecordsAccounted'
  BY <1>7 DEF LogIInv, RecordsAccounted, Held
<1> QED
  BY <1>5, <1>6, <1>8 DEF LogIInv, Idling

\* A flush begins: nothing of the bundle has been tried, as before.
LEMMA FlushBeginsKeeps ==
  ASSUME LogIInv, Tick \/ Close PROVE LogIInv'
<1>1. written = -1 /\ written' \in {-1, 0} /\ (bundle # <<>> => written' = 0)
      /\ UNCHANGED <<logged, channel, bundle, table, inserts, archived, gone>>
      /\ running' \in BOOLEAN
  BY DEF Tick, Close, Idling, LogIInv, LogTyped
<1>2. NotTried' = NotTried
  BY <1>1 DEF NotTried
<1>3. Held' = Held /\ OnItsWay' = OnItsWay
  BY <1>1, <1>2 DEF Held, OnItsWay
<1>4. LogTyped'
  BY <1>1 DEF LogIInv, LogTyped
<1> QED
  BY <1>1, <1>2, <1>3, <1>4 DEF LogIInv, LogMovesInOrder, RecordsAccounted

\* One insert of a flush, done or refused.
LEMMA InsertKeeps ==
  ASSUME LogIInv, NEW fails \in BOOLEAN, InsertLogEntry(fails) PROVE LogIInv'
<1> DEFINE n == written + 1
           e == bundle[n]
           row == [record |-> e, place |-> inserts + 1]
<1>1. /\ n \in 1 .. Len(bundle) /\ written' = n /\ Len(bundle) \in Nat /\ e \in 1 .. logged
      /\ UNCHANGED <<logged, channel, bundle, archived, running>> /\ n \in Nat
  BY DEF InsertLogEntry, LogIInv, LogTyped
<1>2. NotTried = n .. Len(bundle) /\ NotTried' = n + 1 .. Len(bundle)
  BY <1>1 DEF NotTried, InsertLogEntry
<1>3. NotTried = NotTried' \cup {n} /\ n \notin NotTried'
  BY <1>1, <1>2
<1>4. OnItsWay = OnItsWay' \cup {e}
  BY <1>1, <1>3 DEF OnItsWay
<1>5. e \notin OnItsWay'
  <2>1. \A j \in 1 .. Len(channel) : e # channel[j]
    BY <1>1 DEF LogIInv, LogTyped, LogMovesInOrder
  <2>2. \A i \in NotTried' : e < bundle[i]
    BY <1>1, <1>2 DEF LogIInv, LogTyped, LogMovesInOrder, Rising
  <2>3. \A i \in NotTried' : e # bundle[i]
    BY <1>1, <2>2
  <2> QED
    BY <1>1, <2>1, <2>3 DEF OnItsWay
<1>6. \A r \in table : r.record < e /\ r.record \in 1 .. logged /\ r.place \in 1 .. inserts
  BY <1>3 DEF LogIInv, LogTyped, LogMovesInOrder
<1>7. e \notin Held
  BY <1>1, <1>6 DEF Held
<1>8. e \notin gone
  BY <1>4 DEF LogIInv, RecordsAccounted
<1>9. CASE fails
  <2>1. gone' = gone \cup {e} /\ UNCHANGED <<table, inserts>>
    BY <1>9 DEF InsertLogEntry
  <2>2. LogTyped'
    <3>1. n \in -1 .. Len(bundle)
      BY <1>1
    <3>2. gone \subseteq 1 .. logged /\ e \in 1 .. logged
      BY <1>1 DEF LogIInv, LogTyped
    <3>3. gone' \subseteq 1 .. logged
      BY <2>1, <3>2
    <3> QED
      BY <1>1, <2>1, <3>1, <3>3 DEF LogIInv, LogTyped
  <2>3. LogMovesInOrder'
    BY <1>1, <1>3, <2>1 DEF LogIInv, LogMovesInOrder
  <2>4. Held' = Held
    BY <2>1 DEF Held
  <2>5. RecordsAccounted'
    BY <1>1, <1>4, <1>5, <1>7, <2>1, <2>4 DEF LogIInv, RecordsAccounted
  <2> QED
    BY <1>1, <2>2, <2>3, <2>5 DEF LogIInv, LogTyped
<1>10. CASE ~fails
  <2>1. gone' = gone /\ inserts' = inserts + 1 /\ table' = table \cup {row}
    BY <1>10 DEF InsertLogEntry
  <2>2. LogTyped'
    <3>1. inserts \in Nat /\ inserts' \in Nat /\ 1 .. inserts \subseteq 1 .. inserts' /\ inserts + 1 \in 1 .. inserts'
      BY <2>1 DEF LogIInv, LogTyped
    <3>2. table' \subseteq [record : 1 .. logged, place : 1 .. inserts']
      BY <1>1, <2>1, <3>1 DEF LogIInv, LogTyped
    <3> QED
      BY <1>1, <2>1, <3>1, <3>2 DEF LogIInv, LogTyped
  <2>3. LogMovesInOrder'
    <3>1. /\ \A j \in 1 .. Len(channel) : e < channel[j]
          /\ \A i \in NotTried' : e < bundle[i]
      BY <1>1, <1>2 DEF LogIInv, LogTyped, LogMovesInOrder, Rising
    <3>2. \A r \in table' : /\ \A j \in 1 .. Len(channel) : r.record < channel[j]
                            /\ \A i \in NotTried' : r.record < bundle[i]
      BY <1>3, <2>1, <3>1 DEF LogIInv, LogMovesInOrder
    <3>3. \A r, q \in table' : r.place <= q.place <=> r.record <= q.record
      <4>1. \A r \in table : r.place < inserts + 1 /\ r.record < e
        BY <1>6 DEF LogIInv, LogTyped
      <4>2. row.place = inserts + 1 /\ row.record = e
        OBVIOUS
      <4>3. \A r, q \in table : r.place <= q.place <=> r.record <= q.record
        BY DEF LogIInv, LogMovesInOrder
      <4>4. e \in Nat /\ inserts \in Nat /\ \A r \in table : r.place \in Nat /\ r.record \in Nat
        BY <1>1, <1>6 DEF LogIInv, LogTyped
      <4> HIDE DEF row, e
      <4> QED
        BY <2>1, <4>1, <4>2, <4>3, <4>4
    <3> QED
      BY <1>1, <3>2, <3>3 DEF LogIInv, LogMovesInOrder
  <2>4. Held' = Held \cup {e}
    <3>1. row.record = e
      OBVIOUS
    <3>2. {q.record : q \in table \cup {row}} = {q.record : q \in table} \cup {row.record}
      OBVIOUS
    <3> QED
      BY <2>1, <3>1, <3>2 DEF Held
  <2>5. RecordsAccounted'
    BY <1>1, <1>4, <1>5, <1>8, <2>1, <2>4 DEF LogIInv, RecordsAccounted
  <2> QED
    BY <1>1, <2>2, <2>3, <2>5 DEF LogIInv, LogTyped
<1> QED
  BY <1>9, <1>10

\* A flush that has tried the whole bundle empties it.
LEMMA FlushEndsKeeps ==
  ASSUME LogIInv, FlushEnds PROVE LogIInv'
<1>1. written = Len(bundle) /\ written \in Nat /\ bundle' = <<>> /\ written' = -1
      /\ UNCHANGED <<logged, channel, table, inserts, archived, gone, running>>
  BY DEF FlushEnds, AfterFlush, LogIInv, LogTyped
<1>2. NotTried = {} /\ NotTried' = {}
  BY <1>1 DEF NotTried
<1>3. Held' = Held /\ OnItsWay' = OnItsWay
  BY <1>1, <1>2 DEF Held, OnItsWay
<1>4. LogTyped'
  BY <1>1 DEF LogIInv, LogTyped
<1>5. LogMovesInOrder'
  BY <1>1, <1>2 DEF LogIInv, LogMovesInOrder, Rising
<1> QED
  BY <1>1, <1>3, <1>4, <1>5 DEF LogIInv, RecordsAccounted

\* The administrator archives, restores, deletes and prunes.
LEMMA AdminKeeps ==
  ASSUME LogIInv, NEW n \in 1 .. LastRecord,
         ArchiveLogEntry(n) \/ UnarchiveLogEntry(n) \/ DeleteLogEntry(n) \/ DeleteLogEntriesBefore(n)
  PROVE  LogIInv'
<1>1. CASE ArchiveLogEntry(n) \/ UnarchiveLogEntry(n)
  <2>1. UNCHANGED <<logged, channel, bundle, written, table, inserts, gone, running>>
        /\ (n \in Held \/ n \in archived) /\ archived' \subseteq archived \cup {n}
    BY <1>1 DEF ArchiveLogEntry, UnarchiveLogEntry
  <2>2. Held' = Held /\ OnItsWay' = OnItsWay /\ NotTried' = NotTried
    BY <2>1 DEF Held, OnItsWay, NotTried
  <2>3. LogTyped' /\ LogMovesInOrder'
    BY <2>1, <2>2 DEF LogIInv, LogTyped, LogMovesInOrder
  <2> QED
    BY <2>1, <2>2, <2>3 DEF LogIInv, RecordsAccounted
<1>2. CASE DeleteLogEntry(n) \/ DeleteLogEntriesBefore(n)
  <2>1. PICK old \in SUBSET Held :
          /\ table' = {row \in table : row.record \in Held \ old}
          /\ archived' = archived \ old /\ gone' = gone \cup old
          /\ UNCHANGED <<logged, channel, bundle, written, inserts, running>>
    <3>1. CASE DeleteLogEntry(n)
      BY <3>1 DEF DeleteLogEntry, Retain
    <3>2. CASE DeleteLogEntriesBefore(n)
      BY <3>2 DEF DeleteLogEntriesBefore, Retain
    <3> QED
      BY <1>2, <3>1, <3>2
  <2>2. Held' = Held \ old /\ table' \subseteq table
    BY <2>1 DEF Held
  <2>3. OnItsWay' = OnItsWay /\ NotTried' = NotTried
    BY <2>1 DEF OnItsWay, NotTried
  <2>4. Held \subseteq 1 .. logged
    BY DEF LogIInv, LogTyped, Held
  <2>5. LogTyped'
    BY <2>1, <2>2, <2>4 DEF LogIInv, LogTyped
  <2>6. LogMovesInOrder'
    BY <2>1, <2>2, <2>3 DEF LogIInv, LogMovesInOrder
  <2>7. Held \cap OnItsWay = {}
    BY LogIInvHolds DEF LogIsWhole
  <2>8. RecordsAccounted'
    BY <2>1, <2>2, <2>3, <2>7 DEF LogIInv, RecordsAccounted
  <2> QED
    BY <2>1, <2>5, <2>6, <2>8 DEF LogIInv
<1> QED
  BY <1>1, <1>2

(* LogIsWhole for any capacity of the channel, any size of a batch and any    *)
(* number of records: a flush that fails half way writes no record twice, and *)
(* a record is in the table, on its way, or dropped, refused or deleted.      *)
THEOREM LogStaysWhole == LogSpec => []LogIsWhole
<1>1. LogInit => LogIInv
  BY LogIInvInit
<1>2. LogIInv /\ [LogNext]_logVars => LogIInv'
  <2> SUFFICES ASSUME LogIInv, [LogNext]_logVars PROVE LogIInv'
    OBVIOUS
  <2>1. CASE Handle
    BY <2>1, HandleKeeps
  <2>2. CASE Receive
    BY <2>2, ReceiveKeeps
  <2>3. CASE Tick \/ Close
    BY <2>3, FlushBeginsKeeps
  <2>4. CASE FlushEnds
    BY <2>4, FlushEndsKeeps
  <2>5. CASE \E fails \in BOOLEAN : InsertLogEntry(fails)
    BY <2>5, InsertKeeps
  <2>6. CASE \E n \in 1 .. LastRecord : ArchiveLogEntry(n) \/ UnarchiveLogEntry(n)
                                        \/ DeleteLogEntry(n) \/ DeleteLogEntriesBefore(n)
    BY <2>6, AdminKeeps
  <2>7. CASE UNCHANGED logVars
    <3>1. LogTyped' /\ (~ running' => bundle' = <<>> \/ written' >= 0)
      BY <2>7 DEF logVars, LogIInv, LogTyped
    <3>2. Held' = Held /\ NotTried' = NotTried /\ OnItsWay' = OnItsWay
      BY <2>7 DEF logVars, Held, OnItsWay, NotTried
    <3>3. LogMovesInOrder' /\ RecordsAccounted'
      BY <2>7, <3>2 DEF logVars, LogIInv, LogMovesInOrder, RecordsAccounted
    <3> QED
      BY <3>1, <3>3 DEF LogIInv
  <2> QED
    BY <2>1, <2>2, <2>3, <2>4, <2>5, <2>6, <2>7 DEF LogNext
<1> QED
  BY <1>1, <1>2, LogIInvHolds, PTL DEF LogSpec
=============================================================================
