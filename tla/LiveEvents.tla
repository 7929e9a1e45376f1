------------------------------ MODULE LiveEvents ------------------------------
(* The hub of server-sent events: clients subscribe to a team, publishers send *)
(* to a snapshot of the clients, and a client that cannot take an event is     *)
(* closed.  Closing happens once and under the client's lock; a send holds the *)
(* lock for reading from its check to its write into the channel.              *)
EXTENDS Naturals, Sequences, FiniteSets

CONSTANTS Streams,      \* connections of one team
          Senders,      \* goroutines that publish
          BufferSize,   \* clientBufferSize
          MaxEvents

VARIABLES hubClosed, registered, \* Hub.closed, Hub.clients
          chan,       \* client -> events in its channel
          closing,    \* client -> "new" | "open" | "begun" | "closed"
          missed,     \* clients that an event was not delivered to
          sender,     \* sender -> what it is doing
          events,     \* events published so far
          panicked    \* a send on a closed channel

hubVars == <<hubClosed, registered, chan, closing, missed, sender, events, panicked>>

Idle == [pc |-> "idle", todo |-> {}, at |-> {}, event |-> 0]

HubInit ==
  /\ hubClosed = FALSE /\ registered = {} /\ missed = {} /\ events = 0 /\ panicked = FALSE
  /\ chan = [c \in Streams |-> <<>>]
  /\ closing = [c \in Streams |-> "new"]
  /\ sender = [s \in Senders |-> Idle]

\* Close runs once: the first caller begins it, any other finds it begun.
BeginClose(C) == [c \in Streams |-> IF c \in C /\ closing[c] = "open" THEN "begun" ELSE closing[c]]

\* On a closed hub the client is closed at once.
Subscribe(c) ==
  /\ closing[c] = "new"
  /\ IF hubClosed
     THEN closing' = [closing EXCEPT ![c] = "closed"] /\ UNCHANGED registered
     ELSE closing' = [closing EXCEPT ![c] = "open"] /\ registered' = registered \cup {c}
  /\ UNCHANGED <<hubClosed, chan, missed, sender, events, panicked>>

\* The clients are copied under the hub's lock and sent to without it.
Publish(s) ==
  /\ sender[s].pc = "idle" /\ ~hubClosed /\ events < MaxEvents
  /\ events' = events + 1
  /\ sender' = [sender EXCEPT ![s] = [pc |-> "send", todo |-> registered, at |-> {}, event |-> events']]
  /\ UNCHANGED <<hubClosed, registered, chan, closing, missed, panicked>>

\* A heartbeat is sent to its own client by its own goroutine.
runHeartbeat(s) ==
  /\ sender[s].pc = "idle" /\ events < MaxEvents
  /\ events' = events + 1
  /\ \E c \in Streams : /\ closing[c] \in {"open", "begun"}
                        /\ sender' = [sender EXCEPT ![s] = [pc |-> "send", todo |-> {c}, at |-> {}, event |-> 0]]
  /\ UNCHANGED <<hubClosed, registered, chan, closing, missed, panicked>>

\* Send, first half: the lock is taken for reading; a closed client is given up.
SendCheck(s, c) ==
  /\ sender[s].pc = "send" /\ c \in sender[s].todo
  /\ sender' = [sender EXCEPT ![s].todo = @ \ {c}, ![s].at = {c},
                              ![s].pc = IF closing[c] = "closed" THEN "remove" ELSE "holding"]
  /\ UNCHANGED <<hubClosed, registered, chan, closing, missed, events, panicked>>

\* Send, second half: the event goes into the channel, or the client is closed by a
\* goroutine of its own; a heartbeat that is not taken is no loss.
SendWrite(s) ==
  /\ sender[s].pc = "holding"
  /\ LET c == CHOOSE c \in sender[s].at : TRUE
         full == Len(chan[c]) >= BufferSize
     IN /\ panicked' = (panicked \/ (closing[c] = "closed"))
        /\ chan' = IF full THEN chan ELSE [chan EXCEPT ![c] = Append(@, sender[s].event)]
        /\ missed' = IF full /\ sender[s].event # 0 THEN missed \cup {c} ELSE missed
        /\ closing' = IF full THEN BeginClose({c}) ELSE closing
        /\ sender' = [sender EXCEPT ![s].pc = IF full THEN "remove" ELSE "send",
                                    ![s].at = IF full THEN @ ELSE {}]
  /\ UNCHANGED <<hubClosed, registered, events>>

\* removeClient: out of the hub, then Close, which returns when the client is closed.  The
\* goroutine of a heartbeat only ends.
removeClient(s) ==
  /\ sender[s].pc = "remove"
  /\ IF sender[s].event = 0
     THEN /\ sender' = [sender EXCEPT ![s] = Idle]
          /\ UNCHANGED <<registered, closing>>
     ELSE /\ registered' = registered \ sender[s].at
          /\ closing' = BeginClose(sender[s].at)
          /\ sender' = [sender EXCEPT ![s].pc = "wait"]
  /\ UNCHANGED <<hubClosed, chan, missed, events, panicked>>

SendNext(s) ==
  /\ \/ sender[s].pc = "wait" /\ \A c \in sender[s].at : closing[c] = "closed"
     \/ sender[s].pc = "send" /\ sender[s].todo = {}
  /\ sender' = [sender EXCEPT ![s] = IF sender[s].todo = {} THEN Idle
                                     ELSE [@ EXCEPT !.pc = "send", !.at = {}]]
  /\ UNCHANGED <<hubClosed, registered, chan, closing, missed, events, panicked>>

\* A plausible slip: the lock does not span the write.
NoReaders(c) == {}

\* The senders that hold the lock of c for reading.
Readers(c) == {s \in Senders : sender[s].pc = "holding" /\ c \in sender[s].at}

\* Close takes the lock, marks the client and closes its channel.
CloseClient(c) ==
  /\ closing[c] = "begun" /\ Readers(c) = {}
  /\ closing' = [closing EXCEPT ![c] = "closed"]
  /\ UNCHANGED <<hubClosed, registered, chan, missed, sender, events, panicked>>

\* handleAIJobStream: the connection writes the next event.
Deliver(c) ==
  /\ chan[c] # <<>>
  /\ chan' = [chan EXCEPT ![c] = Tail(@)]
  /\ UNCHANGED <<hubClosed, registered, closing, missed, sender, events, panicked>>

\* The connection ends, by itself or after the last event of a closed channel.
Unsubscribe(c) ==
  /\ closing[c] \in {"open", "begun"} \/ (closing[c] = "closed" /\ chan[c] = <<>> /\ c \in registered)
  /\ registered' = registered \ {c}
  /\ closing' = BeginClose({c})
  /\ UNCHANGED <<hubClosed, chan, missed, sender, events, panicked>>

CloseHub ==
  /\ ~hubClosed
  /\ hubClosed' = TRUE
  /\ closing' = BeginClose(registered)
  /\ registered' = {}
  /\ UNCHANGED <<chan, missed, sender, events, panicked>>

HubNext ==
  \/ \E c \in Streams : Subscribe(c) \/ CloseClient(c) \/ Deliver(c) \/ Unsubscribe(c)
  \/ \E s \in Senders : \/ Publish(s) \/ runHeartbeat(s) \/ SendWrite(s) \/ removeClient(s)
                        \/ SendNext(s) \/ \E c \in Streams : SendCheck(s, c)
  \/ CloseHub

HubSpec == HubInit /\ [][HubNext]_hubVars

-----------------------------------------------------------------------------
\* The hub never writes to a channel that is closed (which would end the process), a
\* client that missed an event does not go on as if nothing had happened (it is closed, so
\* that the browser connects again and reads the jobs), and no client outlives the hub.
StreamsEndCleanly ==
  /\ ~panicked
  /\ \A c \in missed : closing[c] # "open"
  /\ hubClosed => \A c \in Streams : closing[c] # "open"
==============================================================================
