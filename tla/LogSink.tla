------------------------------- MODULE LogSink -------------------------------
(***************************************************************************)
(* The log table: every record the program logs goes to standard output    *)
(* and, over a bounded channel and in batches, to the database             *)
(* (src/internal/logging/dbhandler.go), where an administrator archives,   *)
(* deletes and prunes entries (src/api/admin_logs.go).                     *)
(*                                                                         *)
(* A record is the number of the call that logged it; records are as old   *)
(* as their number.  Entries archived are kept apart from the others.      *)
(***************************************************************************)
EXTENDS Integers, Sequences

CONSTANTS logChanCap,   \* entries the channel holds (500)
          BatchSize,    \* entries that force a flush (50)
          LastRecord    \* bound: records logged

ASSUME LogAssumption ==
    logChanCap \in Nat \ {0} /\ BatchSize \in Nat \ {0} /\ LastRecord \in Nat

VARIABLES logged,    \* the number of the last record
          channel,   \* the entries on their way to the loop
          bundle,    \* the entries the loop holds
          written,   \* how many of them this flush has tried; -1 when none runs
          table,     \* log_entries: rows [record, place]
          inserts,   \* ghost: the place of the last row in the order of insertion
          archived,  \* the entries with archived_at set
          gone,      \* dropped at a full channel, refused by the database or deleted
          running    \* the loop runs
logVars == <<logged, channel, bundle, written, table, inserts, archived, gone, running>>

LogInit ==
    /\ logged = 0 /\ channel = <<>> /\ bundle = <<>> /\ written = -1
    /\ table = {} /\ inserts = 0 /\ archived = {} /\ gone = {} /\ running = TRUE

(* Handle: enqueue never blocks the caller.                                *)
Handle ==
    /\ logged < LastRecord /\ logged' = logged + 1
    /\ IF Len(channel) < logChanCap
       THEN channel' = Append(channel, logged + 1) /\ UNCHANGED gone
       ELSE gone' = gone \cup {logged + 1} /\ UNCHANGED channel
    /\ UNCHANGED <<bundle, written, table, inserts, archived, running>>

Idling == running /\ written = -1

(* The loop takes an entry; a full bundle is flushed at once.               *)
Receive ==
    /\ Idling /\ channel # <<>>
    /\ channel' = Tail(channel)
    /\ bundle' = Append(bundle, Head(channel))
    /\ written' = IF Len(bundle) + 1 >= BatchSize THEN 0 ELSE -1
    /\ UNCHANGED <<logged, table, inserts, archived, gone, running>>

Tick ==
    /\ Idling /\ bundle # <<>> /\ written' = 0
    /\ UNCHANGED <<logged, channel, bundle, table, inserts, archived, gone, running>>

(* One insert of a flush; a failure is noted on standard output only, so   *)
(* that it cannot log itself into the channel again.                       *)
InsertLogEntry(fails) ==
    /\ written \in 0 .. Len(bundle) - 1
    /\ written' = written + 1
    /\ IF fails THEN gone' = gone \cup {bundle[written + 1]} /\ UNCHANGED <<table, inserts>>
       ELSE /\ inserts' = inserts + 1
            /\ table' = table \cup {[record |-> bundle[written + 1], place |-> inserts + 1]}
            /\ UNCHANGED gone
    /\ UNCHANGED <<logged, channel, bundle, archived, running>>

BatchKept == bundle
AfterFlush == <<>>
FlushEnds ==
    /\ written >= 0 /\ written = Len(bundle)
    /\ bundle' = AfterFlush /\ written' = -1
    /\ UNCHANGED <<logged, channel, table, inserts, archived, gone, running>>

(* Close: the loop flushes its bundle and ends; the channel is not drained. *)
Close ==
    /\ Idling /\ running' = FALSE
    /\ written' = IF bundle = <<>> THEN -1 ELSE 0
    /\ UNCHANGED <<logged, channel, bundle, table, inserts, archived, gone>>

Held == {row.record : row \in table}
Retain(S) == table' = {row \in table : row.record \in S}

ArchiveLogEntry(n) ==
    /\ n \in Held /\ archived' = archived \cup {n}
    /\ UNCHANGED <<logged, channel, bundle, written, table, inserts, gone, running>>

UnarchiveLogEntry(n) ==
    /\ n \in archived /\ archived' = archived \ {n}
    /\ UNCHANGED <<logged, channel, bundle, written, table, inserts, gone, running>>

DeleteLogEntry(n) ==
    /\ n \in Held /\ Retain(Held \ {n})
    /\ archived' = archived \ {n} /\ gone' = gone \cup {n}
    /\ UNCHANGED <<logged, channel, bundle, written, inserts, running>>

(* Archived entries are pruned like the others.                            *)
DeleteLogEntriesBefore(n) ==
    LET old == {m \in Held : m < n}
    IN  /\ Retain(Held \ old)
        /\ archived' = archived \ old /\ gone' = gone \cup old
        /\ UNCHANGED <<logged, channel, bundle, written, inserts, running>>

LogNext ==
    \/ Handle \/ Receive \/ Tick \/ FlushEnds \/ Close
    \/ \E fails \in BOOLEAN : InsertLogEntry(fails)
    \/ \E n \in 1 .. LastRecord :
         \/ ArchiveLogEntry(n) \/ UnarchiveLogEntry(n)
         \/ DeleteLogEntry(n) \/ DeleteLogEntriesBefore(n)

LogSpec == LogInit /\ [][LogNext]_logVars

\* The entries of the channel and those of the bundle this flush has not tried.
NotTried == (IF written = -1 THEN 1 ELSE written + 1) .. Len(bundle)
OnItsWay == {channel[i] : i \in 1 .. Len(channel)} \cup {bundle[i] : i \in NotTried}

(* The table tells what was logged: no record twice and none out of its    *)
(* order; and a record that is not in it is on its way (for ever, once the *)
(* loop has ended) or was dropped, refused or deleted.                     *)
LogIsWhole ==
    /\ \A r, q \in table : r.place <= q.place <=> r.record <= q.record
    /\ 1 .. logged = Held \cup OnItsWay \cup gone
    /\ Held \cap (OnItsWay \cup gone) = {} /\ OnItsWay \cap gone = {}
    /\ archived \subseteq Held
    /\ ~ running => Len(bundle) = 0 \/ written >= 0
=============================================================================
