----------------------------- MODULE TriggerLog -----------------------------
(***************************************************************************)
(* The Kafka topic of ingest triggers and the group's one consumer.  The   *)
(* log survives a crash of the service; the position of the consumer does *)
(* not, and goes back to the last offset its group committed, so a trigger *)
(* may be delivered again.  The client commits, inside poll, the offsets   *)
(* of records it handed out in an earlier poll.                            *)
(***************************************************************************)
EXTENDS Naturals, Sequences

CONSTANT Messages

VARIABLES
    log,            \* the triggers of the topic, oldest first
    position,       \* how many of them the handler has returned from
    committed       \* the offset a restarted consumer begins at

logVars == <<log, position, committed>>

LogTypeOK ==
    /\ log \in Seq(Messages)
    /\ position \in 0..Len(log)
    /\ committed \in 0..position

LogInit ==
    /\ log = <<>>
    /\ position = 0
    /\ committed = 0

Send(m) ==
    /\ log' = Append(log, m)
    /\ UNCHANGED <<position, committed>>

HasNext == position < Len(log)

NextTrigger == log[position + 1]

\* the handler returned, by the end of the pipeline or by log-and-drop
Handled ==
    /\ position' = position + 1
    /\ UNCHANGED <<log, committed>>

\* the auto-commit of the poll that follows a handled batch
Commit ==
    /\ committed # position
    /\ committed' = position
    /\ UNCHANGED <<log, position>>

Rewind ==
    /\ position' = committed
    /\ UNCHANGED <<log, committed>>
=============================================================================
