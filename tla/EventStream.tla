---------------------------- MODULE EventStream ----------------------------
(***************************************************************************)
(* Realtime events from the outbox to a web socket.  A transaction of the  *)
(* API or the worker emits an event (emitOutbox), worker replicas claim    *)
(* events and copy them into event_stream (publishOutbox), and the API     *)
(* polls the stream for one subscriber, resuming after a cursor (/v1/ws).  *)
(*                                                                         *)
(* Times are numbers, TicksPerMs of them in a millisecond: the database    *)
(* stamps events with microseconds, a cursor has milliseconds.             *)
(* Abstracted: payloads, the page size of 500, channels without subscriber.*)
(***************************************************************************)
EXTENDS Naturals, FiniteSetsExt, Sequences, Sorting

CONSTANTS
    Events, Channels, Workers,
    Polls,        \* overlapping sendEvents calls of the subscriber's timer
    TicksPerMs,
    MaxTime,      \* bound on the times of events
    MaxFaults     \* bound on crashes, stalls, failed transactions, broken connections

ASSUME TimesAreNatural == TicksPerMs \in Nat \ {0} /\ MaxTime \in Nat /\ MaxFaults \in Nat

None == "none"

ASSUME NoneIsNoName == None \notin Channels \cup Workers

VARIABLES
    now,         \* the time of the last event
    outbox,      \* outbox_events: [event -> row]
    stream,      \* the events in event_stream
    overtaken,   \* history: events that came into the stream behind a later one
    batch,       \* the claimed events a worker still has to handle
    cursor,      \* lastTimestamp of the connection
    answers,     \* the rows a sendEvents call has been answered and not yet sent
    received,    \* events the subscriber has got
    faults

socketVars == <<cursor, answers, received>>
streamVars == <<now, outbox, stream, overtaken, batch, cursor, answers, received, faults>>

NoRow == [status |-> "absent", channel |-> None, sequence |-> 0, occurredAt |-> 0,
          published |-> FALSE, lockedBy |-> None, lockStale |-> FALSE, due |-> TRUE]

RowsIn(channel) == {e \in Events : outbox[e].channel = channel}

AllCommitted(events) == \A e \in events : outbox[e].status = "committed"

\* new Date(...).toISOString() keeps milliseconds.
toISOString(time) == time - (time % TicksPerMs)

fault == faults < MaxFaults /\ faults' = faults + 1

-----------------------------------------------------------------------------
\* clock_timestamp() counts microseconds: no two events have the same time.
insertEvent(event, channel) ==
    /\ outbox[event].status = "absent"
    /\ \E time \in now + 1 .. MaxTime :
          /\ now' = time
          /\ outbox' = [outbox EXCEPT ![event] =
                [NoRow EXCEPT
                   !.status = "inserted", !.channel = channel, !.occurredAt = time,
                   !.sequence = 1 + Max({0} \cup {outbox[e].sequence :
                       e \in {f \in RowsIn(channel) : outbox[f].status = "committed"}})]]
    /\ UNCHANGED <<stream, overtaken, batch, socketVars, faults>>

\* The advisory lock is held to the end of the transaction that emits.
emitOutbox(event, channel) ==
    AllCommitted(RowsIn(channel)) /\ insertEvent(event, channel)

endTransaction(event) ==
    /\ outbox[event].status = "inserted"
    /\ \/ outbox' = [outbox EXCEPT ![event].status = "committed"]
       \/ outbox' = [outbox EXCEPT ![event] = NoRow]
    /\ UNCHANGED <<now, stream, overtaken, batch, socketVars, faults>>

-----------------------------------------------------------------------------
\* Mutant: a lock is never taken over.
ClaimableUnlocked(event) ==
    LET row == outbox[event] IN
    row.status = "committed" /\ ~row.published /\ row.due /\ row.lockedBy = None

Claimable(event) ==
    LET row == outbox[event] IN
    /\ row.status = "committed" /\ ~row.published /\ row.due
    /\ row.lockedBy = None \/ row.lockStale

claimEvents(worker) ==
    LET claimed == {e \in Events : Claimable(e)} IN
    /\ batch[worker] = {} /\ claimed # {}
    /\ outbox' = [e \in Events |->
          IF e \in claimed
          THEN [outbox[e] EXCEPT !.lockedBy = worker, !.lockStale = FALSE]
          ELSE outbox[e]]
    /\ batch' = [batch EXCEPT ![worker] = claimed]
    /\ UNCHANGED <<now, stream, overtaken, socketVars, faults>>

\* An event the stream already holds beyond the cursor that sending it leaves.
Overtakes(event) ==
    \E e \in stream : outbox[event].occurredAt <= toISOString(outbox[e].occurredAt)

\* RETURNING promises no order: any event of the batch may be next.
publishEvent(worker, event) ==
    /\ event \in batch[worker]
    /\ stream' = stream \cup {event}
    /\ overtaken' = overtaken \cup {e \in {event} \ stream : Overtakes(e)}
    /\ outbox' = IF outbox[event].lockedBy = worker
                 THEN [outbox EXCEPT ![event].published = TRUE, ![event].lockedBy = None,
                                     ![event].lockStale = FALSE]
                 ELSE outbox
    /\ batch' = [batch EXCEPT ![worker] = @ \ {event}]
    /\ UNCHANGED <<now, socketVars, faults>>

\* The copying transaction fails; the row waits for its next attempt.
failEvent(worker, event) ==
    /\ event \in batch[worker] /\ fault
    /\ outbox' = IF outbox[event].lockedBy = worker
                 THEN [outbox EXCEPT ![event].due = FALSE, ![event].lockedBy = None,
                                     ![event].lockStale = FALSE]
                 ELSE outbox
    /\ batch' = [batch EXCEPT ![worker] = @ \ {event}]
    /\ UNCHANGED <<now, stream, overtaken, socketVars>>

\* A worker dies, or cannot even record the failure: the locks stay.
crashWorker(worker) ==
    /\ batch[worker] # {} /\ fault
    /\ batch' = [batch EXCEPT ![worker] = {}]
    /\ UNCHANGED <<now, outbox, stream, overtaken, socketVars>>

\* Five minutes after a claim; that its worker is still busy then is a fault.
lockExpires(event) ==
    LET holder == outbox[event].lockedBy IN
    /\ holder # None /\ ~outbox[event].lockStale
    /\ IF event \in batch[holder] THEN fault ELSE UNCHANGED faults
    /\ outbox' = [outbox EXCEPT ![event].lockStale = TRUE]
    /\ UNCHANGED <<now, stream, overtaken, batch, socketVars>>

nextAttemptDue(event) ==
    /\ ~outbox[event].due
    /\ outbox' = [outbox EXCEPT ![event].due = TRUE]
    /\ UNCHANGED <<now, stream, overtaken, batch, socketVars, faults>>

-----------------------------------------------------------------------------
rowsAfter(time) == {e \in stream : outbox[e].occurredAt > time}

\* Mutant: the newest row comes first.
pageNewestFirst(time) ==
    sorted(rowsAfter(time),
           {r \in stream \X stream : outbox[r[1]].occurredAt > outbox[r[2]].occurredAt})

page(time) ==
    sorted(rowsAfter(time),
           {r \in stream \X stream : outbox[r[1]].occurredAt < outbox[r[2]].occurredAt})

\* The query of sendEvents: a poll takes its rows now and sends them later.
sendEvents(poll) ==
    /\ answers[poll] = <<>> /\ page(cursor) # <<>>
    /\ answers' = [answers EXCEPT ![poll] = page(cursor)]
    /\ UNCHANGED <<now, outbox, stream, overtaken, batch, cursor, received, faults>>

\* Mutant: the next page starts at the time of the clock.
sendRowsUpToNow(poll) ==
    /\ answers[poll] # <<>>
    /\ received' = received \cup Range(answers[poll])
    /\ cursor' = toISOString(now)
    /\ answers' = [answers EXCEPT ![poll] = <<>>]
    /\ UNCHANGED <<now, outbox, stream, overtaken, batch, faults>>

\* The loop over the rows, which nothing interrupts.
sendRows(poll) ==
    /\ answers[poll] # <<>>
    /\ received' = received \cup Range(answers[poll])
    /\ cursor' = toISOString(outbox[answers[poll][Len(answers[poll])]].occurredAt)
    /\ answers' = [answers EXCEPT ![poll] = <<>>]
    /\ UNCHANGED <<now, outbox, stream, overtaken, batch, faults>>

\* The connection breaks after some rows of an answer, and the client comes back
\* with the serverTimestamp of the last event it got, or without a cursor.
reconnect(poll) ==
    /\ fault
    /\ \E sent \in 0 .. Len(answers[poll]) :
          /\ received' = received \cup Range(SubSeq(answers[poll], 1, sent))
          /\ cursor' \in IF sent > 0
                         THEN {toISOString(outbox[answers[poll][sent]].occurredAt)}
                         ELSE {0, cursor}
    /\ answers' = [p \in Polls |-> <<>>]
    /\ UNCHANGED <<now, outbox, stream, overtaken, batch>>

StreamInit ==
    /\ now = 0
    /\ outbox = [e \in Events |-> NoRow]
    /\ stream = {} /\ overtaken = {}
    /\ batch = [w \in Workers |-> {}]
    /\ cursor = 0
    /\ answers = [p \in Polls |-> <<>>]
    /\ received = {}
    /\ faults = 0

workerStep(worker) ==
    \/ claimEvents(worker)
    \/ \E e \in Events : publishEvent(worker, e) \/ failEvent(worker, e)
    \/ crashWorker(worker)

StreamNext ==
    \/ \E e \in Events, c \in Channels : emitOutbox(e, c)
    \/ \E e \in Events : endTransaction(e) \/ lockExpires(e) \/ nextAttemptDue(e)
    \/ \E w \in Workers : workerStep(w)
    \/ \E p \in Polls : sendEvents(p) \/ sendRows(p) \/ reconnect(p)

\* Time passes, replicas poll (index.ts:87), and the socket's timer fires.
Fairness ==
    /\ \A e \in Events : WF_streamVars(lockExpires(e)) /\ WF_streamVars(nextAttemptDue(e))
    /\ \A w \in Workers : WF_streamVars(claimEvents(w) \/ \E e \in Events : publishEvent(w, e))
    /\ \A p \in Polls : WF_streamVars(sendEvents(p)) /\ WF_streamVars(sendRows(p))

StreamSpec == StreamInit /\ [][StreamNext]_streamVars /\ Fairness

-----------------------------------------------------------------------------
\* Rows, batches and answers hold what their columns and arrays hold, and only
\* copied events reach the subscriber.
StreamTypeOK ==
    /\ now \in 0 .. MaxTime
    /\ outbox \in [Events ->
          [status : {"absent", "inserted", "committed"}, channel : Channels \cup {None},
           sequence : Nat, occurredAt : 0 .. MaxTime,
           published : BOOLEAN, lockedBy : Workers \cup {None}, lockStale : BOOLEAN,
           due : BOOLEAN]]
    /\ stream \subseteq {e \in Events : outbox[e].status = "committed"}
    /\ overtaken \subseteq stream
    /\ batch \in [Workers -> SUBSET Events]
    /\ cursor \in 0 .. MaxTime
    /\ DOMAIN answers = Polls /\ \A p \in Polls : answers[p] \in Seq(stream)
    /\ received \subseteq stream
    /\ faults \in 0 .. MaxFaults

\* Reconnects, overlapping polls and the cut-off cursor lose no event, except one
\* the worker published after a later one: all others are received or still to come.
OnlyOvertakenIsMissed ==
    \A e \in stream \ (received \cup overtaken) : outbox[e].occurredAt > cursor

\* The subscriber first gets events in the order of their milliseconds, except for
\* events the worker published after a later one.
FirstSentInOrder ==
    [][ \A e \in received' \ (received \cup overtaken), f \in received :
          outbox[e].occurredAt > toISOString(outbox[f].occurredAt) ]_streamVars

\* A committed event is published in the end, although replicas crash, fail, and
\* take locks over from replicas that are still busy.
CommittedIsPublished ==
    \A e \in Events : outbox[e].status = "committed" ~> outbox[e].published

\* A copied event reaches the subscriber in the end, unless it was overtaken.
StreamedIsReceived ==
    \A e \in Events : e \in stream \ overtaken ~> e \in received
=============================================================================
