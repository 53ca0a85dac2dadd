----------------------------- MODULE EventStream -----------------------------
(***************************************************************************)
(* The events of one run: producers append to runtime_event_outbox and     *)
(* GET /v1/runtime-runs/{run_id}/events sends them to a client, as a list  *)
(* or as a stream that polls the table.  An event gets its created_at when *)
(* it is inserted and becomes visible when its transaction commits, so     *)
(* events of different producers can become visible in another order than  *)
(* the one they are sorted by.                                             *)
(*                                                                         *)
(* An event is its place in the order (created_at, outbox_id).             *)
(***************************************************************************)
EXTENDS Integers, FiniteSets

CONSTANTS
    Producers,      \* the processes that append events to the run
    MaxEvents,      \* bound on the events appended
    PageLimit,      \* the limit of list_since: 100
    MaxPolls        \* the rounds of one stream: 120

ASSUME EventStreamAssumption ==
    /\ MaxEvents \in Nat
    /\ PageLimit \in Nat
    /\ MaxPolls \in Nat \ {0}

VARIABLES
    clock,      \* the last created_at given out
    inserting,  \* the event whose transaction each producer has open
    visible,    \* the committed events
    runOver,    \* whether the status of the run is one that ends a stream
    stream,     \* the stream: what it does next and the rounds it has left
    cursor,     \* the last event the client received
    received,   \* how many times the client received each event
    late        \* history: events committed when the cursor was past them

streamVars == <<clock, inserting, visible, runOver, stream, cursor, received, late>>

Events == 1..MaxEvents
NoEvent == 0

StreamTypeOK ==
    /\ clock \in 0..MaxEvents
    /\ inserting \in [Producers -> Events \cup {NoEvent}]
    /\ visible \in SUBSET Events
    /\ runOver \in BOOLEAN
    /\ stream \in [pc: {"closed", "poll", "status"}, left: 0..MaxPolls]
    /\ cursor \in Events \cup {NoEvent}
    /\ received \in [Events -> Nat]
    /\ late \in SUBSET Events

StreamInit ==
    /\ clock = 0
    /\ inserting = [p \in Producers |-> NoEvent]
    /\ visible = {}
    /\ runOver = FALSE
    /\ stream = [pc |-> "closed", left |-> 0]
    /\ cursor = NoEvent
    /\ received = [e \in Events |-> 0]
    /\ late = {}

-----------------------------------------------------------------------------
\* Producers

\* add_runtime_outbox_event: the INSERT stamps the event.
Insert(p) ==
    /\ inserting[p] = NoEvent
    /\ clock < MaxEvents
    /\ clock' = clock + 1
    /\ inserting' = [inserting EXCEPT ![p] = clock + 1]
    /\ UNCHANGED <<visible, runOver, stream, cursor, received, late>>

\* The transaction commits.
Commit(p) ==
    /\ inserting[p] # NoEvent
    /\ visible' = visible \cup {inserting[p]}
    /\ late' = IF inserting[p] < cursor THEN late \cup {inserting[p]} ELSE late
    /\ inserting' = [inserting EXCEPT ![p] = NoEvent]
    /\ UNCHANGED <<clock, runOver, stream, cursor, received>>

\* The transaction is rolled back, or its process dies.
Rollback(p) ==
    /\ inserting[p] # NoEvent
    /\ inserting' = [inserting EXCEPT ![p] = NoEvent]
    /\ UNCHANGED <<clock, visible, runOver, stream, cursor, received, late>>

\* A producer writes a status of the run, before the event that reports it; an
\* approval takes a run out of REVIEW again.
WriteStatus ==
    /\ runOver' \in BOOLEAN
    /\ UNCHANGED <<clock, inserting, visible, stream, cursor, received, late>>

-----------------------------------------------------------------------------
\* list_runtime_outbox_events

\* Faulty: a page that is one event short.
PageShort == {e \in visible : Cardinality({d \in visible : d <= e}) < PageLimit}

\* The query: the first events of the run, up to the limit.
Page == {e \in visible : Cardinality({d \in visible : d < e}) < PageLimit}

\* Faulty: the event the cursor names is sent again.
ListFromCursor(c) == IF c \in Page THEN {e \in Page : c <= e} ELSE Page

\* The events after the cursor, if the cursor is among them.
ListSince(c) == IF c \in Page THEN {e \in Page : c < e} ELSE Page

\* The client receives a batch, in order.
Receive(batch) ==
    /\ received' = [e \in Events |-> IF e \in batch THEN received[e] + 1 ELSE received[e]]
    /\ cursor' \in IF batch = {} THEN {cursor} ELSE batch
    /\ \A e \in batch : e <= cursor'

-----------------------------------------------------------------------------
\* runtime_run_events

\* A client opens a stream, or opens it again after its last event.
Connect ==
    /\ stream.pc = "closed"
    /\ stream' = [pc |-> "poll", left |-> MaxPolls]
    /\ UNCHANGED <<clock, inserting, visible, runOver, cursor, received, late>>

\* Without stream=true the request is answered with one batch.
List ==
    /\ stream.pc = "closed"
    /\ Receive(ListSince(cursor))
    /\ UNCHANGED <<clock, inserting, visible, runOver, stream, late>>

\* One round of event_stream: what is there is sent.
Poll ==
    /\ stream.pc = "poll"
    /\ Receive(ListSince(cursor))
    /\ stream' = [stream EXCEPT !.pc = "status"]
    /\ UNCHANGED <<clock, inserting, visible, runOver, late>>

\* Faulty: the cursor is set before the events are sent.
PollInterruptedAhead ==
    /\ stream.pc = "poll"
    /\ \E last \in 0..MaxEvents :
           received' = [e \in Events |-> IF e \in ListSince(cursor) /\ e <= last
                                         THEN received[e] + 1 ELSE received[e]]
    /\ cursor' \in IF ListSince(cursor) = {} THEN {cursor} ELSE ListSince(cursor)
    /\ \A e \in ListSince(cursor) : e <= cursor'
    /\ stream' = [stream EXCEPT !.pc = "closed"]
    /\ UNCHANGED <<clock, inserting, visible, runOver, late>>

\* The connection is lost after some events of the batch.
PollInterrupted ==
    /\ stream.pc = "poll"
    /\ \E last \in 0..MaxEvents : Receive({e \in ListSince(cursor) : e <= last})
    /\ stream' = [stream EXCEPT !.pc = "closed"]
    /\ UNCHANGED <<clock, inserting, visible, runOver, late>>

\* The end of a round: the stream ends with the run or with its last round.
CheckStatus ==
    /\ stream.pc = "status"
    /\ stream' = IF runOver \/ stream.left = 1
                 THEN [stream EXCEPT !.pc = "closed"]
                 ELSE [stream EXCEPT !.pc = "poll", !.left = @ - 1]
    /\ UNCHANGED <<clock, inserting, visible, runOver, cursor, received, late>>

StreamStep == Poll \/ PollInterrupted \/ CheckStatus

StreamNext ==
    \/ \E p \in Producers : Insert(p) \/ Commit(p) \/ Rollback(p)
    \/ WriteStatus
    \/ Connect
    \/ List
    \/ StreamStep

StreamSpec == StreamInit /\ [][StreamNext]_streamVars

-----------------------------------------------------------------------------
\* Properties

\* While the run has no more events than a page, a client that goes on from its
\* cursor receives no event twice, through any reconnections (list_since).
DeliveredOnce == \A e \in Events : received[e] <= 1

\* The client receives events in the order of created_at: its cursor never
\* moves back.
NeverBackwards == [][cursor <= cursor']_streamVars

\* The only events below the cursor that the client did not receive are those
\* that were committed when the cursor had passed them.
OnlyLateEventsAreMissed ==
    \A e \in visible : e < cursor /\ received[e] = 0 => e \in late

\* Of a run that fits in a page, the last place included, replaying from any event
\* yields all events after it (list_runtime_outbox_events limits before it looks
\* for the cursor: of a longer run nothing is yielded).
ReplayIsComplete ==
    Cardinality(visible) <= PageLimit =>
        \A c \in visible : ListSince(c) = {e \in visible : c < e}
=============================================================================
