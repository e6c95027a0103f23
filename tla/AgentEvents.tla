----------------------------- MODULE AgentEvents -----------------------------
(***************************************************************************)
(* The events of other agents on their way into a conversation: messages   *)
(* for it and the life cycle of its children.  The server keeps them in a  *)
(* log; a connection of OrchestrationEventStreamer, run by the driver of   *)
(* app/src/ai/agent_events/driver.rs, forwards them into a buffer; a timer *)
(* drains the buffer into the queue of OrchestrationEventService; and      *)
(* BlocklistAIController sends what is queued with the next request.       *)
(*                                                                         *)
(* One conversation, hosted in this process.  The log and the server's     *)
(* copy of the cursor are external.  Left out are killed runs, dormant     *)
(* Claude children, viewers, and the echo of what the agent received,      *)
(* which only a refused request would use.                                 *)
(***************************************************************************)
EXTENDS OrderedSeqs, SequencesExt

CONSTANTS
    EventTypes,     \* what the server may log: [kind, sender]
    Logs,           \* the logs it may have at the end
    HasParent,      \* the conversation is the child of another
    MaxPending,     \* MAX_PENDING_LIFECYCLE_EVENTS_PER_TARGET
    MaxEvents,      \* bound: the events in the log
    MaxSetBacks     \* bound: how often a run sets the cursor back

(***************************************************************************)
(* A Message is for this conversation; a Status (in progress, succeeded)   *)
(* is superseded by a later one of its sender; a Critical event (failed,   *)
(* cancelled, blocked) is not; Other events are not delivered.             *)
(***************************************************************************)
Kinds == {"Message", "Status", "Critical", "Other"}

ASSUME EventTypesAssumption == \A type \in EventTypes : type.kind \in Kinds
ASSUME LogsAssumption == Logs \subseteq [1..MaxEvents -> EventTypes]
ASSUME HasParentAssumption == HasParent \in BOOLEAN
ASSUME BoundsAssumption == {MaxPending, MaxEvents, MaxSetBacks} \subseteq Nat

VARIABLES
    log,            \* the server's events; a sequence number is a position
    consumer,       \* an agent view of the conversation is open
    parent,         \* it has children that are watched
    fetches,        \* get_ambient_agent_task under way: [kind, base]
    connection,     \* sse_connection: the driver's cursor and stream
    buffer,         \* event_receiver: [seq, body]
    cursor,         \* event_cursor
    saved,          \* last_event_sequence, kept in SQLite
    pending,        \* pending_events, by sequence number
    given,          \* the events sent with a request in this run
    status, stream, \* of the conversation
    wait,           \* its wait_for_events: none, pending, or its time is up
    started,        \* the highest cursor of earlier runs of the program
    enqueued,       \* the events drained in this run
    repeated,       \* one of them was drained twice
    setBacks,       \* how often the cursor was set back in this run
    capped          \* those dropped in this run at the limit of the queue

cursors == <<cursor, saved, enqueued, repeated>>
queue == <<pending, capped>>
turn == <<given, status, stream, wait>>
watch == <<consumer, parent>>
vars == <<log, watch, fetches, connection, buffer, cursors, queue, turn, started,
          setBacks>>

NoConnection == [since |-> -1, at |-> -1]

\* A connection whose stream is not open; since is the driver's cursor.
Connection(since) == [since |-> since, at |-> -1]

Init ==
    /\ log \in Logs
    /\ consumer = FALSE
    /\ parent = FALSE
    /\ fetches = {}
    /\ connection = NoConnection
    /\ buffer = <<>>
    /\ cursor = 0 /\ saved = 0
    /\ pending = <<>> /\ capped = {}
    /\ given = {}
    /\ status = "Success" /\ stream = "None" /\ wait = "None"
    /\ started = 0
    /\ enqueued = {} /\ repeated = FALSE /\ setBacks = 0

Maximum(S) == CHOOSE m \in S : \A n \in S : n <= m

-----------------------------------------------------------------------------
(* The queue of the service.                                               *)

IsStatus(s) == log[s].kind = "Status"
IsLifecycle(s) == log[s].kind \in {"Status", "Critical"}
Supersedes(s, t) == IsStatus(s) /\ IsStatus(t) /\ log[s].sender = log[t].sender

\* Mutant: any event supersedes the earlier ones of its sender.
CoalescedAll(queued, s) ==
    Filter(queued, {t \in ToSet(queued) : log[s].sender # log[t].sender})

\* coalesce_lifecycle_events
Coalesced(queued, s) == Filter(queued, {t \in ToSet(queued) : ~Supersedes(s, t)})

\* enforce_lifecycle_queue_cap: the oldest status is dropped, if there is one.
Excess(queued) ==
    LET lifecycle == {k \in DOMAIN queued : IsLifecycle(queued[k])}
        statuses == {k \in DOMAIN queued : IsStatus(queued[k])}
    IN  IF Cardinality(lifecycle) <= MaxPending \/ statuses = {} THEN {}
        ELSE {CHOOSE k \in statuses : \A other \in statuses : k <= other}

\* enqueue_event_batch, for an event.
Enqueued(q, s) ==
    IF ~IsLifecycle(s) THEN [q EXCEPT !.pending = Append(@, s)]
    ELSE LET queued == Append(Coalesced(q.pending, s), s)
             excess == Excess(queued)
         IN  [pending |-> IF excess = {} THEN queued
                          ELSE RemoveAt(queued, CHOOSE k \in excess : TRUE),
              capped  |-> q.capped \cup {queued[k] : k \in excess}]

\* enqueue_event_batch: the queue after the first events of a batch.
EnqueuedEach(q, batch) ==
    LET after[k \in 0..Len(batch)] ==
            IF k = 0 THEN q ELSE Enqueued(after[k - 1], batch[k])
    IN  after

-----------------------------------------------------------------------------
(* The controller.                                                         *)

\* conversation_ready_for_pending_events
Ready(newStatus, newStream) ==
    newStatus \in {"Success", "Waiting"} /\ newStream = "None"

\* A request with all that is queued; a pending wait is cancelled.
Sends(queued) ==
    /\ given' = given \cup ToSet(queued)
    /\ pending' = <<>>
    /\ status' = "InProgress"
    /\ stream' = "Open"
    /\ wait' = "None"

\* The queue and the conversation of the arguments stay as they are.
Stays(queued, newStatus, newStream, newWait) ==
    /\ pending' = queued
    /\ status' = newStatus
    /\ stream' = newStream
    /\ wait' = newWait
    /\ UNCHANGED given

(***************************************************************************)
(* handle_pending_events_ready at the end of a step: what is queued is     *)
(* sent if the conversation can take it.                                   *)
(***************************************************************************)
EventsReady(queued, newStatus, newStream, newWait) ==
    IF queued # <<>> /\ Ready(newStatus, newStream) THEN Sends(queued)
    ELSE Stays(queued, newStatus, newStream, newWait)

-----------------------------------------------------------------------------
(* The streamer.                                                           *)

Eligible == consumer /\ (HasParent \/ parent)
Connected == connection # NoConnection

\* persist_event_cursor
EffectiveSequence(fresh, at) == Maximum({Last(fresh).seq, at, saved})

\* handle_event_batch: hydrated messages, and then the life cycle.
Batch(fresh) ==
    LET seqs(items) == [k \in DOMAIN items |-> items[k].seq]
    IN  seqs(Filter(fresh, {item \in ToSet(fresh) : item.body}))
        \o seqs(Filter(fresh, {item \in ToSet(fresh) : IsLifecycle(item.seq)}))

\* What the buffer has beyond the cursor.
Fresh(at) == Filter(buffer, {item \in ToSet(buffer) : item.seq > at})

(***************************************************************************)
(* drain_sse_events with the cursor at the given sequence: first the new   *)
(* cursor is saved, then the events are queued.                            *)
(***************************************************************************)
Drain(at) ==
    LET fresh == Fresh(at)
        batch == Batch(fresh)
        after == EnqueuedEach([pending |-> pending, capped |-> capped], batch)[Len(batch)]
    IN  /\ buffer' = <<>>
        /\ IF fresh = <<>> THEN cursor' = at /\ UNCHANGED saved
           ELSE /\ cursor' = EffectiveSequence(fresh, at)
                /\ saved' = cursor'
        /\ enqueued' = enqueued \cup ToSet(batch)
        /\ repeated' = (repeated \/ ToSet(batch) \cap enqueued # {})
        /\ capped' = after.capped
        /\ IF batch = <<>> THEN UNCHANGED <<pending, turn>>
           ELSE EventsReady(after.pending, status, stream, wait)

\* drain_sse_events by the timer.
DrainTimer ==
    /\ Connected
    /\ buffer # <<>>
    /\ Drain(cursor)
    /\ UNCHANGED <<log, watch, fetches, connection, started, setBacks>>

(***************************************************************************)
(* register_consumer.  The harness of the task is unknown, so that each    *)
(* registration asks the server for the task; of several such fetches one  *)
(* is modelled.                                                            *)
(***************************************************************************)
RegisterConsumer ==
    /\ ~consumer
    /\ consumer' = TRUE
    /\ fetches' = IF fetches = {} THEN {[kind |-> "Harness", base |-> cursor]} ELSE fetches
    /\ connection' = IF HasParent \/ parent THEN Connection(cursor) ELSE NoConnection
    /\ UNCHANGED <<log, parent, buffer, cursors, queue, turn, started, setBacks>>

\* unregister_consumer: teardown_sse
UnregisterConsumer ==
    /\ consumer
    /\ consumer' = FALSE
    /\ IF Connected THEN Drain(cursor) ELSE UNCHANGED <<buffer, cursors, queue, turn>>
    /\ connection' = NoConnection
    /\ UNCHANGED <<log, parent, fetches, started, setBacks>>

(***************************************************************************)
(* register_watched_run_id: the first child changes the filter of an open  *)
(* connection, which is drained and replaced: reconnect_sse.               *)
(***************************************************************************)
WatchChild ==
    /\ ~parent
    /\ parent' = TRUE
    /\ IF Connected THEN Drain(cursor) ELSE UNCHANGED <<buffer, cursors, queue, turn>>
    /\ connection' = IF consumer THEN Connection(cursor') ELSE NoConnection
    /\ UNCHANGED <<log, consumer, fetches, started, setBacks>>

\* The base of a fetch: the cursor when it was asked, for a wait when it answers.
BaseOf(fetch) == IF fetch.kind = "Wait" THEN cursor ELSE fetch.base

(***************************************************************************)
(* finish_restore_fetch, finish_register_parent_on_wait and the callback   *)
(* of spawn_task_harness_fetch_if_needed: the server has children or not,  *)
(* and any cursor it was sent: the writes are unordered and may fail.  The *)
(* first of them sets the cursor only if there are children.               *)
(***************************************************************************)
FetchAnswers ==
    \E fetch \in fetches, sequence \in 0 .. Maximum({started, saved}), children \in BOOLEAN :
        LET applied == fetch.kind # "Wait" \/ children
            adopts  == children /\ fetch.kind # "Harness" /\ ~parent
            base    == IF applied THEN Maximum({BaseOf(fetch), sequence}) ELSE cursor
        IN  /\ base < cursor => setBacks < MaxSetBacks
            /\ fetches' = fetches \ {fetch}
            /\ parent' = (parent \/ adopts)
            /\ setBacks' = IF base < cursor THEN setBacks + 1 ELSE setBacks
            /\ IF adopts /\ Connected
               THEN \* reconnect_sse
                    /\ Drain(base)
                    /\ connection' = Connection(cursor')
               ELSE /\ cursor' = base
                    /\ connection' = IF consumer /\ ~Connected /\ (HasParent \/ parent')
                                     THEN Connection(base) ELSE connection
                    /\ UNCHANGED <<buffer, saved, enqueued, repeated, queue, turn>>
    /\ UNCHANGED <<log, consumer, started>>

\* The fetch for a harness or a wait is given up; that of a restore is retried.
FetchFails ==
    /\ \E fetch \in fetches : fetch.kind # "Restore" /\ fetches' = fetches \ {fetch}
    /\ UNCHANGED <<log, watch, connection, buffer, cursors, queue, turn, started, setBacks>>

-----------------------------------------------------------------------------
(* The server and the driver.                                              *)

\* open_stream: the server may send the event at the cursor again.
StreamOpens ==
    /\ Connected
    /\ connection.at = -1
    /\ \E at \in {connection.since, connection.since - 1} \cap Nat :
           connection' = [connection EXCEPT !.at = at]
    /\ UNCHANGED <<log, watch, fetches, buffer, cursors, queue, turn, started, setBacks>>

\* An error, a close, or the reconnect after 14 minutes.
StreamBreaks ==
    /\ Connected
    /\ connection.at # -1
    /\ connection' = Connection(connection.since)
    /\ UNCHANGED <<log, watch, fetches, buffer, cursors, queue, turn, started, setBacks>>

\* Mutant: the event after the driver's cursor is skipped.
SkipsOneMore(s) == s <= connection.since + 1

\* An event at or below the driver's cursor is skipped.
Skips(s) == s <= connection.since

(***************************************************************************)
(* The next event: it is forwarded and the driver's cursor advances.  The  *)
(* body of a message is fetched, which may fail.                           *)
(***************************************************************************)
EventArrives ==
    LET s == connection.at + 1 IN
    /\ Connected
    /\ connection.at # -1
    /\ s <= Len(log) /\ ~Skips(s)
    /\ connection' = [since |-> s, at |-> s]
    /\ \E body \in {FALSE, log[s].kind = "Message"} :
           buffer' = Append(buffer, [seq |-> s, body |-> body])
    /\ UNCHANGED <<log, watch, fetches, cursors, queue, turn, started, setBacks>>

\* It was forwarded before.
EventIsSkipped ==
    LET s == connection.at + 1 IN
    /\ Connected
    /\ connection.at # -1
    /\ s <= Len(log) /\ Skips(s)
    /\ connection' = [connection EXCEPT !.at = s]
    /\ UNCHANGED <<log, watch, fetches, buffer, cursors, queue, turn, started, setBacks>>

-----------------------------------------------------------------------------
(* The turns of the conversation, of BlocklistController.                  *)

\* Everything but the conversation and its queue.
OutsideTurn == <<log, watch, connection, buffer, cursors, capped, started,
                 setBacks>>

\* StreamFinished: a status is set while the stream is still registered.
StreamFinishes ==
    /\ stream = "Open"
    /\ \E outcome \in {"Success", "InProgress", "Stopped"} :
           EventsReady(pending, outcome, "Finished", wait)
    /\ UNCHANGED <<OutsideTurn, fetches>>

\* Mutant: the queue is not looked at again.
StreamCleanedUpOnly == Stays(pending, status, "None", wait)

\* AfterStreamFinished asks for pending events once the stream is removed.
StreamCleanedUp == EventsReady(pending, status, "None", wait)

AfterStreamFinished ==
    /\ stream = "Finished"
    /\ StreamCleanedUp
    /\ UNCHANGED <<OutsideTurn, fetches>>

\* The actions of the output are done: send_follow_up_for_conversation.
FollowUp ==
    /\ status = "InProgress" /\ stream = "None"
    /\ Sends(pending)
    /\ UNCHANGED <<OutsideTurn, fetches>>

\* The follow-up to a subagent is sent without the events.
FollowUpOfSubagent ==
    /\ status = "InProgress" /\ stream = "None"
    /\ Stays(pending, "InProgress", "Open", "None")
    /\ UNCHANGED <<OutsideTurn, fetches>>

(***************************************************************************)
(* WaitForEventsExecutor::execute: asks whether there are children and     *)
(* lets the conversation wait, until the watchdog fires.                   *)
(***************************************************************************)
StartWait ==
    /\ status = "InProgress" /\ stream = "None"
    /\ fetches' = IF parent \/ fetches # {} THEN fetches
                  ELSE {[kind |-> "Wait", base |-> 0]}
    /\ EventsReady(pending, "Waiting", "None", "Pending")
    /\ UNCHANGED <<OutsideTurn>>

\* Mutant: the wait is forgotten before it is answered.
WatchdogResultLost == "None"

\* The conversation may have left the wait without cancelling it.
WatchdogResult == IF status = "Waiting" THEN "Fired" ELSE "None"

\* fire_watchdog_if_current
WatchdogFires ==
    /\ wait = "Pending"
    /\ wait' = WatchdogResult
    /\ UNCHANGED <<OutsideTurn, fetches, pending, given, status, stream>>

\* The result of the wait is known: the follow-up takes the events along.
WaitCompletes ==
    /\ wait = "Fired"
    /\ Sends(pending)
    /\ UNCHANGED <<OutsideTurn, fetches>>

\* A query of the user replaces the stream and cancels the wait.
UserQuery ==
    /\ Stays(pending, "InProgress", "Open", "None")
    /\ UNCHANGED <<OutsideTurn, fetches>>

\* The user stops the conversation.
UserStops ==
    /\ status \in {"InProgress", "Waiting"}
    /\ Stays(pending, "Stopped", "None", "None")
    /\ UNCHANGED <<OutsideTurn, fetches>>

(***************************************************************************)
(* The program ends and starts again; the conversation is restored, with   *)
(* the saved cursor or, from the cloud, without it.                        *)
(***************************************************************************)
Restart ==
    /\ saved' \in {saved, 0}
    /\ cursor' = saved'
    /\ started' = Maximum({started, saved})
    /\ consumer' = FALSE
    /\ parent' = FALSE
    /\ fetches' = {[kind |-> "Restore", base |-> saved']}
    /\ connection' = NoConnection
    /\ buffer' = <<>>
    /\ pending' = <<>>
    /\ status' \in {"Success", "Stopped"}
    /\ stream' = "None" /\ wait' = "None"
    /\ enqueued' = {} /\ repeated' = FALSE /\ setBacks' = 0
    /\ given' = {} /\ capped' = {}
    /\ UNCHANGED log

Next ==
    \/ StreamOpens \/ StreamBreaks \/ EventArrives \/ EventIsSkipped
    \/ DrainTimer \/ RegisterConsumer \/ UnregisterConsumer
    \/ WatchChild \/ FetchAnswers \/ FetchFails
    \/ StreamFinishes \/ AfterStreamFinished \/ FollowUp \/ FollowUpOfSubagent
    \/ StartWait \/ WatchdogFires \/ WaitCompletes \/ UserQuery \/ UserStops
    \/ Restart

(***************************************************************************)
(* Timers and callbacks run, response streams end, actions of the agent    *)
(* end, and not all of its work is a subagent's; the user does not replace *)
(* every request before any of it.                                         *)
(***************************************************************************)
Fairness ==
    /\ WF_vars(WatchdogFires) /\ WF_vars(WaitCompletes)
    /\ SF_vars(StreamFinishes) /\ SF_vars(AfterStreamFinished) /\ SF_vars(FollowUp)

Spec == Init /\ [][Next]_vars
FairSpec == Spec /\ Fairness

-----------------------------------------------------------------------------
(* Properties.                                                             *)

\* The event was handed over, waits for it, or a later one took its place.
IsKept(s) ==
    \/ s \in given \cup ToSet(pending) \cup capped
    \/ \E t \in enqueued : t > s /\ Supersedes(s, t)

(***************************************************************************)
(* Of the events drained in this run of the program none disappears: each  *)
(* was sent with a request, is queued, was superseded by a later status of *)
(* its sender or dropped, if it is a status, at the limit of the queue.    *)
(* The exception is a cursor that was set back: an old status is then      *)
(* replayed, supersedes the newer one in the queue, and                    *)
(* persist_event_cursor moves the cursor past the newer one again.         *)
(***************************************************************************)
EventsAreKept ==
    /\ \A s \in enqueued : IsKept(s) \/ setBacks > 0
    /\ \A s \in capped : IsStatus(s)

(***************************************************************************)
(* The cursor never passes an event that was not drained, whatever opens,  *)
(* breaks and replaces the connections.  The exceptions are messages whose *)
(* body could not be fetched and what an earlier run had handled.          *)
(***************************************************************************)
CursorSkipsNothing ==
    \A s \in started + 1 .. cursor : IsLifecycle(s) => s \in enqueued

(***************************************************************************)
(* "without replaying events already acknowledged locally"                 *)
(* (orchestration_event_streamer.rs:2068): nothing is delivered twice in   *)
(* one run of the program.                                                 *)
(***************************************************************************)
NothingIsReplayed == ~repeated

(***************************************************************************)
(* An event that is queued does not stay there: it is sent to the agent,   *)
(* superseded or dropped (EventsAreKept), unless the user stops the        *)
(* conversation or it fails.                                               *)
(***************************************************************************)
Queued(s) == s \in ToSet(pending)
EventsReachTheAgent ==
    \A s \in 1..MaxEvents : Queued(s) ~> (~Queued(s) \/ status = "Stopped")

(***************************************************************************)
(* A conversation does not wait for events for ever, not even when none    *)
(* comes: a message, the life cycle of a child, the user or the watchdog   *)
(* ends the wait (wait_for_events.rs).                                     *)
(***************************************************************************)
WaitingEnds == status = "Waiting" ~> status # "Waiting"
=============================================================================
