# A TLA+ development of tzWarp's agent loop and its cloud objects

tzWarp is a terminal with an agent in it: the user asks something, a response
stream brings the agent's output, the tool calls of the output ("actions") are
run in the terminal under the user's permissions, their results are sent back
as a follow-up request, and so on until an output has no actions. The code that
drives this loop is in `src/app/src/ai/blocklist/`. It is event driven: nearly
everything runs on the main thread, but futures complete in any order, events
are delivered after the handler that emitted them has returned, and the user,
the network, the shell and other conversations interrupt at any point. These
modules model that loop, from the response stream below it to the events of
other agents that reach it, and the relay that answers it in the default build.
Beside the loop, the terminal keeps the user's objects (notebooks, workflows,
settings) in memory, in SQLite and on a server, and a queue sends local edits to
the latter; one module models that queue and the states of the objects.

Paths below are relative to `src/app/src/ai/blocklist/` unless they start with
`app/` or `crates/` (which are relative to `src/`).

## 1. Inventory

| Component | Code | State | Operations | Status |
|---|---|---|---|---|
| Preprocessing queue | `action_model/preprocess.rs` | deque of batches, each pending or done | insert a batch, a batch completes | modelled |
| Action queue | `action_model.rs` | per conversation: pending queue, running phase, finished results, output order; past results | queue, approve, deny, cancel one or all, record a result, drain, clear | modelled, viewer paths excepted |
| Executor | `action_model/execute.rs` | running asynchronous actions | decide, execute, complete, cancel | control modelled; single tools are parameters |
| Controller | `controller.rs` | in-flight streams, parked resumes | query, follow-up, stop, resume, stream events, shell exit | partly |
| In-flight streams | `controller/pending_response_streams.rs` | map of streams | register, look up, clean up, cancel | modelled |
| Response stream | `controller/response_stream.rs` | request id, retry count, parked retry, flags | retry, defer, truncate, cancel | modelled |
| Team relay | `app/src/ai/team_relay/mod.rs`, `app/src/ai/agent/api/impl.rs` | messages of the request, accumulated text, tool-call slots | assemble a request, merge frames, finish a reply | partly: the chat, not the settings, models and agent management |
| History | `history_model.rs`, `app/src/ai/agent/conversation.rs` | exchanges, status, active conversation | many | status and active conversation only |
| Event dispatch | `crates/warpui_core/src/core/app.rs` | queue of effects | emit, flush | as the variable `effects` |
| Orchestration events | `orchestration_events.rs` | pending and unconfirmed events | enqueue, coalesce, cap, drain | partly: echo confirmation and requeueing left out |
| Agent event driver and streamer | `app/src/ai/agent_events/driver.rs`, `orchestration_event_streamer.rs` | cursor, connection, buffer | connect, reconnect, deduplicate, drain, persist, restore | partly: killed runs, dormant children and viewers left out |
| Waiting for events | `action_model/execute/wait_for_events.rs` | pending waits with watchdogs | start, end by event, query, stop or timeout | partly: as part of `AgentEvents` |
| Queued prompts | `queued_query.rs` | rows, locks, edit mode | append, fire, edit, lock | planned |
| Sync queue | `app/src/server/sync_queue.rs`, `app/src/server/cloud_objects/update_manager.rs` | items, dependencies, requests; objects in memory and in SQLite | create, edit, act, resync; dequeue, answer, retry, fail, cascade; conflict, refresh, restart | partly: contents, not folders, deletion and metadata |
| Undo-close stack | `app/src/undo_close/stack.rs` | closed items with timers | push, undo, expire | planned, last |
| Remote server manager, diff and buffer trackers | `crates/remote_server/src/manager.rs`, `app/src/remote_server/` | sessions, hosts, requests | connect, reconnect, request | not modelled; candidates |
| Shared sessions, SQLite persistence, MCP, views, editor, terminal emulation | | | | not modelled |

How they interact. The controller owns a stream per conversation and the
action queue; the queue owns the executor and a preprocessing queue per
conversation. Calls go downwards and are synchronous; events go upwards
(`FinishedAction` of the executor to the queue, `FinishedAction` of the queue
to the controller, the events of a stream to the controller) and are queued:
`ctx.emit` appends to the application's effects, which `flush_effects` empties,
one event at a time, once the outermost handler has returned. Events emitted
while an event is handled go to the end of the queue. A completed future, a
message of the network or a user's command is handled only when the queue is
empty.

What is hard. (1) A handler that emits and goes on: its subscriber sees the
state after the handler, not the state at the emission. (2) A cancellation that
is half synchronous (queued actions get their results at once) and half
deferred (running ones by an event). (3) Decisions that read state which other
turns change: permissions, the capabilities of the session, the active
conversation. (4) A stop that has to reach a conversation in each of the stages
a turn goes through. (5) Recovery by a parked resume that races everything
else. (6) Several conversations that share one executor and one terminal.
(7) Attempts of a request whose callbacks outlive them. (8) A log of events
that is replayed from a cursor which is read, written and persisted at
different moments. (9) A request that is reassembled, each time, from a history
that failures, interruptions and restores have left incomplete. (10) Edits of
an object that wait for one another and for other objects, under ids that
change while they wait, while their answers, failures and the server's own
messages about them come in any order. What
makes each component correct is listed with its module below; the hazards, at
their lines, are in `PROJECT.json`.

## 2. Modules

| Module | Role |
|---|---|
| `OrderedSeqs` | operators on sequences, without recursion so that they can be proved about |
| `OrderedSeqsProofs` | facts about them |
| `InOrderRelease` | what the preprocessing queue promises: batches complete in any order, actions come out in insertion order, each as soon as it can |
| `PreprocessQueue` | the queue as the code has it; implements `InOrderRelease` |
| `PreprocessQueueProofs` | that it does, step by step |
| `ActionModel` | action queue and executor, any number of conversations |
| `ActionModelProofs` | type correctness and exactness of phases, where each action is, in which order results are sent, that queues are served, that nothing runs without consent |
| `BlocklistController` | extends `ActionModel` with streams, turns, stops and resumes |
| `BlocklistControllerProofs` | extends it and `ActionModelProofs`: an action is in one place under the controller, too, failures are final, results reach the agent |
| `StreamContract` | what a response stream promises the controller |
| `ResponseStream` | a request, its attempts and its transport; implements `StreamContract` |
| `ResponseStreamProofs` | type correctness, the invariants and the refinement of `ResponseStream` |
| `RelayMessages` | the pure part of the relay: from a history to the messages of a request, and from a frame to the text |
| `TeamRelay` | extends it with requests, replies frame by frame, failures and restores |
| `AgentEvents` | the events of other agents from the server's log to a request |
| `AgentEventsProofs` | types, that the cursor skips nothing, that events are kept |
| `SyncQueue` | cloud objects: the queue of their edits, their state in memory and in SQLite, an external server |
| `SyncQueueProofs` | types, that what an item waits for is pending |
| `SyncOrderProofs` | extends it: the edits of an object are sent in order, its status counts them, what has not reached the server is kept |
| `MCPreprocessQueue`, `MCActionModel`, `MCBlocklistController`, `MCTeamRelay`, `MCAgentEvents`, `MCSyncQueue` | instances for TLC |

### PreprocessQueue

`batches` is the `VecDeque`, `queued` collects what
`handle_preprocess_actions_result` returns. The code drains the batches before
the current one, adds the current one, then pops completed ones until it meets
a pending one; `Release` takes the same prefix. The refinement `ReleasesInOrder`
maps the batches to the flat list of tagged actions of `InOrderRelease`.
`ActionModel` uses that flat form (`preprocessing`), so that the queue is
checked once by itself and not again in every larger state space.

### ActionModel

One step is one handler on the main thread. The handlers of `action_model.rs`
call one another and all work on one conversation, so a handler is written as a
function on the *view* of that conversation (queue, running phase, results,
status, actions started, events emitted) and `Commit` makes the view the next
state. `HandleResult` is `handle_action_result`, `TryExecuteAvailable` is
`try_to_execute_available_actions`, `CancelEach` the loops over
`cancel_pending_action`. The loop that starts actions is not written as a loop:
it starts the longest prefix of the queue whose members could all be started
(`Startable`), which is what the loop does because the phase of the i-th action
depends only on those before it.

| Variable | Code |
|---|---|
| `preprocessing` | `pending_preprocessed_actions` |
| `pending`, `running`, `finished`, `order`, `past` | `pending_actions`, `running_actions`, `finished_action_results`, `action_order`, keys of `past_action_results` |
| `executing` | `async_executing_actions`: keyed by the identifier alone, as in the code |
| `futures` | the spawned executions; cancelling an action does not remove its future |
| `effects` | the application's queue, restricted to the events that matter here |
| `status` | the status the history model keeps for the conversation |
| `settings` | what the executors would answer now; `ChangeSettings` changes it at any time |
| `received`, `approved` | history, read by properties and to keep identifiers unique within a conversation |

Data is abstracted to what control depends on. A cancellation reason is its
`conversation_outcome` (`Cancelled`, `KeepInProgress`, `Succeeded`,
`FinalizedExternally`). A result is completed, cancelled or the snapshot of a
long-running command. A setting says of each action whether it may run without
consent, may run in parallel, executes synchronously, and is ready. The order
in which a cancelled conversation's running actions are listed is that of a
hash map, so any.

### BlocklistController

`stream[c]` is the conversation's stream: open, waiting for the network, or
finished and awaiting its last callback (`AfterStreamFinished`), which is when
actions are queued and the stream leaves `in_flight_response_streams`. A
cancelled stream leaves at once, and its `AfterStreamFinished` becomes an
effect. `active` is the conversation the history model considers active on this
terminal surface, `selected` the one the user's queries go to: they differ when
a turn in the background sends a follow-up or a resume.

`SendQuery` is one step because `send_query` is one handler: it interrupts the
active conversation, cancels the actions of its own, drains the results and
opens a stream or is refused. `DeliverFinishedAction` is the controller's
subscription to the queue, with the condition for a follow-up and the status
that ends a turn without one. In `ActionModel` alone the controller is
any client that drains or stamps a status when told of a finished action
(`DeliverFinished`, `CancelAndDrain`); `BlocklistController` replaces these by
the real ones, so that what is proved of `ActionModel` does not depend on the
controller's choices.

The stream of a conversation makes the steps of `StreamContract`, which
`ResponseStream` is shown to implement: open, waiting for the network and open
again, answered or failed once, ended once, or cancelled at any time.

### ResponseStream

| Variable | Code |
|---|---|
| `retryCount`, `current` | `retry_count`, `current_request_id`; attempts are numbered by the count with which they start |
| `cancellable` | `cancellation_tx` is `Some` |
| `acted`, `finished`, `errored`, `parked` | `has_received_client_actions`, `stream_finished_received`, `error_event_emitted`, `deferred_retry_pending` |
| `resumes`, `resumable` | `should_resume_conversation_after_stream_finished`, `can_attempt_resume_on_error` |
| `online`, `outages` | `NetworkStatus`, and a count that bounds the outages |
| `transport[r]` | where attempt `r` is: refreshing credentials, sending, streaming, ending |
| `waiting` | the futures of `wait_until_online`, with the attempt and the retry count they captured |
| `seen`, `outcomes`, `applied` | what the controller was told: history, read by the properties and by the contract |

A callback of an attempt that is not current is dropped, but it is a step: the
attempt's transport goes on. The three places that decide what an error means
(an error in the stream, an error of the request, the end of a stream that
neither answered nor failed) call `recovery_action`, here `Recovery`.
`WellFormed` states what the default transport, the relay, guarantees:
`StreamFinished` or an error is the last item of its stream.

### RelayMessages and TeamRelay

The messages of a conversation's task (`history`) become those of a request as
in `extract_history_messages`, the loop that appends the inputs, and
`sanitize_messages` (which drops or pairs the results whose calls are lost).
Texts are sequences of tokens, of which some are commands and repetition is
three equal tokens (`RepeatLimit`) for the thresholds of the code. `TextFrame`,
`CallFrame`, `ArgumentsFrame` and `CallsFrame` are the frames the relay may send: deltas
or snapshots of the text, calls by index in any order or all at once.
`ReplyEnds` is what follows the loop over the frames: the calls whose server is
known, else the commands in the text no message mentioned before, else a notice.
`FollowUp`, `Interrupt` and `Resume` are what the client does with the calls,
as `BlocklistController` has it, in one step. The relay itself is external.

### AgentEvents

| Variable | Code |
|---|---|
| `log` | the server's events for the conversation, external |
| `consumer`, `parent` | `consumers` and watched children: what makes the conversation eligible |
| `fetches` | `get_ambient_agent_task` requests under way, with the cursor they started from |
| `connection`, `buffer` | `sse_connection` (driver's cursor, position of the open stream) and the channel of its events |
| `cursor`, `saved` | `event_cursor`, `last_event_sequence` in SQLite |
| `pending` | `pending_events` |
| `status`, `stream`, `wait` | the conversation's status, its response stream, its `wait_for_events` |
| `given`, `enqueued`, `repeated`, `capped`, `setBacks`, `started` | history, read by the properties |

The driver runs in the background and forwards events to the buffer; the drain
timer moves them into the queue, advances the cursor and persists it; a
conversation that is ready sends what is queued at once, and one that is busy
does so when its stream has ended. `Restart` loses everything but `saved`, or
everything, when the conversation is restored from the cloud.

### SyncQueue

Paths of this part are relative to `app/src/`.

| Variable | Code |
|---|---|
| `sync.queue` | `queue` with `queue_dependencies` (`deps` of an item); `in_flight_bulk_create_objects` is the `objs` of a bulk item |
| `sync.sent` | the spawned requests, by which `waiting_response` is filled and emptied; each with the server's answer, if it has one |
| `sync.mapped` | the keys of `client_id_to_server` |
| `sync.running` | `should_dequeue` |
| `sync.events` | the events emitted and not yet handled by `UpdateManager` |
| `model` | `CloudModel`: id, revision, content, `content_sync_status`, `conflict_status`, drive |
| `saved` | the rows of SQLite, `is_pending` among them |
| `actions` | pending `ObjectActions` |
| `server` | revision and content of the server's object, external |
| `disturbed` | history: objects that someone else edited, whose answer was lost, or that were pending at a restart |

The queue is a record `v`, and its functions map records to records: `Enqueue`
is `enqueue`, `Inferred` `add_inferred_dependencies`, `Dequeue` `dequeue`, which
sends at most one item and skips those that cannot be sent, `Fail`
`handle_dependency_failure` with its cascade, `Release`
`handle_dependency_success`. An answer is one step of the queue (`Receive`,
`RequestFailed`) and emits events; `Deliver` hands them to `UpdateManager`
before any other handler runs. Contents are the numbers of the edits that made
them. What the server does is external and taken from how its answers are
used: an update is rejected if its revision is not the current one, a creation
may be denied, a key may be taken, an answer may be lost and its request sent
again up to `MaxRetries` times.

A revision in the code is a timestamp of the server; here it counts the writes.
Dependents of a failed item fail in the order of the queue, in the code
recursively; the events of different items commute. `MayDangle` and `Impatient`
admit what section 4 describes: a workflow whose enum has
neither an id nor a creation under way (or whose creation the server denies),
which the run `sync_dangling` has, and an action on an object that has no id yet. `MaxItems` says which objects may
exist together and how many items are then enqueued. At a restart the pending objects of SQLite are
queued again, the enums first; no item can fail then, since an enum without a server id is
itself pending in SQLite. The user does not edit a notebook that shows its conflict
(`notebooks/active_notebook_data.rs:310`).

`SettledIsSynced` is what the queue is for: when an object has nothing
outstanding and shows no error, memory, SQLite and the server agree.
`StatusIsTrue` says that the count shown to the user is that of outstanding
requests. `UpdatesInOrder` excepts objects created in a team: one whose creation
is denied is created again in the personal drive, behind edits that
were already queued. `EditsSurviveRestart` says what a crash at any point between two
handlers leaves in SQLite; SQLite is written by a thread in the order of the
events it is sent, so a crash loses a suffix of them, which the model takes to be empty.

## 3. Runs

The runs of the action queue, the controller, the stream and the relay disable
the deadlock check: an agent that is not asked anything, whose actions are all
settled, is idle, and a finite supply of identifiers, queries or attempts makes
that state final.

| Run | Instance | Shows |
|---|---|---|
| `preprocess_queue` | 4 batches, 5 actions | every action is released; refinement: none is released twice, too early, or out of order |
| `action_mixed` | 1 conversation, 2 outputs, parallel, synchronous and confirmed actions, an autonomous agent, two settings | an action is in one place; phases are exact; results are in tool-call order when nothing runs; nothing runs without consent |
| `turns` | 1 conversation, 2 queries, outputs of 4 actions (two parallel ones, two commands) and of 1, stops, failures, resumes, exits of the shell | results reach the agent; rest is terminal; a failure is final; an answer is shown as in progress; a queue that may be served is served; every request ends its turn or asks the user |
| `stop_stage` | 1 conversation, a user who acts at any time | a difference, section 4 |
| `partial_follow_up` | 1 conversation, an output of a command and an action that has its result at once | a difference, section 4 |
| `response_stream` | 3 retries, 3 outages | only one attempt acts; a stream ends settled; who waits for the network is parked; the contract; every request settles |
| `team_relay` | 3 requests, 6 replies, 3 restored histories | results are paired with their calls and sent once; a request asks something; text and calls are the relay's, however they are framed |
| `agent_events` | 5 logs of 2 events with messages, statuses and critical events of 2 senders, a queue limit of 1, 1 set-back of the cursor, with fairness | no event disappears; the cursor skips none; what is queued is sent; a wait ends |
| `events_replayed` | 1 event of any type | a difference, section 4 |
| `sync` | a workflow and its enum, a team's notebook, a fact (3 items each), or 2 preferences (2 items); 1 edit of others, 1 lost answer, 1 restart, with fairness | edits are in order and of the right revision; the status is true; nothing waits for what has left; a crash loses no edit; what is settled is synced, and an echo leaves no conflict; the queue empties while it runs |
| `sync_dangling` | a workflow and its enum, whose creation may be denied | a difference, section 4 |
| `sync_lost_edit` | a workflow and its enum, 4 items | a difference, section 4 |

Bounds. Two parallel actions and one serial one are the least with which a
phase can drain in more than one order and then start something; two
outputs let a batch arrive while another is under way. Two commands are needed
to cancel one for the sake of another. The runs have one conversation: state is kept per conversation,
except for `executing`, `effects` and `active`, over which several collide, and what
they do then is in section 4 and, for any number of them, in the theorems of section 5.
`MaxQueries` (2) bounds the queries of a conversation: one is under way
when the next arrives. Each identifier is received once per conversation, as
the agent's are. `MaxRetries` has its real value; an outage can hit each attempt but the last.
Three requests of the relay are a question, the follow-up of its calls, and one
more that finds both in the history; the replies have a text that repeats
itself, one that begins twice, an unknown call, several calls and commands. Two
events with a limit of one reach the cap and let the second supersede the first; the logs
(`PairLogs`) are a message and a status of one sender, two statuses of one and of two senders, a status
and a critical event, and a critical event and a message.
Three items of the sync queue are the creations of an enum and of a workflow and an
edit of either, or a creation and two edits of one object; an edit of another user makes one of them
stale, and a restart can come at any point. The groups of `sync` do not depend
on one another, so they do not meet in a run. Of preferences two items, a bulk creation and an edit that waits for
its part of it, are enough. The edit that `sync_lost_edit` loses is a fourth item. A workflow refers to one enum
(`ReferencesAssumption`). `MaxRetries` is 0 or 1 there, and 3 in the
code: a second repetition meets the server in the same states.
No symmetry is used: actions, events, replies and objects differ in their roles.

`UserIsSlow`. With the value TRUE the user and the shell do nothing in a
conversation while its actions are being preprocessed or while a finished
stream waits for its last callback. These two windows are short but real, and in
them the code does not do what it says: the run `stop_stage` leaves them open and finds the
stop that is not final. The run `turns` closes them with this assumption, and shows what holds
outside them. For the same reason it has no
synchronous action behind another in an output, which is what `partial_follow_up` has.

`ResultsReachTheAgent` excepts a conversation in error: after the exit of the shell the controller
means to send nothing (`FinalizedExternally`).

`RestIsTerminal` is checked with the reasons whose outcome is `Cancelled` only.
A revert (outcome `Succeeded`) that aborts a parked resume leaves the
conversation reconnecting, since `cancel_conversation_progress` repairs the
status for `Cancelled` alone.

Fairness of the actions and the controller. The main loop flushes the effects and polls futures, so deliveries
happen and futures complete. `Fairness` states the first as "the queue is empty
infinitely often, or it changes while not empty infinitely often": nothing but a
delivery is enabled while it is not empty, so this is weak fairness of delivery,
in a form that TLC checks cheaply. A stream is answered or fails under strong
fairness, because losing the network disables both in between;
a request is retried at most three times, so it waits finitely often, and the
network is assumed to return. A parked resume is weakly fair under the same
assumption. Nothing is assumed of the user: an action that waits for consent may
wait for ever, hence the alternative in `TurnEnds`.

Fairness of the response stream. Each attempt goes on (refreshing credentials
has timeouts of 5 and 10 seconds, a request to the relay one of 180), the
network returns, and a parked retry whose wait is over fires: all weak.

Fairness of the agent events. Weak for the timer and the callback of a wait
(`WatchdogFires`, `WaitCompletes`). Strong for what something else
can disable again and again: response streams end, and what follows them runs, although the user
may replace them. Without it a user who asks faster than the agent answers keeps the events queued for ever.
Nothing is assumed of connections: the properties are about events that have been drained, and
about waits, which their watchdog ends.

Fairness of the sync queue. All weak: events are delivered, the poll recurs (every
successful one starts the dequeueing), and requests go on, because their retries are
bounded (`DEFAULT_RETRY_OPTION`) and a dead connection is noticed
(`http2_keep_alive_timeout`). `QueueEmpties` excepts a queue that is offline. After a
persistent error the queue stands still until the next poll or edit.

## 4. Where the code differs from what it says

These are runs that check one property and find it violated.

- `stop_stage` (`StopIsFinal`). A stream fails with an error that may be resumed; before its last callback
  the user stops the conversation. There is no parked resume to abort yet, the stream is
  cancelled, and its `AfterStreamFinished` schedules the resume all the same (`controller.rs:3148-3153`),
  against the comment at `controller.rs:2669`. The same window lets a stop miss actions: a stop while a complete
  output awaits its last callback, or while its actions are preprocessed, cancels what is queued, which is nothing,
  and the actions run afterwards, against `controller.rs:2650-2652` (remove `StreamFails` from the instance, and
  TLC finds that trace).
- `partial_follow_up` (`FollowUpIsComplete`). A command has completed, and an action that has its result at once
  is next. `handle_action_result` announces the end of the command, then starts the other action, whose result is
  an event behind that announcement and which is neither queued nor running any more. The controller finds nothing
  unfinished and sends the follow-up without the second result, which then starts a follow-up of its own or is kept for
  the next output. The comment at `action_model.rs:1330-1333` says that it completes before any response is sent.
- `sync_dangling` (`WorkflowsNameServerIds`). The server denies the creation of an enum; what waits for it is released as
  if it had succeeded (`sync_queue.rs:1600`), and the workflow is sent with the enum's client id, which the comment at
  `sync_queue.rs:477-478` excludes. The same happens when the creation has failed before the
  workflow is queued: the item is announced as failed and queued all the same.
- `events_replayed` (`NothingIsReplayed`). The cursor a fetch starts from is read
  before the request and written after it; a late answer sets the cursor of a
  connection back behind events that were drained in the meantime, and they are
  delivered again. The trace has the fetch of `spawn_task_harness_fetch_if_needed`
  (`orchestration_event_streamer.rs:1699-1722`); the two others go through `apply_task_children`, whose
  comment promises that nothing is replayed, and do the same.
- `sync_lost_edit` (`SettledIsSynced`). A workflow has one edit in flight and a second one
  in the queue, which waits for the first and for an update of its enum.
  The enum's update fails and takes the second edit along (`sync_queue.rs:1840`); then the first one
  succeeds, the count of requests is 0, and the workflow is marked as synced
  in memory and SQLite, although the content shown was never sent.

These are steps of the modules that a reader can reproduce by changing the
instance; they are not runs of their own, and the properties named here that no run
checks are kept in the modules as statements of what comments say.

- With two conversations that receive the same two parallel actions in `ActionModel`, a phase never drains:
  `async_executing_actions` is keyed by the identifier of an action alone (`action_model/execute.rs:794`), although a
  comment at `action_model.rs:998-1000` notes that some providers make identifiers unique only within
  a conversation. The entry of the second replaces that of the first, whose result is dropped. All runs and theorems
  about places therefore take identifiers to be distinct over conversations (`DistinctIdentifiers`).
- With `UserIsSlow = FALSE`, if the shell exits between the completion of an output and the end
  of its stream, the exchange cannot be marked failed any more and the status is not set
  either (`ShellExits`).
- With two conversations, `AnswerIsInProgress` fails: a background turn makes its
  conversation the active one; the next query to the selected conversation is
  then treated as one that leaves it, and the late result of an action it
  superseded marks the answer in progress as cancelled. If the selected conversation is
  streaming, its stream is not cancelled and the query is refused after its
  results were drained (`SendQuery`, `refused`).
- With `WellFormed = FALSE`, as the transport of the server allows (errors in the middle
  of a stream, `crates/warp_multi_agent_client/src/lib.rs:71`), items after an error reach the stream:
  `ActionsOfOneAttempt`, `EndIsSettled` and `WaitingIsParked` fail, contrary to
  `controller/response_stream.rs:97`.
- In the instance of `turns`, `ResultsAreOfLatestOutput` fails: the cancelled results of running
  actions arrive after the query that cancelled them drained the results, and are
  sent with those of the next output.
- In the instance of `team_relay`, `HistoryIsRestored` fails: a request has the messages of the
  conversation's task, to which this transport adds the agent's outputs and tool
  calls only, never the user's queries, so that later requests have the answers without
  the questions. A comment at `mod.rs:567` says that the user's history is restored, too.
- With `Impatient` and a notebook, `ActionsAreReported` fails: an action on an object that is being
  created waits for nothing and is skipped without an event; a comment at
  `update_manager.rs:416` says that pending actions are sent once there is an id.
- With a notebook and an edit of another user, `ConflictsStayPending` fails. A notebook in conflict is to stay
  pending in SQLite (`update_manager.rs:1733`), but the next message of the server about it saves what
  memory says, which is not pending.
- With a fact and an edit of another user, `InFlightIsQueued` fails: the rejection of an AI fact is
  ignored, and the fact counts a request that has ended as in flight until the program
  restarts. A TODO in the code knows of it.

Read in the code and built into the modules, or left out of them, but not expressible as a
violated property:

- Relay. While results are pending, a new query of the user is dropped (the input is
  only results, `mod.rs:711`). `ResumeConversation` is refused before anything is sent
  (`api/impl.rs:166`), so an automatic resume fails in the default build (`Resume`). HTTP errors
  4xx of the relay become recoverable ones and are retried. Repeated snapshots of
  a call append its arguments twice, and a delta of a text that begins twice can be taken for a
  snapshot and loses a piece (`AnswerIsWhole` names the exception).
- Events. `requeue_awaiting_events` runs only if a request is refused before it is sent, which its
  callers exclude: the events of a request whose stream fails are not retried, and a crash
  between the drain and the request loses them, since the cursor is persisted first. At the limit the
  queue can drop the latest status of a child. A replayed old status after a
  set-back removes the newer one from the queue, and the cursor then passes the newer one
  (`EventsAreKept` names the exception). A message whose body cannot be fetched is
  dropped while the cursor advances. `OrchestrationUnifiedStack` is off by default, so the path modelled is
  `drain_sse_events`.
- Cloud objects. SQLite gets a new revision only once all requests of an object have ended; after
  a restart between two edits the second is sent with the old revision, is rejected, and if
  it is a workflow's, is overwritten by the server's content. The properties that this
  would break except objects in `disturbed`.

## 5. Proofs

All of them are for every value of the constants that meets the assumptions of
the module; hypotheses beyond these are named with the theorem.

### The sequences

`OrderedSeqsProofs` proves what the sequence operators return: the longest
prefix, filtering, removal, the stable sort (`StableSortPositions`: a
permutation of the positions, by key and then by position).

### The preprocessing queue

`PreprocessQueueProofs` proves `QueueKeepsItsPromise`, for any batches: with the held batches written as one list of actions, `PreprocessQueue`
starts where `InOrderRelease` does, and each of its steps is one of the promise's. With the fairness of `Spec`, which TLC checks, this is `ReleasesInOrder`.
The invariant `QueueInv` has what the refinement mapping cannot see: a batch is named by its first action, no action is in two batches, and the
first batch is never a completed one, since it would have been released. `ReleasePrefix` says that the entries the promise releases are the
actions of the completed batches in front; a batch that is completed behind a pending one is then the case in which there are none.
`FlattenSeq` is a recursive function of the library; `FlattenSteps` and `FlattenConcat` say what it returns, by an induction on sequences that is
stated for a set (`AppendInduction`), for the reason given below.

### The action queue

Each operator on views (`TryExecuteAvailable`, `RecordResult`, ...) is a handler or a
part of one, so each invariant is carried by one lemma per operator, in the
order of the definitions, which says that it maps a set of views to itself; then one lemma
per action, from the view it commits; then one step that splits on `Next`.

- `TypeCorrect`: `TypeOK`.
- `PhaseCorrect`: `PhaseIsExact`. The set of views is `ExactView`. The step that
  needs an argument is `TryExecuteAvailable`: in a prefix all of whose members
  are startable, a serial action can only be the first and the last
  asynchronous one (`StartedSerialIsAlone`).
- `ResultsOrdered`: `ResultsInToolCallOrder`. The invariant is false without
  knowing that a new output's actions have no result yet: it orders the results
  by its own positions and would put an older one among them.
  `KnownInv` (whatever is queued, running, finished or on its way was received) gives it.
- `QueuesServed`: `QueueIsServed`, for settings that do not change. With settings that
  do, an action that waits for the user stays in front until the next
  event even if it may now run; `try_to_execute_available_actions` is not called when they change.
- `PlacesCorrect`: `ActionsAreInOnePlace`, under
  `DistinctIdentifiers`: no identifier is in the outputs of two conversations. It is needed (section 4).
  The inductive invariant `SinglesInv` separates seven sets per conversation (`Apart`):
  preprocessing, queued, in the phase, executing, on the way from the executor, finished, drained; the phase
  is the disjoint union of the executing and those on the way. `IdentifiersInv` says whose they are. `Framed` views
  say where an operator takes actions from, `Placed` views that it puts each in one place.
- `RunsWithConsent`: `NothingRunsWithoutConsent`, under the same condition, with settings
  that change at any time. `ConsentedView(ok)` are the views that started or answered only what the
  permissions allow or what is in `ok`, the actions the user approved so far. An answer is found in `effects`, so
  the argument needs that what waits in a queue is not being answered at the same time (`WaitingRests`),
  which is part of `SinglesInv`.

`CancelEach` is a recursive function. No library theorem applies to it here, so
`IterationExists` constructs the function it must equal, by induction on its
length with `SetInduction` (stated over sets, since an operator parameter cannot
be instantiated), and `CancelEachStaysIn` concludes that it stays in any set of
views that is closed under the recording of a cancelled result.

### The controller

`BlocklistControllerProofs` states everything for `ControllerSpec` under `TurnAssumptions`: `DistinctIdentifiers`,
`UserIsSlow` (section 3; the theorems say what is true outside the windows that `stop_stage` leaves open) and `ReasonsComplete` (the two reasons a query gives are
among the reasons of stops, as in `CancellationReason`). The lemmas on views of the action queue are stated
for any set of events that contains the queue's own (`Extends`), so they hold here unchanged.

- `ControllerPlacesCorrect`: an action is in one place under the controller, too.
- `ErrorsAreFinal`: a conversation that has failed stays so until another request.

The inductive invariant `TurnState` has `PlacedState` (the places above), the types, and for each
conversation `TurnIn`. A stopped conversation is `Asleep`: nothing is preprocessed, queued or executing,
so that only events that are on their way can still arrive, and none of them starts anything (`Ceased` views). A
conversation in error is `Asleep`, too, or is streaming or about to resume. Actions are preprocessed only while the conversation
is `Fresh`, as those of one batch: this is what lets a stop cancel every one of them by cancelling the queue.
A step either leaves a conversation alone (`LeavesAlone`), works on its actions (`WorksOn`), settles
it, or ends its turn (`CeasesIn`); one lemma for each of these shows `TurnIn` again, and
each handler is shown to be one of them for its own conversation and to spare the others (`Spares`).

Two more theorems have a hypothesis on the constants, as their statements are false in general:

- `AnswersAreInProgress`: `AnswerIsInProgress`, if there is one conversation (`OneConversation`; section 4 says what two do).
- `ResultsReach`: `ResultsReachTheAgent`, if actions wait for the user and an action whose result may be had at once is
  alone in its output (`ResultsAlone`), and if actions are cancelled by stops and queries only
  (`StopsOrQueries`, which with `ReasonsComplete` leaves the reasons `Cancelled` and `KeepInProgress`). With the other two outcomes the
  code means to send nothing: `FinalizedExternally` ends the turn as a failure, `Succeeded` is itself the outcome.

They rest on `SourcesInv`: a result that awaits delivery is that of an action that is executing in the phase, or it was
had at once. `AnswerState` adds that nothing announced ends an answer that streams, as only a cancellation or the end of another stream
could, and that the end of a stream is announced alone. `FollowState` adds that what has no result yet is of one output (`OneOutput`), and
that a result which was had at once is never announced next to the end of another action (`Alone`). Steps are of four forms here:
one handles no action (`Calms`), a handler of one conversation begins while nothing is announced (`Handles`), the end of a stream
is handled (`StreamEnds`), or the first result is delivered (`Delivers`).

`ReachState` adds to `FollowState` two things about each conversation (`ReachIn`). While the agent is asked or about to be (`Asked`),
the results kept and those still to come are of cancelled actions (`Void`): they are the late results of what a query superseded, so that none is
left when the answer ends the turn. And results of which one is not cancelled are `Pursued`: an action of the conversation has no result
yet, or the end of one is still to be announced to the controller, which then looks at all of them again. So every handler that records a
result, or cancels one, has to leave an action queued or running or an event in its view (`PursuedView`, lemma by lemma along the
operators); the controller's handler of the last such event cannot drop the results, as nothing is unfinished and the reason is that
of a stop or a query. Steps that do nothing to a conversation's actions are `Bypasses`. TLC checked `ReachIn` on instances with
one and two conversations and both reasons first.

### The response stream

`ResponseStreamProofs` proves, for every number of retries and of outages:

- `StreamTypeCorrect`: `Spec => []StreamTypeOK`. Its invariant `TypeInv` adds
  `WaitersHaveBudget`: whoever waits for the network was parked with a retry left
  and, as long as its attempt is current, it still is. Without it the attempt that
  a late waiter starts could have a number beyond `MaxRetries`.
- `ActsOnce`, `EndsSettled`, `WaitsForRetry`: `ActionsOfOneAttempt`,
  `EndIsSettled` and `WaitingIsParked` always hold; `StreamImplementsContract`: `Spec` implies
  `Contract!Spec`. These four assume `WellFormed`. Their invariant `StreamInv`
  adds to `TypeInv` that only the attempts up to the current one acted, and
  that the stream is gone or its current attempt is in one of four
  stages (`Undecided`, `Parked`, `Decided`, `Closed`), each of which relates the flags of the
  stream to the place of its transport and to what the controller was told. One lemma per
  action shows that the stage is kept or left for the next one and that the step
  is one of the contract's or a stutter.

### The events of other agents

`AgentEventsProofs` proves, for every log, limit of the queue and number of set-backs:

- `EventsTypeCorrect`: among the types, that a buffer is in the order of the log and ends
  at the driver's cursor.
- `CursorCorrect`: `CursorSkipsNothing`. The invariant `CursorInv` says of every
  cursor there is (the current, the persisted, those that fetches under way started from) that
  no event of the life cycle before it is left out (`Covered`), and that what lies between it and
  an open connection's position is in that connection's buffer.
- `EventsKept`: `EventsAreKept`. `KeptInv` adds that what is pending was drained, and that a cursor that was
  never set back has passed all that was drained.

Most actions are one of two kinds of step, and the lemmas are about these: `StreamerStep` (at most a drain, and what it
does to cursors and connections) and `TurnStep` (what the agent's turns do to the pending events).

### The queue of the cloud objects

`SyncQueueProofs` proves, for any objects, references and bounds, with `MayDangle` and `Impatient` either way:

- `SyncTypeCorrect`: `TypeOK`.
- `DependenciesPending`: `DependenciesArePending`.

`QueueOK(v, N)` says what each function of the queue needs of a record `v`: items have numbers below `N`, all
different; an update names one object, a bulk creation those it waits for; the answer of a request fits its operation.
A handler is a composition of these functions, so what an item waits for is followed through them.
`Evolves(v, w, D)` relates the queue before and after one: items leave only together with all that depends on them, or
into the requests, no item gets a new dependency, and what is gained is among `D`. `Frees(v, w, D, K, N)` adds that nothing
in `w` waits for a key of `K`. A request is removed first, and until the handler has released its keys they are
the only ones that may be waited for and not be pending (`DependenciesOK(v, D)`). `Fail` needs
that the cascade is complete: `DependentsOf` is a smallest closed set, and what is left depends on none of it.
An answered creation is a recursive function over the objects of the request; `CreatedEachSteps` constructs it
with `SetInduction`, and `CreationTaken` frees the keys one object at a time.

`SyncOrderProofs` follows one object that is not created in a team through the same functions. Its theorems assume `~MayDangle`:

- `UpdatesOrdered`: `UpdatesInOrder`.
- `StatusesTrue`: `StatusIsTrue`, if no workflow, enum or preference is created in a team.
- `EditsSurvive`: `EditsSurviveRestart`, if nothing is created in a team.

The inductive invariant `OrderInv` says of each such object and its row (`ObjectOK`):

- Each of its edits waits for all the earlier ones (`Chained`). An edit waits for the edits that name the object by the same id, so this needs
  `Named`: as long as the event of its creation has not been handled, all items, old and new, use the client id.
- The events tell of each request once, of none that is still outstanding, and of a conflict of keys last (`TellsOnce`).
- The status is the number of `Live` edits: those outstanding and those whose end is announced and not yet handled (`Counted`; a rejection
  stops the count for notebooks and facts, hence `IsCounted`). `StatusIsTrue` is about the moments at which nothing is announced.

`Carries(v, w, o, id, owed, left)` says that a function of the queue keeps the first two and moves edits from
outstanding to announced, nothing else; `owed` are the numbers of a request that has been removed and whose event the handler
has yet to emit. The functions are shown to do so one by one, an answer is their composition, and each
action then changes the status by what it adds (`EnqueueOrder`) or by the one event it takes (`DeliverOrder`).
TLC checked `OrderInv` on six instances first. With `MayDangle` it is false: an item whose dependency has failed is announced as failed
and queued all the same, and so announced twice. For team objects it is false, too: a creation that the server denies is made again behind
the edits that wait, which it does not wait for.

`EditsSurviveRestart` could fail in one way: an object is Errored, and an answer to another edit of it clears the mark in
SQLite. As long as the status counts the edits, an Errored object has none. But the rejection of a notebook or a fact sets the count aside,
and later edits and their answers go on. `PersistInv` therefore says of these (`Lasting`) that their edits wait for nothing
but each other (`Own`), so that a failure takes all that are left with it: no other edit is told as successful after one is told
as failed (`Verdict`), and once the object is Errored nothing is left but failures to tell. This needs that such an edit cannot be refused as unsendable
(`Alive`, from `Named`), and that the failure of a request spares the edits of other objects (`FailAllSpares`). After a restart each pending object has one item, which waits for no other.
`KeptStep` is what the user's actions do to the rows, `HandledKept` what an event does.

### What is only model-checked

- `RestIsTerminal`: it holds with the reasons whose outcome is `Cancelled` only (section 3), and the proofs about the
  controller assume `ReasonsComplete`, the user's reasons being those of the queries, too.
- `TeamRelay`: what its requests contain is computed by folds over the history.
- `SyncQueue`: that own updates are accepted, and what is settled; of an object created in a team (the run `sync` has
  a notebook), what survives a restart.
- Liveness under fairness and `ENABLED`, which are out of the prover's reach.

## 6. Not modelled

In the modelled components: shared-session viewers (`mark_action_as_remotely_executing`,
`apply_finished_action_result`, view-only guards), results restored from a
transcript, the status that `WaitForEvents` sets for itself, passive
suggestions and code diffs with their manual follow-ups, slash commands,
configuration updates that ride on requests, the locks
of queued prompts, an error after a complete output, and conversations that are
deleted or split while they stream. What a single tool does is a parameter. Exchanges
are reduced to the status of their conversation. Of cloud objects: folders and what is in
them, trash and deletion, changes of metadata and permissions, operations that wait for the server
(`*_online`), reverts, logout, default profiles and MCP servers whose keys conflict, and polls whose answer is
older than what the client knows. Whether the server recognizes a creation that is sent
again is not in the repository; the model lets it write the same object.

Other components: see the inventory. Terminal emulation, editor and text
structures are sequential code that the repository tests by example;
persistence and the MCP and session-sharing protocols are I/O whose other side
is not in the repository.

## 7. Plan

Done: `PreprocessQueue`, `ActionModel`, `BlocklistController`, `ResponseStream`,
`TeamRelay`, `AgentEvents`, `SyncQueue`; the proofs of section 5. Next:

1. Viewer sessions in `ActionModel`: results and execution notices that arrive
   from a sharer before, during or after preprocessing.
2. `QueuedQueries` with the controller: a prompt fires once, in order, not while locked.
3. `UndoCloseStack`.
4. Proofs: of `SyncQueue`, `OwnUpdatesAreAccepted`, and `EditsSurviveRestart` and
   `StatusIsTrue` for team objects; `NothingRunsWithoutConsent` under the controller.

## 8. Running

`tlc -config MCActionModelMixed.cfg MCActionModel` checks one run; `PROJECT.json`
lists them all, with the mutants that show that each property can fail.
`tlapm M.tla` for each `M` whose name ends in `Proofs` checks the
proofs. Definitions whose comment begins with "Mutant" are used by nothing but
the mutant runs.
