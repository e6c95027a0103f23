---------------------------- MODULE ActionModel ----------------------------
(***************************************************************************)
(* The queue of agent actions (tool calls) of a terminal view, and the     *)
(* executor that runs them: BlocklistAIActionModel in                      *)
(* app/src/ai/blocklist/action_model.rs with BlocklistAIActionExecutor in  *)
(* action_model/execute.rs, in the session that owns the conversation (not *)
(* in a shared-session viewer).                                            *)
(*                                                                         *)
(* Everything runs on the main thread: a handler is one atomic step.       *)
(* ctx.emit appends to the one queue of effects of the application, which  *)
(* is flushed event by event after the outermost handler returns; user     *)
(* operations and completed futures are handled only when it is empty.     *)
(***************************************************************************)
EXTENDS OrderedSeqs

CONSTANTS
    Conversations,  \* identifiers of conversations
    ActionIds,      \* tool call identifiers
    NoConv,         \* not a conversation
    Outputs,        \* Outputs[c]: the lists of actions an agent output for c may hold
    Commands,       \* the actions that are RequestCommandOutput
    Reasons,        \* the outcomes of the reasons for which callers cancel
    Settings,       \* the combinations of executor answers that can occur, see below
    Autonomous      \* AppExecutionMode::is_autonomous

(***************************************************************************)
(* A member of Settings gives the executors' answers about every action:   *)
(*   auto      should_autoexecute: it may run without the user's consent   *)
(*   parallel  action_phase is Parallel(ReadOnlyLocalContext)              *)
(*   sync      execute returns Sync, so its result is known at once        *)
(*   ready     execute does not return NotReady                            *)
(***************************************************************************)
Setting == [auto : SUBSET ActionIds, parallel : SUBSET ActionIds,
            sync : SUBSET ActionIds, ready : SUBSET ActionIds]

ASSUME ActionIdsAssumption == IsFiniteSet(ActionIds)
ASSUME NoConvAssumption == NoConv \notin Conversations
ASSUME SettingsAssumption == Settings \subseteq Setting
ASSUME CommandsAssumption == Commands \subseteq ActionIds /\ Autonomous \in BOOLEAN
ASSUME ReasonsAssumption ==
    Reasons \subseteq {"Cancelled", "KeepInProgress", "Succeeded", "FinalizedExternally"}
ASSUME OutputsAssumption ==
    Outputs \in [Conversations -> SUBSET {o \in Seq(ActionIds) : o # <<>> /\ Injective(o)}]

VARIABLES
    settings,       \* the executors' current answers (permissions, capabilities)
    preprocessing,  \* pending_preprocessed_actions: [id, batch, done] in order
    pending,        \* pending_actions
    running,        \* running_actions: the phase and the actions in it
    executing,      \* async_executing_actions: action -> its conversation
    futures,        \* the spawned execution futures that have not resolved
    finished,       \* finished_action_results
    order,          \* action_order: the latest output, <<>> when removed
    past,           \* keys of past_action_results
    status,         \* the conversation's status in the history model
    effects,        \* the application's pending effects
    received,       \* history: the actions received in each conversation
    approved        \* history: the actions the user asked to execute

vars == <<settings, preprocessing, pending, running, executing, futures,
          finished, order, past, status, effects, received, approved>>

Phases  == {"None", "Serial", "Parallel"}
Results == {"Completed", "Snapshot", "Cancelled"}

\* The CancellationOutcome of a cancellation reason; "None" is no reason.
NoReason == "None"

Statuses == {"InProgress", "TransientError", "Blocked", "Cancelled", "Success", "Error"}

Entry   == [id : ActionIds, batch : ActionIds, done : BOOLEAN]
Running == [phase : Phases, ids : SUBSET ActionIds]
Result  == [id : ActionIds, res : Results]
Event   ==
    [type : {"ExecutorFinished"}, conv : Conversations, id : ActionIds,
     res : Results, reason : Reasons \cup {NoReason}]
    \cup
    [type : {"Finished"}, conv : Conversations, id : ActionIds,
     reason : Reasons \cup {NoReason}]

ExecutorFinished(c, a, res, reason) ==
    [type |-> "ExecutorFinished", conv |-> c, id |-> a, res |-> res, reason |-> reason]

Finished(c, a, reason) ==
    [type |-> "Finished", conv |-> c, id |-> a, reason |-> reason]

NotRunning == [phase |-> "None", ids |-> {}]

Init ==
    /\ settings \in Settings
    /\ preprocessing = [c \in Conversations |-> <<>>]
    /\ pending = [c \in Conversations |-> <<>>]
    /\ running = [c \in Conversations |-> NotRunning]
    /\ executing = [a \in ActionIds |-> NoConv]
    /\ futures = {}
    /\ finished = [c \in Conversations |-> <<>>]
    /\ order = [c \in Conversations |-> <<>>]
    /\ past = {}
    /\ status = [c \in Conversations |-> "InProgress"]
    /\ effects = <<>>
    /\ received = [c \in Conversations |-> {}]
    /\ approved = {}

-----------------------------------------------------------------------------
(* The executor's decision about one action: try_to_execute_action.        *)

\* Mutant: an autonomous agent never needs confirmation, not only for commands.
NeedsConfirmationIfAttended(a, user) == ~(user \/ a \in settings.auto \/ Autonomous)

NeedsConfirmation(a, user) ==
    ~(user \/ a \in settings.auto \/ (Autonomous /\ a \in Commands))

\* An autonomous agent's command that may not run is answered Denylisted.
Denylisted(a, user) == ~user /\ a \notin settings.auto /\ Autonomous /\ a \in Commands

Executes(a, user) ==
    /\ ~NeedsConfirmation(a, user)
    /\ Denylisted(a, user) \/ a \in settings.ready

\* Of the actions that execute, those whose result is emitted at once.
SyncActions(user) == settings.sync \cup {a \in ActionIds : Denylisted(a, user)}

\* The phase of actions that were started together.
PhaseOf(group) == IF group \subseteq settings.parallel THEN "Parallel" ELSE "Serial"

-----------------------------------------------------------------------------
(***************************************************************************)
(* A handler works on the view of one conversation, which is a record of   *)
(* the parts of the state it reads and writes, the actions it starts       *)
(* asynchronously and the events it emits; Commit makes it the next state. *)
(***************************************************************************)
ViewOf(c) ==
    [pending |-> pending[c], running |-> running[c], finished |-> finished[c],
     status |-> status[c], started |-> {}, events |-> <<>>]

\* Applies the view v of c; queue and execs are the effects and the executing
\* actions the view's events and started actions are added to.
Commit(c, v, queue, execs) ==
    /\ pending' = [pending EXCEPT ![c] = v.pending]
    /\ running' = [running EXCEPT ![c] = v.running]
    /\ finished' = [finished EXCEPT ![c] = v.finished]
    /\ status' = [status EXCEPT ![c] = v.status]
    /\ executing' = [a \in ActionIds |-> IF a \in v.started THEN c ELSE execs[a]]
    /\ futures' = futures \cup ({c} \X v.started)
    /\ effects' = queue \o v.events

\* can_start_action_in_current_phase, and the test for a phase in the loop.
PhaseAdmits(phase, a) ==
    phase = "None" \/ (phase = "Parallel" /\ a \in settings.parallel \cap settings.auto)

\* The running phase when the loop over the pending queue q reaches position i.
PhaseBefore(q, phase, i) ==
    LET earlier == {q[j] : j \in 1..(i - 1)} \ SyncActions(FALSE)
    IN  IF earlier = {} THEN phase ELSE PhaseOf(earlier)

\* The loop starts the action at position i, if it started all before it.
Startable(q, phase, i) ==
    /\ PhaseAdmits(PhaseBefore(q, phase, i), q[i])
    /\ Executes(q[i], FALSE)

(***************************************************************************)
(* try_to_execute_available_actions: start actions from the front of the   *)
(* queue until one cannot join the phase, is serial, or is not executed.   *)
(***************************************************************************)
TryExecuteAvailable(c, v) ==
    LET q       == v.pending
        n       == PrefixLen({i \in DOMAIN q : Startable(q, v.running.phase, i)}, Len(q))
        taken   == SubSeq(q, 1, n)
        sync    == Filter(taken, SyncActions(FALSE))
        async   == Elems(taken) \ SyncActions(FALSE)
        blocked == /\ n < Len(q)
                   /\ PhaseBefore(q, v.running.phase, n + 1) = "None"
                   /\ NeedsConfirmation(q[n + 1], FALSE)
    IN  [v EXCEPT
          !.pending = DropFirst(q, n),
          !.running = IF async = {} THEN @
                      ELSE [phase |-> IF @.phase = "None" THEN PhaseOf(async) ELSE @.phase,
                            ids   |-> @.ids \cup async],
          !.started = @ \cup async,
          !.events  = @ \o [i \in DOMAIN sync |->
                               ExecutorFinished(c, sync[i], "Completed", NoReason)],
          !.status  = IF blocked THEN "Blocked" ELSE IF n > 0 THEN "InProgress" ELSE @]

\* The sort key of the i-th result: its action's position in the output.
OrderKey(c, results) ==
    [i \in DOMAIN results |->
        IF results[i].id \in Elems(order[c])
        THEN PositionOf(results[i].id, order[c]) ELSE Len(order[c]) + 1]

\* Mutant: results stay in the order in which they arrived.
SortNothing(c, results) == results

\* sort_finished_results
SortFinished(c, results) == StableSort(results, OrderKey(c, results))

AllCancelled(results) == \A i \in DOMAIN results : results[i].res = "Cancelled"

(***************************************************************************)
(* The end of handle_action_result, from the push of the result on.        *)
(***************************************************************************)
RecordResult(c, v, a, res, reason) ==
    LET pushed == Append(v.finished, [id |-> a, res |-> res])
        w      == [v EXCEPT !.finished = pushed,
                            !.events = Append(@, Finished(c, a, reason))]
        sorted == [w EXCEPT !.finished = SortFinished(c, pushed)]
    IN  IF v.running.ids # {} THEN w
        ELSE IF v.pending # <<>> THEN TryExecuteAvailable(c, sorted)
        ELSE IF reason # "Cancelled" THEN sorted
        ELSE [sorted EXCEPT !.status =
                 IF AllCancelled(pushed) THEN "Cancelled" ELSE "InProgress"]

\* cancel_pending_action for each of the actions ids, which have left the queue.
CancelEach(c, v, ids, reason) ==
    LET step[i \in 0..Len(ids)] ==
            IF i = 0 THEN v
            ELSE RecordResult(c, step[i - 1], ids[i], "Cancelled", reason)
    IN  step[Len(ids)]

\* Mutant: the phase entry outlives its last action.
WithoutRunningKeepPhase(v, a) == [v EXCEPT !.running.ids = @ \ {a}]

\* The phase without a; the entry goes with its last action.
WithoutRunning(v, a) ==
    [v EXCEPT !.running = IF @.ids \subseteq {a} THEN NotRunning
                          ELSE [phase |-> @.phase, ids |-> @.ids \ {a}]]

\* drain_pending_request_command_actions, each drained command cancelled.
CancelOtherCommands(c, v, reason) ==
    CancelEach(c, [v EXCEPT !.pending = Filter(@, ActionIds \ Commands)],
               Filter(v.pending, Commands), reason)

\* handle_action_result
HandleResult(c, v, a, res, reason) ==
    LET w == WithoutRunning(v, a) IN
    RecordResult(c, IF res = "Snapshot" THEN CancelOtherCommands(c, w, reason) ELSE w,
                 a, res, reason)

-----------------------------------------------------------------------------
(* Agent output and preprocessing.                                         *)

Idle == effects = <<>>

Tagged(output) ==
    [i \in DOMAIN output |-> [id |-> output[i], batch |-> output[1], done |-> FALSE]]

(***************************************************************************)
(* queue_actions: the output's actions are to be preprocessed, its order   *)
(* replaces the one of the previous output.  An agent never reuses a tool  *)
(* call identifier within a conversation.                                  *)
(***************************************************************************)
QueueActions(c, output) ==
    /\ Idle
    /\ Elems(output) \cap received[c] = {}
    /\ received' = [received EXCEPT ![c] = @ \cup Elems(output)]
    /\ order' = [order EXCEPT ![c] = output]
    /\ preprocessing' = [preprocessing EXCEPT ![c] = @ \o Tagged(output)]
    /\ UNCHANGED <<settings, pending, running, executing, futures, finished,
                   past, status, effects, approved>>

FinishedIds(c) == {finished[c][i].id : i \in DOMAIN finished[c]}

\* The entries of c once preprocessing of the batch b has completed.
Completed(c, b) ==
    [i \in DOMAIN preprocessing[c] |->
        [preprocessing[c][i] EXCEPT !.done = @ \/ preprocessing[c][i].batch = b]]

\* How many entries come out: those before the first incomplete batch.
Releasable(es) == PrefixLen({i \in DOMAIN es : es[i].done}, Len(es))

\* Mutant: released actions are queued without trying to execute any.
EnqueueOnly(c, released) ==
    [ViewOf(c) EXCEPT !.pending = @ \o Filter(released, ActionIds \ FinishedIds(c))]

\* The released actions join the queue, which is then served.
Enqueue(c, released) ==
    TryExecuteAvailable(c,
        [ViewOf(c) EXCEPT !.pending = @ \o Filter(released, ActionIds \ FinishedIds(c))])

\* The future that preprocesses the batch b of c resolves: released entries leave.
BatchResolves(c, b) ==
    LET es == Completed(c, b) IN
    /\ Idle
    /\ \E i \in DOMAIN preprocessing[c] :
           preprocessing[c][i].batch = b /\ ~preprocessing[c][i].done
    /\ preprocessing' = [preprocessing EXCEPT ![c] = DropFirst(es, Releasable(es))]

\* handle_preprocess_actions_results
PreprocessActionsResults(c, b) ==
    LET es       == Completed(c, b)
        released == [i \in 1..Releasable(es) |-> es[i].id]
    IN
    /\ BatchResolves(c, b)
    /\ Commit(c, Enqueue(c, released), effects, executing)
    /\ UNCHANGED <<settings, order, past, received, approved>>

-----------------------------------------------------------------------------
(* User operations.                                                        *)

\* The permissions or the capabilities of the session change.
ChangeSettings ==
    /\ Idle
    /\ settings' \in Settings
    /\ UNCHANGED <<preprocessing, pending, running, executing, futures, finished,
                   order, past, status, effects, received, approved>>

\* Starting the pending action a for the user: start_pending_action_by_id.
StartForUser(c, v, a) ==
    LET w == [v EXCEPT !.pending = RemoveIndex(@, PositionOf(a, @)),
                       !.status = "InProgress"]
    IN  IF a \in SyncActions(TRUE)
        THEN TryExecuteAvailable(c,
                 [w EXCEPT !.events =
                     Append(@, ExecutorFinished(c, a, "Completed", NoReason))])
        ELSE [w EXCEPT !.running = [phase |-> PhaseOf({a}), ids |-> @.ids \cup {a}],
                       !.started = {a}]

\* Approvals are refused while a phase is running.
MayStartForUser(c, a) ==
    Idle /\ running[c].phase = "None" /\ a \in Elems(pending[c])

(***************************************************************************)
(* execute_action, and with it handle_requested_command_accepted and       *)
(* execute_run_agents, which only edit the action first.  An action that   *)
(* is not ready goes back to its place, which changes nothing.             *)
(***************************************************************************)
ExecuteAction(c, a) ==
    /\ MayStartForUser(c, a)
    /\ Executes(a, TRUE)
    /\ approved' = approved \cup {a}
    /\ Commit(c, StartForUser(c, ViewOf(c), a), effects, executing)
    /\ UNCHANGED <<settings, preprocessing, order, past, received>>

\* execute_next_action_for_user
ExecuteNextActionForUser(c) == pending[c] # <<>> /\ ExecuteAction(c, Head(pending[c]))

\* The view of c without the pending action a.
WithoutPending(c, a) ==
    [ViewOf(c) EXCEPT !.pending = RemoveIndex(@, PositionOf(a, @))]

\* deny_run_agents
DenyRunAgents(c, a) ==
    /\ Idle
    /\ a \in Elems(pending[c]) \ Commands
    /\ Commit(c, HandleResult(c, WithoutPending(c, a), a, "Completed", NoReason),
              effects, executing)
    /\ UNCHANGED <<settings, preprocessing, order, past, received, approved>>

\* cancel_running_async_action, which knows the action by its identifier only.
CancelRunning(c, a, reason) ==
    /\ executing[a] # NoConv
    /\ executing' = [executing EXCEPT ![a] = NoConv]
    /\ effects' = Append(effects, ExecutorFinished(executing[a], a, "Cancelled", reason))

\* cancel_action_with_id
CancelActionWithId(c, a, reason) ==
    /\ Idle
    /\ \/ /\ a \in running[c].ids
          /\ CancelRunning(c, a, reason)
          /\ UNCHANGED <<pending, running, finished, status, futures>>
       \/ /\ a \notin running[c].ids
          /\ a \in Elems(pending[c])
          /\ Commit(c, HandleResult(c, WithoutPending(c, a), a, "Cancelled", reason),
                    effects, executing)
    /\ UNCHANGED <<settings, preprocessing, order, past, received, approved>>

ExecutingIn(c) == {a \in ActionIds : executing[a] = c}

\* Everything queued in the view v of c is cancelled, in order.
CancelPending(c, v, reason) ==
    CancelEach(c, [v EXCEPT !.pending = <<>>], v.pending, reason)

\* The cancelled results of the running actions of c, in the order listed.
CancelledEvents(c, listed, reason) ==
    [i \in DOMAIN listed |-> ExecutorFinished(c, listed[i], "Cancelled", reason)]

\* What is executing once all that runs in the conversations D is cancelled.
ExecutingOutside(D) ==
    [a \in ActionIds |-> IF executing[a] \in D THEN NoConv ELSE executing[a]]

(***************************************************************************)
(* cancel_all_pending_actions: the running actions of c are cancelled in   *)
(* the order in which their hash map lists them, then the queued ones.     *)
(* Batches that are still being preprocessed are left alone.  It works on  *)
(* the view v of c and appends its events to queue.                        *)
(***************************************************************************)
CancelAll(c, v, reason, queue) ==
    \E listed \in Orderings(ExecutingIn(c)) :
        Commit(c, CancelPending(c, v, reason),
               queue \o CancelledEvents(c, listed, reason), ExecutingOutside({c}))

CancelAllPendingActions(c, reason) ==
    /\ Idle
    /\ CancelAll(c, ViewOf(c), reason, effects)
    /\ UNCHANGED <<settings, preprocessing, order, past, received, approved>>

-----------------------------------------------------------------------------
(* The executor's futures and the delivery of events.                      *)

\* Mutant: the result of a cancelled action is emitted when it comes late.
FutureResolvesAnyway(c, a, res) ==
    /\ executing' = [executing EXCEPT ![a] = NoConv]
    /\ effects' = Append(effects, ExecutorFinished(c, a, res, NoReason))

\* Mutant: the callback does not ask whether the action is still executing.
FutureResolvesUnchecked(c, a, res) ==
    /\ executing' = [executing EXCEPT ![a] = NoConv]
    /\ effects' = Append(effects, ExecutorFinished(executing[a], a, res, NoReason))

(***************************************************************************)
(* The callback of an execution future: nothing happens unless the action  *)
(* is still executing, and the result goes to the conversation found with  *)
(* it.                                                                     *)
(***************************************************************************)
FutureResolves(c, a, res) ==
    IF executing[a] = NoConv THEN UNCHANGED <<executing, effects>>
    ELSE /\ executing' = [executing EXCEPT ![a] = NoConv]
         /\ effects' = Append(effects, ExecutorFinished(executing[a], a, res, NoReason))

CompleteAsync(c, a) ==
    /\ Idle
    /\ <<c, a>> \in futures
    /\ futures' = futures \ {<<c, a>>}
    /\ \E res \in IF a \in Commands THEN {"Completed", "Snapshot"} ELSE {"Completed"} :
           FutureResolves(c, a, res)
    /\ UNCHANGED <<settings, preprocessing, pending, running, finished, order, past,
                   status, received, approved>>

\* The subscription of the action model to the executor's FinishedAction.
DeliverExecutorFinished ==
    /\ ~Idle
    /\ LET e == Head(effects) IN
        /\ e.type = "ExecutorFinished"
        /\ Commit(e.conv, HandleResult(e.conv, ViewOf(e.conv), e.id, e.res, e.reason),
                  Tail(effects), executing)
    /\ UNCHANGED <<settings, preprocessing, order, past, received, approved>>

-----------------------------------------------------------------------------
(* What the controller asks of the action model.                           *)

\* drain_finished_action_results
DrainFinished(c) ==
    /\ order' = [order EXCEPT ![c] = <<>>]
    /\ finished' = [finished EXCEPT ![c] = <<>>]
    /\ past' = past \cup FinishedIds(c)

(***************************************************************************)
(* The controller receives FinishedAction: it drains the results to send   *)
(* them to the agent, or ends the turn, or does nothing.                   *)
(***************************************************************************)
DeliverFinished ==
    /\ ~Idle
    /\ LET c == Head(effects).conv IN
        /\ Head(effects).type = "Finished"
        /\ \/ /\ DrainFinished(c)
              /\ status' = [status EXCEPT ![c] = "InProgress"]
           \/ /\ UNCHANGED <<order, finished, past>>
              /\ \E s \in {status[c], "Success", "Cancelled"} :
                     status' = [status EXCEPT ![c] = s]
    /\ effects' = Tail(effects)
    /\ UNCHANGED <<settings, preprocessing, pending, running, executing, futures,
                   received, approved>>

(***************************************************************************)
(* A new query: the controller cancels what is queued or running and       *)
(* drains the results, in one update.                                      *)
(***************************************************************************)
CancelAndDrain(c, reason) ==
    /\ Idle
    /\ \E listed \in Orderings(ExecutingIn(c)) :
        LET v == CancelPending(c, ViewOf(c), reason) IN
        /\ pending' = [pending EXCEPT ![c] = v.pending]
        /\ executing' = ExecutingOutside({c})
        /\ effects' = effects \o CancelledEvents(c, listed, reason) \o v.events
        /\ past' = past \cup {v.finished[i].id : i \in DOMAIN v.finished}
    /\ finished' = [finished EXCEPT ![c] = <<>>]
    /\ order' = [order EXCEPT ![c] = <<>>]
    /\ status' = [status EXCEPT ![c] = "InProgress"]
    /\ UNCHANGED <<settings, preprocessing, running, futures, received, approved>>

\* clear_finished_action_results, when a conversation is reverted.
ClearFinished(c) ==
    /\ Idle
    /\ order' = [order EXCEPT ![c] = <<>>]
    /\ finished' = [finished EXCEPT ![c] = <<>>]
    /\ UNCHANGED <<settings, preprocessing, pending, running, executing, futures,
                   past, status, effects, received, approved>>

-----------------------------------------------------------------------------
ConversationNext(c) ==
    \/ \E output \in Outputs[c] : QueueActions(c, output)
    \/ ExecuteNextActionForUser(c)
    \/ \E reason \in Reasons : CancelAllPendingActions(c, reason) \/ CancelAndDrain(c, reason)
    \/ ClearFinished(c)
    \/ \E a \in ActionIds :
        \/ PreprocessActionsResults(c, a)
        \/ ExecuteAction(c, a)
        \/ DenyRunAgents(c, a)
        \/ \E reason \in Reasons : CancelActionWithId(c, a, reason)
        \/ CompleteAsync(c, a)

Next ==
    \/ \E c \in Conversations : ConversationNext(c)
    \/ ChangeSettings
    \/ DeliverExecutorFinished
    \/ DeliverFinished

(***************************************************************************)
(* The main loop flushes the effects, and every future resolves.  Nothing  *)
(* is assumed of the user or of the agent.  Delivery is enabled exactly    *)
(* when there are effects and it alone changes them then, so that the      *)
(* first conjunct is its weak fairness.                                    *)
(***************************************************************************)
Fairness ==
    /\ []<>Idle \/ []<><<~Idle>>_effects
    /\ \A c \in Conversations, a \in ActionIds :
        WF_vars(CompleteAsync(c, a)) /\ WF_preprocessing(BatchResolves(c, a))

Spec == Init /\ [][Next]_vars /\ Fairness

-----------------------------------------------------------------------------
(* Properties.                                                             *)

\* The variables hold what their Rust types allow; first all but the effects, to
\* which a module that extends this one adds events.
ModelTypeOK ==
    /\ settings \in Settings
    /\ preprocessing \in [Conversations -> Seq(Entry)]
    /\ pending \in [Conversations -> Seq(ActionIds)]
    /\ running \in [Conversations -> Running]
    /\ executing \in [ActionIds -> Conversations \cup {NoConv}]
    /\ futures \subseteq Conversations \X ActionIds
    /\ finished \in [Conversations -> Seq(Result)]
    /\ order \in [Conversations -> Seq(ActionIds)]
    /\ past \subseteq ActionIds
    /\ status \in [Conversations -> Statuses]
    /\ received \in [Conversations -> SUBSET ActionIds]
    /\ approved \subseteq ActionIds

TypeOK == ModelTypeOK /\ effects \in Seq(Event)

PreprocessingIds(c) == {preprocessing[c][i].id : i \in DOMAIN preprocessing[c]}

\* The undelivered results of actions of c.
ResultEvents(c) ==
    {i \in DOMAIN effects : effects[i].type = "ExecutorFinished" /\ effects[i].conv = c}

AwaitingDelivery(c) == {effects[i].id : i \in ResultEvents(c)}

\* The actions of c that have been received and have no result yet.
Unsettled(c) == PreprocessingIds(c) \cup Elems(pending[c])
                    \cup running[c].ids \cup AwaitingDelivery(c)

(***************************************************************************)
(* An action is in one place at a time: it is preprocessed, queued,        *)
(* started or finished, it is queued once and it has one result.  This is  *)
(* about every removal and insertion of action_model.rs, and about late    *)
(* completions of cancelled actions (execute.rs:804-818).                  *)
(***************************************************************************)
ActionsAreInOnePlace ==
    \A c \in Conversations :
        LET started == running[c].ids \cup AwaitingDelivery(c)
            places  == <<PreprocessingIds(c), Elems(pending[c]), started, FinishedIds(c)>>
        IN  /\ \A i, j \in DOMAIN places : i < j => places[i] \cap places[j] = {}
            /\ Unsettled(c) \cap past = {}
            /\ Injective(pending[c])
            /\ Cardinality(FinishedIds(c)) = Len(finished[c])
            /\ Cardinality(AwaitingDelivery(c)) = Cardinality(ResultEvents(c))

(***************************************************************************)
(* A serial action runs by itself, and a conversation has a phase entry    *)
(* exactly while something runs in it (action_model.rs:154-195): a stale   *)
(* entry would refuse every later approval.                                *)
(***************************************************************************)
PhaseIsExact ==
    \A c \in Conversations :
        /\ (running[c].phase = "None") = (running[c].ids = {})
        /\ running[c].phase = "Serial" => Cardinality(running[c].ids) = 1

(***************************************************************************)
(* Once nothing runs, the results are in the order of the tool calls of    *)
(* the output they answer, whatever the order in which they arrived        *)
(* (action_model.rs:234-238, sort_finished_results).                       *)
(***************************************************************************)
ResultsInToolCallOrder ==
    \A c \in Conversations : running[c].ids = {} =>
        LET key == OrderKey(c, finished[c]) IN
        \A i, j \in DOMAIN finished[c] : i < j => key[i] <= key[j]

\* The actions of c that wait to be started.
Waiting(c) == PreprocessingIds(c) \cup Elems(pending[c])

(***************************************************************************)
(* An action runs only with the user's consent or when the executor's      *)
(* permissions let it run by itself; the exception is the refusal of an    *)
(* autonomous agent's command, which runs nothing (execute.rs:609-640).    *)
(***************************************************************************)
NothingRunsWithoutConsent ==
    [][\A c \in Conversations : \A a \in Waiting(c) :
        a \in running'[c].ids \cup AwaitingDelivery(c)' =>
            \/ a \in settings.auto \cup approved'
            \/ Autonomous /\ a \in Commands /\ executing'[a] = NoConv]_vars

(***************************************************************************)
(* With settings that do not change, a queue that may be served is served: *)
(* when nothing runs and nothing is on its way, the front action waits for *)
(* the user or is not ready.  No action is left behind by the completion,  *)
(* cancellation or denial of another.                                      *)
(***************************************************************************)
QueueIsServed ==
    \A c \in Conversations :
        (Idle /\ running[c].ids = {} /\ pending[c] # <<>>) =>
            ~Executes(Head(pending[c]), FALSE)
=============================================================================
