------------------------ MODULE BlocklistController ------------------------
(***************************************************************************)
(* The turns of an agent conversation: BlocklistAIController in            *)
(* app/src/ai/blocklist/controller.rs over the queue of actions of         *)
(* ActionModel, with the response streams of the agent and the status the  *)
(* history model keeps.  A user query opens a stream; its output's actions *)
(* are queued when the stream ends; their results are sent back with the   *)
(* stream of a follow-up; a turn ends with an output without actions, with *)
(* a failure or with a cancellation.                                       *)
(*                                                                         *)
(* A stream cancelled by the controller is forgotten at once; the history  *)
(* model learns of it when the event AfterStreamFinished is delivered.     *)
(* Passive code diffs, shared-session viewers and the events of other      *)
(* agents are left out, and so are errors after a complete output.         *)
(***************************************************************************)
EXTENDS ActionModel

CONSTANTS
    MaxQueries,     \* bound: the queries the user sends in a conversation
    UserIsSlow      \* assumption about the user, see MayAct

ASSUME MaxQueriesAssumption == MaxQueries \in Nat
ASSUME UserIsSlowAssumption == UserIsSlow \in BOOLEAN

VARIABLES
    stream,         \* in_flight_response_streams: the stream of a conversation
    selected,       \* the conversation whose agent view the user is in
    active,         \* active_conversation_for_terminal_surface
    resume,         \* pending_auto_resume_handles: who will be resumed
    stopped,        \* history: the user stopped it and no request was sent since
    queries         \* how many queries were sent in each conversation

streamVars == <<stream, selected, active, resume, stopped, queries>>
controllerVars == <<vars, streamVars>>

\* The stream of a conversation without one; its phases are those of StreamContract.
NoStream == [phase |-> "None", output |-> <<>>, resumes |-> FALSE]

\* Mutant: a failure of a resumed request is resumed again.
OpenedResumable(resumes) == [phase |-> "Open", output |-> <<>>, resumes |-> TRUE]

\* A new stream; resumes says whether a failure of it may be resumed.
Opened(resumes) == [phase |-> "Open", output |-> <<>>, resumes |-> resumes]

\* has_active_stream_for_conversation
Streaming(c) == stream[c].phase # "None"

\* should_resume_conversation_after_stream_finished
SchedulesResume(c) == stream[c].phase = "Failed" /\ stream[c].resumes

\* AfterStreamFinished of the cancelled stream of c.
StreamCancelled(c, reason) ==
    [type |-> "StreamCancelled", conv |-> c, reason |-> reason,
     resumes |-> SchedulesResume(c)]

ControllerInit ==
    /\ Init
    /\ stream = [c \in Conversations |-> NoStream]
    /\ selected = NoConv
    /\ active = NoConv
    /\ resume = [c \in Conversations |-> FALSE]
    /\ stopped = [c \in Conversations |-> FALSE]
    /\ queries = [c \in Conversations |-> 0]

(***************************************************************************)
(* A slow user (and a shell that is slow to exit) does nothing in c while  *)
(* actions of it are preprocessed or a finished stream of it awaits its    *)
(* last callback.                                                          *)
(***************************************************************************)
MayAct(c) ==
    /\ Idle
    /\ UserIsSlow => /\ preprocessing[c] = <<>>
                     /\ stream[c].phase \notin {"Completed", "Failed"}

-----------------------------------------------------------------------------
(* What arrives on a response stream.                                      *)

\* The stream and the status of c change, nothing else does.
Streamed(c, next, newStatus) ==
    /\ stream' = [stream EXCEPT ![c] = next]
    /\ status' = [status EXCEPT ![c] = newStatus]
    /\ UNCHANGED <<settings, preprocessing, pending, running, executing, futures,
                   finished, order, past, effects, received, approved,
                   selected, active, resume, stopped, queries>>

(***************************************************************************)
(* StreamFinished(Done): the output is complete.  Its actions are those of *)
(* the agent, which does not reuse the identifiers of a conversation.      *)
(***************************************************************************)
StreamSucceeds(c) ==
    /\ Idle
    /\ stream[c].phase = "Open"
    /\ \E output \in Outputs[c] \cup {<<>>} :
        /\ Elems(output) \cap received[c] = {}
        /\ Streamed(c, [stream[c] EXCEPT !.phase = "Completed", !.output = output],
                    IF output = <<>> THEN "Success" ELSE status[c])

\* An error that is not retried: the conversation is resumed or has failed.
StreamFails(c) ==
    /\ Idle
    /\ stream[c].phase = "Open"
    /\ \E resumes \in {FALSE, stream[c].resumes} :
        Streamed(c, [stream[c] EXCEPT !.phase = "Failed", !.resumes = resumes],
                 IF resumes THEN "TransientError" ELSE "Error")

\* WaitingForNetwork: a retry is parked while the client is offline.
NetworkIsLost(c) ==
    /\ Idle
    /\ stream[c].phase = "Open"
    /\ Streamed(c, [stream[c] EXCEPT !.phase = "Waiting"], "TransientError")

NetworkReturns(c) ==
    /\ Idle
    /\ stream[c].phase = "Waiting"
    /\ Streamed(c, [stream[c] EXCEPT !.phase = "Open"], "InProgress")

(***************************************************************************)
(* AfterStreamFinished without a cancellation: the actions of the output   *)
(* are queued, a recoverable failure schedules a resume.                   *)
(***************************************************************************)
StreamEnds(c) ==
    /\ Idle
    /\ stream[c].phase \in {"Completed", "Failed"}
    /\ IF stream[c].output # <<>> THEN QueueActions(c, stream[c].output)
                                  ELSE UNCHANGED vars
    /\ stream' = [stream EXCEPT ![c] = NoStream]
    /\ resume' = [resume EXCEPT ![c] = @ \/ SchedulesResume(c)]
    /\ UNCHANGED <<selected, active, stopped, queries>>

-----------------------------------------------------------------------------
(* Requests.                                                               *)

\* The parked resumes once that of c is aborted.
ResumeAborted(c) == [resume EXCEPT ![c] = FALSE]

\* send_request_input past its refusal, without the status it sets.
Request(c, resumes) ==
    /\ stream' = [stream EXCEPT ![c] = Opened(resumes)]
    /\ active' = c
    /\ resume' = ResumeAborted(c)
    /\ stopped' = [stopped EXCEPT ![c] = FALSE]

\* Mutant: a parked resume that is cancelled leaves the status.
RecoveryCancelledNot(s, reason) == s

\* The status of a conversation without a stream when its progress is cancelled.
RecoveryCancelled(s, reason) ==
    IF reason = "Cancelled" /\ s = "TransientError" THEN "Cancelled" ELSE s

\* What cancel_conversation_progress does to the view of c.
Interrupted(c, reason) ==
    IF Streaming(c) THEN ViewOf(c)
    ELSE CancelPending(c, [ViewOf(c) EXCEPT !.status = RecoveryCancelled(@, reason)], reason)

\* The running actions it cancels.
InterruptedActions(c) == IF Streaming(c) THEN {} ELSE ExecutingIn(c)

\* The events it emits before those of the view.
InterruptedEvents(c, listed, reason) ==
    IF Streaming(c) THEN <<StreamCancelled(c, reason)>>
                    ELSE CancelledEvents(c, listed, reason)

(***************************************************************************)
(* cancel_conversation_progress: the stream of c is cancelled if there is  *)
(* one, otherwise its actions are.                                         *)
(***************************************************************************)
CancelConversationProgress(c, reason) ==
    /\ MayAct(c)
    /\ \E listed \in Orderings(InterruptedActions(c)) :
        Commit(c, Interrupted(c, reason),
               effects \o InterruptedEvents(c, listed, reason),
               ExecutingOutside(IF Streaming(c) THEN {} ELSE {c}))
    /\ stream' = [stream EXCEPT ![c] = NoStream]
    /\ resume' = ResumeAborted(c)
    /\ stopped' = [stopped EXCEPT ![c] = @ \/ reason = "Cancelled"]
    /\ UNCHANGED <<settings, preprocessing, order, past, received, approved,
                   selected, active, queries>>

\* Mutant: every query cancels as if it were for another conversation.
QueryReasonAlwaysOther(c) == "Cancelled"

\* FollowUpSubmitted is for the same conversation if that is the active one.
QueryReason(c) == IF active = c THEN "KeepInProgress" ELSE "Cancelled"

(***************************************************************************)
(* send_query to the selected conversation: the progress of the active one *)
(* is cancelled, then the actions of c; the results of c are drained and   *)
(* sent with the query, unless a stream of c is still in flight, which     *)
(* only the first of these steps cancels.                                  *)
(***************************************************************************)
SendQuery(c) ==
    LET reason  == QueryReason(c)
        others  == {active} \ {c}
        refused == Streaming(c) /\ active # c
        view    == [d \in {c} \cup others |->
                       IF d = c THEN CancelPending(c, ViewOf(c), reason)
                                ELSE Interrupted(d, reason)]
        ceased  == {c} \cup {d \in others : ~Streaming(d)}
        own     == IF Streaming(c) /\ ~refused THEN <<StreamCancelled(c, reason)>> ELSE <<>>
    IN
    /\ selected = c
    /\ queries[c] < MaxQueries
    /\ \A d \in {c} \cup others : MayAct(d)
    /\ \E listed \in Orderings(ExecutingIn(c)),
          other \in {<<>>} \cup UNION {Orderings(InterruptedActions(d)) : d \in others} :
        LET before == IF others = {} THEN <<>>
                      ELSE InterruptedEvents(active, other, reason) \o view[active].events
        IN  /\ Elems(other) = UNION {InterruptedActions(d) : d \in others}
            /\ effects' = effects \o before \o own \o CancelledEvents(c, listed, reason)
                              \o view[c].events
    /\ pending' = [d \in Conversations |->
                      IF d \in DOMAIN view THEN view[d].pending ELSE pending[d]]
    /\ executing' = ExecutingOutside(ceased)
    /\ finished' = [d \in Conversations |->
                       IF d = c THEN <<>>
                       ELSE IF d \in others THEN view[d].finished ELSE finished[d]]
    /\ past' = past \cup {view[c].finished[i].id : i \in DOMAIN view[c].finished}
    /\ order' = [order EXCEPT ![c] = <<>>]
    /\ status' = [d \in Conversations |->
                     IF d \notin DOMAIN view THEN status[d]
                     ELSE IF d = c /\ ~refused THEN "InProgress" ELSE view[d].status]
    /\ stream' = [d \in Conversations |->
                     IF d \in others THEN NoStream
                     ELSE IF d = c /\ ~refused THEN Opened(TRUE) ELSE stream[d]]
    /\ resume' = [d \in Conversations |-> resume[d] /\ d \notin DOMAIN view]
    /\ active' = IF refused THEN active ELSE c
    /\ stopped' = [d \in Conversations |->
                      IF d = c THEN stopped[c] /\ refused ELSE stopped[d] \/ d \in others]
    /\ queries' = [queries EXCEPT ![c] = @ + 1]
    /\ UNCHANGED <<settings, preprocessing, running, futures, received, approved, selected>>

\* The user enters the agent view of c; the one it leaves goes on by itself.
SelectConversation(c) ==
    /\ Idle
    /\ selected # c
    /\ selected' = c
    /\ active' = c
    /\ UNCHANGED <<vars, stream, resume, stopped, queries>>

\* The scheduled resume of a failed conversation, which is not resumed twice.
AutoResume(c) ==
    /\ Idle
    /\ resume[c]
    /\ IF Streaming(c)
       THEN resume' = ResumeAborted(c) /\ UNCHANGED <<status, stream, active, stopped>>
       ELSE /\ Request(c, FALSE)
            /\ status' = [status EXCEPT ![c] = "InProgress"]
    /\ UNCHANGED <<settings, preprocessing, pending, running, executing, futures,
                   finished, order, past, effects, received, approved, selected, queries>>

\* A command of c has been started, which may make the shell exit even later.
RanCommand(c) ==
    \E a \in Commands \cap received[c] : a \in (approved \cup settings.auto) \ Waiting(c)

(***************************************************************************)
(* fail_conversation_due_to_shell_exit: a command of the agent made the    *)
(* shell exit.  An output that is complete is not marked failed again.     *)
(***************************************************************************)
ShellExits(c) ==
    /\ MayAct(c)
    /\ "FinalizedExternally" \in Reasons
    /\ RanCommand(c)
    /\ status[c] = "InProgress"
    /\ \E listed \in Orderings(ExecutingIn(c)) :
        LET v == CancelPending(c, ViewOf(c), "FinalizedExternally") IN
        Commit(c, [v EXCEPT !.status = IF stream[c].phase = "Completed" THEN @ ELSE "Error"],
               effects
               \o (IF Streaming(c) THEN <<StreamCancelled(c, "FinalizedExternally")>> ELSE <<>>)
               \o CancelledEvents(c, listed, "FinalizedExternally"),
               ExecutingOutside({c}))
    /\ stream' = [stream EXCEPT ![c] = NoStream]
    /\ UNCHANGED <<settings, preprocessing, order, past, received, approved,
                   selected, active, resume, stopped, queries>>

-----------------------------------------------------------------------------
(* The events the controller handles.                                      *)

\* has_unfinished_actions_for_conversation
HasUnfinished(c) == pending[c] # <<>> \/ running[c].ids # {}

\* Mutant: results are sent only if none of them is cancelled.
WantsFollowUpOfAll(c, reason) ==
    reason # "Succeeded" /\ \A i \in DOMAIN finished[c] : finished[c][i].res # "Cancelled"

\* The results of c are worth a request.
WantsFollowUp(c, reason) == reason # "Succeeded" /\ ~AllCancelled(finished[c])

\* Mutant: the events of an exit of the shell are handled like any others.
QuietNotExternally(c, reason) == HasUnfinished(c) \/ finished[c] = <<>>

\* A finished action of c that calls for nothing.
Quiet(c, reason) ==
    reason = "FinalizedExternally" \/ HasUnfinished(c) \/ finished[c] = <<>>

\* The status of c when its results are not sent.
EndedStatus(c, reason) ==
    IF Streaming(c) \/ reason = "KeepInProgress" THEN status[c]
    ELSE IF reason = "Succeeded" THEN "Success" ELSE "Cancelled"

\* send_follow_up_for_conversation without a stream.
FollowUp(c) ==
    /\ DrainFinished(c)
    /\ Request(c, TRUE)
    /\ status' = [status EXCEPT ![c] = "InProgress"]

\* The controller's subscription to FinishedAction.
DeliverFinishedAction ==
    /\ ~Idle
    /\ Head(effects).type = "Finished"
    /\ LET c      == Head(effects).conv
           reason == Head(effects).reason
           quiet  == Quiet(c, reason)
       IN  IF ~quiet /\ WantsFollowUp(c, reason) /\ ~Streaming(c) THEN FollowUp(c)
           ELSE /\ status' = [status EXCEPT ![c] =
                       IF quiet \/ WantsFollowUp(c, reason) THEN @ ELSE EndedStatus(c, reason)]
                /\ UNCHANGED <<finished, order, past, stream, active, resume, stopped>>
    /\ effects' = Tail(effects)
    /\ UNCHANGED <<settings, preprocessing, pending, running, executing, futures,
                   received, approved, selected, queries>>

(***************************************************************************)
(* AfterStreamFinished with a cancellation: the exchange is marked         *)
(* cancelled and, as for any other stream, a resume may be scheduled.      *)
(***************************************************************************)
DeliverStreamCancelled ==
    /\ ~Idle
    /\ Head(effects).type = "StreamCancelled"
    /\ LET e == Head(effects) IN
        /\ status' = [status EXCEPT ![e.conv] =
                         IF e.reason = "Cancelled" THEN "Cancelled"
                         ELSE IF e.reason = "Succeeded" THEN "Success" ELSE @]
        /\ resume' = [resume EXCEPT ![e.conv] = @ \/ e.resumes]
    /\ effects' = Tail(effects)
    /\ UNCHANGED <<settings, preprocessing, pending, running, executing, futures,
                   finished, order, past, received, approved,
                   stream, selected, active, stopped, queries>>

-----------------------------------------------------------------------------
\* The exit of the shell is no reason of the user's.
UserReasons == Reasons \ {"FinalizedExternally"}

\* What the user and the executor do to the actions of c.
ActionStep(c) ==
    /\ \/ ExecuteNextActionForUser(c)
       \/ ClearFinished(c)
       \/ \E a \in ActionIds :
            \/ PreprocessActionsResults(c, a)
            \/ ExecuteAction(c, a)
            \/ DenyRunAgents(c, a)
            \/ \E reason \in UserReasons : CancelActionWithId(c, a, reason)
            \/ CompleteAsync(c, a)
    /\ UNCHANGED streamVars

StreamStep(c) ==
    \/ StreamSucceeds(c)
    \/ StreamFails(c)
    \/ NetworkIsLost(c)
    \/ NetworkReturns(c)
    \/ StreamEnds(c)

ControllerNext ==
    \/ \E c \in Conversations :
        \/ ActionStep(c)
        \/ StreamStep(c)
        \/ SendQuery(c)
        \/ \E reason \in UserReasons : CancelConversationProgress(c, reason)
        \/ SelectConversation(c)
        \/ AutoResume(c)
        \/ ShellExits(c)
    \/ (ChangeSettings \/ DeliverExecutorFinished) /\ UNCHANGED streamVars
    \/ DeliverFinishedAction
    \/ DeliverStreamCancelled

(***************************************************************************)
(* A request is answered or fails: the transport has timeouts, and a       *)
(* request is retried at most three times, so that it waits for the        *)
(* network finitely often; the network is assumed to return.               *)
(***************************************************************************)
StreamFairness ==
    \A c \in Conversations :
        /\ SF_controllerVars(StreamSucceeds(c) \/ StreamFails(c))
        /\ WF_controllerVars(NetworkReturns(c))
        /\ WF_controllerVars(StreamEnds(c))
        /\ WF_controllerVars(AutoResume(c))

ControllerSpec ==
    ControllerInit /\ [][ControllerNext]_controllerVars /\ Fairness /\ StreamFairness

-----------------------------------------------------------------------------
(* Properties.                                                             *)

(***************************************************************************)
(* A follow-up answers every tool call of the output: when the controller  *)
(* sends the results by itself, no action of the conversation is           *)
(* outstanding (action_model.rs:1330-1333: "those actions will complete    *)
(* before we send any response to the server").  An output whose first     *)
(* action waits for the user and whose last has its result at once breaks  *)
(* it: the result of the first is announced before that of the last is     *)
(* recorded, and the follow-up leaves without it.                          *)
(***************************************************************************)
FollowUpIsComplete ==
    [][\A c \in Conversations :
        (~Idle /\ ~Streaming(c) /\ Streaming(c)') => Unsettled(c)' = {}]_controllerVars

(***************************************************************************)
(* No result that the agent waits for is left behind: once a conversation  *)
(* is at rest, the results that were never sent are those of cancelled     *)
(* actions (send_follow_up_for_conversation drains all of them), unless    *)
(* it has failed: nothing is sent after the exit of its shell.             *)
(***************************************************************************)
ResultsReachTheAgent ==
    \A c \in Conversations :
        (Idle /\ ~Streaming(c) /\ Unsettled(c) = {} /\ status[c] # "Error")
            => AllCancelled(finished[c])

(***************************************************************************)
(* A conversation whose request is being answered is shown as in progress  *)
(* or as recovering: neither the late cancelled results of the actions     *)
(* that the request superseded nor the cancellation of the previous stream *)
(* ends it (controller.rs:510-513).                                        *)
(***************************************************************************)
AnswerIsInProgress ==
    \A c \in Conversations :
        stream[c].phase = "Open" => status[c] = "InProgress"

Terminal == {"Success", "Cancelled", "Error"}

\* Nothing is under way in c: no stream, no resume, no action, no event.
AtRest(c) == Idle /\ ~Streaming(c) /\ ~resume[c] /\ Unsettled(c) = {}

(***************************************************************************)
(* A conversation that was asked something and in which nothing is under   *)
(* way does not say that something is: whoever waits for a terminal status *)
(* would wait forever (controller.rs:2687-2712 for a parked resume).       *)
(***************************************************************************)
RestIsTerminal ==
    \A c \in Conversations :
        (queries[c] > 0 /\ AtRest(c)) => status[c] \in Terminal

(***************************************************************************)
(* Once the progress of a conversation is cancelled, no action of it runs, *)
(* and it is not about to be resumed by itself, until another request is   *)
(* sent for it: a stop reaches the request, the actions and the resume     *)
(* wherever they are (controller.rs:2650-2652, 2669).  It fails for a user *)
(* who stops between the failure of a stream and its last callback, or     *)
(* while the actions of an output are preprocessed.                        *)
(***************************************************************************)
StopIsFinal ==
    \A c \in Conversations : stopped[c] => ExecutingIn(c) = {} /\ ~resume[c]

(***************************************************************************)
(* The results kept for a conversation answer its latest output            *)
(* (action_model.rs:231, 607).                                             *)
(***************************************************************************)
ResultsAreOfLatestOutput ==
    \A c \in Conversations :
        order[c] # <<>> => FinishedIds(c) \subseteq Elems(order[c])

(***************************************************************************)
(* A conversation that has failed stays so until another request is sent   *)
(* for it: the late results of what its shell's exit, or its stream's      *)
(* error, interrupted do not move it back (controller.rs:2783-2784).       *)
(***************************************************************************)
ErrorIsFinal ==
    [][\A c \in Conversations :
        (status[c] = "Error" /\ status[c]' # "Error") => stream[c]'.phase = "Open"
      ]_controllerVars

(***************************************************************************)
(* Every request leads to the end of its turn, or to a question to the     *)
(* user, through follow-ups, failures, resumes and cancellations.          *)
(***************************************************************************)
TurnEnds ==
    \A c \in Conversations :
        Streaming(c) ~> (status[c] = "Blocked" \/ (AtRest(c) /\ status[c] \in Terminal))
=============================================================================
