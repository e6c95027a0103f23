--------------------------- MODULE ResponseStream ---------------------------
(***************************************************************************)
(* One request to the agent: ResponseStream in                             *)
(* app/src/ai/blocklist/controller/response_stream.rs.  The request is     *)
(* sent in attempts; an attempt that fails before it acted is retried, at  *)
(* once or when the client is online again; one that fails later is        *)
(* resumed by a new request.  Every callback carries the identifier of the *)
(* attempt it belongs to and is dropped when that attempt is not current.  *)
(*                                                                         *)
(* An emitted event reaches the controller before the next callback runs,  *)
(* so a handler and the delivery of what it emits are one step.            *)
(***************************************************************************)
EXTENDS Integers, FiniteSets

CONSTANTS
    MaxRetries,     \* MAX_RETRIES
    MaxOutages,     \* bound: how often the client goes offline
    WellFormed      \* assumption: Finished or an error is a stream's last item

ASSUME MaxRetriesAssumption == MaxRetries \in Nat
ASSUME MaxOutagesAssumption == MaxOutages \in Nat
ASSUME WellFormedAssumption == WellFormed \in BOOLEAN

VARIABLES
    retryCount,     \* retry_count; it also identifies the latest attempt
    current,        \* current_request_id
    cancellable,    \* cancellation_tx is Some
    acted,          \* has_received_client_actions
    finished,       \* stream_finished_received
    errored,        \* error_event_emitted
    parked,         \* deferred_retry_pending
    resumes,        \* should_resume_conversation_after_stream_finished
    resumable,      \* can_attempt_resume_on_error
    online,         \* NetworkStatus
    outages,        \* how often the client went offline
    transport,      \* where each attempt is on its way
    waiting,        \* the callbacks that await wait_until_online
    seen,           \* the phase of the stream as its events tell the controller
    outcomes,       \* how many answers and errors the controller was given
    applied         \* the attempts whose client actions were applied

flags == <<acted, finished, errored, parked>>
vars == <<retryCount, current, cancellable, flags, resumes, resumable, online,
          outages, transport, waiting, seen, outcomes, applied>>

Attempts  == 0..MaxRetries
NoRequest == -1

Transports == {"Unsent", "Refreshing", "Sending", "Streaming", "Ending", "Over"}

Init ==
    /\ retryCount = 0
    /\ current = 0
    /\ cancellable = TRUE
    /\ acted = FALSE /\ finished = FALSE /\ errored = FALSE /\ parked = FALSE
    /\ resumes = FALSE
    /\ resumable \in BOOLEAN
    /\ online \in BOOLEAN
    /\ outages = 0
    /\ \E first \in {"Refreshing", "Sending"} :
        transport = [r \in Attempts |-> IF r = 0 THEN first ELSE "Unsent"]
    /\ waiting = {}
    /\ seen = "Open"
    /\ outcomes = 0
    /\ applied = {}

-----------------------------------------------------------------------------
(* The steps handlers are made of.                                         *)

\* The check every callback starts with.
Live(r) == current = r

\* Mutant: the attempt is retried although it acted.
RecoveryOfActed(recoverable) ==
    IF recoverable /\ retryCount < MaxRetries
    THEN IF online THEN "RetryNow" ELSE "RetryWhenOnline"
    ELSE IF acted /\ recoverable /\ resumable THEN "Resume" ELSE "Fail"

\* Mutant: one retry too many.
RecoveryOffByOne(recoverable) ==
    IF ~acted /\ recoverable /\ retryCount <= MaxRetries
    THEN IF online THEN "RetryNow" ELSE "RetryWhenOnline"
    ELSE IF acted /\ recoverable /\ resumable THEN "Resume" ELSE "Fail"

\* recovery_action
Recovery(recoverable) ==
    IF ~acted /\ recoverable /\ retryCount < MaxRetries
    THEN IF online THEN "RetryNow" ELSE "RetryWhenOnline"
    ELSE IF acted /\ recoverable /\ resumable THEN "Resume" ELSE "Fail"

\* Mutant: the parked retry is not forgotten.
FlagsKept == acted' = FALSE /\ finished' = FALSE /\ errored' = FALSE /\ UNCHANGED parked

\* What a new attempt starts with.
FlagsReset == acted' = FALSE /\ finished' = FALSE /\ errored' = FALSE /\ parked' = FALSE

\* retry: the attempt before is cut off, spawn_request starts the next one.
Retry(next, phase) ==
    /\ retryCount' = retryCount + 1
    /\ current' = retryCount + 1
    /\ cancellable' = TRUE
    /\ FlagsReset
    /\ seen' = phase
    /\ \E first \in {"Refreshing", "Sending"} :
        transport' = [next EXCEPT ![retryCount + 1] = first]
    /\ UNCHANGED <<resumes, outcomes, applied>>

\* defer_retry_until_online
Defer(next) ==
    /\ parked' = TRUE
    /\ seen' = "Waiting"
    /\ waiting' = waiting \cup {[id |-> current, woken |-> online]}
    /\ transport' = next
    /\ UNCHANGED <<retryCount, current, cancellable, acted, finished, errored,
                   resumes, outcomes, applied>>

(***************************************************************************)
(* An error of r that is surfaced; at the end of the stream it is followed *)
(* by AfterStreamFinished, after which cancellation_tx is dropped.         *)
(***************************************************************************)
Surface(next, resume, atEnd) ==
    /\ errored' = TRUE
    /\ resumes' = (resumes \/ resume)
    /\ outcomes' = outcomes + 1
    /\ seen' = IF atEnd THEN "Ended" ELSE "Failed"
    /\ cancellable' = (cancellable /\ ~atEnd)
    /\ transport' = next
    /\ UNCHANGED <<retryCount, current, acted, finished, parked, waiting, applied>>

\* How a failure of the current attempt is recovered from.
Recover(next, recoverable, atEnd) ==
    LET action == Recovery(recoverable) IN
    \/ action = "RetryNow" /\ Retry(next, seen) /\ UNCHANGED waiting
    \/ action = "RetryWhenOnline" /\ Defer(next)
    \/ action \in {"Resume", "Fail"} /\ Surface(next, action = "Resume", atEnd)

\* The callback of r is dropped.
Dropped(next) ==
    /\ transport' = next
    /\ UNCHANGED <<retryCount, current, cancellable, flags, resumes, waiting,
                   seen, outcomes, applied>>

Moved(r, state) == [transport EXCEPT ![r] = state]

-----------------------------------------------------------------------------
(* spawn_request: the credentials, then the stream.                        *)

\* The refresh is done, or that of Gemini has timed out: the request is sent.
Refreshed(r) ==
    /\ transport[r] = "Refreshing"
    /\ Dropped(Moved(r, IF Live(r) THEN "Sending" ELSE "Over"))
    /\ UNCHANGED <<resumable, online, outages>>

\* surface_grok_refresh_failure
RefreshFails(r) ==
    /\ transport[r] = "Refreshing"
    /\ IF Live(r) THEN Surface(Moved(r, "Over"), FALSE, TRUE)
                  ELSE Dropped(Moved(r, "Over"))
    /\ UNCHANGED <<resumable, online, outages>>

\* handle_response_stream_result; a stream is listened to even when it is stale.
StreamOpens(r) ==
    /\ transport[r] = "Sending"
    /\ Dropped(Moved(r, "Streaming"))
    /\ UNCHANGED <<resumable, online, outages>>

ConversionFails(r) ==
    /\ transport[r] = "Sending"
    /\ IF Live(r) THEN Surface(Moved(r, "Over"), FALSE, TRUE)
                  ELSE Dropped(Moved(r, "Over"))
    /\ UNCHANGED <<resumable, online, outages>>

-----------------------------------------------------------------------------
(* handle_response_stream_event.                                           *)

\* Where an attempt is after an answer or an error.
AfterLast == IF WellFormed THEN "Ending" ELSE "Streaming"

ActionsArrive(r) ==
    /\ transport[r] = "Streaming"
    /\ IF Live(r)
       THEN /\ acted' = TRUE
            /\ applied' = applied \cup {r}
       ELSE UNCHANGED <<acted, applied>>
    /\ UNCHANGED <<retryCount, current, cancellable, finished, errored, parked,
                   resumes, resumable, online, outages, transport, waiting,
                   seen, outcomes>>

\* StreamFinished with the reason Done, or with one that is an error.
FinishArrives(r) ==
    /\ transport[r] = "Streaming"
    /\ transport' = Moved(r, AfterLast)
    /\ IF Live(r)
       THEN /\ finished' = TRUE
            /\ seen' \in {"Completed", "Failed"}
            /\ outcomes' = outcomes + 1
       ELSE UNCHANGED <<finished, seen, outcomes>>
    /\ UNCHANGED <<retryCount, current, cancellable, acted, errored, parked,
                   resumes, resumable, online, outages, waiting, applied>>

ErrorArrives(r) ==
    /\ transport[r] = "Streaming"
    /\ \E recoverable \in BOOLEAN :
        IF Live(r) THEN Recover(Moved(r, AfterLast), recoverable, FALSE)
                   ELSE Dropped(Moved(r, AfterLast))
    /\ UNCHANGED <<resumable, online, outages>>

\* Mutant: the end of a truncated stream is not a failure.
TruncatedNever == FALSE

\* The stream ended without an answer and without an error.
Truncated == ~finished /\ ~errored

\* on_response_stream_complete
StreamCloses(r) ==
    /\ transport[r] \in {"Streaming", "Ending"}
    /\ IF ~Live(r) \/ parked THEN Dropped(Moved(r, "Over"))
       ELSE IF Truncated THEN Recover(Moved(r, "Over"), TRUE, TRUE)
       ELSE /\ seen' = "Ended"
            /\ cancellable' = FALSE
            /\ transport' = Moved(r, "Over")
            /\ UNCHANGED <<retryCount, current, flags, resumes, waiting,
                           outcomes, applied>>
    /\ UNCHANGED <<resumable, online, outages>>

-----------------------------------------------------------------------------
(* The network, the parked retries and the user.                           *)

GoOffline ==
    /\ online
    /\ outages < MaxOutages
    /\ online' = FALSE
    /\ outages' = outages + 1
    /\ UNCHANGED <<retryCount, current, cancellable, flags, resumes, resumable,
                   transport, waiting, seen, outcomes, applied>>

\* The condition of this outage is set: whoever awaits it is woken.
GoOnline ==
    /\ ~online
    /\ online' = TRUE
    /\ waiting' = {[w EXCEPT !.woken = TRUE] : w \in waiting}
    /\ UNCHANGED <<retryCount, current, cancellable, flags, resumes, resumable,
                   outages, transport, seen, outcomes, applied>>

\* Mutant: WaitingForNetwork { waiting: false } is not emitted.
RetryFiresSilently(w) ==
    /\ w.woken
    /\ waiting' = waiting \ {w}
    /\ IF Live(w.id)
       THEN Retry(transport, seen)
       ELSE UNCHANGED <<retryCount, current, cancellable, flags, resumes,
                        transport, seen, outcomes, applied>>
    /\ UNCHANGED <<resumable, online, outages>>

\* The callback of defer_retry_until_online: it does not look at the network.
RetryFires(w) ==
    /\ w.woken
    /\ waiting' = waiting \ {w}
    /\ IF Live(w.id)
       THEN Retry(transport, "Open")
       ELSE UNCHANGED <<retryCount, current, cancellable, flags, resumes,
                        transport, seen, outcomes, applied>>
    /\ UNCHANGED <<resumable, online, outages>>

\* Mutant: the request stays current when the stream is cancelled.
CancelKeepingRequest ==
    /\ seen \notin {"Ended", "Cancelled"}
    /\ cancellable' = FALSE
    /\ seen' = IF cancellable THEN "Cancelled" ELSE seen
    /\ UNCHANGED <<retryCount, current, flags, resumes, resumable, online, outages,
                   transport, waiting, outcomes, applied>>

\* cancel, of a stream the controller still holds.
Cancel ==
    /\ seen \notin {"Ended", "Cancelled"}
    /\ current' = NoRequest
    /\ cancellable' = FALSE
    /\ seen' = IF cancellable THEN "Cancelled" ELSE seen
    /\ UNCHANGED <<retryCount, flags, resumes, resumable, online, outages,
                   transport, waiting, outcomes, applied>>

\* The steps of the attempt r that its timeouts bring about in the end.
Progress(r) ==
    \/ Refreshed(r)
    \/ RefreshFails(r)
    \/ StreamOpens(r)
    \/ ConversionFails(r)
    \/ StreamCloses(r)

Next ==
    \/ \E r \in Attempts :
        \/ Progress(r)
        \/ ActionsArrive(r)
        \/ FinishArrives(r)
        \/ ErrorArrives(r)
    \/ GoOffline
    \/ GoOnline
    \/ \E w \in waiting : RetryFires(w)
    \/ Cancel

(***************************************************************************)
(* A refresh is given up after 5 or 10 seconds and a request of the relay  *)
(* after 180, so each attempt goes on; the executor runs what was woken;   *)
(* the network is assumed to come back.  Nobody has to cancel.             *)
(***************************************************************************)
Fairness ==
    /\ \A r \in Attempts : WF_vars(Progress(r))
    /\ WF_vars(GoOnline)
    /\ WF_vars(\E w \in waiting : RetryFires(w))

Spec == Init /\ [][Next]_vars /\ Fairness

-----------------------------------------------------------------------------
(* Properties.                                                             *)

(***************************************************************************)
(* The types, and the retry budget: no more than MAX_RETRIES attempts      *)
(* follow the first one (response_stream.rs:23-25), whatever callbacks of  *)
(* earlier attempts, parked retries and cancellations run late.            *)
(***************************************************************************)
StreamTypeOK ==
    /\ retryCount \in Attempts
    /\ current \in {retryCount, NoRequest}
    /\ cancellable \in BOOLEAN
    /\ {acted, finished, errored, parked, resumes, resumable, online} \subseteq BOOLEAN
    /\ outages \in 0..MaxOutages
    /\ transport \in [Attempts -> Transports]
    /\ waiting \subseteq [id : Attempts, woken : BOOLEAN]
    /\ seen \in {"Open", "Waiting", "Completed", "Failed", "Ended", "Cancelled"}
    /\ outcomes \in Nat
    /\ applied \subseteq Attempts

(***************************************************************************)
(* A request whose client actions were applied is not sent again: the      *)
(* actions of at most one attempt reach the conversation                   *)
(* (response_stream.rs:97-99).                                             *)
(***************************************************************************)
ActionsOfOneAttempt == Cardinality(applied) <= 1

(***************************************************************************)
(* A stream that ends by itself has given the controller exactly one       *)
(* answer or error before: the exchange is never left unfinished           *)
(* (controller.rs:3127-3131) and never finished twice.                     *)
(***************************************************************************)
EndIsSettled ==
    /\ outcomes <= 1
    /\ seen = "Ended" => outcomes = 1

(***************************************************************************)
(* While the controller shows that the conversation waits for the network, *)
(* a retry is parked that will run: "waiting" is never left over from an   *)
(* attempt that is gone (response_stream.rs:788-796).                      *)
(***************************************************************************)
WaitingIsParked ==
    seen = "Waiting" => parked /\ \E w \in waiting : Live(w.id)

\* What the events tell is a stream as BlocklistController takes it to be.
Contract == INSTANCE StreamContract WITH phase <- seen
ImplementsContract == Contract!Spec

(***************************************************************************)
(* Every request is settled: it ends or is cancelled, through outages,     *)
(* retries and attempts that are cut off.                                  *)
(***************************************************************************)
RequestSettles == <>(seen \in {"Ended", "Cancelled"})
=============================================================================
